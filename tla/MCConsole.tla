----------------------------- MODULE MCConsole ------------------------------
(* One letter, which has one case only, and the space.                     *)
EXTENDS Console

CONSTANTS a, SP

MCLower == [c \in {a, SP} |-> c]
=============================================================================
