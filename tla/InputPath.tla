----------------------------- MODULE InputPath ------------------------------
(***************************************************************************)
(* From the key to the console: every byte of the keyboard raises an       *)
(* interrupt, keyboard_irq decodes it (Keyboard), and what it decodes goes *)
(* through input_push into the ring that the main loop drains (InputLoop). *)
(* The decoder goes on when the ring is full, so events may be missing     *)
(* from the ring that the modifier bits have taken account of.             *)
(***************************************************************************)
EXTENDS InputLoop

CONSTANTS Keys, WIRE_MAX    \* see Keyboard

VARIABLES
  decoded,   \* what the last byte passed to input_push, if anything
  modifiers, extended, wire, down, seen, caps, clipped    \* see Keyboard

K == INSTANCE Keyboard WITH event <- decoded

ASSUME PathAssumption == K!KeyboardConstants

keyboard == <<modifiers, extended, decoded, wire, down, seen, caps, clipped>>
ring     == <<queue, read_index, write_index, event, sent, handled, lost>>
path     == <<vars, keyboard>>

(* keyboard_irq for a byte that completes an event.                        *)
EventByte == K!keyboard_irq /\ decoded' # K!NoKeyEvent /\ KeyboardIrq

(* keyboard_irq for a prefix or a code without a key: it ends hlt as well. *)
SilentByte == K!keyboard_irq /\ decoded' = K!NoKeyEvent /\ Wake /\ UNCHANGED ring

User == /\ \E k \in Keys : K!Press(k) \/ K!Release(k) \/ K!Repeat(k)
        /\ UNCHANGED vars

PathInit == Init /\ K!Init

PathNext == \/ EventByte \/ SilentByte \/ User
            \/ (TimerIrq \/ MainLoop) /\ UNCHANGED keyboard

PathSpec == PathInit /\ [][PathNext]_path

(* The processor executes the loop, and the local APIC timer is periodic.  *)
FairPath == /\ PathSpec
            /\ WF_path(MainLoop /\ UNCHANGED keyboard)
            /\ WF_path(TimerIrq /\ UNCHANGED keyboard)

-----------------------------------------------------------------------------
(* Between keys a modifier bit is set exactly when a key of its kind is    *)
(* held and none of these has cleared it since the last make code of the   *)
(* kind: the release of the other key of the kind, since one bit stands    *)
(* for both, and for CTRL the Pause key, whose bytes are decoded although  *)
(* keyboard.c says that they are ignored.  So no order of presses,         *)
(* repeats, releases and Pauses leaves a modifier stuck, also when the     *)
(* ring was full and the events were dropped.                              *)
ModifiersFollowKeys == K!ModifiersFollowKeys

(* With the last byte of a key keyboard_irq reports that very key, left    *)
(* and right told apart, whatever prefixes came before.  Pause is excepted *)
(* again: it is reported as a left Ctrl key.                               *)
EventNamesKey == [][K!NamesKey]_path

(* A letter or digit yields the shifted character if and only if a Shift   *)
(* key is held and the other Shift key was not released since the last     *)
(* make code of one of them; Caps Lock inverts that for letters only.      *)
ShiftedCharacter == [][K!RightCharacter]_path
=============================================================================
