------------------------------ MODULE MCShell ------------------------------
(* Sessions of a small shell.  One of the two names is that of a command;  *)
(* "long" is a name one character too long, and a directory a in the       *)
(* directory a has a path one character too long.                          *)
EXTENDS Shell

CONSTANTS a, x

MCNameLen == a :> 8 @@ "cd" :> 2 @@ "long" :> 9

Rel(parts) == [abs |-> FALSE, parts |-> parts]
Abs(parts) == [abs |-> TRUE, parts |-> parts]

MCArgs ==
  {Rel(<<a>>), Rel(<<"cd">>), Rel(<<".">>), Rel(<<"..">>), Rel(<<"..", a>>),
   Rel(<<"..", "", "..", "cd">>), Rel(<<"long">>),
   Abs(<<"">>), Abs(<<a>>), Abs(<<a, "..", "cd">>), Abs(<<"..", a, ".", "cd">>)}

MCSomeText == {<<x>>}
MCArgPairs == {<<Rel(<<a>>), Rel(<<"cd">>)>>, <<Rel(<<a>>), Rel(<<"..", "", "..", "cd">>)>>}

MCWorlds == {[ops |-> {"mkdir", "rmdir", "touch", "remove"}, faults |-> {"crash"}],
             [ops |-> {"mkdir", "rmdir", "touch", "remove", "cd", "power"}, faults |-> {}],
             [ops |-> {"mkdir", "cd", "touch", "write", "append", "read", "copy", "move"},
              faults |-> {}],
             [ops |-> {"mkdir", "cd", "touch", "write"}, faults |-> {"read", "write"}]}
=============================================================================
