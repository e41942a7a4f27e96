------------------------------- MODULE MCVfs -------------------------------
(* Small instances of the filesystem.  With a header of 1, records of 2    *)
(* and sectors of 4 units, records 1 and 3 have their name in one metadata *)
(* sector and their other fields in the next, as record 34 has in the      *)
(* 512-byte sectors of the real layout.                                    *)
EXTENDS Vfs

CONSTANTS a, b, x, y

MCPath      == {<<a>>, <<b>>, <<a, b>>}
MCFlat      == {<<a>>, <<b>>}
MCTexts     == {<<x>>, <<y, y>>}
MCFlatPairs == {<<p, q>> \in MCFlat \X MCFlat : p # q}
MCSomePairs == {<< <<a>>, <<b>> >>, << <<b>>, <<a, b>> >>}

(* The calls made, and what may go wrong while they are.  Append is left   *)
(* out where power may be lost, and faults end where a reboot would follow *)
(* them: ReadBack and MountKeepsDisk do not hold there.                    *)
MCTreeOps   == {"mkdir", "rmdir", "touch", "remove"}
MCFileOps   == {"touch", "read", "write", "move"}
MCContent   == {[ops |-> MCFileOps \union {"remove"}, faults |-> {"crash"}],
                [ops |-> MCFileOps \union {"append"}, faults |-> {"read", "write"}]}
MCNoFaults  == {[ops |-> MCTreeOps \union MCFileOps \union {"append", "copy"}, faults |-> {}]}
MCAppend    == {[ops |-> {"touch", "read", "write", "append"}, faults |-> {"crash"}]}
MCMount     == {[ops |-> {"touch"}, faults |-> {"read", "crash"}]}
=============================================================================
