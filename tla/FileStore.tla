----------------------------- MODULE FileStore -----------------------------
(***************************************************************************)
(* What the filesystem promises its callers while the machine is up: a map *)
(* from paths to directories and file contents.  Nothing is said here of   *)
(* records, slots, caches or sectors.                                      *)
(***************************************************************************)
EXTENDS Integers, FiniteSets, SequencesExt

CONSTANTS Path,      \* the paths, sequences of names; << >> is the root
          Texts,     \* the texts callers write
          Limit,     \* the longest content of a file
          Capacity,  \* how many files and directories there may be
          Dir,       \* the entry of a directory
          Absent     \* the entry of a path that does not exist

VARIABLE files       \* the entry of every path

Exists(p)      == files[p] # Absent
IsFile(p)      == files[p] \notin {Dir, Absent}
IsDirectory(p) == p = << >> \/ (p \in Path /\ files[p] = Dir)
Contents       == {files[p] : p \in {q \in Path : IsFile(q)}}
Cut(t)         == SubSeq(t, 1, Min({Len(t), Limit}))

Init == files = [p \in Path |-> Absent]

(* A new entry goes under a directory, and only while there is room.       *)
Create(p, entry) ==
  /\ ~Exists(p) /\ IsDirectory(Front(p))
  /\ Cardinality({q \in Path : Exists(q)}) < Capacity
  /\ files' = [files EXCEPT ![p] = entry]

(* A directory goes only when it is empty.                                 *)
Rmdir(p) ==
  /\ files[p] = Dir
  /\ \A q \in Path : Exists(q) => Front(q) # p
  /\ files' = [files EXCEPT ![p] = Absent]

Unlink(p) == IsFile(p) /\ files' = [files EXCEPT ![p] = Absent]

(* A write replaces or extends the content of that file and of no other.   *)
Replace(p, t) == IsFile(p) /\ files' = [files EXCEPT ![p] = Cut(t)]
Extend(p, t)  == IsFile(p) /\ files' = [files EXCEPT ![p] = Cut(@ \o t)]

Next ==
  \E p \in Path :
    \/ Create(p, Dir) \/ Create(p, << >>)
    \/ Rmdir(p) \/ Unlink(p)
    \/ \E t \in Texts \union Contents : Replace(p, t)
    \/ \E t \in Texts : Extend(p, t)

Spec == Init /\ [][Next]_files
=============================================================================
