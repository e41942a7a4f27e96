------------------------------- MODULE Shell --------------------------------
(***************************************************************************)
(* The commands of the console (kernel/console.c, console_command) that    *)
(* name files: the working directory, the paths vfs_normalize makes of     *)
(* what was typed (kernel/vfs.c), the calls of the filesystem that follow, *)
(* and the orderly ends of a session (kernel/power.c).                     *)
(*                                                                         *)
(* A path as typed is the sequence of what stands between its slashes, ""  *)
(* where two of them meet, and whether it begins with one.                 *)
(***************************************************************************)
EXTENDS Vfs

CONSTANTS
  NameLen,    \* the length of each word that is not "", "." or ".."
  Args,       \* the paths typed
  ArgPairs,   \* the pairs of paths typed after cp and mv
  NoArg,      \* a command line with no path on it
  NAME_MAX,   \* VFS_NAME_MAX
  PATH_MAX,   \* VFS_PATH_MAX
  PARTS_MAX,  \* the size of parts[] in vfs_normalize
  WALK_MAX    \* the depth at which console_find_walk stops

Component == DOMAIN NameLen \union {"", ".", ".."}

VARIABLES
  cwd,        \* the working directory, a normalized path
  (* History variables.                                                   *)
  scope,      \* the directory the path just typed cannot lead out of
  orderly     \* the machine was switched off by reboot or shutdown

session   == <<cwd, scope, orderly>>
shellVars == <<vars, session>>

-----------------------------------------------------------------------------
(* vfs_normalize.                                                          *)

Width(c) == CASE c = "" -> 0 [] c = "." -> 1 [] c = ".." -> 2 [] OTHER -> NameLen[c]

(* Lengths of components with a slash before each, of a typed path (one    *)
(* slash fewer than parts, or as many) and of a normalized one.            *)
Span(parts) ==
  LET upTo[n \in 0 .. Len(parts)] == IF n = 0 THEN 0 ELSE upTo[n - 1] + 1 + Width(parts[n])
  IN  upTo[Len(parts)]

ArgLen(arg) == Span(arg.parts) - (IF arg.abs THEN 0 ELSE 1)
PathLen(p)  == IF p = << >> THEN 1 ELSE Span(p)

ASSUME ShellAssumption ==
  /\ NameLen \in [DOMAIN NameLen -> Nat \ {0}]
  /\ {"", ".", ".."} \intersect DOMAIN NameLen = {} /\ "cd" \in Name
  /\ Args \subseteq [abs : BOOLEAN, parts : Seq(Component) \ {<< >>}]
  /\ \A arg \in Args : ArgLen(arg) <= PATH_MAX   \* COMMAND_MAX is no larger
  /\ ArgPairs \subseteq Args \X Args
  /\ NAME_MAX \in Nat /\ PATH_MAX \in Nat \ {0} /\ PARTS_MAX \in Nat \ {0}
  /\ Name = {w \in DOMAIN NameLen : NameLen[w] <= NAME_MAX}
  /\ WALK_MAX \in Nat /\ WALK_MAX >= PARTS_MAX /\ DEPTH_MAX >= PARTS_MAX

Refused == [ok |-> FALSE, path |-> << >>]

(* Mutant of Part: ".." does not leave a directory below the root.         *)
PartShallow(r, c) ==
  IF ~r.ok \/ c \in {"", "."} THEN r
  ELSE IF c = ".." THEN [r EXCEPT !.path = IF Len(@) > 1 THEN Front(@) ELSE @]
  ELSE IF Width(c) <= NAME_MAX /\ Len(r.path) < PARTS_MAX THEN [r EXCEPT !.path = Append(@, c)]
  ELSE Refused

(* One turn of the loop over the components.                               *)
Part(r, c) ==
  IF ~r.ok \/ c \in {"", "."} THEN r
  ELSE IF c = ".." THEN [r EXCEPT !.path = IF @ = << >> THEN @ ELSE Front(@)]
  ELSE IF Width(c) <= NAME_MAX /\ Len(r.path) < PARTS_MAX THEN [r EXCEPT !.path = Append(@, c)]
  ELSE Refused

Absolute(parts) ==
  LET after[n \in 0 .. Len(parts)] ==
        IF n = 0 THEN [ok |-> TRUE, path |-> << >>] ELSE Part(after[n - 1], parts[n])
  IN  after[Len(parts)]

(* Mutant of vfs_normalize: the length is not tested.                      *)
vfs_normalizeLong(dir, arg) ==
  Absolute(IF arg.abs THEN arg.parts ELSE Absolute(dir).path \o arg.parts)

(* A relative path is joined to the working directory and normalized again.*)
vfs_normalize(dir, arg) ==
  IF arg.abs THEN Absolute(arg.parts)
  ELSE LET work == Absolute(dir)
       IN  IF ~work.ok \/ PathLen(work.path) + 1 + ArgLen(arg) > PATH_MAX THEN Refused
           ELSE Absolute(work.path \o arg.parts)

-----------------------------------------------------------------------------
(* The commands that only look.                                            *)

vfs_is_directory(p) == LET n == find(records, p) IN n >= 0 /\ records[n].type = "dir"

vfs_list(p) == Children(records, find(records, p))

(* The entries of directory p whose path console_append_path can build.    *)
Listed(p) == {i \in vfs_list(p) : PathLen(Append(p, records[i].name)) <= PATH_MAX}

(* Mutant of console_find_walk: the limit is tested one level early.       *)
console_find_walkShort(path) ==
  LET below[d \in 0 .. WALK_MAX] ==
        [p \in Seq(Name) |->
           IF d + 1 >= WALK_MAX \/ ~vfs_is_directory(p) THEN {}
           ELSE UNION {{Append(p, records[i].name)} \union
                         (IF records[i].type = "dir"
                          THEN below[d + 1][Append(p, records[i].name)] ELSE {})
                       : i \in Listed(p)}]
  IN  below[0][path]

(* The paths console_find_walk visits, and console_tree_walk as well:      *)
(* a child whose path console_append_path cannot build is passed over.     *)
console_find_walk(path) ==
  LET below[d \in 0 .. WALK_MAX] ==
        [p \in Seq(Name) |->
           IF d >= WALK_MAX \/ ~vfs_is_directory(p) THEN {}
           ELSE UNION {{Append(p, records[i].name)} \union
                         (IF records[i].type = "dir"
                          THEN below[d + 1][Append(p, records[i].name)] ELSE {})
                       : i \in Listed(p)}]
  IN  below[0][path]

-----------------------------------------------------------------------------
(* The commands that change something.                                     *)

(* History: how far up a path may lead.                                    *)
ScopeOf(arg) == IF arg = NoArg \/ arg.abs \/ ".." \in Range(arg.parts) THEN << >> ELSE cwd

(* console_arg fails and console_error is printed.                         *)
Complain == ReturnError /\ UNCHANGED <<memory, disk, saved, want, faults>>

(* A command with one path: the call f is made if console_arg accepts it.  *)
OnPath(op, f(_)) ==
  /\ MayCall(op) /\ NewCall
  /\ \E arg \in Args \union {NoArg} :
       /\ scope' = ScopeOf(arg)
       /\ IF arg # NoArg /\ vfs_normalize(cwd, arg).ok
          THEN f(vfs_normalize(cwd, arg).path) ELSE Complain
  /\ UNCHANGED <<cwd, orderly>>

Mkdir == OnPath("mkdir", vfs_mkdir)
Rmdir == OnPath("rmdir", vfs_rmdir)
Touch == OnPath("touch", LAMBDA p : vfs_touch(p, << >>))
Rm    == OnPath("remove", LAMBDA p : vfs_remove(p, << >>))
Cat   == OnPath("read", LAMBDA p : vfs_read(p, << >>))
WriteText  == \E t \in Texts : OnPath("write", LAMBDA p : vfs_write(p, t, FALSE, << >>))
AppendText == \E t \in Texts : OnPath("append", LAMBDA p : vfs_write(p, t, TRUE, << >>))

(* cp and mv normalize both of their paths before anything is done.        *)
OnPaths(op, f(_, _)) ==
  /\ MayCall(op) /\ buf' = << >> /\ scope' = << >>
  /\ \E sd \in ArgPairs :
       LET from == vfs_normalize(cwd, sd[1])
           to   == vfs_normalize(cwd, sd[2])
       IN  IF from.ok /\ to.ok
           THEN f(from.path, to.path) /\ cargo' = IF op = "move" THEN Cargo(from.path, to.path)
                                                  ELSE NoCargo
           ELSE Complain /\ cargo' = NoCargo
  /\ UNCHANGED <<cwd, orderly>>

Cp == OnPaths("copy", vfs_copy)
Mv == OnPaths("move", vfs_move)

(* Without an argument, cd takes its own name for one.                     *)
Cd ==
  /\ MayCall("cd") /\ NewCall
  /\ \E arg \in Args \union {NoArg} :
       LET typed == IF arg = NoArg THEN [abs |-> FALSE, parts |-> <<"cd">>] ELSE arg
           to    == vfs_normalize(cwd, typed)
       IN  IF to.ok /\ vfs_is_directory(to.path)
           THEN /\ cwd' = to.path
                /\ ReturnOk(<< >>)
                /\ UNCHANGED <<memory, disk, saved, want, claim, faults>>
           ELSE Complain /\ UNCHANGED cwd
  /\ scope' = << >>
  /\ UNCHANGED orderly

(* power_reboot and power_shutdown mask interrupts and do not return.      *)
PowerOff ==
  /\ MayCall("power")
  /\ pc' = "off" /\ rc' = "none" /\ buf' = << >> /\ cargo' = NoCargo
  /\ cwd' = << >> /\ scope' = << >> /\ orderly' = TRUE
  /\ UNCHANGED <<memory, disk, cur, sec, todo, saved, want, claim, faults>>

(* A power loss, or the start of the machine with the initial cwd.         *)
Cut   == Crash /\ cwd' = << >> /\ scope' = << >> /\ orderly' = FALSE
Start == PowerOn /\ UNCHANGED session

Transfer ==
  /\ \/ Continue
     \/ FetchCached \/ FetchSectors \/ FetchFails
     \/ StoreSector \/ StoreFails \/ PersistSector \/ PersistFails
  /\ scope' = << >>
  /\ UNCHANGED <<cwd, orderly>>

ShellInit == Init /\ cwd = << >> /\ scope = << >> /\ orderly = FALSE

ShellNext ==
  /\ \/ Mkdir \/ Rmdir \/ Touch \/ Rm \/ Cat \/ WriteText \/ AppendText \/ Cp \/ Mv \/ Cd
     \/ PowerOff \/ Cut \/ Start \/ Transfer
  /\ UNCHANGED world

ShellSpec == ShellInit /\ [][ShellNext]_shellVars

-----------------------------------------------------------------------------
(* Properties.                                                             *)

(* The type invariant of a session.  A working directory always fits into  *)
(* cwd[VFS_PATH_MAX + 1], however long the path it was reached by.         *)
SessionOK ==
  /\ TypeOK
  /\ cwd \in Seq(Name) /\ Len(cwd) <= PARTS_MAX /\ PathLen(cwd) <= PATH_MAX
  /\ scope \in Seq(Name) /\ orderly \in BOOLEAN

(* What remains of a path by definition: a name stays unless some later    *)
(* stretch that begins right behind it has more ".." than names.           *)
Survives(parts, k) ==
  LET Count(n, S) == Cardinality({i \in k + 1 .. n : parts[i] \in S})
  IN  /\ parts[k] \in Name
      /\ \A n \in k + 1 .. Len(parts) : Count(n, {".."}) <= Count(n, Name)

(* The names of p are those that stay, in their order.                     *)
Remains(parts, p) ==
  \E at \in [DOMAIN p -> DOMAIN parts] :
    /\ \A i, j \in DOMAIN p : i < j => at[i] < at[j]
    /\ Range(at) = {k \in DOMAIN parts : Survives(parts, k)}
    /\ \A i \in DOMAIN p : p[i] = parts[at[i]]

(* From any working directory the session can get into, what vfs_normalize *)
(* accepts it resolves as the definition says, the joining of the two      *)
(* paths, "." and repeated slashes included, and ".." at the root.         *)
NormalizeResolves ==
  pc = "idle" =>
    \A arg \in Args :
      LET to == vfs_normalize(cwd, arg)
      IN  to.ok => Remains(IF arg.abs THEN arg.parts ELSE cwd \o arg.parts, to.path)

(* The entries a step adds, removes or turns into something else.          *)
Changed == LET old == Tree(records)
               new == Tree(records')
           IN  {e[1] : e \in (old \ new) \union (new \ old)}

(* cwd is a path, not a record: rmdir may remove the directory it names,   *)
(* and the slot may be given to something else.  From then on a command    *)
(* confined to it can do no more than make that entry again; it never      *)
(* reaches the directory or file that now has the slot.                    *)
StaleCwdInert ==
  [][pc = "idle" /\ pc' # "off" /\ scope' # << >> /\ ~vfs_is_directory(cwd)
       => Changed \subseteq {cwd}]_shellVars

(* find and tree show every entry below the directory they start from,     *)
(* and nothing else: their own depth and length limits never cut off what  *)
(* mkdir and touch accepted.                                               *)
FindListsSubtree ==
  pc = "idle" =>
    \A p \in {<< >>, cwd} :
      vfs_is_directory(p) =>
        console_find_walk(p) = {e[1] : e \in {t \in Tree(records) :
                                        t[1] # p /\ IsPrefix(p, t[1])}}

(* After reboot or shutdown the next mount finds the tree as the session   *)
(* left it: every call that returned has saved what it did.                *)
OffKeepsTree ==
  [][pc = "off" /\ pc' # "off" /\ disk_backed /\ disk_backed' /\ orderly
       => Tree(records') = Tree(records)]_shellVars
=============================================================================
