---------------------------- MODULE ConsoleProofs ---------------------------
(***************************************************************************)
(* Proofs about the line editor, for lines and histories of any length.    *)
(***************************************************************************)
EXTENDS Console, TLAPS

(* The inductive invariant.  Every loop relies on the terminator, and the  *)
(* history entries are lines only because each was such a string.          *)
IInv == TypeOK /\ LineIsString

-----------------------------------------------------------------------------
(* The smaller of two numbers.                                             *)
LEMMA MinOfTwo ==
  ASSUME NEW m \in Int, NEW n \in Int
  PROVE  Min({m, n}) = IF m <= n THEN m ELSE n
  BY DEF Min

(* The first terminator is the one at command_length.                      *)
LEMMA TextIsLine ==
  ASSUME TypeOK, LineIsString
  PROVE  /\ Text(command) = [k \in 1 .. command_length |-> command[k - 1]]
         /\ Text(command) \in Line
         /\ [command EXCEPT ![command_length] = NUL] = command
<1> DEFINE S == {k \in Position : command[k] = NUL}
<1>1. /\ command_length \in S /\ S \subseteq Int
      /\ \A k \in S : command_length <= k
  BY ConsoleAssumption DEF TypeOK, LineIsString, Position
<1>2. Min(S) = command_length
  <2> HIDE DEF S
  <2>1. \A x \in S : (\A y \in S : x <= y) => x = command_length
    BY <1>1
  <2>2. QED
    BY <1>1, <2>1 DEF Min
<1>3. Text(command) = [k \in 1 .. command_length |-> command[k - 1]]
  BY <1>2 DEF Text
<1>4. [k \in 1 .. command_length |-> command[k - 1]] \in [1 .. command_length -> Char]
  BY ConsoleAssumption DEF TypeOK, LineIsString, Position
<1>5. Text(command) \in Line
  BY <1>3, <1>4 DEF Line, TypeOK, Position
<1>6. [command EXCEPT ![command_length] = NUL] = command
  BY DEF TypeOK, LineIsString
<1>7. QED
  BY <1>3, <1>5, <1>6

(* A line is a sequence of at most COMMAND_MAX characters.                 *)
LEMMA LineLength ==
  ASSUME NEW t \in Line
  PROVE  /\ Len(t) \in Position
         /\ \A k \in 1 .. Len(t) : t[k] \in Char
<1>1. PICK n \in 0 .. COMMAND_MAX : t \in [1 .. n -> Char]
  BY DEF Line
<1>2. Len(t) = n
  BY <1>1, ConsoleAssumption
<1>3. QED
  BY <1>1, <1>2 DEF Position

(* Inserting n characters, as far as there is room, keeps the string.      *)
LEMMA InsertKeeps ==
  ASSUME IInv, NEW c \in Char, NEW n \in Nat, command_length + n <= COMMAND_MAX,
         Insert(c, n)
  PROVE  IInv'
<1>1. /\ command_cursor \in Nat /\ command_length \in Nat
      /\ command_cursor <= command_length /\ c # NUL
  BY ConsoleAssumption DEF IInv, TypeOK, Position
<1>2. command' \in [Position -> Char \union {NUL}]
  <2>1. ASSUME NEW k \in Position, ~(k < command_cursor \/ k > command_length + n),
               k # command_length + n, ~(k < command_cursor + n)
        PROVE  k - n \in Position
    BY <1>1, <2>1, ConsoleAssumption DEF Position
  <2>2. QED
    BY <1>1, <2>1 DEF Insert, Inserted, IInv, TypeOK
<1>3. TypeOK'
  BY <1>1, <1>2, ConsoleAssumption DEF Insert, IInv, TypeOK, Position
<1>4. LineIsString'
  <2>1. command_length' = command_length + n /\ command_length' \in Position
    BY <1>1, ConsoleAssumption DEF Insert, Position
  <2>2. command'[command_length'] = NUL
    BY <1>1, <2>1 DEF Insert, Inserted
  <2>3. ASSUME NEW k \in 0 .. command_length' - 1
        PROVE  command'[k] # NUL
    <3>1. k \in Position /\ k < command_length + n
      BY <1>1, <2>1, ConsoleAssumption DEF Position
    <3>2. command'[k] = IF k < command_cursor THEN command[k]
                        ELSE IF k < command_cursor + n THEN c ELSE command[k - n]
      BY <1>1, <3>1 DEF Insert, Inserted, Position
    <3>3. k < command_cursor => k \in 0 .. command_length - 1
      BY <1>1, <3>1 DEF Position
    <3>4. ~(k < command_cursor + n) => k - n \in 0 .. command_length - 1
      BY <1>1, <3>1 DEF Position
    <3>5. QED
      BY <1>1, <3>2, <3>3, <3>4 DEF IInv, LineIsString
  <2>4. QED
    BY <2>2, <2>3 DEF LineIsString
<1>5. QED
  BY <1>3, <1>4 DEF IInv

(* Putting a line of the history into the array yields a string.           *)
LEMMA SetKeeps ==
  ASSUME IInv, NEW t \in Line, console_set_command(t)
  PROVE  /\ command' \in [Position -> Char \union {NUL}]
         /\ command_length' \in Position /\ command_cursor' \in 0 .. command_length'
         /\ LineIsString'
<1>1. Len(t) \in Position /\ \A k \in 1 .. Len(t) : t[k] \in Char
  BY LineLength
<1>2. Len(t) \in Nat /\ Len(t) <= COMMAND_MAX
  BY <1>1, ConsoleAssumption DEF Position
<1>3. \A k \in Position : k < Len(t) => t[k + 1] \in Char
  BY <1>1, <1>2 DEF Position
<1>4. command' \in [Position -> Char \union {NUL}]
  BY <1>3 DEF console_set_command, IInv, TypeOK
<1>5. LineIsString'
  <2>1. command'[Len(t)] = NUL
    BY <1>1, <1>2 DEF console_set_command
  <2>2. ASSUME NEW k \in 0 .. Len(t) - 1
        PROVE  command'[k] \in Char
    <3>1. k \in Position /\ k < Len(t)
      BY <1>2, ConsoleAssumption DEF Position
    <3>2. command'[k] = t[k + 1]
      BY <3>1 DEF console_set_command
    <3>3. QED
      BY <1>3, <3>1, <3>2
  <2>3. QED
    BY <2>1, <2>2, ConsoleAssumption DEF console_set_command, LineIsString
<1>6. QED
  BY <1>1, <1>2, <1>4, <1>5 DEF console_set_command

(* Cutting the line at or before its end keeps the string.                 *)
LEMMA CutKeeps ==
  ASSUME IInv, NEW n \in 0 .. command_length, CutAt(n)
  PROVE  /\ command' \in [Position -> Char \union {NUL}]
         /\ command_length' \in Position /\ command_cursor' \in 0 .. command_length'
         /\ LineIsString'
<1>1. n \in Position /\ n <= command_length /\ command_length \in Nat
  BY ConsoleAssumption DEF IInv, TypeOK, Position
<1>2. command' \in [Position -> Char \union {NUL}]
  BY <1>1 DEF CutAt, IInv, TypeOK
<1>3. command'[n] = NUL
  BY <1>1 DEF CutAt, IInv, TypeOK
<1>4. \A k \in 0 .. n - 1 : command'[k] = command[k] /\ k \in 0 .. command_length - 1
  BY <1>1, ConsoleAssumption DEF CutAt, IInv, TypeOK, Position
<1>5. QED
  BY <1>1, <1>2, <1>3, <1>4 DEF CutAt, IInv, LineIsString, Position

(* The history stays a sequence of lines of bounded length.                *)
LEMMA HistoryKeeps ==
  ASSUME IInv, NEW line \in Line, console_add_history(line)
  PROVE  history' \in Seq(Line) /\ Len(history') <= HISTORY_MAX
<1> DEFINE longer == <<line>> \o history
           n == Min({Len(history) + 1, HISTORY_MAX})
<1>1. history \in Seq(Line) /\ Len(history) \in Nat /\ Len(history) <= HISTORY_MAX
  BY DEF IInv, TypeOK
<1>2. longer \in Seq(Line) /\ Len(longer) = Len(history) + 1
  BY <1>1
<1>3. n \in 0 .. Len(longer) /\ n <= HISTORY_MAX
  <2>1. n = IF Len(history) + 1 <= HISTORY_MAX THEN Len(history) + 1 ELSE HISTORY_MAX
    BY <1>1, MinOfTwo, ConsoleAssumption
  <2>2. QED
    BY <1>1, <1>2, <2>1, ConsoleAssumption
<1>4. SubSeq(longer, 1, n) \in Seq(Line) /\ Len(SubSeq(longer, 1, n)) = n
  <2> HIDE DEF longer, n
  <2>1. QED
    BY <1>2, <1>3
<1>5. history' \in {history, SubSeq(longer, 1, n)}
  BY DEF console_add_history
<1>6. QED
  BY <1>1, <1>3, <1>4, <1>5

(* The empty line is a line.                                               *)
LEMMA EmptyLine == << >> \in Line
<1>1. << >> \in [1 .. 0 -> Char]
  OBVIOUS
<1>2. 0 \in 0 .. COMMAND_MAX
  BY ConsoleAssumption
<1>3. QED
  BY <1>1, <1>2 DEF Line

(* What console_init leaves.                                               *)
LEMMA InitIInv == Init => IInv
<1> SUFFICES ASSUME Init PROVE IInv
  OBVIOUS
<1>2. TypeOK
  BY EmptyLine, ConsoleAssumption DEF Init, TypeOK, Position
<1>3. LineIsString
  BY ConsoleAssumption DEF Init, LineIsString, Position
<1>4. QED
  BY <1>2, <1>3 DEF IInv

(* Every key keeps the invariant.                                          *)
LEMMA Inductive == IInv /\ [Next]_vars => IInv'
<1> SUFFICES ASSUME IInv, [Next]_vars PROVE IInv'
  OBVIOUS
<1>0. /\ command_cursor \in Nat /\ command_length \in Nat
      /\ command_cursor <= command_length /\ command_length <= COMMAND_MAX
  BY ConsoleAssumption DEF IInv, TypeOK, Position
<1>1. ASSUME NEW c \in Char, Type(c) PROVE IInv'
  BY <1>0, <1>1, InsertKeeps, ConsoleAssumption DEF Type
<1>2. CASE Tab
  <2> DEFINE n == Min({Spaces, COMMAND_MAX - command_length})
  <2>1. Spaces \in Nat
    BY <1>0, ConsoleAssumption DEF Spaces, IInv, TypeOK
  <2>2. n \in Nat /\ command_length + n <= COMMAND_MAX
    BY <1>0, <2>1, MinOfTwo, ConsoleAssumption
  <2>3. Insert(Space, n)
    BY <1>2 DEF Tab
  <2> HIDE DEF n
  <2>4. QED
    BY <2>2, <2>3, InsertKeeps, ConsoleAssumption
<1>3. CASE Backspace
  <2>1. /\ command_length' = command_length - 1 /\ command_length' \in Position
        /\ command_cursor' = command_cursor - 1 /\ command_cursor' \in 0 .. command_length'
    BY <1>0, <1>3, ConsoleAssumption DEF Backspace, Position
  <2>2. \A k \in Position : k < command_length => k + 1 \in Position
    BY <1>0, ConsoleAssumption DEF Position
  <2>3. command' \in [Position -> Char \union {NUL}]
    BY <1>3, <2>2 DEF Backspace, IInv, TypeOK
  <2>4. TypeOK'
    BY <1>3, <2>1, <2>3 DEF Backspace, IInv, TypeOK
  <2>5. command'[command_length'] = NUL
    BY <1>0, <1>3, <2>1 DEF Backspace, IInv, LineIsString
  <2>6. ASSUME NEW k \in 0 .. command_length' - 1
        PROVE  command'[k] # NUL
    <3>1. k \in Position /\ k + 1 \in 0 .. command_length - 1 /\ k \in 0 .. command_length - 1
      BY <1>0, <2>1, ConsoleAssumption DEF Position
    <3>2. command'[k] \in {command[k], command[k + 1]}
      BY <1>3, <3>1 DEF Backspace
    <3>3. QED
      BY <3>1, <3>2 DEF IInv, LineIsString
  <2>7. QED
    BY <2>4, <2>5, <2>6 DEF IInv, LineIsString
<1>4. ASSUME NEW n \in 0 .. command_length, MoveTo(n) PROVE IInv'
  BY <1>4 DEF MoveTo, IInv, TypeOK, LineIsString
<1>5. CASE Left \/ Right \/ CtrlA \/ CtrlE
  <2>1. \E n \in 0 .. command_length : MoveTo(n)
    BY <1>0, <1>5 DEF Left, Right, CtrlA, CtrlE
  <2>2. QED
    BY <1>4, <2>1
<1>6. CASE CtrlU \/ CtrlK
  <2>1. /\ \E n \in 0 .. command_length : CutAt(n)
        /\ UNCHANGED <<history, history_index, prompt_columns, last>>
    BY <1>0, <1>6 DEF CtrlU, CtrlK
  <2>2. QED
    BY <2>1, CutKeeps DEF IInv, TypeOK
<1>7. CASE Up
  <2>1. Len(history) \in Nat \ {0}
    BY <1>7 DEF Up, IInv, TypeOK
  <2>2. history_index' \in 1 .. Len(history)
    <3>1. history_index + 1 \in Int /\ history_index + 1 >= 1
      BY <2>1 DEF IInv, TypeOK
    <3>2. QED
      BY <1>7, <2>1, <3>1, MinOfTwo DEF Up
  <2>3. history[history_index'] \in Line
    BY <2>2 DEF IInv, TypeOK
  <2>4. QED
    BY <1>7, <2>1, <2>2, <2>3, SetKeeps DEF Up, IInv, TypeOK
<1>8. CASE Down
  <2>1. history_index' \in 0 .. Len(history)
    BY <1>8 DEF Down, IInv, TypeOK
  <2>2. << >> \in Line
    BY EmptyLine
  <2>3. (IF history_index' > 0 THEN history[history_index'] ELSE << >>) \in Line
    BY <2>1, <2>2 DEF IInv, TypeOK
  <2>4. QED
    BY <1>8, <2>1, <2>3, SetKeeps DEF Down, IInv, TypeOK
<1>9. CASE Enter
  <2> DEFINE line == Text([command EXCEPT ![command_length] = NUL])
  <2>1. line \in Line
    BY TextIsLine DEF IInv
  <2>2. console_add_history(line) /\ CutAt(0)
    BY <1>9 DEF Enter
  <2>3. last' \in Line
    BY <1>9, <2>1 DEF Enter, IInv, TypeOK
  <2>4. history' \in Seq(Line) /\ Len(history') <= HISTORY_MAX
    <3> HIDE DEF line
    <3>1. QED
      BY <2>1, <2>2, HistoryKeeps
  <2>5. /\ command' \in [Position -> Char \union {NUL}]
        /\ command_length' \in Position /\ command_cursor' \in 0 .. command_length'
        /\ LineIsString'
    BY <1>0, <2>2, CutKeeps
  <2>6. history_index' = 0 /\ prompt_columns' \in PromptColumns
    BY <1>9 DEF Enter
  <2>7. QED
    BY <2>3, <2>4, <2>5, <2>6 DEF IInv, TypeOK
<1>10. CASE UNCHANGED vars
  BY <1>10 DEF vars, edited, IInv, TypeOK, LineIsString
<1>11. QED
  BY <1>1, <1>2, <1>3, <1>5, <1>6, <1>7, <1>8, <1>9, <1>10 DEF Next

-----------------------------------------------------------------------------
(* No sequence of keys leads out of the arrays.                            *)
THEOREM TypeCorrect == Spec => []TypeOK
<1>1. IInv => TypeOK
  BY DEF IInv
<1>2. QED
  BY <1>1, InitIInv, Inductive, PTL DEF Spec

(* The array is always the string its length says it is.                   *)
THEOREM AlwaysString == Spec => []LineIsString
<1>1. IInv => LineIsString
  BY DEF IInv
<1>2. QED
  BY <1>1, InitIInv, Inductive, PTL DEF Spec

-----------------------------------------------------------------------------
(* The text and the cursor in it.                                          *)

(* An array that holds a string of n characters.                           *)
Holds(buf, n) ==
  /\ buf \in [Position -> Char \union {NUL}] /\ n \in Position
  /\ buf[n] = NUL /\ \A k \in 0 .. n - 1 : buf[k] # NUL

Before(buf, c) == SubSeq(Text(buf), 1, c)
Behind(buf, c) == SubSeq(Text(buf), c + 1, Len(Text(buf)))

(* Two sequences with the same elements are the same.                      *)
LEMMA SameSequence ==
  ASSUME NEW S, NEW s \in Seq(S), NEW t \in Seq(S), Len(s) = Len(t),
         \A i \in 1 .. Len(s) : s[i] = t[i]
  PROVE  s = t
  OBVIOUS

(* The text of an array is its first n characters.                         *)
LEMMA TextOf ==
  ASSUME NEW buf, NEW n, Holds(buf, n)
  PROVE  /\ n \in Nat /\ n <= COMMAND_MAX
         /\ Text(buf) \in Seq(Char) /\ Len(Text(buf)) = n
         /\ \A i \in 1 .. n : Text(buf)[i] = buf[i - 1]
<1> DEFINE S == {k \in Position : buf[k] = NUL}
<1>1. n \in Nat /\ n <= COMMAND_MAX
  BY ConsoleAssumption DEF Holds, Position
<1>2. n \in S /\ S \subseteq Int /\ \A k \in S : n <= k
  BY ConsoleAssumption DEF Holds, Position
<1>3. Min(S) = n
  <2> HIDE DEF S
  <2>1. \A x \in S : (\A y \in S : x <= y) => x = n
    BY <1>2
  <2>2. QED
    BY <1>2, <2>1 DEF Min
<1>4. Text(buf) = [k \in 1 .. n |-> buf[k - 1]]
  BY <1>3 DEF Text
<1>5. \A k \in 1 .. n : buf[k - 1] \in Char
  BY <1>1, ConsoleAssumption DEF Holds, Position
<1>6. QED
  BY <1>1, <1>4, <1>5

(* A cursor splits the text in two.                                        *)
LEMMA Split ==
  ASSUME NEW buf, NEW n, Holds(buf, n), NEW c \in 0 .. n
  PROVE  /\ Before(buf, c) \in Seq(Char) /\ Len(Before(buf, c)) = c
         /\ \A i \in 1 .. c : Before(buf, c)[i] = buf[i - 1]
         /\ Behind(buf, c) \in Seq(Char) /\ Len(Behind(buf, c)) = n - c
         /\ \A i \in 1 .. n - c : Behind(buf, c)[i] = buf[c + i - 1]
         /\ Before(buf, c) \o Behind(buf, c) = Text(buf)
<1> DEFINE t == Text(buf)
<1>1. /\ n \in Nat /\ t \in Seq(Char) /\ Len(t) = n
      /\ \A i \in 1 .. n : t[i] = buf[i - 1]
  BY TextOf
<1> HIDE DEF t
<1>2. /\ SubSeq(t, 1, c) \in Seq(Char) /\ Len(SubSeq(t, 1, c)) = c
      /\ \A i \in 1 .. c : SubSeq(t, 1, c)[i] = t[i]
  BY <1>1
<1>3. /\ SubSeq(t, c + 1, n) \in Seq(Char) /\ Len(SubSeq(t, c + 1, n)) = n - c
      /\ \A i \in 1 .. n - c : SubSeq(t, c + 1, n)[i] = t[c + i]
  BY <1>1
<1>4. SubSeq(t, 1, c) \o SubSeq(t, c + 1, n) = t
  <2> DEFINE l == SubSeq(t, 1, c)
             r == SubSeq(t, c + 1, n)
  <2> HIDE DEF l, r
  <2>1. /\ l \o r \in Seq(Char) /\ Len(l \o r) = n
        /\ \A i \in 1 .. n : (l \o r)[i] = IF i <= c THEN l[i] ELSE r[i - c]
    BY <1>1, <1>2, <1>3 DEF l, r
  <2>2. ASSUME NEW i \in 1 .. n PROVE (l \o r)[i] = t[i]
    <3>1. CASE i <= c
      BY <1>1, <1>2, <2>1, <3>1 DEF l
    <3>2. CASE ~(i <= c)
      <4>1. i - c \in 1 .. n - c /\ c + (i - c) = i
        BY <1>1, <3>2
      <4>2. QED
        BY <1>1, <1>3, <2>1, <3>2, <4>1 DEF r
    <3>3. QED
      BY <3>1, <3>2
  <2>3. l \o r = t
    BY <1>1, <2>1, <2>2, SameSequence
  <2>4. QED
    BY <2>3 DEF l, r
<1>5. ASSUME NEW i \in 1 .. c PROVE t[i] = buf[i - 1]
  BY <1>1
<1>6. ASSUME NEW i \in 1 .. n - c PROVE t[c + i] = buf[c + i - 1]
  BY <1>1
<1>7. Before(buf, c) = SubSeq(t, 1, c) /\ Behind(buf, c) = SubSeq(t, c + 1, n)
  BY <1>1 DEF Before, Behind, t
<1>8. QED
  BY <1>2, <1>3, <1>4, <1>5, <1>6, <1>7 DEF t

(* Arrays that agree in front of the cursor, or behind it, hold the same   *)
(* text there.                                                             *)
LEMMA SameBefore ==
  ASSUME NEW b, NEW n, Holds(b, n), NEW d, NEW m, Holds(d, m),
         NEW c \in 0 .. n, c \in 0 .. m, \A k \in 0 .. c - 1 : d[k] = b[k]
  PROVE  Before(d, c) = Before(b, c)
<1> DEFINE s == Before(d, c)
           t == Before(b, c)
<1>1. n \in Nat /\ m \in Nat
  BY TextOf
<1>2. /\ t \in Seq(Char) /\ Len(t) = c /\ \A i \in 1 .. c : t[i] = b[i - 1]
  BY Split
<1>3. /\ s \in Seq(Char) /\ Len(s) = c /\ \A i \in 1 .. c : s[i] = d[i - 1]
  BY Split
<1> HIDE DEF s, t
<1>4. ASSUME NEW i \in 1 .. c PROVE s[i] = t[i]
  <2>1. i - 1 \in 0 .. c - 1
    BY <1>1
  <2>2. QED
    BY <1>2, <1>3, <2>1
<1>5. s = t
  BY <1>2, <1>3, <1>4, SameSequence
<1>6. QED
  BY <1>5 DEF s, t

LEMMA SameBehind ==
  ASSUME NEW b, NEW n, Holds(b, n), NEW d, NEW m, Holds(d, m),
         NEW c \in 0 .. n, NEW e \in 0 .. m, n - c = m - e,
         \A k \in 0 .. n - c - 1 : d[e + k] = b[c + k]
  PROVE  Behind(d, e) = Behind(b, c)
<1> DEFINE s == Behind(d, e)
           t == Behind(b, c)
<1>1. n \in Nat /\ m \in Nat
  BY TextOf
<1>2. /\ t \in Seq(Char) /\ Len(t) = n - c /\ \A i \in 1 .. n - c : t[i] = b[c + i - 1]
  BY Split
<1>3. /\ s \in Seq(Char) /\ Len(s) = m - e /\ \A i \in 1 .. m - e : s[i] = d[e + i - 1]
  BY Split
<1> HIDE DEF s, t
<1>4. ASSUME NEW i \in 1 .. n - c PROVE s[i] = t[i]
  <2>1. i - 1 \in 0 .. n - c - 1 /\ c + (i - 1) = c + i - 1 /\ e + (i - 1) = e + i - 1
    BY <1>1
  <2>2. d[e + (i - 1)] = b[c + (i - 1)]
    BY <2>1
  <2>3. QED
    BY <1>2, <1>3, <2>1, <2>2
<1>5. s = t
  BY <1>2, <1>3, <1>4, SameSequence
<1>6. QED
  BY <1>5 DEF s, t

(* At the ends of the line there is nothing on one side.                   *)
LEMMA AtEnds ==
  ASSUME NEW buf, NEW n, Holds(buf, n)
  PROVE  /\ Before(buf, 0) = << >> /\ Behind(buf, 0) = Text(buf)
         /\ Before(buf, n) = Text(buf) /\ Behind(buf, n) = << >>
<1> DEFINE t == Text(buf)
<1>1. n \in Nat /\ t \in Seq(Char) /\ Len(t) = n
  BY TextOf
<1> HIDE DEF t
<1>2. SubSeq(t, 1, 0) = << >> /\ SubSeq(t, n + 1, n) = << >>
  BY <1>1
<1>3. SubSeq(t, 1, n) = t
  BY <1>1
<1>4. QED
  BY <1>1, <1>2, <1>3 DEF Before, Behind, t

-----------------------------------------------------------------------------
(* What each key does to the two halves.                                   *)

(* The invariant in the terms of these lemmas.                             *)
LEMMA CommandHolds ==
  IInv => Holds(command, command_length) /\ command_cursor \in 0 .. command_length
  BY DEF IInv, TypeOK, LineIsString, Holds

LEMMA CommandHoldsAfter ==
  IInv' => Holds(command', command_length') /\ command_cursor' \in 0 .. command_length'
  BY DEF IInv, TypeOK, LineIsString, Holds

LEMMA InsertText ==
  ASSUME IInv, IInv', NEW c \in Char, NEW n \in Nat, Insert(c, n)
  PROVE  /\ Before(command', command_cursor')
              = Before(command, command_cursor) \o [k \in 1 .. n |-> c]
         /\ Behind(command', command_cursor') = Behind(command, command_cursor)
<1> DEFINE s == Before(command', command_cursor')
           t == Before(command, command_cursor)
           u == [k \in 1 .. n |-> c]
<1>1. /\ Holds(command, command_length) /\ command_cursor \in 0 .. command_length
      /\ Holds(command', command_length') /\ command_cursor' \in 0 .. command_length'
  BY CommandHolds, CommandHoldsAfter
<1>2. /\ command_length \in Nat /\ command_cursor \in Nat
      /\ command_length' = command_length + n /\ command_cursor' = command_cursor + n
      /\ command_length' <= COMMAND_MAX /\ command_cursor <= command_length
  BY <1>1, TextOf DEF Insert
<1>3. ASSUME NEW k \in 0 .. command_length' - 1
      PROVE  command'[k] = IF k < command_cursor THEN command[k]
                           ELSE IF k < command_cursor + n THEN c ELSE command[k - n]
  <2>1. k \in Position /\ ~(k > command_length + n) /\ k # command_length + n
    BY <1>2, ConsoleAssumption DEF Position
  <2>2. QED
    BY <2>1 DEF Insert, Inserted
<1>4. s = t \o u
  <2>1. /\ t \in Seq(Char) /\ Len(t) = command_cursor
        /\ \A i \in 1 .. command_cursor : t[i] = command[i - 1]
    BY <1>1, Split
  <2>2. /\ s \in Seq(Char) /\ Len(s) = command_cursor + n
        /\ \A i \in 1 .. command_cursor + n : s[i] = command'[i - 1]
    BY <1>1, <1>2, Split
  <2>3. u \in Seq(Char) /\ Len(u) = n /\ \A i \in 1 .. n : u[i] = c
    OBVIOUS
  <2> HIDE DEF s, t, u
  <2>4. /\ t \o u \in Seq(Char) /\ Len(t \o u) = command_cursor + n
        /\ \A i \in 1 .. command_cursor + n :
             (t \o u)[i] = IF i <= command_cursor THEN t[i] ELSE u[i - command_cursor]
    BY <1>2, <2>1, <2>3
  <2>5. ASSUME NEW i \in 1 .. command_cursor + n PROVE s[i] = (t \o u)[i]
    <3>1. /\ i - 1 \in 0 .. command_length' - 1
          /\ i - 1 < command_cursor + n /\ (i - 1 < command_cursor <=> i <= command_cursor)
      BY <1>2
    <3>2. s[i] = IF i <= command_cursor THEN command[i - 1] ELSE c
      BY <1>3, <2>2, <3>1
    <3>3. ~(i <= command_cursor) => i - command_cursor \in 1 .. n
      BY <1>2
    <3>4. i <= command_cursor => i \in 1 .. command_cursor
      BY <1>2
    <3>5. QED
      BY <2>1, <2>3, <2>4, <3>2, <3>3, <3>4
  <2>6. QED
    BY <2>2, <2>4, <2>5, SameSequence
<1>5. Behind(command', command_cursor') = Behind(command, command_cursor)
  <2>1. command_length - command_cursor = command_length' - command_cursor'
    BY <1>2
  <2>2. ASSUME NEW k \in 0 .. command_length - command_cursor - 1
        PROVE  command'[command_cursor' + k] = command[command_cursor + k]
    <3>1. /\ command_cursor' + k \in 0 .. command_length' - 1
          /\ ~(command_cursor' + k < command_cursor)
          /\ ~(command_cursor' + k < command_cursor + n)
          /\ (command_cursor' + k) - n = command_cursor + k
      BY <1>2
    <3>2. command'[command_cursor' + k] = command[(command_cursor' + k) - n]
      BY <1>3, <3>1
    <3>3. QED
      BY <3>1, <3>2
  <2>3. QED
    BY <1>1, <2>1, <2>2, SameBehind
<1>6. QED
  BY <1>4, <1>5

LEMMA BackspaceText ==
  ASSUME IInv, IInv', Backspace
  PROVE  /\ Before(command, command_cursor) # << >>
         /\ Before(command', command_cursor')
              = SubSeq(Before(command, command_cursor), 1,
                       Len(Before(command, command_cursor)) - 1)
         /\ Behind(command', command_cursor') = Behind(command, command_cursor)
<1> DEFINE s == Before(command', command_cursor')
           t == Before(command, command_cursor)
<1>1. /\ Holds(command, command_length) /\ command_cursor \in 0 .. command_length
      /\ Holds(command', command_length') /\ command_cursor' \in 0 .. command_length'
  BY CommandHolds, CommandHoldsAfter
<1>2. /\ command_length \in Nat /\ command_cursor \in Nat \ {0}
      /\ command_length' = command_length - 1 /\ command_cursor' = command_cursor - 1
      /\ command_length <= COMMAND_MAX /\ command_cursor <= command_length
  BY <1>1, TextOf DEF Backspace
<1>3. ASSUME NEW k \in 0 .. command_length - 1
      PROVE  command'[k] = IF k >= command_cursor - 1 THEN command[k + 1] ELSE command[k]
  <2>1. k \in Position /\ k < command_length
    BY <1>2, ConsoleAssumption DEF Position
  <2>2. QED
    BY <2>1 DEF Backspace
<1>4. t # << >> /\ s = SubSeq(t, 1, Len(t) - 1)
  <2>1. /\ t \in Seq(Char) /\ Len(t) = command_cursor
        /\ \A i \in 1 .. command_cursor : t[i] = command[i - 1]
    BY <1>1, Split
  <2>0. /\ s \in Seq(Char) /\ Len(s) = command_cursor'
        /\ \A i \in 1 .. command_cursor' : s[i] = command'[i - 1]
    BY <1>1, Split
  <2> HIDE DEF s, t
  <2>2. /\ s \in Seq(Char) /\ Len(s) = command_cursor - 1
        /\ \A i \in 1 .. command_cursor - 1 : s[i] = command'[i - 1]
    BY <1>2, <2>0
  <2>3. /\ SubSeq(t, 1, Len(t) - 1) \in Seq(Char)
        /\ Len(SubSeq(t, 1, Len(t) - 1)) = command_cursor - 1
        /\ \A i \in 1 .. command_cursor - 1 : SubSeq(t, 1, Len(t) - 1)[i] = t[i]
    BY <1>2, <2>1
  <2>4. ASSUME NEW i \in 1 .. command_cursor - 1 PROVE s[i] = t[i]
    <3>1. /\ i - 1 \in 0 .. command_length - 1 /\ ~(i - 1 >= command_cursor - 1)
          /\ i \in 1 .. command_cursor
      BY <1>2
    <3>2. QED
      BY <1>3, <2>1, <2>2, <3>1
  <2>5. s = SubSeq(t, 1, Len(t) - 1)
    BY <2>2, <2>3, <2>4, SameSequence
  <2>6. t # << >>
    BY <1>2, <2>1
  <2>7. QED
    BY <2>5, <2>6
<1>5. Behind(command', command_cursor') = Behind(command, command_cursor)
  <2>1. command_length - command_cursor = command_length' - command_cursor'
    BY <1>2
  <2>2. ASSUME NEW k \in 0 .. command_length - command_cursor - 1
        PROVE  command'[command_cursor' + k] = command[command_cursor + k]
    <3>1. /\ command_cursor' + k \in 0 .. command_length - 1
          /\ command_cursor' + k >= command_cursor - 1
          /\ command_cursor' + k + 1 = command_cursor + k
      BY <1>2
    <3>2. QED
      BY <1>3, <3>1
  <2>3. QED
    BY <1>1, <2>1, <2>2, SameBehind
<1>6. QED
  BY <1>4, <1>5

LEMMA CutText ==
  ASSUME IInv, IInv', NEW n \in 0 .. command_length, CutAt(n)
  PROVE  /\ Before(command', command_cursor') = Before(command, n)
         /\ Behind(command', command_cursor') = << >>
<1>1. /\ Holds(command, command_length) /\ Holds(command', command_length')
      /\ command_length' = n /\ command_cursor' = n
  BY CommandHolds, CommandHoldsAfter DEF CutAt
<1>2. n \in Nat /\ n <= command_length /\ command_length \in Nat /\ command_length <= COMMAND_MAX
  BY <1>1, TextOf
<1>3. \A k \in 0 .. n - 1 : command'[k] = command[k]
  BY <1>2, ConsoleAssumption DEF CutAt, IInv, TypeOK, Position
<1>4. n \in 0 .. n
  BY <1>2
<1>5. Before(command', n) = Before(command, n)
  BY <1>1, <1>3, <1>4, SameBefore
<1>6. QED
  BY <1>1, <1>5, AtEnds

LEMMA SetText ==
  ASSUME IInv, IInv', NEW t \in Line, console_set_command(t)
  PROVE  /\ Text(command') = t
         /\ Before(command', command_cursor') = t
         /\ Behind(command', command_cursor') = << >>
<1> DEFINE s == Text(command')
<1>1. Holds(command', command_length') /\ command_length' = Len(t) /\ command_cursor' = Len(t)
  BY CommandHolds, CommandHoldsAfter DEF console_set_command
<1>2. Len(t) \in Nat /\ Len(t) <= COMMAND_MAX /\ \A k \in 1 .. Len(t) : t[k] \in Char
  BY LineLength, ConsoleAssumption DEF Position
<1>3. t \in Seq(Char)
  <2>1. PICK n \in 0 .. COMMAND_MAX : t \in [1 .. n -> Char]
    BY DEF Line
  <2>2. QED
    BY <2>1, ConsoleAssumption
<1>4. s \in Seq(Char) /\ Len(s) = Len(t) /\ \A i \in 1 .. Len(t) : s[i] = command'[i - 1]
  BY <1>1, TextOf
<1>5. ASSUME NEW i \in 1 .. Len(t) PROVE command'[i - 1] = t[i]
  <2>1. i - 1 \in Position /\ i - 1 < Len(t) /\ (i - 1) + 1 = i
    BY <1>2, ConsoleAssumption DEF Position
  <2>2. QED
    BY <2>1 DEF console_set_command
<1>6. s = t
  <2> HIDE DEF s
  <2>1. QED
    BY <1>3, <1>4, <1>5, SameSequence
<1>7. QED
  BY <1>1, <1>6, AtEnds

(* Up and Down show a line of the history, or nothing.                     *)
LEMMA UpText ==
  ASSUME IInv, IInv', Up
  PROVE  /\ history_index' \in 1 .. Len(history) /\ history # << >>
         /\ history_index = 0 => history_index' = 1
         /\ Text(command') = history[history_index']
         /\ Before(command', command_cursor') = history[history_index']
         /\ Behind(command', command_cursor') = << >> /\ history' = history
<1>1. Len(history) \in Nat \ {0} /\ history_index \in 0 .. Len(history)
  BY DEF Up, IInv, TypeOK
<1>2. history_index' = IF history_index + 1 <= Len(history) THEN history_index + 1 ELSE Len(history)
  BY <1>1, MinOfTwo DEF Up
<1>3. history_index' \in 1 .. Len(history) /\ (history_index = 0 => history_index' = 1)
  BY <1>1, <1>2
<1>4. history[history_index'] \in Line
  BY <1>3 DEF IInv, TypeOK
<1>5. console_set_command(history[history_index'])
  BY DEF Up
<1>6. QED
  BY <1>3, <1>4, <1>5, SetText DEF Up

LEMMA DownText ==
  ASSUME IInv, IInv', Down
  PROVE  /\ Before(command', command_cursor')
              \in {history[i] : i \in 1 .. Len(history)} \union {<< >>}
         /\ Behind(command', command_cursor') = << >> /\ history' = history
<1> DEFINE t == IF history_index' > 0 THEN history[history_index'] ELSE << >>
<1>1. Len(history) \in Nat /\ history_index' \in 0 .. Len(history)
  BY DEF Down, IInv, TypeOK
<1>2. history_index' > 0 => history_index' \in 1 .. Len(history)
  BY <1>1
<1>3. t \in Line
  BY <1>2, EmptyLine DEF IInv, TypeOK
<1>4. t \in {history[i] : i \in 1 .. Len(history)} \union {<< >>}
  BY <1>2
<1>5. console_set_command(t) /\ history' = history
  BY DEF Down
<1> HIDE DEF t
<1>6. Before(command', command_cursor') = t /\ Behind(command', command_cursor') = << >>
  BY <1>3, <1>5, SetText
<1>7. QED
  BY <1>4, <1>5, <1>6

-----------------------------------------------------------------------------
(* Every key is a step of the editor that LineEditor describes.            *)

L == Before(command, command_cursor)
R == Behind(command, command_cursor)

(* The two halves in this state and the next, as the editor sees them.     *)
LEMMA Halves ==
  ASSUME IInv
  PROVE  /\ L \in Seq(Char) /\ R \in Seq(Char) /\ Len(L) = command_cursor
         /\ L \o R = Text(command) /\ Len(L \o R) = command_length
         /\ L = SubSeq(Text(command), 1, command_cursor)
         /\ R = SubSeq(Text(command), command_cursor + 1, Len(Text(command)))
<1>1. Holds(command, command_length) /\ command_cursor \in 0 .. command_length
  BY CommandHolds
<1>2. /\ L \in Seq(Char) /\ R \in Seq(Char) /\ Len(L) = command_cursor
      /\ L \o R = Text(command)
  BY <1>1, Split DEF L, R
<1>3. Len(Text(command)) = command_length
  BY <1>1, TextOf
<1>4. QED
  BY <1>2, <1>3 DEF L, R, Before, Behind

(* Tab inserts one to four spaces, unless the line is full.                *)
LEMMA TabSpaces == IInv => Spaces \in 1 .. 4
  BY ConsoleAssumption DEF IInv, TypeOK, Position, Spaces

(* Run keeps PastMax lines at most, as console_add_history does.           *)
LEMMA AddedLine ==
  ASSUME IInv, NEW line, console_add_history(line)
  PROVE  \/ history' = history
         \/ line # << >> /\ history' = SubSeq(<<line>> \o history, 1,
                              IF Len(history) < HISTORY_MAX THEN Len(history) + 1
                              ELSE HISTORY_MAX)
<1>1. Len(history) \in Nat
  BY DEF IInv, TypeOK
<1>2. Min({Len(history) + 1, HISTORY_MAX})
        = IF Len(history) < HISTORY_MAX THEN Len(history) + 1 ELSE HISTORY_MAX
  BY <1>1, MinOfTwo, ConsoleAssumption
<1>3. QED
  BY <1>2 DEF console_add_history

LEMMA KeyIsEdit ==
  ASSUME IInv, IInv', [Next]_vars
  PROVE  [Editor!Next]_<<L, R, history>>
<1> DEFINE l == Before(command', command_cursor')
           r == Behind(command', command_cursor')
<1>0. l = L' /\ r = R'
  BY DEF L, R, Before, Behind
<1>a. /\ L \in Seq(Char) /\ R \in Seq(Char) /\ Len(L) = command_cursor
      /\ L \o R = Text(command) /\ Len(L \o R) = command_length
  BY Halves
<1>b. /\ command_cursor \in Nat /\ command_length \in Nat
      /\ command_cursor <= command_length /\ command_length <= COMMAND_MAX
  BY ConsoleAssumption DEF IInv, TypeOK, Position
<1>1. ASSUME NEW c \in Char, Type(c) PROVE Editor!Typed
  <2>1. Insert(c, 1) /\ command_length < COMMAND_MAX /\ history' = history
    BY <1>1 DEF Type, Insert
  <2>2. l = L \o [k \in 1 .. 1 |-> c] /\ r = R
    BY <2>1, InsertText DEF L, R
  <2>3. [k \in 1 .. 1 |-> c] = <<c>>
    OBVIOUS
  <2>4. /\ Len(L \o R) < COMMAND_MAX /\ L' = L \o <<c>> /\ R' = R /\ history' = history
    BY <1>0, <1>a, <2>1, <2>2, <2>3
  <2>5. QED
    BY <2>4 DEF L, R, Before, Behind, Editor!Typed, Editor!Insert, Editor!line
<1>2. CASE Tab
  <2> DEFINE n == Min({Spaces, COMMAND_MAX - command_length})
  <2>1. Insert(Space, n) /\ history' = history
    BY <1>2 DEF Tab, Insert
  <2>2. n \in 0 .. 4 /\ command_length + n <= COMMAND_MAX
    BY <1>b, TabSpaces, MinOfTwo, ConsoleAssumption
  <2> HIDE DEF n
  <2>3. l = L \o [k \in 1 .. n |-> Space] /\ r = R
    BY <2>1, <2>2, InsertText, ConsoleAssumption DEF L, R
  <2>4. CASE n = 0
    <3>1. [k \in 1 .. 0 |-> Space] = << >>
      OBVIOUS
    <3>2. L \o << >> = L
      BY <1>a
    <3>3. UNCHANGED <<L, R, history>>
      BY <1>0, <2>1, <2>3, <2>4, <3>1, <3>2
    <3>4. QED
      BY <3>3
  <2>5. CASE n # 0
    <3>1. /\ n \in 1 .. 4 /\ Len(L \o R) + n <= COMMAND_MAX
          /\ L' = L \o [k \in 1 .. n |-> Space] /\ R' = R /\ history' = history
      BY <1>0, <1>a, <2>1, <2>2, <2>3, <2>5
    <3>2. Editor!Indent
      BY <3>1 DEF L, R, Before, Behind, Editor!Indent, Editor!Insert, Editor!line
    <3>3. QED
      BY <3>2 DEF Editor!Next
  <2>6. QED
    BY <2>4, <2>5
<1>3. CASE Backspace
  <2>1. L # << >> /\ l = SubSeq(L, 1, Len(L) - 1) /\ r = R
    BY <1>3, BackspaceText DEF L, R
  <2>2. history' = history
    BY <1>3 DEF Backspace
  <2>3. /\ L # << >> /\ L' = SubSeq(L, 1, Len(L) - 1) /\ R' = R /\ history' = history
    BY <1>0, <2>1, <2>2
  <2>4. Editor!Erase
    BY <2>3 DEF L, R, Before, Behind, Editor!Erase
  <2>5. QED
    BY <2>4 DEF Editor!Next
<1>4. CASE Left \/ Right \/ CtrlA \/ CtrlE
  <2>1. PICK n \in 0 .. command_length : MoveTo(n)
    BY <1>b, <1>4 DEF Left, Right, CtrlA, CtrlE
  <2>2. /\ L' = SubSeq(Text(command), 1, n)
        /\ R' = SubSeq(Text(command), n + 1, Len(Text(command))) /\ history' = history
    BY <2>1 DEF MoveTo, L, R, Before, Behind
  <2>3. /\ n \in 0 .. Len(L \o R) /\ L' = SubSeq(L \o R, 1, n)
        /\ R' = SubSeq(L \o R, n + 1, Len(L \o R)) /\ history' = history
    BY <1>a, <2>1, <2>2
  <2>4. Editor!GoTo
    BY <2>3 DEF L, R, Before, Behind, Editor!GoTo, Editor!line
  <2>5. QED
    BY <2>4 DEF Editor!Next
<1>5. CASE CtrlU
  <2>1. CutAt(0) /\ 0 \in 0 .. command_length /\ history' = history
    BY <1>b, <1>5 DEF CtrlU
  <2>2. l = << >> /\ r = << >>
    BY <2>1, CutText, CommandHolds, AtEnds
  <2>3. L' = << >> /\ R' = << >> /\ history' = history
    BY <1>0, <2>1, <2>2
  <2>4. Editor!CutLeft
    BY <2>3 DEF L, R, Before, Behind, Editor!CutLeft
  <2>5. QED
    BY <2>4 DEF Editor!Next
<1>6. CASE CtrlK
  <2>1. CutAt(command_cursor) /\ command_cursor \in 0 .. command_length /\ history' = history
    BY <1>b, <1>6 DEF CtrlK
  <2>2. l = L /\ r = << >>
    BY <2>1, CutText DEF L
  <2>3. L' = L /\ R' = << >> /\ history' = history
    BY <1>0, <2>1, <2>2
  <2>4. Editor!CutRight
    BY <2>3 DEF L, R, Before, Behind, Editor!CutRight
  <2>5. QED
    BY <2>4 DEF Editor!Next
<1>7. CASE Up \/ Down
  <2>1. /\ l \in {history[i] : i \in 1 .. Len(history)} \union {<< >>}
        /\ r = << >> /\ history' = history
    BY <1>7, UpText, DownText
  <2>2. /\ L' \in {history[i] : i \in 1 .. Len(history)} \union {<< >>}
        /\ R' = << >> /\ history' = history
    BY <1>0, <2>1
  <2>3. Editor!Recall
    BY <2>2 DEF L, R, Before, Behind, Editor!Recall
  <2>4. QED
    BY <2>3 DEF Editor!Next
<1>8. CASE Enter
  <2>1. CutAt(0) /\ 0 \in 0 .. command_length
    BY <1>b, <1>8 DEF Enter
  <2>2. l = << >> /\ r = << >>
    BY <2>1, CutText, CommandHolds, AtEnds
  <2>3. console_add_history(Text(command))
    BY <1>8, TextIsLine DEF Enter, IInv
  <2>4. /\ L' = << >> /\ R' = << >>
        /\ \/ history' = history
           \/ L \o R # << >> /\ history' = SubSeq(<<L \o R>> \o history, 1,
                              IF Len(history) < HISTORY_MAX THEN Len(history) + 1
                              ELSE HISTORY_MAX)
    BY <1>0, <1>a, <2>2, <2>3, AddedLine
  <2>5. Editor!Run
    BY <2>4 DEF L, R, Before, Behind, Editor!Run, Editor!line
  <2>6. QED
    BY <2>5 DEF Editor!Next
<1>9. CASE UNCHANGED vars
  BY <1>9 DEF vars, edited, L, R, Before, Behind
<1>10. QED
  BY <1>1, <1>2, <1>3, <1>4, <1>5, <1>6, <1>7, <1>8, <1>9 DEF Next, Editor!Next

(* Whatever the keys and their order, the array and its two indices behave *)
(* as a text with a cursor in it and a list of earlier lines.              *)
THEOREM ConsoleIsEditor == Spec => Implements
<1>1. Init => Editor!Init
  <2> SUFFICES ASSUME Init PROVE Editor!Init
    OBVIOUS
  <2>1. Holds(command, 0) /\ command_cursor = 0 /\ history = << >>
    BY InitIInv, CommandHolds DEF Init
  <2>2. Before(command, 0) = << >> /\ Behind(command, 0) = << >>
    BY <2>1, AtEnds
  <2>3. QED
    BY <2>1, <2>2 DEF Before, Behind, Editor!Init
<1>2. IInv /\ IInv' /\ [Next]_vars
        => [Editor!Next]_<<SubSeq(Text(command), 1, command_cursor),
                           SubSeq(Text(command), command_cursor + 1, Len(Text(command))),
                           history>>
  BY KeyIsEdit DEF L, R, Before, Behind
<1>3. QED
  BY <1>1, <1>2, InitIInv, Inductive, PTL DEF Spec, Implements, Editor!Spec

-----------------------------------------------------------------------------
(* The newest entry is the last line run, unless that line was the oldest  *)
(* one over again.                                                         *)
Recent ==
  last # << >> => /\ history # << >>
                  /\ history[1] = last \/ console_streq(Last(history), last)

(* Running a line establishes it; no other key touches the two.            *)
LEMMA RunIsRecent ==
  ASSUME IInv, IInv', Recent, [Next]_vars
  PROVE  Recent'
<1>1. CASE UNCHANGED <<history, last>>
  BY <1>1 DEF Recent, console_streq, Last
<1>2. CASE Enter
  <2> DEFINE line == Text(command)
             n == Min({Len(history) + 1, HISTORY_MAX})
             new == SubSeq(<<line>> \o history, 1, n)
  <2>1. console_add_history(line) /\ last' = (IF line = << >> THEN last ELSE line)
    BY <1>2, TextIsLine DEF Enter, IInv
  <2>2. CASE line = << >>
    BY <1>1, <2>1, <2>2 DEF console_add_history
  <2>3. CASE line # << >> /\ history # << >> /\ console_streq(Last(history), line)
    <3>1. history' = history /\ last' = line
      BY <2>1, <2>3 DEF console_add_history
    <3>2. QED
      BY <2>3, <3>1 DEF Recent, console_streq, Last
  <2>4. CASE line # << >> /\ ~(history # << >> /\ console_streq(Last(history), line))
    <3>1. history' = new /\ last' = line
      BY <2>1, <2>4 DEF console_add_history
    <3>2. line \in Line /\ history \in Seq(Line)
      BY TextIsLine DEF IInv, TypeOK
    <3>3. n \in 1 .. Len(history) + 1
      BY <3>2, MinOfTwo, ConsoleAssumption
    <3> HIDE DEF line, n
    <3>4. new # << >> /\ new[1] = line
      BY <3>2, <3>3
    <3>5. QED
      BY <3>1, <3>4 DEF Recent
  <2>5. QED
    BY <2>2, <2>3, <2>4
<1>3. QED
  BY <1>1, <1>2 DEF Next, vars, Type, Tab, Insert, Backspace, Left, Right, CtrlA, CtrlE,
                    MoveTo, CtrlU, CtrlK, Up, Down

(* The first Up after a line was run brings it back, or that line was the  *)
(* oldest of the history, case aside.                                      *)
THEOREM UpRecalls == Spec => RecallsLast
<1>1. Init => Recent
  BY DEF Init, Recent
<1>2. ASSUME IInv, IInv', Recent, [Next]_vars
      PROVE  [history_index = 0 /\ history_index' = 1 /\ last # << >>
                => Text(command') = last \/ console_streq(Last(history), last)]_vars
  <2> SUFFICES ASSUME history_index = 0, history_index' = 1, last # << >>
               PROVE  Text(command') = last \/ console_streq(Last(history), last)
    OBVIOUS
  <2>1. Up
    <3>1. ~ UNCHANGED history_index
      OBVIOUS
    <3>2. ~ Down
      BY DEF Down
    <3>3. QED
      BY <1>2, <3>1, <3>2 DEF Next, vars, Type, Tab, Insert, Backspace, Left, Right, CtrlA, CtrlE,
                        MoveTo, CtrlU, CtrlK, Enter
  <2>2. Text(command') = history[1]
    BY <1>2, <2>1, UpText
  <2>3. QED
    BY <1>2, <2>2 DEF Recent
<1>3. QED
  BY <1>1, <1>2, InitIInv, Inductive, RunIsRecent, PTL DEF Spec, RecallsLast
=============================================================================
