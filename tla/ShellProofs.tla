---------------------------- MODULE ShellProofs -----------------------------
(***************************************************************************)
(* Proofs about the commands of the console: what vfs_normalize makes of a *)
(* path, what find and tree list, and what a session does to the           *)
(* filesystem; for paths, tables and sectors of any size.                  *)
(***************************************************************************)
EXTENDS Shell, VfsTreeProofs

-----------------------------------------------------------------------------
(* Components.                                                             *)

LEMMA Words ==
  /\ Name \subseteq DOMAIN NameLen /\ Name \subseteq Component
  /\ "" \notin Name /\ "." \notin Name /\ ".." \notin Name /\ "cd" \in Name
  /\ "" \in Component /\ "." \in Component /\ ".." \in Component
  /\ \A c \in Component : c \in {"", ".", ".."} \/ c \in DOMAIN NameLen
  BY ShellAssumption DEF Component

LEMMA NamesAreParts ==
  ASSUME NEW p \in Seq(Name)
  PROVE  p \in Seq(Component) /\ Len(p) \in Nat /\ \A k \in 1 .. Len(p) : p[k] \in Name
<1>1. ASSUME NEW S, NEW T, S \subseteq T, NEW s \in Seq(S)
      PROVE  s \in Seq(T) /\ Len(s) \in Nat /\ \A k \in 1 .. Len(s) : s[k] \in S
  <2>1. Len(s) \in Nat /\ \A k \in 1 .. Len(s) : s[k] \in S
    OBVIOUS
  <2>2. s \in [1 .. Len(s) -> T]
    BY <1>1, <2>1
  <2>3. QED
    BY <2>1, <2>2
<1>2. QED
  BY <1>1, Words

LEMMA Sizes ==
  NAME_MAX \in Nat /\ PATH_MAX \in Nat \ {0} /\ PARTS_MAX \in Nat \ {0} /\ PARTS_MAX <= DEPTH_MAX
  BY ShellAssumption, SizeAssumption

LEMMA WidthIs ==
  ASSUME NEW c \in Component
  PROVE  /\ Width(c) \in Nat
         /\ c \in DOMAIN NameLen => (Width(c) <= NAME_MAX <=> c \in Name)
<1>1. CASE c \in {"", ".", ".."}
  <2>1. c \notin DOMAIN NameLen
    BY <1>1, ShellAssumption
  <2>2. Width(c) \in {0, 1, 2}
    BY <1>1 DEF Width
  <2>3. QED
    BY <2>1, <2>2
<1>2. CASE c \notin {"", ".", ".."}
  <2>1. Width(c) = NameLen[c] /\ c \in DOMAIN NameLen
    BY <1>2, Words DEF Width
  <2>2. NameLen[c] \in Nat
    BY <2>1, ShellAssumption
  <2>3. QED
    BY <2>1, <2>2, ShellAssumption
<1>3. QED
  BY <1>1, <1>2

-----------------------------------------------------------------------------
(* Loops over the components.                                              *)

(* f is the run of a loop whose turn n does h[n] to a value.               *)
Run(V, base, N, h, f) ==
  f \in [0 .. N -> V] /\ f[0] = base /\ \A n \in 1 .. N : f[n] = h[n][f[n - 1]]

(* A loop of N turns has a run, whatever a turn does.                      *)
LEMMA LoopRuns ==
  ASSUME NEW V, NEW base \in V, NEW N \in Nat, NEW h \in [1 .. N -> [V -> V]]
  PROVE  \E f : Run(V, base, N, h, f)
<1> DEFINE Runs(m, f) == f \in [0 .. m -> V] /\ f[0] = base /\ \A n \in 1 .. m : f[n] = h[n][f[n - 1]]
           S == {m \in Nat : m <= N => \E f : Runs(m, f)}
<1>1. 0 \in S
  <2> DEFINE f == [n \in 0 .. 0 |-> base]
  <2>1. f \in [0 .. 0 -> V] /\ f[0] = base
    OBVIOUS
  <2> HIDE DEF f
  <2>2. Runs(0, f)
    BY <2>1
  <2>3. QED
    BY <2>2
<1>2. ASSUME NEW m \in Nat, m \in S PROVE m + 1 \in S
  <2> SUFFICES ASSUME m + 1 <= N PROVE \E f : Runs(m + 1, f)
    OBVIOUS
  <2>1. PICK f : Runs(m, f)
    BY <1>2
  <2> DEFINE v == h[m + 1][f[m]]
             g == [n \in 0 .. m + 1 |-> IF n = m + 1 THEN v ELSE f[n]]
  <2>2. v \in V
    <3>1. m + 1 \in 1 .. N /\ m \in 0 .. m
      OBVIOUS
    <3>2. f[m] \in V /\ h[m + 1] \in [V -> V]
      BY <2>1, <3>1
    <3>3. QED
      BY <3>2
  <2>3. \A n \in 0 .. m : g[n] = f[n] /\ f[n] \in V
    BY <2>1
  <2>4. g[m + 1] = v
    OBVIOUS
  <2>5. g \in [0 .. m + 1 -> V]
    BY <2>1, <2>2
  <2> HIDE DEF g
  <2>6. g[0] = base
    BY <2>1, <2>3
  <2>7. ASSUME NEW n \in 1 .. m + 1 PROVE g[n] = h[n][g[n - 1]]
    <3>1. CASE n = m + 1
      <4>1. n - 1 = m /\ m \in 0 .. m
        BY <3>1
      <4>2. g[n - 1] = f[m]
        BY <2>3, <4>1
      <4>3. QED
        BY <2>4, <3>1, <4>2
    <3>2. CASE n # m + 1
      <4>1. n \in 1 .. m /\ n \in 0 .. m /\ n - 1 \in 0 .. m
        BY <3>2
      <4>2. g[n] = f[n] /\ g[n - 1] = f[n - 1] /\ f[n] = h[n][f[n - 1]]
        BY <2>1, <2>3, <4>1
      <4>3. QED
        BY <4>2
    <3>3. QED
      BY <3>1, <3>2
  <2> HIDE DEF v
  <2>8. Runs(m + 1, g)
    BY <2>5, <2>6, <2>7
  <2>9. QED
    BY <2>8
<1>3. N \in S
  <2> HIDE DEF S
  <2>1. QED
    BY <1>1, <1>2, EveryNat
<1>4. PICK f : Runs(N, f)
  BY <1>3
<1>5. QED
  BY <1>4 DEF Run

(* Lengths.                                                                *)
SpanTo(parts) ==
  CHOOSE f : f = [n \in 0 .. Len(parts) |-> IF n = 0 THEN 0 ELSE f[n - 1] + 1 + Width(parts[n])]

LEMMA SpanToIs ==
  ASSUME NEW parts \in Seq(Component)
  PROVE  /\ SpanTo(parts) \in [0 .. Len(parts) -> Nat] /\ SpanTo(parts)[0] = 0
         /\ \A n \in 1 .. Len(parts) :
              SpanTo(parts)[n] = SpanTo(parts)[n - 1] + 1 + Width(parts[n])
         /\ Span(parts) = SpanTo(parts)[Len(parts)] /\ Span(parts) \in Nat
<1> DEFINE N == Len(parts)
           h == [n \in 1 .. N |-> [v \in Nat |-> v + 1 + Width(parts[n])]]
           Turned(f) == [n \in 0 .. N |-> IF n = 0 THEN 0 ELSE f[n - 1] + 1 + Width(parts[n])]
<1>1. N \in Nat /\ \A n \in 1 .. N : Width(parts[n]) \in Nat
  BY WidthIs
<1>2. h \in [1 .. N -> [Nat -> Nat]]
  BY <1>1
<1>3. PICK f \in [0 .. N -> Nat] : f[0] = 0 /\ \A n \in 1 .. N : f[n] = h[n][f[n - 1]]
  <2> HIDE DEF N, h
  <2>1. \E f : Run(Nat, 0, N, h, f)
    BY <1>1, <1>2, LoopRuns
  <2>2. QED
    BY <2>1 DEF Run
<1>4. ASSUME NEW n \in 1 .. N PROVE f[n] = f[n - 1] + 1 + Width(parts[n])
  <2>1. n - 1 \in 0 .. N
    BY <1>1
  <2>2. f[n - 1] \in Nat
    BY <1>3, <2>1
  <2>3. QED
    BY <1>3, <2>2
<1>5. f = Turned(f)
  BY <1>1, <1>3, <1>4
<1> DEFINE g == SpanTo(parts)
<1>6. g = Turned(g)
  BY <1>5 DEF SpanTo
<1>7. Span(parts) = g[N]
  BY DEF Span, SpanTo
<1> HIDE DEF g
<1>8. g[0] = 0 /\ DOMAIN g = 0 .. N /\ \A n \in 1 .. N : g[n] = g[n - 1] + 1 + Width(parts[n])
  BY <1>1, <1>6
<1>9. \A n \in 0 .. N : g[n] \in Nat
  <2> DEFINE S == {n \in Nat : n <= N => g[n] \in Nat}
  <2>1. 0 \in S
    BY <1>8
  <2>2. ASSUME NEW m \in Nat, m \in S PROVE m + 1 \in S
    <3>1. CASE m + 1 <= N
      <4>1. m + 1 \in 1 .. N /\ (m + 1) - 1 = m /\ m <= N
        BY <1>1, <3>1
      <4>2. g[m] \in Nat /\ Width(parts[m + 1]) \in Nat /\ g[m + 1] = g[m] + 1 + Width(parts[m + 1])
        BY <1>1, <1>8, <2>2, <4>1
      <4>3. QED
        BY <4>2
    <3>2. QED
      BY <3>1
  <2> HIDE DEF S
  <2>3. \A m \in Nat : m \in S
    BY <2>1, <2>2, EveryNat
  <2>4. QED
    BY <1>1, <2>3 DEF S
<1>10. g \in [0 .. N -> Nat]
  BY <1>6, <1>9
<1>11. QED
  BY <1>1, <1>7, <1>8, <1>10 DEF g

(* Paths with the same beginning have the same lengths there.              *)
LEMMA SpanAgrees ==
  ASSUME NEW p \in Seq(Component), NEW q \in Seq(Component), NEW N \in Nat,
         N <= Len(p), N <= Len(q), \A k \in 1 .. N : p[k] = q[k]
  PROVE  SpanTo(p)[N] = SpanTo(q)[N]
<1> DEFINE f == SpanTo(p)
           g == SpanTo(q)
           S == {n \in Nat : n <= N => f[n] = g[n]}
<1>1. /\ f[0] = 0 /\ \A n \in 1 .. Len(p) : f[n] = f[n - 1] + 1 + Width(p[n])
      /\ g[0] = 0 /\ \A n \in 1 .. Len(q) : g[n] = g[n - 1] + 1 + Width(q[n])
  BY SpanToIs
<1> HIDE DEF f, g
<1>2. 0 \in S
  BY <1>1
<1>3. ASSUME NEW m \in Nat, m \in S PROVE m + 1 \in S
  <2> SUFFICES ASSUME m + 1 <= N PROVE f[m + 1] = g[m + 1]
    OBVIOUS
  <2>1. /\ m + 1 \in 1 .. Len(p) /\ m + 1 \in 1 .. Len(q) /\ m + 1 \in 1 .. N
        /\ (m + 1) - 1 = m /\ m <= N
    OBVIOUS
  <2>2. f[m] = g[m] /\ p[m + 1] = q[m + 1]
    BY <1>3, <2>1
  <2>3. f[m + 1] = f[m] + 1 + Width(p[m + 1]) /\ g[m + 1] = g[m] + 1 + Width(q[m + 1])
    BY <1>1, <2>1
  <2>4. QED
    BY <2>2, <2>3
<1> HIDE DEF S
<1>4. N \in S
  BY <1>2, <1>3, EveryNat
<1>5. QED
  BY <1>4 DEF S, f, g

LEMMA AppendedParts ==
  ASSUME NEW T, NEW s \in Seq(T), NEW c \in T
  PROVE  /\ Append(s, c) \in Seq(T) /\ Len(Append(s, c)) = Len(s) + 1 /\ Len(s) \in Nat
         /\ Append(s, c)[Len(s) + 1] = c /\ \A k \in 1 .. Len(s) : Append(s, c)[k] = s[k]
  OBVIOUS

LEMMA SpanAppend ==
  ASSUME NEW s \in Seq(Component), NEW c \in Component
  PROVE  Span(Append(s, c)) = Span(s) + 1 + Width(c)
<1> DEFINE q == Append(s, c)
           N == Len(s)
<1>1. /\ q \in Seq(Component) /\ Len(q) = N + 1 /\ N \in Nat
      /\ q[N + 1] = c /\ \A k \in 1 .. N : q[k] = s[k]
  BY AppendedParts
<1> HIDE DEF q
<1>2. SpanTo(q)[N] = SpanTo(s)[N]
  BY <1>1, SpanAgrees
<1> HIDE DEF N
<1>3. N + 1 \in 1 .. Len(q) /\ (N + 1) - 1 = N
  BY <1>1
<1>4. SpanTo(q)[N + 1] = SpanTo(q)[N] + 1 + Width(c)
  BY <1>1, <1>3, SpanToIs
<1>5. Span(q) = SpanTo(q)[N + 1] /\ Span(s) = SpanTo(s)[N]
  BY <1>1, SpanToIs DEF N
<1>6. QED
  BY <1>2, <1>4, <1>5 DEF q

LEMMA SpanEmpty == Span(<< >>) = 0
<1>1. << >> \in Seq(Component) /\ Len(<< >>) = 0
  OBVIOUS
<1>2. QED
  BY <1>1, SpanToIs

(* The length of two paths joined.                                         *)
LEMMA SpanJoin ==
  ASSUME NEW p \in Seq(Component), NEW q \in Seq(Component)
  PROVE  Span(p \o q) = Span(p) + Span(q)
<1> DEFINE z == p \o q
           L == Len(p)
           f == SpanTo(z)
           g == SpanTo(q)
           S == {n \in Nat : n <= Len(q) => f[L + n] = Span(p) + g[n]}
<1>1. /\ z \in Seq(Component) /\ Len(z) = L + Len(q) /\ L \in Nat /\ Len(q) \in Nat
      /\ \A k \in 1 .. L : z[k] = p[k]
      /\ \A k \in 1 .. Len(q) : z[L + k] = q[k]
  BY JoinParts
<1> HIDE DEF z
<1>2. f[L] = SpanTo(p)[L]
  BY <1>1, SpanAgrees
<1>3. Span(p) = SpanTo(p)[L] /\ Span(p) \in Nat
  BY SpanToIs
<1>4. /\ \A n \in 1 .. Len(z) : f[n] = f[n - 1] + 1 + Width(z[n])
      /\ Span(z) = f[Len(z)]
  BY <1>1, SpanToIs
<1>5. /\ g[0] = 0 /\ \A n \in 1 .. Len(q) : g[n] = g[n - 1] + 1 + Width(q[n])
      /\ Span(q) = g[Len(q)] /\ \A n \in 0 .. Len(q) : g[n] \in Nat
  BY SpanToIs
<1>6. \A n \in 1 .. Len(q) : Width(q[n]) \in Nat
  BY WidthIs
<1> HIDE DEF f, g, L
<1>7. 0 \in S
  BY <1>1, <1>2, <1>3, <1>5
<1>8. ASSUME NEW m \in Nat, m \in S PROVE m + 1 \in S
  <2> SUFFICES ASSUME m + 1 <= Len(q) PROVE f[L + (m + 1)] = Span(p) + g[m + 1]
    OBVIOUS
  <2>1. /\ m + 1 \in 1 .. Len(q) /\ m \in 0 .. Len(q) /\ (m + 1) - 1 = m
        /\ L + (m + 1) \in 1 .. Len(z) /\ (L + (m + 1)) - 1 = L + m
    BY <1>1
  <2>2. f[L + m] = Span(p) + g[m] /\ g[m] \in Nat
    BY <1>5, <1>8, <2>1
  <2>3. f[L + (m + 1)] = f[L + m] + 1 + Width(q[m + 1])
    BY <1>1, <1>4, <2>1
  <2>4. g[m + 1] = g[m] + 1 + Width(q[m + 1]) /\ Width(q[m + 1]) \in Nat
    BY <1>5, <1>6, <2>1
  <2>5. QED
    BY <1>3, <2>2, <2>3, <2>4
<1> HIDE DEF S
<1>9. Len(q) \in S
  BY <1>1, <1>7, <1>8, EveryNat
<1>10. QED
  BY <1>1, <1>4, <1>5, <1>9 DEF S, z

-----------------------------------------------------------------------------
(* vfs_normalize: one turn, and the whole loop.                            *)

State == [ok : BOOLEAN, path : Seq(Name)]

LEMMA FrontParts ==
  ASSUME NEW T, NEW p \in Seq(T), p # << >>
  PROVE  /\ Front(p) \in Seq(T) /\ Last(p) \in T /\ Append(Front(p), Last(p)) = p
         /\ Len(p) \in Nat \ {0} /\ Len(Front(p)) = Len(p) - 1
         /\ \A k \in 1 .. Len(p) - 1 : Front(p)[k] = p[k]
<1>1. Len(p) \in Nat \ {0} /\ Len(p) - 1 \in Nat /\ (Len(p) - 1) + 1 = Len(p)
  OBVIOUS
<1>2. Front(p) = SubSeq(p, 1, Len(p) - 1) /\ Last(p) = p[Len(p)]
  BY DEF Front, Last
<1>3. ASSUME NEW m \in Nat, NEW q, m + 1 = Len(p), q = SubSeq(p, 1, m)
      PROVE  /\ q \in Seq(T) /\ p[m + 1] \in T /\ Append(q, p[m + 1]) = p
             /\ Len(q) = m /\ \A k \in 1 .. m : q[k] = p[k]
  <2>1. \A k \in 1 .. m : k \in 1 .. Len(p) /\ p[k] \in T
    BY <1>3
  <2>2. q \in Seq(T)
    BY <1>3, <2>1
  <2>3. Len(q) = m /\ \A k \in 1 .. m : q[k] = p[k]
    BY <1>3, <2>1
  <2>4. p[m + 1] \in T
    BY <1>3
  <2>5. Append(q, p[m + 1]) = p
    BY <1>3, <2>2, <2>3, <2>4
  <2>6. QED
    BY <2>2, <2>3, <2>4, <2>5
<1>4. QED
  BY <1>1, <1>2, <1>3

LEMMA PartIs ==
  ASSUME NEW r \in State, NEW c \in Component
  PROVE  /\ Part(r, c) \in State
         /\ ~r.ok \/ c \in {"", "."} => Part(r, c) = r
         /\ r.ok /\ c = ".." =>
              /\ Part(r, c).ok
              /\ Part(r, c).path = IF r.path = << >> THEN r.path ELSE Front(r.path)
         /\ r.ok /\ c \in Name /\ Len(r.path) < PARTS_MAX =>
              Part(r, c).ok /\ Part(r, c).path = Append(r.path, c)
         /\ r.ok /\ c \notin {"", ".", ".."} /\ ~(c \in Name /\ Len(r.path) < PARTS_MAX) =>
              ~Part(r, c).ok /\ Part(r, c).path = << >>
<1>1. r.ok \in BOOLEAN /\ r.path \in Seq(Name)
  BY DEF State
<1>2. CASE ~r.ok \/ c \in {"", "."}
  BY <1>2, Words DEF Part
<1>3. CASE r.ok /\ c = ".."
  <2> DEFINE p == IF r.path = << >> THEN r.path ELSE Front(r.path)
  <2>1. Part(r, c) = [r EXCEPT !.path = p]
    BY <1>3 DEF Part
  <2>2. p \in Seq(Name)
    BY <1>1, FrontParts
  <2> HIDE DEF p
  <2>3. Part(r, c) \in State /\ Part(r, c).ok /\ Part(r, c).path = p
    BY <1>3, <2>1, <2>2 DEF State
  <2>4. QED
    BY <1>3, <2>3, Words DEF p
<1>4. CASE r.ok /\ c \notin {"", ".", ".."} /\ c \in Name /\ Len(r.path) < PARTS_MAX
  <2>0. c \in DOMAIN NameLen
    BY <1>4, Words
  <2>1. Width(c) <= NAME_MAX
    BY <1>4, <2>0, WidthIs
  <2>2. Part(r, c) = [r EXCEPT !.path = Append(r.path, c)]
    BY <1>4, <2>1 DEF Part
  <2>3. Append(r.path, c) \in Seq(Name)
    BY <1>1, <1>4, AppendedParts
  <2>4. QED
    BY <1>4, <2>2, <2>3 DEF State
<1>5. CASE r.ok /\ c \notin {"", ".", ".."} /\ ~(c \in Name /\ Len(r.path) < PARTS_MAX)
  <2>0. c \in DOMAIN NameLen
    BY <1>5, Words
  <2>1. ~(Width(c) <= NAME_MAX /\ Len(r.path) < PARTS_MAX)
    BY <1>5, <2>0, WidthIs
  <2> DEFINE e == << >>
  <2>2. Part(r, c) = [ok |-> FALSE, path |-> e]
    BY <1>5, <2>1 DEF Part, Refused
  <2>3. e \in Seq(Name)
    OBVIOUS
  <2> HIDE DEF e
  <2>4. Part(r, c) \in State /\ ~Part(r, c).ok /\ Part(r, c).path = e
    BY <2>2, <2>3 DEF State
  <2>5. QED
    BY <1>5, <2>4, Words DEF e
<1>6. QED
  BY <1>2, <1>3, <1>4, <1>5, Words

LEMMA TurnIs ==
  ASSUME NEW r \in State, NEW c \in Component, NEW v, v = Part(r, c)
  PROVE  /\ v \in State
         /\ ~r.ok \/ c \in {"", "."} => v = r
         /\ r.ok /\ c = ".." => v.ok /\ v.path = IF r.path = << >> THEN r.path ELSE Front(r.path)
         /\ r.ok /\ c \in Name /\ Len(r.path) < PARTS_MAX => v.ok /\ v.path = Append(r.path, c)
         /\ r.ok /\ c \notin {"", ".", ".."} /\ ~(c \in Name /\ Len(r.path) < PARTS_MAX) =>
              ~v.ok /\ v.path = << >>
  BY PartIs

Begun == [ok |-> TRUE, path |-> << >>]

AbsTo(parts) ==
  CHOOSE f : f = [n \in 0 .. Len(parts) |-> IF n = 0 THEN Begun ELSE Part(f[n - 1], parts[n])]

LEMMA BegunIs == Begun \in State /\ Begun.ok /\ Begun.path = << >>
<1> DEFINE e == << >>
<1>1. Begun = [ok |-> TRUE, path |-> e] /\ e \in Seq(Name)
  BY DEF Begun
<1> HIDE DEF e
<1>2. Begun \in State /\ Begun.ok /\ Begun.path = e
  BY <1>1 DEF State
<1>3. QED
  BY <1>2 DEF e

LEMMA AbsToIs ==
  ASSUME NEW parts \in Seq(Component)
  PROVE  /\ AbsTo(parts) \in [0 .. Len(parts) -> State] /\ AbsTo(parts)[0] = Begun
         /\ \A n \in 1 .. Len(parts) : AbsTo(parts)[n] = Part(AbsTo(parts)[n - 1], parts[n])
         /\ Absolute(parts) = AbsTo(parts)[Len(parts)]
<1> DEFINE N == Len(parts)
           h == [n \in 1 .. N |-> [v \in State |-> Part(v, parts[n])]]
           Turned(f) == [n \in 0 .. N |-> IF n = 0 THEN Begun ELSE Part(f[n - 1], parts[n])]
<1>1. N \in Nat /\ \A n \in 1 .. N : parts[n] \in Component
  OBVIOUS
<1>2. h \in [1 .. N -> [State -> State]]
  BY <1>1, PartIs
<1>3. PICK f \in [0 .. N -> State] : f[0] = Begun /\ \A n \in 1 .. N : f[n] = h[n][f[n - 1]]
  <2> HIDE DEF N, h
  <2>1. \E f : Run(State, Begun, N, h, f)
    BY <1>1, <1>2, BegunIs, LoopRuns
  <2>2. QED
    BY <2>1 DEF Run
<1>4. ASSUME NEW n \in 1 .. N PROVE f[n] = Part(f[n - 1], parts[n])
  <2>1. n - 1 \in 0 .. N
    BY <1>1
  <2>2. f[n - 1] \in State
    BY <1>3, <2>1
  <2>3. QED
    BY <1>3, <2>2
<1>5. f = Turned(f)
  BY <1>1, <1>3, <1>4
<1> DEFINE g == AbsTo(parts)
<1>6. g = Turned(g)
  BY <1>5 DEF AbsTo
<1>7. Absolute(parts) = g[N]
  BY DEF Absolute, AbsTo, Begun
<1> HIDE DEF g
<1>8. g[0] = Begun /\ DOMAIN g = 0 .. N /\ \A n \in 1 .. N : g[n] = Part(g[n - 1], parts[n])
  BY <1>1, <1>6
<1>9. \A n \in 0 .. N : g[n] \in State
  <2> DEFINE S == {n \in Nat : n <= N => g[n] \in State}
  <2>1. 0 \in S
    BY <1>8, BegunIs
  <2>2. ASSUME NEW m \in Nat, m \in S PROVE m + 1 \in S
    <3>1. CASE m + 1 <= N
      <4>1. m + 1 \in 1 .. N /\ (m + 1) - 1 = m /\ m <= N
        BY <1>1, <3>1
      <4>2. g[m] \in State /\ parts[m + 1] \in Component /\ g[m + 1] = Part(g[m], parts[m + 1])
        BY <1>1, <1>8, <2>2, <4>1
      <4> DEFINE r == g[m]
                 c == parts[m + 1]
                 v == g[m + 1]
      <4>3. r \in State /\ c \in Component /\ v = Part(r, c)
        BY <4>2
      <4> HIDE DEF r, c, v
      <4>4. v \in State
        BY ONLY <4>3, TurnIs
      <4>5. QED
        BY <4>4 DEF v
    <3>2. QED
      BY <3>1
  <2> HIDE DEF S
  <2>3. \A m \in Nat : m \in S
    BY <2>1, <2>2, EveryNat
  <2>4. QED
    BY <1>1, <2>3 DEF S
<1>10. g \in [0 .. N -> State]
  BY <1>6, <1>9
<1>11. QED
  BY <1>1, <1>7, <1>8, <1>10 DEF g

(* Names pass through one by one, as many as parts[] holds.                *)
LEMMA NamesPass ==
  ASSUME NEW parts \in Seq(Component), NEW N \in Nat, N <= Len(parts), N <= PARTS_MAX,
         \A k \in 1 .. N : parts[k] \in Name
  PROVE  /\ AbsTo(parts)[N].ok /\ Len(AbsTo(parts)[N].path) = N
         /\ \A k \in 1 .. N : AbsTo(parts)[N].path[k] = parts[k]
<1> DEFINE g == AbsTo(parts)
           Same(n) == g[n].ok /\ Len(g[n].path) = n /\ \A k \in 1 .. n : g[n].path[k] = parts[k]
           S == {n \in Nat : n <= N => Same(n)}
<1>1. /\ g \in [0 .. Len(parts) -> State] /\ g[0] = Begun
      /\ \A n \in 1 .. Len(parts) : g[n] = Part(g[n - 1], parts[n])
  BY AbsToIs
<1> HIDE DEF g
<1>2. 0 \in S
  <2>1. g[0].ok /\ g[0].path = << >>
    BY <1>1, BegunIs
  <2>2. Len(g[0].path) = 0
    BY <2>1, EmptyLength
  <2>3. QED
    BY <2>1, <2>2
<1>3. ASSUME NEW m \in Nat, m \in S PROVE m + 1 \in S
  <2> SUFFICES ASSUME m + 1 <= N PROVE Same(m + 1)
    OBVIOUS
  <2>1. /\ m + 1 \in 1 .. Len(parts) /\ m + 1 \in 1 .. N /\ (m + 1) - 1 = m /\ m \in 0 .. Len(parts)
        /\ m < PARTS_MAX
    BY Sizes
  <2>2. Same(m) /\ g[m] \in State /\ parts[m + 1] \in Name /\ parts[m + 1] \in Component
    BY <1>1, <1>3, <2>1
  <2> DEFINE p == g[m].path
             c == parts[m + 1]
             q == g[m + 1].path
  <2>3. g[m + 1].ok /\ q = Append(p, c)
    <3>1. g[m + 1] = Part(g[m], c)
      BY <1>1, <2>1
    <3>2. g[m].ok /\ Len(g[m].path) < PARTS_MAX
      BY <2>1, <2>2
    <3> DEFINE r == g[m]
               v == g[m + 1]
    <3>3. r \in State /\ c \in Name /\ c \in Component /\ r.ok /\ Len(r.path) < PARTS_MAX /\ v = Part(r, c)
      BY <2>2, <3>1, <3>2
    <3> HIDE DEF r, c, v
    <3>4. v.ok /\ v.path = Append(r.path, c)
      BY ONLY <3>3, TurnIs
    <3>5. QED
      BY <3>4 DEF r, v
  <2>4. p \in Seq(Name) /\ c \in Name /\ Len(p) = m /\ \A k \in 1 .. m : p[k] = parts[k]
    BY <2>2 DEF State
  <2> HIDE DEF p, q
  <2>5. Len(q) = m + 1 /\ q[m + 1] = c /\ \A k \in 1 .. m : q[k] = parts[k]
    BY <2>3, <2>4, AppendedParts
  <2>6. \A k \in 1 .. m + 1 : k = m + 1 \/ k \in 1 .. m
    OBVIOUS
  <2>7. QED
    BY <2>3, <2>5, <2>6 DEF q
<1> HIDE DEF S
<1>4. N \in S
  BY <1>2, <1>3, EveryNat
<1>5. QED
  BY <1>4 DEF S, g

-----------------------------------------------------------------------------
(* What remains of a path.                                                 *)

Tally(parts, k, m, S) == Cardinality({i \in k + 1 .. m : parts[i] \in S})

Balance(parts, k, m) == Tally(parts, k, m, Name) - Tally(parts, k, m, {".."})

LEMMA TallyStep ==
  ASSUME NEW parts, NEW S, NEW k \in Nat, NEW m \in Nat, k <= m
  PROVE  /\ Tally(parts, k, k, S) = 0
         /\ Tally(parts, k, m, S) \in Nat
         /\ Tally(parts, k, m + 1, S) = Tally(parts, k, m, S) + IF parts[m + 1] \in S THEN 1 ELSE 0
<1> DEFINE Met(n) == {i \in k + 1 .. n : parts[i] \in S}
<1>1. Met(k) = {}
  OBVIOUS
<1>2. IsFiniteSet(k + 1 .. m)
  BY FS_Interval
<1>3. IsFiniteSet(Met(m))
  BY <1>2, FS_Subset
<1>4. Met(m + 1) = Met(m) \union (IF parts[m + 1] \in S THEN {m + 1} ELSE {}) /\ m + 1 \notin Met(m)
  <2>1. \A i : i \in k + 1 .. m + 1 <=> i \in k + 1 .. m \/ i = m + 1
    OBVIOUS
  <2>2. m + 1 \notin k + 1 .. m
    OBVIOUS
  <2>3. QED
    BY <2>1, <2>2
<1>5. /\ Tally(parts, k, k, S) = Cardinality(Met(k))
      /\ Tally(parts, k, m, S) = Cardinality(Met(m))
      /\ Tally(parts, k, m + 1, S) = Cardinality(Met(m + 1))
  BY DEF Tally
<1>6. Cardinality(Met(k)) = 0
  BY <1>1, FS_EmptySet
<1>7. Cardinality(Met(m)) \in Nat
  BY <1>3, FS_CardinalityType
<1> HIDE DEF Met
<1>8. CASE parts[m + 1] \in S
  <2>1. Met(m + 1) = Met(m) \union {m + 1}
    BY <1>4, <1>8
  <2>2. Cardinality(Met(m) \union {m + 1}) = Cardinality(Met(m)) + 1
    BY <1>3, <1>4, FS_AddElement
  <2>3. QED
    BY <1>5, <1>6, <1>7, <1>8, <2>1, <2>2
<1>9. CASE parts[m + 1] \notin S
  <2>1. Met(m + 1) = Met(m)
    BY <1>4, <1>9
  <2>2. QED
    BY <1>5, <1>6, <1>7, <1>9, <2>1
<1>10. QED
  BY <1>8, <1>9

(* A component that is no name and not ".." leaves the balance alone.      *)
LEMMA BalanceStep ==
  ASSUME NEW parts, NEW k \in Nat, NEW m \in Nat, k <= m
  PROVE  /\ Balance(parts, k, k) = 0 /\ Balance(parts, k, m) \in Int
         /\ parts[m + 1] \in Name => Balance(parts, k, m + 1) = Balance(parts, k, m) + 1
         /\ parts[m + 1] = ".." => Balance(parts, k, m + 1) = Balance(parts, k, m) - 1
         /\ parts[m + 1] \notin Name /\ parts[m + 1] # ".." =>
              Balance(parts, k, m + 1) = Balance(parts, k, m)
<1> DEFINE a(n) == Tally(parts, k, n, Name)
           b(n) == Tally(parts, k, n, {".."})
<1>1. /\ a(k) = 0 /\ a(m) \in Nat
      /\ a(m + 1) = a(m) + IF parts[m + 1] \in Name THEN 1 ELSE 0
  BY TallyStep
<1>2. /\ b(k) = 0 /\ b(m) \in Nat
      /\ b(m + 1) = b(m) + IF parts[m + 1] \in {".."} THEN 1 ELSE 0
  BY TallyStep
<1> DEFINE x == Balance(parts, k, m)
           y == Balance(parts, k, m + 1)
           z == Balance(parts, k, k)
           c == parts[m + 1]
<1>3. x = a(m) - b(m) /\ y = a(m + 1) - b(m + 1) /\ z = a(k) - b(k)
  BY DEF Balance
<1>4. z = 0 /\ x \in Int /\ c = parts[m + 1] /\ y = x + (IF c \in Name THEN 1 ELSE 0) - (IF c = ".." THEN 1 ELSE 0)
  BY <1>1, <1>2, <1>3
<1>5. c = ".." => c \notin Name
  BY Words
<1> HIDE DEF a, b, x, y, z, c
<1>6. /\ z = 0 /\ x \in Int /\ c \in Name => y = x + 1
      /\ c = ".." => y = x - 1
      /\ c \notin Name /\ c # ".." => y = x
  BY ONLY <1>4, <1>5
<1>7. QED
  BY <1>4, <1>6 DEF x, y, z, c

(* Component k survives the first n.                                       *)
SurvivesAt(parts, k, n) ==
  parts[k] \in Name /\ \A m \in k + 1 .. n : Balance(parts, k, m) >= 0

LEMMA SurvivesIs ==
  ASSUME NEW parts \in Seq(Component), NEW k \in 1 .. Len(parts)
  PROVE  Survives(parts, k) <=> SurvivesAt(parts, k, Len(parts))
<1>1. ASSUME NEW m \in k + 1 .. Len(parts)
      PROVE  Tally(parts, k, m, {".."}) <= Tally(parts, k, m, Name) <=> Balance(parts, k, m) >= 0
  <2>1. k \in Nat /\ m \in Nat /\ k <= m
    OBVIOUS
  <2>2. Tally(parts, k, m, {".."}) \in Nat /\ Tally(parts, k, m, Name) \in Nat
    BY <2>1, TallyStep
  <2>3. QED
    BY <2>2 DEF Balance
<1>2. QED
  BY <1>1 DEF Survives, SurvivesAt, Tally

LEMMA SurvivesStep ==
  ASSUME NEW parts, NEW k \in Nat, NEW n \in Nat, k <= n
  PROVE  /\ SurvivesAt(parts, k, n + 1) <=> SurvivesAt(parts, k, n) /\ Balance(parts, k, n + 1) >= 0
         /\ SurvivesAt(parts, k, n) => Balance(parts, k, n) >= 0
         /\ SurvivesAt(parts, n + 1, n + 1) <=> parts[n + 1] \in Name
<1>1. \A m : m \in k + 1 .. n + 1 <=> m \in k + 1 .. n \/ m = n + 1
  OBVIOUS
<1>2. SurvivesAt(parts, k, n + 1) <=> SurvivesAt(parts, k, n) /\ Balance(parts, k, n + 1) >= 0
  BY <1>1 DEF SurvivesAt
<1>3. SurvivesAt(parts, k, n) => Balance(parts, k, n) >= 0
  <2>1. CASE k = n
    BY <2>1, BalanceStep
  <2>2. CASE k < n
    BY <2>2 DEF SurvivesAt
  <2>3. QED
    BY <2>1, <2>2
<1>4. (n + 1) + 1 .. n + 1 = {}
  OBVIOUS
<1>5. QED
  BY <1>2, <1>3, <1>4 DEF SurvivesAt

LEMMA SurvivesLast ==
  ASSUME NEW parts, NEW n \in Nat
  PROVE  (SurvivesAt(parts, n + 1, n + 1) <=> parts[n + 1] \in Name) /\ Balance(parts, n + 1, n + 1) = 0
<1>1. n <= n /\ n + 1 \in Nat /\ n + 1 <= n + 1
  OBVIOUS
<1>2. SurvivesAt(parts, n + 1, n + 1) <=> parts[n + 1] \in Name
  BY <1>1, SurvivesStep
<1>3. Balance(parts, n + 1, n + 1) = 0
  BY <1>1, BalanceStep
<1>4. QED
  BY <1>2, <1>3

(* The names of p are the survivors of the first n components, at[i] the   *)
(* place of the i-th; each is followed by the names behind it in p.        *)
KeptNames(parts, n, p, at) ==
  /\ at \in [1 .. Len(p) -> 1 .. n]
  /\ \A i, j \in 1 .. Len(p) : i < j => at[i] < at[j]
  /\ \A i \in 1 .. Len(p) : /\ SurvivesAt(parts, at[i], n) /\ p[i] = parts[at[i]]
                            /\ Balance(parts, at[i], n) = Len(p) - i
  /\ \A k \in 1 .. n : SurvivesAt(parts, k, n) => \E i \in 1 .. Len(p) : k = at[i]

LEMMA KeptBegins ==
  ASSUME NEW parts, NEW p, p = << >>
  PROVE  \E at : KeptNames(parts, 0, p, at)
<1>1. Len(p) = 0
  BY EmptyLength
<1> DEFINE at == [i \in 1 .. 0 |-> 0]
<1>2. at \in [1 .. Len(p) -> 1 .. 0] /\ 1 .. Len(p) = {} /\ 1 .. 0 = {}
  BY <1>1
<1> HIDE DEF at
<1>3. KeptNames(parts, 0, p, at)
  BY <1>2 DEF KeptNames
<1>4. QED
  BY <1>3

(* A name is added.                                                        *)
LEMMA KeptName ==
  ASSUME NEW parts, NEW n \in Nat, NEW p \in Seq(Name), NEW at, KeptNames(parts, n, p, at),
         NEW c \in Name, c = parts[n + 1], NEW q, q = Append(p, c)
  PROVE  \E b : KeptNames(parts, n + 1, q, b)
<1> DEFINE L == Len(p)
           b == [i \in 1 .. L + 1 |-> IF i = L + 1 THEN n + 1 ELSE at[i]]
<1>1. L \in Nat /\ Len(q) = L + 1 /\ q[L + 1] = c /\ \A k \in 1 .. L : q[k] = p[k]
  BY AppendedParts
<1> HIDE DEF L
<1>2. /\ at \in [1 .. L -> 1 .. n]
      /\ \A i, j \in 1 .. L : i < j => at[i] < at[j]
      /\ \A i \in 1 .. L : /\ SurvivesAt(parts, at[i], n) /\ p[i] = parts[at[i]]
                           /\ Balance(parts, at[i], n) = L - i
      /\ \A k \in 1 .. n : SurvivesAt(parts, k, n) => \E i \in 1 .. L : k = at[i]
  BY DEF KeptNames, L
<1>3. /\ b \in [1 .. L + 1 -> 1 .. n + 1] /\ b[L + 1] = n + 1
      /\ \A i \in 1 .. L : b[i] = at[i] /\ at[i] \in 1 .. n
  BY <1>1, <1>2
<1> HIDE DEF b
<1>4. \A i \in 1 .. L + 1 : i = L + 1 \/ i \in 1 .. L
  BY <1>1
<1>5. \A i, j \in 1 .. L + 1 : i < j => b[i] < b[j]
  <2> SUFFICES ASSUME NEW i \in 1 .. L + 1, NEW j \in 1 .. L + 1, i < j PROVE b[i] < b[j]
    OBVIOUS
  <2>1. i \in 1 .. L
    BY <1>1
  <2>2. b[i] \in 1 .. n
    BY <1>3, <2>1
  <2>3. CASE j = L + 1
    BY <1>3, <2>2, <2>3
  <2>4. CASE j \in 1 .. L
    BY <1>2, <1>3, <2>1, <2>4
  <2>5. QED
    BY <1>4, <2>3, <2>4
<1>6. ASSUME NEW k \in 1 .. n
      PROVE  /\ Balance(parts, k, n + 1) = Balance(parts, k, n) + 1
             /\ SurvivesAt(parts, k, n + 1) <=> SurvivesAt(parts, k, n)
  <2>1. k \in Nat /\ k <= n
    OBVIOUS
  <2>2. Balance(parts, k, n) \in Int /\ Balance(parts, k, n + 1) = Balance(parts, k, n) + 1
    BY <2>1, BalanceStep
  <2>3. /\ SurvivesAt(parts, k, n + 1) <=> SurvivesAt(parts, k, n) /\ Balance(parts, k, n + 1) >= 0
        /\ SurvivesAt(parts, k, n) => Balance(parts, k, n) >= 0
    BY <2>1, SurvivesStep
  <2>4. QED
    BY <2>2, <2>3
<1>7. SurvivesAt(parts, n + 1, n + 1) /\ Balance(parts, n + 1, n + 1) = 0
  BY SurvivesLast
<1>8. ASSUME NEW i \in 1 .. L + 1
      PROVE  /\ SurvivesAt(parts, b[i], n + 1) /\ q[i] = parts[b[i]]
             /\ Balance(parts, b[i], n + 1) = (L + 1) - i
  <2>1. CASE i = L + 1
    BY <1>1, <1>3, <1>7, <2>1
  <2>2. CASE i \in 1 .. L
    <3> DEFINE k == at[i]
    <3>1. k \in 1 .. n /\ b[i] = k /\ SurvivesAt(parts, k, n) /\ p[i] = parts[k] /\ Balance(parts, k, n) = L - i
      BY <1>2, <1>3, <2>2
    <3> HIDE DEF k
    <3>2. SurvivesAt(parts, k, n + 1) /\ Balance(parts, k, n + 1) = (L - i) + 1
      BY <1>6, <3>1
    <3>3. q[i] = p[i]
      BY <1>1, <2>2
    <3>4. QED
      BY <1>1, <3>1, <3>2, <3>3
  <2>3. QED
    BY <1>4, <2>1, <2>2
<1>9. ASSUME NEW k \in 1 .. n + 1, SurvivesAt(parts, k, n + 1)
      PROVE  \E i \in 1 .. L + 1 : k = b[i]
  <2>1. CASE k = n + 1
    BY <1>1, <1>3, <2>1
  <2>2. CASE k # n + 1
    <3>1. k \in 1 .. n
      BY <2>2
    <3>2. PICK i \in 1 .. L : k = at[i]
      BY <1>2, <1>6, <1>9, <3>1
    <3>3. i \in 1 .. L + 1 /\ b[i] = at[i]
      BY <1>1, <1>3
    <3>4. QED
      BY <3>2, <3>3
  <2>3. QED
    BY <2>1, <2>2
<1>10. KeptNames(parts, n + 1, q, b)
  <2> DEFINE M == L + 1
  <2>1. Len(q) = M
    BY <1>1
  <2>2. b \in [1 .. M -> 1 .. n + 1] /\ \A i, j \in 1 .. M : i < j => b[i] < b[j]
    BY <1>3, <1>5
  <2>3. \A i \in 1 .. M : SurvivesAt(parts, b[i], n + 1) /\ q[i] = parts[b[i]]
                           /\ Balance(parts, b[i], n + 1) = M - i
    BY <1>8
  <2>4. \A k \in 1 .. n + 1 : SurvivesAt(parts, k, n + 1) => \E i \in 1 .. M : k = b[i]
    BY <1>9
  <2> HIDE DEF M
  <2>5. QED
    BY <2>1, <2>2, <2>3, <2>4 DEF KeptNames
<1>11. QED
  BY <1>10

(* "" and "." change nothing.                                              *)
LEMMA KeptSkip ==
  ASSUME NEW parts, NEW n \in Nat, NEW p \in Seq(Name), NEW at, KeptNames(parts, n, p, at),
         parts[n + 1] \notin Name, parts[n + 1] # ".."
  PROVE  \E b : KeptNames(parts, n + 1, p, b)
<1> DEFINE L == Len(p)
<1>1. L \in Nat
  OBVIOUS
<1> HIDE DEF L
<1>2. /\ at \in [1 .. L -> 1 .. n]
      /\ \A i, j \in 1 .. L : i < j => at[i] < at[j]
      /\ \A i \in 1 .. L : /\ SurvivesAt(parts, at[i], n) /\ p[i] = parts[at[i]]
                           /\ Balance(parts, at[i], n) = L - i
      /\ \A k \in 1 .. n : SurvivesAt(parts, k, n) => \E i \in 1 .. L : k = at[i]
  BY DEF KeptNames, L
<1>3. at \in [1 .. L -> 1 .. n + 1] /\ \A i \in 1 .. L : at[i] \in 1 .. n
  <2>1. \A k \in 1 .. n : k \in 1 .. n + 1
    OBVIOUS
  <2>2. QED
    BY <1>2, <2>1
<1>4. ASSUME NEW k \in 1 .. n
      PROVE  /\ Balance(parts, k, n + 1) = Balance(parts, k, n)
             /\ SurvivesAt(parts, k, n + 1) <=> SurvivesAt(parts, k, n)
  <2>1. k \in Nat /\ k <= n
    OBVIOUS
  <2>2. Balance(parts, k, n) \in Int /\ Balance(parts, k, n + 1) = Balance(parts, k, n)
    BY <2>1, BalanceStep
  <2>3. /\ SurvivesAt(parts, k, n + 1) <=> SurvivesAt(parts, k, n) /\ Balance(parts, k, n + 1) >= 0
        /\ SurvivesAt(parts, k, n) => Balance(parts, k, n) >= 0
    BY <2>1, SurvivesStep
  <2>4. QED
    BY <2>2, <2>3
<1>5. ~SurvivesAt(parts, n + 1, n + 1)
  BY SurvivesLast
<1>6. \A i \in 1 .. L : SurvivesAt(parts, at[i], n + 1) /\ p[i] = parts[at[i]]
                         /\ Balance(parts, at[i], n + 1) = L - i
  BY <1>2, <1>3, <1>4
<1>7. ASSUME NEW k \in 1 .. n + 1, SurvivesAt(parts, k, n + 1) PROVE \E i \in 1 .. L : k = at[i]
  <2>1. k # n + 1
    BY <1>5, <1>7
  <2>2. k \in 1 .. n
    BY <2>1
  <2>3. QED
    BY <1>2, <1>4, <1>7, <2>2
<1>8. KeptNames(parts, n + 1, p, at)
  BY <1>2, <1>3, <1>6, <1>7 DEF KeptNames, L
<1>9. QED
  BY <1>8

(* ".." removes the last name, if there is one.                            *)
LEMMA KeptUp ==
  ASSUME NEW parts, NEW n \in Nat, NEW p \in Seq(Name), NEW at, KeptNames(parts, n, p, at),
         parts[n + 1] = "..", NEW q, q = IF p = << >> THEN p ELSE Front(p)
  PROVE  \E b : KeptNames(parts, n + 1, q, b)
<1> DEFINE L == Len(p)
           M == Len(q)
<1>1. L \in Nat /\ M \in Nat /\ (L = 0 => M = 0) /\ (L # 0 => M = L - 1) /\ \A k \in 1 .. M : q[k] = p[k]
  <2>1. CASE p = << >>
    <3>1. q = p /\ L = 0
      BY <2>1, EmptyLength
    <3>2. QED
      BY <3>1
  <2>2. CASE p # << >>
    <3>1. q = Front(p)
      BY <2>2
    <3>2. L \in Nat \ {0} /\ Len(q) = L - 1 /\ \A k \in 1 .. L - 1 : q[k] = p[k]
      BY <2>2, <3>1, FrontParts
    <3>3. QED
      BY <3>2
  <2>3. QED
    BY <2>1, <2>2
<1> HIDE DEF L, M
<1>2. /\ at \in [1 .. L -> 1 .. n]
      /\ \A i, j \in 1 .. L : i < j => at[i] < at[j]
      /\ \A i \in 1 .. L : /\ SurvivesAt(parts, at[i], n) /\ p[i] = parts[at[i]]
                           /\ Balance(parts, at[i], n) = L - i
      /\ \A k \in 1 .. n : SurvivesAt(parts, k, n) => \E i \in 1 .. L : k = at[i]
  BY DEF KeptNames, L
<1> DEFINE b == [i \in 1 .. M |-> at[i]]
<1>3. \A i \in 1 .. M : i \in 1 .. L /\ i # L /\ M - i = (L - i) - 1 /\ L - i >= 1
  BY <1>1
<1>4. b \in [1 .. M -> 1 .. n + 1] /\ \A i \in 1 .. M : b[i] = at[i] /\ at[i] \in 1 .. n
  <2>1. \A k \in 1 .. n : k \in 1 .. n + 1
    OBVIOUS
  <2>2. QED
    BY <1>2, <1>3, <2>1
<1> HIDE DEF b
<1>5. \A i, j \in 1 .. M : i < j => b[i] < b[j]
  BY <1>2, <1>3, <1>4
<1>6. ASSUME NEW k \in 1 .. n
      PROVE  /\ Balance(parts, k, n) \in Int /\ Balance(parts, k, n + 1) = Balance(parts, k, n) - 1
             /\ SurvivesAt(parts, k, n + 1) <=> SurvivesAt(parts, k, n) /\ Balance(parts, k, n + 1) >= 0
  <2>1. k \in Nat /\ k <= n
    OBVIOUS
  <2>2. QED
    BY <2>1, BalanceStep, SurvivesStep
<1>7. ~SurvivesAt(parts, n + 1, n + 1)
  BY SurvivesLast, Words
<1>8. ASSUME NEW i \in 1 .. M
      PROVE  /\ SurvivesAt(parts, b[i], n + 1) /\ q[i] = parts[b[i]]
             /\ Balance(parts, b[i], n + 1) = M - i
  <2> DEFINE k == at[i]
  <2>1. /\ k \in 1 .. n /\ b[i] = k /\ SurvivesAt(parts, k, n) /\ q[i] = parts[k]
        /\ Balance(parts, k, n) = L - i
    BY <1>1, <1>2, <1>3, <1>4
  <2> HIDE DEF k
  <2>2. Balance(parts, k, n + 1) = (L - i) - 1
    BY <1>6, <2>1
  <2>3. SurvivesAt(parts, k, n + 1)
    BY <1>1, <1>3, <1>6, <2>1, <2>2
  <2>4. QED
    BY <1>3, <2>1, <2>2, <2>3
<1>9. ASSUME NEW k \in 1 .. n + 1, SurvivesAt(parts, k, n + 1) PROVE \E i \in 1 .. M : k = b[i]
  <2>1. k # n + 1
    BY <1>7, <1>9
  <2>2. k \in 1 .. n
    BY <2>1
  <2>3. SurvivesAt(parts, k, n) /\ Balance(parts, k, n + 1) >= 0
        /\ Balance(parts, k, n) \in Int /\ Balance(parts, k, n + 1) = Balance(parts, k, n) - 1
    BY <1>6, <1>9, <2>2
  <2>4. PICK i \in 1 .. L : k = at[i]
    BY <1>2, <2>2, <2>3
  <2>5. Balance(parts, k, n) = L - i
    BY <1>2, <2>4
  <2>6. i \in 1 .. M
    BY <1>1, <2>3, <2>5
  <2>7. QED
    BY <1>4, <2>4, <2>6
<1>10. KeptNames(parts, n + 1, q, b)
  BY <1>4, <1>5, <1>8, <1>9 DEF KeptNames, M
<1>11. QED
  BY <1>10

(* The loop of vfs_normalize after n turns.                                *)
Resolved(parts, n, r) ==
  /\ r \in State /\ Len(r.path) <= PARTS_MAX /\ Span(r.path) <= SpanTo(parts)[n]
  /\ r.ok => \E at : KeptNames(parts, n, r.path, at)

LEMMA TurnResolves ==
  ASSUME NEW parts \in Seq(Component), NEW n \in Nat, n + 1 <= Len(parts),
         NEW r, Resolved(parts, n, r), NEW v, v = Part(r, parts[n + 1])
  PROVE  Resolved(parts, n + 1, v)
<1> DEFINE c == parts[n + 1]
           p == r.path
           q == v.path
           f == SpanTo(parts)
<1>1. n + 1 \in 1 .. Len(parts) /\ (n + 1) - 1 = n /\ n \in 0 .. Len(parts)
  OBVIOUS
<1>2. c \in Component
  BY <1>1
<1>3. f[n + 1] = f[n] + 1 + Width(c) /\ f[n] \in Nat /\ Width(c) \in Nat
  BY <1>1, <1>2, SpanToIs, WidthIs
<1>4. r \in State /\ Len(p) <= PARTS_MAX /\ Span(p) <= f[n] /\ (r.ok => \E at : KeptNames(parts, n, p, at))
  BY DEF Resolved
<1>5. p \in Seq(Name) /\ p \in Seq(Component) /\ Len(p) \in Nat
  BY <1>4, NamesAreParts DEF State
<1>6. Span(p) \in Nat
  BY <1>5, SpanToIs
<1> HIDE DEF c
<1>7. /\ v \in State
      /\ ~r.ok \/ c \in {"", "."} => v = r
      /\ r.ok /\ c = ".." => v.ok /\ q = IF p = << >> THEN p ELSE Front(p)
      /\ r.ok /\ c \in Name /\ Len(p) < PARTS_MAX => v.ok /\ q = Append(p, c)
      /\ r.ok /\ c \notin {"", ".", ".."} /\ ~(c \in Name /\ Len(p) < PARTS_MAX) => ~v.ok /\ q = << >>
  <2>1. v = Part(r, c)
    BY DEF c
  <2>2. QED
    BY ONLY <1>2, <1>4, <2>1, TurnIs
<1> DEFINE Goal == /\ Len(q) <= PARTS_MAX /\ Span(q) <= f[n + 1]
                   /\ v.ok => \E at : KeptNames(parts, n + 1, q, at)
<1> SUFFICES Goal
  BY <1>7 DEF Resolved
<1>8. CASE ~r.ok
  <2>1. v = r /\ q = p
    BY <1>7, <1>8
  <2> HIDE DEF p, q, f
  <2>2. QED
    BY <1>3, <1>4, <1>6, <1>8, <2>1
<1>9. CASE r.ok /\ c \in {"", "."}
  <2>1. v = r /\ q = p
    BY <1>7, <1>9
  <2>2. PICK at : KeptNames(parts, n, p, at)
    BY <1>4, <1>9
  <2>3. c \notin Name /\ c # ".."
    BY <1>9, Words
  <2> HIDE DEF p, q, f
  <2>4. \E b : KeptNames(parts, n + 1, p, b)
    BY <1>5, <2>2, <2>3, KeptSkip DEF c
  <2>5. QED
    BY <1>3, <1>4, <1>6, <2>1, <2>4
<1>10. CASE r.ok /\ c = ".."
  <2>1. q = IF p = << >> THEN p ELSE Front(p)
    BY <1>7, <1>10
  <2>2. PICK at : KeptNames(parts, n, p, at)
    BY <1>4, <1>10
  <2> HIDE DEF p, q, f
  <2>3. \E b : KeptNames(parts, n + 1, q, b)
    BY <1>5, <1>10, <2>1, <2>2, KeptUp DEF c
  <2>4. Len(q) <= Len(p) /\ Span(q) <= Span(p) /\ Len(q) \in Nat /\ Span(q) \in Nat
    <3>1. CASE p = << >>
      BY <1>5, <1>6, <2>1, <3>1
    <3>2. CASE p # << >>
      <4>1. q = Front(p)
        BY <2>1, <3>2
      <4>2. /\ q \in Seq(Component) /\ Last(p) \in Component /\ Append(q, Last(p)) = p
            /\ Len(q) = Len(p) - 1 /\ Len(p) \in Nat \ {0}
        BY <1>5, <3>2, <4>1, FrontParts
      <4>3. Span(p) = Span(q) + 1 + Width(Last(p)) /\ Span(q) \in Nat /\ Width(Last(p)) \in Nat
        BY <4>2, SpanAppend, SpanToIs, WidthIs
      <4>4. QED
        BY <4>2, <4>3
    <3>3. QED
      BY <3>1, <3>2
  <2>5. QED
    BY <1>3, <1>4, <1>5, <1>6, <2>3, <2>4, Sizes
<1>11. CASE r.ok /\ c \in Name /\ Len(p) < PARTS_MAX
  <2>1. q = Append(p, c)
    BY <1>7, <1>11
  <2>2. PICK at : KeptNames(parts, n, p, at)
    BY <1>4, <1>11
  <2> HIDE DEF p, q, f
  <2>3. \E b : KeptNames(parts, n + 1, q, b)
    BY <1>5, <1>11, <2>1, <2>2, KeptName DEF c
  <2>4. Span(q) = Span(p) + 1 + Width(c) /\ Len(q) = Len(p) + 1
    BY <1>2, <1>5, <2>1, SpanAppend, AppendedParts
  <2>5. QED
    BY <1>3, <1>4, <1>5, <1>6, <1>11, <2>3, <2>4, Sizes
<1>12. CASE r.ok /\ c \notin {"", ".", ".."} /\ ~(c \in Name /\ Len(p) < PARTS_MAX)
  <2>1. ~v.ok /\ q = << >>
    BY <1>7, <1>12
  <2>2. Len(q) = 0
    BY <2>1, EmptyLength
  <2>3. Span(q) = 0
    BY <2>1, SpanEmpty
  <2> HIDE DEF p, q, f
  <2>4. QED
    BY <1>3, <2>1, <2>2, <2>3, Sizes
<1> HIDE DEF p, q, f
<1>13. QED
  BY <1>2, <1>4, <1>8, <1>9, <1>10, <1>11, <1>12 DEF State

LEMMA LoopResolves ==
  ASSUME NEW parts \in Seq(Component)
  PROVE  Resolved(parts, Len(parts), Absolute(parts))
<1> DEFINE g == AbsTo(parts)
           S == {n \in Nat : n <= Len(parts) => Resolved(parts, n, g[n])}
<1>1. /\ g[0] = Begun /\ Absolute(parts) = g[Len(parts)]
      /\ \A n \in 1 .. Len(parts) : g[n] = Part(g[n - 1], parts[n])
  BY AbsToIs
<1> HIDE DEF g
<1>2. 0 \in S
  <2> DEFINE p == g[0].path
  <2>1. g[0] \in State /\ p = << >>
    BY <1>1, BegunIs
  <2>2. Len(p) = 0 /\ Span(p) = 0
    BY <2>1, EmptyLength, SpanEmpty
  <2>3. \E at : KeptNames(parts, 0, p, at)
    BY <2>1, KeptBegins
  <2>4. SpanTo(parts)[0] = 0
    BY SpanToIs
  <2> HIDE DEF p
  <2>5. Len(p) <= PARTS_MAX /\ Span(p) <= SpanTo(parts)[0]
    BY <2>2, <2>4, Sizes
  <2>6. QED
    BY <2>1, <2>3, <2>5 DEF Resolved, p
<1>3. ASSUME NEW m \in Nat, m \in S PROVE m + 1 \in S
  <2> SUFFICES ASSUME m + 1 <= Len(parts) PROVE Resolved(parts, m + 1, g[m + 1])
    OBVIOUS
  <2>1. m + 1 \in 1 .. Len(parts) /\ (m + 1) - 1 = m /\ m <= Len(parts)
    OBVIOUS
  <2>2. Resolved(parts, m, g[m]) /\ g[m + 1] = Part(g[m], parts[m + 1])
    BY <1>1, <1>3, <2>1
  <2>3. QED
    BY <2>2, TurnResolves
<1>4. Len(parts) \in Nat
  OBVIOUS
<1> HIDE DEF S
<1>5. Len(parts) \in S
  BY <1>2, <1>3, <1>4, EveryNat
<1>6. QED
  BY <1>1, <1>5 DEF S

(* What Absolute accepts is what the definition says.                      *)
LEMMA AbsoluteIs ==
  ASSUME NEW parts \in Seq(Component), NEW r, r = Absolute(parts)
  PROVE  /\ r \in State /\ r.path \in Seq(Name) /\ Len(r.path) <= PARTS_MAX
         /\ Span(r.path) \in Nat /\ Span(r.path) <= Span(parts) /\ Span(parts) \in Nat
         /\ r.ok => Remains(parts, r.path)
<1> DEFINE N == Len(parts)
           p == r.path
<1>1. /\ r \in State /\ Len(p) <= PARTS_MAX /\ Span(p) <= SpanTo(parts)[N]
      /\ r.ok => \E at : KeptNames(parts, N, p, at)
  BY LoopResolves DEF Resolved
<1>2. SpanTo(parts)[N] = Span(parts) /\ Span(parts) \in Nat
  BY SpanToIs
<1>3. p \in Seq(Name) /\ p \in Seq(Component)
  BY <1>1, NamesAreParts DEF State
<1>4. Span(p) \in Nat
  BY <1>3, SpanToIs
<1>5. ASSUME r.ok PROVE Remains(parts, p)
  <2> HIDE DEF p
  <2>1. PICK at : KeptNames(parts, N, p, at)
    BY <1>1, <1>5
  <2> DEFINE L == Len(p)
  <2>2. DOMAIN p = 1 .. L /\ DOMAIN parts = 1 .. N
    BY <1>3
  <2>3. /\ at \in [1 .. L -> 1 .. N]
        /\ \A i, j \in 1 .. L : i < j => at[i] < at[j]
        /\ \A i \in 1 .. L : SurvivesAt(parts, at[i], N) /\ p[i] = parts[at[i]]
        /\ \A k \in 1 .. N : SurvivesAt(parts, k, N) => \E i \in 1 .. L : k = at[i]
    BY <2>1 DEF KeptNames
  <2>4. \A k \in 1 .. N : Survives(parts, k) <=> SurvivesAt(parts, k, N)
    BY SurvivesIs
  <2> HIDE DEF L, N
  <2>5. Range(at) = {k \in 1 .. N : Survives(parts, k)}
    <3>1. Range(at) = {at[i] : i \in 1 .. L}
      BY <2>3 DEF Range
    <3>2. QED
      BY <2>3, <2>4, <3>1
  <2>6. QED
    BY <2>2, <2>3, <2>5 DEF Remains
<1>6. QED
  BY <1>1, <1>2, <1>3, <1>4, <1>5

(* The working directory, names alone, is its own normal form.             *)
LEMMA AbsoluteKeeps ==
  ASSUME NEW p \in Seq(Name), Len(p) <= PARTS_MAX
  PROVE  Absolute(p).ok /\ Absolute(p).path = p
<1> DEFINE r == Absolute(p)
           q == r.path
<1>1. p \in Seq(Component) /\ Len(p) \in Nat /\ \A k \in 1 .. Len(p) : p[k] \in Name
  BY NamesAreParts
<1>2. r = AbsTo(p)[Len(p)] /\ r \in State
  <2>1. r = AbsTo(p)[Len(p)]
    BY <1>1, AbsToIs
  <2>2. r \in State
    BY <1>1, AbsoluteIs
  <2>3. QED
    BY <2>1, <2>2
<1>3. r.ok /\ Len(q) = Len(p) /\ \A k \in 1 .. Len(p) : q[k] = p[k]
  BY <1>1, <1>2, NamesPass
<1>4. q \in Seq(Name)
  BY <1>2 DEF State
<1> HIDE DEF q, r
<1>5. q = p
  BY <1>3, <1>4
<1>6. QED
  BY <1>3, <1>5 DEF q, r

(* Behind a beginning of names ".." is the only way back.                  *)
Within(d, p) == Len(d) <= Len(p) /\ \A k \in 1 .. Len(d) : p[k] = d[k]

LEMMA StaysWithin ==
  ASSUME NEW d \in Seq(Name), Len(d) <= PARTS_MAX, NEW a \in Seq(Component), \A k \in 1 .. Len(a) : a[k] # "..",
         NEW r, r = Absolute(d \o a), r.ok
  PROVE  Within(d, r.path)
<1> DEFINE z == d \o a
           L == Len(d)
           g == AbsTo(z)
           S == {n \in Nat : n <= Len(a) => (g[L + n].ok => Within(d, g[L + n].path))}
<1>0. d \in Seq(Component) /\ L \in Nat /\ \A k \in 1 .. L : d[k] \in Name
  BY NamesAreParts
<1>1. /\ z \in Seq(Component) /\ Len(z) = L + Len(a) /\ Len(a) \in Nat
      /\ \A k \in 1 .. L : z[k] = d[k]
      /\ \A k \in 1 .. Len(a) : z[L + k] = a[k]
  BY <1>0, JoinParts
<1>2. /\ g \in [0 .. Len(z) -> State] /\ r = g[Len(z)]
      /\ \A n \in 1 .. Len(z) : g[n] = Part(g[n - 1], z[n])
  BY <1>1, AbsToIs
<1>3. Within(d, g[L].path)
  <2>1. L <= Len(z) /\ \A k \in 1 .. L : z[k] \in Name
    BY <1>0, <1>1
  <2>2. Len(g[L].path) = L /\ \A k \in 1 .. L : g[L].path[k] = z[k]
    BY <1>0, <1>1, <2>1, NamesPass
  <2> HIDE DEF g, z
  <2>3. QED
    BY <1>0, <1>1, <2>2 DEF Within
<1> HIDE DEF z, g, L
<1>4. 0 \in S
  BY <1>0, <1>3
<1>5. ASSUME NEW m \in Nat, m \in S PROVE m + 1 \in S
  <2> SUFFICES ASSUME m + 1 <= Len(a), g[L + (m + 1)].ok PROVE Within(d, g[L + (m + 1)].path)
    OBVIOUS
  <2>1. /\ m + 1 \in 1 .. Len(a) /\ m <= Len(a) /\ L + m \in 0 .. Len(z)
        /\ L + (m + 1) \in 1 .. Len(z) /\ (L + (m + 1)) - 1 = L + m
    BY <1>0, <1>1
  <2> DEFINE c == a[m + 1]
             u == g[L + m]
             v == g[L + (m + 1)]
             p == u.path
             q == v.path
  <2>2. c \in Component /\ c # ".." /\ u \in State /\ v = Part(u, c) /\ v.ok
    BY <1>1, <1>2, <2>1
  <2>3. u.ok => Within(d, p)
    BY <1>5, <2>1
  <2> HIDE DEF c, u, v
  <2>4. u.ok /\ (v = u \/ (q = Append(p, c) /\ c \in Name))
    <3>1. /\ ~u.ok \/ c \in {"", "."} => v = u
          /\ u.ok /\ c \in Name /\ Len(u.path) < PARTS_MAX => v.ok /\ v.path = Append(u.path, c)
          /\ u.ok /\ c \notin {"", ".", ".."} /\ ~(c \in Name /\ Len(u.path) < PARTS_MAX) => ~v.ok
      BY ONLY <2>2, TurnIs
    <3>2. QED
      BY <2>2, <3>1
  <2>5. p \in Seq(Name)
    BY <2>2 DEF State
  <2>6. CASE v = u
    BY <2>3, <2>4, <2>6 DEF v
  <2>7. CASE q = Append(p, c) /\ c \in Name
    <3> HIDE DEF p, q
    <3>1. Len(q) = Len(p) + 1 /\ Len(p) \in Nat /\ \A k \in 1 .. Len(p) : q[k] = p[k]
      BY <2>5, <2>7, AppendedParts
    <3>2. Within(d, p) /\ Len(d) \in Nat
      BY <1>0, <2>3, <2>4 DEF L
    <3>3. Within(d, q)
      BY <3>1, <3>2 DEF Within
    <3>4. QED
      BY <3>3 DEF q, v
  <2>8. QED
    BY <2>4, <2>6, <2>7
<1> HIDE DEF S
<1>6. Len(a) \in S
  BY <1>1, <1>4, <1>5, EveryNat
<1>7. QED
  BY <1>1, <1>2, <1>6 DEF S

(* The paths vfs_normalize returns.                                        *)
FitPath == {p \in Seq(Name) : Len(p) <= PARTS_MAX /\ PathLen(p) <= PATH_MAX}

Typed == [abs : BOOLEAN, parts : Seq(Component) \ {<< >>}]

LEMMA FitIsShort ==
  /\ FitPath \subseteq ShortPath /\ << >> \in FitPath
  /\ \A p \in FitPath : p \in Seq(Name) /\ Len(p) <= PARTS_MAX /\ PathLen(p) <= PATH_MAX /\ Len(p) \in Nat
<1>1. << >> \in FitPath
  <2>1. << >> \in Seq(Name) /\ Len(<< >>) = 0 /\ PathLen(<< >>) = 1
    BY DEF PathLen
  <2>2. QED
    BY <2>1, Sizes DEF FitPath
<1>2. ASSUME NEW p \in FitPath
      PROVE  p \in Seq(Name) /\ Len(p) <= PARTS_MAX /\ PathLen(p) <= PATH_MAX /\ Len(p) \in Nat /\ p \in ShortPath
  <2>1. p \in Seq(Name) /\ Len(p) <= PARTS_MAX /\ PathLen(p) <= PATH_MAX
    BY DEF FitPath
  <2>2. Len(p) \in Nat /\ Len(p) <= DEPTH_MAX
    BY <2>1, Sizes, SizeAssumption
  <2>3. QED
    BY <2>1, <2>2 DEF ShortPath
<1>3. QED
  BY <1>1, <1>2

LEMMA SpanPositive ==
  ASSUME NEW s \in Seq(Component), s # << >>
  PROVE  Span(s) \in Nat \ {0}
<1>1. /\ Front(s) \in Seq(Component) /\ Last(s) \in Component /\ Append(Front(s), Last(s)) = s
  BY FrontParts
<1>2. Span(s) = Span(Front(s)) + 1 + Width(Last(s))
  BY <1>1, SpanAppend
<1>3. Span(Front(s)) \in Nat /\ Width(Last(s)) \in Nat
  BY <1>1, SpanToIs, WidthIs
<1>4. QED
  BY <1>2, <1>3

LEMMA PathLenIs ==
  ASSUME NEW p \in Seq(Name)
  PROVE  Span(p) \in Nat /\ PathLen(p) \in Nat \ {0} /\ Span(p) <= PathLen(p)
         /\ (PathLen(p) = Span(p) \/ PathLen(p) = 1)
<1>1. p \in Seq(Component)
  BY NamesAreParts
<1>2. CASE p = << >>
  <2>1. Span(p) = 0
    BY <1>2, SpanEmpty
  <2>2. PathLen(p) = 1
    BY <1>2 DEF PathLen
  <2>3. QED
    BY <2>1, <2>2
<1>3. CASE p # << >>
  BY <1>1, <1>3, SpanPositive DEF PathLen
<1>4. QED
  BY <1>2, <1>3

(* From a working directory that fits vfs_normalize leads to a path that   *)
(* fits, the one the definition says.                                      *)
LEMMA NormalizeIs ==
  ASSUME NEW d \in FitPath, NEW arg \in Typed, arg.abs => ArgLen(arg) <= PATH_MAX,
         NEW r, r = vfs_normalize(d, arg), r.ok
  PROVE  /\ r.path \in FitPath
         /\ Remains(IF arg.abs THEN arg.parts ELSE d \o arg.parts, r.path)
         /\ ~arg.abs /\ ".." \notin Range(arg.parts) => Within(d, r.path)
<1> DEFINE a == arg.parts
           p == r.path
<1>1. a \in Seq(Component) /\ a # << >> /\ arg.abs \in BOOLEAN /\ Span(a) \in Nat \ {0}
  BY SpanPositive DEF Typed
<1>2. d \in Seq(Name) /\ Len(d) <= PARTS_MAX /\ PathLen(d) <= PATH_MAX /\ d \in Seq(Component)
  BY FitIsShort, NamesAreParts
<1>3. CASE arg.abs
  <2>1. r = Absolute(a) /\ Span(a) <= PATH_MAX
    BY <1>1, <1>3 DEF vfs_normalize, ArgLen
  <2>2. p \in Seq(Name) /\ Len(p) <= PARTS_MAX /\ Span(p) <= Span(a) /\ Remains(a, p)
    BY <1>1, <2>1, AbsoluteIs
  <2>3. PathLen(p) <= PATH_MAX
    <3> HIDE DEF p
    <3>1. QED
      BY <1>1, <2>1, <2>2, PathLenIs, Sizes
  <2>4. QED
    BY <1>3, <2>2, <2>3 DEF FitPath
<1>4. CASE ~arg.abs
  <2> DEFINE z == d \o a
  <2>1. Absolute(d).ok /\ Absolute(d).path = d
    BY <1>2, AbsoluteKeeps
  <2>2. r = Absolute(z) /\ PathLen(d) + 1 + ArgLen(arg) <= PATH_MAX
    <3>1. r = IF PathLen(d) + 1 + ArgLen(arg) > PATH_MAX THEN Refused ELSE Absolute(z)
      BY <1>4, <2>1 DEF vfs_normalize
    <3>2. PathLen(d) + 1 + ArgLen(arg) \in Int
      BY <1>1, <1>2, PathLenIs DEF ArgLen
    <3>3. ~(PathLen(d) + 1 + ArgLen(arg) > PATH_MAX)
      BY <3>1 DEF Refused
    <3>4. QED
      BY <3>1, <3>2, <3>3, Sizes
  <2>3. PathLen(d) + Span(a) <= PATH_MAX /\ PathLen(d) \in Nat /\ Span(d) <= PathLen(d) /\ Span(d) \in Nat
    BY <1>1, <1>2, <1>4, <2>2, PathLenIs, Sizes DEF ArgLen
  <2>4. z \in Seq(Component) /\ Span(z) = Span(d) + Span(a)
    BY <1>1, <1>2, JoinParts, SpanJoin
  <2> HIDE DEF z
  <2>5. p \in Seq(Name) /\ Len(p) <= PARTS_MAX /\ Span(p) <= Span(z) /\ Remains(z, p)
    BY <2>2, <2>4, AbsoluteIs
  <2>6. PathLen(p) <= PATH_MAX
    <3> HIDE DEF p
    <3>1. QED
      BY <1>1, <2>3, <2>4, <2>5, PathLenIs, Sizes
  <2>7. ASSUME ".." \notin Range(a) PROVE Within(d, p)
    <3>1. \A k \in 1 .. Len(a) : a[k] # ".."
      BY <1>1, <2>7 DEF Range
    <3>2. QED
      BY <1>1, <1>2, <2>2, <3>1, StaysWithin DEF z
  <2>8. QED
    BY <1>4, <2>5, <2>6, <2>7 DEF FitPath, z
<1>5. QED
  BY <1>1, <1>3, <1>4

-----------------------------------------------------------------------------
(* What a command does, whichever command it is.                           *)

FitPending == Seq([fn : {"touch", "write", "remove"}, path : FitPath])

(* The first step of a call that names p and goes on with rest.            *)
CallsOn(p, rest) ==
  \/ Failed
  \/ ReturnOk(rest) /\ UNCHANGED <<memory, disk, saved, want, claim, faults>>
  \/ \E type \in {"dir", "file"}, slot \in Slot : Created(p, type, slot) /\ BeginPersist(rest)
  \/ \E n \in Slot \ {0} : /\ n = find(records, p) /\ records[n].used
                           /\ (records[n].type = "file" \/ Children(records, n) = {})
                           /\ Drop(n, rest)
  \/ \E n \in Slot : ReadBegun(n, rest)
  \/ \E n \in Slot, text \in Seq(Unit), append \in BOOLEAN :
       (append => "append" \in world.ops) /\ WriteBegun(n, text, append, rest)

LEMMA PendingFits == FitPending \subseteq Pending /\ << >> \in FitPending
<1> DEFINE C == [fn : {"touch", "write", "remove"}, path : FitPath]
           D == [fn : {"touch", "write", "remove"}, path : ShortPath]
<1>1. C \subseteq D
  BY FitIsShort
<1> HIDE DEF C, D
<1>2. ASSUME NEW s \in Seq(C) PROVE s \in Seq(D)
  <2>1. s \in [1 .. Len(s) -> C] /\ Len(s) \in Nat
    OBVIOUS
  <2>2. s \in [1 .. Len(s) -> D]
    BY <1>1, <2>1
  <2>3. QED
    BY <2>1, <2>2
<1>3. << >> \in Seq(C)
  OBVIOUS
<1>4. QED
  BY <1>2, <1>3 DEF FitPending, Pending, C, D

LEMMA CallsOnAre ==
  ASSUME NEW p, NEW rest
  PROVE  /\ vfs_mkdir(p) => CallsOn(p, << >>)
         /\ vfs_touch(p, rest) => CallsOn(p, rest)
         /\ vfs_rmdir(p) => CallsOn(p, << >>)
         /\ vfs_remove(p, rest) => CallsOn(p, rest)
         /\ vfs_read(p, rest) => CallsOn(p, rest)
         /\ \A t \in Seq(Unit), a \in BOOLEAN :
              (a => "append" \in world.ops) /\ vfs_write(p, t, a, rest) => CallsOn(p, rest)
<1>1. ASSUME NEW type \in {"dir", "file"}, NEW q, create(p, type, q) PROVE CallsOn(p, q)
  BY <1>1, CreateIs DEF CallsOn, Failed
<1>2. vfs_mkdir(p) => CallsOn(p, << >>)
  BY <1>1 DEF vfs_mkdir
<1>3. vfs_touch(p, rest) => CallsOn(p, rest)
  BY <1>1 DEF vfs_touch, CallsOn
<1>4. vfs_rmdir(p) => CallsOn(p, << >>)
  BY RmdirIs DEF CallsOn, Failed
<1>5. vfs_remove(p, rest) => CallsOn(p, rest)
  BY RemoveIs DEF CallsOn, Failed
<1>6. vfs_read(p, rest) => CallsOn(p, rest)
  BY ReadIs DEF CallsOn, Failed
<1>7. ASSUME NEW t \in Seq(Unit), NEW a \in BOOLEAN, a => "append" \in world.ops,
             vfs_write(p, t, a, rest)
      PROVE  CallsOn(p, rest)
  BY <1>7, WriteIs DEF CallsOn, Failed
<1>8. QED
  BY <1>2, <1>3, <1>4, <1>5, <1>6, <1>7

LEMMA CallsOnCall ==
  ASSUME NEW p \in FitPath, NEW rest \in FitPending, pc \in {"idle", "next"}, CallsOn(p, rest)
  PROVE  Calls /\ todo' \in FitPending
<1>1. p \in ShortPath /\ rest \in Pending /\ << >> \in FitPending
  BY FitIsShort, PendingFits
<1>2. Calls
  BY <1>1 DEF CallsOn, Calls, Passed, Creates, Drops, Reads, Writes
<1>3. todo' \in {<< >>, rest}
  BY DEF CallsOn, Failed, ReturnError, ReturnOk, BeginPersist, Drop, ReadBegun, WriteBegun
<1>4. QED
  BY <1>1, <1>2, <1>3

(* The invariant of the session.                                           *)
SessionInv == cwd \in FitPath /\ scope \in Seq(Name) /\ orderly \in BOOLEAN /\ todo \in FitPending

(* A typed path that console_arg accepts.                                  *)
LEMMA ArgIs ==
  ASSUME SessionInv, NEW arg \in Args
  PROVE  vfs_normalize(cwd, arg).ok => 
           /\ vfs_normalize(cwd, arg).path \in FitPath
           /\ ScopeOf(arg) # << >> => Within(cwd, vfs_normalize(cwd, arg).path)
<1> DEFINE r == vfs_normalize(cwd, arg)
<1> SUFFICES ASSUME r.ok PROVE r.path \in FitPath /\ (ScopeOf(arg) # << >> => Within(cwd, r.path))
  OBVIOUS
<1>1. arg \in Typed /\ ArgLen(arg) <= PATH_MAX /\ cwd \in FitPath
  BY ShellAssumption DEF Typed, SessionInv
<1>2. r.path \in FitPath /\ (~arg.abs /\ ".." \notin Range(arg.parts) => Within(cwd, r.path))
  BY <1>1, NormalizeIs
<1>3. QED
  BY <1>2 DEF ScopeOf

LEMMA ScopeIs ==
  ASSUME SessionInv, NEW arg
  PROVE  ScopeOf(arg) \in Seq(Name)
  BY FitIsShort DEF ScopeOf, SessionInv

(* A step of a command with its path.                                      *)
Commanded ==
  /\ pc = "idle" /\ buf' = << >> /\ orderly' = orderly /\ cwd' = cwd /\ scope' \in Seq(Name)
  /\ \E p \in FitPath, rest \in FitPending :
       CallsOn(p, rest) /\ (scope' # << >> => Within(cwd, p))

LEMMA Complains ==
  ASSUME SessionInv, Complain
  PROVE  \E p \in FitPath, rest \in FitPending : CallsOn(p, rest) /\ Within(cwd, p)
<1>1. cwd \in FitPath /\ Len(cwd) \in Nat /\ << >> \in FitPending
  BY FitIsShort, PendingFits DEF SessionInv
<1>2. Within(cwd, cwd)
  BY <1>1 DEF Within
<1>3. CallsOn(cwd, << >>)
  BY DEF Complain, CallsOn, Failed
<1>4. QED
  BY <1>1, <1>2, <1>3

LEMMA TextsAreUnits == Texts \subseteq Seq(Unit)
<1>1. Seq(Byte) \subseteq Seq(Unit)
  BY DEF Unit
<1>2. QED
  BY <1>1, InputAssumption

LEMMA OnPathIs ==
  ASSUME SessionInv, Mkdir \/ Rmdir \/ Touch \/ Rm \/ Cat \/ WriteText \/ AppendText
  PROVE  Commanded
<1> DEFINE Given(arg) == arg # NoArg /\ vfs_normalize(cwd, arg).ok
           at(arg) == vfs_normalize(cwd, arg).path
           e == << >>
<1>0. e \in FitPending
  BY PendingFits
<1>1. /\ pc = "idle" /\ buf' = << >> /\ UNCHANGED <<cwd, orderly>>
      /\ \E arg \in Args \union {NoArg} :
           /\ scope' = ScopeOf(arg)
           /\ ~Given(arg) => Complain
           /\ Given(arg) => CallsOn(at(arg), e)
  <2>1. CASE Mkdir
    BY <2>1, CallsOnAre DEF Mkdir, OnPath, MayCall, NewCall
  <2>2. CASE Rmdir
    BY <2>2, CallsOnAre DEF Rmdir, OnPath, MayCall, NewCall
  <2>3. CASE Touch
    BY <2>3, CallsOnAre DEF Touch, OnPath, MayCall, NewCall
  <2>4. CASE Rm
    BY <2>4, CallsOnAre DEF Rm, OnPath, MayCall, NewCall
  <2>5. CASE Cat
    BY <2>5, CallsOnAre DEF Cat, OnPath, MayCall, NewCall
  <2>6. CASE WriteText
    BY <2>6, CallsOnAre, TextsAreUnits DEF WriteText, OnPath, MayCall, NewCall
  <2>7. CASE AppendText
    BY <2>7, CallsOnAre, TextsAreUnits DEF AppendText, OnPath, MayCall, NewCall
  <2>8. QED
    BY <2>1, <2>2, <2>3, <2>4, <2>5, <2>6, <2>7
<1>2. PICK arg \in Args \union {NoArg} :
        /\ scope' = ScopeOf(arg)
        /\ ~Given(arg) => Complain
        /\ Given(arg) => CallsOn(at(arg), e)
  BY <1>1
<1>3. scope' \in Seq(Name)
  BY <1>2, ScopeIs
<1>4. CASE ~Given(arg)
  BY <1>1, <1>2, <1>3, <1>4, Complains DEF Commanded
<1>5. CASE Given(arg)
  <2> DEFINE p == at(arg)
  <2>1. p \in FitPath /\ (scope' # << >> => Within(cwd, p)) /\ CallsOn(p, e)
    BY <1>2, <1>5, ArgIs
  <2> HIDE DEF p, e
  <2>2. QED
    BY <1>0, <1>1, <1>3, <2>1 DEF Commanded
<1>6. QED
  BY <1>4, <1>5

LEMMA RestFits ==
  ASSUME NEW s \in FitPath, NEW d \in FitPath
  PROVE  AfterRead(d) \in FitPending /\ AfterRead(d) \o AfterCopy(s) \in FitPending
<1> DEFINE C == [fn : {"touch", "write", "remove"}, path : FitPath]
           q == AfterRead(d)
           t == AfterCopy(s)
<1>1. q \in Seq(C)
  BY DEF AfterRead
<1>2. t \in Seq(C)
  BY DEF AfterCopy
<1> HIDE DEF q, t, C
<1>3. q \o t \in Seq(C)
  BY <1>1, <1>2
<1>4. QED
  BY <1>1, <1>3 DEF FitPending, q, t, C

LEMMA OnPathsAre ==
  ASSUME SessionInv, Cp \/ Mv
  PROVE  Commanded
<1> DEFINE from(sd) == vfs_normalize(cwd, sd[1])
           to(sd) == vfs_normalize(cwd, sd[2])
<1>1. /\ pc = "idle" /\ buf' = << >> /\ UNCHANGED <<cwd, orderly>> /\ scope' = << >>
      /\ \E sd \in ArgPairs :
           \/ Complain
           \/ /\ from(sd).ok /\ to(sd).ok
              /\ \/ vfs_read(from(sd).path, AfterRead(to(sd).path))
                 \/ vfs_read(from(sd).path, AfterRead(to(sd).path) \o AfterCopy(from(sd).path))
  <2>1. CASE Cp
    BY <2>1 DEF Cp, OnPaths, MayCall, vfs_copy
  <2>2. CASE Mv
    BY <2>2 DEF Mv, OnPaths, MayCall, vfs_move
  <2>3. QED
    BY <2>1, <2>2
<1>2. scope' \in Seq(Name)
  BY <1>1
<1>3. PICK sd \in ArgPairs :
        \/ Complain
        \/ /\ from(sd).ok /\ to(sd).ok
           /\ \/ vfs_read(from(sd).path, AfterRead(to(sd).path))
              \/ vfs_read(from(sd).path, AfterRead(to(sd).path) \o AfterCopy(from(sd).path))
  BY <1>1
<1>4. CASE Complain
  BY <1>1, <1>2, <1>4, Complains DEF Commanded
<1>5. CASE ~Complain
  <2> DEFINE s == from(sd).path
             d == to(sd).path
             q == AfterRead(d)
             t == AfterRead(d) \o AfterCopy(s)
  <2>1. sd[1] \in Args /\ sd[2] \in Args
    BY ShellAssumption
  <2>2. s \in FitPath /\ d \in FitPath
    BY <1>3, <1>5, <2>1, ArgIs
  <2>3. vfs_read(s, q) \/ vfs_read(s, t)
    BY <1>3, <1>5
  <2> HIDE DEF s, d
  <2>4. q \in FitPending /\ t \in FitPending
    BY <2>2, RestFits
  <2> HIDE DEF q, t
  <2>5. CallsOn(s, q) \/ CallsOn(s, t)
    BY <2>3, CallsOnAre
  <2>6. QED
    BY <1>1, <1>2, <2>2, <2>4, <2>5 DEF Commanded
<1>6. QED
  BY <1>4, <1>5

(* cd leads to a directory that is there, or nowhere.                      *)
Moved == /\ pc = "idle" /\ buf' = << >> /\ orderly' = orderly /\ scope' = << >>
         /\ cwd' \in FitPath /\ CallsOn(cwd, << >>)

LEMMA CdIs ==
  ASSUME SessionInv, Cd
  PROVE  Moved
<1> DEFINE typed(arg) == IF arg = NoArg THEN [abs |-> FALSE, parts |-> <<"cd">>] ELSE arg
           to(arg) == vfs_normalize(cwd, typed(arg))
           e == << >>
<1>0. e \in FitPending /\ cwd \in FitPath
  BY PendingFits DEF SessionInv
<1>1. /\ pc = "idle" /\ buf' = << >> /\ scope' = << >> /\ orderly' = orderly
      /\ \E arg \in Args \union {NoArg} :
           \/ /\ to(arg).ok /\ cwd' = to(arg).path
              /\ ReturnOk(e) /\ UNCHANGED <<memory, disk, saved, want, claim, faults>>
           \/ Complain /\ UNCHANGED cwd
  BY DEF Cd, MayCall, NewCall
<1>2. PICK arg \in Args \union {NoArg} :
        \/ /\ to(arg).ok /\ cwd' = to(arg).path
           /\ ReturnOk(e) /\ UNCHANGED <<memory, disk, saved, want, claim, faults>>
        \/ Complain /\ UNCHANGED cwd
  BY <1>1
<1>3. typed(arg) \in Typed /\ (typed(arg).abs => ArgLen(typed(arg)) <= PATH_MAX)
  <2>1. CASE arg = NoArg
    <3> DEFINE w == <<"cd">>
    <3>0. "cd" \in Component
      BY Words
    <3>1. w \in Seq(Component) /\ w # << >>
      BY <3>0
    <3> HIDE DEF w
    <3>2. typed(arg) = [abs |-> FALSE, parts |-> w]
      BY <2>1 DEF w
    <3> DEFINE P == Seq(Component) \ {<< >>}
    <3>3. w \in P
      BY <3>1
    <3> HIDE DEF P, typed
    <3>4. typed(arg) \in [abs : BOOLEAN, parts : P] /\ typed(arg).abs = FALSE
      BY <3>2, <3>3
    <3>5. QED
      BY <3>4 DEF Typed, P
  <2>2. CASE arg # NoArg
    BY <2>2, ShellAssumption DEF Typed
  <2>3. QED
    BY <2>1, <2>2
<1>4. to(arg).ok => to(arg).path \in FitPath
  <2> DEFINE a == typed(arg)
             r == vfs_normalize(cwd, a)
  <2> HIDE DEF a
  <2>1. r.ok => r.path \in FitPath
    BY <1>0, <1>3, NormalizeIs DEF a
  <2>2. QED
    BY <2>1 DEF a
<1>5. cwd' \in FitPath
  BY <1>0, <1>2, <1>4
<1>6. CallsOn(cwd, e)
  BY <1>2 DEF CallsOn, Complain, Failed
<1>7. QED
  BY <1>1, <1>5, <1>6 DEF Moved

(* The next call of a compound one.                                        *)
LEMMA ContinueIs ==
  ASSUME SessionInv, Types, buf \in Text, Continue
  PROVE  /\ pc = "next" /\ UNCHANGED <<buf, cargo>>
         /\ \E p \in FitPath, rest \in FitPending : CallsOn(p, rest)
<1> DEFINE C == [fn : {"touch", "write", "remove"}, path : FitPath]
           p == Head(todo).path
           rest == Tail(todo)
<1>1. todo \in Seq(C) /\ todo # << >> /\ pc = "next"
  BY DEF SessionInv, FitPending, Continue, Types, ControlTypes
<1>2. \A c \in C : c.path \in FitPath
  OBVIOUS
<1> HIDE DEF C
<1>3. Head(todo) \in C /\ Tail(todo) \in Seq(C)
  BY <1>1
<1>4. p \in FitPath /\ rest \in FitPending
  BY <1>2, <1>3 DEF FitPending, C
<1>5. buf \in Seq(Unit)
  BY TextIs
<1>6. vfs_touch(p, rest) \/ vfs_write(p, buf, FALSE, rest) \/ vfs_remove(p, rest)
  BY DEF Continue
<1> HIDE DEF p, rest
<1>7. CallsOn(p, rest)
  BY <1>5, <1>6, CallsOnAre
<1>8. QED
  BY <1>1, <1>4, <1>7 DEF Continue

(* The steps of a session.                                                 *)
LEMMA SessionSteps ==
  ASSUME SessionInv, Types, buf \in Text, ShellNext
  PROVE  /\ world' = world
         /\ \/ Commanded \/ Moved \/ PowerOff \/ Cut \/ Start
            \/ /\ scope' = << >> /\ UNCHANGED <<cwd, orderly>>
               /\ \/ Transfers
                  \/ /\ pc = "next" /\ UNCHANGED <<buf, cargo>>
                     /\ \E p \in FitPath, rest \in FitPending : CallsOn(p, rest)
<1>1. world' = world
  BY DEF ShellNext
<1>2. CASE Mkdir \/ Rmdir \/ Touch \/ Rm \/ Cat \/ WriteText \/ AppendText
  BY <1>1, <1>2, OnPathIs
<1>3. CASE Cp \/ Mv
  BY <1>1, <1>3, OnPathsAre
<1>4. CASE Cd
  BY <1>1, <1>4, CdIs
<1>5. CASE PowerOff \/ Cut \/ Start
  BY <1>1, <1>5
<1>6. CASE Transfer
  <2>1. CASE Continue
    BY <1>1, <1>6, <2>1, ContinueIs DEF Transfer
  <2>2. CASE ~Continue
    BY <1>1, <1>6, <2>2 DEF Transfer, Transfers
  <2>3. QED
    BY <2>1, <2>2
<1>7. QED
  BY <1>2, <1>3, <1>4, <1>5, <1>6 DEF ShellNext

-----------------------------------------------------------------------------
(* The types of a session.                                                 *)

(* The steps of a session as steps of the filesystem.                      *)
LEMMA SessionCalls ==
  ASSUME SessionInv, Types, buf \in Text, ShellNext
  PROVE  /\ world' = world
         /\ (Calls /\ todo' \in FitPending) \/ Transfers \/ PowerOff \/ Crash \/ PowerOn
<1>1. ASSUME NEW p \in FitPath, NEW rest \in FitPending, pc \in {"idle", "next"}, CallsOn(p, rest)
      PROVE  Calls /\ todo' \in FitPending
  BY <1>1, CallsOnCall
<1>2. cwd \in FitPath /\ << >> \in FitPending
  BY PendingFits DEF SessionInv
<1>3. QED
  BY <1>1, <1>2, SessionSteps DEF Commanded, Moved, Cut, Start

LEMMA OffTypes ==
  ASSUME Types, PowerOff
  PROVE  Types'
<1>1. /\ pc = "idle" /\ pc' = "off" /\ rc' = "none"
      /\ UNCHANGED <<records, contents, disk_backed, meta, data, cur, sec, todo, saved, want, claim, faults>>
  BY DEF PowerOff, MayCall, memory, disk
<1>2. StoreTypes' /\ PromiseTypes'
  BY <1>1 DEF Types, StoreTypes, PromiseTypes
<1>3. ControlTypes'
  BY <1>1 DEF Types, ControlTypes
<1>4. QED
  BY <1>2, <1>3 DEF Types

LEMMA SessionBuffer ==
  ASSUME SessionInv, Types, buf \in Text, ShellNext
  PROVE  buf' \in Text
<1>1. CASE Transfers
  BY <1>1, BufferTypes DEF Transfers, Step
<1>2. CASE ~Transfers
  <2>1. buf' \in {buf, << >>}
    BY <1>2, SessionSteps DEF Commanded, Moved, PowerOff, Cut, Crash, Start, PowerOn
  <2>2. QED
    BY <2>1, EmptyText
<1>3. QED
  BY <1>1, <1>2

LEMMA TodoFits ==
  ASSUME SessionInv, Transfers \/ PowerOff \/ Crash \/ PowerOn
  PROVE  todo' \in FitPending
<1>1. todo' \in {todo, << >>}
  BY DEF Transfers, FetchCached, FetchSectors, FetchFails, StoreSector, StoreFails, PersistSector, PersistFails,
         PowerOff, Crash, PowerOn, ReturnError, ReturnOk, BeginPersist
<1>2. QED
  BY <1>1, PendingFits DEF SessionInv

LEMMA NextSession ==
  AllTypes /\ SessionInv /\ [ShellNext]_shellVars => AllTypes' /\ SessionInv'
<1> SUFFICES ASSUME AllTypes, SessionInv, [ShellNext]_shellVars PROVE AllTypes' /\ SessionInv'
  OBVIOUS
<1>1. CASE UNCHANGED shellVars
  <2>1. UNCHANGED vars /\ UNCHANGED <<cwd, scope, orderly, todo>>
    BY <1>1 DEF shellVars, session, vars, control
  <2>2. AllTypes'
    BY <2>1, NextTypes
  <2>3. QED
    BY <2>1, <2>2 DEF SessionInv
<1>2. CASE ShellNext
  <2>1. world \in Worlds /\ buf \in Text /\ Types
    BY DEF AllTypes
  <2>2. /\ world' = world
        /\ (Calls /\ todo' \in FitPending) \/ Transfers \/ PowerOff \/ Crash \/ PowerOn
    BY <1>2, <2>1, SessionCalls
  <2>3. Types'
    BY <2>1, <2>2, CallTypes, FetchTypes, StoringTypes, PersistingTypes, PowerTypes, OffTypes
       DEF Transfers
  <2>4. buf' \in Text
    BY <1>2, <2>1, SessionBuffer
  <2>5. todo' \in FitPending
    BY <2>2, TodoFits
  <2>6. cwd' \in FitPath /\ scope' \in Seq(Name) /\ orderly' \in BOOLEAN
    <3>1. << >> \in FitPath /\ << >> \in Seq(Name)
      BY FitIsShort
    <3>2. cwd \in FitPath /\ scope \in Seq(Name) /\ orderly \in BOOLEAN
      BY DEF SessionInv
    <3>3. QED
      BY <1>2, <2>1, <3>1, <3>2, SessionSteps DEF Commanded, Moved, PowerOff, Cut, Start, session
  <2>7. QED
    BY <2>1, <2>2, <2>3, <2>4, <2>5, <2>6 DEF AllTypes, SessionInv
<1>3. QED
  BY <1>1, <1>2

LEMMA InitSession == ShellInit => AllTypes /\ SessionInv
<1> SUFFICES ASSUME ShellInit PROVE AllTypes /\ SessionInv
  OBVIOUS
<1>1. Init /\ cwd = << >> /\ scope = << >> /\ orderly = FALSE /\ todo = << >>
  BY DEF ShellInit, Init
<1>2. << >> \in FitPath /\ << >> \in Seq(Name) /\ << >> \in FitPending
  BY FitIsShort, PendingFits
<1>3. QED
  BY <1>1, <1>2, InitTypes DEF SessionInv

LEMMA TypesAreOK == AllTypes => TypeOK
<1> SUFFICES ASSUME AllTypes PROVE TypeOK
  OBVIOUS
<1>1. Max({DATA_SECTORS, META_SECTORS})
        = IF DATA_SECTORS <= META_SECTORS THEN META_SECTORS ELSE DATA_SECTORS
  BY MaxOfTwo, SizeAssumption
<1>2. /\ sec \in Nat /\ (pc = "store" => sec < DATA_SECTORS)
      /\ (pc = "persist" => sec < META_SECTORS) /\ (pc \notin {"store", "persist"} => sec = 0)
  BY DEF AllTypes, Types, ControlTypes
<1>3. sec \in 0 .. Max({DATA_SECTORS, META_SECTORS}) - 1
  BY <1>1, <1>2, SizeAssumption
<1>4. QED
  BY <1>3 DEF AllTypes, Types, StoreTypes, ControlTypes, PromiseTypes, Table, Unit, TypeOK

(* However long the paths that are typed, however many of them and whatever*)
(* is made and removed in between: the working directory that cd stores    *)
(* fits into cwd[VFS_PATH_MAX + 1] and parts[], and the filesystem's own   *)
(* variables keep their types under everything a session can do.           *)
THEOREM SessionsStayTyped == ShellSpec => []SessionOK
<1>1. AllTypes /\ SessionInv => SessionOK
  BY TypesAreOK, FitIsShort DEF SessionInv, SessionOK
<1>2. QED
  BY <1>1, InitSession, NextSession, PTL DEF ShellSpec

(* Whatever vfs_normalize accepts it resolves to the names that remain by  *)
(* definition: the joining with the working directory, "." and empty       *)
(* components, and ".." at any depth and at the root; for paths of any     *)
(* length and any working directory the session can get into.              *)
THEOREM PathsResolve == ShellSpec => []NormalizeResolves
<1>1. SessionInv => NormalizeResolves
  <2> SUFFICES ASSUME SessionInv, NEW arg \in Args, vfs_normalize(cwd, arg).ok
               PROVE  Remains(IF arg.abs THEN arg.parts ELSE cwd \o arg.parts,
                              vfs_normalize(cwd, arg).path)
    BY DEF NormalizeResolves
  <2>1. arg \in Typed /\ ArgLen(arg) <= PATH_MAX /\ cwd \in FitPath
    BY ShellAssumption DEF Typed, SessionInv
  <2>2. QED
    BY <2>1, NormalizeIs
<1>2. QED
  BY <1>1, InitSession, NextSession, PTL DEF ShellSpec

-----------------------------------------------------------------------------
(* The tree in a session.                                                  *)

LEMMA CallsWritten ==
  ASSUME Calls
  PROVE  Written'
<1>1. pc' # "persist" \/ sec' = 0
  BY DEF Calls, Failed, Passed, Creates, Drops, Reads, Writes, ReadBegun, WriteBegun,
         Drop, ReturnError, ReturnOk, BeginPersist
<1>2. QED
  BY <1>1, WrittenFromStart DEF Written

LEMMA OffTree ==
  ASSUME TreeInv, world' = world, PowerOff
  PROVE  TreeInv'
<1>1. UNCHANGED <<records, meta>> /\ pc' = "off" /\ "power" \in world.ops
  BY DEF PowerOff, MayCall, memory, disk
<1>2. QED
  BY <1>1 DEF TreeInv, DiskInv, Magic, Restarts

LEMMA SessionWritten ==
  ASSUME AllTypes, SessionInv, Written, ShellNext
  PROVE  Written'
<1>1. world \in Worlds /\ buf \in Text /\ Types
  BY DEF AllTypes
<1>2. CASE Calls
  BY <1>2, CallsWritten
<1>3. CASE PowerOff
  BY <1>3 DEF PowerOff, Written
<1>4. CASE Transfers \/ Crash \/ PowerOn
  <2>1. Step
    BY <1>4 DEF Transfers, Step
  <2>2. QED
    BY <1>1, <2>1, WrittenNext
<1>5. QED
  BY <1>1, <1>2, <1>3, <1>4, SessionCalls

LEMMA SessionTree ==
  ASSUME RestartAlone
  PROVE  AllTypes /\ SessionInv /\ Written /\ TreeInv /\ [ShellNext]_shellVars => TreeInv' /\ Written'
<1> SUFFICES ASSUME AllTypes, SessionInv, Written, TreeInv, [ShellNext]_shellVars
             PROVE  TreeInv' /\ Written'
  OBVIOUS
<1>1. CASE UNCHANGED shellVars
  <2>1. UNCHANGED vars
    BY <1>1 DEF shellVars
  <2>2. QED
    BY <2>1, NextTree
<1>2. CASE ShellNext
  <2>1. world \in Worlds /\ buf \in Text /\ Types
    BY DEF AllTypes
  <2>2. /\ world' = world
        /\ Calls \/ Transfers \/ PowerOff \/ Crash \/ PowerOn
    BY <1>2, <2>1, SessionCalls
  <2>3. TreeInv'
    BY <2>1, <2>2, CallTree, TransferTree, PersistTree, PowerTree, OffTree DEF Transfers
  <2>4. Written'
    BY <1>2, SessionWritten
  <2>5. QED
    BY <2>3, <2>4
<1>3. QED
  BY <1>1, <1>2

LEMMA InitSessionTree == ShellInit => TreeInv /\ Written
  BY InitTree, InitWritten DEF ShellInit

(* Switched off by a command, the machine leaves the tree of the session   *)
(* on its disk.                                                            *)
OffInv ==
  pc = "off" /\ orderly /\ disk_backed =>
    Restarts(world) /\ Magic /\ SameTree(Loaded(meta), records)

LEMMA NextOff ==
  AllTypes /\ SessionInv /\ TreeInv /\ OffInv /\ [ShellNext]_shellVars => OffInv'
<1> SUFFICES ASSUME AllTypes, SessionInv, TreeInv, OffInv, [ShellNext]_shellVars PROVE OffInv'
  OBVIOUS
<1>1. CASE UNCHANGED shellVars
  <2>1. UNCHANGED <<world, pc, orderly, disk_backed, meta, records>>
    BY <1>1 DEF shellVars, session, vars, memory, disk, control
  <2>2. QED
    BY <2>1 DEF OffInv, Magic
<1>2. CASE ShellNext
  <2>1. world \in Worlds /\ buf \in Text /\ Types
    BY DEF AllTypes
  <2>2. CASE PowerOff
    <3>1. /\ pc = "idle" /\ "power" \in world.ops /\ world' = world
          /\ UNCHANGED <<disk_backed, meta, records>>
      BY <1>2, <2>2 DEF PowerOff, MayCall, memory, disk, ShellNext
    <3>2. disk_backed => Restarts(world) /\ Magic /\ SameTree(Loaded(meta), records)
      BY <3>1 DEF TreeInv, DiskInv, Restarts
    <3>3. QED
      BY <3>1, <3>2 DEF OffInv, Magic
  <2>3. CASE Cut
    BY <2>3 DEF Cut, OffInv
  <2>4. CASE ~PowerOff /\ ~Cut
    <3>1. Calls \/ Transfers \/ PowerOn
      BY <1>2, <2>1, <2>4, SessionSteps, CallsOnCall, PendingFits DEF Commanded, Moved, Start, SessionInv
    <3>2. pc' # "off"
      <4>1. CASE Calls
        BY <4>1 DEF Calls, Failed, Passed, Creates, Drops, Reads, Writes, ReadBegun, WriteBegun,
                    Drop, ReturnError, ReturnOk, BeginPersist
      <4>2. CASE Transfers
        BY <4>2 DEF Transfers, FetchCached, FetchSectors, FetchFails, StoreSector, StoreFails,
                    PersistSector, PersistFails, ReturnError, ReturnOk, BeginPersist
      <4>3. CASE PowerOn
        BY <4>3 DEF PowerOn
      <4>4. QED
        BY <3>1, <4>1, <4>2, <4>3
    <3>3. QED
      BY <3>2 DEF OffInv
  <2>5. QED
    BY <2>2, <2>3, <2>4
<1>3. QED
  BY <1>1, <1>2

(* After reboot or shutdown the mount that follows finds the tree exactly  *)
(* as the session left it: no command returns to the prompt with a change  *)
(* that is in memory alone.                                                *)
THEOREM OffKeepsTrees ==
  ASSUME RestartAlone
  PROVE  ShellSpec => OffKeepsTree
<1> DEFINE I == AllTypes /\ SessionInv /\ Written /\ TreeInv /\ OffInv
           A == pc = "off" /\ pc' # "off" /\ disk_backed /\ disk_backed' /\ orderly
                  => Tree(records') = Tree(records)
<1>1. ShellInit => I
  BY InitSession, InitSessionTree DEF ShellInit, OffInv
<1>2. I /\ [ShellNext]_shellVars => I'
  BY NextSession, SessionTree, NextOff
<1>3. I /\ [ShellNext]_shellVars => [A]_shellVars
  <2> SUFFICES ASSUME I, ShellNext, pc = "off", pc' # "off", disk_backed, disk_backed', orderly
               PROVE  Tree(records') = Tree(records)
    OBVIOUS
  <2>1. world \in Worlds /\ buf \in Text /\ Types
    BY DEF AllTypes
  <2>2. PowerOn
    <3>1. ~PowerOff /\ ~Cut
      BY DEF PowerOff, Cut, Crash
    <3>2. ~Transfers
      BY DEF Transfers, FetchCached, FetchSectors, FetchFails, StoreSector, StoreFails,
                PersistSector, PersistFails
    <3>3. QED
      BY <2>1, <3>1, <3>2, SessionSteps DEF Commanded, Moved, Start
  <2>3. Restarts(world) /\ Magic /\ SameTree(Loaded(meta), records)
    BY DEF OffInv
  <2>4. records' = Loaded(meta)
    <3>1. ~TimesOut("read")
      BY <2>1, <2>3 DEF RestartAlone, TimesOut
    <3>2. QED
      BY <2>2, <2>3, <3>1 DEF PowerOn, Magic
  <2>5. Sound(records) /\ Loaded(meta) \in Table
    BY <2>1 DEF TreeInv, Types, StoreTypes
  <2> DEFINE r == records
             q == Loaded(meta)
  <2> HIDE DEF r, q
  <2>6. Tree(q) = Tree(r)
    BY <2>3, <2>5, SameIsSound DEF r, q
  <2>7. QED
    BY <2>4, <2>6 DEF r, q
<1> HIDE DEF I
<1>4. QED
  BY <1>1, <1>2, <1>3, PTL DEF ShellSpec, OffKeepsTree

(* The record table stays a tree whatever the session does, reboots and    *)
(* power losses included.                                                  *)
THEOREM SessionsKeepTrees ==
  ASSUME RestartAlone
  PROVE  ShellSpec => []TreeWellFormed
<1>1. TreeInv => TreeWellFormed
  BY SoundIsWellFormed DEF TreeInv
<1>2. QED
  BY <1>1, InitSession, NextSession, InitSessionTree, SessionTree, PTL DEF ShellSpec

(* What a mount finds is, in a session of commands too, the tree of the    *)
(* last completed persist() or the one that was being written.             *)
THEOREM SessionsRestoreTrees ==
  ASSUME RestartAlone, FALSE \notin DiskFound
  PROVE  ShellSpec => MountRestoresTree
<1> DEFINE I == AllTypes /\ SessionInv /\ Written /\ TreeInv /\ SavedInv
           A == pc = "off" /\ pc' # "off" /\ disk_backed'
                  => Tree(records') \in {Tree(saved), Tree(records)}
<1>1. ShellInit => I
  BY InitSession, InitSessionTree, InitSaved DEF ShellInit
<1>2. I /\ [ShellNext]_shellVars => I'
  <2> SUFFICES ASSUME I, [ShellNext]_shellVars PROVE SavedInv'
    BY NextSession, SessionTree
  <2>1. CASE UNCHANGED shellVars
    <3>1. UNCHANGED <<world, records, disk_backed, meta, pc, saved>>
      BY <2>1 DEF shellVars, vars, memory, disk, control, history
    <3>2. QED
      BY <3>1 DEF SavedInv, Magic
  <2>2. CASE ShellNext
    <3>1. world' = world /\ (Calls \/ Transfers \/ PowerOff \/ Crash \/ PowerOn)
      BY <2>2, SessionCalls DEF AllTypes
    <3>2. CASE PowerOff
      <4>1. UNCHANGED <<records, meta, disk_backed, saved>> /\ pc' = "off" /\ "power" \in world.ops
        BY <3>2 DEF PowerOff, MayCall, memory, disk
      <4>2. QED
        BY <3>1, <4>1 DEF SavedInv, Magic, Restarts
    <3>3. QED
      BY <3>1, <3>2, SavedStep
  <2>3. QED
    BY <2>1, <2>2
<1>3. I /\ [ShellNext]_shellVars => [A]_vars
  <2> SUFFICES ASSUME I, [ShellNext]_shellVars, pc = "off", pc' # "off", disk_backed'
               PROVE  Tree(records') \in {Tree(saved), Tree(records)}
    OBVIOUS
  <2>1. ShellNext
    BY DEF shellVars, vars, control
  <2>2. Calls \/ Transfers \/ PowerOff \/ Crash \/ PowerOn
    BY <2>1, SessionCalls DEF AllTypes
  <2>3. PowerOn
    BY <2>2 DEF Calls, Transfers, FetchCached, FetchSectors, FetchFails, StoreSector, StoreFails,
                PersistSector, PersistFails, PowerOff, Crash
  <2>4. QED
    BY <2>3, MountFinds
<1> HIDE DEF I
<1>4. QED
  BY <1>1, <1>2, <1>3, PTL DEF ShellSpec, MountRestoresTree

(* The persist() at the end of vfs_init writes back what it has read, in a *)
(* session of commands too.                                                *)
THEOREM SessionsKeepDisk ==
  ASSUME MountsRead
  PROVE  ShellSpec => MountKeepsDisk
<1> DEFINE I == AllTypes /\ SessionInv /\ Written /\ MountInv
           A == pc = "persist" /\ rc = "none" /\ meta[0].magic
                  => Tree(Loaded(meta')) = Tree(Loaded(meta))
<1>1. ShellInit => I
  BY InitSession, InitSessionTree, InitMount DEF ShellInit
<1>2. I /\ [ShellNext]_shellVars => I'
  <2> SUFFICES ASSUME I, [ShellNext]_shellVars PROVE Written' /\ MountInv'
    BY NextSession
  <2>1. CASE UNCHANGED shellVars
    <3>1. UNCHANGED <<world, records, disk_backed, meta, pc, sec, rc>>
      BY <2>1 DEF shellVars, vars, memory, disk, control
    <3>2. QED
      BY <3>1 DEF MountInv, FreshInv, Magic, Written
  <2>2. CASE ShellNext
    <3>1. world' = world /\ (Calls \/ Transfers \/ PowerOff \/ Crash \/ PowerOn)
      BY <2>2, SessionCalls DEF AllTypes
    <3>2. CASE PowerOff
      <4>1. meta' = meta /\ pc' = "off" /\ "power" \in world.ops
        BY <3>2 DEF PowerOff, MayCall, disk
      <4>2. QED
        BY <3>1, <4>1 DEF MountInv, Magic, Restarts, Written
    <3>3. QED
      BY <2>2, <3>1, <3>2, MountStep, SessionWritten
  <2>3. QED
    BY <2>1, <2>2
<1>3. I /\ [ShellNext]_shellVars => [A]_vars
  <2> SUFFICES ASSUME I, [ShellNext]_shellVars, pc = "persist", rc = "none"
               PROVE  Tree(Loaded(meta')) = Tree(Loaded(meta))
    OBVIOUS
  <2>1. meta' = meta \/ meta' = [meta EXCEPT ![sec] = Image(records, sec, TRUE)]
    <3>1. CASE UNCHANGED shellVars
      BY <3>1 DEF shellVars, vars, disk
    <3>2. CASE ShellNext
      <4>1. Calls \/ Transfers \/ PowerOff \/ Crash \/ PowerOn
        BY <3>2, SessionCalls DEF AllTypes
      <4>2. QED
        BY <4>1 DEF Calls, Transfers, FetchCached, FetchSectors, FetchFails, StoreSector, StoreFails,
                    PersistSector, PersistFails, PowerOff, Crash, PowerOn, disk, MayCall
    <3>3. QED
      BY <3>1, <3>2
  <2>2. QED
    BY <2>1, MountWritesSame
<1> HIDE DEF I
<1>4. QED
  BY <1>1, <1>2, <1>3, PTL DEF ShellSpec, MountKeepsDisk

-----------------------------------------------------------------------------
(* What a command does to the tree.                                        *)

LEMMA CallChanges ==
  ASSUME Types, Sound(records), NEW p \in FitPath, NEW rest, CallsOn(p, rest)
  PROVE  /\ Sound(records') /\ meta' = meta
         /\ SameTree(records', records) \/ Grown(records, records', p) \/ Shrunk(records, records', p)
<1>0. p \in ShortPath /\ records \in Table
  BY FitIsShort DEF Types, StoreTypes
<1>1. CASE UNCHANGED <<records, meta>>
  BY <1>1, SameReflexive
<1>2. ASSUME NEW type \in {"dir", "file"}, NEW n \in Slot, Created(p, type, n)
      PROVE  Sound(records') /\ meta' = meta /\ Grown(records, records', p)
  BY <1>0, <1>2, CreateGrows DEF Created
<1>3. ASSUME NEW n \in Slot \ {0}, n = find(records, p), records[n].used,
             records[n].type = "file" \/ Children(records, n) = {}, Drop(n, rest)
      PROVE  Sound(records') /\ meta' = meta /\ Shrunk(records, records', p)
  BY <1>3, DropShrinks DEF Drop, disk
<1>4. ASSUME NEW n \in Slot, NEW text \in Seq(Unit), NEW append \in BOOLEAN,
             WriteBegun(n, text, append, rest)
      PROVE  Sound(records') /\ meta' = meta /\ SameTree(records', records)
  <2>1. records' \in Table /\ SameTree(records', records)
    BY <1>4, WriteSame
  <2>2. Sound(records')
    BY <2>1, SameIsSound
  <2>3. QED
    BY <1>4, <2>1, <2>2 DEF WriteBegun
<1>5. CASE ~UNCHANGED <<records, meta>>
  <2>1. \/ \E type \in {"dir", "file"}, n \in Slot : Created(p, type, n)
        \/ \E n \in Slot \ {0} : /\ n = find(records, p) /\ records[n].used
                                 /\ (records[n].type = "file" \/ Children(records, n) = {})
                                 /\ Drop(n, rest)
        \/ \E n \in Slot, text \in Seq(Unit), append \in BOOLEAN : WriteBegun(n, text, append, rest)
    BY <1>5 DEF CallsOn, Failed, ReadBegun, memory, disk
  <2>2. QED
    BY <1>2, <1>3, <1>4, <2>1
<1>6. QED
  BY <1>1, <1>5

(* The directories on the way to an entry.                                 *)
LEMMA WayThere ==
  ASSUME NEW r, Sound(r), NEW d \in Seq(Names), NEW i \in Used(r), Within(d, Place(r, i)), d # Place(r, i)
  PROVE  \E j \in Used(r) : r[j].type = "dir" /\ Place(r, j) = d
<1> DEFINE Way(m) == \A k \in Used(r) : Len(Place(r, k)) = m /\ Within(d, Place(r, k)) /\ d # Place(r, k) =>
                       \E j \in Used(r) : r[j].type = "dir" /\ Place(r, j) = d
           S == {m \in Nat : Way(m)}
<1>0. Len(d) \in Nat
  OBVIOUS
<1>1. \A k \in Used(r) : Place(r, k) \in Seq(Names) /\ Len(Place(r, k)) \in Nat
  BY PathIsPlace DEF Used
<1>2. \A p \in Seq(Names) : Within(d, p) /\ Len(d) = Len(p) => d = p
  BY DEF Within
<1>3. 0 \in S
  <2>1. ASSUME NEW k \in Used(r), Len(Place(r, k)) = 0, Within(d, Place(r, k)), d # Place(r, k) PROVE FALSE
    <3>1. Len(d) = 0
      BY <1>0, <2>1 DEF Within
    <3>2. QED
      BY <1>1, <1>2, <2>1, <3>1
  <2>2. QED
    BY <2>1
<1>4. ASSUME NEW m \in Nat, m \in S PROVE m + 1 \in S
  <2> SUFFICES ASSUME NEW k \in Used(r), Len(Place(r, k)) = m + 1, Within(d, Place(r, k)), d # Place(r, k)
               PROVE  \E j \in Used(r) : r[j].type = "dir" /\ Place(r, j) = d
    OBVIOUS
  <2> DEFINE q == Place(r, k)
             f == r[k].parent
             u == Place(r, f)
             c == r[k].name
  <2>1. k # 0
    <3>1. k = 0 => Len(Place(r, k)) = 0
      BY PathIsPlace, EmptyLength
    <3>2. QED
      BY <3>1
  <2>2. q = Append(u, c) /\ f \in Used(r) /\ c \in Names /\ r[f].type = "dir"
    BY <2>1, PathIsPlace DEF Sound, Closed
  <2>3. u \in Seq(Names) /\ Len(u) \in Nat /\ q \in Seq(Names)
    BY <1>1, <2>2
  <2>4. Len(q) = m + 1 /\ Within(d, q) /\ d # q
    OBVIOUS
  <2> HIDE DEF q, u, c, f
  <2>5. Len(q) = Len(u) + 1 /\ \A x \in 1 .. Len(u) : q[x] = u[x]
    BY <2>2, <2>3, AppendedParts
  <2>6. Len(d) # Len(q)
    BY <1>2, <2>3, <2>4
  <2>7. Len(d) <= Len(u) /\ Within(d, u) /\ Len(u) = m
    BY <1>0, <2>3, <2>4, <2>5, <2>6 DEF Within
  <2>8. CASE d = u
    BY <2>2, <2>8 DEF u
  <2>9. CASE d # u
    <3>1. Way(m)
      BY <1>4
    <3>2. QED
      BY <2>2, <2>7, <2>9, <3>1 DEF u
  <2>10. QED
    BY <2>8, <2>9
<1> HIDE DEF S
<1>5. \A m \in Nat : m \in S
  BY <1>3, <1>4, EveryNat
<1>6. QED
  BY <1>1, <1>5 DEF S

(* The tree of a sound table.                                              *)
LEMMA TreeIs ==
  ASSUME NEW r, Sound(r)
  PROVE  Tree(r) = {<<Place(r, i), r[i].type>> : i \in Used(r) \ {0}}
<1>1. {j \in Slot \ {0} : r[j].used} = Used(r) \ {0}
  BY DEF Used
<1>2. \A i \in Used(r) \ {0} : PathOf(r, i) = Place(r, i)
  BY PathIsPlace
<1>3. QED
  BY <1>1, <1>2 DEF Tree

LEMMA GrownTree ==
  ASSUME NEW r, Sound(r), NEW q, Sound(q), NEW p, Grown(r, q, p), NEW e
  PROVE  /\ e \in Tree(r) => e \in Tree(q)
         /\ e \in Tree(q) => e \in Tree(r) \/ e[1] = p
<1>1. PICK n \in Slot \ {0} :
        /\ Used(q) = Used(r) \union {n} /\ Place(q, n) = p
        /\ \A i \in Used(r) : Place(q, i) = Place(r, i) /\ q[i] = r[i]
  BY DEF Grown
<1>2. e \in Tree(r) <=> \E i \in Used(r) \ {0} : e = <<Place(r, i), r[i].type>>
  BY TreeIs
<1>3. e \in Tree(q) <=> \E i \in Used(q) \ {0} : e = <<Place(q, i), q[i].type>>
  BY TreeIs
<1>4. QED
  BY <1>1, <1>2, <1>3

LEMMA ShrunkTree ==
  ASSUME NEW r, Sound(r), NEW q, Sound(q), NEW p, Shrunk(r, q, p), NEW e
  PROVE  /\ e \in Tree(q) => e \in Tree(r)
         /\ e \in Tree(r) => e \in Tree(q) \/ e[1] = p
<1>1. PICK n \in Used(r) \ {0} :
        /\ Place(r, n) = p /\ Used(q) = Used(r) \ {n}
        /\ \A i \in Used(q) : Place(q, i) = Place(r, i) /\ q[i] = r[i]
  BY DEF Shrunk
<1>2. e \in Tree(r) <=> \E i \in Used(r) \ {0} : e = <<Place(r, i), r[i].type>>
  BY TreeIs
<1>3. e \in Tree(q) <=> \E i \in Used(q) \ {0} : e = <<Place(q, i), q[i].type>>
  BY TreeIs
<1>4. QED
  BY <1>1, <1>2, <1>3

(* A path below a directory that is not there can only be that path.       *)
LEMMA NothingBelow ==
  ASSUME NEW r, Sound(r), NEW q, NEW d \in Seq(Name), NEW p \in Seq(Name), Within(d, p),
         \A j \in Used(r) : ~(r[j].type = "dir" /\ Place(r, j) = d),
         Grown(r, q, p) \/ Shrunk(r, q, p)
  PROVE  p = d
<1> SUFFICES ASSUME p # d PROVE FALSE
  OBVIOUS
<1>0. d \in Seq(Names) /\ p \in Seq(Names) /\ Len(d) \in Nat /\ Len(p) \in Nat
  BY DEF Names
<1>1. Len(d) < Len(p)
  <2>1. Len(d) = Len(p) => d = p
    BY DEF Within
  <2>2. QED
    BY <1>0, <2>1 DEF Within
<1>2. CASE Shrunk(r, q, p)
  <2>1. PICK n \in Used(r) : Place(r, n) = p
    BY <1>2 DEF Shrunk
  <2>2. QED
    BY <1>0, <2>1, WayThere
<1>3. CASE Grown(r, q, p)
  <2>1. PICK f \in Used(r) : Place(r, f) = Front(p) /\ r[f].type = "dir" /\ p # << >>
    BY <1>3 DEF Grown
  <2> DEFINE u == Front(p)
  <2>2. Len(u) = Len(p) - 1 /\ \A k \in 1 .. Len(p) - 1 : u[k] = p[k]
    BY <1>0, <2>1, FrontParts
  <2>3. Place(r, f) = u
    BY <2>1
  <2> HIDE DEF u
  <2>4. Within(d, u)
    BY <1>0, <1>1, <2>2 DEF Within
  <2>5. d # u
    BY <2>1, <2>3
  <2>6. QED
    BY <1>0, <2>3, <2>4, <2>5, WayThere
<1>4. QED
  BY <1>2, <1>3

(* A working directory that was removed, and whose slot may have been      *)
(* given to something else, leads nowhere: what is typed below it changes  *)
(* no entry but the missing one itself.                                    *)
THEOREM StaleCwdsAreInert ==
  ASSUME RestartAlone
  PROVE  ShellSpec => StaleCwdInert
<1> DEFINE I == AllTypes /\ SessionInv /\ Written /\ TreeInv
           A == pc = "idle" /\ pc' # "off" /\ scope' # << >> /\ ~vfs_is_directory(cwd)
                  => Changed \subseteq {cwd}
<1>1. ShellInit => I
  BY InitSession, InitSessionTree
<1>2. I /\ [ShellNext]_shellVars => I'
  BY NextSession, SessionTree
<1>3. I /\ [ShellNext]_shellVars => [A]_shellVars
  <2> SUFFICES ASSUME I, ShellNext, pc = "idle", pc' # "off", scope' # << >>, ~vfs_is_directory(cwd)
               PROVE  Changed \subseteq {cwd}
    OBVIOUS
  <2>1. Types /\ buf \in Text /\ SessionInv /\ Sound(records) /\ cwd \in FitPath
    BY DEF AllTypes, TreeInv, SessionInv
  <2>2. PICK p \in FitPath, rest \in FitPending : CallsOn(p, rest) /\ Within(cwd, p)
    <3>1. Commanded
      <4>1. ~PowerOff /\ ~Cut /\ ~Start
        BY DEF PowerOff, Cut, Crash, Start, PowerOn
      <4>2. ~Moved
        BY DEF Moved
      <4>3. QED
        BY <2>1, <4>1, <4>2, SessionSteps
    <3>2. QED
      BY <3>1 DEF Commanded
  <2>3. \A j \in Used(records) : ~(records[j].type = "dir" /\ Place(records, j) = cwd)
    <3>1. ASSUME NEW j \in Used(records), records[j].type = "dir", Place(records, j) = cwd PROVE FALSE
      <4>1. find(records, cwd) = j
        BY <2>1, <3>1, FindsPlace
      <4>2. j >= 0
        BY SlotFacts DEF Used
      <4>3. QED
        BY <3>1, <4>1, <4>2 DEF vfs_is_directory
    <3>2. QED
      BY <3>1
  <2> DEFINE r == records
             q == records'
  <2>4. /\ Sound(r) /\ Sound(q) /\ q \in Table
        /\ SameTree(q, r) \/ Grown(r, q, p) \/ Shrunk(r, q, p)
    BY <2>1, <2>2, CallChanges DEF Sound
  <2>5. \A j \in Used(r) : ~(r[j].type = "dir" /\ Place(r, j) = cwd)
    BY <2>3
  <2>6. Changed = {e[1] : e \in (Tree(r) \ Tree(q)) \union (Tree(q) \ Tree(r))}
    BY DEF Changed
  <2> HIDE DEF r, q
  <2>7. CASE SameTree(q, r)
    <3>1. Tree(q) = Tree(r)
      BY <2>4, <2>7, SameIsSound
    <3>2. QED
      BY <2>6, <3>1
  <2>8. CASE Grown(r, q, p) \/ Shrunk(r, q, p)
    <3>1. cwd \in Seq(Name) /\ p \in Seq(Name)
      BY <2>1, FitIsShort
    <3>2. p = cwd
      BY <2>2, <2>4, <2>5, <2>8, <3>1, NothingBelow
    <3>3. \A e \in (Tree(r) \ Tree(q)) \union (Tree(q) \ Tree(r)) : e[1] = p
      BY <2>4, <2>8, GrownTree, ShrunkTree
    <3>4. QED
      BY <2>6, <3>2, <3>3
  <2>9. QED
    BY <2>4, <2>7, <2>8
<1> HIDE DEF I
<1>4. QED
  BY <1>1, <1>2, <1>3, PTL DEF ShellSpec, StaleCwdInert

-----------------------------------------------------------------------------
(* Every path in the table is one that vfs_normalize returned.             *)

Fits(r) == \A i \in Used(r) : Place(r, i) \in FitPath

FitInv == Fits(records) /\ (Restarts(world) /\ Magic => Fits(Loaded(meta)))

LEMMA EmptyFits == Fits(EmptyTable)
<1>1. Used(EmptyTable) = {0}
  BY EmptyIsSound, SlotFacts DEF Used, Bare, Sound, Closed
<1>2. Place(EmptyTable, 0) = << >>
  BY EmptyIsSound, PathIsPlace
<1>3. QED
  BY <1>1, <1>2, FitIsShort DEF Fits

LEMMA SameFits ==
  ASSUME NEW r, Sound(r), Fits(r), NEW q \in Table, SameTree(q, r)
  PROVE  Fits(q)
  BY SameIsSound DEF Fits

LEMMA ChangedFits ==
  ASSUME NEW r, Sound(r), Fits(r), NEW q, Sound(q), NEW p \in FitPath,
         SameTree(q, r) \/ Grown(r, q, p) \/ Shrunk(r, q, p)
  PROVE  Fits(q)
<1>1. CASE SameTree(q, r)
  BY <1>1, SameFits DEF Sound
<1>2. CASE Grown(r, q, p)
  BY <1>2 DEF Grown, Fits
<1>3. CASE Shrunk(r, q, p)
  BY <1>3 DEF Shrunk, Fits
<1>4. QED
  BY <1>1, <1>2, <1>3

LEMMA CallFits ==
  ASSUME Types, TreeInv, FitInv, world' = world, NEW p \in FitPath, NEW rest, CallsOn(p, rest)
  PROVE  FitInv'
<1>1. /\ Sound(records) /\ Sound(records') /\ meta' = meta
      /\ SameTree(records', records) \/ Grown(records, records', p) \/ Shrunk(records, records', p)
  BY CallChanges DEF TreeInv
<1>2. Fits(records')
  BY <1>1, ChangedFits DEF FitInv
<1>3. QED
  BY <1>1, <1>2 DEF FitInv, Magic

LEMMA PersistFits ==
  ASSUME Types, Written, TreeInv, FitInv, world' = world, pc = "persist", records' = records,
         meta' = [meta EXCEPT ![sec] = Image(records, sec, TRUE)]
  PROVE  FitInv'
<1>0. /\ pc = "persist" /\ records' = records /\ Sound(records) /\ Fits(records)
      /\ meta' = [meta EXCEPT ![sec] = Image(records, sec, TRUE)]
  BY DEF TreeInv, FitInv
<1> DEFINE m == Loaded(meta)
           w == Loaded(meta')
<1>1. ASSUME Restarts(world) PROVE Fits(w)
  <2>1. DiskInv /\ w \in Table
    BY <1>0, <1>1, MetaWriteType DEF TreeInv
  <2>2. CASE ~Magic
    <3>1. SameTree(w, records)
      BY <1>0, <2>1, <2>2, FirstSector DEF DiskInv
    <3> HIDE DEF w
    <3>2. QED
      BY <1>0, <2>1, <3>1, SameFits
  <2>3. CASE Magic
    <3>1. Sound(m) /\ Near(m, records) /\ Fits(m)
      BY <1>0, <1>1, <2>1, <2>3 DEF DiskInv, FitInv
    <3>2. SameTree(w, records) \/ SameTree(w, m)
      BY <1>0, <3>1, SectorNear
    <3> HIDE DEF w, m
    <3>3. QED
      BY <1>0, <2>1, <3>1, <3>2, SameFits
  <2>4. QED
    BY <2>2, <2>3
<1>2. QED
  BY <1>0, <1>1 DEF FitInv

LEMMA PowerFits ==
  ASSUME Types, TreeInv, FitInv, world' = world, PowerOn
  PROVE  FitInv'
<1>1. meta' = meta /\ pc = "off"
  BY DEF PowerOn, disk
<1>2. records' = EmptyTable \/ (records' = Loaded(meta) /\ Magic)
  BY DEF PowerOn, Magic
<1>3. Fits(records')
  <2>1. CASE records' = EmptyTable
    BY <2>1, EmptyFits
  <2>2. CASE records' = Loaded(meta) /\ Magic
    BY <1>1, <2>2 DEF FitInv, TreeInv, FreshInv
  <2>3. QED
    BY <1>2, <2>1, <2>2
<1>4. QED
  BY <1>1, <1>3 DEF FitInv, Magic

LEMMA NextFits ==
  AllTypes /\ SessionInv /\ Written /\ TreeInv /\ FitInv /\ [ShellNext]_shellVars => FitInv'
<1> SUFFICES ASSUME AllTypes, SessionInv, Written, TreeInv, FitInv, [ShellNext]_shellVars PROVE FitInv'
  OBVIOUS
<1>0. Types /\ buf \in Text /\ cwd \in FitPath
  BY DEF AllTypes, SessionInv
<1>1. CASE UNCHANGED <<world, records, meta>>
  BY <1>1 DEF FitInv, Magic
<1>2. CASE UNCHANGED shellVars
  BY <1>1, <1>2 DEF shellVars, vars, memory, disk
<1>3. CASE ShellNext
  <2>1. world' = world
    BY <1>3 DEF ShellNext
  <2>2. ASSUME NEW p \in FitPath, NEW rest, CallsOn(p, rest) PROVE FitInv'
    BY <1>0, <2>1, <2>2, CallFits
  <2>3. CASE Transfers
    <3>1. /\ records' = records
          /\ meta' = meta \/ (pc = "persist" /\ meta' = [meta EXCEPT ![sec] = Image(records, sec, TRUE)])
      BY <2>3 DEF Transfers, FetchCached, FetchSectors, FetchFails, StoreSector, StoreFails,
                  PersistSector, PersistFails, memory, disk
    <3>2. QED
      BY <1>0, <1>1, <2>1, <3>1, PersistFits
  <2>4. CASE PowerOff \/ Cut
    <3>1. UNCHANGED <<records, meta>>
      BY <2>4 DEF PowerOff, Cut, Crash, memory, disk
    <3>2. QED
      BY <1>1, <2>1, <3>1
  <2>5. CASE Start
    BY <1>0, <2>1, <2>5, PowerFits DEF Start
  <2>6. QED
    BY <1>0, <1>3, <2>2, <2>3, <2>4, <2>5, SessionSteps DEF Commanded, Moved
<1>4. QED
  BY <1>2, <1>3

LEMMA InitFits == ShellInit => FitInv
<1> SUFFICES ASSUME ShellInit PROVE FitInv
  OBVIOUS
<1>1. records = EmptyTable /\ meta = BlankMeta
  BY DEF ShellInit, Init
<1>2. ~Magic
  BY <1>1, BlankType DEF Magic
<1>3. QED
  BY <1>1, <1>2, EmptyFits DEF FitInv

-----------------------------------------------------------------------------
(* find and tree.                                                          *)

(* The entries of table r below p, at most n levels down.                  *)
Under(r, p, n) ==
  {j \in Used(r) \ {0} : /\ Within(p, Place(r, j)) /\ Len(p) < Len(Place(r, j))
                         /\ Len(Place(r, j)) <= Len(p) + n}
Subtree(r, p, n) == {Place(r, j) : j \in Under(r, p, n)}

LEMMA FitPlaces ==
  ASSUME NEW r, Sound(r), Fits(r), NEW j \in Used(r)
  PROVE  /\ Place(r, j) \in Seq(Name) /\ Place(r, j) \in Seq(Names) /\ Len(Place(r, j)) \in Nat
         /\ Len(Place(r, j)) <= PARTS_MAX /\ PathLen(Place(r, j)) <= PATH_MAX
<1>1. Place(r, j) \in FitPath
  BY DEF Fits
<1>2. QED
  BY <1>1, FitIsShort, PathIsPlace DEF Used

(* An entry and its directory.                                             *)
LEMMA UpOne ==
  ASSUME NEW r, Sound(r), Fits(r), NEW j \in Used(r) \ {0}
  PROVE  /\ r[j].parent \in Used(r) /\ r[r[j].parent].type = "dir" /\ r[j].name \in Name
         /\ Place(r, j) = Append(Place(r, r[j].parent), r[j].name)
         /\ Len(Place(r, j)) = Len(Place(r, r[j].parent)) + 1
         /\ Within(Place(r, r[j].parent), Place(r, j))
<1> DEFINE q == Place(r, j)
           f == r[j].parent
           u == Place(r, f)
           c == r[j].name
<1>1. q = Append(u, c) /\ f \in Used(r) /\ c \in Names /\ r[f].type = "dir"
  BY PathIsPlace DEF Sound, Closed
<1>2. u \in Seq(Names) /\ u \in Seq(Name) /\ q \in Seq(Name) /\ Len(u) \in Nat
  BY <1>1, FitPlaces
<1> HIDE DEF q, u, c, f
<1>3. Len(q) = Len(u) + 1 /\ q[Len(u) + 1] = c /\ \A x \in 1 .. Len(u) : q[x] = u[x]
  BY <1>1, <1>2, AppendedParts
<1>4. c \in Name
  BY <1>2, <1>3
<1>5. Within(u, q)
  BY <1>2, <1>3 DEF Within
<1>6. QED
  BY <1>1, <1>3, <1>4, <1>5 DEF q, u, c, f

LEMMA WithinSame ==
  ASSUME NEW p \in Seq(Name), NEW q \in Seq(Name), Within(p, q), Len(q) <= Len(p)
  PROVE  p = q
  BY DEF Within

LEMMA WithinTrans ==
  ASSUME NEW p \in Seq(Name), NEW q \in Seq(Name), NEW s \in Seq(Name), Within(p, q), Within(q, s)
  PROVE  Within(p, s)
<1>1. Len(p) \in Nat /\ Len(q) \in Nat /\ Len(s) \in Nat
  OBVIOUS
<1>2. \A k \in 1 .. Len(p) : k \in 1 .. Len(q) /\ p[k] = q[k] /\ q[k] = s[k]
  BY <1>1 DEF Within
<1>3. QED
  BY <1>1, <1>2 DEF Within

(* The beginnings of one path.                                             *)
LEMMA WithinBoth ==
  ASSUME NEW p \in Seq(Name), NEW q \in Seq(Name), NEW s \in Seq(Name), Within(p, s), Within(q, s),
         Len(p) <= Len(q)
  PROVE  Within(p, q)
<1>1. Len(p) \in Nat /\ Len(q) \in Nat /\ Len(s) \in Nat
  OBVIOUS
<1>2. \A k \in 1 .. Len(p) : k \in 1 .. Len(q)
  BY <1>1
<1>3. \A k \in 1 .. Len(p) : q[k] = p[k]
  BY <1>2 DEF Within
<1>4. QED
  BY <1>3 DEF Within

(* The entry one level below p on the way to an entry further down.        *)
LEMMA FirstStep ==
  ASSUME NEW r, Sound(r), Fits(r), NEW k \in Used(r), NEW j \in Used(r) \ {0},
         Within(Place(r, k), Place(r, j)), Len(Place(r, k)) < Len(Place(r, j))
  PROVE  \E i \in Children(r, k) :
           \/ i = j
           \/ /\ r[i].type = "dir" /\ Within(Place(r, i), Place(r, j))
              /\ Len(Place(r, i)) < Len(Place(r, j))
<1> DEFINE p == Place(r, k)
           q == Place(r, j)
           n == Len(p) + 1
           d == SubSeq(q, 1, n)
<1>1. p \in Seq(Name) /\ q \in Seq(Name) /\ Len(p) \in Nat /\ Len(q) \in Nat /\ Len(p) < Len(q) /\ Within(p, q)
  BY FitPlaces
<1>2. d \in Seq(Name) /\ Len(d) = n /\ \A x \in 1 .. n : d[x] = q[x]
  <2> HIDE DEF p, q
  <2>1. n \in Nat /\ n <= Len(q)
    BY <1>1
  <2> HIDE DEF n
  <2>2. \A x \in 1 .. n : x \in 1 .. Len(q) /\ q[x] \in Name
    BY <1>1, <2>1
  <2>3. d \in Seq(Name)
    BY <1>1, <2>1, <2>2
  <2>4. Len(d) = n /\ \A x \in 1 .. n : d[x] = q[x]
    BY <1>1, <2>1, <2>2
  <2>5. QED
    BY <2>3, <2>4
<1>3. Within(d, q) /\ Within(p, d)
  <2> HIDE DEF p, q, d
  <2>1. QED
    BY <1>1, <1>2 DEF Within
<1>4. PICK i \in Used(r) : Place(r, i) = d /\ (i = j \/ (r[i].type = "dir" /\ Len(d) < Len(q)))
  <2>1. CASE d = q
    BY <2>1
  <2>2. CASE d # q
    <3>1. d \in Seq(Names)
      BY <1>2 DEF Names
    <3>2. Len(d) < Len(q)
      <4> HIDE DEF p, q, d
      <4>1. Len(d) # Len(q)
        BY <1>1, <1>2, <1>3, <2>2, WithinSame
      <4>2. QED
        BY <1>1, <1>2, <1>3, <4>1 DEF Within
    <3> HIDE DEF d
    <3>3. QED
      BY <1>3, <2>2, <3>1, <3>2, WayThere
  <2>3. QED
    BY <2>1, <2>2
<1>5. i # 0
  <2>1. i = 0 => Len(Place(r, i)) = 0
    BY PathIsPlace, EmptyLength
  <2>2. QED
    BY <1>1, <1>2, <1>4, <2>1
<1>6. r[i].parent = k
  <2> DEFINE f == r[i].parent
             u == Place(r, f)
  <2>1. f \in Used(r) /\ Len(Place(r, i)) = Len(u) + 1 /\ Within(u, Place(r, i))
    BY <1>5, UpOne
  <2>2. u \in Seq(Name) /\ Len(u) \in Nat
    BY <2>1, FitPlaces
  <2> HIDE DEF p, q, d, u, f
  <2>3. Len(u) = Len(p) /\ Within(u, d)
    BY <1>1, <1>2, <1>4, <2>1, <2>2
  <2>4. Within(u, p)
    BY <1>1, <1>2, <1>3, <2>2, <2>3, WithinBoth
  <2>5. u = p
    BY <1>1, <2>2, <2>3, <2>4, WithinSame
  <2>6. QED
    BY <2>1, <2>5, PlacesDiffer DEF u, p, f
<1>7. i \in Children(r, k)
  BY <1>5, <1>6 DEF Children, Used
<1>8. QED
  BY <1>3, <1>4, <1>7

(* Level by level.                                                         *)
LEMMA SubtreeStep ==
  ASSUME NEW r, Sound(r), Fits(r), NEW k \in Used(r), r[k].type = "dir", NEW n \in Nat,
         NEW p, p = Place(r, k)
  PROVE  Subtree(r, p, n + 1)
           = UNION {{Append(p, r[i].name)} \union
                      (IF r[i].type = "dir" THEN Subtree(r, Append(p, r[i].name), n) ELSE {})
                    : i \in Children(r, k)}
<1> DEFINE Part1(i) == {Append(p, r[i].name)} \union
                         (IF r[i].type = "dir" THEN Subtree(r, Append(p, r[i].name), n) ELSE {})
<1>0. p \in Seq(Name) /\ Len(p) \in Nat
  BY FitPlaces
<1>1. ASSUME NEW i \in Children(r, k)
      PROVE  /\ i \in Used(r) \ {0} /\ Append(p, r[i].name) = Place(r, i)
             /\ Len(Place(r, i)) = Len(p) + 1 /\ Within(p, Place(r, i)) /\ Place(r, i) \in Seq(Name)
  <2>1. i \in Used(r) \ {0} /\ r[i].parent = k
    BY DEF Children, Used
  <2>2. QED
    BY <2>1, UpOne, FitPlaces
<1>2. ASSUME NEW i \in Children(r, k), NEW x \in Part1(i) PROVE x \in Subtree(r, p, n + 1)
  <2> DEFINE s == Place(r, i)
  <2>1. i \in Used(r) \ {0} /\ Append(p, r[i].name) = s /\ Len(s) = Len(p) + 1 /\ Within(p, s) /\ s \in Seq(Name)
    BY <1>1
  <2>2. CASE x = s
    <3>1. i \in Under(r, p, n + 1)
      BY <1>0, <2>1 DEF Under
    <3>2. QED
      BY <2>2, <3>1 DEF Subtree
  <2>3. CASE x \in Subtree(r, s, n)
    <3>1. PICK j \in Under(r, s, n) : x = Place(r, j)
      BY <2>3 DEF Subtree
    <3> DEFINE q == Place(r, j)
    <3>2. j \in Used(r) \ {0} /\ Within(s, q) /\ Len(s) < Len(q) /\ Len(q) <= Len(s) + n
      BY DEF Under
    <3>3. q \in Seq(Name) /\ Len(q) \in Nat
      BY <3>2, FitPlaces
    <3> HIDE DEF s, q
    <3>4. Within(p, q) /\ Len(p) < Len(q) /\ Len(q) <= Len(p) + (n + 1)
      BY <1>0, <2>1, <3>2, <3>3, WithinTrans
    <3>5. j \in Under(r, p, n + 1)
      BY <3>2, <3>4 DEF Under, q
    <3>6. QED
      BY <3>1, <3>5 DEF Subtree
  <2>4. QED
    BY <1>2, <2>1, <2>2, <2>3
<1>3. ASSUME NEW x \in Subtree(r, p, n + 1) PROVE \E i \in Children(r, k) : x \in Part1(i)
  <2>1. PICK j \in Under(r, p, n + 1) : x = Place(r, j)
    BY <1>3 DEF Subtree
  <2> DEFINE q == Place(r, j)
  <2>2. j \in Used(r) \ {0} /\ Within(p, q) /\ Len(p) < Len(q) /\ Len(q) <= Len(p) + (n + 1)
    BY DEF Under
  <2>3. PICK i \in Children(r, k) :
          i = j \/ (r[i].type = "dir" /\ Within(Place(r, i), q) /\ Len(Place(r, i)) < Len(q))
    BY <2>2, FirstStep
  <2> DEFINE s == Place(r, i)
  <2>4. Append(p, r[i].name) = s /\ Len(s) = Len(p) + 1
    BY <1>1
  <2>5. CASE i = j
    BY <2>1, <2>4, <2>5
  <2>6. CASE r[i].type = "dir" /\ Within(s, q) /\ Len(s) < Len(q)
    <3>1. Len(q) <= Len(s) + n
      <4>1. Len(q) \in Nat
        BY <2>2, FitPlaces
      <4> HIDE DEF s, q
      <4>2. QED
        BY <1>0, <2>2, <2>4, <4>1
    <3>2. j \in Under(r, s, n)
      BY <2>2, <2>6, <3>1 DEF Under
    <3>3. x \in Subtree(r, s, n)
      BY <2>1, <3>2 DEF Subtree
    <3>4. QED
      BY <2>4, <2>6, <3>3
  <2>7. QED
    BY <2>3, <2>5, <2>6
<1> HIDE DEF Part1
<1>4. Subtree(r, p, n + 1) = UNION {Part1(i) : i \in Children(r, k)}
  BY <1>2, <1>3
<1>5. QED
  BY <1>4 DEF Part1

(* console_find_walk on table r: one turn of its recursion, and the whole. *)
DirIn(r, p) == find(r, p) >= 0 /\ r[find(r, p)].type = "dir"
Shown(r, p) == {i \in Children(r, find(r, p)) : PathLen(Append(p, r[i].name)) <= PATH_MAX}
Level(r, p, g) ==
  UNION {{Append(p, r[i].name)} \union (IF r[i].type = "dir" THEN g[Append(p, r[i].name)] ELSE {})
         : i \in Shown(r, p)}
Turned(r, f) ==
  [d \in 0 .. WALK_MAX |->
     [p \in Seq(Name) |-> IF d >= WALK_MAX \/ ~DirIn(r, p) THEN {} ELSE Level(r, p, f[d + 1])]]
WalkTo(r) == CHOOSE f : f = Turned(r, f)

LEMMA WalkIs == \A p : console_find_walk(p) = WalkTo(records)[0][p]
<1> DEFINE f == CHOOSE below : below = [d \in 0 .. WALK_MAX |->
        [p \in Seq(Name) |->
           IF d >= WALK_MAX \/ ~vfs_is_directory(p) THEN {}
           ELSE UNION {{Append(p, records[i].name)} \union
                         (IF records[i].type = "dir"
                          THEN below[d + 1][Append(p, records[i].name)] ELSE {})
                       : i \in Listed(p)}]]
<1>1. \A p : console_find_walk(p) = f[0][p]
  BY DEF console_find_walk
<1>2. f = WalkTo(records)
  BY DEF WalkTo, Turned, Level, Shown, DirIn, vfs_is_directory, Listed, vfs_list
<1>3. QED
  BY <1>1, <1>2

(* A level of the walk over a table that fits passes over no entry.        *)
LEMMA LevelIs ==
  ASSUME NEW r, Sound(r), Fits(r), NEW p \in Seq(Name), DirIn(r, p), NEW n \in Nat, NEW g,
         \A q \in Seq(Name) : DirIn(r, q) => g[q] = Subtree(r, q, n)
  PROVE  Level(r, p, g) = Subtree(r, p, n + 1)
<1> DEFINE k == find(r, p)
<1>1. k \in Used(r) /\ Place(r, k) = p /\ r[k].type = "dir"
  BY FindIsPlace DEF DirIn
<1> HIDE DEF k
<1>2. ASSUME NEW i \in Children(r, k)
      PROVE  /\ PathLen(Append(p, r[i].name)) <= PATH_MAX
             /\ r[i].type = "dir" => g[Append(p, r[i].name)] = Subtree(r, Append(p, r[i].name), n)
  <2>1. i \in Used(r) \ {0} /\ r[i].parent = k
    BY DEF Children, Used
  <2> DEFINE q == Place(r, i)
  <2>2. Append(p, r[i].name) = q
    BY <1>1, <2>1, UpOne
  <2>3. q \in Seq(Name) /\ PathLen(q) <= PATH_MAX
    BY <2>1, FitPlaces
  <2>4. find(r, q) = i /\ i >= 0
    BY <2>1, FindsPlace, SlotFacts DEF Used
  <2> HIDE DEF q
  <2>5. r[i].type = "dir" => g[q] = Subtree(r, q, n)
    BY <2>3, <2>4 DEF DirIn
  <2>6. QED
    BY <2>2, <2>3, <2>5
<1>3. Shown(r, p) = Children(r, k)
  BY <1>2 DEF Shown, k
<1>4. Level(r, p, g) = UNION {{Append(p, r[i].name)} \union
                                (IF r[i].type = "dir" THEN Subtree(r, Append(p, r[i].name), n) ELSE {})
                              : i \in Children(r, k)}
  BY <1>2, <1>3 DEF Level
<1>5. QED
  BY <1>1, <1>4, SubtreeStep

LEMMA NothingAtZero ==
  ASSUME NEW r, Sound(r), Fits(r), NEW p \in Seq(Name)
  PROVE  Subtree(r, p, 0) = {}
<1>1. ASSUME NEW j \in Used(r) \ {0}, Len(p) < Len(Place(r, j)), Len(Place(r, j)) <= Len(p) + 0 PROVE FALSE
  <2>1. Len(Place(r, j)) \in Nat /\ Len(p) \in Nat
    BY FitPlaces
  <2>2. QED
    BY <1>1, <2>1
<1>2. Under(r, p, 0) = {}
  BY <1>1 DEF Under
<1>3. QED
  BY <1>2 DEF Subtree

(* The recursion has a solution, and only one.                             *)
LEMMA WalkTurns ==
  ASSUME NEW r, Sound(r), Fits(r)
  PROVE  WalkTo(r) = Turned(r, WalkTo(r))
<1> DEFINE W == 0 .. WALK_MAX
           e == [d \in W |-> [p \in Seq(Name) |-> IF DirIn(r, p) THEN Subtree(r, p, WALK_MAX - d) ELSE {}]]
           t == Turned(r, e)
<1>0. WALK_MAX \in Nat
  BY ShellAssumption
<1>1. ASSUME NEW d \in W, NEW p \in Seq(Name) PROVE e[d][p] = t[d][p]
  <2>0. /\ e[d][p] = IF DirIn(r, p) THEN Subtree(r, p, WALK_MAX - d) ELSE {}
        /\ t[d][p] = IF d >= WALK_MAX \/ ~DirIn(r, p) THEN {} ELSE Level(r, p, e[d + 1])
    BY DEF Turned
  <2>1. CASE ~DirIn(r, p)
    BY <2>0, <2>1
  <2>2. CASE DirIn(r, p) /\ d >= WALK_MAX
    <3>1. WALK_MAX - d = 0
      BY <1>0, <2>2
    <3>2. QED
      BY <2>0, <2>2, <3>1, NothingAtZero
  <2>3. CASE DirIn(r, p) /\ ~(d >= WALK_MAX)
    <3> DEFINE n == WALK_MAX - (d + 1)
    <3>1. d + 1 \in W /\ n \in Nat /\ WALK_MAX - d = n + 1
      BY <1>0, <2>3
    <3>2. \A q \in Seq(Name) : DirIn(r, q) => e[d + 1][q] = Subtree(r, q, n)
      BY <3>1
    <3> HIDE DEF e, n, W
    <3>3. Level(r, p, e[d + 1]) = Subtree(r, p, n + 1)
      BY <2>3, <3>1, <3>2, LevelIs
    <3>4. QED
      BY <2>0, <2>3, <3>1, <3>3
  <2>4. QED
    BY <2>1, <2>2, <2>3
<1>2. e = t
  <2>1. DOMAIN e = W /\ DOMAIN t = W /\ e = [d \in W |-> e[d]] /\ t = [d \in W |-> t[d]]
    BY DEF Turned
  <2>2. ASSUME NEW d \in W PROVE e[d] = t[d]
    <3>1. e[d] = [p \in Seq(Name) |-> e[d][p]] /\ t[d] = [p \in Seq(Name) |-> t[d][p]]
      BY DEF Turned
    <3> HIDE DEF e, t
    <3>2. QED
      BY <1>1, <3>1
  <2> HIDE DEF e, t
  <2>3. QED
    BY <2>1, <2>2
<1> HIDE DEF e
<1>3. QED
  BY <1>2 DEF WalkTo

LEMMA WalkIsSubtree ==
  ASSUME NEW r, Sound(r), Fits(r), NEW p \in Seq(Name), DirIn(r, p)
  PROVE  WalkTo(r)[0][p] = Subtree(r, p, WALK_MAX)
<1> DEFINE f == WalkTo(r)
           S == {n \in Nat : n <= WALK_MAX =>
                   \A q \in Seq(Name) : DirIn(r, q) => f[WALK_MAX - n][q] = Subtree(r, q, n)}
<1>0. WALK_MAX \in Nat
  BY ShellAssumption
<1>1. f = Turned(r, f)
  BY WalkTurns
<1> HIDE DEF f
<1>2. \A d \in 0 .. WALK_MAX : \A q \in Seq(Name) :
        f[d][q] = IF d >= WALK_MAX \/ ~DirIn(r, q) THEN {} ELSE Level(r, q, f[d + 1])
  <2> DEFINE t == Turned(r, f)
  <2>1. \A d \in 0 .. WALK_MAX : \A q \in Seq(Name) :
          t[d][q] = IF d >= WALK_MAX \/ ~DirIn(r, q) THEN {} ELSE Level(r, q, f[d + 1])
    BY DEF Turned
  <2>2. t = f
    BY <1>1
  <2> HIDE DEF t
  <2>3. QED
    BY <2>1, <2>2
<1>3. 0 \in S
  <2>1. WALK_MAX - 0 \in 0 .. WALK_MAX /\ WALK_MAX - 0 >= WALK_MAX
    BY <1>0
  <2>2. QED
    BY <1>2, <2>1, NothingAtZero
<1>4. ASSUME NEW n \in Nat, n \in S PROVE n + 1 \in S
  <2> SUFFICES ASSUME n + 1 <= WALK_MAX, NEW q \in Seq(Name), DirIn(r, q)
               PROVE  f[WALK_MAX - (n + 1)][q] = Subtree(r, q, n + 1)
    OBVIOUS
  <2> DEFINE d == WALK_MAX - (n + 1)
  <2>1. d \in 0 .. WALK_MAX /\ ~(d >= WALK_MAX) /\ d + 1 = WALK_MAX - n /\ n <= WALK_MAX
    BY <1>0
  <2>2. \A s \in Seq(Name) : DirIn(r, s) => f[d + 1][s] = Subtree(r, s, n)
    BY <1>4, <2>1
  <2> HIDE DEF d
  <2>3. f[d][q] = Level(r, q, f[d + 1])
    BY <1>2, <2>1
  <2>4. Level(r, q, f[d + 1]) = Subtree(r, q, n + 1)
    BY <2>2, LevelIs
  <2>5. QED
    BY <2>3, <2>4 DEF d
<1> HIDE DEF S
<1>5. \A n \in Nat : n \in S
  BY <1>3, <1>4, EveryNat
<1>6. WALK_MAX - WALK_MAX = 0
  BY <1>0
<1>7. QED
  BY <1>0, <1>5, <1>6 DEF S, f

LEMMA PrefixIs ==
  ASSUME NEW p \in Seq(Name), NEW q \in Seq(Name)
  PROVE  (q # p /\ IsPrefix(p, q)) <=> (Within(p, q) /\ Len(p) < Len(q))
<1>0. Len(p) \in Nat /\ Len(q) \in Nat
  OBVIOUS
<1> DEFINE a == SubSeq(p, 1, Len(p))
           b == SubSeq(q, 1, Len(p))
<1>1. a = p
  BY <1>0
<1>2. ASSUME Len(p) <= Len(q) PROVE (a = b <=> \A k \in 1 .. Len(p) : q[k] = p[k])
  <2>1. Len(b) = Len(p) /\ b \in Seq(Name) /\ \A k \in 1 .. Len(p) : b[k] = q[k]
    <3> DEFINE n == Len(p)
    <3>1. n \in Nat /\ n <= Len(q)
      BY <1>0, <1>2
    <3> HIDE DEF n
    <3>2. \A x \in 1 .. n : x \in 1 .. Len(q) /\ q[x] \in Name
      BY <1>0, <3>1
    <3> DEFINE d == SubSeq(q, 1, n)
    <3>3. d \in Seq(Name)
      BY <3>1, <3>2
    <3>4. Len(d) = n /\ \A x \in 1 .. n : d[x] = q[x]
      BY <3>1, <3>2
    <3>5. QED
      BY <3>3, <3>4 DEF n
  <2> HIDE DEF b
  <2>2. (p = b) <=> \A k \in 1 .. Len(p) : b[k] = p[k]
    BY <1>0, <2>1
  <2>3. QED
    BY <1>1, <2>1, <2>2
<1>3. IsPrefix(p, q) <=> Within(p, q)
  BY <1>2 DEF IsPrefix, Within
<1>4. Within(p, q) => (q # p <=> Len(p) < Len(q))
  <2>1. Within(p, q) /\ ~(Len(p) < Len(q)) => p = q
    BY <1>0, WithinSame
  <2>2. Within(p, q) /\ q = p => ~(Len(p) < Len(q))
    BY <1>0
  <2>3. QED
    BY <2>1, <2>2
<1>5. QED
  BY <1>3, <1>4

(* The depth of the walk is no limit to it.                                *)
LEMMA SubtreeIsAll ==
  ASSUME NEW r, Sound(r), Fits(r), NEW p \in Seq(Name)
  PROVE  Subtree(r, p, WALK_MAX) = {e[1] : e \in {t \in Tree(r) : t[1] # p /\ IsPrefix(p, t[1])}}
<1> DEFINE U == {j \in Used(r) \ {0} : Place(r, j) # p /\ IsPrefix(p, Place(r, j))}
<1>1. ASSUME NEW j \in Used(r) \ {0}
      PROVE  j \in Under(r, p, WALK_MAX) <=> j \in U
  <2> DEFINE q == Place(r, j)
  <2>1. q \in Seq(Name) /\ Len(q) \in Nat /\ Len(q) <= PARTS_MAX /\ Len(p) \in Nat
    BY FitPlaces
  <2>2. WALK_MAX \in Nat /\ PARTS_MAX \in Nat /\ PARTS_MAX <= WALK_MAX
    BY ShellAssumption, Sizes
  <2> HIDE DEF q
  <2>3. Len(q) <= Len(p) + WALK_MAX
    BY <2>1, <2>2
  <2>4. (q # p /\ IsPrefix(p, q)) <=> (Within(p, q) /\ Len(p) < Len(q))
    BY <2>1, PrefixIs
  <2>5. QED
    BY <2>3, <2>4 DEF Under, q
<1>2. Under(r, p, WALK_MAX) = U
  <2>1. Under(r, p, WALK_MAX) \subseteq Used(r) \ {0} /\ U \subseteq Used(r) \ {0}
    BY DEF Under
  <2> HIDE DEF U
  <2>2. QED
    BY <1>1, <2>1
<1>3. Tree(r) = {<<Place(r, i), r[i].type>> : i \in Used(r) \ {0}}
  BY TreeIs
<1>4. {e[1] : e \in {t \in Tree(r) : t[1] # p /\ IsPrefix(p, t[1])}} = {Place(r, j) : j \in U}
  <2> DEFINE Below(q) == q # p /\ IsPrefix(p, q)
             P(i) == Place(r, i)
             T(i) == r[i].type
  <2>1. Tree(r) = {<<P(i), T(i)>> : i \in Used(r) \ {0}} /\ U = {j \in Used(r) \ {0} : Below(P(j))}
    BY <1>3
  <2> HIDE DEF Below, P, T, U
  <2>2. {e[1] : e \in {t \in Tree(r) : Below(t[1])}} = {P(j) : j \in U}
    <3>1. ASSUME NEW e \in Tree(r), Below(e[1]) PROVE \E j \in U : e[1] = P(j)
      <4>1. PICK j \in Used(r) \ {0} : e = <<P(j), T(j)>>
        BY <2>1
      <4>2. QED
        BY <2>1, <3>1, <4>1
    <3>2. ASSUME NEW j \in U PROVE \E e \in Tree(r) : Below(e[1]) /\ e[1] = P(j)
      <4>1. <<P(j), T(j)>> \in Tree(r) /\ <<P(j), T(j)>>[1] = P(j) /\ Below(P(j))
        BY <2>1
      <4>2. QED
        BY <4>1
    <3>3. QED
      BY <3>1, <3>2
  <2>3. QED
    BY <2>2 DEF Below, P
<1>5. QED
  BY <1>2, <1>4 DEF Subtree

(* find and tree show exactly the entries below the directory they start   *)
(* from, in every state between two commands: the depth at which           *)
(* console_find_walk stops and the paths console_append_path refuses to    *)
(* build never hide an entry, since what vfs_normalize let in, and what a  *)
(* mount brings back, is within both limits.                               *)
THEOREM FindListsSubtrees ==
  ASSUME RestartAlone
  PROVE  ShellSpec => []FindListsSubtree
<1> DEFINE I == AllTypes /\ SessionInv /\ Written /\ TreeInv /\ FitInv
<1>1. ShellInit => I
  BY InitSession, InitSessionTree, InitFits
<1>2. I /\ [ShellNext]_shellVars => I'
  BY NextSession, SessionTree, NextFits
<1>3. I => FindListsSubtree
  <2> SUFFICES ASSUME I, NEW p \in {<< >>, cwd}, vfs_is_directory(p)
               PROVE  console_find_walk(p) = {e[1] : e \in {t \in Tree(records) :
                                                t[1] # p /\ IsPrefix(p, t[1])}}
    BY DEF FindListsSubtree
  <2>1. p \in Seq(Name) /\ Sound(records) /\ Fits(records)
    BY FitIsShort DEF SessionInv, TreeInv, FitInv
  <2>2. DirIn(records, p)
    BY DEF DirIn, vfs_is_directory
  <2>3. console_find_walk(p) = Subtree(records, p, WALK_MAX)
    BY <2>1, <2>2, WalkIs, WalkIsSubtree
  <2>4. QED
    BY <2>1, <2>3, SubtreeIsAll
<1> HIDE DEF I
<1>4. QED
  BY <1>1, <1>2, <1>3, PTL DEF ShellSpec
=============================================================================
