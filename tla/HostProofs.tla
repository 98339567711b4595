------------------------------- MODULE HostProofs ------------------------------
(***************************************************************************)
(* The host of the agent: the session tree and its files, and at the end   *)
(* the lease that keeps turns and transitions apart.                       *)
(*                                                                         *)
(* An operation on sessions is a list of saves, any of which may fail.  It *)
(* keeps the invariant and loses nothing that was said if the list is      *)
(* harmless (SavesKeep): each save writes a whole tree that has what the   *)
(* session's file had, and what is open when it fails is what the files    *)
(* say.  The save of a session that is older than its file, and an import, *)
(* are harmless to all other sessions (SavesKeepBut).  It remains to show  *)
(* that each operation's list is.  What a path says needs induction over   *)
(* the tree (PathExists, PathStep, NewPath).                               *)
(***************************************************************************)
EXTENDS Sessions, TurnLifecycle, FiniteSetTheorems, TLAPS

-----------------------------------------------------------------------------
(* Numbers and sequences.                                                  *)

\* Induction, in a form without an operator for a parameter: if n were not in a
\* set that holds 0 and successors, the successor would map what is below n into
\* itself less 0.
LEMMA Induction ==
    ASSUME NEW T \in SUBSET Nat, 0 \in T, \A n \in T : n + 1 \in T
    PROVE  \A n \in Nat : n \in T
<1> SUFFICES ASSUME NEW n \in Nat, n \notin T PROVE FALSE
  OBVIOUS
<1> DEFINE A == {i \in T : i <= n}
           B == A \ {0}
           next == [i \in A |-> i + 1]
<1>1. IsFiniteSet(A)
  <2>1. A \in SUBSET Nat /\ \A i \in A : i <= n
    OBVIOUS
  <2> QED
    BY <2>1, FS_BoundedSetOfNaturals
<1>2. IsFiniteSet(B) /\ Cardinality(B) = Cardinality(A) - 1 /\ Cardinality(A) \in Nat
  <2>1. 0 \in A
    OBVIOUS
  <2> HIDE DEF A
  <2> QED
    BY <1>1, <2>1, FS_RemoveElement, FS_CardinalityType
<1>3. next \in [A -> B]
  <2>1. ASSUME NEW i \in A PROVE i + 1 \in B
    <3>1. i \in Nat /\ i <= n /\ i # n /\ i + 1 \in T
      OBVIOUS
    <3> QED
      BY <3>1
  <2> QED
    BY <2>1
<1>4. \A x, y \in A : next[x] = next[y] => x = y
  OBVIOUS
<1>5. Cardinality(B) < Cardinality(A)
  <2> HIDE DEF A, B
  <2> QED
    BY <1>2
<1> HIDE DEF A, B, next
<1> QED
  BY <1>1, <1>2, <1>3, <1>4, <1>5, FS_PigeonHole

\* A bounded set of numbers that is not empty has a greatest one.
LEMMA Greatest ==
    ASSUME NEW n \in Nat, NEW S \in SUBSET (0..n), S # {}
    PROVE  Max(S) \in S /\ \A x \in S : x <= Max(S)
<1> DEFINE Has(T) == \E m \in T : \A x \in T : m >= x
           P == {k \in Nat : \A T \in SUBSET (0..k) : T # {} => Has(T)}
<1>1. 0 \in P
  <2>1. ASSUME NEW T \in SUBSET (0..0), T # {} PROVE Has(T)
    <3>1. \A x \in T : x = 0
      BY <2>1
    <3>2. PICK x \in T : TRUE
      BY <2>1
    <3> QED
      BY <3>1, <3>2
  <2> QED
    BY <2>1
<1>2. ASSUME NEW k \in P PROVE k + 1 \in P
  <2> SUFFICES ASSUME NEW T \in SUBSET (0..k + 1), T # {} PROVE Has(T)
    OBVIOUS
  <2>1. CASE k + 1 \in T
    BY <2>1
  <2>2. CASE k + 1 \notin T
    <3>1. T \in SUBSET (0..k)
      BY <2>2
    <3> QED
      BY <3>1
  <2> QED
    BY <2>1, <2>2
<1> HIDE DEF P
<1>3. n \in P
  BY <1>1, <1>2, Induction DEF P
<1>4. Has(S)
  BY <1>3 DEF P
<1>5. Max(S) \in S /\ \A x \in S : Max(S) >= x
  BY <1>4 DEF Max
<1>6. \A x \in S : x \in Nat
  OBVIOUS
<1> HIDE DEF Has
<1> QED
  BY <1>5, <1>6

\* A set of positive numbers that is not empty has a least one.
LEMMA Least ==
    ASSUME NEW n \in Nat, NEW S \in SUBSET (1..n), S # {}
    PROVE  Min(S) \in S
<1> DEFINE Has(T) == \E m \in T : \A x \in T : m <= x
           P == {k \in Nat : \A T \in SUBSET (1..k) : T # {} => Has(T)}
<1>1. 0 \in P
  <2>1. ASSUME NEW T \in SUBSET (1..0), T # {} PROVE Has(T)
    <3>1. 1..0 = {}
      OBVIOUS
    <3> QED
      BY <2>1, <3>1
  <2> QED
    BY <2>1
<1>2. ASSUME NEW k \in P PROVE k + 1 \in P
  <2> SUFFICES ASSUME NEW T \in SUBSET (1..k + 1), T # {} PROVE Has(T)
    OBVIOUS
  <2>1. CASE T = {k + 1}
    BY <2>1
  <2>2. CASE T # {k + 1}
    <3> DEFINE U == T \ {k + 1}
    <3>1. U \in SUBSET (1..k) /\ U # {}
      BY <2>2
    <3>2. PICK m \in U : \A x \in U : m <= x
      BY <3>1
    <3>3. \A x \in T : m <= x
      BY <3>2
    <3> QED
      BY <3>2, <3>3
  <2> QED
    BY <2>1, <2>2
<1> HIDE DEF P
<1>3. n \in P
  BY <1>1, <1>2, Induction DEF P
<1>4. Has(S)
  BY <1>3 DEF P
<1> QED
  BY <1>4 DEF Min

LEMMA Joined ==
    ASSUME NEW S, NEW s \in Seq(S), NEW t \in Seq(S)
    PROVE  /\ s \o t \in Seq(S) /\ Len(s \o t) = Len(s) + Len(t)
           /\ \A i \in 1..Len(s) : (s \o t)[i] = s[i]
           /\ \A i \in 1..Len(t) : (s \o t)[Len(s) + i] = t[i]
           /\ \A i \in 1..Len(s \o t) :
                i \in 1..Len(s) \/ \E j \in 1..Len(t) : i = Len(s) + j
<1> DEFINE w == s \o t
<1>1. /\ w \in Seq(S) /\ Len(w) = Len(s) + Len(t) /\ Len(s) \in Nat /\ Len(t) \in Nat
      /\ \A i \in 1..Len(s) : w[i] = s[i]
      /\ \A i \in 1..Len(t) : w[Len(s) + i] = t[i]
  OBVIOUS
<1> HIDE DEF w
<1>2. ASSUME NEW i \in 1..Len(w), i > Len(s) PROVE \E j \in 1..Len(t) : i = Len(s) + j
  <2>1. i - Len(s) \in 1..Len(t) /\ i = Len(s) + (i - Len(s))
    BY <1>1, <1>2
  <2> QED
    BY <2>1
<1>3. \A i \in 1..Len(w) : i \in 1..Len(s) \/ i > Len(s)
  BY <1>1
<1> QED
  BY <1>1, <1>2, <1>3 DEF w

LEMMA Pair ==
    ASSUME NEW v, NEW w
    PROVE  <<v>> \o <<w>> = <<v, w>>
<1> DEFINE f == <<v>> \o <<w>>
           g == <<v, w>>
<1>1. <<v>> \in Seq({v, w}) /\ <<w>> \in Seq({v, w})
  OBVIOUS
<1>2. f \in Seq({v, w}) /\ Len(f) = 2 /\ f[1] = v /\ f[2] = w
  BY <1>1
<1>3. g \in Seq({v, w}) /\ Len(g) = 2 /\ g[1] = v /\ g[2] = w
  OBVIOUS
<1> HIDE DEF f, g
<1>4. f = [i \in 1..2 |-> f[i]] /\ g = [i \in 1..2 |-> g[i]]
  BY <1>2, <1>3
<1>5. \A i \in 1..2 : f[i] = g[i]
  BY <1>2, <1>3
<1> QED
  BY <1>4, <1>5 DEF f, g

LEMMA HeadChanged ==
    ASSUME NEW S, NEW c \in Seq(S), Len(c) > 0, NEW x \in S
    PROVE  LET d == [c EXCEPT ![1] = x]
           IN  /\ d \in Seq(S) /\ Len(d) = Len(c) /\ d[1] = x
               /\ \A i \in 1..Len(c) : i # 1 => d[i] = c[i]
<1> DEFINE d == [c EXCEPT ![1] = x]
<1>1. DOMAIN c = 1..Len(c) /\ Len(c) \in Nat /\ 1 \in 1..Len(c)
  OBVIOUS
<1>2. d = [i \in 1..Len(c) |-> IF i = 1 THEN x ELSE c[i]]
  BY <1>1
<1> HIDE DEF d
<1>3. \A i \in 1..Len(c) : d[i] = IF i = 1 THEN x ELSE c[i]
  BY <1>2
<1>4. d \in Seq(S)
  BY <1>1, <1>2
<1>5. Len(d) = Len(c)
  BY <1>1, <1>2
<1> QED
  BY <1>1, <1>3, <1>4, <1>5 DEF d

-----------------------------------------------------------------------------
(* Trees and their paths.                                                  *)

Entry   == [parent : Nat, says : SUBSET Nat, tools : SUBSET Nat]
Content == [says : SUBSET Nat, tools : SUBSET Nat]
File    == [has : SUBSET Nat, tip : Nat]
Copy    == [id : Ids, has : SUBSET Nat, tip : Nat]
Session == [id : Ids, has : SUBSET Nat, tip : Nat, auto : BOOLEAN]

\* Entries whose parents are earlier ones, and a tree in which none is missing.
Rooted(E) == E \in Seq(Entry) /\ \A e \in 1..Len(E) : E[e].parent \in 0..e - 1
WholeIn(E, s) ==
    /\ s.has \subseteq 1..Len(E)
    /\ s.tip \in s.has \cup {0} /\ (s.tip = 0 <=> s.has = {})
    /\ \A e \in s.has : E[e].parent \in s.has \cup {0}

\* Path, for any entries.
Route(E, i, path) == IF i = 0 THEN <<>> ELSE Append(path[E[i].parent], i)
IsPath(E, path)   == path = [i \in 0..Len(E) |-> Route(E, i, path)]
PathIn(E, e)      == (CHOOSE path : IsPath(E, path))[e]

LEMMA PathExists ==
    ASSUME NEW E, Rooted(E)
    PROVE  \E path \in [0..Len(E) -> Seq(1..Len(E))] : IsPath(E, path)
<1> DEFINE Partial(n, f) == \A i \in 0..n : f[i] = Route(E, i, f)
           Has(n) == n <= Len(E) => \E f \in [0..n -> Seq(1..Len(E))] : Partial(n, f)
           P == {n \in Nat : Has(n)}
<1>0. Len(E) \in Nat
  BY DEF Rooted
<1>1. 0 \in P
  <2> DEFINE f == [i \in 0..0 |-> <<>>]
  <2>1. \A i \in 0..0 : i = 0
    OBVIOUS
  <2>2. f \in [0..0 -> Seq(1..Len(E))]
    <3>1. <<>> \in Seq(1..Len(E))
      OBVIOUS
    <3> QED
      BY <3>1
  <2>3. Partial(0, f)
    BY <2>1 DEF Route
  <2> QED
    BY <2>2, <2>3
<1>2. ASSUME NEW n \in P PROVE n + 1 \in P
  <2>0. n \in Nat /\ Has(n) /\ (Has(n + 1) => n + 1 \in P)
    <3> HIDE DEF Has
    <3> QED
      OBVIOUS
  <2> SUFFICES ASSUME n + 1 <= Len(E)
               PROVE  \E f \in [0..n + 1 -> Seq(1..Len(E))] : Partial(n + 1, f)
    BY <2>0
  <2>1. n \in Nat /\ n <= Len(E) /\ n + 1 \in 1..Len(E)
    BY <1>0, <2>0
  <2>2. PICK f \in [0..n -> Seq(1..Len(E))] : Partial(n, f)
    BY <2>0, <2>1
  <2> DEFINE g == [i \in 0..n + 1 |-> IF i = n + 1 THEN Append(f[E[i].parent], i) ELSE f[i]]
  <2>3. E[n + 1].parent \in 0..n
    BY <2>1 DEF Rooted
  <2>4. Append(f[E[n + 1].parent], n + 1) \in Seq(1..Len(E))
    BY <2>1, <2>2, <2>3
  <2>5. g \in [0..n + 1 -> Seq(1..Len(E))]
    <3>1. ASSUME NEW i \in 0..n + 1 PROVE g[i] \in Seq(1..Len(E))
      <4>1. CASE i = n + 1
        BY <2>4, <4>1
      <4>2. CASE i # n + 1
        <5>1. i \in 0..n
          BY <2>1, <4>2
        <5> QED
          BY <2>2, <4>2, <5>1
      <4> QED
        BY <4>1, <4>2
    <3> QED
      BY <3>1
  <2>6. ASSUME NEW i \in 0..n + 1 PROVE g[i] = Route(E, i, g)
    <3>1. CASE i = n + 1
      <4>1. g[i] = Append(f[E[i].parent], i) /\ i # 0
        BY <2>1, <3>1
      <4>2. g[E[i].parent] = f[E[i].parent]
        <5>1. \A k \in 0..n : g[k] = f[k]
          BY <2>1
        <5> QED
          BY <2>3, <3>1, <5>1
      <4> HIDE DEF g
      <4> QED
        BY <4>1, <4>2 DEF Route
    <3>2. CASE i = 0
      BY <2>1, <2>2, <3>2 DEF Route
    <3>3. CASE i \in 1..n
      <4>1. i \in 1..Len(E) /\ i \in 0..n
        BY <1>0, <2>1, <3>3
      <4>2. E[i].parent \in 0..i - 1
        BY <4>1 DEF Rooted
      <4>3. E[i].parent \in 0..n
        BY <2>1, <3>3, <4>2
      <4>4. g[i] = f[i] /\ g[E[i].parent] = f[E[i].parent]
        <5>1. \A k \in 0..n : g[k] = f[k]
          BY <2>1
        <5> QED
          BY <4>1, <4>3, <5>1
      <4>5. f[i] = Route(E, i, f) /\ i # 0
        BY <2>2, <3>3, <4>1
      <4> QED
        BY <4>4, <4>5 DEF Route
    <3> QED
      BY <2>1, <3>1, <3>2, <3>3
  <2> HIDE DEF g
  <2> QED
    BY <2>5, <2>6
<1> HIDE DEF P
<1>3. Len(E) \in P
  BY <1>0, <1>1, <1>2, Induction DEF P
<1>4. PICK f \in [0..Len(E) -> Seq(1..Len(E))] : Partial(Len(E), f)
  BY <1>0, <1>3 DEF P
<1>5. f = [i \in 0..Len(E) |-> Route(E, i, f)]
  BY <1>4
<1> QED
  BY <1>4, <1>5 DEF IsPath

\* A path is the path of the parent, and the entry.
LEMMA PathStep ==
    ASSUME NEW E, Rooted(E)
    PROVE  /\ PathIn(E, 0) = <<>>
           /\ \A e \in 0..Len(E) : PathIn(E, e) \in Seq(1..Len(E))
           /\ \A e \in 1..Len(E) : PathIn(E, e) = Append(PathIn(E, E[e].parent), e)
<1> DEFINE path == CHOOSE p : IsPath(E, p)
<1>0. Len(E) \in Nat
  BY DEF Rooted
<1>1. PICK q \in [0..Len(E) -> Seq(1..Len(E))] : IsPath(E, q)
  BY PathExists
<1>2. IsPath(E, path)
  BY <1>1
<1>3. \A e : PathIn(E, e) = path[e]
  BY DEF PathIn
<1> HIDE DEF path
<1>4. ASSUME NEW e \in 0..Len(E) PROVE path[e] = Route(E, e, path)
  BY <1>2 DEF IsPath
<1>5. PathIn(E, 0) = <<>>
  BY <1>0, <1>3, <1>4 DEF Route
<1>6. ASSUME NEW e \in 1..Len(E) PROVE PathIn(E, e) = Append(PathIn(E, E[e].parent), e)
  <2>1. path[e] = Route(E, e, path) /\ e # 0
    BY <1>0, <1>4
  <2> QED
    BY <1>3, <2>1 DEF Route
<1>7. \A e \in 0..Len(E) : PathIn(E, e) \in Seq(1..Len(E))
  <2> DEFINE P == {n \in Nat : \A e \in 0..n : e <= Len(E) => PathIn(E, e) \in Seq(1..Len(E))}
  <2>1. 0 \in P
    <3>1. \A e \in 0..0 : e = 0
      OBVIOUS
    <3>2. <<>> \in Seq(1..Len(E))
      OBVIOUS
    <3> QED
      BY <1>5, <3>1, <3>2
  <2>2. ASSUME NEW n \in P PROVE n + 1 \in P
    <3> SUFFICES ASSUME NEW e \in 0..n + 1, e <= Len(E) PROVE PathIn(E, e) \in Seq(1..Len(E))
      OBVIOUS
    <3>1. CASE e \in 0..n
      BY <3>1
    <3>2. CASE e = n + 1
      <4>1. e \in 1..Len(E) /\ n \in Nat
        BY <1>0, <3>2
      <4>2. E[e].parent \in 0..n /\ E[e].parent <= Len(E)
        BY <1>0, <3>2, <4>1 DEF Rooted
      <4>3. PathIn(E, E[e].parent) \in Seq(1..Len(E))
        BY <4>2
      <4>4. Append(PathIn(E, E[e].parent), e) \in Seq(1..Len(E))
        BY <4>1, <4>3
      <4> QED
        BY <1>6, <4>1, <4>4
    <3> QED
      BY <3>1, <3>2
  <2> HIDE DEF P
  <2>3. Len(E) \in P
    BY <1>0, <2>1, <2>2, Induction DEF P
  <2> QED
    BY <1>0, <2>3 DEF P
<1> QED
  BY <1>5, <1>6, <1>7

\* The path to the n-th of new entries that form a chain from a root.
LEMMA NewPath ==
    ASSUME NEW E, Rooted(E), NEW m \in Nat, NEW n \in Nat, n > 0, m + n <= Len(E),
           E[m + 1].parent = 0,
           \A i \in 2..n : E[m + i].parent = m + i - 1
    PROVE  PathIn(E, m + n) = [i \in 1..n |-> m + i]
<1> DEFINE New(k) == [i \in 1..k |-> m + i]
           P == {k \in Nat : k + 1 <= n => PathIn(E, m + k + 1) = New(k + 1)}
<1>0. Len(E) \in Nat
  BY DEF Rooted
<1>1. 0 \in P
  <2>1. m + 1 \in 1..Len(E)
    BY <1>0
  <2>2. PathIn(E, m + 1) = Append(<<>>, m + 1)
    BY <2>1, PathStep
  <2>3. Append(<<>>, m + 1) = New(1)
    OBVIOUS
  <2> QED
    BY <2>2, <2>3
<1>2. ASSUME NEW k \in P PROVE k + 1 \in P
  <2> SUFFICES ASSUME k + 2 <= n PROVE PathIn(E, m + k + 2) = New(k + 2)
    OBVIOUS
  <2>1. k \in Nat /\ k + 2 \in 2..n /\ m + k + 2 \in 1..Len(E) /\ k + 1 <= n
    BY <1>0
  <2>2. E[m + (k + 2)].parent = m + (k + 2) - 1
    BY <2>1
  <2>3. E[m + k + 2].parent = m + k + 1
    BY <2>1, <2>2
  <2>4. PathIn(E, m + k + 2) = Append(New(k + 1), m + k + 2)
    <3>1. PathIn(E, m + k + 1) = New(k + 1)
      BY <2>1
    <3>2. \A e \in 1..Len(E) : PathIn(E, e) = Append(PathIn(E, E[e].parent), e)
      BY PathStep
    <3> QED
      BY ONLY <2>1, <2>3, <3>1, <3>2
  <2>5. Append(New(k + 1), m + k + 2) = New(k + 2)
    <3>1. New(k + 1) \in Seq(Nat) /\ Len(New(k + 1)) = k + 1
      BY <2>1
    <3> QED
      BY <2>1, <3>1
  <2> QED
    BY <2>4, <2>5
<1> HIDE DEF P
<1>3. n - 1 \in P
  <2>1. P \in SUBSET Nat
    BY DEF P
  <2>2. n - 1 \in Nat
    OBVIOUS
  <2> QED
    BY ONLY <1>1, <1>2, <2>1, <2>2, Induction
<1>4. m + (n - 1) + 1 = m + n /\ (n - 1) + 1 = n
  OBVIOUS
<1> QED
  BY <1>3, <1>4 DEF P

LEMMA PathIsIn == \A e : Path(e) = PathIn(entries, e)
  BY DEF Path, PathIn, IsPath, Route

\* More entries leave trees whole.
LEMMA StillWhole ==
    ASSUME NEW E \in Seq(Entry), NEW new \in Seq(Entry), NEW s, WholeIn(E, s)
    PROVE  WholeIn(E \o new, s)
<1> DEFINE F == E \o new
<1>1. /\ Len(F) = Len(E) + Len(new) /\ Len(E) \in Nat /\ Len(new) \in Nat
      /\ \A e \in 1..Len(E) : F[e] = E[e]
  OBVIOUS
<1> HIDE DEF F
<1>2. 1..Len(E) \subseteq 1..Len(F)
  BY <1>1
<1>3. WholeIn(F, s)
  BY <1>1, <1>2 DEF WholeIn
<1> QED
  BY <1>3 DEF F

-----------------------------------------------------------------------------
(* The invariant.                                                          *)

Types ==
    /\ entries \in Seq(Entry)
    /\ files \in [Ids -> File \cup {None}]
    /\ open \in Session \cup {None}
    /\ lag \in BOOLEAN
    /\ copy \in Copy \cup {None}
    /\ summary # None => summary.path \in Seq(Nat) /\ Len(summary.path) > Long

SessInv == Types /\ TreesWhole /\ AutoSaved

\* What the invariant says of trees.
LEMMA WholeTrees ==
    ASSUME Types
    PROVE  TreesWhole <=> /\ Rooted(entries)
                          /\ \A i \in Ids : files[i] # None => WholeIn(entries, files[i])
                          /\ open # None => WholeIn(entries, open)
                          /\ copy # None => WholeIn(entries, copy)
<1>1. DOMAIN entries = 1..Len(entries) /\ entries \in Seq(Entry)
  BY DEF Types
<1>2. \A s : Whole(s) <=> WholeIn(entries, s)
  BY DEF Whole, WholeIn
<1>3. \A s : s \in Trees <=> s # None /\ (s \in {open, copy} \/ \E i \in Ids : s = files[i])
  BY DEF Trees
<1> QED
  BY <1>1, <1>2, <1>3 DEF TreesWhole, Rooted

-----------------------------------------------------------------------------
(* Operations that save.                                                   *)

\* Session s has what its file and, if it is open, what the open session has.
Keeps(s) ==
    /\ files[s.id] # None => files[s.id].has \subseteq s.has
    /\ s.id = open.id => open.has \subseteq s.has

\* What a save writes, and what is open when it fails.
HarmlessSave(E, s, gone) ==
    /\ s.write \in Session /\ WholeIn(E, s.write)
    /\ s.write.id \notin gone => Keeps(s.write)
    /\ s.undo \in Session /\ WholeIn(E, s.undo)
    /\ s.undo \in {open, s.write}
    /\ s.undo.id = open.id /\ open.has \subseteq s.undo.has

\* A save that fails after others.
HarmlessAfter(saves, k, gone) ==
    \A l \in 1..k - 1 : saves[l].write.id = open.id =>
        /\ saves[k].undo # saves[k].write => Snapshot(saves[l].write) = Snapshot(open)
        /\ open.id \notin gone => saves[l].write.has \subseteq saves[k].undo.has

LastIs(saves, s) ==
    \E k \in 1..Len(saves) :
        /\ saves[k].write.id = s.id /\ Snapshot(saves[k].write) = Snapshot(s)
        /\ \A l \in k + 1..Len(saves) : saves[l].write.id # s.id

\* What is open when all have succeeded.
HarmlessEnd(E, saves, done, gone) ==
    /\ done \in Session /\ WholeIn(E, done)
    /\ done.auto /\ done.has # {} => LastIs(saves, done)
    /\ done.id \notin gone =>
          /\ Keeps(done)
          /\ \A k \in 1..Len(saves) :
                saves[k].write.id = done.id => saves[k].write.has \subseteq done.has
    /\ open.id \notin gone /\ done.id # open.id =>
          \E k \in 1..Len(saves) : saves[k].write.id = open.id

Harmless(E, saves, done, gone) ==
    /\ DOMAIN saves = 1..Len(saves) /\ Len(saves) \in Nat
    /\ \A k \in 1..Len(saves) : HarmlessSave(E, saves[k], gone) /\ HarmlessAfter(saves, k, gone)
    /\ HarmlessEnd(E, saves, done, gone)

\* The file of a session is as before, or its last save.
LEMMA FileAfter ==
    ASSUME NEW saves, Len(saves) \in Nat, NEW j \in 0..Len(saves), NEW i \in Ids
    PROVE  \/ After(saves, j)[i] = files[i] /\ \A k \in 1..j : saves[k].write.id # i
           \/ \E k \in 1..j : /\ saves[k].write.id = i
                              /\ After(saves, j)[i] = Snapshot(saves[k].write)
                              /\ \A l \in k + 1..j : saves[l].write.id # i
<1> DEFINE mine == {k \in 1..j : saves[k].write.id = i}
<1>1. After(saves, j)[i] = IF mine = {} THEN files[i] ELSE Snapshot(saves[Max(mine)].write)
  BY DEF After
<1>2. CASE mine = {}
  BY <1>1, <1>2
<1>3. CASE mine # {}
  <2>1. j \in Nat /\ mine \in SUBSET (0..j)
    OBVIOUS
  <2>2. Max(mine) \in mine /\ \A x \in mine : x <= Max(mine)
    <3> HIDE DEF mine
    <3> QED
      BY <1>3, <2>1, Greatest
  <2> DEFINE k == Max(mine)
  <2>3. k \in 1..j /\ saves[k].write.id = i
    BY <2>2
  <2>4. ASSUME NEW l \in k + 1..j PROVE saves[l].write.id # i
    <3> HIDE DEF k
    <3>1. l \in 1..j /\ ~ (l <= k)
      BY <2>3
    <3>2. l \notin mine
      BY <2>2, <3>1 DEF k
    <3> QED
      BY <3>1, <3>2
  <2>5. After(saves, j)[i] = Snapshot(saves[k].write)
    BY <1>1, <1>3
  <2> HIDE DEF k, mine
  <2> QED
    BY <2>3, <2>4, <2>5
<1> QED
  BY <1>2, <1>3

LEMMA NoneIsNeither == None \notin File /\ None \notin Session /\ None \notin Copy
<1>1. Ids \subseteq Nat
  BY DEF Ids
<1> QED
  BY <1>1, SessionsAssumption DEF File, Session, Copy

\* The open session, if it is older than its file.
Stale == {i \in Ids : Older(i)}

\* What was said and saved, or said in the open session, is kept, and no session
\* comes to be older than its file, but for those in gone.
KeepsBut(gone) ==
    \A i \in Ids \ gone :
        /\ Saved(i) \subseteq Saved(i)'
        /\ open' # None => Known(i) \subseteq Known(i)'
        /\ ~ Older(i)'

\* What NothingIsLost asks of a step.
KeepsSaid ==
    \A i \in Ids :
        \/ /\ Saved(i) \subseteq Saved(i)'
           /\ open' # None => Known(i) \subseteq Known(i)'
           /\ Older(i)' => open # None /\ open.id = i /\ ResumeSession(i)
        \/ Older(i)
        \/ ImportSession /\ copy.id = i

LEMMA SaidIsKept ==
    ASSUME NEW i \in Ids,
           \A e \in 1..Len(entries) : entries'[e].says = entries[e].says,
           files[i] # None => files[i].has \subseteq 1..Len(entries),
           open # None => open.has \subseteq 1..Len(entries),
           files[i] # None => files'[i] # None /\ files[i].has \subseteq files'[i].has,
           open # None /\ open.id = i /\ open' # None =>
             \/ files'[i] # None /\ open.has \subseteq files'[i].has
             \/ open'.id = i /\ open.has \subseteq open'.has
    PROVE  Saved(i) \subseteq Saved(i)' /\ (open' # None => Known(i) \subseteq Known(i)')
<1>1. Saved(i)' = IF files'[i] = None THEN {} ELSE UNION {entries'[e].says : e \in files'[i].has}
  BY DEF Saved
<1>2. Known(i)' = Saved(i)' \cup IF open' # None /\ open'.id = i
                               THEN UNION {entries'[e].says : e \in open'.has} ELSE {}
  BY DEF Known
<1>3. ASSUME NEW A, NEW B, A \subseteq B, A \subseteq 1..Len(entries)
      PROVE  UNION {entries[e].says : e \in A} \subseteq UNION {entries'[e].says : e \in B}
  BY <1>3
<1>4. Saved(i) \subseteq Saved(i)'
  <2>1. CASE files[i] = None
    BY <2>1 DEF Saved
  <2>2. CASE files[i] # None
    BY <1>1, <1>3, <2>2 DEF Saved
  <2> QED
    BY <2>1, <2>2
<1>5. ASSUME open' # None PROVE Known(i) \subseteq Known(i)'
  <2>1. CASE open # None /\ open.id = i
    <3>1. Known(i) = Saved(i) \cup UNION {entries[e].says : e \in open.has}
      BY <2>1 DEF Known
    <3>2. UNION {entries[e].says : e \in open.has} \subseteq Known(i)'
      BY <1>1, <1>2, <1>3, <1>5, <2>1
    <3> QED
      BY <1>2, <1>4, <3>1, <3>2
  <2>2. CASE ~ (open # None /\ open.id = i)
    <3>1. Known(i) = Saved(i)
      BY <2>2 DEF Known
    <3> QED
      BY <1>2, <1>4, <3>1
  <2> QED
    BY <2>1, <2>2
<1> QED
  BY <1>4, <1>5

\* An operation keeps the invariant and what was said if its saves are harmless.
LEMMA SavesKeepBut ==
    ASSUME SessInv, open # None, NEW new \in Seq(Entry), Rooted(entries \o new),
           NEW saves, NEW done, Saves(new, saves, done),
           NEW gone, Stale \subseteq gone, Harmless(entries \o new, saves, done, gone),
           copy' = copy, summary' \in {summary, None}
    PROVE  SessInv' /\ KeepsBut(gone)
<1> DEFINE E == entries \o new
           n == Len(saves)
<1>0. /\ Types /\ n \in Nat
      /\ \A k \in 1..n : HarmlessSave(E, saves[k], gone) /\ HarmlessAfter(saves, k, gone)
      /\ HarmlessEnd(E, saves, done, gone)
  BY DEF SessInv, Harmless
<1>1. PICK j \in 0..n :
        /\ files' = After(saves, j)
        /\ j = n => open' = done /\ lag' = FALSE
        /\ j # n => /\ open' = saves[j + 1].undo
                    /\ lag' = \/ saves[j + 1].undo = saves[j + 1].write
                              \/ lag /\ \A k \in 1..j : saves[k].write.id # open.id
  BY DEF Saves, Written
<1>2. entries' = IF open' = open /\ files' = files THEN entries ELSE E
  BY DEF Saves
<1>3. open \in Session /\ open.id \in Ids
  BY <1>0 DEF Types, Session
<1>4. /\ \A k \in 1..n : saves[k].write \in Session /\ saves[k].undo \in Session
      /\ done \in Session
  BY <1>0 DEF HarmlessSave, HarmlessEnd
<1>5. \A i \in Ids :
        \/ files'[i] = files[i] /\ \A k \in 1..j : saves[k].write.id # i
        \/ \E k \in 1..j : /\ saves[k].write.id = i
                           /\ files'[i] = Snapshot(saves[k].write)
                           /\ \A l \in k + 1..j : saves[l].write.id # i
  BY <1>0, <1>1, FileAfter
<1>6. j # n => j + 1 \in 1..n
  BY <1>0
<1>7. 1..j \subseteq 1..n /\ j \in Nat
  BY <1>0
<1> HIDE DEF E, n
<1>8. open' \in Session /\ open' # None
  BY <1>1, <1>4, <1>6, NoneIsNeither
<1>9. ASSUME NEW s \in Session
      PROVE  /\ Snapshot(s) \in File /\ Snapshot(s) # None
             /\ Snapshot(s).has = s.has /\ Snapshot(s).tip = s.tip
  BY NoneIsNeither DEF Snapshot, Session, File
<1>10. Types'
  <2>1. E \in Seq(Entry)
    BY <1>0 DEF Types, E
  <2>2. files' \in [Ids -> File \cup {None}]
    <3>1. \A i \in Ids : files'[i] \in File \cup {None}
      BY <1>0, <1>4, <1>5, <1>7, <1>9 DEF Types
    <3>2. files' = [i \in Ids |-> files'[i]]
      BY <1>1 DEF After
    <3> QED
      BY <3>1, <3>2
  <2>3. lag' \in BOOLEAN
    <3>1. CASE j = n
      BY <1>1, <3>1
    <3>2. CASE j # n
      BY <1>1, <3>2
    <3> QED
      BY <3>1, <3>2
  <2> QED
    BY <1>0, <1>2, <1>8, <2>1, <2>2, <2>3 DEF Types
<1>11. TreesWhole'
  <2>1. CASE open' = open /\ files' = files
    <3>1. TreesWhole' <=> TreesWhole
      BY <1>2, <2>1 DEF TreesWhole, Trees, Whole
    <3> QED
      BY <3>1 DEF SessInv
  <2>2. CASE ~ (open' = open /\ files' = files)
    <3>1. entries' = E
      BY <1>2, <2>2
    <3>2. /\ \A i \in Ids : files[i] # None => WholeIn(entries, files[i])
          /\ WholeIn(entries, open)
          /\ copy # None => WholeIn(entries, copy)
      BY <1>0, WholeTrees DEF SessInv
    <3>3. /\ \A i \in Ids : files[i] # None => WholeIn(E, files[i])
          /\ copy # None => WholeIn(E, copy)
      BY <1>0, <3>2, StillWhole DEF Types, E
    <3>4. \A k \in 1..n : WholeIn(E, saves[k].write) /\ WholeIn(E, saves[k].undo)
      BY <1>0 DEF HarmlessSave
    <3>5. WholeIn(E, done)
      BY <1>0 DEF HarmlessEnd
    <3>6. WholeIn(E, open')
      BY <1>1, <1>6, <3>4, <3>5
    <3>7. \A s \in Session : WholeIn(E, s) => WholeIn(E, Snapshot(s))
      BY <1>9 DEF WholeIn
    <3>8. ASSUME NEW i \in Ids, files'[i] # None PROVE WholeIn(E, files'[i])
      <4>1. CASE files'[i] = files[i]
        BY <3>3, <3>8, <4>1
      <4>2. ASSUME NEW k \in 1..j, files'[i] = Snapshot(saves[k].write)
            PROVE  WholeIn(E, files'[i])
        BY <1>4, <1>7, <3>4, <3>7, <4>2
      <4> QED
        BY <1>5, <4>1, <4>2
    <3>9. Rooted(E)
      BY DEF E
    <3>10. \A s : Whole(s)' <=> WholeIn(E, s)
      BY <3>1 DEF Whole, WholeIn
    <3>11. \A s \in Trees' : s # None /\ (s \in {open', copy} \/ \E i \in Ids : s = files'[i])
      BY DEF Trees
    <3>12. \A s \in Trees' : Whole(s)'
      BY <3>3, <3>6, <3>8, <3>10, <3>11
    <3>13. DOMAIN E = 1..Len(E)
      BY <3>9 DEF Rooted
    <3> QED
      BY <3>1, <3>9, <3>12, <3>13 DEF TreesWhole, Rooted
  <2> QED
    BY <2>1, <2>2
<1>12. AutoSaved'
  <2> SUFFICES ASSUME open'.auto, open'.has # {}, ~ lag'
               PROVE  files'[open'.id] = Snapshot(open')
    BY DEF AutoSaved, Snapshot
  <2>1. CASE j = n
    <3>1. open' = done /\ done.id \in Ids
      BY <1>1, <1>4, <2>1 DEF Session
    <3>2. PICK k \in 1..n : /\ saves[k].write.id = done.id
                            /\ Snapshot(saves[k].write) = Snapshot(done)
                            /\ \A l \in k + 1..n : saves[l].write.id # done.id
      BY <1>0, <3>1 DEF HarmlessEnd, LastIs, n
    <3>3. PICK m \in 1..n : /\ saves[m].write.id = done.id
                            /\ files'[done.id] = Snapshot(saves[m].write)
                            /\ \A l \in m + 1..n : saves[l].write.id # done.id
      BY <1>5, <2>1, <3>1, <3>2
    <3>4. k = m
      <4>1. k \notin m + 1..n /\ m \notin k + 1..n
        BY <3>2, <3>3
      <4> QED
        BY <1>0, <4>1
    <3> QED
      BY <3>1, <3>2, <3>3, <3>4
  <2>2. CASE j # n
    <3>1. /\ HarmlessSave(E, saves[j + 1], gone)
          /\ HarmlessAfter(saves, j + 1, gone)
      BY <1>0, <1>6, <2>2
    <3>2. saves[j + 1].undo # saves[j + 1].write /\ open' = open
      BY <1>1, <2>2, <3>1 DEF HarmlessSave
    <3>3. CASE files'[open.id] = files[open.id] /\ \A k \in 1..j : saves[k].write.id # open.id
      <4>1. ~ lag
        BY <1>1, <2>2, <3>3
      <4> QED
        BY <1>3, <3>2, <3>3, <4>1, NoneIsNeither DEF SessInv, AutoSaved
    <3>4. ASSUME NEW k \in 1..j, saves[k].write.id = open.id,
                 files'[open.id] = Snapshot(saves[k].write)
          PROVE  files'[open.id] = Snapshot(open)
      <4>1. k \in 1..(j + 1) - 1
        BY <1>7
      <4> QED
        BY <3>1, <3>2, <3>4, <4>1 DEF HarmlessAfter
    <3>5. files'[open.id] = Snapshot(open)
      BY <1>3, <1>5, <3>2, <3>3, <3>4
    <3> QED
      BY <3>2, <3>5
  <2> QED
    BY <2>1, <2>2
<1>13. ASSUME NEW i \in Ids \ gone PROVE ~ Older(i)'
  <2> SUFFICES ASSUME open'.id = i, files'[open'.id] # None
               PROVE  files'[open'.id].has \subseteq open'.has
    BY DEF Older
  <2>0. open'.id \notin gone
    BY <1>13
  <2>1. CASE j = n
    <3>1. open' = done /\ done.id \in Ids
      BY <1>1, <1>4, <2>1 DEF Session
    <3>2. /\ Keeps(done)
          /\ \A k \in 1..n : saves[k].write.id = done.id => saves[k].write.has \subseteq done.has
      BY <1>0, <2>0, <3>1 DEF HarmlessEnd, n
    <3>3. CASE files'[done.id] = files[done.id]
      BY <3>1, <3>2, <3>3 DEF Keeps
    <3>4. ASSUME NEW k \in 1..j, saves[k].write.id = done.id,
                 files'[done.id] = Snapshot(saves[k].write)
          PROVE  files'[done.id].has \subseteq done.has
      BY <1>4, <1>7, <1>9, <3>2, <3>4
    <3> QED
      BY <1>5, <3>1, <3>3, <3>4
  <2>2. CASE j # n
    <3>1. /\ HarmlessSave(E, saves[j + 1], gone)
          /\ HarmlessAfter(saves, j + 1, gone)
      BY <1>0, <1>6, <2>2
    <3>2. /\ open' = saves[j + 1].undo /\ open'.id = open.id
          /\ open.has \subseteq open'.has
      BY <1>1, <2>2, <3>1 DEF HarmlessSave
    <3>3. CASE files'[open.id] = files[open.id]
      <4>1. files[open.id].has \subseteq open.has
        BY <1>3, <2>0, <3>2, <3>3 DEF Stale, Older
      <4> QED
        BY <3>2, <3>3, <4>1
    <3>4. ASSUME NEW k \in 1..j, saves[k].write.id = open.id,
                 files'[open.id] = Snapshot(saves[k].write)
          PROVE  files'[open.id].has \subseteq open'.has
      <4>1. k \in 1..(j + 1) - 1
        BY <1>7
      <4>2. saves[k].write.has \subseteq saves[j + 1].undo.has
        BY <2>0, <3>1, <3>2, <3>4, <4>1 DEF HarmlessAfter
      <4> QED
        BY <1>4, <1>7, <1>9, <3>2, <3>4, <4>2
    <3> QED
      BY <1>3, <1>5, <3>2, <3>3, <3>4
  <2> QED
    BY <2>1, <2>2
<1>14. ASSUME NEW i \in Ids, i \notin gone
       PROVE  /\ Saved(i) \subseteq Saved(i)'
              /\ open' # None => Known(i) \subseteq Known(i)'
  <2>1. \A e \in 1..Len(entries) : entries'[e].says = entries[e].says
    <3>1. entries \in Seq(Entry)
      BY <1>0 DEF Types
    <3>2. \A e \in 1..Len(entries) : E[e] = entries[e]
      BY <3>1 DEF E
    <3> QED
      BY <1>2, <3>2
  <2>2. /\ files[i] # None => files[i].has \subseteq 1..Len(entries)
        /\ open # None => open.has \subseteq 1..Len(entries)
    BY <1>0, WholeTrees DEF SessInv, WholeIn
  <2>3. ASSUME NEW k \in 1..j, saves[k].write.id = i, files'[i] = Snapshot(saves[k].write)
        PROVE  /\ files'[i] # None /\ (files[i] # None => files[i].has \subseteq files'[i].has)
               /\ open.id = i => open.has \subseteq files'[i].has
    <3>1. k \in 1..n
      BY <1>7
    <3>2. Keeps(saves[k].write)
      BY <1>0, <1>14, <2>3, <3>1 DEF HarmlessSave
    <3> QED
      BY <1>4, <1>9, <2>3, <3>1, <3>2 DEF Keeps
  <2>4. files[i] # None => files'[i] # None /\ files[i].has \subseteq files'[i].has
    BY <1>5, <2>3
  <2>5. ASSUME open.id = i
        PROVE  \/ files'[i] # None /\ open.has \subseteq files'[i].has
               \/ open'.id = i /\ open.has \subseteq open'.has
    <3>1. CASE j = n /\ done.id = i
      BY <1>0, <1>1, <1>14, <2>5, <3>1 DEF HarmlessEnd, Keeps
    <3>2. CASE j = n /\ done.id # i
      <4>1. \E k \in 1..n : saves[k].write.id = i
        BY <1>0, <1>14, <2>5, <3>2 DEF HarmlessEnd, n
      <4>2. PICK k \in 1..j : saves[k].write.id = i /\ files'[i] = Snapshot(saves[k].write)
        BY <1>5, <3>2, <4>1
      <4> QED
        BY <2>3, <2>5, <4>2
    <3>3. CASE j # n
      BY <1>0, <1>1, <1>6, <2>5, <3>3 DEF HarmlessSave
    <3> QED
      BY <3>1, <3>2, <3>3
  <2> QED
    BY <2>1, <2>2, <2>4, <2>5, SaidIsKept
<1>15. KeepsBut(gone)
  BY <1>13, <1>14 DEF KeepsBut
<1> QED
  BY <1>10, <1>11, <1>12, <1>15 DEF SessInv

LEMMA SavesKeep ==
    ASSUME SessInv, open # None, NEW new \in Seq(Entry), Rooted(entries \o new),
           NEW saves, NEW done, Saves(new, saves, done),
           Harmless(entries \o new, saves, done, Stale),
           copy' = copy, summary' \in {summary, None}
    PROVE  SessInv' /\ KeepsSaid
<1>1. SessInv' /\ KeepsBut(Stale)
  BY SavesKeepBut
<1> QED
  BY <1>1 DEF KeepsBut, KeepsSaid, Stale

-----------------------------------------------------------------------------
(* What operations are made from.                                          *)

LEMMA Basics ==
    ASSUME SessInv
    PROVE  /\ entries \in Seq(Entry) /\ Len(entries) \in Nat /\ Rooted(entries)
           /\ \A i \in Ids : files[i] # None =>
                files[i] \in File /\ WholeIn(entries, files[i])
           /\ open # None => /\ open \in Session /\ open.id \in Ids
                             /\ WholeIn(entries, open)
                             /\ open.id \notin Stale => Keeps(open)
           /\ copy # None => copy \in Copy /\ WholeIn(entries, copy)
<1>1. Types /\ TreesWhole
  BY DEF SessInv
<1>2. open # None => open \in Session /\ open.id \in Ids
  BY <1>1 DEF Types, Session
<1>3. open # None /\ open.id \notin Stale => Keeps(open)
  BY <1>2 DEF Stale, Older, Keeps
<1> QED
  BY <1>1, <1>2, <1>3, WholeTrees DEF Types

LEMMA PathOf ==
    ASSUME SessInv, NEW e \in 0..Len(entries)
    PROVE  /\ Path(e) \in Seq(1..Len(entries))
           /\ e # 0 => Path(e) # <<>> /\ Path(e)[Len(Path(e))] = e
<1>1. Path(e) \in Seq(1..Len(entries))
  BY Basics, PathStep, PathIsIn
<1>2. ASSUME e # 0 PROVE Path(e) # <<>> /\ Path(e)[Len(Path(e))] = e
  <2>1. Rooted(entries) /\ e \in 1..Len(entries)
    BY <1>2, Basics
  <2>2. entries[e].parent \in 0..Len(entries)
    BY <2>1, Basics DEF Rooted
  <2>3. PathIn(entries, entries[e].parent) \in Seq(1..Len(entries))
    BY <2>1, <2>2, PathStep
  <2>4. Path(e) = Append(PathIn(entries, entries[e].parent), e)
    BY <2>1, PathStep, PathIsIn
  <2> QED
    BY <2>3, <2>4
<1> QED
  BY <1>1, <1>2

LEMMA ContentsOf ==
    ASSUME entries \in Seq(Entry), NEW path \in Seq(1..Len(entries))
    PROVE  /\ Contents(path) \in Seq(Content) /\ Len(Contents(path)) = Len(path)
           /\ \A i \in 1..Len(path) : /\ Contents(path)[i].says = entries[path[i]].says
                                      /\ Contents(path)[i].tools = entries[path[i]].tools
<1>1. Len(path) \in Nat /\ DOMAIN path = 1..Len(path)
  OBVIOUS
<1>2. ASSUME NEW i \in 1..Len(path) PROVE entries[path[i]] \in Entry
  BY <1>1
<1>3. Contents(path) = [i \in 1..Len(path) |->
                          [says |-> entries[path[i]].says, tools |-> entries[path[i]].tools]]
  BY <1>1 DEF Contents
<1>4. \A i \in 1..Len(path) :
        [says |-> entries[path[i]].says, tools |-> entries[path[i]].tools] \in Content
  BY <1>2 DEF Entry, Content
<1>5. Contents(path) \in Seq(Content)
  BY <1>1, <1>3, <1>4
<1> QED
  BY <1>1, <1>3, <1>5

\* New entries below p, and the trees they make.
LEMMA Chained ==
    ASSUME SessInv, NEW contents \in Seq(Content), NEW p \in 0..Len(entries)
    PROVE  LET m == Len(entries)
               n == Len(contents)
               E == entries \o Chain(p, contents)
           IN  /\ Chain(p, contents) \in Seq(Entry) /\ n \in Nat
               /\ E \in Seq(Entry) /\ Len(E) = m + n /\ Rooted(E)
               /\ \A e \in 1..m : E[e] = entries[e]
               /\ \A i \in 1..n : /\ E[m + i].parent = IF i = 1 THEN p ELSE m + i - 1
                                  /\ E[m + i].says = contents[i].says
                                  /\ E[m + i].tools = contents[i].tools
<1> DEFINE m == Len(entries)
           n == Len(contents)
           C == Chain(p, contents)
           E == entries \o C
           New(i) == [parent |-> IF i = 1 THEN p ELSE m + i - 1,
                      says |-> contents[i].says, tools |-> contents[i].tools]
<1>1. n \in Nat /\ m \in Nat /\ DOMAIN contents = 1..n
  BY Basics
<1>2. C = [i \in 1..n |-> New(i)]
  BY <1>1 DEF Chain
<1>3. ASSUME NEW i \in 1..n PROVE New(i) \in Entry
  <2>1. contents[i] \in Content
    BY <1>1
  <2>2. (IF i = 1 THEN p ELSE m + i - 1) \in Nat
    BY <1>1
  <2> QED
    BY <2>1, <2>2 DEF Content, Entry
<1>4. C \in Seq(Entry) /\ Len(C) = n
  BY <1>1, <1>2, <1>3
<1>5. ASSUME NEW i \in 1..n
      PROVE  /\ C[i].parent = IF i = 1 THEN p ELSE m + i - 1
             /\ C[i].says = contents[i].says /\ C[i].tools = contents[i].tools
  BY <1>2
<1> HIDE DEF C, m, n
<1>6. /\ E \in Seq(Entry) /\ Len(E) = m + n
      /\ \A e \in 1..m : E[e] = entries[e]
      /\ \A i \in 1..n : E[m + i] = C[i]
      /\ \A e \in 1..Len(E) : e \in 1..m \/ \E i \in 1..n : e = m + i
  <2>1. /\ entries \o C \in Seq(Entry) /\ Len(entries \o C) = m + Len(C)
        /\ \A e \in 1..m : (entries \o C)[e] = entries[e]
        /\ \A i \in 1..Len(C) : (entries \o C)[m + i] = C[i]
        /\ \A e \in 1..Len(entries \o C) : e \in 1..m \/ \E i \in 1..Len(C) : e = m + i
    <3>1. entries \in Seq(Entry) /\ C \in Seq(Entry) /\ m = Len(entries)
      BY <1>4, Basics DEF m
    <3> QED
      BY ONLY <3>1, Joined
  <2> QED
    BY <1>4, <2>1
<1> HIDE DEF E
<1>7. \A i \in 1..n : E[m + i].parent = IF i = 1 THEN p ELSE m + i - 1
  BY <1>5, <1>6
<1>8. ASSUME NEW e \in 1..Len(E) PROVE E[e].parent \in 0..e - 1
  <2>1. CASE e \in 1..m
    BY <1>6, <2>1, Basics DEF Rooted, m
  <2>2. ASSUME NEW i \in 1..n, e = m + i PROVE E[e].parent \in 0..e - 1
    <3>1. p \in 0..m
      BY DEF m
    <3>2. CASE i = 1
      <4>1. E[e].parent = p /\ e - 1 = m
        BY <1>1, <1>7, <2>2, <3>2
      <4> QED
        BY <3>1, <4>1
    <3>3. CASE i # 1
      <4>1. E[e].parent = m + i - 1
        BY <1>7, <2>2, <3>3
      <4>2. m + i - 1 \in 0..e - 1
        BY <1>1, <2>2
      <4> QED
        BY <4>1, <4>2
    <3> QED
      BY <3>2, <3>3
  <2> QED
    BY <1>6, <2>1, <2>2
<1>9. Rooted(E)
  BY <1>6, <1>8 DEF Rooted
<1> QED
  BY <1>1, <1>4, <1>5, <1>6, <1>7, <1>9 DEF E, C, m, n

\* A session with n new entries below its tip, or a new root.
LEMMA GrownWhole ==
    ASSUME SessInv, open # None, NEW contents \in Seq(Content), Len(contents) > 0,
           NEW p \in open.has \cup {0}
    PROVE  LET s == Grown(open, Len(contents))
               E == entries \o Chain(p, contents)
           IN  /\ s \in Session /\ WholeIn(E, s) /\ WholeIn(E, open)
               /\ s.id = open.id /\ s.auto = open.auto
               /\ s.has = open.has \cup NewIds(Len(contents))
               /\ s.tip = Len(entries) + Len(contents)
<1> DEFINE m == Len(entries)
           n == Len(contents)
           E == entries \o Chain(p, contents)
           s == Grown(open, n)
<1>1. /\ m \in Nat /\ n \in Nat /\ n > 0 /\ open \in Session
      /\ WholeIn(entries, open) /\ open.has \subseteq 1..m
  <2>1. m \in Nat /\ open \in Session /\ WholeIn(entries, open)
    BY ONLY SessInv, open # None, Basics
  <2>2. n \in Nat /\ n > 0
    OBVIOUS
  <2> QED
    BY <2>1, <2>2 DEF WholeIn
<1>2. p \in 0..m
  BY <1>1
<1>3. /\ E \in Seq(Entry) /\ Len(E) = m + n /\ Chain(p, contents) \in Seq(Entry)
      /\ \A e \in 1..m : E[e] = entries[e]
      /\ \A i \in 1..n : E[m + i].parent = IF i = 1 THEN p ELSE m + i - 1
  BY <1>2, Chained
<1>4. WholeIn(E, open)
  BY <1>1, <1>3, Basics, StillWhole
<1>5. /\ s.id = open.id /\ s.auto = open.auto
      /\ s.has = open.has \cup (m + 1..m + n) /\ s.tip = m + n
      /\ s \in Session
  <2>1. /\ s = [open EXCEPT !.has = open.has \cup (m + 1..m + n), !.tip = m + n]
        /\ open.has \cup (m + 1..m + n) \in SUBSET Nat /\ m + n \in Nat
    BY <1>1 DEF Grown, NewIds
  <2> HIDE DEF s, m, n
  <2> QED
    BY <1>1, <2>1 DEF Session
<1> HIDE DEF E, s, m, n
<1>6. s.has \subseteq 1..Len(E)
  BY <1>1, <1>3, <1>5
<1>7. s.tip \in s.has /\ s.tip # 0
  BY <1>1, <1>5
<1>8. ASSUME NEW e \in s.has PROVE E[e].parent \in s.has \cup {0}
  <2>1. CASE e \in open.has
    BY <1>4, <1>5, <2>1 DEF WholeIn
  <2>2. CASE e \in m + 1..m + n
    <3>1. e - m \in 1..n /\ e = m + (e - m)
      BY <1>1, <2>2
    <3>2. E[e].parent = IF e - m = 1 THEN p ELSE m + (e - m) - 1
      BY <1>3, <3>1
    <3>3. e - m # 1 => e - 1 \in m + 1..m + n /\ m + (e - m) - 1 = e - 1
      BY <1>1, <3>1
    <3> QED
      BY <1>5, <3>2, <3>3
  <2> QED
    BY <1>5, <2>1, <2>2
<1>9. WholeIn(E, s)
  BY <1>6, <1>7, <1>8 DEF WholeIn
<1> QED
  BY <1>4, <1>5, <1>9 DEF E, s, m, n, NewIds

\* The first i of n new entries, as a session of their own.
LEMMA ForkedWhole ==
    ASSUME SessInv, NewId \in Ids, NEW contents \in Seq(Content),
           NEW i \in 1..Len(contents), NEW auto \in BOOLEAN
    PROVE  LET s == Forked(i, auto)
           IN  /\ s \in Session /\ WholeIn(entries \o Chain(0, contents), s)
               /\ s.id = NewId /\ s.auto = auto /\ s.has = NewIds(i) /\ s.has # {}
<1> DEFINE m == Len(entries)
           n == Len(contents)
           E == entries \o Chain(0, contents)
           s == Forked(i, auto)
<1>1. m \in Nat /\ n \in Nat
  BY Basics
<1>2. /\ E \in Seq(Entry) /\ Len(E) = m + n
      /\ \A k \in 1..n : E[m + k].parent = IF k = 1 THEN 0 ELSE m + k - 1
  <2>1. 0 \in 0..Len(entries)
    BY <1>1
  <2> QED
    BY ONLY SessInv, contents \in Seq(Content), <2>1, Chained
<1>3. /\ s.id = NewId /\ s.auto = auto /\ s.has = m + 1..m + i /\ s.tip = m + i
      /\ s \in Session
  BY <1>1 DEF Forked, Session, NewIds
<1> HIDE DEF E, s, m
<1>4. s.has \subseteq 1..Len(E) /\ s.tip \in s.has /\ s.tip # 0
  BY <1>1, <1>2, <1>3
<1>5. ASSUME NEW e \in s.has PROVE E[e].parent \in s.has \cup {0}
  <2>1. e - m \in 1..n /\ e = m + (e - m) /\ e - m <= i
    BY <1>1, <1>3
  <2>2. E[e].parent = IF e - m = 1 THEN 0 ELSE m + (e - m) - 1
    BY <1>2, <2>1
  <2>3. e - m # 1 => e - 1 \in m + 1..m + i /\ m + (e - m) - 1 = e - 1
    BY <1>1, <2>1
  <2> QED
    BY <1>3, <2>2, <2>3
<1>6. WholeIn(E, s)
  BY <1>4, <1>5 DEF WholeIn
<1> QED
  BY <1>3, <1>4, <1>6 DEF E, s, m, NewIds

LEMMA UnusedId ==
    ASSUME Unused # {}
    PROVE  NewId \in Ids /\ files[NewId] = None /\ (open # None => open.id # NewId)
<1>1. Unused \in SUBSET (1..MaxSessions) /\ MaxSessions \in Nat
  BY SessionsAssumption DEF Unused, Ids
<1>2. NewId \in Unused
  BY <1>1, Least DEF NewId
<1> QED
  BY <1>2 DEF Unused

-----------------------------------------------------------------------------
(* Short lists of saves.                                                   *)

LEMMA NoSave ==
    ASSUME NEW E, NEW done, NEW gone, done \in Session, WholeIn(E, done),
           done.auto => done.has = {},
           done.id \notin gone => Keeps(done),
           open.id \notin gone => done.id = open.id
    PROVE  Harmless(E, <<>>, done, gone)
<1>1. Len(<<>>) = 0 /\ DOMAIN <<>> = 1..0 /\ 1..0 = {}
  OBVIOUS
<1>2. HarmlessEnd(E, <<>>, done, gone)
  BY <1>1 DEF HarmlessEnd
<1> QED
  BY <1>1, <1>2 DEF Harmless

LEMMA OneSave ==
    ASSUME NEW E, NEW w, NEW done, NEW gone, HarmlessSave(E, w, gone),
           done \in Session, WholeIn(E, done),
           done.auto /\ done.has # {} =>
             w.write.id = done.id /\ Snapshot(w.write) = Snapshot(done),
           done.id \notin gone =>
             Keeps(done) /\ (w.write.id = done.id => w.write.has \subseteq done.has),
           open.id \notin gone => done.id = open.id \/ w.write.id = open.id
    PROVE  Harmless(E, <<w>>, done, gone)
<1> DEFINE saves == <<w>>
<1>1. Len(saves) = 1 /\ DOMAIN saves = 1..1 /\ saves[1] = w
  OBVIOUS
<1>2. \A k \in 1..1 : k = 1
  OBVIOUS
<1>3. 1 \in 1..1 /\ 1..(1 - 1) = {} /\ (1 + 1)..1 = {}
  OBVIOUS
<1> HIDE DEF saves
<1>4. HarmlessEnd(E, saves, done, gone)
  BY <1>1, <1>2, <1>3 DEF HarmlessEnd, LastIs
<1>5. \A k \in 1..1 : HarmlessSave(E, saves[k], gone) /\ HarmlessAfter(saves, k, gone)
  BY <1>1, <1>2, <1>3 DEF HarmlessAfter
<1> QED
  BY <1>1, <1>4, <1>5 DEF Harmless, saves

LEMMA TwoSaves ==
    ASSUME NEW E, NEW v, NEW w, NEW done, NEW gone,
           HarmlessSave(E, v, gone), HarmlessSave(E, w, gone),
           v.write.id = open.id =>
             /\ w.undo # w.write => Snapshot(v.write) = Snapshot(open)
             /\ open.id \notin gone => v.write.has \subseteq w.undo.has,
           done \in Session, WholeIn(E, done),
           done.auto /\ done.has # {} =>
             \/ w.write.id = done.id /\ Snapshot(w.write) = Snapshot(done)
             \/ /\ v.write.id = done.id /\ Snapshot(v.write) = Snapshot(done)
                /\ w.write.id # done.id,
           done.id \notin gone =>
             /\ Keeps(done)
             /\ v.write.id = done.id => v.write.has \subseteq done.has
             /\ w.write.id = done.id => w.write.has \subseteq done.has,
           open.id \notin gone =>
             done.id = open.id \/ v.write.id = open.id \/ w.write.id = open.id
    PROVE  Harmless(E, <<v, w>>, done, gone)
<1> DEFINE saves == <<v, w>>
<1>1. Len(saves) = 2 /\ DOMAIN saves = 1..2 /\ saves[1] = v /\ saves[2] = w
  OBVIOUS
<1>2. \A k \in 1..2 : k = 1 \/ k = 2
  OBVIOUS
<1>3. /\ 1 \in 1..2 /\ 2 \in 1..2 /\ 1..(1 - 1) = {} /\ 1..(2 - 1) = {1}
      /\ (1 + 1)..2 = {2} /\ (2 + 1)..2 = {}
  OBVIOUS
<1> HIDE DEF saves
<1>4. done.auto /\ done.has # {} => LastIs(saves, done)
  BY <1>1, <1>3 DEF LastIs
<1>5. \A k \in 1..2 : saves[k].write.id = done.id /\ done.id \notin gone =>
                         saves[k].write.has \subseteq done.has
  BY <1>1, <1>2
<1>6. open.id \notin gone /\ done.id # open.id => \E k \in 1..2 : saves[k].write.id = open.id
  BY <1>1, <1>3
<1>7. HarmlessEnd(E, saves, done, gone)
  BY <1>1, <1>4, <1>5, <1>6 DEF HarmlessEnd
<1>8. \A k \in 1..2 : HarmlessSave(E, saves[k], gone)
  BY <1>1, <1>2
<1>9. HarmlessAfter(saves, 1, gone) /\ HarmlessAfter(saves, 2, gone)
  BY <1>1, <1>3 DEF HarmlessAfter
<1>10. \A k \in 1..2 : HarmlessAfter(saves, k, gone)
  BY <1>2, <1>9
<1> QED
  BY <1>1, <1>7, <1>8, <1>10 DEF Harmless, saves

\* The open session is saved, as it is or as it will be open.
LEMMA OpenSave ==
    ASSUME SessInv, open # None, NEW E, WholeIn(E, open), NEW gone, Stale \subseteq gone
    PROVE  HarmlessSave(E, Write(open, open), gone)
<1>1. open \in Session /\ (open.id \notin gone => Keeps(open))
  BY Basics
<1> QED
  BY <1>1 DEF HarmlessSave, Write

LEMMA NextSave ==
    ASSUME SessInv, open # None, NEW E, NEW gone, Stale \subseteq gone,
           NEW s \in Session, WholeIn(E, s), s.id = open.id, open.has \subseteq s.has,
           NEW undo \in {s, open}, undo = open => WholeIn(E, open)
    PROVE  /\ s.id \notin gone => Keeps(s)
           /\ HarmlessSave(E, Write(s, undo), gone)
<1>1. open \in Session /\ (open.id \notin gone => Keeps(open))
  BY Basics
<1>2. s.id \notin gone => Keeps(s)
  BY <1>1 DEF Keeps
<1> QED
  BY <1>1, <1>2 DEF HarmlessSave, Write

-----------------------------------------------------------------------------
(* The operations of a session.                                            *)

LEMMA NothingNew ==
    ASSUME SessInv
    PROVE  <<>> \in Seq(Entry) /\ entries \o <<>> = entries /\ Rooted(entries \o <<>>)
<1>1. entries \in Seq(Entry) /\ Rooted(entries)
  BY Basics
<1>2. entries \o <<>> = entries
  BY <1>1
<1> QED
  BY <1>1, <1>2

LEMMA AutoSaveKeeps ==
    ASSUME SessInv, open # None, NEW new \in Seq(Entry), Rooted(entries \o new),
           NEW s \in Session, WholeIn(entries \o new, s),
           s.id = open.id, open.has \subseteq s.has,
           Saves(new, AutoSave(s, s), s), copy' = copy, summary' \in {summary, None}
    PROVE  SessInv' /\ KeepsSaid
<1> DEFINE E == entries \o new
<1>1. /\ s.id \notin Stale => Keeps(s)
      /\ HarmlessSave(E, Write(s, s), Stale)
  BY NextSave
<1>2. Write(s, s).write = s
  BY DEF Write
<1>3. CASE s.auto
  <2>1. AutoSave(s, s) = <<Write(s, s)>>
    BY <1>3 DEF AutoSave
  <2>2. Harmless(E, <<Write(s, s)>>, s, Stale)
    <3> HIDE DEF E
    <3>1. WholeIn(E, s)
      BY DEF E
    <3> QED
      BY <1>1, <1>2, <3>1, OneSave
  <2> QED
    BY <2>1, <2>2, SavesKeep, Basics
<1>4. CASE ~ s.auto
  <2>1. AutoSave(s, s) = <<>>
    BY <1>4 DEF AutoSave
  <2>2. Harmless(E, <<>>, s, Stale)
    BY <1>1, <1>4, NoSave
  <2> QED
    BY <2>1, <2>2, SavesKeep, Basics
<1> QED
  BY <1>3, <1>4

LEMMA SayKeeps ==
    ASSUME SessInv, Say
    PROVE  SessInv' /\ KeepsSaid
<1> DEFINE c == <<[says |-> NewIds(1), tools |-> NewIds(1)]>>
           new == Chain(open.tip, c)
           s == Grown(open, 1)
<1>1. /\ open # None /\ Saves(new, AutoSave(s, s), s)
      /\ copy' = copy /\ summary' = summary
  BY DEF Say
<1>2. c \in Seq(Content) /\ Len(c) = 1
  <2>1. NewIds(1) \in SUBSET Nat
    BY Basics DEF NewIds
  <2>2. [says |-> NewIds(1), tools |-> NewIds(1)] \in Content
    BY <2>1 DEF Content
  <2> QED
    BY <2>2
<1>3. open.tip \in open.has \cup {0} /\ open.tip \in 0..Len(entries)
  BY <1>1, Basics DEF WholeIn
<1> HIDE DEF c
<1>4. new \in Seq(Entry) /\ Rooted(entries \o new)
  BY <1>2, <1>3, Chained
<1>5. /\ s \in Session /\ WholeIn(entries \o new, s)
      /\ s.id = open.id /\ open.has \subseteq s.has
  <2>1. LET t == Grown(open, Len(c))
        IN  /\ t \in Session /\ WholeIn(entries \o new, t)
            /\ t.id = open.id /\ t.has = open.has \cup NewIds(Len(c))
    <3>1. open # None /\ Len(c) > 0
      BY <1>1, <1>2
    <3> QED
      BY ONLY SessInv, <1>2, <1>3, <3>1, GrownWhole DEF new
  <2> QED
    BY <1>2, <2>1
<1> HIDE DEF s, new
<1> QED
  BY <1>1, <1>4, <1>5, AutoSaveKeeps

\* Another tip.
LEMMA AtWhole ==
    ASSUME SessInv, open # None, NEW e \in open.has
    PROVE  LET s == At(open, e)
           IN  /\ s \in Session /\ WholeIn(entries, s) /\ WholeIn(entries, open)
               /\ s.id = open.id /\ s.auto = open.auto /\ s.has = open.has /\ s.tip = e
<1>1. open \in Session /\ WholeIn(entries, open) /\ e \in 1..Len(entries)
  BY Basics DEF WholeIn
<1>2. /\ At(open, e).id = open.id /\ At(open, e).auto = open.auto
      /\ At(open, e).has = open.has /\ At(open, e).tip = e
      /\ At(open, e) \in Session
  BY <1>1 DEF At, Session
<1>3. WholeIn(entries, At(open, e))
  BY <1>1, <1>2 DEF WholeIn
<1> QED
  BY <1>1, <1>2, <1>3

LEMMA MoveKeeps ==
    ASSUME SessInv, NEW e, Move(e)
    PROVE  SessInv' /\ KeepsSaid
<1> DEFINE s == At(open, e)
<1>1. /\ open # None /\ e \in open.has /\ Saves(<<>>, AutoSave(s, s), s)
      /\ copy' = copy /\ summary' = summary
  BY DEF Move
<1>2. s \in Session /\ WholeIn(entries, s) /\ s.id = open.id /\ s.has = open.has
  BY <1>1, AtWhole
<1> HIDE DEF s
<1> QED
  BY <1>1, <1>2, NothingNew, AutoSaveKeeps

LEMMA AllOf ==
    ASSUME entries \in Seq(Entry), NEW path \in Seq(1..Len(entries))
    PROVE  /\ SaysAll(path) = UNION {entries[path[i]].says : i \in 1..Len(path)}
           /\ ToolsAll(path) = UNION {entries[path[i]].tools : i \in 1..Len(path)}
           /\ SaysAll(path) \in SUBSET Nat /\ ToolsAll(path) \in SUBSET Nat
<1>1. ToSet(path) = {path[i] : i \in 1..Len(path)}
  BY DEF ToSet
<1>2. /\ SaysAll(path) = UNION {entries[path[i]].says : i \in 1..Len(path)}
      /\ ToolsAll(path) = UNION {entries[path[i]].tools : i \in 1..Len(path)}
  BY <1>1 DEF SaysAll, ToolsAll
<1>3. \A i \in 1..Len(path) : entries[path[i]] \in Entry
  OBVIOUS
<1>4. \A i \in 1..Len(path) : /\ entries[path[i]].says \subseteq Nat
                              /\ entries[path[i]].tools \subseteq Nat
  BY <1>3 DEF Entry
<1> QED
  BY <1>2, <1>4

\* The contents of a compaction: the root's take over the branch's tools.
Inherits(c) == [c EXCEPT ![1].tools = @ \cup ToolsAll(Path(open.tip))]

LEMMA Inherited ==
    ASSUME SessInv, open # None, NEW c \in Seq(Content), Len(c) > 0
    PROVE  /\ Inherits(c) \in Seq(Content) /\ Len(Inherits(c)) = Len(c)
           /\ \A i \in 1..Len(c) :
                /\ Inherits(c)[i].says = c[i].says
                /\ Inherits(c)[i].tools =
                      IF i = 1 THEN c[i].tools \cup ToolsAll(Path(open.tip)) ELSE c[i].tools
<1> DEFINE T == ToolsAll(Path(open.tip))
<1>1. T \in SUBSET Nat
  <2>1. open.tip \in 0..Len(entries) /\ entries \in Seq(Entry)
    BY Basics DEF WholeIn
  <2> QED
    BY <2>1, PathOf, AllOf
<1>2. Inherits(c) = [c EXCEPT ![1] = [c[1] EXCEPT !.tools = c[1].tools \cup T]]
  BY DEF Inherits
<1> HIDE DEF T
<1>3. 1 \in 1..Len(c) /\ c[1] \in Content
  OBVIOUS
<1>4. /\ [c[1] EXCEPT !.tools = c[1].tools \cup T] \in Content
      /\ [c[1] EXCEPT !.tools = c[1].tools \cup T].says = c[1].says
      /\ [c[1] EXCEPT !.tools = c[1].tools \cup T].tools = c[1].tools \cup T
  BY <1>1, <1>3 DEF Content
<1>5. /\ Inherits(c) \in Seq(Content) /\ Len(Inherits(c)) = Len(c)
      /\ Inherits(c)[1] = [c[1] EXCEPT !.tools = c[1].tools \cup T]
      /\ \A i \in 1..Len(c) : i # 1 => Inherits(c)[i] = c[i]
  <2> DEFINE x == [c[1] EXCEPT !.tools = c[1].tools \cup T]
  <2>1. x \in Content
    BY <1>4
  <2> HIDE DEF x
  <2>2. LET d == [c EXCEPT ![1] = x]
        IN  /\ d \in Seq(Content) /\ Len(d) = Len(c) /\ d[1] = x
            /\ \A i \in 1..Len(c) : i # 1 => d[i] = c[i]
    BY ONLY <2>1, Len(c) > 0, c \in Seq(Content), HeadChanged
  <2> QED
    BY <1>2, <2>2 DEF x
<1> QED
  BY <1>4, <1>5 DEF T

LEMMA CompactKeeps ==
    ASSUME SessInv, open # None, NEW c \in Seq(Content), Len(c) > 0,
           NEW receipts \in 0..1, Compact(c, receipts), summary' \in {summary, None}
    PROVE  SessInv' /\ KeepsSaid
<1> DEFINE n == Len(c)
           s == Grown(open, n)
           new == Chain(0, Inherits(c))
           E == entries \o new
           first == <<Write(s, open)>>
           more == [i \in 1..receipts |-> Write(s, s)]
<1>1. /\ Saves(new, IF s.auto THEN first \o more ELSE <<>>, s) /\ copy' = copy
  BY DEF Compact, Compacted, Undone, Inherits
<1>2. Inherits(c) \in Seq(Content) /\ Len(Inherits(c)) = n
  BY Inherited
<1>3. new \in Seq(Entry) /\ Rooted(E)
  BY <1>2, Chained, Basics
<1>4. /\ s \in Session /\ WholeIn(E, s) /\ WholeIn(E, open)
      /\ s.id = open.id /\ open.has \subseteq s.has
  BY <1>2, GrownWhole
<1>5. /\ s.id \notin Stale => Keeps(s)
      /\ HarmlessSave(E, Write(s, open), Stale)
      /\ HarmlessSave(E, Write(s, s), Stale)
  <2> HIDE DEF E, s
  <2> QED
    BY <1>1, <1>4, NextSave
<1>6. /\ Write(s, open).write = s /\ Write(s, s).write = s /\ Write(s, s).undo = s
  BY DEF Write
<1>7. CASE s.auto /\ receipts = 0
  <2>1. first \o more = first
    <3> HIDE DEF s
    <3>1. more = <<>>
      BY <1>7
    <3> HIDE DEF more
    <3>2. \A w : <<w>> \o <<>> = <<w>>
      OBVIOUS
    <3> QED
      BY <3>1, <3>2
  <2>2. Harmless(E, first, s, Stale)
    <3> HIDE DEF E, s
    <3> QED
      BY <1>4, <1>5, <1>6, OneSave
  <2> QED
    BY <1>1, <1>3, <1>7, <2>1, <2>2, SavesKeep, Basics
<1>8. CASE s.auto /\ receipts = 1
  <2>1. first \o more = <<Write(s, open), Write(s, s)>>
    <3> HIDE DEF s
    <3>1. more = <<Write(s, s)>>
      BY <1>8
    <3> HIDE DEF more
    <3> QED
      BY <3>1, Pair
  <2>2. Harmless(E, <<Write(s, open), Write(s, s)>>, s, Stale)
    <3> HIDE DEF E, s
    <3> QED
      BY <1>4, <1>5, <1>6, TwoSaves
  <2> QED
    BY <1>1, <1>3, <1>8, <2>1, <2>2, SavesKeep, Basics
<1>9. CASE ~ s.auto
  <2>1. Harmless(E, <<>>, s, Stale)
    BY <1>4, <1>5, <1>9, NoSave
  <2> QED
    BY <1>1, <1>3, <1>9, <2>1, SavesKeep, Basics
<1>10. s.auto \in BOOLEAN /\ receipts \in {0, 1}
  BY <1>4 DEF Session
<1> QED
  BY <1>7, <1>8, <1>9, <1>10

\* The contents of a compaction that keeps the last k entries of a path.
Shortened(said, path, k) ==
    <<[says |-> said, tools |-> {}]>> \o Contents(SubSeq(path, Len(path) - k + 1, Len(path)))

LEMMA ShortenedTail ==
    ASSUME entries \in Seq(Entry), NEW path \in Seq(1..Len(entries)),
           NEW k \in 0..Len(path), NEW said \in SUBSET Nat
    PROVE  LET c == Shortened(said, path, k)
           IN  /\ c \in Seq(Content) /\ Len(c) = 1 + k
               /\ c[1].says = said /\ c[1].tools = {}
               /\ \A i \in 1..k :
                    /\ c[1 + i].says = entries[path[Len(path) - k + i]].says
                    /\ c[1 + i].tools = entries[path[Len(path) - k + i]].tools
<1> DEFINE tail == SubSeq(path, Len(path) - k + 1, Len(path))
           head == <<[says |-> said, tools |-> {}]>>
           c == head \o Contents(tail)
<1>1. Len(path) \in Nat /\ k \in Nat /\ k <= Len(path)
  OBVIOUS
<1>2. /\ tail \in Seq(1..Len(entries)) /\ Len(tail) = k
      /\ \A i \in 1..k : tail[i] = path[Len(path) - k + i]
  <2> DEFINE m == Len(path) - k + 1
  <2>1. m \in Nat /\ m >= 1 /\ m <= Len(path) + 1
    BY <1>1
  <2>2. \A i \in 1..k : m + i - 1 = Len(path) - k + i /\ m + i - 1 \in 1..Len(path)
    BY <1>1
  <2>3. Len(path) - m + 1 = k
    BY <1>1
  <2> HIDE DEF m
  <2>4. SubSeq(path, m, Len(path)) = [i \in 1..k |-> path[m + i - 1]]
    BY <1>1, <2>1, <2>3
  <2>5. /\ SubSeq(path, m, Len(path)) \in Seq(1..Len(entries))
        /\ Len(SubSeq(path, m, Len(path))) = k
    BY <1>1, <2>2, <2>4
  <2> QED
    BY <2>2, <2>4, <2>5 DEF m
<1>3. head \in Seq(Content) /\ Len(head) = 1 /\ head[1] = [says |-> said, tools |-> {}]
  <2>1. [says |-> said, tools |-> {}] \in Content
    BY DEF Content
  <2> QED
    BY <2>1
<1> HIDE DEF head, tail
<1>4. /\ Contents(tail) \in Seq(Content) /\ Len(Contents(tail)) = k
      /\ \A i \in 1..k : /\ Contents(tail)[i].says = entries[tail[i]].says
                         /\ Contents(tail)[i].tools = entries[tail[i]].tools
  BY <1>2, ContentsOf
<1>5. /\ c \in Seq(Content) /\ Len(c) = Len(head) + Len(Contents(tail))
      /\ \A i \in 1..Len(head) : c[i] = head[i]
      /\ \A i \in 1..Len(Contents(tail)) : c[Len(head) + i] = Contents(tail)[i]
  <2>1. head \in Seq(Content) /\ Contents(tail) \in Seq(Content)
    BY <1>3, <1>4
  <2> QED
    BY ONLY <2>1, Joined DEF c
<1> HIDE DEF c
<1>6. c[1] = head[1] /\ \A i \in 1..k : c[1 + i] = Contents(tail)[i]
  <2>1. Len(head) = 1 /\ 1 \in 1..1 /\ Len(Contents(tail)) = k
    BY <1>3, <1>4
  <2> QED
    BY ONLY <1>5, <2>1
<1>7. c[1].says = said /\ c[1].tools = {}
  BY <1>3, <1>6
<1>8. \A i \in 1..k : /\ c[1 + i].says = entries[path[Len(path) - k + i]].says
                      /\ c[1 + i].tools = entries[path[Len(path) - k + i]].tools
  BY <1>2, <1>4, <1>6
<1>9. c \in Seq(Content) /\ Len(c) = 1 + k
  BY <1>3, <1>4, <1>5
<1> QED
  BY <1>7, <1>8, <1>9 DEF Shortened, c, head, tail

\* A compaction of the branch with the contents c: they have no tools but the
\* branch's.
Compacts(c, receipts) ==
    /\ c \in Seq(Content) /\ Len(c) > 0
    /\ \A i \in 1..Len(c) : c[i].tools \subseteq ToolsAll(Path(open.tip))
    /\ Compact(c, receipts)

LEMMA Overflow ==
    ASSUME SessInv, NEW k \in 0..Kept, OverflowRecovered(k)
    PROVE  /\ open # None /\ summary = None /\ summary' = summary
           /\ \E c : Compacts(c, 1)
<1> DEFINE path == Path(open.tip)
           c == Shortened({}, path, k)
<1>1. /\ open # None /\ summary = None /\ summary' = summary
      /\ Len(path) > 1 /\ k < Len(path) /\ Compact(c, 1)
  BY DEF OverflowRecovered, Idle, Shortened
<1>2. entries \in Seq(Entry) /\ open.tip \in 0..Len(entries)
  BY <1>1, Basics DEF WholeIn
<1>3. path \in Seq(1..Len(entries)) /\ k \in 0..Len(path)
  <2>1. path \in Seq(1..Len(entries))
    BY <1>2, PathOf
  <2>2. Len(path) \in Nat /\ k \in Nat
    BY <2>1, SessionsAssumption
  <2> QED
    BY <1>1, <2>1, <2>2
<1>4. ToolsAll(path) = UNION {entries[path[i]].tools : i \in 1..Len(path)}
  BY <1>2, <1>3, AllOf
<1> HIDE DEF path
<1>5. /\ c \in Seq(Content) /\ Len(c) = 1 + k /\ c[1].tools = {}
      /\ \A i \in 1..k : c[1 + i].tools = entries[path[Len(path) - k + i]].tools
  BY <1>2, <1>3, ShortenedTail
<1> HIDE DEF c
<1>6. ASSUME NEW i \in 1..Len(c) PROVE c[i].tools \subseteq ToolsAll(path)
  <2>1. CASE i = 1
    BY <1>5, <2>1
  <2>2. CASE i # 1
    <3>1. i - 1 \in 1..k /\ i = 1 + (i - 1)
      BY <1>3, <1>5, <2>2
    <3>2. c[i].tools = entries[path[Len(path) - k + (i - 1)]].tools
      BY <1>5, <3>1
    <3>3. Len(path) - k + (i - 1) \in 1..Len(path)
      BY <1>3, <3>1
    <3> QED
      BY <1>4, <3>2, <3>3
  <2> QED
    BY <2>1, <2>2
<1>7. Compacts(c, 1)
  BY <1>1, <1>3, <1>5, <1>6 DEF Compacts, path
<1> QED
  BY <1>1, <1>7

\* ... and, of a semantic one, what they say is what the branch says.
LEMMA Summary ==
    ASSUME SessInv, Summarised
    PROVE  LET path == Path(open.tip)
           IN  /\ open # None /\ summary # None /\ summary' = None
               /\ path \in Seq(1..Len(entries)) /\ Recent \in 1..Len(path)
               /\ \E c : /\ Compacts(c, 0) /\ Len(c) = 1 + Recent
                         /\ UNION {c[i].says : i \in 1..Len(c)} = SaysAll(path)
                         /\ \A i \in 1..Recent : c[1 + i].says = LastSays(path)[i]
<1> DEFINE path == Path(open.tip)
           old  == SubSeq(path, 1, Len(path) - Recent)
           c == Shortened(SaysAll(old), path, Recent)
<1>1. /\ open # None /\ summary # None /\ summary' = None
      /\ path = summary.path /\ Compact(c, 0)
  BY DEF Summarised, StillCurrent, Shortened
<1>2. entries \in Seq(Entry) /\ open.tip \in 0..Len(entries)
  BY <1>1, Basics DEF WholeIn
<1>3. /\ path \in Seq(1..Len(entries)) /\ Len(path) \in Nat
      /\ Recent \in 1..Len(path) /\ Recent < Len(path)
  <2>1. path \in Seq(1..Len(entries))
    BY <1>2, PathOf
  <2>2. Len(path) > Long
    BY <1>1 DEF SessInv, Types
  <2> HIDE DEF path
  <2> QED
    BY <2>1, <2>2, SessionsAssumption
<1>4. /\ ToolsAll(path) = UNION {entries[path[i]].tools : i \in 1..Len(path)}
      /\ SaysAll(path) = UNION {entries[path[i]].says : i \in 1..Len(path)}
  BY <1>2, <1>3, AllOf
<1>5. \A i \in 1..Recent : LastSays(path)[i] = entries[path[Len(path) - Recent + i]].says
  BY DEF LastSays
<1> HIDE DEF path
<1>6. /\ old \in Seq(1..Len(entries)) /\ Len(old) = Len(path) - Recent
      /\ \A i \in 1..Len(path) - Recent : old[i] = path[i]
  BY <1>3
<1> HIDE DEF old
<1>7. /\ SaysAll(old) = UNION {entries[old[i]].says : i \in 1..Len(old)}
      /\ SaysAll(old) \in SUBSET Nat
  BY <1>2, <1>6, AllOf
<1>8. /\ c \in Seq(Content) /\ Len(c) = 1 + Recent
      /\ c[1].tools = {} /\ c[1].says = SaysAll(old)
      /\ \A i \in 1..Recent : /\ c[1 + i].tools = entries[path[Len(path) - Recent + i]].tools
                              /\ c[1 + i].says = entries[path[Len(path) - Recent + i]].says
  <2>1. Recent \in 0..Len(path)
    BY <1>3
  <2> QED
    <3>1. SaysAll(old) \in SUBSET Nat
      BY <1>7
    <3> HIDE DEF c
    <3>2. LET d == Shortened(SaysAll(old), path, Recent)
          IN  /\ d \in Seq(Content) /\ Len(d) = 1 + Recent
              /\ d[1].says = SaysAll(old) /\ d[1].tools = {}
              /\ \A i \in 1..Recent :
                   /\ d[1 + i].says = entries[path[Len(path) - Recent + i]].says
                   /\ d[1 + i].tools = entries[path[Len(path) - Recent + i]].tools
      BY ONLY <1>2, <1>3, <2>1, <3>1, ShortenedTail
    <3> QED
      BY <3>2 DEF c
<1> HIDE DEF c
<1>9. ASSUME NEW i \in 1..Len(c), i # 1
      PROVE  /\ i - 1 \in 1..Recent /\ i = 1 + (i - 1)
             /\ Len(path) - Recent + (i - 1) \in 1..Len(path)
             /\ c[i].tools = entries[path[Len(path) - Recent + (i - 1)]].tools
             /\ c[i].says = entries[path[Len(path) - Recent + (i - 1)]].says
  <2>1. i - 1 \in 1..Recent /\ i = 1 + (i - 1)
    <3>1. Len(c) = 1 + Recent /\ Recent \in Nat
      BY <1>3, <1>8
    <3> QED
      BY <1>9, <3>1
  <2>2. Len(path) - Recent + (i - 1) \in 1..Len(path)
    BY <1>3, <2>1
  <2> QED
    BY <1>8, <2>1, <2>2
<1>10. \A i \in 1..Len(c) : c[i].tools \subseteq ToolsAll(path)
  BY <1>4, <1>8, <1>9
<1>11. UNION {c[i].says : i \in 1..Len(c)} = SaysAll(path)
  <2>1. ASSUME NEW i \in 1..Len(c) PROVE c[i].says \subseteq SaysAll(path)
    <3>1. CASE i = 1
      <4>1. 1..Len(path) - Recent \subseteq 1..Len(path)
        BY <1>3
      <4>2. c[i].says = UNION {entries[path[l]].says : l \in 1..Len(path) - Recent}
        <5>1. c[i].says = UNION {entries[old[l]].says : l \in 1..Len(old)}
          BY <1>7, <1>8, <3>1
        <5> QED
          BY <1>6, <5>1
      <4> QED
        BY <1>4, <4>1, <4>2
    <3>2. CASE i # 1
      BY <1>4, <1>9, <3>2
    <3> QED
      BY <3>1, <3>2
  <2>2. ASSUME NEW j \in 1..Len(path)
        PROVE  \E i \in 1..Len(c) : entries[path[j]].says \subseteq c[i].says
    <3>1. CASE j <= Len(path) - Recent
      <4>1. j \in 1..Len(old) /\ old[j] = path[j]
        BY <1>3, <1>6, <3>1
      <4>2. entries[path[j]].says \subseteq c[1].says
        BY <1>7, <1>8, <4>1
      <4>3. 1 \in 1..Len(c)
        BY <1>3, <1>8
      <4> QED
        BY <4>2, <4>3
    <3>2. CASE j > Len(path) - Recent
      <4> DEFINE i == j - (Len(path) - Recent)
      <4>1. i \in 1..Recent /\ Len(path) - Recent + i = j /\ 1 + i \in 1..Len(c)
        BY <1>3, <1>8, <3>2
      <4>2. c[1 + i].says = entries[path[j]].says
        <5> HIDE DEF i
        <5> QED
          BY <1>8, <4>1
      <4> QED
        BY <4>1, <4>2
    <3>3. j <= Len(path) - Recent \/ j > Len(path) - Recent
      BY <1>3
    <3> QED
      BY ONLY <3>1, <3>2, <3>3
  <2>3. SaysAll(path) \subseteq UNION {c[i].says : i \in 1..Len(c)}
    BY <1>4, <2>2
  <2>4. UNION {c[i].says : i \in 1..Len(c)} \subseteq SaysAll(path)
    BY <2>1
  <2> QED
    BY <2>3, <2>4
<1>12. Compacts(c, 0)
  BY <1>1, <1>3, <1>8, <1>10 DEF Compacts, path
<1> QED
  <2>1. /\ Compacts(c, 0) /\ Len(c) = 1 + Recent
        /\ UNION {c[i].says : i \in 1..Len(c)} = SaysAll(path)
        /\ \A i \in 1..Recent : c[1 + i].says = LastSays(path)[i]
    BY <1>5, <1>8, <1>11, <1>12
  <2> QED
    BY <1>1, <1>3, <2>1 DEF path

-----------------------------------------------------------------------------
(* The operations of the application.                                      *)

LEMMA SaveKeeps ==
    ASSUME SessInv, Save
    PROVE  SessInv' /\ KeepsSaid
<1> DEFINE w == Write(open, open)
<1>1. /\ open # None /\ Saves(<<>>, <<w>>, open) /\ copy' = copy /\ summary' = summary
  BY DEF Save, Idle
<1>2. /\ open \in Session /\ WholeIn(entries, open)
      /\ open.id \notin Stale => Keeps(open)
  BY <1>1, Basics
<1>3. HarmlessSave(entries, w, Stale) /\ w.write = open
  BY <1>1, <1>2, OpenSave DEF Write
<1> HIDE DEF w
<1>4. Harmless(entries, <<w>>, open, Stale)
  BY <1>2, <1>3, OneSave
<1> QED
  BY <1>1, <1>2, <1>4, NothingNew, SavesKeep

LEMMA SwitchTreeKeeps ==
    ASSUME SessInv, NEW e, SwitchTree(e)
    PROVE  SessInv' /\ KeepsSaid
<1> DEFINE w == Write(open, open)
           s == At(open, e)
           v == Write(s, s)
<1>1. /\ open # None /\ e \in open.has /\ Saves(<<>>, <<w>> \o AutoSave(s, s), s)
      /\ copy' = copy /\ summary' = summary
  BY DEF SwitchTree, Idle
<1>2. /\ s \in Session /\ WholeIn(entries, s) /\ WholeIn(entries, open)
      /\ s.id = open.id /\ s.auto = open.auto /\ s.has = open.has
  BY <1>1, AtWhole
<1> HIDE DEF s
<1>3. HarmlessSave(entries, w, Stale) /\ w.write = open
  BY <1>1, <1>2, OpenSave DEF Write
<1>4. /\ HarmlessSave(entries, v, Stale) /\ v.write = s /\ v.undo = s
      /\ s.id \notin Stale => Keeps(s)
  BY <1>1, <1>2, NextSave DEF Write
<1>5. s.auto \in BOOLEAN
  BY <1>1, <1>2, Basics DEF Session
<1>6. CASE s.auto
  <2>1. <<w>> \o AutoSave(s, s) = <<w, v>>
    <3>1. AutoSave(s, s) = <<v>>
      BY <1>6 DEF AutoSave
    <3> HIDE DEF w, v
    <3> QED
      BY <3>1, Pair
  <2> HIDE DEF w, v
  <2>2. Harmless(entries, <<w, v>>, s, Stale)
    BY <1>2, <1>3, <1>4, TwoSaves
  <2> QED
    BY <1>1, <1>5, <2>1, <2>2, NothingNew, SavesKeep
<1>7. CASE ~ s.auto
  <2> HIDE DEF w, v
  <2>1. <<w>> \o AutoSave(s, s) = <<w>>
    <3>1. AutoSave(s, s) = <<>>
      BY <1>7 DEF AutoSave
    <3>2. <<w>> \o <<>> = <<w>>
      OBVIOUS
    <3> QED
      BY <3>1, <3>2
  <2>2. Harmless(entries, <<w>>, s, Stale)
    BY <1>2, <1>3, <1>4, <1>7, OneSave
  <2> QED
    BY <1>1, <1>5, <2>1, <2>2, NothingNew, SavesKeep
<1> QED
  BY <1>5, <1>6, <1>7

LEMMA FreshWhole ==
    ASSUME NEW i \in Ids, NEW E
    PROVE  /\ Fresh(i) \in Session /\ WholeIn(E, Fresh(i))
           /\ Fresh(i).id = i /\ Fresh(i).has = {}
  BY DEF Fresh, Session, WholeIn

LEMMA NewSessionKeeps ==
    ASSUME SessInv, NewSession
    PROVE  SessInv' /\ KeepsSaid
<1> DEFINE w == Write(open, open)
           s == Fresh(NewId)
<1>1. /\ open # None /\ Unused # {} /\ Saves(<<>>, <<w>>, s)
      /\ copy' = copy /\ summary' = summary
  BY DEF NewSession, Idle
<1>2. WholeIn(entries, open)
  BY <1>1, Basics
<1>3. HarmlessSave(entries, w, Stale) /\ w.write = open
  BY <1>1, <1>2, OpenSave DEF Write
<1>4. NewId \in Ids /\ files[NewId] = None /\ open.id # NewId
  BY <1>1, UnusedId
<1>5. s \in Session /\ WholeIn(entries, s) /\ s.id = NewId /\ s.has = {}
  BY <1>4, FreshWhole
<1> HIDE DEF s, w
<1>6. Keeps(s)
  BY <1>4, <1>5 DEF Keeps
<1>7. Harmless(entries, <<w>>, s, Stale)
  BY <1>3, <1>4, <1>5, <1>6, OneSave
<1> QED
  BY <1>1, <1>2, <1>7, NothingNew, SavesKeep

LEMMA FileLoaded ==
    ASSUME SessInv, NEW i \in Ids, files[i] # None
    PROVE  LET s == Loaded(i, files[i])
           IN  /\ s \in Session /\ WholeIn(entries, s)
               /\ s.id = i /\ s.has = files[i].has /\ s.auto = FALSE
<1>1. files[i] \in File /\ WholeIn(entries, files[i])
  BY Basics
<1> DEFINE s == Loaded(i, files[i])
<1>2. /\ s.id = i /\ s.has = files[i].has /\ s.tip = files[i].tip /\ s.auto = FALSE
      /\ s \in Session
  BY <1>1 DEF Loaded, File, Session
<1> HIDE DEF s
<1>3. WholeIn(entries, s)
  BY <1>1, <1>2 DEF WholeIn
<1> QED
  BY <1>2, <1>3 DEF s

LEMMA CopyLoaded ==
    ASSUME SessInv, copy # None
    PROVE  LET s == Loaded(copy.id, copy)
           IN  s \in Session /\ WholeIn(entries, s) /\ s.id = copy.id /\ s.auto = FALSE
<1>1. copy \in Copy /\ WholeIn(entries, copy)
  BY Basics
<1> DEFINE s == Loaded(copy.id, copy)
<1>2. /\ s.id = copy.id /\ s.has = copy.has /\ s.tip = copy.tip /\ s.auto = FALSE
      /\ s \in Session
  BY <1>1 DEF Loaded, Copy, Session
<1> HIDE DEF s
<1>3. WholeIn(entries, s)
  BY <1>1, <1>2 DEF WholeIn
<1> QED
  BY <1>2, <1>3 DEF s

\* The open session is saved before it is left for what its file was: that becomes
\* older, and the file has it all.
LEMMA ResumedIsSaved ==
    ASSUME SessInv, NEW i \in Ids, ResumeSession(i), open.id = i, ~ Older(i)
    PROVE  Saved(i) \subseteq Saved(i)' /\ Known(i) \subseteq Known(i)'
<1> DEFINE w == Write(open, open)
           saves == <<w>>
           s == Loaded(i, files[i])
<1>1. /\ open # None /\ files[i] # None /\ Saves(<<>>, saves, s)
  BY DEF ResumeSession, Idle
<1>2. /\ open \in Session /\ WholeIn(entries, open)
      /\ files[i].has \subseteq open.has /\ WholeIn(entries, files[i])
  BY <1>1, Basics DEF Older
<1>3. w.write = open /\ w.undo = open /\ Len(saves) = 1 /\ saves[1] = w
  BY DEF Write
<1>4. s \in Session
  BY <1>1, FileLoaded
<1> HIDE DEF w, s, saves
<1>5. PICK j \in 0..1 :
        /\ files' = After(saves, j)
        /\ open' = IF j = 1 THEN s ELSE saves[j + 1].undo
  BY <1>1, <1>3 DEF Saves, Written
<1>6. entries' = entries
  BY <1>1, NothingNew DEF Saves
<1>7. \/ files'[i] = files[i] /\ \A k \in 1..j : saves[k].write.id # i
      \/ \E k \in 1..j : /\ saves[k].write.id = i
                         /\ files'[i] = Snapshot(saves[k].write)
  BY <1>3, <1>5, FileAfter
<1>8. open' # None
  BY <1>2, <1>3, <1>4, <1>5, NoneIsNeither
<1>9. CASE j = 0
  <2>1. files'[i] = files[i] /\ open' = open
    <3>1. 1..j = {} /\ j + 1 = 1 /\ j # 1
      BY <1>9
    <3> QED
      BY <1>3, <1>5, <1>7, <3>1
  <2> QED
    BY <1>2, <1>6, <1>8, <2>1, SaidIsKept DEF WholeIn
<1>10. CASE j = 1
  <2>1. files'[i] = Snapshot(open)
    <3>1. 1..j = {1}
      BY <1>10
    <3> QED
      BY <1>3, <1>7, <3>1
  <2>2. files'[i] # None /\ files'[i].has = open.has
    BY <1>2, <2>1, NoneIsNeither DEF Snapshot, Session, File
  <2> QED
    BY <1>2, <1>6, <1>8, <2>2, SaidIsKept DEF WholeIn
<1> QED
  BY <1>5, <1>9, <1>10

LEMMA ResumeSessionKeeps ==
    ASSUME SessInv, NEW i \in Ids, ResumeSession(i)
    PROVE  SessInv' /\ KeepsSaid
<1> DEFINE w == Write(open, open)
           s == Loaded(i, files[i])
           gone == Stale \cup ({i} \cap {open.id})
<1>1. /\ open # None /\ files[i] # None /\ Saves(<<>>, <<w>>, s)
      /\ copy' = copy /\ summary' = summary
  BY DEF ResumeSession, Idle
<1>2. WholeIn(entries, open)
  BY <1>1, Basics
<1>3. HarmlessSave(entries, w, gone) /\ w.write = open
  BY <1>1, <1>2, OpenSave DEF Write
<1>4. s \in Session /\ WholeIn(entries, s) /\ s.id = i /\ s.auto = FALSE /\ s.has = files[i].has
  BY <1>1, FileLoaded
<1> HIDE DEF s, w
<1>5. (i \in gone \/ Keeps(s)) /\ (i = open.id => i \in gone)
  BY <1>4 DEF Keeps
<1>6. Stale \subseteq gone
  OBVIOUS
<1>7. SessInv' /\ KeepsBut(gone)
  <2> HIDE DEF gone
  <2>1. Harmless(entries, <<w>>, s, gone)
    BY <1>3, <1>4, <1>5, OneSave
  <2> QED
    BY <1>1, <1>6, <2>1, NothingNew, SavesKeepBut
<1>8. open.id = i /\ ~ Older(i) =>
        Saved(i) \subseteq Saved(i)' /\ Known(i) \subseteq Known(i)'
  BY ResumedIsSaved
<1> QED
  BY <1>1, <1>7, <1>8 DEF KeepsBut, KeepsSaid, Stale

LEMMA ImportSessionKeeps ==
    ASSUME SessInv, ImportSession
    PROVE  SessInv' /\ KeepsSaid
<1> DEFINE w == Write(open, open)
           s == Loaded(copy.id, copy)
           v == Write(s, open)
           gone == Stale \cup {copy.id}
<1>1. /\ open # None /\ copy # None /\ Saves(<<>>, <<v, w>>, s)
      /\ copy' = copy /\ summary' = summary
  BY DEF ImportSession, Idle
<1>2. WholeIn(entries, open) /\ open \in Session
  BY <1>1, Basics
<1>3. HarmlessSave(entries, w, gone) /\ w.write = open /\ w.undo = open
  BY <1>1, <1>2, OpenSave DEF Write
<1>4. s \in Session /\ WholeIn(entries, s) /\ s.id = copy.id /\ s.auto = FALSE
  BY <1>1, CopyLoaded
<1> HIDE DEF s
<1>5. s.id \in gone /\ Stale \subseteq gone
  BY <1>4
<1>6. HarmlessSave(entries, v, gone) /\ v.write = s
  BY <1>2, <1>4, <1>5 DEF HarmlessSave, Write
<1> HIDE DEF w, v
<1>7. SessInv' /\ KeepsBut(gone)
  <2> HIDE DEF gone
  <2>1. Harmless(entries, <<v, w>>, s, gone)
    BY <1>3, <1>4, <1>5, <1>6, TwoSaves
  <2> QED
    BY <1>1, <1>5, <2>1, NothingNew, SavesKeepBut
<1>8. \A i \in Ids : i \in gone => Older(i) \/ copy.id = i
  BY DEF Stale
<1> QED
  BY <1>7, <1>8 DEF KeepsBut, KeepsSaid

\* The saves of a fork: the open session, or a part of the new one.
ForkWrites(n) ==
    {Write(open, open)} \cup {Write(Forked(i, auto), open) : i \in 1..n, auto \in BOOLEAN}

LEMMA ForkKeeps ==
    ASSUME SessInv, open # None, NEW e \in open.has \cup {0}, CanFork(Path(e)),
           NEW n, n = Len(Path(e)),
           NEW saves \in Seq(ForkWrites(n)), \E k \in 1..Len(saves) : saves[k] = Write(open, open),
           LastIs(saves, Forked(n, open.auto)),
           Saves(Chain(0, Contents(Path(e))), saves, Forked(n, open.auto)),
           copy' = copy, summary' = summary
    PROVE  SessInv' /\ KeepsSaid
<1> DEFINE c == Contents(Path(e))
           new == Chain(0, c)
           E == entries \o new
           s == Forked(n, open.auto)
<1>1. /\ open \in Session /\ WholeIn(entries, open) /\ entries \in Seq(Entry)
      /\ e \in 0..Len(entries) /\ open.auto \in BOOLEAN
  BY Basics DEF WholeIn, Session
<1>2. Path(e) \in Seq(1..Len(entries)) /\ Path(e) # <<>> /\ Unused # {}
  BY <1>1, PathOf DEF CanFork
<1>3. c \in Seq(Content) /\ Len(c) = n
  BY <1>1, <1>2, ContentsOf
<1>4. n \in Nat /\ n \in 1..n
  BY <1>2
<1> HIDE DEF c
<1>5. new \in Seq(Entry) /\ E \in Seq(Entry) /\ Rooted(E)
  BY <1>1, <1>3, Chained
<1>6. WholeIn(E, open)
  BY <1>1, <1>5, StillWhole
<1>7. NewId \in Ids /\ files[NewId] = None /\ open.id # NewId
  BY <1>2, UnusedId
<1>8. ASSUME NEW i \in 1..n, NEW auto \in BOOLEAN
      PROVE  LET f == Forked(i, auto)
             IN  f \in Session /\ WholeIn(E, f) /\ f.id = NewId /\ f.has = NewIds(i)
  BY <1>3, <1>7, ForkedWhole
<1>9. \A f \in Session : f.id = NewId => Keeps(f)
  BY <1>7 DEF Keeps
<1>10. /\ s \in Session /\ WholeIn(E, s) /\ s.id = NewId /\ s.has = NewIds(n)
  BY <1>1, <1>4, <1>8
<1>11. ASSUME NEW k \in 1..Len(saves)
       PROVE  /\ saves[k].undo = open
              /\ saves[k].write \in Session /\ WholeIn(E, saves[k].write)
              /\ \/ saves[k].write = open
                 \/ \E i \in 1..n : saves[k].write.id = NewId /\ saves[k].write.has = NewIds(i)
  <2>1. saves[k] \in ForkWrites(n)
    OBVIOUS
  <2>2. CASE saves[k] = Write(open, open)
    BY <1>1, <1>6, <2>2 DEF Write
  <2>3. ASSUME NEW i \in 1..n, NEW auto \in BOOLEAN, saves[k] = Write(Forked(i, auto), open)
        PROVE  /\ saves[k].undo = open
               /\ saves[k].write \in Session /\ WholeIn(E, saves[k].write)
               /\ saves[k].write.id = NewId /\ saves[k].write.has = NewIds(i)
    <3>1. saves[k].undo = open /\ saves[k].write = Forked(i, auto)
      BY <2>3 DEF Write
    <3> QED
      BY <1>8, <3>1
  <2> QED
    BY <2>1, <2>2, <2>3 DEF ForkWrites
<1>12. \A i \in 1..n : NewIds(i) \subseteq NewIds(n)
  BY <1>1, <1>4 DEF NewIds
<1> HIDE DEF E, s, new
<1>13. ASSUME NEW k \in 1..Len(saves)
       PROVE  HarmlessSave(E, saves[k], Stale) /\ HarmlessAfter(saves, k, Stale)
  <2>1. saves[k].write.id \notin Stale => Keeps(saves[k].write)
    BY <1>1, <1>9, <1>11, Basics
  <2>2. HarmlessSave(E, saves[k], Stale)
    BY <1>1, <1>6, <1>11, <2>1 DEF HarmlessSave
  <2>3. ASSUME NEW l \in 1..k - 1, saves[l].write.id = open.id PROVE saves[l].write = open
    <3>1. l \in 1..Len(saves)
      OBVIOUS
    <3> QED
      BY <1>7, <1>11, <2>3, <3>1
  <2>4. HarmlessAfter(saves, k, Stale)
    BY <1>11, <2>3 DEF HarmlessAfter
  <2> QED
    BY <2>2, <2>4
<1>14. HarmlessEnd(E, saves, s, Stale)
  <2>1. Keeps(s)
    BY <1>9, <1>10
  <2>2. \A k \in 1..Len(saves) : saves[k].write.id = s.id => saves[k].write.has \subseteq s.has
    BY <1>7, <1>10, <1>11, <1>12
  <2>3. \E k \in 1..Len(saves) : saves[k].write.id = open.id
    <3>1. Write(open, open).write = open
      BY DEF Write
    <3> QED
      BY <3>1
  <2>4. LastIs(saves, s)
    BY DEF s
  <2> QED
    BY <1>10, <2>1, <2>2, <2>3, <2>4 DEF HarmlessEnd
<1>15. DOMAIN saves = 1..Len(saves) /\ Len(saves) \in Nat
  OBVIOUS
<1>16. Harmless(E, saves, s, Stale)
  BY <1>13, <1>14, <1>15 DEF Harmless
<1> QED
  BY <1>1, <1>5, <1>16, SavesKeep DEF E, s, new, c

LEMMA ForkSavesAre ==
    ASSUME NEW n \in Nat, n > 0, open.auto \in BOOLEAN
    PROVE  /\ ForkSaves(n) \in Seq(ForkWrites(n))
           /\ <<Write(open, open)>> \in Seq(ForkWrites(n))
           /\ <<Write(Forked(n, open.auto), open)>> \in Seq(ForkWrites(n))
<1>1. ASSUME NEW i \in 1..n, NEW auto \in BOOLEAN
      PROVE  Write(Forked(i, auto), open) \in ForkWrites(n)
  BY DEF ForkWrites
<1>2. Write(open, open) \in ForkWrites(n)
  BY DEF ForkWrites
<1>3. ForkSaves(n) \in Seq(ForkWrites(n))
  <2> DEFINE f == [i \in 1..n |-> Write(Forked(i, TRUE), open)]
             S == ForkWrites(n)
  <2>1. \A i \in 1..n : Write(Forked(i, TRUE), open) \in S
    BY <1>1
  <2>2. f \in Seq(S)
    <3> DEFINE w(i) == Write(Forked(i, TRUE), open)
    <3>1. \A i \in 1..n : w(i) \in S
      BY <2>1
    <3> HIDE DEF S, w
    <3>2. [i \in 1..n |-> w(i)] \in Seq(S)
      BY <3>1
    <3> QED
      BY <3>2 DEF w
  <2> HIDE DEF S
  <2>3. <<>> \in Seq(S)
    OBVIOUS
  <2>4. ForkSaves(n) = IF open.auto THEN f ELSE <<>>
    BY DEF ForkSaves
  <2> HIDE DEF f
  <2> QED
    BY <2>2, <2>3, <2>4 DEF S
<1>4. Write(Forked(n, open.auto), open) \in ForkWrites(n)
  <2>1. n \in 1..n
    OBVIOUS
  <2> QED
    BY <1>1, <2>1
<1>5. \A w \in ForkWrites(n) : <<w>> \in Seq(ForkWrites(n))
  OBVIOUS
<1> QED
  BY <1>2, <1>3, <1>4, <1>5

LEMMA ForkTreeKeeps ==
    ASSUME SessInv, NEW e, ForkTree(e)
    PROVE  SessInv' /\ KeepsSaid
<1> DEFINE n == Len(Path(e))
           w == Write(open, open)
           s == Forked(n, open.auto)
           v == Write(s, open)
           f == ForkSaves(n)
           W == ForkWrites(n)
           g == <<w>> \o f
           saves == g \o <<v>>
<1>1. /\ open # None /\ e \in open.has /\ CanFork(Path(e))
      /\ Saves(Chain(0, Contents(Path(e))), saves, s)
      /\ copy' = copy /\ summary' = summary
  BY DEF ForkTree, Idle
<1>2. e \in 0..Len(entries) /\ open \in Session /\ open.auto \in BOOLEAN
  BY <1>1, Basics DEF WholeIn, Session
<1>3. Path(e) \in Seq(1..Len(entries)) /\ Path(e) # <<>>
  BY <1>1, <1>2, PathOf DEF CanFork
<1>4. n \in Nat /\ n > 0
  BY <1>3
<1>5. f \in Seq(W) /\ <<w>> \in Seq(W) /\ <<v>> \in Seq(W)
  BY <1>2, <1>4, ForkSavesAre
<1>6. v.write = s
  BY DEF Write
<1> HIDE DEF n, w, s, v, f, W, g, saves
<1>7. /\ g \in Seq(W) /\ 1 \in 1..Len(g) /\ g[1] = w
  <2>1. Len(<<w>>) = 1 /\ <<w>>[1] = w
    OBVIOUS
  <2>2. /\ <<w>> \o f \in Seq(W) /\ Len(<<w>> \o f) = Len(<<w>>) + Len(f)
        /\ \A i \in 1..Len(<<w>>) : (<<w>> \o f)[i] = <<w>>[i]
    BY ONLY <1>5, Joined
  <2>3. Len(f) \in Nat
    BY <1>5
  <2> QED
    BY <2>1, <2>2, <2>3 DEF g
<1>8. /\ saves \in Seq(W) /\ 1 \in 1..Len(saves) /\ saves[1] = w
      /\ Len(saves) \in 1..Len(saves) /\ saves[Len(saves)] = v
  <2>1. Len(<<v>>) = 1 /\ <<v>>[1] = v
    OBVIOUS
  <2>2. /\ g \o <<v>> \in Seq(W) /\ Len(g \o <<v>>) = Len(g) + Len(<<v>>)
        /\ \A i \in 1..Len(g) : (g \o <<v>>)[i] = g[i]
        /\ \A i \in 1..Len(<<v>>) : (g \o <<v>>)[Len(g) + i] = <<v>>[i]
    BY ONLY <1>5, <1>7, Joined
  <2>3. Len(g) \in Nat
    BY <1>7
  <2> QED
    BY <1>7, <2>1, <2>2, <2>3 DEF saves
<1>9. LastIs(saves, s)
  <2>1. Len(saves) + 1..Len(saves) = {}
    BY <1>8
  <2> QED
    BY <1>6, <1>8, <2>1 DEF LastIs
<1> QED
  BY <1>1, <1>8, <1>9, ForkKeeps DEF n, w, s, W

LEMMA CloneSessionKeeps ==
    ASSUME SessInv, CloneSession
    PROVE  SessInv' /\ KeepsSaid
<1> DEFINE e == open.tip
           n == Len(Path(e))
           w == Write(open, open)
           s == Forked(n, open.auto)
           v == Write(s, open)
           f == ForkSaves(n)
           W == ForkWrites(n)
           saves == f \o <<v, w>>
<1>1. /\ open # None /\ CanFork(Path(e))
      /\ Saves(Chain(0, Contents(Path(e))), saves, s)
      /\ copy' = copy /\ summary' = summary
  BY DEF CloneSession, Idle
<1>2. /\ e \in open.has \cup {0} /\ e \in 0..Len(entries)
      /\ open \in Session /\ open.auto \in BOOLEAN
  BY <1>1, Basics DEF WholeIn, Session
<1>3. Path(e) \in Seq(1..Len(entries)) /\ Path(e) # <<>> /\ Unused # {}
  BY <1>1, <1>2, PathOf DEF CanFork
<1>4. n \in Nat /\ n > 0
  BY <1>3
<1>5. f \in Seq(W) /\ <<w>> \in Seq(W) /\ <<v>> \in Seq(W)
  BY <1>2, <1>4, ForkSavesAre
<1>6. /\ v.write = s /\ w.write = open /\ s.id = NewId /\ open.id # NewId
  BY <1>1, <1>3, UnusedId DEF Write, Forked
<1> HIDE DEF n, w, s, v, f, W, saves
<1>7. /\ <<v, w>> \in Seq(W) /\ Len(<<v, w>>) = 2
      /\ <<v, w>>[1] = v /\ <<v, w>>[2] = w
  <2>1. <<v>> \o <<w>> \in Seq(W)
    BY <1>5
  <2> QED
    BY <2>1, Pair
<1>8. /\ saves \in Seq(W) /\ Len(f) \in Nat /\ Len(saves) = Len(f) + 2
      /\ saves[Len(f) + 1] = v /\ saves[Len(f) + 2] = w
  <2> DEFINE p == <<v, w>>
  <2>1. p \in Seq(W) /\ Len(p) = 2 /\ p[1] = v /\ p[2] = w
    BY <1>7
  <2> HIDE DEF p
  <2>2. /\ f \o p \in Seq(W) /\ Len(f \o p) = Len(f) + Len(p)
        /\ \A i \in 1..Len(p) : (f \o p)[Len(f) + i] = p[i]
    <3>1. f \in Seq(W) /\ p \in Seq(W)
      BY <1>5, <2>1
    <3> QED
      BY ONLY <3>1, Joined
  <2>3. Len(f) \in Nat
    BY <1>5
  <2> QED
    BY <2>1, <2>2, <2>3 DEF saves, p
<1>9. Len(f) + 1 \in 1..Len(saves) /\ Len(f) + 2 \in 1..Len(saves)
  BY <1>8
<1>10. LastIs(saves, s)
  <2>1. \A l \in (Len(f) + 1) + 1..Len(saves) : l = Len(f) + 2
    BY <1>8
  <2>2. \A l \in (Len(f) + 1) + 1..Len(saves) : saves[l].write.id # s.id
    BY <1>6, <1>8, <2>1
  <2>3. saves[Len(f) + 1].write = s
    BY <1>6, <1>8
  <2> QED
    BY <1>9, <2>2, <2>3 DEF LastIs
<1> QED
  BY <1>1, <1>2, <1>8, <1>9, <1>10, ForkKeeps DEF n, w, s, W

-----------------------------------------------------------------------------
(* The process.                                                            *)

\* Nothing is saved, and what is open is known to be whole.
LEMMA FilesStay ==
    ASSUME SessInv, files' = files, copy' = copy, lag' \in BOOLEAN,
           summary' # None => summary'.path \in Seq(Nat) /\ Len(summary'.path) > Long,
           Rooted(entries'), NEW n \in 0..Len(entries), n <= Len(entries'),
           \A e \in 1..n : entries'[e] = entries[e],
           \A i \in Ids : files[i] # None => files[i].has \subseteq 1..n,
           copy # None => copy.has \subseteq 1..n,
           open' # None =>
             /\ open' \in Session /\ WholeIn(entries', open')
             /\ files[open'.id] # None => files[open'.id].has \subseteq open'.has
             /\ open'.auto => open'.has = {}
    PROVE  SessInv' /\ ((open # None => open' = None) => KeepsSaid)
<1>1. Types'
  BY DEF SessInv, Types, Rooted
<1>2. ASSUME NEW f, WholeIn(entries, f), f.has \subseteq 1..n PROVE WholeIn(entries', f)
  <2>2. Len(entries') \in Nat /\ n \in Nat
    BY Basics DEF Rooted
  <2>3. 1..n \subseteq 1..Len(entries')
    BY <2>2
  <2> QED
    BY <1>2, <2>3 DEF WholeIn
<1>3. TreesWhole'
  <2>1. DOMAIN entries' = 1..Len(entries')
    BY DEF Rooted
  <2>2. \A s : Whole(s)' <=> WholeIn(entries', s)
    BY DEF Whole, WholeIn
  <2>3. \A s \in Trees' : s # None /\ (s \in {open', copy} \/ \E i \in Ids : s = files[i])
    BY DEF Trees
  <2>4. \A s \in Trees' : Whole(s)'
    BY <1>2, <2>2, <2>3, Basics
  <2> QED
    BY <2>1, <2>4 DEF TreesWhole, Rooted
<1>4. AutoSaved'
  BY DEF AutoSaved
<1>5. \A i \in Ids : ~ Older(i)'
  BY DEF Older
<1>6. ASSUME open # None => open' = None PROVE KeepsSaid
  <2> SUFFICES ASSUME NEW i \in Ids
               PROVE  /\ Saved(i) \subseteq Saved(i)'
                      /\ open' # None => Known(i) \subseteq Known(i)'
    BY <1>5 DEF KeepsSaid
  <2>1. Saved(i)' = IF files[i] = None THEN {} ELSE UNION {entries'[e].says : e \in files[i].has}
    BY DEF Saved
  <2>2. Saved(i) = Saved(i)'
    <3>1. CASE files[i] = None
      BY <2>1, <3>1 DEF Saved
    <3>2. CASE files[i] # None
      <4>1. \A e \in files[i].has : entries'[e] = entries[e]
        BY <3>2
      <4> QED
        BY <2>1, <3>2, <4>1 DEF Saved
    <3> QED
      BY <3>1, <3>2
  <2>3. ASSUME open' # None PROVE Known(i) \subseteq Known(i)'
    <3>1. Known(i) = Saved(i)
      BY <1>6, <2>3 DEF Known
    <3>2. Saved(i)' \subseteq Known(i)'
      BY DEF Known
    <3> QED
      BY <2>2, <3>1, <3>2
  <2> QED
    BY <2>2, <2>3
<1> QED
  BY <1>1, <1>3, <1>4, <1>6 DEF SessInv

\* What is in no file goes with the process.
LEMMA GoneKeeps ==
    ASSUME SessInv, open' = None, lag' = FALSE, files' = files, copy' = copy,
           summary' = None,
           entries' = SubSeq(entries, 1, Max(InTrees' \cup {0}))
    PROVE  SessInv' /\ KeepsSaid
<1> DEFINE m == Len(entries)
           S == InTrees' \cup {0}
           n == Max(S)
<1>1. /\ entries \in Seq(Entry) /\ m \in Nat /\ Rooted(entries)
      /\ \A i \in Ids : files[i] # None => files[i].has \subseteq 1..m
      /\ copy # None => copy.has \subseteq 1..m
  BY Basics DEF WholeIn
<1>2. \A s \in Trees' : s # None /\ (s = copy \/ \E i \in Ids : s = files[i])
  BY DEF Trees
<1>3. /\ \A i \in Ids : files[i] # None => files[i] \in Trees'
      /\ copy # None => copy \in Trees'
  BY DEF Trees
<1>4. InTrees' = UNION {s.has : s \in Trees'}
  BY DEF InTrees
<1>5. S \in SUBSET (0..m) /\ 0 \in S
  <2>1. \A s \in Trees' : s.has \subseteq 1..m
    BY <1>1, <1>2
  <2>2. InTrees' \subseteq 1..m
    BY <1>4, <2>1
  <2> QED
    BY <1>1, <2>2
<1> HIDE DEF S
<1>6. n \in S /\ \A x \in S : x <= n
  BY <1>1, <1>5, Greatest
<1>7. n \in 0..m
  BY <1>5, <1>6
<1> HIDE DEF n
<1>8. /\ entries' \in Seq(Entry) /\ Len(entries') = n
      /\ \A e \in 1..n : entries'[e] = entries[e]
  <2>1. entries' = SubSeq(entries, 1, n)
    BY DEF n, S
  <2>2. n \in Nat /\ 1..n \subseteq 1..m /\ n - 1 + 1 = n /\ \A e \in 1..n : 1 + e - 1 = e
    BY <1>1, <1>7
  <2>3. ASSUME NEW E \in Seq(Entry), n <= Len(E)
        PROVE  /\ SubSeq(E, 1, n) \in Seq(Entry) /\ Len(SubSeq(E, 1, n)) = n
               /\ \A e \in 1..n : SubSeq(E, 1, n)[e] = E[e]
    BY <2>2, <2>3
  <2>4. n <= Len(entries)
    BY <1>1, <1>7
  <2> DEFINE sub == SubSeq(entries, 1, n)
  <2>5. /\ sub \in Seq(Entry) /\ Len(sub) = n
        /\ \A e \in 1..n : sub[e] = entries[e]
    BY ONLY <1>1, <2>3, <2>4
  <2>6. entries' = sub
    BY <2>1
  <2> HIDE DEF sub
  <2> QED
    BY <2>5, <2>6
<1>9. Rooted(entries')
  <2>1. 1..n \subseteq 1..m
    BY <1>1, <1>7
  <2> QED
    BY <1>1, <1>8, <2>1 DEF Rooted
<1>10. ASSUME NEW f \in Trees', f.has \subseteq 1..m PROVE f.has \subseteq 1..n
  <2>1. f.has \subseteq S
    BY <1>4 DEF S
  <2>2. \A e \in f.has : e \in Nat /\ 1 <= e /\ e <= n
    BY <1>1, <1>6, <1>10, <2>1
  <2> QED
    BY <1>7, <2>2
<1>11. n <= Len(entries')
  BY <1>7, <1>8
<1>12. /\ \A i \in Ids : files[i] # None => files[i].has \subseteq 1..n
       /\ copy # None => copy.has \subseteq 1..n
  BY <1>1, <1>3, <1>10
<1> QED
  BY <1>7, <1>8, <1>9, <1>11, <1>12, FilesStay

LEMMA ProcessKeeps ==
    ASSUME SessInv, Exit \/ Crash
    PROVE  SessInv' /\ KeepsSaid
<1>1. summary' = None
  BY DEF Exit, Crash, Idle
<1> QED
  BY <1>1, GoneKeeps DEF Exit, Crash

\* The entries stay, and so does what is open, or it is what is started.
LEMMA StartKeeps ==
    ASSUME SessInv, StartNew \/ \E i \in Ids : StartResume(i)
    PROVE  SessInv' /\ KeepsSaid
<1>1. /\ open = None /\ entries' = entries /\ files' = files
      /\ lag' = lag /\ summary' = summary /\ copy' = copy
  BY DEF StartNew, StartResume, Starts
<1>2. /\ Len(entries) \in Nat /\ Rooted(entries)
      /\ \A i \in Ids : files[i] # None => files[i].has \subseteq 1..Len(entries)
      /\ copy # None => copy.has \subseteq 1..Len(entries)
  BY Basics DEF WholeIn
<1>3. /\ open' \in Session /\ WholeIn(entries, open')
      /\ files[open'.id] # None => files[open'.id].has \subseteq open'.has
      /\ open'.auto => open'.has = {}
  <2>1. CASE StartNew
    <3>1. open' = Fresh(NewId) /\ NewId \in Ids /\ files[NewId] = None
      BY <2>1, UnusedId DEF StartNew, Starts
    <3> QED
      BY <3>1, FreshWhole
  <2>2. ASSUME NEW i \in Ids, StartResume(i)
        PROVE  /\ open' \in Session /\ WholeIn(entries, open')
               /\ open'.id = i /\ open'.has = files[i].has /\ open'.auto = FALSE
    <3>1. open' = Loaded(i, files[i]) /\ files[i] # None
      BY <2>2 DEF StartResume, Starts
    <3> QED
      BY <3>1, FileLoaded
  <2> QED
    BY <2>1, <2>2
<1>4. Len(entries) \in 0..Len(entries)
  BY <1>2
<1>5. lag \in BOOLEAN /\ (summary # None => summary.path \in Seq(Nat) /\ Len(summary.path) > Long)
  BY DEF SessInv, Types
<1> QED
  BY <1>1, <1>2, <1>3, <1>4, <1>5, FilesStay

LEMMA StartForkKeeps ==
    ASSUME SessInv, NEW i \in Ids, StartFork(i)
    PROVE  SessInv' /\ KeepsSaid
<1> DEFINE path == Path(files[i].tip)
           c == Contents(path)
           new == Chain(0, c)
           s == Forked(Len(path), FALSE)
<1>1. /\ open = None /\ files[i] # None /\ CanFork(path)
      /\ entries' = entries \o new /\ open' = s /\ files' = files
      /\ lag' = lag /\ summary' = summary /\ copy' = copy
  BY DEF StartFork, Starts
<1>2. /\ entries \in Seq(Entry) /\ Len(entries) \in Nat /\ files[i].tip \in 0..Len(entries)
      /\ \A k \in Ids : files[k] # None => files[k].has \subseteq 1..Len(entries)
      /\ copy # None => copy.has \subseteq 1..Len(entries)
  BY <1>1, Basics DEF WholeIn
<1>3. path \in Seq(1..Len(entries)) /\ path # <<>> /\ Unused # {}
  BY <1>1, <1>2, PathOf DEF CanFork
<1>4. c \in Seq(Content) /\ Len(c) = Len(path) /\ Len(path) \in 1..Len(path)
  BY <1>2, <1>3, ContentsOf
<1> HIDE DEF c
<1>5. /\ Rooted(entries \o new) /\ Len(entries \o new) = Len(entries) + Len(c)
      /\ \A e \in 1..Len(entries) : (entries \o new)[e] = entries[e]
  <2>1. 0 \in 0..Len(entries)
    BY <1>2
  <2> QED
    BY ONLY SessInv, <1>4, <2>1, Chained
<1>6. NewId \in Ids /\ files[NewId] = None
  BY <1>3, UnusedId
<1>7. s \in Session /\ WholeIn(entries \o new, s) /\ s.id = NewId /\ s.auto = FALSE
  BY <1>4, <1>6, ForkedWhole
<1> HIDE DEF s, new, path
<1>8. Len(entries) \in 0..Len(entries) /\ Len(entries) <= Len(entries')
  BY <1>1, <1>2, <1>4, <1>5
<1>9. lag \in BOOLEAN /\ (summary # None => summary.path \in Seq(Nat) /\ Len(summary.path) > Long)
  BY DEF SessInv, Types
<1>10. /\ open' \in Session /\ WholeIn(entries', open')
       /\ files[open'.id] = None /\ ~ open'.auto
  BY <1>1, <1>6, <1>7
<1>11. Rooted(entries') /\ \A e \in 1..Len(entries) : entries'[e] = entries[e]
  BY <1>1, <1>5
<1> QED
  BY <1>1, <1>2, <1>8, <1>9, <1>10, <1>11, FilesStay

\* Of the session's state, only what is summarised changes, or the user copies a file.
LEMMA SummaryKeeps ==
    ASSUME SessInv, entries' = entries, files' = files, open' = open, lag' = lag,
           copy' # None => copy' \in Copy /\ WholeIn(entries, copy'),
           summary' # None => summary'.path \in Seq(Nat) /\ Len(summary'.path) > Long
    PROVE  SessInv' /\ KeepsSaid
<1>1. Types'
  BY DEF SessInv, Types
<1>2. TreesWhole'
  <2>1. \A s : Whole(s)' <=> WholeIn(entries, s)
    BY DEF Whole, WholeIn
  <2>2. \A s \in Trees' : s # None /\ (s \in {open, copy'} \/ \E i \in Ids : s = files[i])
    BY DEF Trees
  <2>3. \A s \in Trees' : Whole(s)'
    BY <2>1, <2>2, Basics
  <2> QED
    BY <2>3 DEF SessInv, TreesWhole
<1>3. AutoSaved' <=> AutoSaved
  BY DEF AutoSaved, Snapshot
<1>4. \A i : Saved(i)' = Saved(i) /\ Known(i)' = Known(i) /\ (Older(i)' <=> Older(i))
  BY DEF Saved, Known, Older
<1> QED
  BY <1>1, <1>2, <1>3, <1>4 DEF SessInv, KeepsSaid

LEMMA CopyFileKeeps ==
    ASSUME SessInv, NEW i \in Ids, CopyFile(i)
    PROVE  SessInv' /\ KeepsSaid
<1>1. /\ files[i] # None /\ UNCHANGED <<entries, files, open, lag, summary>>
      /\ copy' = [id |-> i, has |-> files[i].has, tip |-> files[i].tip]
  BY DEF CopyFile
<1>2. files[i] \in File /\ WholeIn(entries, files[i])
  BY <1>1, Basics
<1>3. copy' \in Copy /\ copy'.has = files[i].has /\ copy'.tip = files[i].tip
  BY <1>1, <1>2 DEF File, Copy
<1>4. WholeIn(entries, copy')
  BY <1>2, <1>3 DEF WholeIn
<1>5. summary # None => summary.path \in Seq(Nat) /\ Len(summary.path) > Long
  BY DEF SessInv, Types
<1> QED
  BY <1>1, <1>3, <1>4, <1>5, SummaryKeeps

LEMMA SummaryStepKeeps ==
    ASSUME SessInv, BeginSummary \/ SummaryDropped \/ UNCHANGED vars
    PROVE  SessInv' /\ KeepsSaid
<1>1. CASE BeginSummary
  <2> DEFINE path == Path(open.tip)
  <2>1. /\ open # None /\ Len(path) > Long /\ summary' = [id |-> open.id, path |-> path]
        /\ UNCHANGED <<entries, files, open, lag, copy>>
    BY <1>1 DEF BeginSummary, Idle
  <2>2. open.tip \in 0..Len(entries) /\ Len(entries) \in Nat
    BY <2>1, Basics DEF WholeIn
  <2>3. path \in Seq(1..Len(entries))
    BY <2>2, PathOf
  <2> HIDE DEF path
  <2>4. path \in Seq(Nat)
    BY <2>2, <2>3
  <2> QED
    BY <2>1, <2>4, Basics, SummaryKeeps
<1>2. CASE SummaryDropped
  <2>1. /\ entries' = entries /\ files' = files /\ open' = open /\ lag' = lag
        /\ copy' = copy /\ summary' = None
    BY <1>2 DEF SummaryDropped
  <2> QED
    BY <2>1, Basics, SummaryKeeps
<1>3. CASE UNCHANGED vars
  <2>1. summary # None => summary.path \in Seq(Nat) /\ Len(summary.path) > Long
    BY DEF SessInv, Types
  <2>2. /\ entries' = entries /\ files' = files /\ open' = open /\ lag' = lag
        /\ copy' = copy /\ summary' = summary
    BY <1>3 DEF vars
  <2> QED
    BY <2>1, <2>2, Basics, SummaryKeeps
<1> QED
  BY <1>1, <1>2, <1>3

LEMMA CompactionKeeps ==
    ASSUME SessInv, Summarised \/ \E k \in 0..Kept : OverflowRecovered(k)
    PROVE  SessInv' /\ KeepsSaid
<1>1. CASE Summarised
  <2>1. /\ open # None /\ summary' = None
        /\ \E c : Compacts(c, 0)
    BY <1>1, Summary
  <2>2. PICK c : Compacts(c, 0)
    BY <2>1
  <2>3. c \in Seq(Content) /\ Len(c) > 0 /\ Compact(c, 0)
    BY <2>2 DEF Compacts
  <2>4. 0 \in 0..1 /\ summary' \in {summary, None}
    BY <2>1
  <2> QED
    BY <2>1, <2>3, <2>4, CompactKeeps
<1>2. ASSUME NEW k \in 0..Kept, OverflowRecovered(k) PROVE SessInv' /\ KeepsSaid
  <2>1. open # None /\ summary' = summary /\ \E c : Compacts(c, 1)
    BY <1>2, Overflow
  <2>2. PICK c : Compacts(c, 1)
    BY <2>1
  <2>3. c \in Seq(Content) /\ Len(c) > 0 /\ Compact(c, 1)
    BY <2>2 DEF Compacts
  <2>4. 1 \in 0..1 /\ summary' \in {summary, None}
    BY <2>1
  <2> QED
    BY <2>1, <2>3, <2>4, CompactKeeps
<1> QED
  BY <1>1, <1>2

LEMMA StepKeeps ==
    ASSUME SessInv, [Next]_vars
    PROVE  SessInv' /\ KeepsSaid
<1>1. ASSUME NEW e \in 1..Len(entries), Move(e) \/ SwitchTree(e) \/ ForkTree(e)
      PROVE  SessInv' /\ KeepsSaid
  BY <1>1, MoveKeeps, SwitchTreeKeeps, ForkTreeKeeps
<1>2. ASSUME Summarised \/ \E k \in 0..Kept : OverflowRecovered(k)
      PROVE  SessInv' /\ KeepsSaid
  BY <1>2, CompactionKeeps
<1>3. ASSUME Say \/ Save \/ NewSession \/ CloneSession \/ ImportSession
      PROVE  SessInv' /\ KeepsSaid
  BY <1>3, SayKeeps, SaveKeeps, NewSessionKeeps, CloneSessionKeeps, ImportSessionKeeps
<1>4. ASSUME BeginSummary \/ SummaryDropped \/ UNCHANGED vars PROVE SessInv' /\ KeepsSaid
  BY <1>4, SummaryStepKeeps
<1>5. ASSUME StartNew \/ Exit \/ Crash PROVE SessInv' /\ KeepsSaid
  BY <1>5, StartKeeps, ProcessKeeps
<1>6. ASSUME NEW i \in Ids,
             ResumeSession(i) \/ StartResume(i) \/ StartFork(i) \/ CopyFile(i)
      PROVE  SessInv' /\ KeepsSaid
  BY <1>6, ResumeSessionKeeps, StartKeeps, StartForkKeeps, CopyFileKeeps
<1> QED
  BY <1>1, <1>2, <1>3, <1>4, <1>5, <1>6 DEF Next

LEMMA SessInitially == Init => SessInv
<1> SUFFICES ASSUME Init PROVE SessInv
  OBVIOUS
<1>1. \A i \in Ids : files[i] = None
  BY DEF Init
<1>2. CASE entries = <<>> /\ copy = None
  <2>1. /\ <<>> \in Seq(Entry) /\ Len(<<>>) = 0 /\ DOMAIN <<>> = 1..0 /\ 1..0 = {}
    OBVIOUS
  <2>2. Types
    BY <1>2, <2>1 DEF Init, Types
  <2>3. Trees = {}
    BY <1>1, <1>2 DEF Init, Trees
  <2>4. TreesWhole
    BY <1>2, <2>1, <2>3 DEF TreesWhole
  <2> QED
    BY <2>2, <2>4 DEF Init, SessInv, AutoSaved
<1>3. ASSUME entries = <<[parent |-> 0, says |-> {1}, tools |-> {1}]>>,
             copy = [id |-> 1, has |-> {1}, tip |-> 1]
      PROVE  SessInv
  <2> DEFINE E == <<[parent |-> 0, says |-> {1}, tools |-> {1}]>>
  <2>1. [parent |-> 0, says |-> {1}, tools |-> {1}] \in Entry
    BY DEF Entry
  <2>2. /\ E \in Seq(Entry) /\ Len(E) = 1 /\ DOMAIN E = 1..1
        /\ 1..1 = {1} /\ E[1].parent = 0 /\ 0 \in 0..1 - 1
    BY <2>1
  <2>3. entries = E
    BY <1>3
  <2> HIDE DEF E
  <2>4. copy \in Copy /\ copy.has = {1} /\ copy.tip = 1
    BY <1>3, SessionsAssumption DEF Copy, Ids
  <2>5. Types
    BY <2>2, <2>3, <2>4 DEF Init, Types
  <2>6. Trees \subseteq {copy}
    BY <1>1 DEF Init, Trees
  <2>7. Whole(copy)
    BY <2>2, <2>3, <2>4 DEF Whole
  <2>8. TreesWhole
    BY <2>2, <2>3, <2>6, <2>7 DEF TreesWhole
  <2> QED
    BY <2>5, <2>8 DEF Init, SessInv, AutoSaved
<1> QED
  BY <1>2, <1>3 DEF Init

-----------------------------------------------------------------------------
(* What a compaction keeps.                                                *)

\* Nothing is replaced where there are no new entries, or nothing of them is open.
LEMMA SameEntries ==
    ASSUME SessInv, SessInv', entries' = entries \/ open' = open
    PROVE  ~ Replaced
<1> SUFFICES ASSUME open # None, open' # None, NEW e \in open'.has, e > Len(entries)
             PROVE  FALSE
  BY DEF Replaced
<1>1. Len(entries) \in Nat /\ open.has \subseteq 1..Len(entries)
  BY Basics DEF WholeIn
<1>2. CASE open' = open
  BY <1>1, <1>2
<1>3. CASE entries' = entries
  <2>1. Types' /\ TreesWhole'
    BY DEF SessInv
  <2>2. open' \in Trees'
    BY DEF Trees
  <2>3. open'.has \subseteq 1..Len(entries')
    BY <2>1, <2>2 DEF TreesWhole, Whole
  <2> QED
    BY <1>1, <1>3, <2>3
<1> QED
  BY <1>2, <1>3

LEMMA Opened ==
    ASSUME NEW new, NEW saves, NEW done, Len(saves) \in Nat, Saves(new, saves, done)
    PROVE  open' = done \/ \E k \in 1..Len(saves) : open' = saves[k].undo
<1>1. PICK j \in 0..Len(saves) :
        IF j = Len(saves) THEN open' = done ELSE open' = saves[j + 1].undo
  BY DEF Saves
<1>2. j # Len(saves) => j + 1 \in 1..Len(saves)
  OBVIOUS
<1> QED
  BY <1>1, <1>2

LEMMA SavesOnly ==
    ASSUME SessInv, SessInv', NEW saves, NEW done, Saves(<<>>, saves, done)
    PROVE  ~ Replaced
<1>1. entries' = entries
  BY NothingNew DEF Saves
<1> QED
  BY <1>1, SameEntries

LEMMA ForksReplaceNothing ==
    ASSUME SessInv, SessInv', CloneSession \/ \E e \in 1..Len(entries) : ForkTree(e)
    PROVE  ~ Replaced
<1>1. ASSUME NEW n \in Nat, n > 0, open # None, Unused # {},
             NEW saves \in Seq(ForkWrites(n)), NEW new, Saves(new, saves, Forked(n, open.auto))
      PROVE  open' = open \/ open'.id # open.id
  <2>1. Len(saves) \in Nat /\ \A k \in 1..Len(saves) : saves[k] \in ForkWrites(n)
    OBVIOUS
  <2>2. \A w \in ForkWrites(n) : w.undo = open
    BY DEF ForkWrites, Write
  <2>3. open' = Forked(n, open.auto) \/ open' = open
    BY <1>1, <2>1, <2>2, Opened
  <2>4. Forked(n, open.auto).id # open.id
    BY <1>1, UnusedId DEF Forked
  <2> QED
    BY <2>3, <2>4
<1>2. ASSUME NEW e \in open.has \cup {0}, open # None, CanFork(Path(e))
      PROVE  /\ Len(Path(e)) \in Nat /\ Len(Path(e)) > 0 /\ Unused # {}
             /\ open.auto \in BOOLEAN
  <2>1. e \in 0..Len(entries) /\ open.auto \in BOOLEAN
    BY <1>2, Basics DEF WholeIn, Session
  <2>2. Path(e) \in Seq(1..Len(entries)) /\ Path(e) # <<>> /\ Unused # {}
    BY <1>2, <2>1, PathOf DEF CanFork
  <2> QED
    BY <2>1, <2>2
<1>3. open' = open \/ open'.id # open.id
  <2>1. CASE CloneSession
    <3> DEFINE n == Len(Path(open.tip))
               w == Write(open, open)
               v == Write(Forked(n, open.auto), open)
    <3>1. /\ open # None /\ CanFork(Path(open.tip))
          /\ Saves(Chain(0, Contents(Path(open.tip))), ForkSaves(n) \o <<v, w>>,
                   Forked(n, open.auto))
      BY <2>1 DEF CloneSession, Idle
    <3>2. open.tip \in open.has \cup {0}
      BY <3>1, Basics DEF WholeIn
    <3>3. n \in Nat /\ n > 0 /\ Unused # {} /\ open.auto \in BOOLEAN
      BY <1>2, <3>1, <3>2
    <3>4. /\ ForkSaves(n) \in Seq(ForkWrites(n)) /\ <<w>> \in Seq(ForkWrites(n))
          /\ <<v>> \in Seq(ForkWrites(n))
      BY <3>3, ForkSavesAre
    <3> HIDE DEF n, w, v
    <3>5. <<v, w>> \in Seq(ForkWrites(n))
      <4>1. <<v>> \o <<w>> \in Seq(ForkWrites(n))
        BY <3>4
      <4> QED
        BY <4>1, Pair
    <3>6. ForkSaves(n) \o <<v, w>> \in Seq(ForkWrites(n))
      BY <3>4, <3>5
    <3> QED
      BY <1>1, <3>1, <3>3, <3>6
  <2>2. ASSUME NEW e \in 1..Len(entries), ForkTree(e)
        PROVE  open' = open \/ open'.id # open.id
    <3> DEFINE n == Len(Path(e))
               w == Write(open, open)
               v == Write(Forked(n, open.auto), open)
    <3>1. /\ open # None /\ e \in open.has /\ CanFork(Path(e))
          /\ Saves(Chain(0, Contents(Path(e))), <<w>> \o ForkSaves(n) \o <<v>>,
                   Forked(n, open.auto))
      BY <2>2 DEF ForkTree, Idle
    <3>2. n \in Nat /\ n > 0 /\ Unused # {} /\ open.auto \in BOOLEAN
      BY <1>2, <3>1
    <3>3. /\ ForkSaves(n) \in Seq(ForkWrites(n)) /\ <<w>> \in Seq(ForkWrites(n))
          /\ <<v>> \in Seq(ForkWrites(n))
      BY <3>2, ForkSavesAre
    <3> HIDE DEF n, w, v
    <3>4. <<w>> \o ForkSaves(n) \in Seq(ForkWrites(n))
      BY <3>3
    <3>5. <<w>> \o ForkSaves(n) \o <<v>> \in Seq(ForkWrites(n))
      BY <3>3, <3>4
    <3> QED
      BY <1>1, <3>1, <3>2, <3>5
  <2> QED
    BY <2>1, <2>2
<1> QED
  BY <1>3, SameEntries DEF Replaced

\* A message that is added has the tip for its parent.
LEMMA SayReplacesNothing ==
    ASSUME SessInv, SessInv', Say
    PROVE  ~ Replaced
<1> DEFINE c == <<[says |-> NewIds(1), tools |-> NewIds(1)]>>
           E == entries \o Chain(open.tip, c)
<1>1. open # None /\ (entries' = entries \/ entries' = E)
  BY DEF Say, Saves
<1>2. c \in Seq(Content) /\ Len(c) = 1
  <2>1. NewIds(1) \in SUBSET Nat
    BY Basics DEF NewIds
  <2>2. [says |-> NewIds(1), tools |-> NewIds(1)] \in Content
    BY <2>1 DEF Content
  <2> QED
    BY <2>2
<1>3. /\ open.tip \in 0..Len(entries) /\ Len(entries) \in Nat
      /\ open.has # {} => open.tip # 0
  BY <1>1, Basics DEF WholeIn
<1> HIDE DEF c
<1>4. /\ Len(E) = Len(entries) + 1
      /\ E[Len(entries) + 1].parent = open.tip
  <2>1. 1 \in 1..1 /\ (IF 1 = 1 THEN open.tip ELSE Len(entries) + 1 - 1) = open.tip
    OBVIOUS
  <2>2. LET F == entries \o Chain(open.tip, c)
        IN  /\ Len(F) = Len(entries) + Len(c)
            /\ \A i \in 1..Len(c) :
                 F[Len(entries) + i].parent = IF i = 1 THEN open.tip ELSE Len(entries) + i - 1
    BY ONLY SessInv, <1>2, <1>3, Chained
  <2> QED
    BY <1>2, <2>1, <2>2
<1> HIDE DEF E
<1> SUFFICES ASSUME Replaced PROVE FALSE
  OBVIOUS
<1>5. entries' = E
  BY <1>1, SameEntries
<1>6. PICK e \in open'.has : e > Len(entries) /\ entries'[e].parent = 0
  BY DEF Replaced
<1>7. open'.has \subseteq 1..Len(entries')
  <2>1. TreesWhole' /\ open' \in Trees'
    BY DEF SessInv, Replaced, Trees
  <2> QED
    BY <2>1 DEF TreesWhole, Whole
<1>8. e = Len(entries) + 1
  BY <1>3, <1>4, <1>5, <1>6, <1>7
<1> QED
  BY <1>3, <1>4, <1>5, <1>6, <1>8 DEF Replaced

LEMMA PathAfter == Path(open.tip)' = PathIn(entries', open'.tip)
  BY DEF Path, PathIn, IsPath, Route

\* The branch after a compaction is the new one.
LEMMA NewBranch ==
    ASSUME SessInv, open # None, NEW receipts \in 0..1, NEW c, Compacts(c, receipts), Replaced
    PROVE  LET p == Path(open.tip)'
           IN  /\ Len(p) = Len(c) /\ Len(c) \in Nat /\ DOMAIN p = 1..Len(c)
               /\ \A i \in 1..Len(c) : entries'[p[i]].says = c[i].says
               /\ ToolsAll(Path(open.tip))' = ToolsAll(Path(open.tip))
<1> DEFINE m == Len(entries)
           n == Len(c)
           s == Grown(open, n)
           d == Inherits(c)
           E == entries \o Chain(0, d)
           first == <<Write(s, open)>>
           more == [i \in 1..receipts |-> Write(s, s)]
           saves == IF s.auto THEN first \o more ELSE <<>>
           p == Path(open.tip)'
           T == ToolsAll(Path(open.tip))
<1>1. /\ c \in Seq(Content) /\ n > 0 /\ n \in Nat /\ Saves(Chain(0, d), saves, s)
      /\ \A i \in 1..n : c[i].tools \subseteq T
  BY DEF Compacts, Compact, Compacted, Undone, Inherits
<1>2. /\ entries \in Seq(Entry) /\ m \in Nat /\ open \in Session
      /\ WholeIn(entries, open)
  BY Basics
<1>3. /\ d \in Seq(Content) /\ Len(d) = n
      /\ \A i \in 1..n : /\ d[i].says = c[i].says
                         /\ d[i].tools = IF i = 1 THEN c[i].tools \cup T ELSE c[i].tools
  BY <1>1, Inherited
<1> HIDE DEF d, T
<1>4. /\ Rooted(E) /\ Len(E) = m + n
      /\ \A i \in 1..n : /\ E[m + i].parent = IF i = 1 THEN 0 ELSE m + i - 1
                         /\ E[m + i].says = d[i].says
                         /\ E[m + i].tools = d[i].tools
  <2>1. LET F == entries \o Chain(0, d)
        IN  /\ Rooted(F) /\ Len(F) = m + Len(d)
            /\ \A i \in 1..Len(d) : /\ F[m + i].parent = IF i = 1 THEN 0 ELSE m + i - 1
                                    /\ F[m + i].says = d[i].says
                                    /\ F[m + i].tools = d[i].tools
    <3>1. d \in Seq(Content) /\ 0 \in 0..m
      BY <1>2, <1>3
    <3> QED
      BY ONLY SessInv, <3>1, Chained
  <2> QED
    BY <1>3, <2>1
<1>5. s.tip = m + n
  BY <1>2 DEF Grown
<1>6. open' # open /\ entries' = E
  <2>1. ASSUME open' = open PROVE FALSE
    <3>1. \A e \in open.has : ~ (e > m)
      BY <1>2 DEF WholeIn
    <3> QED
      BY <2>1, <3>1 DEF Replaced
  <2> QED
    BY <1>1, <2>1 DEF Saves
<1>7. open' = s
  <2> HIDE DEF s
  <2>1. first \in Seq({Write(s, open), Write(s, s)})
    OBVIOUS
  <2>2. more \in Seq({Write(s, open), Write(s, s)})
    OBVIOUS
  <2>3. saves \in Seq({Write(s, open), Write(s, s)})
    <3> HIDE DEF first, more
    <3> QED
      BY <2>1, <2>2
  <2> HIDE DEF saves
  <2>4. /\ Len(saves) \in Nat
        /\ \A k \in 1..Len(saves) : saves[k] \in {Write(s, open), Write(s, s)}
    BY <2>3
  <2>5. Write(s, open).undo = open /\ Write(s, s).undo = s
    BY DEF Write
  <2> QED
    BY <1>1, <1>6, <2>4, <2>5, Opened
<1> HIDE DEF E, s
<1>8. p = [i \in 1..n |-> m + i]
  <2>1. E[m + 1].parent = 0 /\ \A i \in 2..n : E[m + i].parent = m + i - 1
    BY <1>1, <1>2, <1>4
  <2>2. m + n <= Len(E)
    BY <1>1, <1>2, <1>4
  <2> HIDE DEF m, n
  <2>3. PathIn(E, m + n) = [i \in 1..n |-> m + i]
    <3>1. m \in Nat /\ n \in Nat /\ n > 0 /\ Rooted(E)
      BY <1>1, <1>2, <1>4 DEF m
    <3> QED
      BY ONLY <2>1, <2>2, <3>1, NewPath
  <2> QED
    BY <1>5, <1>6, <1>7, <2>3, PathAfter
<1>9. Len(p) = n /\ DOMAIN p = 1..n /\ \A i \in 1..n : p[i] = m + i
  <2> HIDE DEF p
  <2> QED
    BY <1>1, <1>2, <1>8
<1>10. \A i \in 1..n : entries'[p[i]].says = c[i].says /\ entries'[p[i]].tools = d[i].tools
  BY <1>3, <1>4, <1>6, <1>9
<1>11. ToolsAll(Path(open.tip))' = T
  <2>1. ToolsAll(Path(open.tip))' = UNION {entries'[e].tools : e \in ToSet(p)}
    BY DEF ToolsAll
  <2> HIDE DEF p
  <2>2. ToSet(p) = {p[i] : i \in 1..n}
    BY <1>9 DEF ToSet
  <2>3. UNION {entries'[e].tools : e \in ToSet(p)} = UNION {d[i].tools : i \in 1..n}
    <3>1. \A e \in ToSet(p) : \E i \in 1..n : e = p[i]
      BY <2>2
    <3>2. \A i \in 1..n : p[i] \in ToSet(p)
      BY <2>2
    <3> QED
      BY <1>10, <3>1, <3>2
  <2>4. UNION {d[i].tools : i \in 1..n} = T
    <3>1. ASSUME NEW i \in 1..n PROVE d[i].tools \subseteq T
      <4>1. c[i].tools \subseteq T
        BY <1>1
      <4>2. d[i].tools = c[i].tools \cup T \/ d[i].tools = c[i].tools
        BY <1>3
      <4> QED
        BY <4>1, <4>2
    <3>2. 1 \in 1..n
      BY <1>1
    <3>3. d[1].tools = c[1].tools \cup T
      BY <1>3, <3>2
    <3> QED
      BY <3>1, <3>2, <3>3
  <2> QED
    BY <2>1, <2>3, <2>4
<1> QED
  BY <1>1, <1>9, <1>10, <1>11 DEF T

BranchKept ==
    Replaced =>
        /\ ToolsAll(Path(open.tip)) = ToolsAll(Path(open.tip))'
        /\ summary # None =>
             /\ SaysAll(Path(open.tip)) = SaysAll(Path(open.tip))'
             /\ LastSays(Path(open.tip)) = LastSays(Path(open.tip))'

LEMMA OverflowKeepsBranch ==
    ASSUME SessInv, NEW k \in 0..Kept, OverflowRecovered(k)
    PROVE  BranchKept
<1>1. open # None /\ summary = None /\ \E c : Compacts(c, 1)
  BY Overflow
<1>2. PICK c : Compacts(c, 1)
  BY <1>1
<1>3. 1 \in 0..1
  OBVIOUS
<1> QED
  BY <1>1, <1>2, <1>3, NewBranch DEF BranchKept

LEMMA SummaryKeepsBranch ==
    ASSUME SessInv, Summarised
    PROVE  BranchKept
<1> SUFFICES ASSUME Replaced
             PROVE  /\ ToolsAll(Path(open.tip)) = ToolsAll(Path(open.tip))'
                    /\ SaysAll(Path(open.tip)) = SaysAll(Path(open.tip))'
                    /\ LastSays(Path(open.tip)) = LastSays(Path(open.tip))'
  BY DEF BranchKept
<1> DEFINE path == Path(open.tip)
           p == Path(open.tip)'
<1>1. /\ open # None /\ Recent \in 1..Len(path)
      /\ \E c : /\ Compacts(c, 0) /\ Len(c) = 1 + Recent
                /\ UNION {c[i].says : i \in 1..Len(c)} = SaysAll(path)
                /\ \A i \in 1..Recent : c[1 + i].says = LastSays(path)[i]
  BY Summary
<1>2. PICK c : /\ Compacts(c, 0) /\ Len(c) = 1 + Recent
               /\ UNION {c[i].says : i \in 1..Len(c)} = SaysAll(path)
               /\ \A i \in 1..Recent : c[1 + i].says = LastSays(path)[i]
  BY <1>1
<1>3. /\ Len(p) = Len(c) /\ Len(c) \in Nat /\ DOMAIN p = 1..Len(c)
      /\ \A i \in 1..Len(c) : entries'[p[i]].says = c[i].says
      /\ ToolsAll(Path(open.tip))' = ToolsAll(path)
  <2>1. 0 \in 0..1
    OBVIOUS
  <2> QED
    BY <1>1, <1>2, <2>1, NewBranch
<1>4. SaysAll(Path(open.tip))' = SaysAll(path)
  <2>1. SaysAll(Path(open.tip))' = UNION {entries'[e].says : e \in ToSet(p)}
    BY DEF SaysAll
  <2> HIDE DEF p
  <2>2. ToSet(p) = {p[i] : i \in 1..Len(c)}
    BY <1>3 DEF ToSet
  <2>3. UNION {entries'[e].says : e \in ToSet(p)} = UNION {c[i].says : i \in 1..Len(c)}
    <3>1. \A e \in ToSet(p) : \E i \in 1..Len(c) : e = p[i]
      BY <2>2
    <3>2. \A i \in 1..Len(c) : p[i] \in ToSet(p)
      BY <2>2
    <3> QED
      BY <1>3, <3>1, <3>2
  <2> QED
    BY <1>2, <2>1, <2>3
<1>5. LastSays(Path(open.tip))' = LastSays(path)
  <2>1. LastSays(Path(open.tip))' = [i \in 1..Recent |-> entries'[p[Len(p) - Recent + i]].says]
    BY DEF LastSays
  <2>2. LastSays(path) = [i \in 1..Recent |-> LastSays(path)[i]]
    BY DEF LastSays
  <2> HIDE DEF p, path
  <2>3. ASSUME NEW i \in 1..Recent
        PROVE  entries'[p[Len(p) - Recent + i]].says = LastSays(path)[i]
    <3>1. Recent \in Nat
      BY SessionsAssumption
    <3>2. Len(p) - Recent + i = 1 + i /\ 1 + i \in 1..Len(c)
      BY <1>2, <1>3, <3>1
    <3> QED
      BY <1>2, <1>3, <3>2
  <2> QED
    BY <2>1, <2>2, <2>3
<1> QED
  BY <1>3, <1>4, <1>5

LEMMA StepKeepsBranch ==
    ASSUME SessInv, [Next]_vars
    PROVE  BranchKept
<1>0. SessInv'
  BY StepKeeps
<1>1. ASSUME NEW e \in 1..Len(entries), Move(e) \/ SwitchTree(e) PROVE ~ Replaced
  BY <1>0, <1>1, SavesOnly DEF Move, SwitchTree
<1>2. ASSUME ImportSession \/ \E i \in Ids : ResumeSession(i) PROVE ~ Replaced
  BY <1>0, <1>2, SavesOnly DEF ResumeSession, ImportSession
<1>3. ASSUME Save \/ NewSession PROVE ~ Replaced
  BY <1>0, <1>3, SavesOnly DEF Save, NewSession
<1>4. ASSUME CloneSession \/ \E e \in 1..Len(entries) : ForkTree(e) PROVE ~ Replaced
  BY <1>0, <1>4, ForksReplaceNothing
<1>5. ASSUME Say PROVE ~ Replaced
  BY <1>0, <1>5, SayReplacesNothing
<1>6. ASSUME BeginSummary \/ SummaryDropped \/ UNCHANGED vars \/ \E i \in Ids : CopyFile(i)
      PROVE  ~ Replaced
  BY <1>0, <1>6, SameEntries DEF BeginSummary, SummaryDropped, CopyFile, vars
<1>7. ASSUME StartNew \/ Exit \/ Crash \/ \E i \in Ids : StartResume(i) \/ StartFork(i)
      PROVE  ~ Replaced
  BY <1>7 DEF Replaced, StartNew, Exit, Crash, StartResume, StartFork
<1>8. ASSUME Summarised \/ \E k \in 0..Kept : OverflowRecovered(k) PROVE BranchKept
  BY <1>8, SummaryKeepsBranch, OverflowKeepsBranch
<1>9. ~ Replaced => BranchKept
  BY DEF BranchKept
<1> QED
  BY <1>1, <1>2, <1>3, <1>4, <1>5, <1>6, <1>7, <1>8, <1>9 DEF Next

-----------------------------------------------------------------------------
(* What is promised of sessions.                                           *)

\* What is open or in a file is a whole tree, and what saves itself is saved,
\* whatever the process does and wherever a save fails or the process ends.
THEOREM SessionsInvariant == Spec => []SessInv
<1>1. SessInv /\ [Next]_vars => SessInv'
  BY StepKeeps
<1> QED
  BY <1>1, SessInitially, PTL DEF Spec

\* The trees of session.py are whole after every operation.
THEOREM TreesAreWhole == Spec => []TreesWhole
<1>1. SessInv => TreesWhole
  BY DEF SessInv
<1> QED
  BY <1>1, SessionsInvariant, PTL

\* The file of a session that saves itself is the session.
THEOREM SavedByItself == Spec => []AutoSaved
<1>1. SessInv => AutoSaved
  BY DEF SessInv
<1> QED
  BY <1>1, SessionsInvariant, PTL

\* No step loses what was said and saved, or said in the open session, but an import
\* put over the session's file, and a save of a session that is older than its
\* file; and a session comes to be older only by an import, or by being resumed
\* while it is open.
THEOREM NothingSaidIsLost == Spec => NothingIsLost
<1>1. SessInv /\ [Next]_vars =>
        [\A i \in Ids :
           \/ /\ Saved(i) \subseteq Saved(i)'
              /\ open' # None => Known(i) \subseteq Known(i)'
              /\ Older(i)' => open # None /\ open.id = i /\ ResumeSession(i)
           \/ Older(i)
           \/ ImportSession /\ copy.id = i]_vars
  BY StepKeeps DEF KeepsSaid
<1> QED
  BY <1>1, SessionsInvariant, PTL DEF Spec, NothingIsLost

\* A compaction forgets no tool, and a semantic one forgets nothing that was
\* said on the branch and leaves its last messages as they were.
THEOREM CompactedBranchSaysTheSame == Spec => CompactionKeepsBranch
<1>1. SessInv /\ [Next]_vars =>
        [Replaced =>
           /\ ToolsAll(Path(open.tip)) = ToolsAll(Path(open.tip))'
           /\ summary # None =>
                /\ SaysAll(Path(open.tip)) = SaysAll(Path(open.tip))'
                /\ LastSays(Path(open.tip)) = LastSays(Path(open.tip))']_vars
  BY StepKeepsBranch DEF BranchKept
<1> QED
  BY <1>1, SessionsInvariant, PTL DEF Spec, CompactionKeepsBranch

-----------------------------------------------------------------------------
(* The lease of turns and transitions (TurnLifecycle), for any number of   *)
(* actors, leases and nested transitions.                                  *)

\* What the proofs need of the types.
LeaseTypes ==
    /\ kind \in {"none", "turn", "transition"}
    /\ generation \in Nat /\ depth \in Nat
    /\ pc \in [Actors -> Place]
    /\ tokens \in [Actors -> SUBSET Nat]
    /\ token \in [Actors -> Nat]
    /\ blocks \in [Actors -> Nat]
    /\ opened \in [Actors -> Nat]
    /\ asking \in [Actors -> Ask]
    /\ captured \in [Actors -> Nat]
    /\ wrote \in [Actors -> Sessions] /\ session \in Sessions

\* The fields of the lease say who is in a turn, with which token, and who is
\* in how many transition blocks.
Held ==
    /\ kind # "none" => owner \in Actors
    /\ kind = "transition" => depth > 0
    /\ \A a \in Actors :
         /\ pc[a] \in InTurn <=> kind = "turn" /\ owner = a
         /\ pc[a] \in InTurn => token[a] = generation
         /\ blocks[a] = IF kind = "transition" /\ owner = a THEN depth ELSE 0
         /\ blocks[a] > 0 => opened[a] = generation

\* Nothing older than the active turn is taken for it.
Past ==
    /\ \A a \in Actors : \A g \in tokens[a] : g <= generation
    /\ \A a \in Actors : token[a] <= generation
    /\ \A g \in completed : g \in Nat /\ g <= generation
    /\ \A a \in Actors : pc[a] = "ended" /\ token[a] = generation => kind # "turn"
    /\ kind = "turn" => generation \notin completed

Asked ==
    /\ \A a \in Actors : asking[a] \in {"set", "wait"} => captured[a] \in asked
    /\ cancelled \subseteq asked

LeaseInv == LeaseTypes /\ Held /\ Past /\ Asked /\ TurnStaysInSession

LEMMA InitLease == TurnInit => LeaseInv
  BY DEF TurnInit, LeaseInv, LeaseTypes, Held, Past, Asked, TurnStaysInSession,
         Place, InTurn, Ask

LEMMA StepLease ==
    ASSUME LeaseInv, [TurnNext]_turn
    PROVE  LeaseInv'
<1> USE DEF LeaseInv, LeaseTypes, Held, Past, Asked, TurnStaysInSession,
            Place, InTurn, Ask, Acts, lease, events, actor, asks, talk
<1>1. ASSUME NEW a \in Actors, Begin(a) PROVE LeaseInv'
  <2>1. /\ kind = "none" /\ generation' = generation + 1
        /\ kind' = "turn" /\ owner' = a /\ depth' = depth
        /\ pc' = [pc EXCEPT ![a] = "begun"] /\ pc[a] = "free"
        /\ tokens' = [tokens EXCEPT ![a] = @ \cup {generation'}]
        /\ token' = [token EXCEPT ![a] = generation']
        /\ UNCHANGED <<cancelled, completed, blocks, opened, asks, talk>>
    BY <1>1 DEF Begin, LeaseIsFree
  <2>2. LeaseTypes' /\ Asked' /\ TurnStaysInSession'
    BY <2>1
  <2>3. Held'
    BY <2>1
  <2>4. Past'
    <3>1. \A n \in Nat : n <= generation => n <= generation' /\ n # generation'
      BY <2>1
    <3>2. \A b \in Actors : \A g \in tokens'[b] : g <= generation'
      BY <2>1, <3>1
    <3>3. \A b \in Actors : token'[b] <= generation'
      BY <2>1, <3>1
    <3>4. \A b \in Actors : pc'[b] = "ended" => token'[b] # generation'
      BY <2>1, <3>1
    <3>5. \A g \in completed : g <= generation' /\ g # generation'
      BY <2>1, <3>1
    <3> QED
      BY <2>1, <3>2, <3>3, <3>4, <3>5
  <2> QED
    BY <2>2, <2>3, <2>4
<1>2. ASSUME NEW a \in Actors, AddUserMessage(a) PROVE LeaseInv'
  BY <1>2 DEF AddUserMessage
<1>3. ASSUME NEW a \in Actors, Finish(a) PROVE LeaseInv'
  BY <1>3 DEF Finish
<1>4. ASSUME NEW a \in Actors, EndTurn(a) PROVE LeaseInv'
  BY <1>4 DEF EndTurn, Release, SameTurn
<1>5. ASSUME NEW a \in Actors, Complete(a) PROVE LeaseInv'
  BY <1>5 DEF Complete
<1>6. ASSUME NEW a \in Actors, NEW g \in 1..MaxGeneration, EndAgain(a, g) PROVE LeaseInv'
  BY <1>6 DEF EndAgain, Release, SameTurn
<1>7. ASSUME NEW a \in Actors, OpenTransition(a) PROVE LeaseInv'
  <2>1. /\ kind = "none" /\ generation' = generation + 1
        /\ kind' = "transition" /\ owner' = a /\ depth' = 1
        /\ blocks' = [blocks EXCEPT ![a] = @ + 1]
        /\ opened' = [opened EXCEPT ![a] = generation']
        /\ UNCHANGED <<events, pc, tokens, token, asks, talk>>
    BY <1>7 DEF OpenTransition, LeaseIsFree
  <2>2. LeaseTypes' /\ Asked' /\ TurnStaysInSession'
    BY <2>1
  <2>3. Held'
    BY <2>1
  <2>4. Past'
    BY <2>1
  <2> QED
    BY <2>2, <2>3, <2>4
<1>8. ASSUME NEW a \in Actors, Reenter(a) PROVE LeaseInv'
  BY <1>8 DEF Reenter
<1>9. ASSUME NEW a \in Actors,
             RefuseTransition(a) \/ RequestCancel(a) \/ CancelAndWait(a)
      PROVE  LeaseInv'
  BY <1>9 DEF RefuseTransition, RequestCancel, CancelAndWait, Capture
<1>10. ASSUME NEW a \in Actors, CloseTransition(a) PROVE LeaseInv'
  BY <1>10 DEF CloseTransition, LastToLeave
<1>11. ASSUME NEW a \in Actors, NEW s \in Sessions, SwitchSession(a, s) PROVE LeaseInv'
  BY <1>11 DEF SwitchSession
<1>12. ASSUME NEW a \in Actors, SetCancel(a) PROVE LeaseInv'
  BY <1>12 DEF SetCancel, EventsOf, Target
<1>13. ASSUME NEW a \in Actors, Wake(a) PROVE LeaseInv'
  BY <1>13 DEF Wake
<1>14. CASE UNCHANGED turn
  BY <1>14 DEF turn
<1> QED
  BY <1>1, <1>2, <1>3, <1>4, <1>5, <1>6, <1>7, <1>8, <1>9, <1>10, <1>11, <1>12, <1>13,
     <1>14 DEF TurnNext

\* The fields of the lease always describe the turn or the transition that
\* holds it.
THEOREM LeaseInvariant == TurnSpec => []LeaseInv
<1>1. LeaseInv /\ [TurnNext]_turn => LeaseInv'
  BY StepLease
<1> QED
  BY InitLease, <1>1, PTL DEF TurnSpec

\* Turns and transitions exclude each other.
THEOREM Exclusion == TurnSpec => []OneHolder
<1>1. LeaseInv => OneHolder
  BY DEF LeaseInv, LeaseTypes, Held, OneHolder, Holds
<1> QED
  BY <1>1, LeaseInvariant, PTL

\* A turn does not split across sessions.
THEOREM OneSessionPerTurn == TurnSpec => []TurnStaysInSession
<1>1. LeaseInv => TurnStaysInSession
  BY DEF LeaseInv
<1> QED
  BY <1>1, LeaseInvariant, PTL

\* A cancellation never hits a turn nobody asked to cancel.
THEOREM CancellationIsAimed == TurnSpec => []OnlyAskedAreCancelled
<1>1. LeaseInv => OnlyAskedAreCancelled
  BY DEF LeaseInv, Asked, OnlyAskedAreCancelled
<1> QED
  BY <1>1, LeaseInvariant, PTL

\* cancel_and_wait returns only after the end of the captured turn.
THEOREM WaitingIsSafe == TurnSpec => WaitersSeeTheEnd
<1> DEFINE Seen == \A a, b \in Actors :
                      asking[a] = "waiting" /\ asking'[a] = "no" =>
                          ~ (pc[b] \in InTurn /\ token[b] = captured[a])
<1>1. ASSUME LeaseInv, [TurnNext]_turn PROVE [Seen]_turn
  <2> SUFFICES ASSUME TurnNext, NEW a \in Actors, NEW b \in Actors,
                      asking[a] = "waiting", asking'[a] = "no"
               PROVE  ~ (pc[b] \in InTurn /\ token[b] = captured[a])
    BY <1>1 DEF turn
  <2>1. Wake(a)
    BY <1>1, SMTT(20) DEF LeaseInv, LeaseTypes, TurnNext, Ask, Acts,
        Begin, AddUserMessage, Finish, EndTurn, Complete, EndAgain,
        OpenTransition, Reenter, RefuseTransition, CloseTransition,
        SwitchSession, RequestCancel, CancelAndWait, Capture,
        SetCancel, Wake,
        lease, events, actor, asks, talk
  <2>2. captured[a] \in completed
    BY <2>1 DEF Wake, Awaited
  <2> QED
    BY <1>1, <2>2 DEF LeaseInv, Held, Past
<1> QED
  BY <1>1, LeaseInvariant, PTL DEF TurnSpec, WaitersSeeTheEnd
=============================================================================
