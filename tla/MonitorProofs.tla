---------------------------- MODULE MonitorProofs -----------------------------
(***************************************************************************)
(* Proofs about src/bin/hpav_stats.py, for every number of adapters, links *)
(* and answers: what stands in a line, and that no answer is missing.      *)
(***************************************************************************)
EXTENDS Monitor, FiniteSetTheorems, WellFoundedInduction, TLAPS

-----------------------------------------------------------------------------
(* The operators of the model *)

\* A non-empty set of indices has a last one.
LEMMA LastIndex ==
  ASSUME NEW n \in Nat, NEW J \in SUBSET (1..n), J # {}
  PROVE  Max(J) \in J /\ \A j \in J : Max(J) >= j
<1> DEFINE T == {n - j : j \in J}
           R == OpToRel(<, Nat)
<1>1. T \subseteq Nat /\ T # {}
  <2>1. PICK j \in J : TRUE
    OBVIOUS
  <2>2. n - j \in T
    BY <2>1
  <2> QED
    BY <2>2
<1>2. PICK t \in T : \A u \in T : ~(<<u, t>> \in R)
  <2> HIDE DEF T, R
  <2>1. IsWellFoundedOn(R, Nat)
    BY NatLessThanWellFounded DEF R
  <2> QED
    BY <1>1, <2>1, WFMin
<1>3. \A u \in T : ~(u < t)
  BY <1>1, <1>2 DEF OpToRel
<1>4. PICK j \in J : t = n - j
  OBVIOUS
<1>5. ASSUME NEW l \in J PROVE j >= l
  <2>1. n - l \in T
    OBVIOUS
  <2> HIDE DEF T
  <2> QED
    BY <1>3, <1>4, <2>1
<1> QED
  BY <1>4, <1>5 DEF Max

\* The sequences that link_stats may return for a set of sections.
LEMMA Listed ==
  ASSUME NEW S, IsFiniteSet(S)
  PROVE  /\ SetToSeq(S) \in [1..Cardinality(S) -> S] /\ IsInjective(SetToSeq(S))
         /\ \A q \in SetToSeqs(S) : q \in [1..Cardinality(S) -> S] /\ IsInjective(q)
<1>1. PICK f \in Bijection(1..Cardinality(S), S) : TRUE
  BY FS_CardinalityType DEF ExistsBijection
<1>2. f \in [1..Cardinality(S) -> S] /\ IsInjective(f)
  BY DEF Bijection, Injection, IsInjective
<1>3. SetToSeq(S) \in [1..Cardinality(S) -> S] /\ IsInjective(SetToSeq(S))
  BY <1>2 DEF SetToSeq
<1>4. ASSUME NEW q \in SetToSeqs(S) PROVE q \in [1..Cardinality(S) -> S] /\ IsInjective(q)
  BY DEF SetToSeqs, IsInjective
<1> QED
  BY <1>3, <1>4

LEMMA SectionsFinite == IsFiniteSet(Section)
<1> DEFINE T == (({"tx", "rx"} \X Adapters) \X {A, B}) \X Lids
           f == [s \in Section |-> <<<<<<s.kind, s.osa>>, s.peer>>, s.lid>>]
<1>1. IsFiniteSet(Lids)
  <2>1. IsFiniteSet(0..255)
    <3>1. \A a, b \in Int : IsFiniteSet(a..b)
      BY FS_Interval
    <3>2. 0 \in Int /\ 255 \in Int
      OBVIOUS
    <3> QED
      BY <3>1, <3>2
  <2> QED
    BY <2>1, MonitorAssumption, FS_Subset
<1>2. IsFiniteSet({"tx", "rx"}) /\ IsFiniteSet({A, B})
  <2>1. ASSUME NEW a, NEW b PROVE IsFiniteSet({a, b})
    <3>1. IsFiniteSet({a})
      BY FS_Singleton
    <3>2. IsFiniteSet({a} \cup {b})
      BY <3>1, FS_AddElement
    <3>3. {a, b} = {a} \cup {b}
      OBVIOUS
    <3> QED
      BY <3>2, <3>3, Zenon
  <2> QED
    BY <2>1
<1>3. IsFiniteSet(T)
  BY <1>1, <1>2, MonitorAssumption, FS_Product
<1>4. f \in Injection(Section, T)
  <2>1. f \in [Section -> T]
    BY DEF Section
  <2>2. ASSUME NEW s \in Section, NEW u \in Section, f[s] = f[u] PROVE s = u
    <3>1. s.kind = u.kind /\ s.osa = u.osa /\ s.peer = u.peer /\ s.lid = u.lid
      BY <2>2
    <3> QED
      BY <3>1 DEF Section
  <2> QED
    BY <2>1, <2>2 DEF Injection, IsInjective
<1> QED
  BY <1>3, <1>4, FS_Injection

-----------------------------------------------------------------------------
(***************************************************************************)
(* The inductive invariant.  The lines that are printed are those of four  *)
(* loops, one behind the other; a line is known by its station, its loop   *)
(* and its place in the loop.                                              *)
(***************************************************************************)

Peer(x) == IF x = A THEN B ELSE A

\* The lists that link_stats returns for x: sections of its kind, each once.
ListOf(q, x, d) ==
  /\ q \in Seq(SectionsOf(x)) /\ Len(q) <= MaxSections /\ IsInjective(q)
  /\ \A j \in 1..Len(q) : q[j].kind = d

ListsInv(st) ==
  /\ st \in [{A, B} -> [rx : Seq(Section), tx : Seq(Section)]]
  /\ \A x \in {A, B} : ListOf(st[x].rx, x, "rx") /\ ListOf(st[x].tx, x, "tx")

\* How many lines stand above those of a loop.
Above(st, x, d) ==
  IF x = A THEN IF d = "rx" THEN 0 ELSE Len(st[A].rx)
  ELSE IF d = "rx" THEN Len(st[A].rx) + Len(st[A].tx)
  ELSE Len(st[A].rx) + Len(st[A].tx) + Len(st[B].rx)

MatchIn(st, y, s) ==
  LET J == {j \in DOMAIN st[y].tx : st[y].tx[j].lid = s.lid}
  IN IF J = {} THEN {} ELSE {st[y].tx[Max(J)]}

LineOf(st, x, d, m) ==
  [block |-> x, about |-> st[x][d][m],
   with |-> IF d = "rx" THEN MatchIn(st, Peer(x), st[x].rx[m]) ELSE {}]

\* Where the program is.
PlaceInv ==
  /\ pc \in {"query", "rx", "tx", "done", "raised", "blocked"} /\ turn \in 1..2
  /\ pc = "query" => k = 1 /\ out = <<>> /\ stats[B] = Nothing
  /\ pc \in {"rx", "tx"} => k \in 1..Len(stats[self][pc]) + 1 /\ Len(out) = Above(stats, self, pc) + k - 1
  /\ pc = "done" => Len(out) = Above(stats, B, "tx") + Len(stats[B].tx)
  /\ pc = "raised" => stats[B] = Nothing \/ idle # {}

\* The lines so far: those of the first loops, in their order.
LinesInv(st, o) ==
  /\ \A x \in {A, B}, d \in {"rx", "tx"} : \A m \in 1..Len(st[x][d]) :
       Above(st, x, d) + m <= Len(o) => o[Above(st, x, d) + m] = LineOf(st, x, d, m)
  /\ \A p \in 1..Len(o) : \E x \in {A, B}, d \in {"rx", "tx"} :
       \E m \in 1..Len(st[x][d]) : p = Above(st, x, d) + m

IInv ==
  /\ idle \subseteq Lids /\ k \in 1..MaxSections + 1
  /\ out \in Seq([block : {A, B}, about : Section, with : SUBSET Section])
  /\ ListsInv(stats) /\ PlaceInv /\ LinesInv(stats, out)

LEMMA QueryLists ==
  ASSUME NEW x \in {A, B}, NEW S \in SUBSET SectionsOf(x), Cardinality(S) <= MaxSections,
         NEW l \in Lists(S)
  PROVE  /\ ListOf(l.rx, x, "rx") /\ ListOf(l.tx, x, "tx")
         /\ l \in [rx : Seq(Section), tx : Seq(Section)]
<1>1. IsFiniteSet(S)
  BY SectionsFinite, FS_Subset DEF SectionsOf
<1> DEFINE T(d) == {s \in S : s.kind = d}
<1>2. \A d : IsFiniteSet(T(d)) /\ Cardinality(T(d)) \in Nat /\ Cardinality(T(d)) <= MaxSections
  <2>1. ASSUME NEW d
        PROVE  IsFiniteSet(T(d)) /\ Cardinality(T(d)) \in Nat /\ Cardinality(T(d)) <= MaxSections
    <3>1. T(d) \in SUBSET S
      OBVIOUS
    <3> HIDE DEF T
    <3>2. IsFiniteSet(T(d)) /\ Cardinality(T(d)) <= Cardinality(S)
      BY <1>1, <3>1, FS_Subset
    <3>3. Cardinality(T(d)) \in Nat /\ Cardinality(S) \in Nat
      BY <1>1, <3>2, FS_CardinalityType
    <3> QED
      BY <3>2, <3>3, MonitorAssumption
  <2> QED
    BY <2>1
<1>3. ASSUME NEW d, NEW q \in [1..Cardinality(T(d)) -> T(d)], IsInjective(q)
      PROVE  ListOf(q, x, d) /\ q \in Seq(Section)
  <2>1. \A s \in T(d) : s \in SectionsOf(x) /\ s.kind = d /\ s \in Section
    BY DEF SectionsOf
  <2>2. Cardinality(T(d)) \in Nat /\ Cardinality(T(d)) <= MaxSections
    BY <1>2
  <2> HIDE DEF T
  <2>3. /\ q \in Seq(SectionsOf(x)) /\ q \in Seq(Section) /\ Len(q) = Cardinality(T(d))
        /\ \A j \in 1..Len(q) : q[j].kind = d
    BY <2>1, <2>2
  <2> QED
    BY <1>3, <2>2, <2>3 DEF ListOf
<1>4. l.rx = SetToSeq(T("rx")) /\ l.tx \in SetToSeqs(T("tx")) /\ l = [rx |-> l.rx, tx |-> l.tx]
  BY DEF Lists
<1> HIDE DEF T
<1>5. /\ l.rx \in [1..Cardinality(T("rx")) -> T("rx")] /\ IsInjective(l.rx)
      /\ l.tx \in [1..Cardinality(T("tx")) -> T("tx")] /\ IsInjective(l.tx)
  BY <1>2, <1>4, Listed
<1> QED
  BY <1>3, <1>4, <1>5

LEMMA ListLengths ==
  ASSUME NEW st, ListsInv(st)
  PROVE  /\ \A x \in {A, B}, d \in {"rx", "tx"} :
              /\ st[x][d] \in Seq(Section) /\ Len(st[x][d]) \in Nat /\ Above(st, x, d) \in Nat
              /\ ListOf(st[x][d], x, d)
         /\ Above(st, A, "rx") = 0
         /\ Above(st, A, "tx") = Len(st[A].rx)
         /\ Above(st, B, "rx") = Len(st[A].rx) + Len(st[A].tx)
         /\ Above(st, B, "tx") = Len(st[A].rx) + Len(st[A].tx) + Len(st[B].rx)
<1>1. \A x \in {A, B} : /\ st[x].rx \in Seq(Section) /\ Len(st[x].rx) \in Nat
                        /\ st[x].tx \in Seq(Section) /\ Len(st[x].tx) \in Nat
  BY DEF ListsInv
<1>2. /\ Above(st, A, "rx") = 0 /\ Above(st, A, "tx") = Len(st[A].rx)
      /\ Above(st, B, "rx") = Len(st[A].rx) + Len(st[A].tx)
      /\ Above(st, B, "tx") = Len(st[A].rx) + Len(st[A].tx) + Len(st[B].rx)
  BY MonitorAssumption DEF Above
<1>3. ASSUME NEW x \in {A, B}, NEW d \in {"rx", "tx"}
      PROVE  /\ st[x][d] \in Seq(Section) /\ Len(st[x][d]) \in Nat /\ Above(st, x, d) \in Nat
             /\ ListOf(st[x][d], x, d)
  <2>1. Above(st, x, d) \in Nat
    <3> DEFINE a == Len(st[A].rx)
               b == Len(st[A].tx)
               c == Len(st[B].rx)
    <3>1. a \in Nat /\ b \in Nat /\ c \in Nat
      BY <1>1
    <3>2. Above(st, x, d) \in {0, a, a + b, a + b + c}
      BY <1>2
    <3> HIDE DEF a, b, c
    <3> QED
      BY <3>1, <3>2
  <2> QED
    BY <1>1, <2>1 DEF ListsInv
<1> QED
  BY <1>2, <1>3

\* A line has one place.
LEMMA OnePlace ==
  ASSUME ListsInv(stats), NEW x \in {A, B}, NEW y \in {A, B}, NEW d \in {"rx", "tx"}, NEW e \in {"rx", "tx"},
         NEW m \in 1..Len(stats[x][d]), NEW n \in 1..Len(stats[y][e]), Above(stats, x, d) + m = Above(stats, y, e) + n
  PROVE  x = y /\ d = e /\ m = n
<1> DEFINE a == Len(stats[A].rx)
           b == Len(stats[A].tx)
           c == Len(stats[B].rx)
           l == Len(stats[B].tx)
<1>1. a \in Nat /\ b \in Nat /\ c \in Nat /\ l \in Nat /\ A # B
  BY ListLengths, MonitorAssumption
<1>2. /\ Above(stats, A, "rx") = 0 /\ Above(stats, A, "tx") = a
      /\ Above(stats, B, "rx") = a + b /\ Above(stats, B, "tx") = a + b + c
  BY ListLengths
<1>3. ASSUME NEW z \in {A, B}, NEW f \in {"rx", "tx"}, NEW p \in 1..Len(stats[z][f])
      PROVE  \/ z = A /\ f = "rx" /\ p \in 1..a /\ Above(stats, z, f) = 0
             \/ z = A /\ f = "tx" /\ p \in 1..b /\ Above(stats, z, f) = a
             \/ z = B /\ f = "rx" /\ p \in 1..c /\ Above(stats, z, f) = a + b
             \/ z = B /\ f = "tx" /\ p \in 1..l /\ Above(stats, z, f) = a + b + c
  BY <1>2
<1> HIDE DEF a, b, c, l
<1>4. /\ \/ x = A /\ d = "rx" /\ m \in 1..a /\ Above(stats, x, d) = 0
         \/ x = A /\ d = "tx" /\ m \in 1..b /\ Above(stats, x, d) = a
         \/ x = B /\ d = "rx" /\ m \in 1..c /\ Above(stats, x, d) = a + b
         \/ x = B /\ d = "tx" /\ m \in 1..l /\ Above(stats, x, d) = a + b + c
      /\ \/ y = A /\ e = "rx" /\ n \in 1..a /\ Above(stats, y, e) = 0
         \/ y = A /\ e = "tx" /\ n \in 1..b /\ Above(stats, y, e) = a
         \/ y = B /\ e = "rx" /\ n \in 1..c /\ Above(stats, y, e) = a + b
         \/ y = B /\ e = "tx" /\ n \in 1..l /\ Above(stats, y, e) = a + b + c
  BY <1>3
<1> QED
  BY <1>1, <1>4

-----------------------------------------------------------------------------
(* The steps *)

LEMMA InitIInv == Init => IInv
<1> SUFFICES ASSUME Init PROVE IInv
  OBVIOUS
<1>1. stats = [x \in {A, B} |-> Nothing] /\ pc = "query" /\ turn = 1 /\ k = 1 /\ out = <<>> /\ idle \subseteq Lids
  BY DEF Init
<1>2. ListsInv(stats)
  <2>1. \A S : <<>> \in Seq(S) /\ Len(<<>>) = 0
    OBVIOUS
  <2>2. \A x \in {A, B} : stats[x].rx = <<>> /\ stats[x].tx = <<>>
    BY <1>1 DEF Nothing
  <2>3. \A x, d : ListOf(<<>>, x, d)
    <3>1. IsInjective(<<>>)
      BY DEF IsInjective
    <3> QED
      BY <2>1, <3>1, MonitorAssumption DEF ListOf
  <2>4. stats \in [{A, B} -> [rx : Seq(Section), tx : Seq(Section)]]
    BY <1>1, <2>1 DEF Nothing
  <2> QED
    BY <2>2, <2>3, <2>4 DEF ListsInv
<1>3. PlaceInv
  BY <1>1 DEF PlaceInv
<1>4. LinesInv(stats, out)
  <2>1. Len(out) = 0
    BY <1>1
  <2>2. \A x \in {A, B}, d \in {"rx", "tx"} : Above(stats, x, d) \in Nat
    BY <1>2, ListLengths
  <2> QED
    BY <2>1, <2>2 DEF LinesInv
<1>5. out \in Seq([block : {A, B}, about : Section, with : SUBSET Section])
  BY <1>1
<1> QED
  BY <1>1, <1>2, <1>3, <1>4, <1>5, MonitorAssumption DEF IInv

LEMMA Places ==
  ASSUME turn \in 1..2
  PROVE  /\ self \in {A, B} /\ other = Peer(self) /\ Peer(self) \in {A, B}
         /\ turn = 1 => self = A
         /\ turn = 2 => self = B
BY MonitorAssumption DEF self, other, Stations, Peer

LEMMA QueryStep == ASSUME IInv, Query PROVE IInv'
<1>1. turn \in 1..2 /\ k = 1 /\ out = <<>> /\ stats[B] = Nothing /\ ListsInv(stats)
  BY DEF IInv, PlaceInv, Query
<1>2. self \in {A, B} /\ (turn = 1 => self = A)
  BY <1>1, Places
<1>3. PICK S \in UNION {kSubset(n, SectionsOf(self)) : n \in 1..MaxSections} : \E l \in Lists(S) :
        stats' = [stats EXCEPT ![self] = l]
  BY DEF Query
<1>4. PICK l \in Lists(S) : stats' = [stats EXCEPT ![self] = l]
  BY <1>3
<1>5. S \in SUBSET SectionsOf(self) /\ Cardinality(S) <= MaxSections
  BY MonitorAssumption DEF kSubset
<1>6. /\ ListOf(l.rx, self, "rx") /\ ListOf(l.tx, self, "tx")
      /\ l \in [rx : Seq(Section), tx : Seq(Section)]
  BY <1>2, <1>5, QueryLists
<1>7. ListsInv(stats')
  <2>1. stats' \in [{A, B} -> [rx : Seq(Section), tx : Seq(Section)]]
    BY <1>1, <1>2, <1>4, <1>6 DEF ListsInv
  <2>2. ASSUME NEW x \in {A, B} PROVE ListOf(stats'[x].rx, x, "rx") /\ ListOf(stats'[x].tx, x, "tx")
    <3>1. CASE x = self
      <4>1. stats'[x] = l
        BY <1>1, <1>4, <3>1 DEF ListsInv
      <4> QED
        BY <1>6, <3>1, <4>1
    <3>2. CASE x # self
      <4>1. stats'[x] = stats[x]
        BY <1>1, <1>4, <3>2 DEF ListsInv
      <4> QED
        BY <1>1, <4>1 DEF ListsInv
    <3> QED
      BY <3>1, <3>2
  <2> QED
    BY <2>1, <2>2 DEF ListsInv, ListOf
<1>8. k' = 1 /\ out' = <<>> /\ idle' = idle /\ turn' \in 1..2
      /\ pc' = (IF turn = 1 THEN "query" ELSE "rx") /\ turn' = (IF turn = 1 THEN 2 ELSE 1)
  BY <1>1 DEF Query
<1>9. PlaceInv'
  <2>1. CASE turn = 1
    <3>1. stats'[B] = Nothing
      BY <1>1, <1>2, <1>4, <2>1, MonitorAssumption DEF ListsInv
    <3> QED
      BY <1>8, <2>1, <3>1 DEF PlaceInv
  <2>2. CASE turn = 2
    <3>1. pc' = "rx" /\ turn' = 1 /\ self' = A
      BY <1>8, <2>2 DEF self, Stations
    <3>2. Len(stats'[A].rx) \in Nat
      BY <1>7 DEF ListsInv
    <3>3. Above(stats', self', pc') = 0 /\ Len(out') = 0
      BY <1>8, <3>1 DEF Above
    <3> QED
      BY <1>8, <3>1, <3>2, <3>3 DEF PlaceInv
  <2> QED
    BY <1>1, <2>1, <2>2
<1>10. LinesInv(stats', out')
  <2>1. Len(out') = 0
    BY <1>8
  <2>2. ASSUME NEW x \in {A, B}, NEW d \in {"rx", "tx"} PROVE Above(stats', x, d) \in Nat
    <3> DEFINE a == Len(stats'[A].rx)
               b == Len(stats'[A].tx)
               c == Len(stats'[B].rx)
    <3>1. a \in Nat /\ b \in Nat /\ c \in Nat
      BY <1>7 DEF ListsInv
    <3>2. Above(stats', x, d) \in {0, a, a + b, a + b + c}
      BY DEF Above
    <3> HIDE DEF a, b, c
    <3> QED
      BY <3>1, <3>2
  <2> QED
    BY <2>1, <2>2 DEF LinesInv
<1> QED
  BY <1>7, <1>8, <1>9, <1>10, MonitorAssumption DEF IInv

LEMMA FailStep == ASSUME IInv, QueryFails PROVE IInv'
<1>1. /\ k' = k /\ out' = out /\ turn' = turn /\ idle' = idle /\ stats' = stats
      /\ pc' \in {"raised", "blocked"} /\ stats[B] = Nothing
  BY DEF QueryFails, IInv, PlaceInv
<1>2. ListsInv(stats') /\ LinesInv(stats', out')
  BY <1>1 DEF IInv
<1>3. PlaceInv'
  BY <1>1 DEF IInv, PlaceInv
<1> QED
  BY <1>1, <1>2, <1>3 DEF IInv

\* A line is the next one of its loop.
LEMMA Printed ==
  ASSUME IInv, pc \in {"rx", "tx"}, k \in 1..Len(stats[self][pc]), PrintLine(LineOf(stats, self, pc, k))
  PROVE  IInv'
<1>1. /\ k' = k + 1 /\ turn' = turn /\ pc' = pc /\ idle' = idle /\ stats' = stats
      /\ out' = Append(out, LineOf(stats, self, pc, k))
  BY DEF PrintLine
<1>2. /\ ListsInv(stats) /\ turn \in 1..2 /\ self \in {A, B} /\ k \in Nat
      /\ out \in Seq([block : {A, B}, about : Section, with : SUBSET Section])
      /\ Len(out) = Above(stats, self, pc) + k - 1
  BY Places DEF IInv, PlaceInv
<1>3. /\ stats[self][pc] \in Seq(Section) /\ Len(stats[self][pc]) \in Nat
      /\ Above(stats, self, pc) \in Nat /\ Len(stats[self][pc]) <= MaxSections
  BY <1>2, ListLengths DEF ListOf
<1>4. LineOf(stats, self, pc, k) \in [block : {A, B}, about : Section, with : SUBSET Section]
  <2>1. \A s : MatchIn(stats, Peer(self), s) \in SUBSET Section
    <3> SUFFICES ASSUME NEW s PROVE MatchIn(stats, Peer(self), s) \in SUBSET Section
      OBVIOUS
    <3> DEFINE L == stats[Peer(self)].tx
               J == {j \in DOMAIN L : L[j].lid = s.lid}
    <3>1. L \in Seq(Section) /\ Len(L) \in Nat
      BY <1>2, Places DEF ListsInv
    <3>2. CASE J = {}
      BY <3>2 DEF MatchIn
    <3>3. CASE J # {}
      <4>1. J \in SUBSET (1..Len(L))
        BY <3>1
      <4>2. Max(J) \in J
        <5> HIDE DEF J
        <5> QED
          BY <3>1, <3>3, <4>1, LastIndex
      <4>3. L[Max(J)] \in Section
        <5> HIDE DEF L
        <5> QED
          BY <3>1, <4>1, <4>2
      <4>4. MatchIn(stats, Peer(self), s) = {L[Max(J)]}
        BY <3>3 DEF MatchIn
      <4> QED
        BY <4>3, <4>4
    <3> QED
      BY <3>2, <3>3
  <2>2. stats[self][pc][k] \in Section
    BY <1>3
  <2> QED
    BY <1>2, <2>1, <2>2 DEF LineOf
<1> DEFINE p == Len(out) + 1
<1>5. /\ p = Above(stats, self, pc) + k /\ Len(out') = p /\ out'[p] = LineOf(stats, self, pc, k)
      /\ \A j \in 1..Len(out) : out'[j] = out[j]
      /\ out' \in Seq([block : {A, B}, about : Section, with : SUBSET Section])
      /\ Len(out) \in Nat
  BY <1>1, <1>2, <1>3, <1>4
<1>6. ListsInv(stats')
  BY <1>1, <1>2 DEF ListsInv, ListOf
<1>7. PlaceInv'
  <2>1. self' = self /\ stats'[self'][pc'] = stats[self][pc] /\ Above(stats', self', pc') = Above(stats, self, pc)
    BY <1>1 DEF self, Stations, Above
  <2>2. k' \in 1..Len(stats[self][pc]) + 1 /\ Len(out') = Above(stats, self, pc) + k' - 1
    BY <1>1, <1>2, <1>3, <1>5
  <2> QED
    BY <1>1, <1>2, <2>1, <2>2 DEF PlaceInv
<1>8. LinesInv(stats', out')
  <2>2. ASSUME NEW x \in {A, B}, NEW d \in {"rx", "tx"}, NEW m \in 1..Len(stats[x][d]),
               Above(stats, x, d) + m <= Len(out')
        PROVE  out'[Above(stats, x, d) + m] = LineOf(stats, x, d, m)
    <3>0. Len(stats[x][d]) \in Nat /\ Above(stats, x, d) \in Nat
      BY <1>2, ListLengths
    <3>1. Above(stats, x, d) \in Nat /\ m \in Nat /\ m >= 1
      BY <3>0
    <3>2. CASE Above(stats, x, d) + m <= Len(out)
      <4>1. out[Above(stats, x, d) + m] = LineOf(stats, x, d, m)
        BY <3>2 DEF IInv, LinesInv
      <4> QED
        BY <1>5, <3>1, <3>2, <4>1
    <3>3. CASE Above(stats, x, d) + m = p
      <4>1. x = self /\ d = pc /\ m = k
        <5>1. Above(stats, x, d) + m = Above(stats, self, pc) + k
          BY <1>5, <3>3
        <5> QED
          BY <1>2, <5>1, OnePlace
      <4> QED
        BY <1>5, <4>1
    <3> QED
      BY <1>5, <2>2, <3>1, <3>2, <3>3
  <2>3. ASSUME NEW q \in 1..Len(out')
        PROVE  \E x \in {A, B}, d \in {"rx", "tx"} : \E m \in 1..Len(stats[x][d]) : q = Above(stats, x, d) + m
    <3>1. CASE q \in 1..Len(out)
      BY <3>1 DEF IInv, LinesInv
    <3>2. CASE q = p
      BY <1>2, <1>5, <3>2
    <3> QED
      BY <1>5, <3>1, <3>2
  <2>4. \A x \in {A, B}, d \in {"rx", "tx"} : \A m \in 1..Len(stats[x][d]) :
          Above(stats, x, d) + m <= Len(out') => out'[Above(stats, x, d) + m] = LineOf(stats, x, d, m)
    BY <2>2
  <2>5. \A q \in 1..Len(out') : \E x \in {A, B}, d \in {"rx", "tx"} :
          \E m \in 1..Len(stats[x][d]) : q = Above(stats, x, d) + m
    BY <2>3
  <2>6. LinesInv(stats, out')
    BY <2>4, <2>5 DEF LinesInv
  <2> QED
    BY <1>1, <2>6
<1>9. k' \in 1..MaxSections + 1 /\ idle' \subseteq Lids
  BY <1>1, <1>2, <1>3, MonitorAssumption DEF IInv
<1> QED
  BY <1>5, <1>6, <1>7, <1>8, <1>9 DEF IInv

\* The quotient of an idle link ends the program.
LEMMA Divided ==
  ASSUME IInv, pc \in {"rx", "tx"}, idle # {}, ZeroDivision
  PROVE  IInv'
<1>1. k' = k /\ out' = out /\ turn' = turn /\ idle' = idle /\ stats' = stats /\ pc' = "raised"
  BY DEF ZeroDivision
<1>2. ListsInv(stats') /\ LinesInv(stats', out')
  BY <1>1 DEF IInv
<1>3. PlaceInv'
  BY <1>1 DEF IInv, PlaceInv
<1> QED
  BY <1>1, <1>2, <1>3 DEF IInv

LEMMA ReceivedStep == ASSUME IInv, Received PROVE IInv'
<1>1. pc = "rx" /\ turn \in 1..2 /\ k \in Nat /\ k >= 1 /\ k <= Len(stats[self][pc])
  BY DEF Received, InLoop, IInv, PlaceInv
<1>2. k \in 1..Len(stats[self][pc])
  <2>1. Len(stats[self][pc]) \in Nat
    BY <1>1, Places, ListLengths DEF IInv
  <2> QED
    BY <1>1, <2>1
<1>3. Match(Current) = MatchIn(stats, other, Current) /\ other = Peer(self)
  BY <1>1, Places DEF Match, MatchIn
<1>4. CASE \A m \in Match(Current) : m.lid \notin idle
  <2>1. PrintLine(Line(Current, Match(Current)))
    BY <1>4 DEF Received
  <2>2. Line(Current, Match(Current)) = LineOf(stats, self, pc, k)
    BY <1>1, <1>3 DEF Line, LineOf, Current
  <2> QED
    BY <1>1, <1>2, <2>1, <2>2, Printed
<1>5. CASE ~ \A m \in Match(Current) : m.lid \notin idle
  <2>1. ZeroDivision /\ idle # {}
    BY <1>5 DEF Received
  <2> QED
    BY <1>1, <2>1, Divided
<1> QED
  BY <1>4, <1>5

LEMMA TransmittedStep == ASSUME IInv, Transmitted PROVE IInv'
<1>1. pc = "tx" /\ turn \in 1..2 /\ k \in Nat /\ k >= 1 /\ k <= Len(stats[self][pc])
  BY DEF Transmitted, InLoop, IInv, PlaceInv
<1>2. k \in 1..Len(stats[self][pc])
  <2>1. Len(stats[self][pc]) \in Nat
    BY <1>1, Places, ListLengths DEF IInv
  <2> QED
    BY <1>1, <2>1
<1>3. CASE Current.lid \notin idle
  <2>1. PrintLine(Line(Current, {}))
    BY <1>3 DEF Transmitted
  <2>2. Line(Current, {}) = LineOf(stats, self, pc, k)
    BY <1>1 DEF Line, LineOf, Current
  <2> QED
    BY <1>1, <1>2, <2>1, <2>2, Printed
<1>4. CASE Current.lid \in idle
  BY <1>1, <1>4, Divided DEF Transmitted
<1> QED
  BY <1>3, <1>4

LEMMA EndLoopStep == ASSUME IInv, EndLoop PROVE IInv'
<1>1. /\ k' = 1 /\ out' = out /\ idle' = idle /\ stats' = stats
      /\ turn' = IF pc = "tx" THEN 2 ELSE turn
  BY DEF EndLoop
<1>2. /\ pc \in {"rx", "tx"} /\ turn \in 1..2 /\ ListsInv(stats) /\ self \in {A, B} /\ k \in Nat
      /\ k \in 1..Len(stats[self][pc]) + 1 /\ k > Len(stats[self][pc])
      /\ Len(out) = Above(stats, self, pc) + k - 1 /\ MaxSections \in Nat
  BY Places, MonitorAssumption DEF EndLoop, IInv, PlaceInv
<1>3. Len(out) = Above(stats, self, pc) + Len(stats[self][pc])
  <2>1. Len(stats[self][pc]) \in Nat /\ Above(stats, self, pc) \in Nat
    BY <1>2, ListLengths
  <2> QED
    BY <1>2, <2>1
<1>4. ListsInv(stats') /\ LinesInv(stats', out')
  BY <1>1 DEF IInv
<1> DEFINE a == Len(stats[A].rx)
           b == Len(stats[A].tx)
           c == Len(stats[B].rx)
           l == Len(stats[B].tx)
<1>5. a \in Nat /\ b \in Nat /\ c \in Nat /\ l \in Nat
  BY <1>2, ListLengths
<1>6. /\ Above(stats, A, "rx") = 0 /\ Above(stats, A, "tx") = a
      /\ Above(stats, B, "rx") = a + b /\ Above(stats, B, "tx") = a + b + c
  BY <1>2, ListLengths
<1>7. PlaceInv'
  <2>0. \A x, d : Above(stats', x, d) = Above(stats, x, d)
    BY <1>1 DEF Above
  <2>1. CASE pc = "rx"
    <3>1. pc' = "tx" /\ turn' = turn /\ self' = self
      BY <1>1, <2>1 DEF EndLoop, self
    <3>2. Len(out) = Above(stats, self, "tx") /\ Len(stats[self].tx) \in Nat
      <4>1. CASE self = A
        BY <1>3, <1>5, <1>6, <2>1, <4>1
      <4>2. CASE self = B
        BY <1>3, <1>5, <1>6, <2>1, <4>2
      <4> QED
        BY <1>2, <4>1, <4>2
    <3>3. Above(stats', self', pc') = Above(stats, self, "tx")
      BY <1>1, <3>1 DEF Above
    <3> QED
      BY <1>1, <1>2, <3>1, <3>2, <3>3 DEF PlaceInv
  <2>2. CASE pc = "tx" /\ turn = 1
    <3>1. pc' = "rx" /\ turn' = 2 /\ self' = B /\ self = A
      BY <1>1, <2>2 DEF EndLoop, self, Stations
    <3>2. Len(out) = Above(stats, B, "rx")
      BY <1>3, <1>5, <1>6, <2>2, <3>1
    <3>3. Above(stats', self', pc') = Above(stats, B, "rx")
      BY <1>1, <3>1 DEF Above
    <3>4. Len(stats'[self'][pc']) \in Nat /\ Above(stats, B, "rx") \in Nat
      <4>1. Len(stats'[self'][pc']) = c
        BY <1>1, <3>1
      <4>2. Above(stats, B, "rx") = a + b
        BY <1>6
      <4> HIDE DEF a, b, c, l
      <4> QED
        BY <1>5, <4>1, <4>2
    <3> QED
      BY <1>1, <3>1, <3>2, <3>3, <3>4 DEF PlaceInv
  <2>3. CASE pc = "tx" /\ turn = 2
    <3>1. pc' = "done" /\ turn' = 2 /\ self = B
      BY <1>1, <2>3 DEF EndLoop, self, Stations
    <3>2. Len(out) = Above(stats, B, "tx") + Len(stats[B].tx)
      BY <1>3, <2>3, <3>1
    <3> QED
      BY <1>1, <2>0, <3>1, <3>2 DEF PlaceInv
  <2> QED
    BY <1>2, <2>1, <2>2, <2>3
<1>8. k' \in 1..MaxSections + 1
  BY <1>1, <1>2
<1> QED
  BY <1>1, <1>4, <1>7, <1>8 DEF IInv

LEMMA StepIInv == IInv /\ [Next]_vars => IInv'
<1> SUFFICES ASSUME IInv, [Next]_vars PROVE IInv'
  OBVIOUS
<1>1. CASE Query
  BY <1>1, QueryStep
<1>2. CASE QueryFails
  BY <1>2, FailStep
<1>3. CASE Received
  BY <1>3, ReceivedStep
<1>4. CASE Transmitted
  BY <1>4, TransmittedStep
<1>5. CASE EndLoop
  BY <1>5, EndLoopStep
<1>6. CASE UNCHANGED vars
  <2>1. /\ idle' = idle /\ pc' = pc /\ turn' = turn /\ stats' = stats /\ k' = k /\ out' = out
    BY <1>6 DEF vars
  <2>2. self' = self
    BY <2>1 DEF self
  <2>3. PlaceInv'
    BY <2>1, <2>2 DEF IInv, PlaceInv
  <2> QED
    BY <2>1, <2>2, <2>3 DEF IInv
<1> QED
  BY <1>1, <1>2, <1>3, <1>4, <1>5, <1>6 DEF Next, Over

\* The place of the program among the loops, and the lines behind it, in every
\* state of every run of src/bin/hpav_stats.py.
THEOREM Invariant == Spec => []IInv
<1>1. Init => IInv
  BY InitIInv
<1>2. IInv /\ [Next]_vars => IInv'
  BY StepIInv
<1> QED
  BY <1>1, <1>2, PTL DEF Spec

-----------------------------------------------------------------------------
(* What the lines say *)

\* The state of src/bin/hpav_stats.py keeps its type.
THEOREM TypeCorrect == Spec => []TypeOK
<1>1. IInv => TypeOK
  <2> SUFFICES ASSUME IInv PROVE TypeOK
    OBVIOUS
  <2>1. ASSUME NEW x \in {A, B}, NEW d \in {"rx", "tx"}, NEW j \in DOMAIN stats[x][d]
        PROVE  stats[x][d][j] \in SectionsOf(x) /\ stats[x][d][j].kind = d
    <3>1. ListOf(stats[x][d], x, d)
      BY ListLengths DEF IInv
    <3> QED
      BY <3>1 DEF ListOf
  <2> QED
    BY <2>1 DEF IInv, PlaceInv, TypeOK
<1> QED
  BY <1>1, Invariant, PTL

\* The entry with which the inner loop compares a received section.
LEMMA Compared ==
  ASSUME ListsInv(stats), NEW x \in {A, B}, NEW s
  PROVE  /\ \A m \in MatchIn(stats, x, s) : m \in Range(stats[x].tx) /\ m.lid = s.lid
         /\ MatchIn(stats, x, s) = {} => \A m \in Range(stats[x].tx) : m.lid # s.lid
<1> DEFINE L == stats[x].tx
           J == {j \in DOMAIN L : L[j].lid = s.lid}
<1>1. L \in Seq(Section) /\ Len(L) \in Nat /\ DOMAIN L = 1..Len(L)
  BY DEF ListsInv
<1>2. CASE J = {}
  <2>1. MatchIn(stats, x, s) = {}
    BY <1>2 DEF MatchIn
  <2>2. \A m \in Range(L) : m.lid # s.lid
    BY <1>2 DEF Range
  <2> QED
    BY <2>1, <2>2
<1>3. CASE J # {}
  <2>1. J \in SUBSET (1..Len(L))
    BY <1>1
  <2>2. Max(J) \in J
    <3> HIDE DEF J
    <3> QED
      BY <1>1, <1>3, <2>1, LastIndex
  <2>3. MatchIn(stats, x, s) = {L[Max(J)]}
    BY <1>3 DEF MatchIn
  <2>4. Max(J) \in DOMAIN L /\ L[Max(J)].lid = s.lid
    BY <2>2
  <2>5. L[Max(J)] \in Range(L)
    BY <2>4 DEF Range
  <2> QED
    BY <2>3, <2>4, <2>5
<1> QED
  BY <1>2, <1>3

\* Every line is that of a place in one of the four loops.
LEMMA LineHasPlace ==
  ASSUME IInv, NEW p \in 1..Len(out)
  PROVE  \E x \in {A, B}, d \in {"rx", "tx"} : \E m \in 1..Len(stats[x][d]) :
           p = Above(stats, x, d) + m /\ out[p] = LineOf(stats, x, d, m)
<1>1. PICK x \in {A, B}, d \in {"rx", "tx"} : \E m \in 1..Len(stats[x][d]) : p = Above(stats, x, d) + m
  BY DEF IInv, LinesInv
<1>2. PICK m \in 1..Len(stats[x][d]) : p = Above(stats, x, d) + m
  BY <1>1
<1>3. Above(stats, x, d) + m <= Len(out)
  <2>1. Len(out) \in Nat
    BY DEF IInv
  <2> QED
    BY <1>2, <2>1
<1>4. out[Above(stats, x, d) + m] = LineOf(stats, x, d, m)
  BY <1>3 DEF IInv, LinesInv
<1> QED
  BY <1>2, <1>4

\* The frames received over a link are set against the frames sent over the
\* same link by the peer, if only the two stations answer: the lid alone, by
\* which print_link_stats pairs the sections, is then enough.
THEOREM ComparedIsSameLink == Spec => []SameLink
<1>1. IInv => SameLink
  <2> SUFFICES ASSUME IInv,
                      \A s \in Answers(A) : s.osa = B, \A s \in Answers(B) : s.osa = A,
                      NEW p \in DOMAIN out, NEW w \in out[p].with
               PROVE  w.lid = out[p].about.lid /\ w.osa = out[p].about.peer /\ w.peer = out[p].about.osa
    BY DEF SameLink
  <2>1. p \in 1..Len(out) /\ ListsInv(stats) /\ A # B
    BY MonitorAssumption DEF IInv
  <2>2. PICK x \in {A, B}, d \in {"rx", "tx"} : \E m \in 1..Len(stats[x][d]) :
           p = Above(stats, x, d) + m /\ out[p] = LineOf(stats, x, d, m)
    BY <2>1, LineHasPlace
  <2>3. PICK m \in 1..Len(stats[x][d]) : out[p] = LineOf(stats, x, d, m)
    BY <2>2
  <2>4. d = "rx" /\ w \in MatchIn(stats, Peer(x), stats[x].rx[m]) /\ out[p].about = stats[x].rx[m]
    BY <2>3 DEF LineOf
  <2>5. Peer(x) \in {A, B}
    BY DEF Peer
  <2>6. w \in Range(stats[Peer(x)].tx) /\ w.lid = stats[x].rx[m].lid
    BY <2>1, <2>4, <2>5, Compared
  <2>7. w.peer = Peer(x) /\ w \in Answers(Peer(x))
    <3>1. stats[Peer(x)].tx \in Seq(SectionsOf(Peer(x)))
      BY <2>1, <2>5 DEF ListsInv, ListOf
    <3>2. w \in SectionsOf(Peer(x))
      BY <2>6, <3>1 DEF Range
    <3> QED
      BY <2>6, <3>2 DEF SectionsOf, Answers
  <2>8. stats[x].rx[m].peer = x /\ stats[x].rx[m] \in Answers(x)
    <3>1. stats[x].rx \in Seq(SectionsOf(x)) /\ m \in 1..Len(stats[x].rx)
      BY <2>1, <2>4 DEF ListsInv, ListOf
    <3>2. stats[x].rx[m] \in SectionsOf(x) /\ stats[x].rx[m] \in Range(stats[x].rx)
      BY <3>1 DEF Range
    <3> QED
      BY <3>2 DEF SectionsOf, Answers
  <2>9. w.osa = x /\ stats[x].rx[m].osa = Peer(x)
    BY <2>1, <2>7, <2>8 DEF Peer
  <2> QED
    BY <2>4, <2>6, <2>7, <2>8, <2>9
<1> QED
  BY <1>1, Invariant, PTL

\* At the end every place has its line.
LEMMA AllLines ==
  ASSUME IInv, AllPrinted, NEW x \in {A, B}, NEW d \in {"rx", "tx"}, NEW m \in 1..Len(stats[x][d])
  PROVE  /\ Above(stats, x, d) + m \in 1..Len(out)
         /\ out[Above(stats, x, d) + m] = LineOf(stats, x, d, m)
<1> DEFINE a == Len(stats[A].rx)
           b == Len(stats[A].tx)
           c == Len(stats[B].rx)
           l == Len(stats[B].tx)
<1>1. ListsInv(stats)
  BY DEF IInv
<1>2. a \in Nat /\ b \in Nat /\ c \in Nat /\ l \in Nat
  BY <1>1, ListLengths
<1>3. /\ Above(stats, A, "rx") = 0 /\ Above(stats, A, "tx") = a
      /\ Above(stats, B, "rx") = a + b /\ Above(stats, B, "tx") = a + b + c
  BY <1>1, ListLengths
<1>4. Len(out) = a + b + c + l
  BY <1>3 DEF IInv, PlaceInv, AllPrinted
<1>5. \/ m \in 1..a /\ Above(stats, x, d) = 0
      \/ m \in 1..b /\ Above(stats, x, d) = a
      \/ m \in 1..c /\ Above(stats, x, d) = a + b
      \/ m \in 1..l /\ Above(stats, x, d) = a + b + c
  BY <1>3
<1>6. Above(stats, x, d) + m \in 1..Len(out)
  <2> HIDE DEF a, b, c, l
  <2> QED
    BY <1>2, <1>4, <1>5
<1>7. Above(stats, x, d) + m <= Len(out)
  BY <1>6
<1> QED
  BY <1>6, <1>7 DEF IInv, LinesInv

\* No section has two places.
Apart(x, d, y, e) ==
  \A m \in 1..Len(stats[x][d]) : \A n \in 1..Len(stats[y][e]) :
    stats[x][d][m] = stats[y][e][n] => x = y /\ d = e /\ m = n

LEMMA OneSection ==
  ASSUME ListsInv(stats)
  PROVE  \A x, y \in {A, B}, d, e \in {"rx", "tx"} : Apart(x, d, y, e)
<1> SUFFICES ASSUME NEW x \in {A, B}, NEW y \in {A, B}, NEW d \in {"rx", "tx"}, NEW e \in {"rx", "tx"},
                    NEW m \in 1..Len(stats[x][d]), NEW n \in 1..Len(stats[y][e]),
                    stats[x][d][m] = stats[y][e][n]
             PROVE  x = y /\ d = e /\ m = n
  BY DEF Apart
<1>1. ListOf(stats[x][d], x, d) /\ ListOf(stats[y][e], y, e)
  BY ListLengths
<1>2. stats[x][d][m] \in SectionsOf(x) /\ stats[x][d][m].kind = d /\ IsInjective(stats[x][d])
  BY <1>1 DEF ListOf
<1>3. stats[y][e][n] \in SectionsOf(y) /\ stats[y][e][n].kind = e
  BY <1>1 DEF ListOf
<1>4. x = y /\ d = e
  BY <1>2, <1>3 DEF SectionsOf
<1>5. m \in DOMAIN stats[x][d] /\ n \in DOMAIN stats[x][d]
  BY <1>1, <1>4 DEF ListOf
<1> QED
  BY <1>2, <1>4, <1>5 DEF IsInjective

\* Once both queries have returned and no link is idle, every section that was
\* received stands in one line, and a line says that there is no such link at
\* the other station only if it told of none.
THEOREM NothingLost == Spec => []EveryAnswerPrinted
<1>1. IInv => EveryAnswerPrinted
  <2> SUFFICES ASSUME IInv, AllPrinted
               PROVE  /\ \A x \in {A, B} : \A s \in Answers(x) :
                           Cardinality({j \in DOMAIN out : out[j].about = s}) = 1
                      /\ \A j \in DOMAIN out :
                           out[j].about.kind = "rx" /\ out[j].with = {} =>
                             \A x \in {A, B} \ {out[j].block} :
                               \A s \in Range(stats[x].tx) : s.lid # out[j].about.lid
    BY DEF EveryAnswerPrinted
  <2>1. ListsInv(stats) /\ DOMAIN out = 1..Len(out)
    BY DEF IInv
  <2>2. ASSUME NEW x \in {A, B}, NEW s \in Answers(x)
        PROVE  Cardinality({j \in DOMAIN out : out[j].about = s}) = 1
    <3>1. PICK d \in {"rx", "tx"} : s \in Range(stats[x][d])
      BY DEF Answers
    <3>2. stats[x][d] \in Seq(Section)
      BY <2>1, ListLengths
    <3>3. PICK m \in 1..Len(stats[x][d]) : s = stats[x][d][m]
      BY <3>1, <3>2 DEF Range
    <3> DEFINE p == Above(stats, x, d) + m
    <3>4. p \in DOMAIN out /\ out[p].about = s
      <4>1. p \in 1..Len(out) /\ out[p] = LineOf(stats, x, d, m)
        BY <2>2, AllLines
      <4>2. LineOf(stats, x, d, m).about = stats[x][d][m]
        BY DEF LineOf
      <4> HIDE DEF p
      <4> QED
        BY <2>1, <3>3, <4>1, <4>2
    <3>5. ASSUME NEW q \in DOMAIN out, out[q].about = s PROVE q = p
      <4>1. PICK y \in {A, B}, e \in {"rx", "tx"} : \E n \in 1..Len(stats[y][e]) :
               q = Above(stats, y, e) + n /\ out[q] = LineOf(stats, y, e, n)
        BY <2>1, LineHasPlace
      <4>2. PICK n \in 1..Len(stats[y][e]) : q = Above(stats, y, e) + n /\ out[q] = LineOf(stats, y, e, n)
        BY <4>1
      <4>3. stats[x][d][m] = stats[y][e][n]
        BY <3>3, <3>5, <4>2 DEF LineOf
      <4>4. x = y /\ d = e /\ m = n
        <5>1. Apart(x, d, y, e)
          BY <2>1, OneSection
        <5> QED
          BY <4>3, <5>1 DEF Apart
      <4>5. q = Above(stats, x, d) + m
        BY <4>2, <4>4, Zenon
      <4> QED
        BY <4>5, Zenon
    <3> HIDE DEF p
    <3>6. {j \in DOMAIN out : out[j].about = s} = {p}
      BY <3>4, <3>5
    <3> QED
      BY <3>6, FS_Singleton
  <2>3. ASSUME NEW p \in DOMAIN out, out[p].about.kind = "rx", out[p].with = {},
               NEW y \in {A, B} \ {out[p].block}, NEW s \in Range(stats[y].tx)
        PROVE  s.lid # out[p].about.lid
    <3>1. PICK x \in {A, B}, d \in {"rx", "tx"} : \E m \in 1..Len(stats[x][d]) :
             p = Above(stats, x, d) + m /\ out[p] = LineOf(stats, x, d, m)
      BY <2>1, LineHasPlace
    <3>2. PICK m \in 1..Len(stats[x][d]) : out[p] = LineOf(stats, x, d, m)
      BY <3>1
    <3>3. ListOf(stats[x][d], x, d)
      BY <2>1, ListLengths
    <3>4. out[p].about = stats[x][d][m] /\ d = "rx"
      BY <2>3, <3>2, <3>3 DEF LineOf, ListOf
    <3>5. MatchIn(stats, Peer(x), stats[x].rx[m]) = {} /\ out[p].block = x
      BY <2>3, <3>2, <3>4 DEF LineOf
    <3>6. y = Peer(x)
      BY <2>3, <3>5, MonitorAssumption DEF Peer
    <3>7. \A w \in Range(stats[y].tx) : w.lid # stats[x].rx[m].lid
      <4>1. y \in {A, B} /\ MatchIn(stats, y, stats[x].rx[m]) = {}
        BY <3>5, <3>6
      <4>2. \A z \in {A, B} : \A u : MatchIn(stats, z, u) = {} => \A w \in Range(stats[z].tx) : w.lid # u.lid
        BY <2>1, Compared
      <4> QED
        BY <4>1, <4>2, Zenon
    <3> QED
      BY <3>4, <3>7
  <2> QED
    BY <2>2, <2>3
<1> QED
  BY <1>1, Invariant, PTL

=============================================================================
