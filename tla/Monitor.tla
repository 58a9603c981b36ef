------------------------------ MODULE Monitor -------------------------------
(***************************************************************************)
(* src/bin/hpav_stats.py: runs hpav-stats -L for one station and then for  *)
(* the other, and prints a block for each, in which the frames received    *)
(* over a link are set against the frames sent over it, as the other query *)
(* told.                                                                   *)
(*                                                                         *)
(* hpav-stats is external here (StatsSession): it broadcasts its requests, *)
(* so that every adapter with a link to the station of the query answers,  *)
(* or does not; it may fail, and it may hang.  A section is known by the   *)
(* adapter that sent it (osa), the station of the query and the lid; its   *)
(* counters are zero when the link is idle.                                *)
(***************************************************************************)
EXTENDS Integers, Sequences, FiniteSetsExt, SequencesExt

CONSTANTS
  Adapters,     \* the adapters of the network
  A, B,         \* --sta-a-mac and --sta-b-mac
  Lids,         \* the link identifiers that are in use
  MaxSections   \* how many answers a query gets

ASSUME MonitorAssumption ==
  /\ IsFiniteSet(Adapters) /\ {A, B} \subseteq Adapters /\ A # B
  /\ Lids \subseteq 0..255 /\ MaxSections \in Nat

VARIABLES
  idle,   \* the links over which nothing was sent: their counters are 0
  pc,     \* "query", "rx", "tx": the loops; "done", "raised", "blocked"
  turn,   \* the first or the second query, the first or the second block
  stats,  \* what link_stats returned for each station
  k,      \* the section that the loop comes to
  out     \* the lines that were printed

vars == <<idle, pc, turn, stats, k, out>>

Stations == <<A, B>>
self == Stations[turn]
other == Stations[3 - turn]

Section == [kind : {"tx", "rx"}, osa : Adapters, peer : {A, B}, lid : Lids]
SectionsOf(x) == {s \in Section : s.peer = x /\ s.osa # x}
Nothing == [rx |-> <<>>, tx |-> <<>>]

\* A line of a block: the section it is about and, for received frames, the
\* section it is compared with, if there is one.
Line(s, with) == [block |-> self, about |-> s, with |-> with]

TypeOK ==
  /\ idle \subseteq Lids
  /\ pc \in {"query", "rx", "tx", "done", "raised", "blocked"}
  /\ turn \in 1..2
  /\ \A x \in {A, B}, d \in {"rx", "tx"} :
       \A j \in DOMAIN stats[x][d] : stats[x][d][j] \in SectionsOf(x) /\ stats[x][d][j].kind = d
  /\ k \in 1..MaxSections + 1
  /\ out \in Seq([block : {A, B}, about : Section, with : SUBSET Section])

Init ==
  /\ idle \in SUBSET Lids
  /\ pc = "query" /\ turn = 1
  /\ stats = [x \in {A, B} |-> Nothing]
  /\ k = 1 /\ out = <<>>

-----------------------------------------------------------------------------
(* link_stats *)

\* Both lists in the order of a Python dictionary; that of the rx list only
\* decides the order of the lines.
Lists(S) == {[rx |-> SetToSeq({s \in S : s.kind = "rx"}), tx |-> q] :
               q \in SetToSeqs({s \in S : s.kind = "tx"})}

Query ==
  /\ pc = "query"
  /\ \E S \in UNION {kSubset(n, SectionsOf(self)) : n \in 1..MaxSections} : \E l \in Lists(S) :
       stats' = [stats EXCEPT ![self] = l]
  /\ pc' = IF turn = 1 THEN "query" ELSE "rx"
  /\ turn' = IF turn = 1 THEN 2 ELSE 1
  /\ UNCHANGED <<idle, k, out>>

\* hpav-stats ends with an error or hangs; nothing was printed (None); or a
\* section is of another kind, an answer to somebody else's request.
QueryFails ==
  /\ pc = "query"
  /\ pc' \in {"raised", "blocked"}
  /\ UNCHANGED <<idle, turn, stats, k, out>>

-----------------------------------------------------------------------------
(* print_link_stats *)

Current == stats[self][pc][k]
InLoop == pc \in {"rx", "tx"} /\ k <= Len(stats[self][pc])

\* Mutant: the sections are paired by their position.
MatchByPosition(s) == {stats[other].tx[j] : j \in {k} \cap DOMAIN stats[other].tx}

\* The inner loop does not stop at a match: the last one counts.
Match(s) ==
  LET J == {j \in DOMAIN stats[other].tx : stats[other].tx[j].lid = s.lid}
  IN IF J = {} THEN {} ELSE {stats[other].tx[Max(J)]}

PrintLine(line) ==
  /\ out' = Append(out, line)
  /\ k' = k + 1
  /\ UNCHANGED <<idle, pc, turn, stats>>

\* 100. / 0 ends the program, whatever is left to print.
ZeroDivision == pc' = "raised" /\ UNCHANGED <<idle, turn, stats, k, out>>

\* Mutant: no continue behind the message; None cannot be subtracted.
ReceivedNoContinue ==
  /\ InLoop /\ pc = "rx"
  /\ IF Match(Current) # {} /\ \A m \in Match(Current) : m.lid \notin idle
       THEN PrintLine(Line(Current, Match(Current)))
       ELSE ZeroDivision

\* A line with both counters or, without a match, a message.
Received ==
  /\ InLoop /\ pc = "rx"
  /\ IF \A m \in Match(Current) : m.lid \notin idle
       THEN PrintLine(Line(Current, Match(Current)))
       ELSE ZeroDivision

Transmitted ==
  /\ InLoop /\ pc = "tx"
  /\ IF Current.lid \notin idle THEN PrintLine(Line(Current, {})) ELSE ZeroDivision

\* Mutant: one block too many.
EndLoopOnceMore ==
  /\ pc \in {"rx", "tx"} /\ k > Len(stats[self][pc])
  /\ k' = 1
  /\ pc' = IF pc = "rx" THEN "tx" ELSE "rx"
  /\ turn' = IF pc = "tx" THEN turn + 1 ELSE turn
  /\ UNCHANGED <<idle, stats, out>>

\* The end of a loop, of a block, of main.
EndLoop ==
  /\ pc \in {"rx", "tx"} /\ k > Len(stats[self][pc])
  /\ k' = 1
  /\ pc' = CASE pc = "rx" -> "tx" [] pc = "tx" /\ turn = 1 -> "rx" [] OTHER -> "done"
  /\ turn' = IF pc = "tx" THEN 2 ELSE turn
  /\ UNCHANGED <<idle, stats, out>>

Over == pc \in {"done", "raised", "blocked"} /\ UNCHANGED vars

Next == Query \/ QueryFails \/ Received \/ Transmitted \/ EndLoop \/ Over

Spec == Init /\ [][Next]_vars

-----------------------------------------------------------------------------
(* Properties *)

Answers(x) == Range(stats[x].rx) \cup Range(stats[x].tx)

\* The comparison of a line is one between the two ends of one link: same lid,
\* and the receiver is the peer of the sender, as long as no third adapter has
\* answered one of the queries (they are not told apart by their osa).
SameLink ==
  (\A s \in Answers(A) : s.osa = B) /\ (\A s \in Answers(B) : s.osa = A) =>
    \A j \in DOMAIN out : \A m \in out[j].with :
      m.lid = out[j].about.lid /\ m.osa = out[j].about.peer /\ m.peer = out[j].about.osa

\* The program has printed all it is going to print: it came to its end, or
\* stopped after both queries although no link is idle.
AllPrinted == pc = "done" \/ (pc = "raised" /\ stats[B] # Nothing /\ idle = {})

\* Once both queries have returned, nothing but the counters of an idle link
\* ends the program early, and every answer stands in exactly one line, with
\* "missing" only where the other query has no such link.
EveryAnswerPrinted ==
  AllPrinted =>
    /\ \A x \in {A, B} : \A s \in Answers(x) :
         Cardinality({j \in DOMAIN out : out[j].about = s}) = 1
    /\ \A j \in DOMAIN out :
         out[j].about.kind = "rx" /\ out[j].with = {} =>
           \A x \in {A, B} \ {out[j].block} :
             \A s \in Range(stats[x].tx) : s.lid # out[j].about.lid

=============================================================================
