--------------------------- MODULE MCStatsSession ---------------------------
(* Instances of StatsSession for TLC: the command lines that matter. *)
EXTENDS StatsSession

Command(w, d, l, a, g) == [what |-> w, dir |-> d, lid |-> l, all |-> a, gap |-> g]
Session(c, d) == [options |-> c, delay |-> d]

\* Every choice of what to query, for a range and for one link, and -a, in a
\* network that is just fast enough for the phases.
InTime ==
  {Session(Command(w, d, l, FALSE, 1), IF l = -1 THEN 2 ELSE 1) :
     w \in SUBSET {"nw", "link"}, d \in SUBSET Directions, l \in {-1, 2}}
  \cup {Session(Command({"link"}, {}, -1, TRUE, 1), 2)}

\* Answers that arrive while main ends, after it has ended, or, with three
\* units to the gap, between two steps of main.
Late ==
  {Session(Command(w, d, 2, FALSE, 1), x) :
     w \in SUBSET {"nw", "link"}, d \in SUBSET Directions, x \in {4, 6}}
  \cup {Session(Command({}, {}, 2, FALSE, 3), x) : x \in {5, 15}}
  \cup {Session(Command({"link"}, {"rx"}, -1, TRUE, 1), 1)}

\* No gap at all, and gaps of which five, or already two, wrap.
OddGaps ==
  {Session(Command({}, {}, 2, FALSE, g), 1) : g \in {0, 7, 8}}
  \cup {Session(Command({"link"}, {}, -1, FALSE, 7), 1)}

AllSessions == InTime \cup Late \cup OddGaps

SlowNetwork == {Session(Command({"link"}, {}, 2, FALSE, 1), 3)}
=============================================================================
