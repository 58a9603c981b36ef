------------------------------ MODULE MCLoopMM ------------------------------
(***************************************************************************)
(* Command lines for TLC: every order of up to three options of each       *)
(* program, the numbers around every limit, and every text that differs    *)
(* from an address in one character.                                       *)
(***************************************************************************)
EXTENDS LoopMM, SequencesExt

\* Digits, the colon, 'x' and a blank.
Characters == {0, 15, Colon, 17, 18}

Mac == Text(Local)
Mac2 == Text(<<255, 15, 1, 160, 10, 9>>)
Nid == Text(<<238, 208, 113, 126, 130, 158, 6>>)

OneOff(s) ==
  {[s EXCEPT ![k] = c] : k \in DOMAIN s, c \in Characters}
  \cup {InsertAt(s, k, c) : k \in 1..Len(s) + 1, c \in Characters}
  \cup {RemoveAt(s, k) : k \in DOMAIN s} \cup {<<>>}

Opt(k) == [key |-> k]
OptArg(k, a) == [key |-> k, arg |-> a]
NoNumber(r) == [number |-> FALSE, value |-> 0, rest |-> r]
Followed(n) == [number |-> TRUE, value |-> n, rest |-> TRUE]

Lids == {OptArg("i", n) : n \in {NoNumber(TRUE), Followed(3)} \cup {Number(v) : v \in
          {-2, 0, 5, 255, 256, W32 - 1, W32 + 1, W64 \div 2 - 1, W64 \div 2, -(W64 \div 2) - 1}}}
Gaps == {OptArg("g", n) : n \in {NoNumber(TRUE), NoNumber(FALSE), Followed(3)} \cup
          {Number(v) : v \in {-1, 0, 100, W32 - 1, W32, W64 - 1, W64}}}

Destinations == {OptArg("d", Mac2), OptArg("d", Tail(Mac2))}
Common == {Opt("b"), Opt("l"), Opt("0"), Opt("1")} \cup Destinations
Ends == {OptArg("n", Nid), OptArg("m", Mac2)}

Orders(S, n) == UNION {[1..k -> S] : k \in 0..n}
Lines(p, S, n, ends, ifs) ==
  {[prog |-> p, opts |-> s \o e, ifs |-> k] : s \in Orders(S, n), e \in ends, k \in ifs}

Link == {<<OptArg("n", Nid), OptArg("m", Mac)>>}

\* Link identifiers and gaps of every kind, alone and in pairs.
NumberLines == Lines("stats", Lids \cup Gaps, 2, Link, {1})

CommandLines ==
  Lines("stats", {Opt(k) : k \in {"N", "L", "r", "t", "a"}} \cup Ends, 3, {<<>>} \cup Link, {1})
  \cup Lines("stats", Common \cup {Opt("L"), OptArg("i", Number(5))}, 2, Link, {0, 1, 2})
  \cup NumberLines
  \cup Lines("stats", {OptArg("d", s) : s \in OneOff(Mac)} \cup {OptArg("m", s) : s \in OneOff(Mac2)}
                      \cup {OptArg("n", s) : s \in OneOff(Nid)}, 1, Link, {1})
  \cup Lines("discover", Common \cup {Opt("n"), Opt("N")}, 2, {<<>>}, {0, 1, 2})
  \cup Lines("loop", {Opt(k) : k \in {"r", "R", "i", "c"}}, 3, {<<>>}, {1})
  \cup Lines("loop", Common \cup {Opt("v"), Opt("c")}, 1, {<<>>}, {0, 1, 2})
=============================================================================
