---------------------------- MODULE CommandLine -----------------------------
(***************************************************************************)
(* The command lines of hpav-stats, hpav-discover and loop-mm-types: argp  *)
(* (external) hands the options to _parse_opt in their order, then the     *)
(* arguments, and argp_usage and argp_error end the program.               *)
(***************************************************************************)
EXTENDS Integers, Sequences, FiniteSetsExt, Helper

CONSTANTS Argvs,  \* the command lines
          W32,    \* int and uint32_t have W32 values (2^32)
          W64     \* long and unsigned long have W64 values (2^64)

Programs == {"stats", "discover", "loop"}
Operations == {"request", "confirm", "indication", "response"}

\* A number as it is written: its value, if it begins with one, and whether
\* characters follow it.
Number(v) == [number |-> TRUE, value |-> v, rest |-> FALSE]
Numbers == {n \in [number : BOOLEAN, value : Int, rest : BOOLEAN] : ~n.number => n.value = 0}

\* The options that argp lets through to each program: switches, those with a
\* text (a sequence of characters, see Helper) and those with a number.
Switches ==
  [stats |-> {"N", "L", "r", "t", "a"}, discover |-> {"n", "N"}, loop |-> {"r", "R", "i", "c", "v"}]
OptionsOf(p) ==
  [key : Switches[p] \cup {"b", "l", "0", "1"}]
  \cup [key : IF p = "stats" THEN {"d", "m", "n"} ELSE {"d"}, arg : Seq(Nat)]
  \cup [key : IF p = "stats" THEN {"i", "g"} ELSE {}, arg : Numbers]

ASSUME ArgvsAssumption ==
  \A a \in Argvs : a.prog \in Programs /\ a.opts \in Seq(OptionsOf(a.prog)) /\ a.ifs \in Nat

\* An int has room for a lid and the default gap, and a long for an int.
ASSUME WidthAssumption ==
  /\ W32 \in Nat /\ W32 % 2 = 0 /\ W32 > 512
  /\ W64 \in Nat /\ W64 % 2 = 0 /\ W64 >= W32

VARIABLES
  argv,   \* the program, its options and how many arguments follow
  pc,     \* "options", "ready", "usage", and then the steps of main
  todo,   \* the options that are left
  conf,   \* struct cmd_cnf
  set,    \* nid_set, da_sa_mac_set
  erange  \* errno is ERANGE

parser == <<todo, set, erange>>
cmdVars == <<argv, pc, parser, conf>>

Broadcast == <<255, 255, 255, 255, 255, 255>>
Local == <<0, 176, 82, 0, 0, 1>>
NoMac == <<0, 0, 0, 0, 0, 0>>
NoNid == <<0, 0, 0, 0, 0, 0, 0>>
DefaultGap == 200  \* 200000 microseconds

\* The defaults that the three programs set before argp_parse.
Defaults ==
  [oda |-> Broadcast, ver |-> "1", what |-> {}, dir |-> {}, nid |-> NoNid, mac |-> NoMac,
   lid |-> -1, all |-> FALSE, gap |-> DefaultGap, nwinfo |-> TRUE, numeric |-> FALSE,
   cnt |-> [o \in Operations |-> IF o = "request" THEN 1 ELSE 0], verbose |-> FALSE]

CmdInit ==
  /\ argv \in Argvs
  /\ pc = "options" /\ todo = argv.opts
  /\ conf = Defaults
  /\ set = {} /\ erange = FALSE

\* lid is one byte, whatever was written; gap is a uint32_t.
CmdTypeOK ==
  /\ conf.what \subseteq {"nw", "link"} /\ conf.dir \subseteq {"tx", "rx"}
  /\ conf.oda \in Seq(Byte) /\ Len(conf.oda) = 6
  /\ conf.nid \in Seq(Byte) /\ Len(conf.nid) = 7
  /\ pc # "usage" => conf.lid \in -1..255
  /\ conf.gap \in 0..W32 - 1
  /\ conf.cnt \in [Operations -> Nat]
  /\ set \subseteq {"n", "m"}

-----------------------------------------------------------------------------

prog == argv.prog
Option == Head(todo)
Has(k) == pc = "options" /\ todo # <<>> /\ Option.key = k

Continue == todo' = Tail(todo) /\ UNCHANGED <<argv, pc>>
Refuse == pc' = "usage" /\ UNCHANGED <<argv, parser, conf>>

\* An option without argument that makes c of conf.
Flag(p, k, c) ==
  /\ prog \in p /\ Has(k)
  /\ conf' = c
  /\ Continue
  /\ UNCHANGED <<set, erange>>

Oda == Flag(Programs, "b", [conf EXCEPT !.oda = Broadcast])
       \/ Flag(Programs, "l", [conf EXCEPT !.oda = Local])

Version == \E v \in {"0", "1"} : Flag(Programs, v, [conf EXCEPT !.ver = v])

\* -N, -L, -r, -t and -a of hpav-stats: flags are or-ed.
StatsFlags ==
  \/ Flag({"stats"}, "N", [conf EXCEPT !.what = @ \cup {"nw"}])
  \/ Flag({"stats"}, "L", [conf EXCEPT !.what = @ \cup {"link"}])
  \/ Flag({"stats"}, "r", [conf EXCEPT !.dir = @ \cup {"rx"}])
  \/ Flag({"stats"}, "t", [conf EXCEPT !.dir = @ \cup {"tx"}])
  \/ Flag({"stats"}, "a", [conf EXCEPT !.all = TRUE])

DiscoverFlags ==
  \/ Flag({"discover"}, "n", [conf EXCEPT !.nwinfo = FALSE])
  \/ Flag({"discover"}, "N", [conf EXCEPT !.numeric = TRUE])

\* Mutant: -r counts up by one.
SelectByOne(c, o) ==
  IF o = "request" THEN [c EXCEPT ![o] = @ + 1]
  ELSE [c EXCEPT !["request"] = IF @ = 1 THEN 0 ELSE @, ![o] = @ + 1]

\* msg_type_cnt: a request count of 1 is the default, which the first other
\* operation removes; -r counts by two, so that it stays.
Select(c, o) ==
  IF o = "request" THEN [c EXCEPT ![o] = @ + 2]
  ELSE [c EXCEPT !["request"] = IF @ = 1 THEN 0 ELSE @, ![o] = @ + 1]

OperationOf == [r |-> "request", R |-> "response", i |-> "indication", c |-> "confirm"]

LoopFlags ==
  \/ \E k \in DOMAIN OperationOf :
       Flag({"loop"}, k, [conf EXCEPT !.cnt = Select(@, OperationOf[k])])
  \/ Flag({"loop"}, "v", [conf EXCEPT !.verbose = TRUE])

\* -d, -m and -n: the field of conf is written only when the text is right.
Address(p, k, n, field) ==
  /\ prog \in p /\ Has(k)
  /\ LET r == ParseAddress(Option.arg, n) IN
       IF r.ok THEN /\ conf' = [conf EXCEPT ![field] = r.bytes]
                    /\ set' = IF k = "d" THEN set ELSE set \cup {k}
                    /\ Continue /\ UNCHANGED erange
       ELSE Refuse

Addresses ==
  \/ Address(Programs, "d", 6, "oda")
  \/ Address({"stats"}, "m", 6, "mac")
  \/ Address({"stats"}, "n", 7, "nid")

\* A value outside long is cut to its limits and sets errno.
OutOfLong(v) == v >= W64 \div 2 \/ v < -(W64 \div 2)

\* sscanf("%d"): the low 32 bits of a long, as an int.
Int32(v) ==
  LET long == IF v >= W64 \div 2 THEN -1 ELSE IF v < -(W64 \div 2) THEN 0 ELSE v
      low == long % W32
  IN IF low < W32 \div 2 THEN low ELSE low - W32

\* Mutant: only the upper limit is checked.
LidUpTo(l) == l <= 255

LidAllowed(l) == l \in 0..255

\* -i: the characters behind the number are not looked at.
Lid ==
  /\ prog = "stats" /\ Has("i")
  /\ IF Option.arg.number /\ LidAllowed(Int32(Option.arg.value))
       THEN /\ conf' = [conf EXCEPT !.lid = Int32(Option.arg.value)]
            /\ erange' = (erange \/ OutOfLong(Option.arg.value))
            /\ Continue /\ UNCHANGED set
       ELSE Refuse

\* strtoul: a minus sign negates modulo 2^64, no number at all is 0; the result
\* is cut to 32 bits. errno is compared without having been reset.
Gap ==
  /\ prog = "stats" /\ Has("g")
  /\ LET v == IF Option.arg.number THEN Option.arg.value ELSE 0
         out == v >= W64 \/ v <= -W64
     IN IF erange \/ out \/ Option.arg.rest THEN Refuse
        ELSE /\ conf' = [conf EXCEPT !.gap = v % W32]
             /\ Continue /\ UNCHANGED <<set, erange>>

\* ARGP_KEY_END: an option that restricts nothing means everything.
Completed(c) ==
  [c EXCEPT !.what = IF @ = {} THEN {"nw", "link"} ELSE @,
            !.dir = IF @ = {} THEN {"tx", "rx"} ELSE @]

\* Mutant: the parameters are checked before the defaults are filled in.
EndChecksFirst ==
  /\ pc = "options" /\ todo = <<>>
  /\ IF argv.ifs # 1 \/ (prog = "stats" /\ "link" \in conf.what /\ set # {"n", "m"})
       THEN Refuse
       ELSE /\ pc' = "ready"
            /\ conf' = IF prog = "stats" THEN Completed(conf) ELSE conf
            /\ UNCHANGED <<argv, parser>>

\* ARGP_KEY_ARG and ARGP_KEY_END: exactly one interface, and for a link query
\* of hpav-stats the network and the address of the other end.
End ==
  /\ pc = "options" /\ todo = <<>>
  /\ IF \/ argv.ifs # 1
        \/ prog = "stats" /\ "link" \in Completed(conf).what /\ set # {"n", "m"}
       THEN Refuse
       ELSE /\ pc' = "ready"
            /\ conf' = IF prog = "stats" THEN Completed(conf) ELSE conf
            /\ UNCHANGED <<argv, parser>>

ParseStep ==
  \/ Oda \/ Version \/ StatsFlags \/ DiscoverFlags \/ LoopFlags
  \/ Addresses \/ Lid \/ Gap \/ End

-----------------------------------------------------------------------------
(* Properties: what the option texts say *)

\* The last option of the command line that is one of K.
Positions(K) == {i \in DOMAIN argv.opts : argv.opts[i].key \in K}
Given(K) == Positions(K) # {}
Final(K) == argv.opts[Max(Positions(K))]
Named(K) == {argv.opts[i].key : i \in Positions(K)}

\* "aa:bb:..": the text of n bytes.
Text(b) == [i \in 1..3 * Len(b) - 1 |->
              CASE i % 3 = 0 -> Colon
                [] i % 3 = 1 -> b[(i + 2) \div 3] \div 16
                [] i % 3 = 2 -> b[(i + 2) \div 3] % 16]
BytesAt(s, n) == [k \in 1..n |-> (16 * s[3 * k - 2] + s[3 * k - 1]) % 256]
WellFormed(s, n) == Len(s) = 3 * n - 1 /\ s = Text(BytesAt(s, n))

\* The addresses that are used are the bytes that were written last, and texts
\* that are not addresses are never used: neither the regular expression nor
\* the more tolerant sscanf behind it lets one pass or reads it differently.
AddressesAsGiven ==
  pc \notin {"options", "usage"} =>
    /\ conf.oda = IF ~Given({"b", "l", "d"}) THEN Broadcast
                  ELSE CASE Final({"b", "l", "d"}).key = "b" -> Broadcast
                         [] Final({"b", "l", "d"}).key = "l" -> Local
                         [] OTHER -> BytesAt(Final({"d"}).arg, 6)
    /\ \A i \in Positions({"d"}) : WellFormed(argv.opts[i].arg, 6)
    /\ prog = "stats" =>
         /\ \A i \in Positions({"m"}) : WellFormed(argv.opts[i].arg, 6)
         /\ \A i \in Positions({"n"}) : WellFormed(argv.opts[i].arg, 7)
         /\ Given({"m"}) => conf.mac = BytesAt(Final({"m"}).arg, 6)
         /\ Given({"n"}) => conf.nid = BytesAt(Final({"n"}).arg, 7)

\* The numbers on the command line fit into int, and into uint32_t.
Representable ==
  prog = "stats" =>
    /\ \A i \in Positions({"i"}) : argv.opts[i].arg.value \in -(W32 \div 2)..(W32 \div 2) - 1
    /\ \A i \in Positions({"g"}) : argv.opts[i].arg.value \in 0..W32 - 1

Everything(K, S) == IF K = {} THEN S ELSE K

\* Whatever the order of the options: restrictions add up and no restriction
\* means everything; of the others the last one counts; operations of
\* loop-mm-types are the named ones, or requests when none is named.
SettingsAsGiven ==
  pc \notin {"options", "usage"} /\ Representable =>
    /\ conf.ver = IF Given({"0", "1"}) THEN Final({"0", "1"}).key ELSE "1"
    /\ prog = "stats" =>
         /\ conf.what = {IF k = "N" THEN "nw" ELSE "link" : k \in Everything(Named({"N", "L"}), {"N", "L"})}
         /\ conf.dir = {IF k = "r" THEN "rx" ELSE "tx" : k \in Everything(Named({"r", "t"}), {"r", "t"})}
         /\ conf.lid = IF Given({"i"}) THEN Final({"i"}).arg.value ELSE -1
         /\ conf.gap = IF Given({"g"}) THEN Final({"g"}).arg.value ELSE DefaultGap
         /\ conf.all = Given({"a"})
    /\ prog = "discover" => conf.nwinfo = ~Given({"n"}) /\ conf.numeric = Given({"N"})
    /\ prog = "loop" =>
         {o \in Operations : conf.cnt[o] > 0} =
         {OperationOf[k] : k \in Everything(Named({"r", "R", "i", "c"}), {"r"})}

Accepted == pc \notin {"options", "usage"}

\* The argument is a number of S with nothing behind it.
NumberIn(n, S) == n.number /\ ~n.rest /\ n.value \in S

\* What the program's messages ask for: "a number 0..255" and "time in useconds".
LidNumber(n) == NumberIn(n, 0..255)
GapNumber(n) == NumberIn(n, 0..W32 - 1)

MissingParameter ==
  prog = "stats" /\ (Given({"L"}) \/ ~Given({"N"})) /\ Named({"n", "m"}) # {"n", "m"}

\* Not one interface, a text that is no address, or a link query that lacks
\* the network or the address.
Mistaken ==
  \/ argv.ifs # 1 \/ MissingParameter
  \/ \E i \in Positions({"d"}) : ~WellFormed(argv.opts[i].arg, 6)
  \/ /\ prog = "stats"
     /\ \/ \E i \in Positions({"m"}) : ~WellFormed(argv.opts[i].arg, 6)
        \/ \E i \in Positions({"n"}) : ~WellFormed(argv.opts[i].arg, 7)

Misnumbered ==
  /\ prog = "stats"
  /\ \/ \E i \in Positions({"i"}) : ~LidNumber(argv.opts[i].arg)
     \/ \E i \in Positions({"g"}) : ~GapNumber(argv.opts[i].arg)

\* A command line without a flaw is never refused, whatever the order of its
\* options and whatever numbers _parse_opt read and errno held before; and no
\* order of options gets one past the checks for the interface, the addresses
\* and the parameters of a link query.  Nothing is said here of flawed numbers
\* that are accepted, nor of which option is blamed: see NumbersAsExpected.
RefusedForAReason ==
  /\ pc = "usage" => Mistaken \/ Misnumbered
  /\ Accepted => ~Mistaken

\* The messages of hpav-stats.c:160, 164 and 182 say what -i and -g take: "a
\* number 0..255" and a "time in useconds".  A command line is accepted only if
\* all of its numbers are of that kind, and the message that a -g is not such a
\* time is true of the -g at which parsing stopped.
NumbersAsExpected ==
  prog = "stats" =>
    /\ Accepted => ~Misnumbered
    /\ pc = "usage" /\ todo # <<>> /\ Option.key = "g" => ~GapNumber(Option.arg)

=============================================================================
