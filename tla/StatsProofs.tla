----------------------------- MODULE StatsProofs ----------------------------
(***************************************************************************)
(* Proofs about one run of src/bin/hpav-stats.c, for every command line,   *)
(* every gap and width of its product, every delay of the network and any  *)
(* number of faults.                                                       *)
(***************************************************************************)
EXTENDS StatsSession, TLAPS

-----------------------------------------------------------------------------
(* Type correctness *)

\* usleep is never given more than its argument can hold.
LEMMA SleepType ==
  ASSUME TypeOK, NEW n \in Nat
  PROVE  Sleep(n) \in Nat /\ Sleep(n) < Width
<1>1. conf.gap \in Nat /\ conf.gap < Width /\ Width \in Nat \ {0}
  BY BoundsAssumption DEF TypeOK, Options
<1>2. n * conf.gap \in Nat
  BY <1>1
<1>3. \A a \in Nat : a % Width \in 0..Width - 1
  BY <1>1
<1> QED
  BY <1>1, <1>2, <1>3 DEF Sleep

LEMMA ConfType ==
  ASSUME TypeOK
  PROVE  /\ conf.gap \in Nat /\ conf.gap < Width
         /\ conf.lid \in -1..255
         /\ LidLimit \in 0..255
BY BoundsAssumption DEF TypeOK, Options, LidLimit

LEMMA SendType ==
  ASSUME TypeOK, NEW req \in Requests, Send(req), UNCHANGED <<delay, conf>>
  PROVE  /\ quiet' \in 0..conf'.gap
         /\ net' \subseteq [req : Requests, due : 0..delay', ok : BOOLEAN]
         /\ faults' \in 0..MaxFaults
<1>1. quiet' \in 0..conf'.gap
  BY ConfType DEF Send
<1>2. faults' \in 0..MaxFaults
  BY BoundsAssumption DEF Send, Fails, TypeOK
<1>3. \A d \in 0..delay, b \in BOOLEAN :
        [req |-> req, due |-> d, ok |-> b] \in [req : Requests, due : 0..delay, ok : BOOLEAN]
  OBVIOUS
<1>4. net' \subseteq [req : Requests, due : 0..delay', ok : BOOLEAN]
  BY <1>3 DEF Send, TypeOK
<1> QED
  BY <1>1, <1>2, <1>4

\* ARGP_KEY_END fills the two fields with what they may contain.
LEMMA AfterParsingType == ASSUME NEW c \in Options PROVE AfterParsing(c) \in Options
BY DEF AfterParsing, Options, Directions

LEMMA RequestTypes ==
  /\ NetworkRequest \in Requests
  /\ \A d \in Directions, l \in 0..255 : LinkRequest(d, l) \in Requests
  /\ NoAnswer \in [req : Requests, due : {0}, ok : BOOLEAN]
<1>1. NetworkRequest \in Requests
  BY DEF Requests
<1>2. NoAnswer \in [req : Requests, due : {0}, ok : BOOLEAN]
  BY <1>1 DEF NoAnswer
<1>3. \A d \in Directions, l \in 0..255 : LinkRequest(d, l) \in Requests
  BY DEF Requests
<1> QED
  BY <1>1, <1>2, <1>3

LEMMA InitType == Init => TypeOK
<1> SUFFICES ASSUME Init PROVE TypeOK
  OBVIOUS
<1>1. conf \in Options /\ delay \in Nat
  BY SessionsAssumption, AfterParsingType DEF Init
<1>2. conf.gap \in Nat /\ conf.gap < Width
  BY <1>1 DEF Options
<1>3. Service!TypeOK
  BY DEF Init, Service!Init, Service!TypeOK
<1> QED
  BY <1>1, <1>2, <1>3, RequestTypes, BoundsAssumption DEF Init, TypeOK

\* The calls of the event service keep its types.
LEMMA ServiceType ==
  ASSUME Service!TypeOK,
         \/ Service!Open \/ Service!Ask(Reader, "reader") \/ Service!Arm(Reader)
         \/ Service!Fire(Reader) \/ Service!Return \/ Service!Disarm(Reader)
         \/ Service!Close \/ UNCHANGED service
  PROVE  Service!TypeOK'
BY DEF Service!TypeOK, Service!Kinds, Service!Open, Service!Ask, Service!Arm, Service!Fire, Service!Return,
       Service!Disarm, Service!Close, service

LEMMA StartType == TypeOK /\ Start => TypeOK'
<1> SUFFICES ASSUME TypeOK, Start PROVE TypeOK'
  OBVIOUS
<1>1. Service!TypeOK'
  BY ServiceType DEF TypeOK, Start, SetUp, NetCreate, AskForReader, ArmReader
<1>2. faults' \in 0..MaxFaults
  BY BoundsAssumption
  DEF TypeOK, Start, SetUp, NetCreate, AskForReader, ArmReader, Fails
<1> QED
  BY <1>1, <1>2 DEF TypeOK, Start, SetUp, NetCreate, AskForReader, ArmReader, Goto, time

LEMMA RequestType == TypeOK /\ RequestStep => TypeOK'
<1> SUFFICES ASSUME TypeOK, RequestStep PROVE TypeOK'
  OBVIOUS
<1>1. Service!TypeOK'
  BY ServiceType
  DEF TypeOK, RequestStep, RequestNetworkStats, SkipNetworkStats, StartLinkStats, SkipLinkStats,
      SetTransmit, WaitBeforeReceive, SkipReceive, SetReceive, RequestOne, RequestNext, EndLoop
<1>2. \A n \in {1, 2, 5} : Sleep(n) \in Nat /\ Sleep(n) < Width
  BY SleepType
<1>3. 0 \in Nat /\ 0 < Width
  BY ConfType, BoundsAssumption
<1>4. CASE RequestNetworkStats
  BY <1>1, <1>4, SendType, RequestTypes DEF TypeOK, RequestNetworkStats, Goto
<1>5. CASE SkipNetworkStats \/ SetTransmit \/ SetReceive
  BY <1>1, <1>5 DEF TypeOK, SkipNetworkStats, SetTransmit, SetReceive, Goto, time
<1>6. CASE StartLinkStats \/ SkipLinkStats \/ WaitBeforeReceive \/ SkipReceive
  BY <1>1, <1>2, <1>6
  DEF TypeOK, StartLinkStats, SkipLinkStats, WaitBeforeReceive, SkipReceive, Goto
<1>7. ASSUME NEW d \in Directions, RequestOne(d) PROVE TypeOK'
  <2>1. LinkRequest(d, conf.lid) \in Requests
    BY <1>7, ConfType, RequestTypes DEF RequestOne
  <2> QED
    BY <1>1, <1>2, <1>3, <1>7, <2>1, SendType DEF TypeOK, RequestOne, Goto, AfterPhase
<1>8. ASSUME NEW d \in Directions, RequestNext(d) PROVE TypeOK'
  <2>1. lid \in 0..255
    BY <1>8, ConfType DEF RequestNext, TypeOK
  <2>2. LinkRequest(d, lid) \in Requests
    BY <2>1, RequestTypes
  <2> QED
    BY <1>1, <1>2, <1>8, <2>1, <2>2, SendType DEF TypeOK, RequestNext, Goto, Directions
<1>9. ASSUME NEW d \in Directions, EndLoop(d) PROVE TypeOK'
  BY <1>1, <1>2, <1>3, <1>9 DEF TypeOK, EndLoop, Goto, AfterPhase
<1> QED
  BY <1>4, <1>5, <1>6, <1>7, <1>8, <1>9 DEF RequestStep

LEMMA EventThreadType == TypeOK /\ (EventThread \/ KillCallback) => TypeOK'
<1> SUFFICES ASSUME TypeOK, EventThread \/ KillCallback PROVE TypeOK'
  OBVIOUS
<1>1. Service!TypeOK'
  BY ServiceType DEF TypeOK, EventThread, KillCallback, HandleData, PrintStats
<1>2. ASSUME NEW m \in net, HandleData(m) PROVE TypeOK'
  BY <1>1, <1>2 DEF TypeOK, HandleData, time
<1>3. CASE PrintStats
  <2>1. PICK t \in Classified(reqType) :
          report' = IF cb.ok /\ (IF cb.req.what = "nw" THEN "nw" ELSE t) # "none"
                      THEN report \cup {[req |-> cb.req, as |-> IF cb.req.what = "nw" THEN "nw" ELSE t]}
                      ELSE report
    BY <1>3 DEF PrintStats
  <2>2. t \in Directions \cup {"none"}
    BY DEF Classified, TypeOK, Directions
  <2>3. report' \subseteq [req : Requests, as : Directions \cup {"nw"}]
    BY <2>1, <2>2 DEF TypeOK
  <2> QED
    BY <1>1, <1>3, <2>3, RequestTypes DEF TypeOK, PrintStats, time
<1>4. CASE KillCallback
  BY <1>1, <1>4, RequestTypes DEF TypeOK, KillCallback, Goto, time
<1> QED
  BY <1>2, <1>3, <1>4 DEF EventThread

LEMMA FinishType == TypeOK /\ Finish => TypeOK'
<1> SUFFICES ASSUME TypeOK, Finish PROVE TypeOK'
  OBVIOUS
<1>1. Service!TypeOK'
  BY ServiceType DEF TypeOK, Finish, StartTeardown, DisarmReader, CloseService, NetDestroy
<1> QED
  BY <1>1 DEF TypeOK, Finish, StartTeardown, DisarmReader, CloseService, NetDestroy, Goto, time

LEMMA TickType == TypeOK /\ Tick => TypeOK'
<1> SUFFICES ASSUME TypeOK, Tick PROVE TypeOK'
  OBVIOUS
<1>1. Service!TypeOK'
  BY ServiceType DEF TypeOK, Tick
<1>2. ASSUME NEW m \in net
      PROVE  [m EXCEPT !.due = IF @ > 0 THEN @ - 1 ELSE 0] \in
               [req : Requests, due : 0..delay, ok : BOOLEAN]
  BY DEF TypeOK
<1>3. net' \subseteq [req : Requests, due : 0..delay', ok : BOOLEAN]
  BY <1>2 DEF Tick
<1>4. wait' \in Nat /\ wait' < Width /\ quiet' \in 0..conf'.gap
  BY ConfType, BoundsAssumption DEF TypeOK, Tick
<1> QED
  BY <1>1, <1>3, <1>4 DEF TypeOK, Tick

LEMMA TypeStep == TypeOK /\ [Next]_vars => TypeOK'
<1>1. TypeOK /\ UNCHANGED vars => TypeOK'
  BY ServiceType DEF TypeOK, vars, time, service
<1> QED
  BY <1>1, StartType, RequestType, FinishType, EventThreadType, TickType
  DEF Next, MainStep, Over

\* Every variable of hpav-stats keeps its type: the loop over the link
\* identifiers ends at 256 and never queries one that does not fit a byte.
THEOREM StatsTypeCorrect == Spec => []TypeOK
BY InitType, TypeStep, PTL DEF Spec

-----------------------------------------------------------------------------
(* The reader and its socket, and the variable its callback reads *)

\* The event thread works, or may start to work, on an answer.
Live == running = Reader \/ stage[Reader] = "armed"

\* What main has to have done, and not yet undone, at each of its steps.
StepsInv ==
  /\ pc \in {"setup", "net", "ask", "arm", "exited"} => ~Live /\ stage[Reader] = "idle"
  /\ pc \in {"ask", "arm", "nw", "link", "set_tx", "tx", "gap", "set_rx", "rx", "final", "teardown", "hung"}
       => sock = "open"
  /\ pc \in {"close", "destroy", "done"} => ~Live
  /\ kind[Reader] # "single"
  /\ running = Reader => stage[Reader] = "armed"

\* Before main has assigned link_stats_req_type nothing was asked about links.
UnsetInv ==
  /\ reqType = "unset" => cb.req.what = "nw" /\ \A m \in net : m.req.what = "nw"
  /\ pc \in {"tx", "gap", "set_rx", "rx"} => reqType # "unset"

SInv == TypeOK /\ StepsInv /\ UnsetInv

LEMMA InitSafe == Init => SInv
<1> SUFFICES ASSUME Init PROVE SInv
  OBVIOUS
<1> QED
  BY InitType, BoundsAssumption
  DEF Init, SInv, StepsInv, UnsetInv, Live, Service!Init, NoAnswer, NetworkRequest

LEMMA StepsStep == SInv /\ [Next]_vars => StepsInv'
<1> SUFFICES ASSUME SInv, [Next]_vars PROVE StepsInv'
  OBVIOUS
<1> USE BoundsAssumption DEF SInv, StepsInv, Live, TypeOK, Service!TypeOK
<1>1. CASE Start
  <2>1. CASE SetUp \/ NetCreate
    BY <2>1 DEF SetUp, NetCreate, Goto, Service!Open, service
  <2>2. CASE AskForReader
    BY <2>2 DEF AskForReader, Goto, Service!Ask
  <2>3. CASE ArmReader
    BY <2>3 DEF ArmReader, Goto, Service!Arm, Service!Disarm
  <2> QED
    BY <1>1, <2>1, <2>2, <2>3 DEF Start
<1>2. CASE RequestStep
  BY <1>2 DEF RequestStep, RequestNetworkStats, SkipNetworkStats, StartLinkStats, SkipLinkStats,
              SetTransmit, WaitBeforeReceive, SkipReceive, SetReceive, RequestOne, RequestNext,
              EndLoop, AfterPhase, Directions, Goto, service
<1>3. CASE Finish
  BY <1>3 DEF Finish, StartTeardown, DisarmReader, CloseService, NetDestroy, Goto, service,
              Service!Disarm, Service!Close
<1>4. CASE EventThread \/ KillCallback
  BY <1>4 DEF EventThread, KillCallback, HandleData, PrintStats, Goto, Service!Fire, Service!Return
<1>5. CASE Tick \/ UNCHANGED vars
  BY <1>5 DEF Tick, vars, service
<1> QED
  BY <1>1, <1>2, <1>3, <1>4, <1>5 DEF Next, MainStep, Over

\* A request becomes part of the network as it was made.
LEMMA SendAdds ==
  ASSUME TypeOK, NEW req \in Requests, Send(req)
  PROVE  \A m \in net' : m \in net \/ m.req = req
BY DEF Send

LEMMA UnsetStep == SInv /\ [Next]_vars => UnsetInv'
<1> SUFFICES ASSUME SInv, [Next]_vars PROVE UnsetInv'
  OBVIOUS
<1> USE DEF SInv, UnsetInv
<1>1. CASE Start
  BY <1>1 DEF Start, SetUp, NetCreate, AskForReader, ArmReader, Goto
<1>2. CASE RequestNetworkStats
  <2>1. \A m \in net' : m \in net \/ m.req.what = "nw"
    BY <1>2, SendAdds, RequestTypes DEF RequestNetworkStats, NetworkRequest
  <2> QED
    BY <1>2, <2>1 DEF RequestNetworkStats, Goto
<1>3. CASE SkipNetworkStats \/ StartLinkStats \/ SkipLinkStats \/ SetTransmit \/
           WaitBeforeReceive \/ SkipReceive \/ SetReceive
  BY <1>3 DEF SkipNetworkStats, StartLinkStats, SkipLinkStats, SetTransmit, WaitBeforeReceive,
              SkipReceive, SetReceive, Goto
<1>4. ASSUME NEW d \in Directions, RequestOne(d) \/ RequestNext(d) \/ EndLoop(d) PROVE UnsetInv'
  BY <1>4 DEF RequestOne, RequestNext, EndLoop, AfterPhase, Directions, Goto
<1>5. CASE Finish
  BY <1>5 DEF Finish, StartTeardown, DisarmReader, CloseService, NetDestroy, Goto
<1>6. CASE EventThread \/ KillCallback
  BY <1>6 DEF EventThread, KillCallback, HandleData, PrintStats, Goto, NoAnswer, NetworkRequest
<1>7. CASE Tick
  <2>1. \A m \in net' : \E n \in net : m.req = n.req
    BY <1>7 DEF Tick, TypeOK
  <2> QED
    BY <1>7, <2>1 DEF Tick
<1>8. CASE UNCHANGED vars
  BY <1>8 DEF vars
<1> QED
  BY <1>1, <1>2, <1>3, <1>4, <1>5, <1>6, <1>7, <1>8 DEF Next, MainStep, RequestStep, Over

LEMMA SafeInvariant == Spec => []SInv
<1>1. SInv /\ [Next]_vars => SInv'
  BY StepsStep, UnsetStep, TypeStep DEF SInv
<1> QED
  BY <1>1, InitSafe, PTL DEF Spec

\* net_destroy closes the socket only when the event thread can no longer read
\* from it, however main's calls fail and the teardown meets a callback.
THEOREM SocketSafe == Spec => []SocketOutlivesReader
<1>1. SInv => SocketOutlivesReader
  BY DEF SInv, StepsInv, Live, TypeOK, SocketOutlivesReader
<1> QED
  BY <1>1, SafeInvariant, PTL

\* No link statistics are classified by the uninitialised link_stats_req_type.
THEOREM RequestTypeSet == Spec => []RequestTypeSetBeforeUse
<1>1. SInv => RequestTypeSetBeforeUse
  BY DEF SInv, UnsetInv, RequestTypeSetBeforeUse
<1> QED
  BY <1>1, SafeInvariant, PTL

-----------------------------------------------------------------------------
(***************************************************************************)
(* What the sleeps of src/bin/hpav-stats.c achieve, for every gap, every   *)
(* delay of the network and every command line: requests are spaced, and   *)
(* the callback, which runs concurrently with main and reads a variable    *)
(* that main overwrites, prints every answer as what was asked for.        *)
(***************************************************************************)

\* The products fit into 32 bits.
LEMMA SleepIsProduct ==
  ASSUME TypeOK
  PROVE  /\ 2 * conf.gap < Width => Sleep(1) = conf.gap /\ Sleep(2) = 2 * conf.gap
         /\ 5 * conf.gap < Width => Sleep(5) = 5 * conf.gap
<1>1. conf.gap \in Nat /\ conf.gap < Width /\ Width \in Nat
  BY ConfType, BoundsAssumption
<1>2. \A n \in Nat : n < Width => n % Width = n
  BY <1>1
<1>3. 2 * conf.gap < Width => Sleep(1) = conf.gap /\ Sleep(2) = 2 * conf.gap
  BY <1>1, <1>2 DEF Sleep
<1>4. 5 * conf.gap < Width => Sleep(5) = 5 * conf.gap
  BY <1>1, <1>2 DEF Sleep
<1> QED
  BY <1>3, <1>4

LEMMA NumbersType ==
  ASSUME TypeOK
  PROVE  /\ conf.gap \in Nat /\ wait \in Nat /\ quiet \in Nat /\ quiet <= conf.gap
         /\ delay \in Nat
         /\ \A m \in net : m.due \in Nat /\ m.due <= delay
BY ConfType DEF TypeOK

LEMMA RequestShape ==
  \A r \in Requests : r.what = "nw" \/ (r.what = "link" /\ r.dir \in Directions)
BY DEF Requests, NetworkRequest, LinkRequest

LEMMA ConfConstant == [Next]_vars => conf' = conf /\ delay' = delay
BY DEF Next, MainStep, Start, SetUp, NetCreate, AskForReader, ArmReader, RequestStep,
       RequestNetworkStats, SkipNetworkStats, StartLinkStats, SkipLinkStats, SetTransmit,
       WaitBeforeReceive, SkipReceive, SetReceive, RequestOne, RequestNext, EndLoop, Finish,
       StartTeardown, DisarmReader, CloseService, NetDestroy, EventThread, HandleData, PrintStats,
       KillCallback, Tick, Over, vars, time

-----------------------------------------------------------------------------
(* The gap between requests *)

\* Where main may send next, the last request is one gap old when it wakes up.
SpacingInv ==
  2 * conf.gap < Width =>
    /\ pc \in {"setup", "net", "ask", "arm", "nw"} => quiet = conf.gap
    /\ pc \in {"set_tx", "tx", "set_rx", "rx"} => quiet + wait >= conf.gap

LEMMA SpacingStep == TypeOK /\ SpacingInv /\ [Next]_vars => SpacingInv'
<1> SUFFICES ASSUME TypeOK, SpacingInv, [Next]_vars, 2 * conf.gap < Width PROVE SpacingInv'
  BY ConfConstant DEF SpacingInv
<1> USE NumbersType, SleepIsProduct DEF SpacingInv
<1>1. CASE Start
  BY <1>1 DEF Start, SetUp, NetCreate, AskForReader, ArmReader, Goto, time
<1>2. CASE RequestNetworkStats \/ SkipNetworkStats \/ StartLinkStats \/ SkipLinkStats \/
           SetTransmit \/ WaitBeforeReceive \/ SkipReceive \/ SetReceive
  BY <1>2 DEF RequestNetworkStats, SkipNetworkStats, StartLinkStats, SkipLinkStats, SetTransmit,
              WaitBeforeReceive, SkipReceive, SetReceive, Goto, time
<1>3. ASSUME NEW d \in Directions, RequestOne(d) \/ RequestNext(d) \/ EndLoop(d) PROVE SpacingInv'
  <2>1. CASE RequestOne(d) \/ EndLoop(d)
    BY <2>1 DEF RequestOne, EndLoop, AfterPhase, Goto
  <2>2. CASE RequestNext(d)
    BY <2>2 DEF RequestNext, Goto, Send, Directions
  <2> QED
    BY <1>3, <2>1, <2>2
<1>4. CASE Finish
  BY <1>4 DEF Finish, StartTeardown, DisarmReader, CloseService, NetDestroy, Goto, time
<1>5. CASE EventThread \/ KillCallback
  BY <1>5 DEF EventThread, KillCallback, HandleData, PrintStats, Goto, time
<1>6. CASE Tick
  BY <1>6 DEF Tick
<1>7. CASE UNCHANGED vars
  BY <1>7 DEF vars, time
<1> QED
  BY <1>1, <1>2, <1>3, <1>4, <1>5, <1>6, <1>7 DEF Next, MainStep, RequestStep, Over

\* Whenever main sends, the request before it is message_gap_usec old at least,
\* whatever the two ask for, as long as twice the gap fits into 32 bits.
THEOREM GapIsKept == Spec => GapKept
<1>1. Init => SpacingInv
  BY DEF Init, SpacingInv
<1>2. ASSUME TypeOK, SpacingInv, 2 * conf.gap < Width, Sending PROVE quiet = conf.gap
  <2> USE <1>2, NumbersType DEF SpacingInv
  <2>1. CASE RequestNetworkStats
    BY <2>1 DEF RequestNetworkStats, Goto
  <2>2. ASSUME NEW d \in Directions, RequestOne(d) \/ RequestNext(d) PROVE quiet = conf.gap
    BY <2>2 DEF RequestOne, RequestNext, Goto, Directions
  <2> QED
    BY <2>1, <2>2 DEF Sending
<1>3. TypeOK /\ SpacingInv => [2 * conf.gap < Width /\ Sending => quiet = conf.gap]_vars
  BY <1>2
<1> QED
  BY <1>1, <1>3, SpacingStep, InitType, TypeStep, PTL DEF Spec, GapKept

-----------------------------------------------------------------------------
(* Attribution *)

About(m, d) == m.req.what = "link" /\ m.req.dir = d

\* The value of link_stats_req_type in each phase; main never goes back.
PhaseInv ==
  /\ pc \in {"setup", "net", "ask", "arm", "nw", "link", "set_tx"} => reqType = "unset"
  /\ pc \in {"tx", "gap", "set_rx"} => reqType = "tx"
  /\ pc = "rx" => reqType = "rx"
  /\ reqType = "tx" => ~About(cb, "rx") /\ \A m \in net : ~About(m, "rx")

\* The age of an answer that is still on its way: it is not younger than the
\* last request.
AgeInv == \A m \in net : m.due = 0 \/ m.due + quiet <= delay

\* Transmit answers are handled before main wakes up and starts the receive
\* phase, the one in a callback included.
HandledInv ==
  /\ pc = "gap" /\ conf.lid = -1 => quiet = conf.gap
  /\ pc = "set_rx" /\ Live => \A m \in net : About(m, "tx") => m.due < wait
  /\ pc = "set_rx" /\ wait = 0 /\ running = Reader => ~About(cb, "tx")
  /\ reqType = "rx" /\ Live =>
       (running = Reader => ~About(cb, "tx")) /\ \A m \in net : ~About(m, "tx")

TInv ==
  /\ SInv /\ SpacingInv /\ PhaseInv /\ AgeInv
  /\ BetweenPhases => HandledInv /\ AttributionCorrect

\* An answer loses time until it is handled, and nothing else.
LEMMA TickNet ==
  ASSUME TypeOK, Tick
  PROVE  \A m \in net' : \E n \in net :
           /\ m.req = n.req /\ m.ok = n.ok
           /\ m.due = IF n.due > 0 THEN n.due - 1 ELSE 0
BY DEF Tick, TypeOK

\* A request adds nothing but its own answer.
LEMMA SendNet ==
  ASSUME TypeOK, NEW req \in Requests, Send(req)
  PROVE  \A m \in net' : m \in net \/ (m.req = req /\ m.due \in 0..delay)
BY DEF Send

LEMMA LidType ==
  ASSUME TypeOK, NEW d \in Directions
  PROVE  /\ RequestOne(d) => LinkRequest(d, conf.lid) \in Requests
         /\ RequestNext(d) => LinkRequest(d, lid) \in Requests
<1>1. RequestOne(d) => conf.lid \in 0..255
  BY ConfType DEF RequestOne
<1>2. RequestNext(d) => lid \in 0..255
  BY ConfType DEF RequestNext, TypeOK
<1> QED
  BY <1>1, <1>2, RequestTypes

LEMMA LinkRequestNet ==
  ASSUME TypeOK, NEW d \in Directions, RequestOne(d) \/ RequestNext(d)
  PROVE  \A m \in net' : m \in net \/ m.req.dir = d
<1>1. PICK l : LinkRequest(d, l) \in Requests /\ Send(LinkRequest(d, l))
  BY LidType DEF RequestOne, RequestNext
<1>2. \A m \in net' : m \in net \/ m.req = LinkRequest(d, l)
  BY <1>1, SendNet
<1> QED
  BY <1>2 DEF LinkRequest

LEMMA PhaseStep == SInv /\ PhaseInv /\ [Next]_vars => PhaseInv'
<1> SUFFICES ASSUME SInv, PhaseInv, [Next]_vars PROVE PhaseInv'
  OBVIOUS
<1>0. TypeOK
  BY DEF SInv
<1> USE DEF PhaseInv, About
<1>1. CASE Start
  BY <1>1 DEF Start, SetUp, NetCreate, AskForReader, ArmReader, Goto
<1>2. CASE RequestNetworkStats
  BY <1>2, <1>0, SendNet, RequestTypes DEF RequestNetworkStats, NetworkRequest, Goto
<1>3. CASE SkipNetworkStats \/ StartLinkStats \/ SkipLinkStats \/ WaitBeforeReceive \/ SkipReceive
           \/ SetReceive
  BY <1>3 DEF SkipNetworkStats, StartLinkStats, SkipLinkStats, WaitBeforeReceive,
              SkipReceive, SetReceive, Goto
<1>4. CASE SetTransmit
  BY <1>4 DEF SetTransmit, SInv, UnsetInv, Goto
<1>5. ASSUME NEW d \in Directions, RequestOne(d) \/ RequestNext(d) PROVE PhaseInv'
  <2>1. \A m \in net' : m \in net \/ m.req.dir = d
    BY <1>5, <1>0, LinkRequestNet
  <2> QED
    BY <1>5, <2>1 DEF RequestOne, RequestNext, AfterPhase, Directions, Goto
<1>6. ASSUME NEW d \in Directions, EndLoop(d) PROVE PhaseInv'
  BY <1>6 DEF EndLoop, AfterPhase, Directions, Goto
<1>7. CASE Finish
  BY <1>7 DEF Finish, StartTeardown, DisarmReader, CloseService, NetDestroy, Goto
<1>8. CASE EventThread \/ KillCallback
  BY <1>8 DEF EventThread, KillCallback, HandleData, PrintStats, Goto, NoAnswer, NetworkRequest
<1>9. CASE Tick
  BY <1>9, <1>0, TickNet DEF Tick
<1>10. CASE UNCHANGED vars
  BY <1>10 DEF vars
<1> QED
  BY <1>1, <1>2, <1>3, <1>4, <1>5, <1>6, <1>7, <1>8, <1>9, <1>10
  DEF Next, MainStep, RequestStep, Over

LEMMA AgeStep == TypeOK /\ AgeInv /\ [Next]_vars => AgeInv'
<1> SUFFICES ASSUME TypeOK, AgeInv, [Next]_vars PROVE AgeInv'
  OBVIOUS
<1> USE NumbersType DEF AgeInv
<1>1. ASSUME NEW req \in Requests, Send(req), delay' = delay PROVE AgeInv'
  BY <1>1, SendNet DEF Send
<1>2. CASE RequestNetworkStats
  BY <1>1, <1>2, RequestTypes DEF RequestNetworkStats
<1>3. ASSUME NEW d \in Directions, RequestOne(d) \/ RequestNext(d) PROVE AgeInv'
  BY <1>1, <1>3, LidType DEF RequestOne, RequestNext
<1>4. CASE Tick
  BY <1>4, TickNet DEF Tick
<1>5. CASE EventThread \/ KillCallback
  BY <1>5 DEF EventThread, KillCallback, HandleData, PrintStats, time
<1>6. CASE Start \/ Finish
  BY <1>6 DEF Start, SetUp, NetCreate, AskForReader, ArmReader, Finish, StartTeardown,
              DisarmReader, CloseService, NetDestroy, time
<1>7. CASE SkipNetworkStats \/ StartLinkStats \/ SkipLinkStats \/ SetTransmit \/
           WaitBeforeReceive \/ SkipReceive \/ SetReceive \/ \E d \in Directions : EndLoop(d)
  BY <1>7 DEF SkipNetworkStats, StartLinkStats, SkipLinkStats, SetTransmit,
              WaitBeforeReceive, SkipReceive, SetReceive, EndLoop, time
<1>8. CASE UNCHANGED vars
  BY <1>8 DEF vars, time
<1> QED
  BY <1>2, <1>3, <1>4, <1>5, <1>6, <1>7, <1>8 DEF Next, MainStep, RequestStep, Over

\* The reader stays armed, or not, unless main arms or disarms it; where the
\* receive phase matters, it has been armed long before.
LEMMA HandledStep ==
  TInv /\ BetweenPhases /\ [Next]_vars => HandledInv'
<1> SUFFICES ASSUME TInv, BetweenPhases, [Next]_vars PROVE HandledInv'
  OBVIOUS
<1>0. TypeOK /\ HandledInv /\ PhaseInv /\ AgeInv /\ StepsInv /\ SpacingInv
  BY DEF TInv, SInv
<1>a. /\ conf.gap \in Nat /\ wait \in Nat /\ quiet \in Nat /\ quiet <= conf.gap
      /\ delay \in Nat /\ \A m \in net : m.due \in Nat /\ m.due <= delay
  BY <1>0, NumbersType
<1> USE <1>0, <1>a DEF HandledInv, Live, About
<1>1. CASE Start
  <2>1. reqType = "unset" /\ reqType' = reqType
    BY <1>1 DEF Start, SetUp, NetCreate, AskForReader, ArmReader, Goto, PhaseInv
  <2> QED
    BY <1>1, <2>1 DEF Start, SetUp, NetCreate, AskForReader, ArmReader, Goto
<1>2. CASE RequestNetworkStats \/ SkipNetworkStats \/ StartLinkStats \/ SkipLinkStats \/ SetTransmit
  <2>1. reqType' # "rx"
    BY <1>2 DEF RequestNetworkStats, SkipNetworkStats, StartLinkStats, SkipLinkStats, SetTransmit,
                Goto, PhaseInv
  <2>2. CASE SetTransmit
    BY <2>1, <2>2 DEF SetTransmit, Goto, PhaseInv, SpacingInv, BetweenPhases, time
  <2>3. CASE RequestNetworkStats \/ SkipNetworkStats \/ StartLinkStats \/ SkipLinkStats
    BY <2>1, <2>3 DEF RequestNetworkStats, SkipNetworkStats, StartLinkStats, SkipLinkStats, Goto
  <2> QED
    BY <1>2, <2>2, <2>3
<1>3. CASE WaitBeforeReceive
  <2>1. wait' = 2 * conf.gap /\ net' = net /\ pc' = "set_rx" /\ reqType' = "tx" /\ wait' > 0
    BY <1>3, SleepIsProduct DEF WaitBeforeReceive, Goto, PhaseInv, BetweenPhases
  <2>2. ASSUME NEW m \in net PROVE m.due < 2 * conf.gap
    <3>1. CASE conf.lid = -1
      BY <1>3, <3>1 DEF WaitBeforeReceive, Goto, AgeInv, BetweenPhases
    <3>2. CASE conf.lid # -1
      BY <3>2 DEF BetweenPhases
    <3> QED
      BY <3>1, <3>2
  <2> QED
    BY <2>1, <2>2
<1>4. CASE SkipReceive \/ SetReceive
  BY <1>4 DEF SkipReceive, SetReceive, Goto, PhaseInv, service
<1>5. ASSUME NEW d \in Directions, RequestOne(d) PROVE HandledInv'
  <2>1. \A m \in net' : m \in net \/ m.req.dir = d
    BY <1>5, LinkRequestNet
  <2> QED
    BY <1>5, <2>1 DEF RequestOne, Goto, PhaseInv, AfterPhase, Directions, service
<1>6. ASSUME NEW d \in Directions, RequestNext(d) PROVE HandledInv'
  <2>1. \A m \in net' : m \in net \/ m.req.dir = d
    BY <1>6, LinkRequestNet
  <2> QED
    BY <1>6, <2>1 DEF RequestNext, Goto, PhaseInv, Directions, service
<1>7. ASSUME NEW d \in Directions, EndLoop(d) PROVE HandledInv'
  BY <1>7 DEF EndLoop, Goto, AfterPhase, Directions, SpacingInv, BetweenPhases, service
<1>8. CASE Finish
  BY <1>8 DEF Finish, StartTeardown, DisarmReader, CloseService, NetDestroy, Goto, service,
              Service!Disarm, Service!Close, StepsInv, TypeOK, Service!TypeOK
<1>9. ASSUME NEW m \in net, HandleData(m) PROVE HandledInv'
  BY <1>9 DEF HandleData, Service!Fire, time, TypeOK, Service!TypeOK
<1>10. CASE PrintStats \/ KillCallback
  BY <1>10, BoundsAssumption DEF PrintStats, KillCallback, Goto, Service!Return, time, StepsInv
<1>11. CASE Tick
  <2>1. running # Reader /\ (stage[Reader] = "armed" => \A m \in net : m.due > 0)
    BY <1>11, BoundsAssumption DEF Tick
  <2>2. \A m \in net' : \E n \in net :
          m.req = n.req /\ m.due = IF n.due > 0 THEN n.due - 1 ELSE 0
    BY <1>11, TickNet
  <2> QED
    BY <1>11, <2>1, <2>2 DEF Tick, service
<1>12. CASE UNCHANGED vars
  BY <1>12 DEF vars, time, service
<1> QED
  BY <1>1, <1>2, <1>3, <1>4, <1>5, <1>6, <1>7, <1>8, <1>9, <1>10, <1>11, <1>12
  DEF Next, MainStep, RequestStep, EventThread, Over

\* Only a callback that ends adds to the report, and link_stats_req_type is
\* then what it was when the request was sent.
LEMMA AttributionStep ==
  TInv /\ BetweenPhases /\ [Next]_vars => AttributionCorrect'
<1> SUFFICES ASSUME TInv, BetweenPhases, [Next]_vars PROVE AttributionCorrect'
  OBVIOUS
<1>0. TypeOK /\ HandledInv /\ PhaseInv /\ StepsInv /\ UnsetInv /\ AttributionCorrect
  BY DEF TInv, SInv
<1>1. CASE PrintStats
  <2>1. PICK t \in Classified(reqType) :
          report' = IF cb.ok /\ (IF cb.req.what = "nw" THEN "nw" ELSE t) # "none"
                      THEN report \cup {[req |-> cb.req, as |-> IF cb.req.what = "nw" THEN "nw" ELSE t]}
                      ELSE report
    BY <1>1 DEF PrintStats
  <2>2. running = Reader
    BY <1>0, <1>1 DEF PrintStats, Service!Return, TypeOK, Service!TypeOK
  <2>3. cb.req \in Requests
    BY <1>0 DEF TypeOK
  <2>4. cb.req.what = "link" => reqType \in Directions /\ t = reqType
    BY <1>0 DEF UnsetInv, Classified, TypeOK, Directions
  <2>5. cb.req.what = "link" => cb.req.dir = t
    BY <1>0, <2>2, <2>3, <2>4, RequestShape DEF HandledInv, PhaseInv, Live, About, Directions
  <2>6. \A r \in report' : r \in report \/ (r.req = cb.req /\ (cb.req.what = "link" => r.as = t))
    BY <2>1
  <2> QED
    BY <1>0, <2>5, <2>6 DEF AttributionCorrect
<1>2. CASE report' = report
  BY <1>0, <1>2 DEF AttributionCorrect
<1>3. report' = report \/ PrintStats
  BY DEF Next, MainStep, Start, SetUp, NetCreate, AskForReader, ArmReader, RequestStep,
         RequestNetworkStats, SkipNetworkStats, StartLinkStats, SkipLinkStats, SetTransmit,
         WaitBeforeReceive, SkipReceive, SetReceive, RequestOne, RequestNext, EndLoop, Finish,
         StartTeardown, DisarmReader, CloseService, NetDestroy, EventThread, HandleData,
         KillCallback, Tick, Over, vars
<1> QED
  BY <1>1, <1>2, <1>3

LEMMA TimingInvariant == Spec => []TInv
<1>1. Init => TInv
  BY InitSafe
  DEF Init, TInv, SpacingInv, PhaseInv, AgeInv, HandledInv, AttributionCorrect, About, NoAnswer,
      NetworkRequest
<1>2. TInv /\ [Next]_vars => TInv'
  <2> SUFFICES ASSUME TInv, [Next]_vars PROVE TInv'
    OBVIOUS
  <2>1. SInv' /\ SpacingInv' /\ PhaseInv' /\ AgeInv'
    BY StepsStep, UnsetStep, TypeStep, SpacingStep, PhaseStep, AgeStep DEF TInv, SInv
  <2>2. BetweenPhases' = BetweenPhases
    BY ConfConstant DEF BetweenPhases
  <2> QED
    BY <2>1, <2>2, HandledStep, AttributionStep DEF TInv
<1> QED
  BY <1>1, <1>2, PTL DEF Spec

\* Every answer is printed as the kind of statistics it is, although the
\* callback only knows link_stats_req_type as main has set it meanwhile: for
\* every gap and network, if the network answers between the phases.
THEOREM TimelyAnswersAttributed == Spec => []TimelyAttribution
<1>1. TInv => TimelyAttribution
  BY DEF TInv, TimelyAttribution
<1> QED
  BY <1>1, TimingInvariant, PTL

-----------------------------------------------------------------------------
(* Completeness *)

\* Nothing failed, and the last sleep outlasts the slowest answer.
Undisturbed == faults = 0 /\ 5 * conf.gap < Width /\ delay < 5 * conf.gap

\* Requests that main has still to send: the rest of a range, and the phases
\* that follow.
ToCome(r) ==
  \/ pc \in {"setup", "net", "ask", "arm", "nw"}
  \/ pc \in {"link", "set_tx"} /\ r.what = "link"
  \/ pc \in {"tx", "gap", "set_rx"} /\ r.what = "link" /\ r.dir = "rx"
  \/ pc \in {"tx", "rx"} /\ r.what = "link" /\ r.dir = pc /\ (conf.lid # -1 \/ lid <= r.lid)

\* Requests that were answered, or will be in time.
Answered(r) ==
  \/ \E m \in net : m.req = r
  \/ running = Reader /\ cb.req = r
  \/ \E x \in report : x.req = r

CoveredInv ==
  pc \notin {"exited", "hung"} => \A r \in Asked : ToCome(r) \/ Answered(r)

\* Answers are good, the reader hears them, and the last one is handled before
\* main wakes up and tears down.
HeardInv ==
  /\ \A m \in net : m.ok
  /\ running = Reader => cb.ok
  /\ pc \in {"nw", "link", "set_tx", "tx", "gap", "set_rx", "rx", "final"} => stage[Reader] = "armed"
  /\ pc = "final" => \A m \in net : m.due < wait
  /\ pc = "final" /\ wait = 0 => running # Reader
  /\ pc \in {"teardown", "close", "destroy", "done"} => net = {} /\ running # Reader

CInv == SInv /\ (Undisturbed => HeardInv /\ CoveredInv)

\* The two shapes of what can be asked for.
LEMMA AskedShape ==
  ASSUME TypeOK, NEW r \in Asked
  PROVE  \/ r = NetworkRequest /\ r.what = "nw" /\ "nw" \in conf.what
         \/ /\ "link" \in conf.what /\ r.what = "link" /\ r.dir \in conf.dir
            /\ r.dir \in Directions /\ r.lid \in Int /\ r = LinkRequest(r.dir, r.lid)
            /\ IF conf.lid # -1 THEN r.lid = conf.lid ELSE 0 <= r.lid /\ r.lid <= LidLimit
<1>1. CASE r = NetworkRequest /\ "nw" \in conf.what
  BY <1>1 DEF NetworkRequest
<1>2. ASSUME NEW d \in conf.dir,
             NEW l \in IF conf.lid # -1 THEN {conf.lid} ELSE IF conf.all THEN 0..AllLimit ELSE 0..3,
             r = LinkRequest(d, l), "link" \in conf.what
      PROVE  /\ r.what = "link" /\ r.dir \in conf.dir /\ r.dir \in Directions
             /\ r.lid \in Int /\ r = LinkRequest(r.dir, r.lid)
             /\ IF conf.lid # -1 THEN r.lid = conf.lid ELSE 0 <= r.lid /\ r.lid <= LidLimit
  <2>1. r.what = "link" /\ r.dir = d /\ r.lid = l
    BY <1>2 DEF LinkRequest
  <2>2. d \in Directions /\ conf.lid \in Int
    BY ConfType DEF TypeOK, Options
  <2>3. l \in Int /\ IF conf.lid # -1 THEN l = conf.lid ELSE 0 <= l /\ l <= LidLimit
    BY <2>2, BoundsAssumption DEF LidLimit
  <2> QED
    BY <1>2, <2>1, <2>2, <2>3
<1>3. \/ r = NetworkRequest /\ "nw" \in conf.what
      \/ /\ "link" \in conf.what
         /\ \E d \in conf.dir, l \in IF conf.lid # -1 THEN {conf.lid}
                                     ELSE IF conf.all THEN 0..AllLimit ELSE 0..3 :
              r = LinkRequest(d, l)
  BY DEF Asked
<1> QED
  BY <1>1, <1>2, <1>3

\* Without a failure every request is answered and the answer is good.
LEMMA SendUndisturbed ==
  ASSUME TypeOK, NEW req \in Requests, Send(req), faults' = 0, delay \in Nat
  PROVE  /\ faults = 0 /\ net \subseteq net'
         /\ \A m \in net' : m \in net \/ (m.ok /\ m.req = req /\ m.due \in 0..delay)
         /\ \E m \in net' : m.req = req
<1>1. faults \in Nat /\ ~Fails
  BY BoundsAssumption DEF TypeOK, Fails
<1>2. PICK d \in 0..delay : net' = net \cup {[req |-> req, due |-> d, ok |-> TRUE]}
  BY <1>1 DEF Send
<1>3. faults' = faults
  BY <1>1 DEF Send
<1> DEFINE m == [req |-> req, due |-> d, ok |-> TRUE]
<1>4. m.req = req /\ m.due = d /\ m.ok
  OBVIOUS
<1>5. net' = net \cup {m}
  BY <1>2
<1> HIDE DEF m
<1> QED
  BY <1>3, <1>4, <1>5

LEMMA FaultsStay == TypeOK /\ [Next]_vars /\ faults' = 0 => faults = 0
BY BoundsAssumption
DEF TypeOK, Next, MainStep, Start, SetUp, NetCreate, AskForReader, ArmReader, RequestStep,
    RequestNetworkStats, SkipNetworkStats, StartLinkStats, SkipLinkStats, SetTransmit,
    WaitBeforeReceive, SkipReceive, SetReceive, RequestOne, RequestNext, EndLoop, Send, Fails,
    Finish, StartTeardown, DisarmReader, CloseService, NetDestroy, EventThread, HandleData,
    PrintStats, KillCallback, Tick, Over, vars

LEMMA HeardStep ==
  ASSUME SInv, HeardInv, Undisturbed, [Next]_vars, faults' = 0
  PROVE  HeardInv'
<1>0. TypeOK /\ StepsInv
  BY DEF SInv
<1>a. /\ conf.gap \in Nat /\ wait \in Nat /\ delay \in Nat /\ delay < 5 * conf.gap
      /\ Sleep(5) = 5 * conf.gap
      /\ \A m \in net : m.due \in Nat /\ m.due <= delay
  BY <1>0, NumbersType, SleepIsProduct DEF Undisturbed
<1>b. ~Fails
  BY BoundsAssumption DEF Undisturbed, Fails
<1> USE <1>0, <1>a DEF HeardInv
<1>1. CASE Start
  <2>1. CASE SetUp \/ NetCreate \/ AskForReader
    BY <2>1, <1>b, BoundsAssumption
    DEF SetUp, NetCreate, AskForReader, Goto, Service!Open, Service!Ask, service
  <2>2. CASE ArmReader
    BY <2>2, <1>b DEF ArmReader, Goto, Service!Arm, TypeOK, Service!TypeOK
  <2> QED
    BY <1>1, <2>1, <2>2 DEF Start
<1>2. CASE RequestNetworkStats
  BY <1>2, SendUndisturbed, RequestTypes DEF RequestNetworkStats, Goto, service
<1>3. CASE SkipNetworkStats \/ StartLinkStats \/ SetTransmit \/ WaitBeforeReceive \/ SetReceive
  BY <1>3 DEF SkipNetworkStats, StartLinkStats, SetTransmit, WaitBeforeReceive, SetReceive, Goto,
              service
<1>4. CASE SkipLinkStats \/ SkipReceive
  BY <1>4 DEF SkipLinkStats, SkipReceive, Goto, service
<1>5. ASSUME NEW d \in Directions, RequestOne(d) PROVE HeardInv'
  <2>1. \A m \in net' : m \in net \/ (m.ok /\ m.due \in 0..delay)
    BY <1>5, LidType, SendUndisturbed DEF RequestOne
  <2> QED
    BY <1>5, <2>1 DEF RequestOne, AfterPhase, Goto, Directions, service
<1>6. ASSUME NEW d \in Directions, RequestNext(d) PROVE HeardInv'
  <2>1. \A m \in net' : m \in net \/ (m.ok /\ m.due \in 0..delay)
    BY <1>6, LidType, SendUndisturbed DEF RequestNext
  <2> QED
    BY <1>6, <2>1 DEF RequestNext, Goto, Directions, service
<1>7. ASSUME NEW d \in Directions, EndLoop(d) PROVE HeardInv'
  BY <1>7 DEF EndLoop, AfterPhase, Goto, Directions, service
<1>8. CASE Finish
  BY <1>8 DEF Finish, StartTeardown, DisarmReader, CloseService, NetDestroy, Goto, service,
              Service!Disarm, Service!Close
<1>9. ASSUME NEW m \in net, HandleData(m) PROVE HeardInv'
  BY <1>9 DEF HandleData, Service!Fire, StepsInv, TypeOK, Service!TypeOK, time
<1>10. CASE PrintStats \/ KillCallback
  BY <1>10, BoundsAssumption DEF PrintStats, KillCallback, Goto, Service!Return, time
<1>11. CASE Tick
  <2>1. running # Reader /\ (stage[Reader] = "armed" => \A m \in net : m.due > 0)
    BY <1>11, BoundsAssumption DEF Tick
  <2>2. \A m \in net' : \E n \in net :
          m.ok = n.ok /\ m.due = IF n.due > 0 THEN n.due - 1 ELSE 0
    BY <1>11, TickNet
  <2> QED
    BY <1>11, <2>1, <2>2 DEF Tick, service
<1>12. CASE UNCHANGED vars
  BY <1>12 DEF vars, time, service
<1> QED
  BY <1>1, <1>2, <1>3, <1>4, <1>5, <1>6, <1>7, <1>8, <1>9, <1>10, <1>11, <1>12
  DEF Next, MainStep, RequestStep, EventThread, Over

LEMMA CoveredStep ==
  ASSUME SInv, HeardInv, CoveredInv, Undisturbed, [Next]_vars, faults' = 0
  PROVE  CoveredInv'
<1>0. TypeOK /\ StepsInv /\ UnsetInv
  BY DEF SInv
<1> SUFFICES ASSUME pc' \notin {"exited", "hung"}, NEW r \in Asked
             PROVE  ToCome(r)' \/ Answered(r)'
  BY ConfConstant DEF CoveredInv, Asked
<1>a. pc \notin {"exited", "hung"}
  BY DEF Next, MainStep, Start, SetUp, NetCreate, AskForReader, ArmReader, RequestStep,
         RequestNetworkStats, SkipNetworkStats, StartLinkStats, SkipLinkStats, SetTransmit,
         WaitBeforeReceive, SkipReceive, SetReceive, RequestOne, RequestNext, EndLoop, Finish,
         StartTeardown, DisarmReader, CloseService, NetDestroy, EventThread, HandleData,
         PrintStats, KillCallback, Tick, Over, vars, Goto, Directions
<1>b. ToCome(r) \/ Answered(r)
  BY <1>a DEF CoveredInv
<1>c. \/ r = NetworkRequest /\ r.what = "nw" /\ "nw" \in conf.what
      \/ /\ "link" \in conf.what /\ r.what = "link" /\ r.dir \in conf.dir
         /\ r.dir \in Directions /\ r.lid \in Int /\ r = LinkRequest(r.dir, r.lid)
         /\ IF conf.lid # -1 THEN r.lid = conf.lid ELSE 0 <= r.lid /\ r.lid <= LidLimit
  BY <1>0, AskedShape
<1>1. CASE Start
  <2>1. UNCHANGED <<net, cb, report>> /\ pc' \in {"net", "ask", "arm", "nw"}
    BY <1>1 DEF Start, SetUp, NetCreate, AskForReader, ArmReader, Goto
  <2> QED
    BY <2>1 DEF ToCome
<1>2. CASE RequestNetworkStats
  BY <1>0, <1>b, <1>c, <1>2, SendUndisturbed, NumbersType, RequestTypes
  DEF RequestNetworkStats, Goto, service, ToCome, Answered
<1>3. CASE SkipNetworkStats \/ StartLinkStats \/ SkipLinkStats \/ SetTransmit
  BY <1>0, <1>b, <1>c, <1>3
  DEF SkipNetworkStats, StartLinkStats, SkipLinkStats, SetTransmit, Goto, service, ToCome, Answered,
      Directions
<1>4. CASE WaitBeforeReceive \/ SkipReceive \/ SetReceive
  BY <1>0, <1>b, <1>c, <1>4
  DEF WaitBeforeReceive, SkipReceive, SetReceive, Goto, service, ToCome, Answered, Directions
<1>5. ASSUME NEW d \in Directions, RequestOne(d) PROVE ToCome(r)' \/ Answered(r)'
  <2>1. net \subseteq net' /\ \E m \in net' : m.req = LinkRequest(d, conf.lid)
    BY <1>0, <1>5, LidType, SendUndisturbed, NumbersType DEF RequestOne
  <2> QED
    BY <1>b, <1>c, <1>5, <2>1
    DEF RequestOne, Goto, AfterPhase, service, ToCome, Answered, Directions
<1>6. ASSUME NEW d \in Directions, RequestNext(d) PROVE ToCome(r)' \/ Answered(r)'
  <2>1. net \subseteq net' /\ \E m \in net' : m.req = LinkRequest(d, lid)
    BY <1>0, <1>6, LidType, SendUndisturbed, NumbersType DEF RequestNext
  <2>2. lid \in Int
    BY <1>0 DEF TypeOK
  <2> QED
    BY <1>b, <1>c, <1>6, <2>1, <2>2
    DEF RequestNext, Goto, service, ToCome, Answered, Directions
<1>7. ASSUME NEW d \in Directions, EndLoop(d) PROVE ToCome(r)' \/ Answered(r)'
  <2>1. lid \in Int /\ LidLimit \in Int
    BY <1>0, ConfType DEF TypeOK
  <2> QED
    BY <1>b, <1>c, <1>7, <2>1
    DEF EndLoop, Goto, AfterPhase, service, ToCome, Answered, Directions
<1>8. CASE Finish
  BY <1>b, <1>8
  DEF Finish, StartTeardown, DisarmReader, CloseService, NetDestroy, Goto, service,
      Service!Disarm, Service!Close, ToCome, Answered
<1>9. ASSUME NEW m \in net, HandleData(m) PROVE ToCome(r)' \/ Answered(r)'
  BY <1>b, <1>9, BoundsAssumption DEF HandleData, Service!Fire, time, ToCome, Answered
<1>10. CASE PrintStats
  <2>1. running = Reader
    BY <1>0, <1>10 DEF PrintStats, Service!Return, TypeOK, Service!TypeOK
  <2>2. PICK t \in Classified(reqType) :
          report' = IF cb.ok /\ (IF cb.req.what = "nw" THEN "nw" ELSE t) # "none"
                      THEN report \cup {[req |-> cb.req, as |-> IF cb.req.what = "nw" THEN "nw" ELSE t]}
                      ELSE report
    BY <1>10 DEF PrintStats
  <2>3. cb.req.what # "nw" => t # "none"
    BY <1>0, RequestShape DEF UnsetInv, Classified, TypeOK, Directions
  <2> DEFINE x == [req |-> cb.req, as |-> IF cb.req.what = "nw" THEN "nw" ELSE t]
  <2>4. report' = report \cup {x}
    BY <2>1, <2>2, <2>3 DEF HeardInv
  <2>5. x.req = cb.req
    OBVIOUS
  <2> HIDE DEF x
  <2> QED
    BY <1>b, <1>10, <2>4, <2>5 DEF PrintStats, ToCome, Answered
<1>11. CASE KillCallback
  BY <1>11 DEF KillCallback, Goto
<1>12. CASE Tick
  <2>1. ASSUME NEW n \in net PROVE \E m \in net' : m.req = n.req
    <3>1. [n EXCEPT !.due = IF @ > 0 THEN @ - 1 ELSE 0] \in net'
      BY <1>12 DEF Tick
    <3>2. [n EXCEPT !.due = IF @ > 0 THEN @ - 1 ELSE 0].req = n.req
      BY <1>0 DEF TypeOK
    <3> QED
      BY <3>1, <3>2
  <2> QED
    BY <1>b, <1>12, <2>1 DEF Tick, service, ToCome, Answered
<1>13. CASE UNCHANGED vars
  BY <1>b, <1>13 DEF vars, service, ToCome, Answered
<1> QED
  BY <1>1, <1>2, <1>3, <1>4, <1>5, <1>6, <1>7, <1>8, <1>9, <1>10, <1>11, <1>12, <1>13
  DEF Next, MainStep, RequestStep, EventThread, Over

\* Without a failure everything the options ask for is printed, for every gap
\* whose fivefold fits into 32 bits and every network that answers within it.
THEOREM ReportIsComplete == Spec => []CompleteReport
<1>1. Init => CInv
  BY InitSafe, BoundsAssumption DEF Init, CInv, HeardInv, CoveredInv, ToCome, Service!Init
<1>2. CInv /\ [Next]_vars => CInv'
  <2> SUFFICES ASSUME CInv, [Next]_vars PROVE CInv'
    OBVIOUS
  <2>1. SInv'
    BY StepsStep, UnsetStep, TypeStep DEF CInv, SInv
  <2>2. Undisturbed' => Undisturbed /\ faults' = 0
    BY FaultsStay, ConfConstant DEF Undisturbed, CInv, SInv
  <2> QED
    BY <2>1, <2>2, HeardStep, CoveredStep DEF CInv
<1>3. CInv => CompleteReport
  <2> SUFFICES ASSUME CInv, pc = "done", Undisturbed, NEW r \in Asked
               PROVE  r \in {x.req : x \in report}
    BY DEF CompleteReport, Undisturbed
  <2> QED
    BY DEF CInv, HeardInv, CoveredInv, ToCome, Answered
<1> QED
  BY <1>1, <1>2, <1>3, PTL DEF Spec

=============================================================================
