--------------------------- MODULE DiscoverProofs ---------------------------
(***************************************************************************)
(* Proofs about src/src/net.c and one run of src/bin/hpav-discover.c, for  *)
(* every set of adapters, every length of their lists, every delay and any *)
(* number of faults.                                                       *)
(***************************************************************************)
EXTENDS DiscoverSession, TLAPS

-----------------------------------------------------------------------------
(* The packet socket *)

\* What is held before each call of net_create, and after it.
HeldInv ==
  /\ at \in {"calloc", "failed", "destroyed"} => held = {}
  /\ at \in {"cfg_socket", "raw_socket"} => held = {"ctx"}
  /\ at \in {"hwaddr", "ifindex"} => held = {"ctx", "cfg"}
  /\ at \in {"bind", "up"} => held = {"ctx", "raw"}

LEMMA CallStep ==
  ASSUME NetTypeOK, HeldInv, NEW c \in Calls, CallSucceeds(c) \/ CallFails(c)
  PROVE  NetTypeOK' /\ HeldInv'
BY DEF NetTypeOK, HeldInv, Calls, Things, CallSucceeds, CallFails, Following, Acquired, Dropped,
       GivenBack

LEMMA DestroyStep ==
  ASSUME NetTypeOK, HeldInv, Destroy
  PROVE  NetTypeOK' /\ HeldInv'
BY DEF NetTypeOK, HeldInv, Calls, Things, Destroy

-----------------------------------------------------------------------------
(* Type correctness *)

LEMMA NetworkType ==
  ASSUME TypeOK
  PROVE  /\ delay \in Nat /\ lists \in [Stations -> Nat]
         /\ conf.oda \subseteq Stations /\ conf.nwinfo \in BOOLEAN
BY NetworksAssumption, TimesAssumption DEF TypeOK

LEMMA NoMessageType == NoMessage \in Message
<1>1. (CHOOSE s \in Stations : TRUE) \in Stations
  BY NetworksAssumption
<1> QED
  BY <1>1 DEF NoMessage, Message

\* What a request may add to the network: answers of those who were asked, and
\* none with more elements than the adapter knows.
LEMMA RequestAdds ==
  ASSUME TypeOK, NEW what \in {"list", "nw"}, NEW S \in SUBSET Stations, NEW n \in Nat,
         Request(what, S, n)
  PROVE  /\ net \subseteq net'
         /\ \A m \in net' : m \in net \/ /\ m \in Message
                                         /\ m.what = what /\ m.from \in S /\ m.nth = n
                                         /\ m.count <= Elements(what, m.from) /\ m.due <= delay
         /\ faults' \in 0..MaxFaults
<1>1. PICK due \in [S -> 0..delay] :
        LET Answer(s, c) == [what |-> what, from |-> s, nth |-> n, count |-> c, due |-> due[s]]
            Whole(s) == Answer(s, Elements(what, s))
        IN \/ net' = net \cup {Whole(s) : s \in S} /\ UNCHANGED faults
           \/ net' = net /\ Fails
           \/ /\ \E b \in S : \E c \in 0..Elements(what, b) - 1 :
                   net' = net \cup {Whole(s) : s \in S \ {b}} \cup {Answer(b, c)}
              /\ Fails
  BY DEF Request
<1> DEFINE Answer(s, c) == [what |-> what, from |-> s, nth |-> n, count |-> c, due |-> due[s]]
<1>2. \A s \in S : Elements(what, s) \in Nat
  BY NetworkType DEF Elements
<1>3. ASSUME NEW s \in S, NEW c \in Nat, c <= Elements(what, s)
      PROVE  LET m == Answer(s, c) IN
               /\ m \in Message /\ m.what = what /\ m.from \in S /\ m.nth = n
               /\ m.count <= Elements(what, m.from) /\ m.due <= delay
  BY <1>3, NetworkType DEF Message
<1>4. faults' \in 0..MaxFaults
  BY <1>1, TimesAssumption DEF TypeOK, Fails
<1>5. net \subseteq net' /\ \A m \in net' : m \in net \/ \E s \in S : \E c \in 0..Elements(what, s) : m = Answer(s, c)
  BY <1>1, <1>2
<1> HIDE DEF Answer
<1> QED
  BY <1>2, <1>3, <1>4, <1>5

LEMMA ServiceType ==
  ASSUME Service!TypeOK,
         \/ Service!Open \/ Service!Ask(Reader, "reader") \/ Service!Arm(Reader)
         \/ Service!Fire(Reader) \/ Service!Return \/ Service!Disarm(Reader)
         \/ Service!Close \/ UNCHANGED service
  PROVE  Service!TypeOK'
BY DEF Service!TypeOK, Service!Kinds, Service!Open, Service!Ask, Service!Arm, Service!Fire,
       Service!Return, Service!Disarm, Service!Close, service

\* Type correctness needs what net_create holds.
DType == TypeOK /\ HeldInv

LEMMA InitType == Init => DType
<1> SUFFICES ASSUME Init PROVE DType
  OBVIOUS
<1>1. Service!TypeOK
  BY DEF Init, Service!Init, Service!TypeOK
<1>2. conf \in [oda : SUBSET Stations, nwinfo : BOOLEAN]
  BY DEF Init
<1>3. NetTypeOK /\ HeldInv
  BY DEF Init, NetInit, NetTypeOK, HeldInv, Calls
<1> QED
  BY <1>1, <1>2, <1>3, NoMessageType, TimesAssumption DEF Init, DType, TypeOK

LEMMA MainType == DType /\ MainStep => DType'
<1> SUFFICES ASSUME DType, MainStep PROVE DType'
  OBVIOUS
<1> USE DEF DType
<1>1. Service!TypeOK'
  BY ServiceType
  DEF TypeOK, MainStep, SetUp, NetCreate, AskForReader, ArmReader, SendDiscover, StartTeardown,
      DisarmReader, CloseService, NetDestroy
<1>2. NetTypeOK' /\ HeldInv'
  <2>1. CASE NetCreate
    BY <2>1, CallStep DEF NetCreate, TypeOK
  <2>2. CASE NetDestroy
    BY <2>2, DestroyStep DEF NetDestroy, TypeOK
  <2>3. CASE UNCHANGED netVars
    BY <2>3 DEF netVars, TypeOK, NetTypeOK, HeldInv
  <2> QED
    BY <2>1, <2>2, <2>3
    DEF MainStep, SetUp, AskForReader, ArmReader, SendDiscover, StartTeardown, DisarmReader,
        CloseService
<1>3. CASE SetUp \/ AskForReader \/ ArmReader
  BY <1>1, <1>2, <1>3, TimesAssumption
  DEF TypeOK, SetUp, AskForReader, ArmReader, Goto, Fails, network
<1>4. CASE NetCreate
  BY <1>1, <1>2, <1>4, TimesAssumption DEF TypeOK, NetCreate, Goto, Fails, network
<1>5. CASE SendDiscover
  <2>1. conf.oda \in SUBSET Stations /\ 0 \in Nat
    BY NetworkType
  <2>2. net' \subseteq Message /\ faults' \in 0..MaxFaults
    BY <1>5, <2>1, RequestAdds DEF SendDiscover, TypeOK
  <2> QED
    BY <1>1, <1>2, <1>5, <2>2, TimesAssumption DEF TypeOK, SendDiscover, Goto, network
<1>6. CASE StartTeardown \/ DisarmReader \/ CloseService \/ NetDestroy
  BY <1>1, <1>2, <1>6
  DEF TypeOK, StartTeardown, DisarmReader, CloseService, NetDestroy, Goto, network
<1> QED
  BY <1>3, <1>4, <1>5, <1>6 DEF MainStep

\* What is printed is the section of one element.
LEMMA PrintedType ==
  ASSUME TypeOK, cb.count > 0
  PROVE  Printed \in Section
BY DEF TypeOK, Printed, Sections, Section, Message

LEMMA CountDown ==
  ASSUME TypeOK, cb.count > 0
  PROVE  LET m == [cb EXCEPT !.count = @ - 1]
         IN  /\ m \in Message /\ m.what = cb.what /\ m.from = cb.from /\ m.nth = cb.nth
             /\ m.count = cb.count - 1
BY DEF TypeOK, Message

LEMMA EventType == DType /\ (EventThread \/ KillCallback \/ Tick) => DType'
<1> SUFFICES ASSUME DType, EventThread \/ KillCallback \/ Tick PROVE DType'
  OBVIOUS
<1> USE DEF DType
<1>1. Service!TypeOK'
  BY ServiceType
  DEF TypeOK, EventThread, HandleData, StationInfo, NwInfo, CallbackReturns, KillCallback, Tick
<1>2. NetTypeOK' /\ HeldInv'
  BY DEF EventThread, HandleData, StationInfo, NwInfo, CallbackReturns, KillCallback, Tick, netVars,
         TypeOK, NetTypeOK, HeldInv
<1>3. ASSUME NEW m \in net, HandleData(m) PROVE DType'
  BY <1>1, <1>2, <1>3 DEF TypeOK, HandleData, network
<1>4. CASE StationInfo
  <2>1. cb.from \in Stations /\ cb.count \in Nat
    BY DEF TypeOK, Message
  <2>2. net' \subseteq Message /\ faults' \in 0..MaxFaults
    BY <1>4, <2>1, RequestAdds DEF StationInfo, TypeOK
  <2> QED
    BY <1>1, <1>2, <1>4, <2>2, PrintedType, CountDown DEF TypeOK, StationInfo, network
<1>5. CASE NwInfo
  BY <1>1, <1>2, <1>5, PrintedType, CountDown DEF TypeOK, NwInfo, network
<1>6. CASE CallbackReturns \/ KillCallback
  BY <1>1, <1>2, <1>6, NoMessageType DEF TypeOK, CallbackReturns, KillCallback, Goto, network
<1>7. CASE Tick
  <2>1. ASSUME NEW m \in net
        PROVE  [m EXCEPT !.due = IF @ > 0 THEN @ - 1 ELSE 0] \in Message
    BY DEF TypeOK, Message
  <2>2. net' \subseteq Message
    BY <1>7, <2>1 DEF Tick
  <2> QED
    BY <1>1, <1>2, <1>7, <2>2, TimesAssumption DEF TypeOK, Tick, network
<1> QED
  BY <1>3, <1>4, <1>5, <1>6, <1>7 DEF EventThread

LEMMA TypeStep == DType /\ [Next]_vars => DType'
<1>1. DType /\ UNCHANGED vars => DType'
  <2> SUFFICES ASSUME DType, UNCHANGED vars PROVE DType'
    OBVIOUS
  <2>1. Service!TypeOK'
    BY ServiceType DEF DType, TypeOK, vars
  <2> QED
    BY <2>1 DEF DType, TypeOK, HeldInv, NetTypeOK, vars, network, netVars
<1> QED
  BY <1>1, MainType, EventType DEF Next, Over

LEMMA DTypeHolds == Spec => []DType
BY InitType, TypeStep, PTL DEF Spec

\* Every variable of hpav-discover keeps its type.
THEOREM DiscoverTypeCorrect == Spec => []TypeOK
<1>1. DType => TypeOK
  BY DEF DType
<1> QED
  BY <1>1, DTypeHolds, PTL

\* Whichever call of net_create fails, and after net_destroy, neither memory
\* nor a descriptor stays behind.
THEOREM SocketsGivenBack == Spec => []NothingLeftOpen
<1>1. DType => NothingLeftOpen
  BY DEF DType, HeldInv, NothingLeftOpen
<1> QED
  BY <1>1, DTypeHolds, PTL

-----------------------------------------------------------------------------
(* The reader and its socket *)

Live == running = Reader \/ stage[Reader] = "armed"

StepsInv ==
  /\ pc = "setup" => at = "calloc"
  /\ pc = "net" => at \in Calls
  /\ pc \in {"ask", "arm", "send", "final", "teardown", "close", "destroy", "hung"} => at = "up"
  /\ pc \in {"setup", "net", "ask", "arm", "exited"} => ~Live /\ stage[Reader] = "idle"
  /\ pc \in {"close", "destroy", "done"} => ~Live
  /\ pc \in {"setup", "net", "ask", "arm", "send"} => net = {} /\ running # Reader
  /\ kind[Reader] # "single"
  /\ running = Reader => stage[Reader] = "armed"

DInv == DType /\ StepsInv

LEMMA StepsStep == DInv /\ [Next]_vars => StepsInv'
<1> SUFFICES ASSUME DInv, [Next]_vars PROVE StepsInv'
  OBVIOUS
<1> USE TimesAssumption DEF DInv, DType, StepsInv, Live, TypeOK, Service!TypeOK
<1>1. CASE SetUp
  BY <1>1 DEF SetUp, Goto, Service!Open, service, netVars, Calls
<1>2. CASE NetCreate
  <2>1. PICK c \in Calls :
          \/ CallSucceeds(c) /\ Goto("net", IF c = "bind" THEN "ask" ELSE "net")
          \/ CallFails(c) /\ Goto("net", "exited")
    BY <1>2 DEF NetCreate
  <2>2. at' = "up" \/ at' \in Calls \/ CallFails(c)
    BY <2>1 DEF CallSucceeds, Following, Calls
  <2>3. c = "bind" /\ CallSucceeds(c) => at' = "up"
    BY DEF CallSucceeds, Following
  <2>4. c # "bind" /\ CallSucceeds(c) => at' \in Calls
    BY <2>1 DEF CallSucceeds, Following, Calls
  <2> QED
    BY <1>2, <2>1, <2>3, <2>4 DEF NetCreate, Goto, service
<1>3. CASE AskForReader
  BY <1>3 DEF AskForReader, Goto, Service!Ask, netVars
<1>4. CASE ArmReader
  BY <1>4 DEF ArmReader, Goto, Service!Arm, Service!Disarm, netVars
<1>5. CASE SendDiscover \/ StartTeardown
  BY <1>5 DEF SendDiscover, StartTeardown, Goto, service, netVars
<1>6. CASE DisarmReader
  BY <1>6 DEF DisarmReader, Goto, service, netVars, Service!Disarm
<1>7. CASE CloseService
  BY <1>7 DEF CloseService, Goto, netVars, Service!Close
<1>8. CASE NetDestroy
  BY <1>8 DEF NetDestroy, Goto, service
<1>9. CASE EventThread \/ KillCallback
  <2>1. ASSUME NEW m \in net, HandleData(m) PROVE StepsInv'
    BY <2>1 DEF HandleData, Service!Fire, netVars
  <2>2. CASE StationInfo \/ NwInfo
    BY <2>2 DEF StationInfo, NwInfo, service, netVars
  <2>3. CASE CallbackReturns \/ KillCallback
    BY <2>3 DEF CallbackReturns, KillCallback, Goto, Service!Return, netVars
  <2> QED
    BY <1>9, <2>1, <2>2, <2>3 DEF EventThread
<1>10. CASE Tick
  BY <1>10 DEF Tick, service, netVars
<1>11. CASE UNCHANGED vars
  BY <1>11 DEF vars, service, netVars
<1> QED
  BY <1>1, <1>2, <1>3, <1>4, <1>5, <1>6, <1>7, <1>8, <1>9, <1>10, <1>11 DEF Next, MainStep, Over

LEMMA InitSafe == Init => DInv
BY InitType, TimesAssumption
DEF Init, DInv, StepsInv, Live, NetInit, Calls, Service!Init

LEMMA SafeInvariant == Spec => []DInv
<1>1. DInv /\ [Next]_vars => DInv'
  BY StepsStep, TypeStep DEF DInv
<1> QED
  BY <1>1, InitSafe, PTL DEF Spec

\* The callback reads from the socket and sends its follow-up requests through
\* it only between net_create and net_destroy.
THEOREM DiscoverSocketSafe == Spec => []SocketOutlivesReader
<1>1. DInv => SocketOutlivesReader
  BY DEF DInv, DType, HeldInv, StepsInv, Live, TypeOK, SocketOutlivesReader
<1> QED
  BY <1>1, SafeInvariant, PTL

-----------------------------------------------------------------------------
(* The order of what is printed *)

\* A section that the network can give, and one that follows a printed station.
Known(m, n) == m.from \in conf.oda /\ n >= 1 /\ n <= lists[m.from]
Follows(m) ==
  m.what = "nw" =>
    /\ conf.nwinfo /\ m.count <= 1 /\ Known(m, m.nth)
    /\ Sections("list", m.from, m.nth) \in report
Listed(m) == m.what = "list" => m.from \in conf.oda /\ m.count <= lists[m.from] /\ m.nth = 0
Sound(m) == Follows(m) /\ Listed(m)

OrderInv ==
  /\ \A m \in net : Sound(m)
  /\ running = Reader => Sound(cb)
  /\ NwInfoFollowsStation

LEMMA DiscoverableSection ==
  ASSUME TypeOK
  PROVE  \A w \in {"list", "nw"}, s \in Stations, n \in Nat :
           Sections(w, s, n) \in Discoverable <=>
             s \in conf.oda /\ n \in 1..lists[s] /\ (w = "nw" => conf.nwinfo)
<1> SUFFICES ASSUME NEW w \in {"list", "nw"}, NEW s \in Stations, NEW n \in Nat
             PROVE  Sections(w, s, n) \in Discoverable <=>
                      s \in conf.oda /\ n \in 1..lists[s] /\ (w = "nw" => conf.nwinfo)
  OBVIOUS
<1>1. ASSUME NEW v \in {"list", "nw"}, NEW t \in Stations, NEW k \in Nat,
             Sections(w, s, n) = Sections(v, t, k)
      PROVE  w = v /\ s = t /\ n = k
  BY <1>1 DEF Sections
<1>2. \A t \in conf.oda : t \in Stations /\ 1..lists[t] \subseteq Nat
  BY NetworkType
<1>3. ASSUME Sections(w, s, n) \in Discoverable
      PROVE  s \in conf.oda /\ n \in 1..lists[s] /\ (w = "nw" => conf.nwinfo)
  <2>1. PICK t \in conf.oda, v \in {"list"} \cup IF conf.nwinfo THEN {"nw"} ELSE {} :
          Sections(w, s, n) \in {Sections(v, t, k) : k \in 1..lists[t]}
    BY <1>3 DEF Discoverable
  <2>2. PICK k \in 1..lists[t] : Sections(w, s, n) = Sections(v, t, k)
    BY <2>1
  <2> QED
    BY <1>1, <1>2, <2>2
<1>4. ASSUME s \in conf.oda, n \in 1..lists[s], w = "nw" => conf.nwinfo
      PROVE  Sections(w, s, n) \in Discoverable
  <2> DEFINE From(t, v) == {Sections(v, t, k) : k \in 1..lists[t]}
             W == {"list"} \cup IF conf.nwinfo THEN {"nw"} ELSE {}
  <2>1. Sections(w, s, n) \in From(s, w)
    BY <1>4
  <2>2. w \in W
    BY <1>4
  <2>3. Discoverable = UNION {From(t, v) : t \in conf.oda, v \in W}
    BY DEF Discoverable
  <2> HIDE DEF From, W
  <2>4. From(s, w) \in {From(t, v) : t \in conf.oda, v \in W}
    BY <1>4, <2>2
  <2> QED
    BY <2>1, <2>3, <2>4
<1> QED
  BY <1>3, <1>4

\* A message that is as sound as another one, after a step.
LEMMA SoundStays ==
  ASSUME UNCHANGED network, report \subseteq report',
         NEW m, NEW n, Sound(n), m.what = n.what, m.from = n.from, m.nth = n.nth,
         m.count \in Nat, n.count \in Nat, m.count <= n.count, lists \in [Stations -> Nat],
         m.from \in Stations
  PROVE  Sound(m)'
BY DEF Sound, Follows, Listed, Known, network

LEMMA ListElements ==
  ASSUME NEW s
  PROVE  Elements("list", s) = lists[s] /\ Elements("nw", s) = 1
BY DEF Elements

LEMMA MessageType ==
  ASSUME TypeOK, NEW m, m \in net \/ m = cb
  PROVE  /\ m \in Message /\ m.what \in {"list", "nw"} /\ m.from \in Stations
         /\ m.nth \in Nat /\ m.count \in Nat /\ m.due \in Nat
BY DEF TypeOK, Message

\* An answer loses time until it is handled, and nothing else.
LEMMA TickNet ==
  ASSUME TypeOK, Tick
  PROVE  /\ \A m \in net' : \E n \in net :
              /\ m.what = n.what /\ m.from = n.from /\ m.nth = n.nth /\ m.count = n.count
              /\ m.due = IF n.due > 0 THEN n.due - 1 ELSE 0
         /\ \A n \in net : \E m \in net' :
              m.what = n.what /\ m.from = n.from /\ m.nth = n.nth /\ m.count = n.count
<1> DEFINE Later(n) == [n EXCEPT !.due = IF @ > 0 THEN @ - 1 ELSE 0]
<1>1. net' = {Later(n) : n \in net}
  BY DEF Tick
<1>2. ASSUME NEW n \in net
      PROVE  /\ Later(n).what = n.what /\ Later(n).from = n.from
             /\ Later(n).nth = n.nth /\ Later(n).count = n.count
             /\ Later(n).due = IF n.due > 0 THEN n.due - 1 ELSE 0
  <2>1. n \in Message
    BY <1>2 DEF TypeOK
  <2> QED
    BY <2>1 DEF Message
<1> HIDE DEF Later
<1>3. ASSUME NEW m \in net'
      PROVE  \E n \in net :
               /\ m.what = n.what /\ m.from = n.from /\ m.nth = n.nth /\ m.count = n.count
               /\ m.due = IF n.due > 0 THEN n.due - 1 ELSE 0
  <2>1. PICK n \in net : m = Later(n)
    BY <1>1, <1>3
  <2> QED
    BY <1>2, <2>1
<1>4. ASSUME NEW n \in net
      PROVE  \E m \in net' :
               m.what = n.what /\ m.from = n.from /\ m.nth = n.nth /\ m.count = n.count
  <2>1. Later(n) \in net'
    BY <1>1, <1>4
  <2> QED
    BY <1>2, <1>4, <2>1
<1> QED
  BY <1>3, <1>4

\* The section of the element that the callback comes to can be discovered.
LEMMA PrintedDiscoverable ==
  ASSUME TypeOK, Sound(cb), cb.count > 0
  PROVE  Printed \in Discoverable
<1>1. cb.what \in {"list", "nw"} /\ cb.from \in Stations /\ cb.nth \in Nat /\ cb.count \in Nat
  BY MessageType
<1>2. lists[cb.from] \in Nat
  BY <1>1, NetworkType
<1>3. CASE cb.what = "list"
  BY <1>1, <1>2, <1>3, DiscoverableSection DEF Printed, Sound, Listed
<1>4. CASE cb.what = "nw"
  BY <1>1, <1>2, <1>4, DiscoverableSection DEF Printed, Sound, Follows, Known
<1> QED
  BY <1>1, <1>3, <1>4

LEMMA DiscoverableConstant == UNCHANGED network => Discoverable' = Discoverable
BY DEF network, Discoverable

LEMMA PrintStep ==
  ASSUME TypeOK, OrderInv, UNCHANGED network, running = Reader, cb.count > 0,
         report' = report \cup {Printed}
  PROVE  NwInfoFollowsStation'
<1>1. Printed \in Discoverable
  BY PrintedDiscoverable DEF OrderInv
<1>2. report' \subseteq Discoverable'
  BY <1>1, DiscoverableConstant DEF OrderInv, NwInfoFollowsStation
<1>3. cb.what = "nw" => Printed.from = cb.from /\ Printed.nth = cb.nth
  BY MessageType DEF Printed, Sections
<1>4. Printed.what = cb.what
  BY DEF Printed, Sections
<1>5. cb.what = "nw" => Sections("list", Printed.from, Printed.nth) \in report
  BY <1>3 DEF OrderInv, Sound, Follows
<1> QED
  BY <1>2, <1>4, <1>5 DEF OrderInv, NwInfoFollowsStation

LEMMA OrderStep == DInv /\ OrderInv /\ [Next]_vars => OrderInv'
<1> SUFFICES ASSUME DInv, OrderInv, [Next]_vars PROVE OrderInv'
  OBVIOUS
<1>0. TypeOK /\ \A m : m \in net \/ m = cb =>
        m.from \in Stations /\ m.nth \in Nat /\ m.count \in Nat
  BY MessageType DEF DInv, DType
<1>a. lists \in [Stations -> Nat] /\ conf.oda \in SUBSET Stations
  BY <1>0, NetworkType
<1>1. ASSUME UNCHANGED <<network, net, report>>, running' = Reader => running = Reader /\ cb' = cb
      PROVE  OrderInv'
  <2>1. NwInfoFollowsStation'
    BY <1>1, DiscoverableConstant DEF OrderInv, NwInfoFollowsStation
  <2>2. \A m : Sound(m) => Sound(m)'
    BY <1>1 DEF Sound, Follows, Listed, Known, network
  <2> QED
    BY <1>1, <2>1, <2>2 DEF OrderInv
<1>2. CASE SetUp \/ NetCreate \/ AskForReader \/ ArmReader \/ StartTeardown \/ DisarmReader \/
           CloseService \/ NetDestroy
  BY <1>1, <1>2
  DEF SetUp, NetCreate, AskForReader, ArmReader, StartTeardown, DisarmReader, CloseService,
      NetDestroy, Service!Open, Service!Ask, Service!Arm, Service!Disarm, Service!Close, service
<1>3. CASE SendDiscover
  <2>1. \A m \in net' : m \in net \/ (m \in Message /\ m.what = "list" /\ m.from \in conf.oda
                                      /\ m.nth = 0 /\ m.count <= lists[m.from])
    <3>1. Request("list", conf.oda, 0) /\ "list" \in {"list", "nw"} /\ 0 \in Nat
      BY <1>3 DEF SendDiscover
    <3>2. \A m \in net' : m \in net \/ (m \in Message /\ m.what = "list" /\ m.from \in conf.oda
                              /\ m.nth = 0 /\ m.count <= Elements("list", m.from))
      <4>1. TypeOK /\ conf.oda \in SUBSET Stations
        BY <1>0, <1>a
      <4> QED
        BY <3>1, <4>1, RequestAdds
    <3> QED
      BY <3>2, ListElements
  <2>2. NwInfoFollowsStation'
    BY <1>3, DiscoverableConstant DEF OrderInv, NwInfoFollowsStation, SendDiscover
  <2>3. \A m : Sound(m) => Sound(m)'
    BY <1>3 DEF SendDiscover, Sound, Follows, Listed, Known, network
  <2>4. \A m \in net' : Sound(m)'
    BY <1>3, <2>1, <2>3 DEF OrderInv, SendDiscover, Sound, Follows, Listed, network
  <2> QED
    BY <1>3, <2>2, <2>3, <2>4 DEF OrderInv, SendDiscover, service
<1>4. ASSUME NEW m \in net, HandleData(m) PROVE OrderInv'
  <2>1. NwInfoFollowsStation'
    BY <1>4, DiscoverableConstant DEF OrderInv, NwInfoFollowsStation, HandleData
  <2>2. \A n : Sound(n) => Sound(n)'
    BY <1>4 DEF HandleData, Sound, Follows, Listed, Known, network
  <2> QED
    BY <1>4, <2>1, <2>2 DEF OrderInv, HandleData
<1>5. CASE StationInfo
  <2>1. NwInfoFollowsStation'
    BY <1>0, <1>5, PrintStep DEF StationInfo
  <2>2. /\ cb'.what = cb.what /\ cb'.from = cb.from /\ cb'.nth = cb.nth
        /\ cb'.count = cb.count - 1
    BY <1>0, <1>5, CountDown DEF StationInfo
  <2>3. Sound(cb) /\ cb.what = "list" /\ cb.count \in Nat /\ cb.count > 0
    BY <1>0, <1>5 DEF StationInfo, OrderInv
  <2>4. Sound(cb)'
    <3>1. lists[cb.from] \in Nat
      BY <1>0, <1>a
    <3> QED
      BY <1>5, <2>2, <2>3, <3>1 DEF StationInfo, Sound, Follows, Listed, network
  <2>5. \A m : Sound(m) => Sound(m)'
    BY <1>5 DEF StationInfo, Sound, Follows, Listed, Known, network
  <2>6. \A m \in net' : m \in net \/ (/\ conf.nwinfo /\ m \in Message /\ m.what = "nw"
                                     /\ m.from = cb.from /\ m.nth = cb.count /\ m.count <= 1)
    <3>1. CASE conf.nwinfo
      <4>1. Request("nw", {cb.from}, cb.count) /\ "nw" \in {"list", "nw"}
        BY <1>5, <3>1 DEF StationInfo
      <4>2. {cb.from} \in SUBSET Stations
        BY <1>0
      <4>3. TypeOK /\ cb.count \in Nat
        BY <1>0, <2>3
      <4>4. \A m \in net' : m \in net \/ (/\ m \in Message /\ m.what = "nw"
                                         /\ m.from \in {cb.from} /\ m.nth = cb.count
                                         /\ m.count <= Elements("nw", m.from))
        BY <4>1, <4>2, <4>3, RequestAdds
      <4> QED
        BY <3>1, <4>4, ListElements
    <3>2. CASE ~conf.nwinfo
      BY <1>5, <3>2 DEF StationInfo
    <3> QED
      BY <3>1, <3>2
  <2>7. Sections("list", cb.from, cb.count) \in report'
    BY <1>5, <2>3 DEF StationInfo, Printed
  <2>8. \A m \in net' : Sound(m)'
    BY <1>5, <2>3, <2>5, <2>6, <2>7
    DEF OrderInv, StationInfo, Sound, Follows, Listed, Known, network
  <2> QED
    BY <2>1, <2>4, <2>8 DEF OrderInv
<1>6. CASE NwInfo
  <2>1. NwInfoFollowsStation'
    BY <1>0, <1>6, PrintStep DEF NwInfo
  <2>2. /\ cb'.what = cb.what /\ cb'.from = cb.from /\ cb'.nth = cb.nth
        /\ cb'.count = cb.count - 1
    BY <1>0, <1>6, CountDown DEF NwInfo
  <2>3. Sound(cb) /\ cb.what = "nw" /\ cb.count \in Nat
    BY <1>0, <1>6 DEF NwInfo, OrderInv
  <2>4. Sound(cb)'
    BY <1>6, <2>2, <2>3 DEF NwInfo, Sound, Follows, Listed, Known, network
  <2>5. \A m : Sound(m) => Sound(m)'
    BY <1>6 DEF NwInfo, Sound, Follows, Listed, Known, network
  <2> QED
    BY <1>6, <2>1, <2>4, <2>5 DEF OrderInv, NwInfo
<1>7. CASE CallbackReturns \/ KillCallback
  BY <1>1, <1>7, TimesAssumption DEF CallbackReturns, KillCallback, Service!Return
<1>8. CASE Tick
  <2>1. NwInfoFollowsStation'
    BY <1>8, DiscoverableConstant DEF OrderInv, NwInfoFollowsStation, Tick
  <2>2. \A m \in net' : \E n \in net :
          m.what = n.what /\ m.from = n.from /\ m.nth = n.nth /\ m.count = n.count
    BY <1>0, <1>8, TickNet
  <2>3. \A m \in net' : Sound(m)'
    BY <1>8, <2>2 DEF OrderInv, Tick, Sound, Follows, Listed, Known, network
  <2> QED
    BY <1>8, <2>1, <2>3, TimesAssumption DEF OrderInv, Tick, service
<1>9. CASE UNCHANGED vars
  BY <1>1, <1>9 DEF vars, service
<1> QED
  BY <1>2, <1>3, <1>4, <1>5, <1>6, <1>7, <1>8, <1>9 DEF Next, MainStep, EventThread, Over

\* Whatever is lost, cut off or reordered, a network information is printed only
\* after the listed station for which it was asked (the information itself is
\* that of the adapter that sent the list).
THEOREM NwInfoAfterStation == Spec => []NwInfoFollowsStation
<1>1. Init => OrderInv
  BY TimesAssumption DEF Init, OrderInv, NwInfoFollowsStation, Service!Init
<1>2. OrderInv => NwInfoFollowsStation
  BY DEF OrderInv
<1> QED
  BY <1>1, <1>2, InitSafe, StepsStep, TypeStep, OrderStep, PTL DEF Spec, DInv

-----------------------------------------------------------------------------
(* Completeness *)

\* Nothing failed, and two answers fit into the sleep.
Undisturbed == faults = 0 /\ 2 * delay < Wait

\* The answers are heard, and the last one that can follow, the answer to the
\* request that the callback sends for a list, before main tears down.
HeardInv ==
  /\ pc \in {"send", "final"} => stage[Reader] = "armed"
  /\ pc = "final" => \A m \in net : m.due < wait /\ (m.what = "list" => m.due + delay < wait)
  /\ pc = "final" /\ running = Reader => wait > 0 /\ (cb.what = "list" => delay < wait)
  /\ pc \in {"teardown", "close", "destroy", "done"} => net = {} /\ running # Reader

\* The nth station of the list of s is still to be printed.
InList(m, s, n) == m.what = "list" /\ m.from = s /\ n <= m.count
InInfo(m, s, n) == m.what = "nw" /\ m.from = s /\ m.nth = n /\ 1 <= m.count
ListPending(s, n) ==
  (\E m \in net : InList(m, s, n)) \/ (running = Reader /\ InList(cb, s, n))
InfoPending(s, n) ==
  (\E m \in net : InInfo(m, s, n)) \/ (running = Reader /\ InInfo(cb, s, n))

Unsent == pc \in {"setup", "net", "ask", "arm", "send"}

\* Whatever can be discovered was printed, or will be.
Found(s, n) ==
  \/ Unsent \/ ListPending(s, n)
  \/ /\ Sections("list", s, n) \in report
     /\ conf.nwinfo => InfoPending(s, n) \/ Sections("nw", s, n) \in report

FoundInv ==
  pc \notin {"exited", "hung"} => \A s \in conf.oda : \A n \in 1..lists[s] : Found(s, n)

CInv == DInv /\ OrderInv /\ (Undisturbed => HeardInv /\ FoundInv)

\* Without a failure everyone who is asked answers with all it knows.
LEMMA RequestUndisturbed ==
  ASSUME TypeOK, NEW what \in {"list", "nw"}, NEW S \in SUBSET Stations, NEW n \in Nat,
         Request(what, S, n), faults' = 0
  PROVE  /\ faults = 0 /\ net \subseteq net'
         /\ \A m \in net' : m \in net \/ (m.what = what /\ m.due \in 0..delay)
         /\ \A s \in S : \E m \in net' : /\ m.what = what /\ m.from = s /\ m.nth = n
                                     /\ m.count = Elements(what, s)
<1>1. ~Fails
  BY TimesAssumption DEF TypeOK, Fails
<1>2. PICK due \in [S -> 0..delay] :
        LET Answer(s, c) == [what |-> what, from |-> s, nth |-> n, count |-> c, due |-> due[s]]
            Whole(s) == Answer(s, Elements(what, s))
        IN net' = net \cup {Whole(s) : s \in S} /\ UNCHANGED faults
  BY <1>1 DEF Request
<1> DEFINE Whole(s) == [what |-> what, from |-> s, nth |-> n, count |-> Elements(what, s), due |-> due[s]]
<1>3. \A s \in S : /\ Whole(s).what = what /\ Whole(s).from = s /\ Whole(s).nth = n
                   /\ Whole(s).count = Elements(what, s) /\ Whole(s).due \in 0..delay
  OBVIOUS
<1>4. net' = net \cup {Whole(s) : s \in S} /\ faults = 0
  BY <1>2
<1> HIDE DEF Whole
<1> QED
  BY <1>3, <1>4

LEMMA DueType ==
  ASSUME TypeOK
  PROVE  wait \in Nat /\ delay \in Nat /\ Wait \in Nat /\ \A m \in net : m.due \in Nat
BY TimesAssumption, NetworkType, MessageType DEF TypeOK

LEMMA HeardStep ==
  ASSUME DInv, HeardInv, Undisturbed, [Next]_vars, faults' = 0
  PROVE  HeardInv'
<1>0. TypeOK /\ StepsInv /\ 2 * delay < Wait
  BY DEF DInv, DType, Undisturbed
<1>a. wait \in Nat /\ delay \in Nat /\ Wait \in Nat /\ \A m \in net : m.due \in Nat
  BY <1>0, DueType
<1>b. ~Fails
  BY TimesAssumption DEF Undisturbed, Fails
<1> USE <1>0, <1>a DEF HeardInv
<1>1. CASE SetUp \/ NetCreate \/ AskForReader
  BY <1>1 DEF SetUp, NetCreate, AskForReader, Goto
<1>2. CASE ArmReader
  BY <1>2, <1>b DEF ArmReader, Goto, Service!Arm, TypeOK, Service!TypeOK
<1>3. CASE SendDiscover
  <2>1. Request("list", conf.oda, 0) /\ conf.oda \in SUBSET Stations
    BY <1>3, NetworkType DEF SendDiscover
  <2>2. \A m \in net' : m.what = "list" /\ m.due \in 0..delay
    BY <1>3, <2>1, RequestUndisturbed DEF SendDiscover, Goto, StepsInv
  <2> QED
    BY <1>3, <2>2 DEF SendDiscover, Goto, StepsInv, network, service
<1>4. CASE StartTeardown
  BY <1>4 DEF StartTeardown, Goto, service, StepsInv
<1>5. CASE DisarmReader \/ CloseService \/ NetDestroy
  BY <1>5 DEF DisarmReader, CloseService, NetDestroy, Goto, service, Service!Disarm, Service!Close
<1>6. ASSUME NEW m \in net, HandleData(m) PROVE HeardInv'
  BY <1>6 DEF HandleData, Service!Fire, network, StepsInv, TypeOK, Service!TypeOK
<1>7. CASE StationInfo
  <2>1. \A m \in net' : m \in net \/ (m.what = "nw" /\ m.due \in 0..delay)
    <3>1. CASE conf.nwinfo
      <4>1. Request("nw", {cb.from}, cb.count) /\ {cb.from} \in SUBSET Stations /\ cb.count \in Nat
        BY <1>7, <3>1, MessageType DEF StationInfo
      <4> QED
        BY <4>1, RequestUndisturbed
    <3>2. CASE ~conf.nwinfo
      BY <1>7, <3>2 DEF StationInfo
    <3> QED
      BY <3>1, <3>2
  <2>2. cb'.what = cb.what
    BY <1>7, CountDown DEF StationInfo
  <2> QED
    BY <1>7, <2>1, <2>2 DEF StationInfo, network, service
<1>8. CASE NwInfo
  <2>1. cb'.what = cb.what
    BY <1>8, CountDown DEF NwInfo
  <2> QED
    BY <1>8, <2>1 DEF NwInfo, network, service
<1>9. CASE CallbackReturns \/ KillCallback
  BY <1>9, TimesAssumption DEF CallbackReturns, KillCallback, Goto, Service!Return, network
<1>10. CASE Tick
  <2>1. running # Reader /\ (stage[Reader] = "armed" => \A m \in net : m.due > 0)
    BY <1>10, TimesAssumption DEF Tick
  <2>2. \A m \in net' : \E n \in net :
          m.what = n.what /\ m.due = IF n.due > 0 THEN n.due - 1 ELSE 0
    BY <1>10, TickNet
  <2> QED
    BY <1>10, <2>1, <2>2 DEF Tick, network, service
<1>11. CASE UNCHANGED vars
  BY <1>11 DEF vars, network, service
<1> QED
  BY <1>1, <1>2, <1>3, <1>4, <1>5, <1>6, <1>7, <1>8, <1>9, <1>10, <1>11
  DEF Next, MainStep, EventThread, Over

LEMMA FoundStep ==
  ASSUME DInv, HeardInv, FoundInv, Undisturbed, [Next]_vars, faults' = 0
  PROVE  FoundInv'
<1>0. TypeOK /\ StepsInv
  BY DEF DInv, DType
<1>a. UNCHANGED network
  BY DEF Next, MainStep, SetUp, NetCreate, AskForReader, ArmReader, SendDiscover, StartTeardown,
         DisarmReader, CloseService, NetDestroy, EventThread, HandleData, StationInfo, NwInfo,
         CallbackReturns, KillCallback, Tick, Over, vars
<1> SUFFICES ASSUME pc' \notin {"exited", "hung"}, NEW s \in conf.oda, NEW n \in 1..lists[s]
             PROVE  Found(s, n)'
  BY <1>a DEF FoundInv, network
<1>b. pc \notin {"exited", "hung"}
  BY DEF Next, MainStep, SetUp, NetCreate, AskForReader, ArmReader, SendDiscover, StartTeardown,
         DisarmReader, CloseService, NetDestroy, EventThread, HandleData, StationInfo, NwInfo,
         CallbackReturns, KillCallback, Tick, Over, vars, Goto
<1>c. Found(s, n)
  BY <1>b DEF FoundInv
<1>d. s \in Stations /\ n \in Nat /\ n >= 1
  BY <1>0, NetworkType
<1>e. conf' = conf
  BY <1>a DEF network
<1>f. cb.what \in {"list", "nw"} /\ cb.nth \in Nat /\ cb.count \in Nat
  BY <1>0, MessageType
<1> USE DEF Found, Unsent, ListPending, InfoPending
<1>1. CASE SetUp \/ NetCreate \/ AskForReader \/ ArmReader
  BY <1>1 DEF SetUp, NetCreate, AskForReader, ArmReader, Goto
<1>2. CASE SendDiscover
  <2>1. Request("list", conf.oda, 0) /\ conf.oda \in SUBSET Stations
    BY <1>0, <1>2, NetworkType DEF SendDiscover
  <2>2. \E m \in net' : m.what = "list" /\ m.from = s /\ m.count = Elements("list", s)
    BY <1>0, <2>1, RequestUndisturbed
  <2> QED
    BY <2>2, ListElements DEF InList
<1>3. CASE StartTeardown \/ DisarmReader \/ CloseService \/ NetDestroy
  BY <1>c, <1>e, <1>3
  DEF StartTeardown, DisarmReader, CloseService, NetDestroy, Goto, service, Service!Disarm,
      Service!Close
<1>4. ASSUME NEW m \in net, HandleData(m) PROVE Found(s, n)'
  BY <1>c, <1>e, <1>4, TimesAssumption DEF HandleData, Service!Fire, InList, InInfo
<1>5. CASE StationInfo
  <2>1. cb'.what = "list" /\ cb'.from = cb.from /\ cb'.count = cb.count - 1 /\ cb.count > 0
    BY <1>0, <1>5, CountDown DEF StationInfo
  <2>2. /\ net \subseteq net' /\ report \subseteq report'
        /\ conf.nwinfo => \E m \in net' : InInfo(m, cb.from, cb.count)
    <3>1. CASE conf.nwinfo
      <4>1. Request("nw", {cb.from}, cb.count) /\ {cb.from} \in SUBSET Stations
        BY <1>0, <1>5, <3>1, MessageType DEF StationInfo
      <4>2. net \subseteq net' /\ \E m \in net' : /\ m.what = "nw" /\ m.from = cb.from
                                              /\ m.nth = cb.count /\ m.count = Elements("nw", cb.from)
        BY <1>0, <1>f, <4>1, RequestUndisturbed
      <4> QED
        BY <1>5, <4>2, ListElements DEF StationInfo, InInfo
    <3>2. CASE ~conf.nwinfo
      BY <1>5, <3>2 DEF StationInfo
    <3> QED
      BY <3>1, <3>2
  <2>3. s = cb.from /\ n = cb.count => Sections("list", s, n) \in report'
    BY <1>5 DEF StationInfo, Printed
  <2>4. CASE running = Reader /\ InList(cb, s, n)
    <3>1. CASE n = cb.count
      BY <1>e, <2>2, <2>3, <2>4, <3>1 DEF InList
    <3>2. CASE n # cb.count
      BY <1>5, <1>d, <1>f, <2>1, <2>4, <3>2 DEF InList, StationInfo, service
    <3> QED
      BY <3>1, <3>2
  <2>5. CASE ~(running = Reader /\ InList(cb, s, n))
    BY <1>c, <1>e, <1>5, <2>2, <2>5 DEF StationInfo, InInfo, service
  <2> QED
    BY <2>4, <2>5
<1>6. CASE NwInfo
  <2>1. cb'.what = "nw" /\ cb.what = "nw" /\ net' = net /\ report \subseteq report'
    BY <1>0, <1>6, CountDown DEF NwInfo
  <2>2. InInfo(cb, s, n) => Sections("nw", s, n) \in report'
    BY <1>6 DEF NwInfo, Printed, InInfo
  <2> QED
    BY <1>c, <1>e, <1>6, <2>1, <2>2 DEF NwInfo, InList, service
<1>7. CASE CallbackReturns
  BY <1>c, <1>d, <1>e, <1>7 DEF CallbackReturns, Service!Return, InList, InInfo
<1>8. CASE KillCallback
  BY <1>8 DEF KillCallback, Goto
<1>9. CASE Tick
  <2>1. \A l \in net : \E m \in net' :
          m.what = l.what /\ m.from = l.from /\ m.nth = l.nth /\ m.count = l.count
    BY <1>0, <1>9, TickNet
  <2>2. /\ running # Reader /\ pc' = pc /\ report' = report
        /\ Sections("list", s, n)' = Sections("list", s, n)
        /\ Sections("nw", s, n)' = Sections("nw", s, n)
    BY <1>e, <1>9, TimesAssumption DEF Tick, network, Sections
  <2>3. (\E m \in net : InList(m, s, n)) => \E m \in net' : InList(m, s, n)
    BY <2>1 DEF InList
  <2>4. (\E m \in net : InInfo(m, s, n)) => \E m \in net' : InInfo(m, s, n)
    BY <2>1 DEF InInfo
  <2> QED
    BY <1>c, <1>e, <2>2, <2>3, <2>4 DEF InList, InInfo
<1>10. CASE UNCHANGED vars
  BY <1>c, <1>e, <1>10 DEF vars, service
<1> QED
  BY <1>1, <1>2, <1>3, <1>4, <1>5, <1>6, <1>7, <1>8, <1>9, <1>10
  DEF Next, MainStep, EventThread, Over

LEMMA FaultsStay == TypeOK /\ [Next]_vars /\ faults' = 0 => faults = 0
<1> SUFFICES ASSUME TypeOK, [Next]_vars, faults' = 0, faults # 0 PROVE FALSE
  OBVIOUS
<1>0. faults \in Nat /\ ~Fails
  BY TimesAssumption DEF TypeOK, Fails
<1>1. \A what, S, n : ~Request(what, S, n)
  BY <1>0 DEF Request
<1> QED
  BY <1>0, <1>1
  DEF Next, MainStep, SetUp, NetCreate, AskForReader, ArmReader, SendDiscover, StartTeardown,
      DisarmReader, CloseService, NetDestroy, EventThread, HandleData, StationInfo, NwInfo,
      CallbackReturns, KillCallback, Tick, Over, vars

LEMMA CompleteStep == CInv /\ [Next]_vars => CInv'
<1> SUFFICES ASSUME CInv, [Next]_vars PROVE CInv'
  OBVIOUS
<1>1. DInv' /\ OrderInv'
  BY StepsStep, TypeStep, OrderStep DEF CInv, DInv
<1>2. delay' = delay
  BY DEF Next, MainStep, SetUp, NetCreate, AskForReader, ArmReader, SendDiscover, StartTeardown,
         DisarmReader, CloseService, NetDestroy, EventThread, HandleData, StationInfo, NwInfo,
         CallbackReturns, KillCallback, Tick, Over, vars, network
<1>3. Undisturbed' => Undisturbed /\ faults' = 0
  BY <1>2, FaultsStay DEF Undisturbed, CInv, DInv, DType
<1> QED
  BY <1>1, <1>3, HeardStep, FoundStep DEF CInv

\* The single sleep of main is enough for both round trips: everything that can
\* be discovered is printed, in every network of which two answers fit into it.
THEOREM DiscoveryIsComplete == Spec => []CompleteDiscovery
<1>1. Init => CInv
  <2>1. Init => OrderInv
    BY TimesAssumption DEF Init, OrderInv, NwInfoFollowsStation, Service!Init
  <2> QED
    BY <2>1, InitSafe DEF Init, CInv, HeardInv, FoundInv, Found, Unsent
<1>2. CInv => CompleteDiscovery
  <2> SUFFICES ASSUME CInv, pc = "done", Undisturbed PROVE report = Discoverable
    BY DEF CompleteDiscovery, Undisturbed
  <2>1. report \subseteq Discoverable
    BY DEF CInv, OrderInv, NwInfoFollowsStation
  <2>2. ASSUME NEW s \in conf.oda, NEW n \in 1..lists[s],
               NEW w \in {"list"} \cup IF conf.nwinfo THEN {"nw"} ELSE {}
        PROVE  Sections(w, s, n) \in report
    BY DEF CInv, HeardInv, FoundInv, Found, Unsent, ListPending, InfoPending
  <2>3. Discoverable \subseteq report
    BY <2>2 DEF Discoverable
  <2> QED
    BY <2>1, <2>3
<1> QED
  BY <1>1, <1>2, CompleteStep, PTL DEF Spec

=============================================================================
