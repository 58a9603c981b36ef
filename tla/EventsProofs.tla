---------------------------- MODULE EventsProofs ----------------------------
(***************************************************************************)
(* Proofs about Events for every set of events, of calls and of outcomes.  *)
(***************************************************************************)
EXTENDS EventsInvariant, TLAPS

-----------------------------------------------------------------------------
(* Type correctness *)

\* Every Goto of the specification stays in the program of its thread.
LEMMA GotoType ==
  ASSUME PcOK, NEW t \in Threads, NEW from, NEW to, Goto(t, from, to),
         t = "main" => to \in MainPCs, t = "loop" => to \in LoopPCs
  PROVE  PcOK'
BY DEF PcOK, Goto, Threads

LEMMA ApiPCsShared == ApiPCs \cup {"client", "lookup"} \subseteq MainPCs \cap LoopPCs
BY DEF MainPCs, LoopPCs

\* The steps of the API that both threads take keep the types.
LEMMA ApiType ==
  ASSUME TypeOK, NEW t \in Threads, ApiStep(t)
  PROVE  TypeOK'
<1> USE DEF TypeOK, apiVars, loopVars
<1> DEFINE In(a, b) == Goto(t, a, b) => PcOK'
<1>1. ASSUME NEW a, NEW b \in ApiPCs \cup {"client", "lookup"} PROVE In(a, b)
  BY GotoType, ApiPCsShared
<1>2. CASE StoreId(t)
  <2>1. PcOK'
    BY <1>1, <1>2 DEF StoreId, ApiPCs, SchedulePCs
  <2>2. ObjOK'
    BY <1>2 DEF StoreId, Goto, ObjOK, PcOK, SchedulePCs
  <2>3. idreg[t] \in Nat
    OBVIOUS
  <2>4. idCnt' \in Nat
    BY <1>2, <2>3 DEF StoreId
  <2>5. id' \in [Objects -> Nat]
    BY <1>2, <2>3 DEF StoreId
  <2> QED
    BY <1>2, <2>1, <2>2, <2>4, <2>5 DEF StoreId
<1>3. ASSUME NEW ok \in EventNewOutcomes, EventNew(t, ok) PROVE TypeOK'
  <2>1. PcOK'
    BY <1>1, <1>3 DEF EventNew, ApiPCs, SchedulePCs, DestroyPCs
  <2>2. ObjOK'
    BY <1>3 DEF EventNew, Goto, ObjOK, PcOK, SchedulePCs
  <2> QED
    BY <1>3, <2>1, <2>2 DEF EventNew
<1>4. CASE Insert(t)
  <2>1. PcOK'
    BY <1>1, <1>4 DEF Insert, ApiPCs, SchedulePCs
  <2>2. ObjOK'
    BY <1>4 DEF Insert, Goto, ObjOK, PcOK, SchedulePCs
  <2>3. obj[t] \in Objects
    BY <1>4 DEF Insert, Goto, ObjOK, SchedulePCs
  <2> QED
    BY <1>4, <2>1, <2>2, <2>3 DEF Insert
<1>5. ASSUME NEW ok \in EventAddOutcomes, EventAdd(t, ok) PROVE TypeOK'
  <2>1. PcOK'
    BY <1>1, <1>5 DEF EventAdd, ApiPCs, DestroyPCs
  <2>2. ObjOK'
    BY <1>5 DEF EventAdd, Goto, ObjOK, PcOK, SchedulePCs
  <2>3. call[obj[t]].owner \in Threads \cup {NoThread} \/ obj[t] \notin Objects
    BY DEF CallRecords, NoCall
  <2> QED
    BY <1>5, <2>1, <2>2, <2>3 DEF EventAdd
<1>6. CASE LookupFound(t)
  <2>1. PcOK'
    BY <1>1, <1>6 DEF LookupFound, ApiPCs, DestroyPCs
  <2>2. ObjOK'
    BY <1>6 DEF LookupFound, Goto, ObjOK, PcOK, SchedulePCs
  <2> QED
    BY <1>6, <2>1, <2>2 DEF LookupFound, Matches
<1>7. CASE LookupMissed(t)
  <2>1. PcOK'
    BY <1>1, <1>7 DEF LookupMissed
  <2>2. ObjOK'
    BY <1>7 DEF LookupMissed, Goto, ObjOK, PcOK, SchedulePCs
  <2> QED
    BY <1>7, <2>1, <2>2 DEF LookupMissed
<1>8. CASE EventDel(t)
  <2>1. PcOK'
    BY <1>1, <1>8 DEF EventDel, ApiPCs, DestroyPCs
  <2>2. ObjOK'
    BY <1>8 DEF EventDel, Goto, ObjOK, PcOK, SchedulePCs
  <2> QED
    BY <1>8, <2>1, <2>2 DEF EventDel
<1>9. CASE EventFree(t)
  <2>1. PcOK'
    BY <1>1, <1>9 DEF EventFree, ApiPCs, DestroyPCs
  <2>2. ObjOK'
    BY <1>9 DEF EventFree, Goto, ObjOK, PcOK, SchedulePCs
  <2> QED
    BY <1>9, <2>1, <2>2 DEF EventFree
<1>10. CASE Unlink(t)
  <2>1. PcOK'
    BY <1>1, <1>10 DEF Unlink, ApiPCs, DestroyPCs
  <2>2. ObjOK'
    BY <1>10 DEF Unlink, Goto, ObjOK, PcOK, SchedulePCs
  <2> QED
    BY <1>10, <2>1, <2>2 DEF Unlink
<1>11. CASE FreeObj(t)
  <2>1. PcOK'
    BY <1>11, GotoType DEF FreeObj, MainPCs, LoopPCs, Threads
  <2>2. ObjOK'
    BY <1>11 DEF FreeObj, Goto, ObjOK, PcOK, SchedulePCs
  <2> QED
    BY <1>11, <2>1, <2>2 DEF FreeObj
<1> QED
  BY <1>2, <1>3, <1>4, <1>5, <1>6, <1>7, <1>8, <1>9, <1>10, <1>11 DEF ApiStep

\* The clients' calls, in the client thread and in callbacks.
LEMMA ClientType ==
  ASSUME TypeOK, NEW t \in Threads, ClientCall(t)
  PROVE  TypeOK'
<1> USE DEF TypeOK, loopVars
<1>1. ASSUME NEW o \in Objects, NEW c \in Calls, Schedule(t, o, c) PROVE TypeOK'
  <2>1. PcOK'
    BY <1>1, GotoType, ApiPCsShared DEF Schedule, ApiPCs, SchedulePCs
  <2>2. ObjOK'
    BY <1>1 DEF Schedule, Goto, ObjOK, PcOK, SchedulePCs
  <2> QED
    BY <1>1, <2>1, <2>2, CallsAssumption DEF Schedule
<1>2. ASSUME NEW o \in Objects, Cancel(t, o) PROVE TypeOK'
  <2>1. PcOK'
    BY <1>2, GotoType, ApiPCsShared DEF Cancel
  <2>2. ObjOK'
    BY <1>2 DEF Cancel, Goto, ObjOK, PcOK, SchedulePCs
  <2> QED
    BY <1>2, <2>1, <2>2 DEF Cancel
<1> QED
  BY <1>1, <1>2 DEF ClientCall

\* The event thread.
LEMMA LoopType ==
  ASSUME TypeOK, LoopStep
  PROVE  TypeOK'
<1> USE DEF TypeOK, apiVars, loopVars
<1>1. ASSUME NEW a, NEW b \in LoopPCs, Goto("loop", a, b) PROVE PcOK'
  BY <1>1, GotoType DEF Threads
<1>2. {"wait", "process", "client", "loop_next", "dead", "event_del"} \subseteq LoopPCs
  BY DEF LoopPCs, ApiPCs, DestroyPCs
<1>3. ASSUME NEW o \in Objects, Fire(o) PROVE TypeOK'
  <2>1. PcOK'
    BY <1>1, <1>2, <1>3 DEF Fire
  <2>2. ObjOK'
    BY <1>3 DEF Fire, Goto, ObjOK, PcOK, SchedulePCs
  <2> QED
    BY <1>3, <2>1, <2>2 DEF Fire
<1>4. CASE CallbackReturns
  <2>1. PcOK'
    BY <1>1, <1>2, <1>4 DEF CallbackReturns
  <2>2. ObjOK'
    BY <1>4 DEF CallbackReturns, Goto, ObjOK, PcOK, SchedulePCs
  <2>3. ret' \in [Threads -> {"client", "loop_next", "reap"}]
        /\ ret'["main"] # "loop_next" /\ ret'["loop"] # "reap"
    BY <1>4 DEF CallbackReturns, Threads
  <2> QED
    BY <1>4, <2>1, <2>2, <2>3 DEF CallbackReturns
<1>5. CASE LoopNext
  <2>1. PcOK'
    BY <1>1, <1>2, <1>5 DEF LoopNext
  <2>2. ObjOK'
    BY <1>5 DEF LoopNext, Goto, ObjOK, PcOK, SchedulePCs
  <2> QED
    BY <1>5, <2>1, <2>2 DEF LoopNext
<1>6. CASE LoopStart
  <2>1. PcOK'
    BY <1>1, <1>2, <1>6 DEF LoopStart
  <2>2. ObjOK'
    BY <1>6 DEF LoopStart, Goto, ObjOK, PcOK, SchedulePCs
  <2> QED
    BY <1>6, <2>1, <2>2 DEF LoopStart
<1>7. CASE LoopWakes \/ LoopTop \/ LoopExits \/ LoopCancelled \/ CallbackCancelled
  <2>1. PcOK'
    BY <1>1, <1>2, <1>7 DEF LoopWakes, LoopTop, LoopExits, LoopCancelled, CallbackCancelled
  <2>2. ObjOK'
    BY <1>7 DEF LoopWakes, LoopTop, LoopExits, LoopCancelled, CallbackCancelled, Goto, ObjOK, PcOK, SchedulePCs
  <2>3. UNCHANGED <<apiVars, loopVars>>
    BY <1>7 DEF LoopWakes, LoopTop, LoopExits, LoopCancelled, CallbackCancelled
  <2> QED
    BY <2>1, <2>2, <2>3
<1> QED
  BY <1>3, <1>4, <1>5, <1>6, <1>7 DEF LoopStep

\* events_setup and events_teardown.
LEMMA MainType ==
  ASSUME TypeOK,
         (\E ok \in SetupOutcomes, armed \in EventAddOutcomes : Setup(ok, armed))
           \/ TeardownBreak \/ TeardownStep
  PROVE  TypeOK'
<1> USE DEF TypeOK, apiVars, loopVars
<1>1. ASSUME NEW a, NEW b \in MainPCs, Goto("main", a, b) PROVE PcOK'
  BY <1>1, GotoType DEF Threads
<1>2. {"pthread_cancel", "join", "reap", "gone", "event_del"} \subseteq MainPCs
  BY DEF MainPCs, ApiPCs, DestroyPCs
<1>3. ASSUME NEW ok \in SetupOutcomes, NEW armed \in EventAddOutcomes, Setup(ok, armed)
      PROVE  TypeOK'
  <2>1. ok \in BOOLEAN /\ armed \in BOOLEAN
    BY OutcomesAssumption
  <2>2. PcOK'
    BY <1>3 DEF Setup, PcOK, Threads, MainPCs, LoopPCs
  <2>3. ObjOK'
    BY <1>3 DEF Setup, Goto, ObjOK, PcOK, SchedulePCs
  <2> QED
    BY <1>3, <2>1, <2>3, <2>2 DEF Setup
<1>4. CASE TeardownBreak
  <2>1. PcOK'
    BY <1>1, <1>2, <1>4 DEF TeardownBreak
  <2>2. ObjOK'
    BY <1>4 DEF TeardownBreak, Goto, ObjOK, PcOK, SchedulePCs
  <2> QED
    BY <1>4, <2>1, <2>2 DEF TeardownBreak
<1>5. CASE PthreadCancel
  <2>1. PcOK'
    BY <1>1, <1>2, <1>5 DEF PthreadCancel
  <2>2. ObjOK'
    BY <1>5 DEF PthreadCancel, Goto, ObjOK, PcOK, SchedulePCs
  <2> QED
    BY <1>5, <2>1, <2>2 DEF PthreadCancel
<1>6. CASE PthreadJoin
  <2>1. PcOK'
    BY <1>1, <1>2, <1>6 DEF PthreadJoin
  <2>2. ObjOK'
    BY <1>6 DEF PthreadJoin, Goto, ObjOK, PcOK, SchedulePCs
  <2> QED
    BY <1>6, <2>1, <2>2 DEF PthreadJoin
<1>7. ASSUME NEW o \in Objects, Reap(o) PROVE TypeOK'
  <2>1. PcOK'
    BY <1>1, <1>2, <1>7 DEF Reap
  <2>2. ObjOK'
    BY <1>7 DEF Reap, Goto, ObjOK, PcOK, SchedulePCs
  <2>3. ret' \in [Threads -> {"client", "loop_next", "reap"}]
        /\ ret'["main"] # "loop_next" /\ ret'["loop"] # "reap"
    BY <1>7 DEF Reap, Threads
  <2> QED
    BY <1>7, <2>1, <2>2, <2>3 DEF Reap
<1>8. CASE BaseFree
  <2>1. PcOK'
    BY <1>1, <1>2, <1>8 DEF BaseFree
  <2>2. ObjOK'
    BY <1>8 DEF BaseFree, Goto, ObjOK, PcOK, SchedulePCs
  <2> QED
    BY <1>8, <2>1, <2>2 DEF BaseFree
<1> QED
  BY <1>3, <1>4, <1>5, <1>6, <1>7, <1>8 DEF TeardownStep

LEMMA InitType == Init => TypeOK
<1> SUFFICES ASSUME Init PROVE TypeOK
  OBVIOUS
<1>1. PcOK
  BY DEF Init, PcOK, Threads, MainPCs, LoopPCs
<1>2. call \in [Objects -> CallRecords \cup {NoCall}]
  BY DEF Init
<1>3. ret \in [Threads -> {"client", "loop_next", "reap"}]
      /\ ret["main"] # "loop_next" /\ ret["loop"] # "reap"
  BY DEF Init, Threads
<1>5. ObjOK
  BY DEF Init, ObjOK, SchedulePCs
<1>6. id \in [Objects -> Nat] /\ fired \in [Objects -> 0..2]
  BY DEF Init
<1>7. /\ current \in Objects \cup {None} /\ mtx \in Threads \cup {NoThread}
      /\ brk \in BOOLEAN /\ cancelReq \in BOOLEAN
      /\ noExit \in {"none", "added", "refused"}
      /\ base \in {"none", "live", "freed"}
  BY DEF Init
<1>8. /\ heap \in [Objects -> {"unused", "alloc", "freed"}]
      /\ ev \in [Objects -> {"none", "new", "added", "del", "freed"}]
      /\ list \subseteq Objects /\ handle \in [Objects -> Threads \cup {NoThread}]
  BY DEF Init
<1>4. obj \in [Threads -> Objects \cup {None}] /\ idreg \in [Threads -> Nat] /\ idCnt \in Nat
  BY DEF Init
<1> QED
  BY <1>1, <1>2, <1>3, <1>4, <1>5, <1>6, <1>7, <1>8 DEF TypeOK

LEMMA TypeStep ==
  ASSUME TypeOK, [Next]_vars
  PROVE  TypeOK'
<1>1. CASE UNCHANGED vars
  BY <1>1 DEF TypeOK, PcOK, ObjOK, vars, apiVars, loopVars
<1> QED
  BY <1>1, ApiType, ClientType, LoopType, MainType DEF Next, Done, StaysHung

\* Every variable of the service keeps its type, whatever the clients ask
\* for and whichever calls of libevent fail.
THEOREM TypeCorrect == Spec => []TypeOK
BY InitType, TypeStep, PTL DEF Spec

=============================================================================
