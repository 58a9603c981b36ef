----------------------- MODULE EventsRefinementProofs -----------------------
(***************************************************************************)
(* events.c, under the client discipline, implements Dispatcher: the       *)
(* initial states map to initial states and every step maps to a step of   *)
(* the abstract service or leaves the mapped state alone.                  *)
(***************************************************************************)
EXTENDS EventsSafetyProofs

USE DEF TypeOK, PcOK, Goto, Threads, NoThread, SchedulePCs, DestroyPCs, ApiPCs,
        Working, WorksOn, apiVars, loopVars

\* The four variables of the abstract service, as this module sees them.
Mapped == <<PhaseOf, KindOf, StageOf, RunningOf>>

LEMMA MappedUnchanged == Mapped' = Mapped => UNCHANGED D!vars
BY DEF Mapped, D!vars

LEMMA InitRefines == Init => D!Init
BY DEF Init, D!Init, PhaseOf, KindOf, StageOf, RunningOf, InCallback, NoCall

\* Steps of the API: asking for an event, arming it, and disarming it.
LEMMA ScheduleRefines ==
  ASSUME IInv, NEW t \in Threads, NEW o \in Objects, NEW c \in Calls, Schedule(t, o, c)
  PROVE  D!Ask(o, c.kind) /\ c.kind \in D!Kinds
<1> USE DEF IInv, Schedule
<1>1. c \in CallRecords
  BY CallsAssumption
<1>2. base = "live" /\ base' = "live"
  BY DEF BaseInv
<1>3. KindOf[o] = "unset" /\ KindOf' = [KindOf EXCEPT ![o] = c.kind]
  <2>1. call[o].kind = "unset"
    BY DEF HandleInv, NoCall
  <2>2. call' = [call EXCEPT ![o] = c] /\ DOMAIN call = Objects
    OBVIOUS
  <2>3. \A p \in Objects : call'[p].kind = IF p = o THEN c.kind ELSE call[p].kind
    BY <2>2
  <2> QED
    BY <2>1, <2>3 DEF KindOf
<1>4. RunningOf' = RunningOf
  BY DEF RunningOf, InCallback
<1>5. StageOf' = StageOf
  BY DEF StageOf
<1> QED
  BY <1>1, <1>2, <1>3, <1>4, <1>5 DEF D!Ask, D!Kinds, PhaseOf, CallRecords, Kinds

LEMMA CancelRefines ==
  ASSUME IInv, NEW t \in Threads, NEW o \in Objects, Cancel(t, o)
  PROVE  Mapped' = Mapped
BY DEF IInv, Cancel, Mapped, PhaseOf, KindOf, StageOf, RunningOf, InCallback

\* An event is worked on only while the base is live and after it was asked for.
LEMMA WorkedOnIsKnown ==
  ASSUME IInv, NEW t \in Threads, Working(t)
  PROVE  PhaseOf = "up" /\ KindOf[obj[t]] # "unset" /\ obj[t] \in Objects
<1>1. base = "live"
  BY DEF IInv, BaseInv
<1>2. obj[t] \in Objects /\ call[obj[t]] \in CallRecords
  BY CallsAssumption DEF IInv, WorkInv, HandleInv
<1> QED
  BY <1>1, <1>2 DEF PhaseOf, KindOf, CallRecords, Kinds

LEMMA ApiRefines ==
  ASSUME ClientDiscipline, IInv, NEW t \in Threads, ApiStep(t)
  PROVE  \/ Mapped' = Mapped
         \/ \E o \in Objects : D!Arm(o) \/ D!Disarm(o)
<1> USE DEF IInv
<1>1. CASE StoreId(t) \/ Insert(t) \/ LookupMissed(t) \/ Unlink(t)
  <2>1. KindOf' = KindOf /\ StageOf' = StageOf /\ PhaseOf' = PhaseOf
    BY <1>1 DEF StoreId, Insert, LookupMissed, Unlink, KindOf, StageOf, PhaseOf
  <2>2. RunningOf' = RunningOf
    BY <1>1 DEF StoreId, Insert, LookupMissed, Unlink, RunningOf, InCallback
  <2> QED
    BY <2>1, <2>2 DEF Mapped
<1>2. ASSUME NEW ok \in EventNewOutcomes, EventNew(t, ok) PROVE Mapped' = Mapped
  <2>1. KindOf' = KindOf /\ PhaseOf' = PhaseOf
    BY <1>2 DEF EventNew, KindOf, PhaseOf
  <2>2. StageOf' = StageOf
    BY <1>2 DEF EventNew, StageOf, WorkInv
  <2>3. RunningOf' = RunningOf
    BY <1>2 DEF EventNew, RunningOf, InCallback
  <2> QED
    BY <2>1, <2>2, <2>3 DEF Mapped
<1>3. CASE EventAdd(t, FALSE)
  <2>1. KindOf' = KindOf /\ StageOf' = StageOf /\ PhaseOf' = PhaseOf
    BY <1>3 DEF EventAdd, KindOf, StageOf, PhaseOf
  <2>2. RunningOf' = RunningOf
    BY <1>3 DEF EventAdd, RunningOf, InCallback
  <2> QED
    BY <2>1, <2>2 DEF Mapped
<1>4. CASE EventAdd(t, TRUE)
  <2>1. PhaseOf = "up" /\ KindOf[obj[t]] # "unset" /\ obj[t] \in Objects
    BY <1>4, WorkedOnIsKnown DEF EventAdd
  <2>2. KindOf' = KindOf /\ PhaseOf' = PhaseOf
    BY <1>4 DEF EventAdd, KindOf, PhaseOf
  <2>3. StageOf[obj[t]] = "idle" /\ StageOf' = [StageOf EXCEPT ![obj[t]] = "armed"]
    BY <1>4, <2>1 DEF EventAdd, StageOf, WorkInv
  <2>4. RunningOf' = RunningOf
    BY <1>4 DEF EventAdd, RunningOf, InCallback, OwnInv
  <2> QED
    BY <2>1, <2>2, <2>3, <2>4 DEF D!Arm
<1>5. CASE LookupFound(t)
  <2>1. KindOf' = KindOf /\ StageOf' = StageOf /\ PhaseOf' = PhaseOf
    BY <1>5 DEF LookupFound, KindOf, StageOf, PhaseOf
  <2>2. RunningOf' = RunningOf
    BY <1>5 DEF LookupFound, RunningOf, InCallback, LookupInv
  <2> QED
    BY <2>1, <2>2 DEF Mapped
<1>6. CASE EventDel(t)
  <2>1. PhaseOf = "up" /\ KindOf[obj[t]] # "unset" /\ obj[t] \in Objects
    BY <1>6, WorkedOnIsKnown DEF EventDel
  <2>2. KindOf' = KindOf /\ PhaseOf' = PhaseOf
    BY <1>6 DEF EventDel, KindOf, PhaseOf
  <2>3. StageOf' = [StageOf EXCEPT ![obj[t]] = "over"]
    BY <1>6, <2>1 DEF EventDel, StageOf
  <2>4. RunningOf' = RunningOf
    BY <1>6 DEF EventDel, RunningOf, InCallback
  <2>5. CASE StageOf[obj[t]] = "over"
    BY <2>2, <2>3, <2>4, <2>5 DEF Mapped, StageOf
  <2> QED
    BY <2>1, <2>2, <2>3, <2>4, <2>5 DEF D!Disarm
<1>7. CASE EventFree(t)
  <2>1. KindOf' = KindOf /\ PhaseOf' = PhaseOf
    BY <1>7 DEF EventFree, KindOf, PhaseOf
  <2>2. StageOf' = StageOf
    BY <1>7 DEF EventFree, StageOf, WorkInv
  <2>3. RunningOf' = RunningOf
    BY <1>7 DEF EventFree, RunningOf, InCallback
  <2> QED
    BY <2>1, <2>2, <2>3 DEF Mapped
<1>8. CASE FreeObj(t)
  <2>1. KindOf' = KindOf /\ StageOf' = StageOf /\ PhaseOf' = PhaseOf
    BY <1>8 DEF FreeObj, KindOf, StageOf, PhaseOf
  <2>2. RunningOf' = RunningOf
    BY <1>8 DEF FreeObj, RunningOf, InCallback
  <2> QED
    BY <2>1, <2>2 DEF Mapped
<1>9. \A ok \in EventAddOutcomes : ok \in BOOLEAN
  BY OutcomesAssumption
<1> QED
  BY <1>1, <1>2, <1>3, <1>4, <1>5, <1>6, <1>7, <1>8, <1>9 DEF ApiStep

\* The event thread: firing, returning, and everything between callbacks.
LEMMA FireRefines ==
  ASSUME IInv, SingleShotsAnonymous, NEW o \in Objects, Fire(o)
  PROVE  D!Fire(o)
<1> USE DEF IInv, Fire
<1>1. PhaseOf = "up" /\ PhaseOf' = PhaseOf
  BY DEF PhaseOf, BaseInv
<1>2. KindOf' = KindOf
  BY DEF KindOf
<1>3. RunningOf = None /\ RunningOf' = o
  BY DEF RunningOf, InCallback
<1>4. Persistent(call[o]) <=> KindOf[o] # "single"
  BY DEF HeapInv, HandleInv, Persistent, SingleShotsAnonymous, KindOf
<1>5. StageOf[o] = "armed"
      /\ StageOf' = [StageOf EXCEPT ![o] = IF KindOf[o] = "single" THEN "over" ELSE "armed"]
  BY <1>4 DEF StageOf
<1> QED
  BY <1>1, <1>2, <1>3, <1>5 DEF D!Fire

LEMMA LoopRefines ==
  ASSUME IInv, SingleShotsAnonymous, LoopStep
  PROVE  Mapped' = Mapped \/ D!Return \/ \E o \in Objects : D!Fire(o)
<1> USE DEF IInv
<1>1. CASE CallbackReturns \/ CallbackCancelled
  <2>1. KindOf' = KindOf /\ StageOf' = StageOf /\ PhaseOf' = PhaseOf
    BY <1>1 DEF CallbackReturns, CallbackCancelled, KindOf, StageOf, PhaseOf
  <2>2. RunningOf # None /\ RunningOf' = None
    BY <1>1, ObjectsAssumption
    DEF CallbackReturns, CallbackCancelled, RunningOf, InCallback, CallbackInv
  <2> QED
    BY <2>1, <2>2 DEF D!Return
<1>2. CASE LoopNext
  BY <1>2 DEF LoopNext, Mapped, KindOf, StageOf, PhaseOf, RunningOf, InCallback
<1>3. CASE LoopStart \/ LoopWakes \/ LoopTop \/ LoopExits \/ LoopCancelled
  <2>1. KindOf' = KindOf /\ StageOf' = StageOf /\ PhaseOf' = PhaseOf
    BY <1>3 DEF LoopStart, LoopWakes, LoopTop, LoopExits, LoopCancelled, KindOf, StageOf, PhaseOf
  <2>2. RunningOf' = RunningOf
    BY <1>3 DEF LoopStart, LoopWakes, LoopTop, LoopExits, LoopCancelled, RunningOf, InCallback
  <2> QED
    BY <2>1, <2>2 DEF Mapped
<1> QED
  BY <1>1, <1>2, <1>3, FireRefines DEF LoopStep

\* The client thread: opening and closing the service.
LEMMA MainRefines ==
  ASSUME IInv,
         (\E ok \in SetupOutcomes, armed \in EventAddOutcomes : Setup(ok, armed))
           \/ TeardownBreak \/ TeardownStep
  PROVE  Mapped' = Mapped \/ D!Open \/ D!Close
<1> USE DEF IInv
<1>1. ASSUME NEW ok \in SetupOutcomes, NEW armed \in EventAddOutcomes, Setup(ok, armed)
      PROVE  Mapped' = Mapped \/ D!Open
  <2>1. PhaseOf = "down" /\ PhaseOf' = IF ok THEN "up" ELSE "down"
    BY <1>1 DEF Setup, PhaseOf, BaseInv
  <2>2. KindOf' = KindOf /\ StageOf' = StageOf
    BY <1>1 DEF Setup, KindOf, StageOf
  <2>3. RunningOf' = RunningOf
    BY <1>1 DEF Setup, RunningOf, InCallback, BaseInv
  <2> QED
    BY <2>1, <2>2, <2>3 DEF Mapped, D!Open
<1>2. CASE TeardownBreak \/ PthreadCancel \/ PthreadJoin
  <2>1. KindOf' = KindOf /\ StageOf' = StageOf /\ PhaseOf' = PhaseOf
    BY <1>2 DEF TeardownBreak, PthreadCancel, PthreadJoin, KindOf, StageOf, PhaseOf
  <2>2. RunningOf' = RunningOf
    BY <1>2 DEF TeardownBreak, PthreadCancel, PthreadJoin, RunningOf, InCallback
  <2> QED
    BY <2>1, <2>2 DEF Mapped
<1>3. ASSUME NEW o \in Objects, Reap(o) PROVE Mapped' = Mapped
  <2>1. KindOf' = KindOf /\ StageOf' = StageOf /\ PhaseOf' = PhaseOf
    BY <1>3 DEF Reap, KindOf, StageOf, PhaseOf
  <2>2. RunningOf' = RunningOf
    BY <1>3 DEF Reap, RunningOf, InCallback, OwnInv
  <2> QED
    BY <2>1, <2>2 DEF Mapped
<1>4. CASE BaseFree
  <2>1. PhaseOf = "up" /\ PhaseOf' = "closed"
    BY <1>4 DEF BaseFree, PhaseOf, BaseInv
  <2>2. KindOf' = KindOf /\ StageOf' = StageOf
    BY <1>4 DEF BaseFree, KindOf, StageOf
  <2>3. RunningOf = None /\ RunningOf' = None
    BY <1>4 DEF BaseFree, RunningOf, InCallback, OwnInv
  <2>4. \A o \in Objects : StageOf[o] # "armed"
    BY <1>4 DEF BaseFree, StageOf, HeapInv
  <2> QED
    BY <2>1, <2>2, <2>3, <2>4 DEF D!Close
<1> QED
  BY <1>1, <1>2, <1>3, <1>4 DEF TeardownStep

LEMMA NextRefines ==
  ASSUME ClientDiscipline, SingleShotsAnonymous, IInv, [Next]_vars
  PROVE  [D!Next]_(D!vars)
<1>1. CASE UNCHANGED vars
  <2>1. UNCHANGED <<pc, ret, ev, call, current, base>>
    BY <1>1 DEF vars
  <2> QED
    BY <2>1 DEF D!vars, PhaseOf, KindOf, StageOf, RunningOf, InCallback
<1>2. ASSUME NEW t \in Threads, ClientCall(t) PROVE [D!Next]_(D!vars)
  BY <1>2, ScheduleRefines, CancelRefines, MappedUnchanged DEF ClientCall, D!Next
<1> QED
  BY <1>1, <1>2, ApiRefines, LoopRefines, MainRefines, MappedUnchanged
  DEF Next, Done, StaysHung, D!Next

\* events.c implements the promise of events.h: one callback at a time, no
\* callback of an event that was cancelled, refused or not yet armed, one run of
\* a one-shot, and none after events_teardown has returned.
THEOREM EventsImplementDispatcher ==
  ASSUME ClientDiscipline, SingleShotsAnonymous
  PROVE  Spec => ImplementsDispatcher
BY InvariantHolds, InitRefines, NextRefines, PTL DEF Spec, ImplementsDispatcher, D!Spec

=============================================================================
