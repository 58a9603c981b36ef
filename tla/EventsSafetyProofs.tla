------------------------- MODULE EventsSafetyProofs -------------------------
(***************************************************************************)
(* IInv of EventsInvariant is an inductive invariant of Events under       *)
(* ClientDiscipline.  One lemma per action; in each of them one step for   *)
(* every conjunct that the action can disturb, with the conjuncts it then  *)
(* rests on, and one step for the conjuncts that only have to be carried   *)
(* over.  Memory safety, the wait for a running callback and a complete    *)
(* teardown follow.  The last part is about how long the event thread and  *)
(* a one-shot event live.                                                  *)
(***************************************************************************)
EXTENDS EventsProofs

USE DEF TypeOK, PcOK, Goto, Threads, NoThread, SchedulePCs, DestroyPCs, ApiPCs,
        Working, WorksOn, apiVars, loopVars

\* events_setup starts from nothing: no thread works, nothing is in the list.
LEMMA SetupStep ==
  ASSUME IInv, TypeOK', NEW ok \in SetupOutcomes, NEW armed \in EventAddOutcomes,
         Setup(ok, armed)
  PROVE  IInv'
<1> USE DEF IInv, Setup
<1>1. MutexInv'
  BY DEF MutexInv, BaseInv
<1>2. OwnInv'
  BY DEF OwnInv, BaseInv
<1>3. HeapInv'
  BY DEF HeapInv, BaseInv
<1>4. IdInv'
  BY DEF IdInv, HasId, Anonymous, OneScheduler, BaseInv
<1>5. WorkInv' /\ DisjointInv'
  BY DEF WorkInv, DisjointInv
<1>6. HandleInv'
  BY DEF HandleInv, Persistent
<1>7. CallbackInv' /\ LookupInv'
  BY DEF CallbackInv, InCallback, Persistent, LookupInv
<1>8. BaseInv' /\ OwnCallbackFinished'
  BY DEF BaseInv, OwnCallbackFinished
<1> QED
  BY <1>1, <1>2, <1>3, <1>4, <1>5, <1>6, <1>7, <1>8

\* The allocation is fresh, so no other thread works on it.
LEMMA ScheduleStep ==
  ASSUME IInv, TypeOK', NEW t \in Threads, NEW o \in Objects, NEW c \in Calls, Schedule(t, o, c)
  PROVE  IInv'
<1> USE DEF IInv, Schedule
<1>1. WorkInv'
  BY DEF WorkInv, HeapInv
<1>2. OwnInv'
  BY DEF OwnInv, WorkInv, HeapInv
<1>3. DisjointInv'
  BY DEF DisjointInv, WorkInv
<1>4. HandleInv'
  BY DEF HandleInv, Persistent, HeapInv
<1>5. MutexInv'
  BY DEF MutexInv
<1>6. HeapInv'
  BY DEF HeapInv
<1>7. CallbackInv' /\ LookupInv'
  BY DEF CallbackInv, InCallback, Persistent, LookupInv
<1>8. BaseInv' /\ OwnCallbackFinished'
  BY DEF BaseInv, OwnCallbackFinished
<1>9. IdInv'
  BY DEF IdInv, HasId, Anonymous, OneScheduler
<1> QED
  BY <1>1, <1>2, <1>3, <1>4, <1>5, <1>6, <1>7, <1>8, <1>9

\* events_cancel is entered with an identifier the thread was given.
LEMMA CancelStep ==
  ASSUME IInv, TypeOK', NEW t \in Threads, NEW o \in Objects, Cancel(t, o)
  PROVE  IInv'
<1> USE DEF IInv, Cancel
<1>1. MutexInv' /\ WorkInv' /\ OwnInv' /\ DisjointInv'
  BY DEF MutexInv, WorkInv, OwnInv, DisjointInv
<1>2. HeapInv' /\ HandleInv'
  BY DEF HeapInv, HandleInv, Persistent
<1>3. CallbackInv' /\ LookupInv'
  BY DEF CallbackInv, InCallback, Persistent, LookupInv
<1>4. BaseInv' /\ OwnCallbackFinished'
  BY DEF BaseInv, OwnCallbackFinished
<1>5. IdInv'
  BY DEF IdInv, HasId, Anonymous, OneScheduler
<1> QED
  BY <1>1, <1>2, <1>3, <1>4, <1>5

\* The counter moves past the identifier that was just given out.
LEMMA StoreIdStep ==
  ASSUME ClientDiscipline, IInv, TypeOK', NEW t \in Threads, StoreId(t)
  PROVE  IInv'
<1> USE DEF IInv, StoreId
<1>1. IdInv'
  BY DEF IdInv, HasId, Anonymous, OneScheduler, WorkInv, DisjointInv, OwnInv,
         ClientDiscipline
<1>2. MutexInv' /\ WorkInv' /\ OwnInv' /\ DisjointInv'
  BY DEF MutexInv, WorkInv, OwnInv, DisjointInv
<1>3. HeapInv' /\ HandleInv'
  BY DEF HeapInv, HandleInv, Persistent
<1>4. CallbackInv' /\ LookupInv'
  BY DEF CallbackInv, InCallback, Persistent, LookupInv
<1>5. BaseInv' /\ OwnCallbackFinished'
  BY DEF BaseInv, OwnCallbackFinished
<1> QED
  BY <1>1, <1>2, <1>3, <1>4, <1>5

LEMMA EventNewStep ==
  ASSUME ClientDiscipline, IInv, TypeOK', NEW t \in Threads, EventNew(t, TRUE)
  PROVE  IInv'
<1> USE DEF IInv, EventNew
<1>1. WorkInv'
  BY DEF WorkInv, DisjointInv
<1>2. HeapInv'
  BY DEF HeapInv, WorkInv
<1>3. MutexInv' /\ OwnInv' /\ DisjointInv'
  BY DEF MutexInv, OwnInv, DisjointInv
<1>4. HandleInv'
  BY DEF HandleInv, Persistent
<1>5. CallbackInv' /\ LookupInv'
  BY DEF CallbackInv, InCallback, Persistent, LookupInv
<1>6. BaseInv' /\ OwnCallbackFinished'
  BY DEF BaseInv, OwnCallbackFinished
<1>7. IdInv'
  BY DEF IdInv, HasId, Anonymous, OneScheduler
<1> QED
  BY <1>1, <1>2, <1>3, <1>4, <1>5, <1>6, <1>7

\* The event enters the list under the mutex.
LEMMA InsertStep ==
  ASSUME IInv, TypeOK', NEW t \in Threads, Insert(t)
  PROVE  IInv'
<1> USE DEF IInv, Insert
<1>1. WorkInv'
  BY DEF WorkInv, DisjointInv
<1>2. HeapInv'
  BY DEF HeapInv, WorkInv
<1>3. BaseInv'
  BY DEF BaseInv, OwnInv
<1>4. MutexInv' /\ OwnInv' /\ DisjointInv'
  BY DEF MutexInv, OwnInv, DisjointInv
<1>5. HandleInv'
  BY DEF HandleInv, Persistent
<1>6. CallbackInv' /\ LookupInv'
  BY DEF CallbackInv, InCallback, Persistent, LookupInv
<1>7. OwnCallbackFinished'
  BY DEF OwnCallbackFinished
<1>8. IdInv'
  BY DEF IdInv, HasId, Anonymous, OneScheduler
<1> QED
  BY <1>1, <1>2, <1>3, <1>4, <1>5, <1>6, <1>7, <1>8

\* The event is armed and its identifier handed to the client.
LEMMA EventAddStep ==
  ASSUME IInv, TypeOK', NEW t \in Threads, EventAdd(t, TRUE)
  PROVE  IInv'
<1> USE DEF IInv, EventAdd, GetsId
<1>1. WorkInv'
  BY DEF WorkInv, DisjointInv
<1>2. OwnInv'
  BY DEF OwnInv, DisjointInv, WorkInv
<1>3. HeapInv'
  BY DEF HeapInv, WorkInv
<1>4. CallbackInv'
  BY DEF CallbackInv, InCallback, Persistent, OwnInv, WorkInv
<1>5. LookupInv'
  BY DEF LookupInv, OwnInv
<1>6. MutexInv' /\ DisjointInv'
  BY DEF MutexInv, DisjointInv
<1>7. HandleInv'
  BY DEF HandleInv, Persistent
<1>8. BaseInv' /\ OwnCallbackFinished'
  BY DEF BaseInv, OwnCallbackFinished
<1>9. IdInv'
  BY DEF IdInv, HasId, Anonymous, OneScheduler
<1> QED
  BY <1>1, <1>2, <1>3, <1>4, <1>5, <1>6, <1>7, <1>8, <1>9

\* A refused event is destroyed by the thread that created it.
LEMMA EventAddFailsStep ==
  ASSUME IInv, TypeOK', NEW t \in Threads, EventAdd(t, FALSE)
  PROVE  IInv'
<1> USE DEF IInv, EventAdd
<1>1. OwnInv'
  BY DEF OwnInv, WorkInv
<1>2. MutexInv' /\ WorkInv' /\ DisjointInv'
  BY DEF MutexInv, WorkInv, DisjointInv
<1>3. HeapInv' /\ HandleInv'
  BY DEF HeapInv, HandleInv, Persistent
<1>4. CallbackInv' /\ LookupInv'
  BY DEF CallbackInv, InCallback, Persistent, LookupInv
<1>5. BaseInv' /\ OwnCallbackFinished'
  BY DEF BaseInv, OwnCallbackFinished
<1>6. IdInv'
  BY DEF IdInv, HasId, Anonymous, OneScheduler
<1> QED
  BY <1>1, <1>2, <1>3, <1>4, <1>5, <1>6

\* The search finds the event whose identifier was given, and no other:
\* identifiers are unique, or nobody holds one.
LEMMA LookupFoundStep ==
  ASSUME ClientDiscipline, IInv, TypeOK', NEW t \in Threads, LookupFound(t)
  PROVE  IInv'
<1> USE DEF IInv, LookupFound
<1>1. PICK o \in Matches(obj[t]) : obj' = [obj EXCEPT ![t] = o]
  OBVIOUS
<1>2. obj[t] \in Objects /\ handle[obj[t]] = t
  BY DEF LookupInv
<1>3. o \in list /\ id[o] = id[obj[t]] /\ o \in Objects
  BY DEF Matches
<1>4. ~Anonymous
  BY <1>2 DEF Anonymous, HandleInv, HeapInv
<1>5. HasId(o) /\ HasId(obj[t])
  BY <1>2, <1>3 DEF HasId, WorkInv, OwnInv, HeapInv
<1>6. o = obj[t]
  BY <1>2, <1>3, <1>4, <1>5 DEF IdInv
<1>7. obj' = obj
  BY <1>1, <1>6
<1>8. WorkInv'
  BY <1>2, <1>3, <1>6, <1>7 DEF WorkInv, OwnInv, HeapInv
<1>9. OwnInv'
  BY <1>2, <1>6, <1>7 DEF OwnInv
<1>10. DisjointInv'
  BY <1>2, <1>6, <1>7 DEF DisjointInv, OwnInv
<1>11. CallbackInv'
  BY <1>2, <1>6, <1>7 DEF CallbackInv, InCallback, HandleInv, Persistent
<1>12. MutexInv'
  BY <1>7 DEF MutexInv
<1>13. HeapInv' /\ HandleInv'
  BY <1>7 DEF HeapInv, HandleInv, Persistent
<1>14. LookupInv'
  BY <1>7 DEF LookupInv
<1>15. BaseInv' /\ OwnCallbackFinished'
  BY <1>7 DEF BaseInv, OwnCallbackFinished
<1>16. IdInv'
  BY <1>7 DEF IdInv, HasId, Anonymous, OneScheduler
<1> QED
  BY <1>8, <1>9, <1>10, <1>11, <1>12, <1>13, <1>14, <1>15, <1>16

LEMMA LookupMissedStep ==
  ASSUME IInv, TypeOK', NEW t \in Threads, LookupMissed(t)
  PROVE  IInv'
<1> USE DEF IInv, LookupMissed
<1>1. MutexInv' /\ WorkInv' /\ OwnInv' /\ DisjointInv'
  BY DEF MutexInv, WorkInv, OwnInv, DisjointInv
<1>2. HeapInv' /\ HandleInv'
  BY DEF HeapInv, HandleInv, Persistent
<1>3. CallbackInv' /\ LookupInv'
  BY DEF CallbackInv, InCallback, Persistent, LookupInv
<1>4. BaseInv' /\ OwnCallbackFinished'
  BY DEF BaseInv, OwnCallbackFinished
<1>5. IdInv'
  BY DEF IdInv, HasId, Anonymous, OneScheduler
<1> QED
  BY <1>1, <1>2, <1>3, <1>4, <1>5

\* event_del takes the event out of the base.
LEMMA EventDelStep ==
  ASSUME IInv, TypeOK', NEW t \in Threads, EventDel(t)
  PROVE  IInv'
<1> USE DEF IInv, EventDel, MayDelete
<1>1. WorkInv'
  BY DEF WorkInv, DisjointInv
<1>2. HeapInv'
  BY DEF HeapInv, WorkInv
<1>3. MutexInv' /\ OwnInv' /\ DisjointInv'
  BY DEF MutexInv, OwnInv, DisjointInv
<1>4. HandleInv'
  BY DEF HandleInv, Persistent
<1>5. CallbackInv' /\ LookupInv'
  BY DEF CallbackInv, InCallback, Persistent, LookupInv
<1>6. BaseInv' /\ OwnCallbackFinished'
  BY DEF BaseInv, OwnCallbackFinished
<1>7. IdInv'
  BY DEF IdInv, HasId, Anonymous, OneScheduler
<1> QED
  BY <1>1, <1>2, <1>3, <1>4, <1>5, <1>6, <1>7

LEMMA EventFreeStep ==
  ASSUME IInv, TypeOK', NEW t \in Threads, EventFree(t)
  PROVE  IInv'
<1> USE DEF IInv, EventFree
<1>1. WorkInv'
  BY DEF WorkInv, DisjointInv
<1>2. HeapInv'
  BY DEF HeapInv, WorkInv
<1>3. MutexInv' /\ OwnInv' /\ DisjointInv'
  BY DEF MutexInv, OwnInv, DisjointInv
<1>4. HandleInv'
  BY DEF HandleInv, Persistent
<1>5. CallbackInv' /\ LookupInv'
  BY DEF CallbackInv, InCallback, Persistent, LookupInv
<1>6. BaseInv' /\ OwnCallbackFinished'
  BY DEF BaseInv, OwnCallbackFinished
<1>7. IdInv'
  BY DEF IdInv, HasId, Anonymous, OneScheduler
<1> QED
  BY <1>1, <1>2, <1>3, <1>4, <1>5, <1>6, <1>7

LEMMA UnlinkStep ==
  ASSUME IInv, TypeOK', NEW t \in Threads, Unlink(t)
  PROVE  IInv'
<1> USE DEF IInv, Unlink
<1>1. WorkInv'
  BY DEF WorkInv, DisjointInv
<1>2. HeapInv'
  BY DEF HeapInv, WorkInv
<1>3. MutexInv' /\ OwnInv' /\ DisjointInv'
  BY DEF MutexInv, OwnInv, DisjointInv
<1>4. HandleInv'
  BY DEF HandleInv, Persistent
<1>5. CallbackInv' /\ LookupInv'
  BY DEF CallbackInv, InCallback, Persistent, LookupInv
<1>6. BaseInv' /\ OwnCallbackFinished'
  BY DEF BaseInv, OwnCallbackFinished
<1>7. IdInv'
  BY DEF IdInv, HasId, Anonymous, OneScheduler
<1> QED
  BY <1>1, <1>2, <1>3, <1>4, <1>5, <1>6, <1>7

LEMMA FreeObjStep ==
  ASSUME IInv, TypeOK', NEW t \in Threads, FreeObj(t)
  PROVE  IInv'
<1> USE DEF IInv, FreeObj
<1>1. WorkInv'
  BY DEF WorkInv, DisjointInv
<1>2. HeapInv'
  BY DEF HeapInv, WorkInv
<1>3. HandleInv'
  BY DEF HandleInv, Persistent, WorkInv
<1>4. IdInv'
  BY DEF IdInv, HasId, Anonymous, OneScheduler, WorkInv
<1>5. MutexInv' /\ OwnInv' /\ DisjointInv'
  BY DEF MutexInv, OwnInv, DisjointInv
<1>6. CallbackInv' /\ LookupInv'
  BY DEF CallbackInv, InCallback, Persistent, LookupInv
<1>7. BaseInv' /\ OwnCallbackFinished'
  BY DEF BaseInv, OwnCallbackFinished
<1> QED
  BY <1>1, <1>2, <1>3, <1>4, <1>5, <1>6, <1>7

\* No thread destroys the event that the loop starts to run, unless it holds
\* the identifier, and then the event is not a one-shot.
LEMMA FireStep ==
  ASSUME IInv, TypeOK', NEW o \in Objects, Fire(o)
  PROVE  IInv'
<1> USE DEF IInv, Fire
<1>1. CallbackInv'
  BY DEF CallbackInv, InCallback, Persistent, WorkInv, OwnInv, HeapInv, HandleInv
<1>2. OwnCallbackFinished'
  BY DEF OwnCallbackFinished, WorkInv
<1>3. MutexInv' /\ WorkInv' /\ OwnInv' /\ DisjointInv'
  BY DEF MutexInv, WorkInv, OwnInv, DisjointInv
<1>4. HeapInv' /\ HandleInv'
  BY DEF HeapInv, HandleInv, Persistent
<1>5. LookupInv'
  BY DEF LookupInv
<1>6. BaseInv'
  BY DEF BaseInv
<1>7. IdInv'
  BY DEF IdInv, HasId, Anonymous, OneScheduler
<1> QED
  BY <1>1, <1>2, <1>3, <1>4, <1>5, <1>6, <1>7

\* The proxy of a one-shot destroys its event; nobody else can be doing so.
LEMMA CallbackReturnsStep ==
  ASSUME IInv, TypeOK', CallbackReturns
  PROVE  IInv'
<1> USE DEF IInv, CallbackReturns
<1>1. WorkInv'
  BY DEF WorkInv, CallbackInv, InCallback, Persistent, HeapInv
<1>2. OwnInv'
  BY DEF OwnInv, CallbackInv, InCallback, Persistent, HandleInv
<1>3. DisjointInv'
  BY DEF DisjointInv, CallbackInv, InCallback, Persistent
<1>4. MutexInv'
  BY DEF MutexInv
<1>5. HeapInv' /\ HandleInv'
  BY DEF HeapInv, HandleInv, Persistent
<1>6. CallbackInv' /\ LookupInv'
  BY DEF CallbackInv, InCallback, Persistent, LookupInv
<1>7. BaseInv' /\ OwnCallbackFinished'
  BY DEF BaseInv, OwnCallbackFinished
<1>8. IdInv'
  BY DEF IdInv, HasId, Anonymous, OneScheduler
<1> QED
  BY <1>1, <1>2, <1>3, <1>4, <1>5, <1>6, <1>7, <1>8

\* current_event is cleared: event_del may go on.
LEMMA LoopNextStep ==
  ASSUME IInv, TypeOK', LoopNext
  PROVE  IInv'
<1> USE DEF IInv, LoopNext
<1>1. OwnCallbackFinished'
  BY ObjectsAssumption DEF OwnCallbackFinished, WorkInv
<1>2. MutexInv' /\ WorkInv' /\ OwnInv' /\ DisjointInv'
  BY DEF MutexInv, WorkInv, OwnInv, DisjointInv
<1>3. HeapInv' /\ HandleInv'
  BY DEF HeapInv, HandleInv, Persistent
<1>4. CallbackInv' /\ LookupInv'
  BY DEF CallbackInv, InCallback, Persistent, LookupInv
<1>5. BaseInv'
  BY DEF BaseInv
<1>6. IdInv'
  BY DEF IdInv, HasId, Anonymous, OneScheduler
<1> QED
  BY <1>1, <1>2, <1>3, <1>4, <1>5, <1>6

LEMMA LoopSkipStep ==
  ASSUME IInv, TypeOK', LoopStart \/ LoopWakes \/ LoopTop
  PROVE  IInv'
<1> USE DEF IInv, LoopStart, LoopWakes, LoopTop
<1>1. MutexInv' /\ WorkInv' /\ OwnInv' /\ DisjointInv'
  BY DEF MutexInv, WorkInv, OwnInv, DisjointInv
<1>2. HeapInv' /\ HandleInv'
  BY DEF HeapInv, HandleInv, Persistent
<1>3. CallbackInv' /\ LookupInv'
  BY DEF CallbackInv, InCallback, Persistent, LookupInv
<1>4. BaseInv' /\ OwnCallbackFinished'
  BY DEF BaseInv, OwnCallbackFinished
<1>5. IdInv'
  BY DEF IdInv, HasId, Anonymous, OneScheduler
<1> QED
  BY <1>1, <1>2, <1>3, <1>4, <1>5

\* The event thread ends, by itself or cancelled.
LEMMA LoopEndsStep ==
  ASSUME IInv, TypeOK', LoopExits \/ LoopCancelled \/ CallbackCancelled
  PROVE  IInv'
<1> USE DEF IInv, LoopExits, LoopCancelled, CallbackCancelled
<1>1. MutexInv' /\ WorkInv' /\ OwnInv' /\ DisjointInv'
  BY DEF MutexInv, WorkInv, OwnInv, DisjointInv
<1>2. HeapInv' /\ HandleInv'
  BY DEF HeapInv, HandleInv, Persistent
<1>3. CallbackInv' /\ LookupInv'
  BY DEF CallbackInv, InCallback, Persistent, LookupInv
<1>4. BaseInv' /\ OwnCallbackFinished'
  BY DEF BaseInv, OwnCallbackFinished
<1>5. IdInv'
  BY DEF IdInv, HasId, Anonymous, OneScheduler
<1> QED
  BY <1>1, <1>2, <1>3, <1>4, <1>5

LEMMA TeardownBreakStep ==
  ASSUME IInv, TypeOK', TeardownBreak \/ PthreadCancel
  PROVE  IInv'
<1> USE DEF IInv, TeardownBreak, PthreadCancel
<1>1. MutexInv' /\ WorkInv' /\ OwnInv' /\ DisjointInv'
  BY DEF MutexInv, WorkInv, OwnInv, DisjointInv
<1>2. HeapInv' /\ HandleInv'
  BY DEF HeapInv, HandleInv, Persistent
<1>3. CallbackInv' /\ LookupInv'
  BY DEF CallbackInv, InCallback, Persistent, LookupInv
<1>4. BaseInv' /\ OwnCallbackFinished'
  BY DEF BaseInv, OwnCallbackFinished
<1>5. IdInv'
  BY DEF IdInv, HasId, Anonymous, OneScheduler
<1> QED
  BY <1>1, <1>2, <1>3, <1>4, <1>5

LEMMA PthreadJoinStep ==
  ASSUME IInv, TypeOK', PthreadJoin
  PROVE  IInv'
<1> USE DEF IInv, PthreadJoin
<1>1. MutexInv' /\ WorkInv' /\ OwnInv' /\ DisjointInv'
  BY DEF MutexInv, WorkInv, OwnInv, DisjointInv
<1>2. HeapInv' /\ HandleInv'
  BY DEF HeapInv, HandleInv, Persistent
<1>3. CallbackInv' /\ LookupInv'
  BY DEF CallbackInv, InCallback, Persistent, LookupInv
<1>4. BaseInv' /\ OwnCallbackFinished'
  BY DEF BaseInv, OwnCallbackFinished
<1>5. IdInv'
  BY DEF IdInv, HasId, Anonymous, OneScheduler
<1> QED
  BY <1>1, <1>2, <1>3, <1>4, <1>5

\* events_teardown destroys an event that no thread works on, for the event
\* thread is dead.
LEMMA ReapStep ==
  ASSUME IInv, TypeOK', NEW o \in Objects, Reap(o)
  PROVE  IInv'
<1> USE DEF IInv, Reap
<1>1. WorkInv'
  BY DEF WorkInv, HeapInv, OwnInv
<1>2. DisjointInv'
  BY DEF DisjointInv, OwnInv
<1>3. CallbackInv'
  BY DEF CallbackInv, InCallback, Persistent, OwnInv
<1>4. MutexInv' /\ OwnInv'
  BY DEF MutexInv, OwnInv
<1>5. HeapInv' /\ HandleInv'
  BY DEF HeapInv, HandleInv, Persistent
<1>6. LookupInv'
  BY DEF LookupInv
<1>7. BaseInv' /\ OwnCallbackFinished'
  BY DEF BaseInv, OwnCallbackFinished
<1>8. IdInv'
  BY DEF IdInv, HasId, Anonymous, OneScheduler
<1> QED
  BY <1>1, <1>2, <1>3, <1>4, <1>5, <1>6, <1>7, <1>8

LEMMA BaseFreeStep ==
  ASSUME IInv, TypeOK', BaseFree
  PROVE  IInv'
<1> USE DEF IInv, BaseFree
<1>1. BaseInv'
  BY DEF BaseInv, OwnInv
<1>2. MutexInv' /\ WorkInv' /\ OwnInv' /\ DisjointInv'
  BY DEF MutexInv, WorkInv, OwnInv, DisjointInv
<1>3. HeapInv' /\ HandleInv'
  BY DEF HeapInv, HandleInv, Persistent
<1>4. CallbackInv' /\ LookupInv'
  BY DEF CallbackInv, InCallback, Persistent, LookupInv
<1>5. OwnCallbackFinished'
  BY DEF OwnCallbackFinished
<1>6. IdInv'
  BY DEF IdInv, HasId, Anonymous, OneScheduler
<1> QED
  BY <1>1, <1>2, <1>3, <1>4, <1>5, <1>6

-----------------------------------------------------------------------------

LEMMA InitInvariant == Init => IInv
<1> SUFFICES ASSUME Init PROVE IInv
  OBVIOUS
<1>1. TypeOK
  BY InitType
<1>2. MutexInv /\ WorkInv /\ DisjointInv /\ LookupInv /\ BaseInv /\ OwnCallbackFinished
  BY DEF Init, MutexInv, WorkInv, DisjointInv, LookupInv, BaseInv, OwnCallbackFinished
<1>3. OwnInv /\ HeapInv /\ HandleInv /\ CallbackInv
  BY DEF Init, OwnInv, HeapInv, HandleInv, CallbackInv, InCallback
<1>4. IdInv
  BY DEF Init, IdInv, HasId
<1> QED
  BY <1>1, <1>2, <1>3, <1>4 DEF IInv

LEMMA NextInvariant ==
  ASSUME ClientDiscipline, IInv, [Next]_vars
  PROVE  IInv'
<1>1. TypeOK'
  BY TypeStep DEF IInv
<1>2. ASSUME NEW t \in Threads, ClientCall(t) PROVE IInv'
  BY <1>1, <1>2, ScheduleStep, CancelStep DEF ClientCall
<1>3. ASSUME NEW t \in Threads, ApiStep(t) PROVE IInv'
  <2>1. ASSUME NEW ok \in EventNewOutcomes, EventNew(t, ok) PROVE IInv'
    BY <1>1, <2>1, EventNewStep DEF ClientDiscipline
  <2>2. ASSUME NEW ok \in EventAddOutcomes, EventAdd(t, ok) PROVE IInv'
    <3>1. ok \in BOOLEAN
      BY OutcomesAssumption
    <3> QED
      BY <1>1, <2>2, <3>1, EventAddStep, EventAddFailsStep
  <2> QED
    BY <1>1, <1>3, <2>1, <2>2, StoreIdStep, InsertStep, LookupFoundStep, LookupMissedStep,
       EventDelStep, EventFreeStep, UnlinkStep, FreeObjStep
    DEF ApiStep
<1>4. CASE LoopStep
  BY <1>1, <1>4, FireStep, CallbackReturnsStep, LoopNextStep, LoopSkipStep, LoopEndsStep
  DEF LoopStep
<1>5. CASE TeardownBreak \/ TeardownStep
  BY <1>1, <1>5, TeardownBreakStep, PthreadJoinStep, ReapStep, BaseFreeStep DEF TeardownStep
<1>6. ASSUME NEW ok \in SetupOutcomes, NEW armed \in EventAddOutcomes, Setup(ok, armed)
      PROVE  IInv'
  BY <1>1, <1>6, SetupStep
<1>7. CASE UNCHANGED vars
  <2>1. /\ UNCHANGED <<pc, obj, ret, idreg, idCnt, heap, ev, list, call, id, handle>>
        /\ UNCHANGED <<mtx, current, base>>
    BY <1>7 DEF vars
  <2>2. MutexInv' /\ WorkInv' /\ OwnInv' /\ DisjointInv' /\ HeapInv' /\ HandleInv'
    BY <2>1 DEF IInv, MutexInv, WorkInv, OwnInv, DisjointInv, HeapInv, HandleInv, Persistent
  <2>3. CallbackInv' /\ IdInv' /\ LookupInv' /\ BaseInv' /\ OwnCallbackFinished'
    BY <2>1 DEF IInv, CallbackInv, InCallback, Persistent, IdInv, HasId, LookupInv, BaseInv,
                OwnCallbackFinished
  <2> QED
    BY <1>1, <2>2, <2>3 DEF IInv
<1> QED
  BY <1>2, <1>3, <1>4, <1>5, <1>6, <1>7 DEF Next, Done, StaysHung

LEMMA InvariantHolds == ASSUME ClientDiscipline PROVE Spec => []IInv
BY InitInvariant, NextInvariant, PTL DEF Spec

\* Under the client discipline no thread of events.c ever dereferences memory,
\* a libevent event or a list entry that was given back (_destroy_events_event
\* against events_cancel, the one-shot proxy and events_teardown).
THEOREM MemorySafety == ASSUME ClientDiscipline PROVE Spec => []NoUseAfterFree
<1>1. IInv => NoUseAfterFree
  BY DEF IInv, NoUseAfterFree, WorkInv, HeapInv, CallbackInv, InCallback, BaseInv
<1> QED
  BY <1>1, InvariantHolds, PTL

\* events_cancel and events_teardown never free an event whose callback is
\* still running in the event thread.
THEOREM CallbackFinished == ASSUME ClientDiscipline PROVE Spec => []OwnCallbackFinished
<1>1. IInv => OwnCallbackFinished
  BY DEF IInv
<1> QED
  BY <1>1, InvariantHolds, PTL

\* Two identifiers that clients hold are different, although _id_cnt is
\* incremented outside the mutex.
THEOREM IdentifiersDiffer ==
  ASSUME ClientDiscipline PROVE Spec => []UniqueIds
<1>1. IInv => UniqueIds
  <2> SUFFICES ASSUME IInv, NEW o \in Objects, NEW p \in Objects, o # p,
                      handle[o] \in Threads, handle[p] \in Threads
               PROVE  id[o] # id[p]
    BY DEF UniqueIds
  <2>1. ~Anonymous
    BY DEF IInv, HandleInv, HeapInv, Anonymous
  <2>2. HasId(o) /\ HasId(p)
    BY DEF IInv, HeapInv, OwnInv, HasId
  <2> QED
    BY <2>1, <2>2 DEF IInv, IdInv
<1> QED
  BY <1>1, InvariantHolds, PTL

\* events_teardown leaves neither an event nor a locked mutex nor a running
\* thread behind.
THEOREM CleanTeardown == ASSUME ClientDiscipline PROVE Spec => []TeardownClean
<1>1. IInv => TeardownClean
  BY DEF IInv, TeardownClean, MutexInv, OwnInv, HeapInv, BaseInv
<1> QED
  BY <1>1, InvariantHolds, PTL

-----------------------------------------------------------------------------
(***************************************************************************)
(* Two promises of src/src/events.c about how long things live: the event  *)
(* thread ends only in events_teardown, or on a base without any event     *)
(* when the no-exit timer was refused, and the callback of a one-shot      *)
(* event runs at most once, under the client discipline.                   *)
(***************************************************************************)

-----------------------------------------------------------------------------
(* The event thread *)

NotSetUp == pc["main"] \in {"boot", "failed"}

\* Whatever could end the event thread is the work of events_teardown (the
\* break flag, the cancellation, a base without the no-exit timer), unless
\* event_add has refused that timer.
LifeInv ==
  /\ TypeOK
  /\ NotSetUp => pc["loop"] = "none"
  /\ NotSetUp \/ TearingDown \/ noExit # "none"
  /\ brk \/ cancelReq => TearingDown
  /\ pc["loop"] = "dead" => TearingDown \/ noExit = "refused"

LEMMA ApiLife ==
  ASSUME LifeInv, TypeOK', NEW t \in Threads, ApiStep(t) \/ ClientCall(t)
  PROVE  LifeInv'
<1> USE DEF LifeInv, NotSetUp, TearingDown, TypeOK, PcOK, Goto, Threads, loopVars,
            TeardownPCs, DestroyPCs
<1>1. CASE StoreId(t) \/ Insert(t)
  BY <1>1 DEF StoreId, Insert
<1>2. ASSUME NEW ok \in EventNewOutcomes, EventNew(t, ok) PROVE LifeInv'
  BY <1>2 DEF EventNew
<1>3. ASSUME NEW ok \in EventAddOutcomes, EventAdd(t, ok) PROVE LifeInv'
  BY <1>3 DEF EventAdd
<1>4. CASE LookupFound(t) \/ LookupMissed(t)
  BY <1>4 DEF LookupFound, LookupMissed, apiVars
<1>5. CASE EventDel(t) \/ EventFree(t) \/ Unlink(t)
  BY <1>5 DEF EventDel, EventFree, Unlink
<1>6. CASE FreeObj(t)
  BY <1>6 DEF FreeObj
<1>7. ASSUME NEW o \in Objects, NEW c \in Calls, Schedule(t, o, c) PROVE LifeInv'
  BY <1>7 DEF Schedule
<1>8. ASSUME NEW o \in Objects, Cancel(t, o) PROVE LifeInv'
  BY <1>8 DEF Cancel
<1> QED
  BY <1>1, <1>2, <1>3, <1>4, <1>5, <1>6, <1>7, <1>8 DEF ApiStep, ClientCall

\* The event thread ends in event_base_loop or, cancelled, in a callback: the
\* flag, the cancellation, or nothing to wait for.
LEMMA ThreadEnds ==
  ASSUME TypeOK, LoopStep, pc'["loop"] = "dead"
  PROVE  brk \/ cancelReq \/ ~HasEvents
BY DEF LoopStep, LoopStart, LoopWakes, Fire, CallbackReturns, LoopNext, LoopTop, LoopExits,
       LoopCancelled, CallbackCancelled, TypeOK, PcOK, Goto, Threads

LEMMA LoopLife ==
  ASSUME LifeInv, TypeOK', LoopStep
  PROVE  LifeInv'
<1> USE DEF LifeInv, NotSetUp, TearingDown, TypeOK, PcOK, Goto, Threads, apiVars, loopVars
<1>0. pc'["main"] = pc["main"] /\ noExit' = noExit /\ cancelReq' = cancelReq
      /\ ret'["main"] = ret["main"] /\ (brk' => brk) /\ pc["loop"] # "none"
  BY DEF LoopStep, LoopStart, LoopWakes, Fire, CallbackReturns, LoopNext, LoopTop, LoopExits,
         LoopCancelled, CallbackCancelled
<1>1. pc'["loop"] = "dead" => brk \/ cancelReq \/ noExit # "added"
  BY ThreadEnds DEF HasEvents
<1> QED
  BY <1>0, <1>1

LEMMA MainLife ==
  ASSUME LifeInv, TypeOK',
         (\E ok \in SetupOutcomes, armed \in EventAddOutcomes : Setup(ok, armed))
           \/ TeardownBreak \/ TeardownStep
  PROVE  LifeInv'
<1> USE DEF LifeInv, NotSetUp, TearingDown, TypeOK, PcOK, Goto, Threads, apiVars, loopVars,
            TeardownPCs, DestroyPCs
<1>1. ASSUME NEW ok \in SetupOutcomes, NEW armed \in EventAddOutcomes, Setup(ok, armed)
      PROVE  LifeInv'
  BY <1>1, OutcomesAssumption DEF Setup
<1>2. CASE TeardownBreak \/ PthreadCancel \/ PthreadJoin \/ BaseFree
  BY <1>2 DEF TeardownBreak, PthreadCancel, PthreadJoin, BaseFree
<1>3. ASSUME NEW o \in Objects, Reap(o) PROVE LifeInv'
  BY <1>3 DEF Reap
<1> QED
  BY <1>1, <1>2, <1>3 DEF TeardownStep

LEMMA LifeStep ==
  ASSUME LifeInv, [Next]_vars
  PROVE  LifeInv'
<1>1. TypeOK'
  BY TypeStep DEF LifeInv
<1>2. CASE UNCHANGED vars
  BY <1>1, <1>2 DEF LifeInv, NotSetUp, TearingDown, vars, apiVars, loopVars
<1> QED
  BY <1>1, <1>2, ApiLife, LoopLife, MainLife DEF Next, Done, StaysHung

\* No thread but the event thread itself ends the event thread.
LEMMA OnlyLoopEnds ==
  ASSUME TypeOK, [Next]_vars, pc["loop"] # "dead", pc'["loop"] = "dead"
  PROVE  LoopStep
<1> USE DEF TypeOK, PcOK, Goto, Threads, ApiPCs, SchedulePCs, DestroyPCs
<1>1. \A t \in Threads : ~ApiStep(t)
  BY DEF ApiStep, StoreId, EventNew, Insert, EventAdd, LookupFound, LookupMissed, EventDel,
         EventFree, Unlink, FreeObj
<1>2. \A t \in Threads : ~ClientCall(t)
  BY DEF ClientCall, Schedule, Cancel
<1>3. ~TeardownBreak /\ ~TeardownStep
  BY DEF TeardownBreak, TeardownStep, PthreadCancel, PthreadJoin, Reap, BaseFree
<1>4. ~\E ok \in SetupOutcomes, armed \in EventAddOutcomes : Setup(ok, armed)
  BY DEF Setup
<1> QED
  BY <1>1, <1>2, <1>3, <1>4 DEF Next, Done, StaysHung, vars

\* The event thread of events_setup runs until events_teardown ends it, with
\* one exception: setup ignores the result of event_add on the no-exit timer,
\* and a thread without that timer ends when the base holds no event.  Nothing
\* that clients or callbacks do, or that fails in their calls, ends it while
\* an event of theirs is armed.
THEOREM LoopOutlivesClients == Spec => LoopEndsForAReason
<1>1. Init => LifeInv
  BY InitType DEF Init, LifeInv, NotSetUp, Threads
<1>2. ASSUME LifeInv, [Next]_vars, pc["loop"] # "dead", pc'["loop"] = "dead"
      PROVE  TearingDown \/ (noExit = "refused" /\ \A o \in Objects : ev[o] # "added")
  <2>1. LoopStep
    BY <1>2, OnlyLoopEnds DEF LifeInv
  <2>2. brk \/ cancelReq \/ ~HasEvents
    BY <1>2, <2>1, ThreadEnds DEF LifeInv
  <2>3. pc["loop"] # "none"
    BY <2>1 DEF LoopStep, LoopStart, LoopWakes, Fire, CallbackReturns, LoopNext, LoopTop,
                LoopExits, LoopCancelled, CallbackCancelled, Goto
  <2> QED
    BY <1>2, <2>2, <2>3 DEF LifeInv, HasEvents, TypeOK
<1>3. LifeInv /\ [Next]_vars =>
        [ pc["loop"] # "dead" /\ pc'["loop"] = "dead" =>
            \/ TearingDown
            \/ noExit = "refused" /\ \A o \in Objects : ev[o] # "added" ]_vars
  BY <1>2
<1> QED
  BY <1>1, <1>3, LifeStep, PTL DEF Spec, LoopEndsForAReason

-----------------------------------------------------------------------------
(* One-shot events *)

\* An event whose one-shot callback has run is out of the base for good.
FiredOnce(o) ==
  /\ fired[o] > 0 => heap[o] # "unused"
  /\ call[o].kind = "single" /\ fired[o] > 0 => fired[o] = 1 /\ ev[o] \in {"del", "freed"}

FiredInv == \A o \in Objects : FiredOnce(o)

\* Only Fire calls a callback, and it takes a one-shot event out of the base.
LEMMA FireOnce ==
  ASSUME SingleShotsAnonymous, IInv, FiredInv, NEW e \in Objects, Fire(e)
  PROVE  FiredInv'
<1> SUFFICES ASSUME NEW o \in Objects PROVE FiredOnce(o)'
  BY DEF FiredInv
<1> USE DEF IInv, TypeOK, FiredOnce, FiredInv, Fire
<1>1. CASE o # e
  BY <1>1
<1>2. CASE o = e
  <2>1. ev[e] = "added" /\ heap[e] = "alloc" /\ call[e] \in Calls
    BY DEF HeapInv, HandleInv
  <2>2. call[e].kind = "single" => ~Persistent(call[e])
    BY <2>1 DEF SingleShotsAnonymous, Persistent
  <2>3. call[e].kind = "single" => fired[e] = 0
    BY <2>1
  <2> QED
    BY <1>2, <2>1, <2>2, <2>3
<1> QED
  BY <1>1, <1>2

\* No thread arms an event again, or reuses the memory of one that ran.
LEMMA OtherOnce ==
  ASSUME IInv, FiredInv, NEW t \in Threads, ApiStep(t) \/ ClientCall(t)
  PROVE  FiredInv'
<1> SUFFICES ASSUME NEW o \in Objects PROVE FiredOnce(o)'
  BY DEF FiredInv
<1> USE DEF IInv, TypeOK, FiredOnce, FiredInv, WorkInv, Working, Goto, apiVars, loopVars,
            ApiPCs, SchedulePCs, DestroyPCs
<1>1. CASE StoreId(t) \/ Insert(t) \/ LookupFound(t) \/ LookupMissed(t)
  BY <1>1 DEF StoreId, Insert, LookupFound, LookupMissed
<1>2. ASSUME NEW ok \in EventNewOutcomes, EventNew(t, ok) PROVE FiredOnce(o)'
  BY <1>2 DEF EventNew
<1>3. ASSUME NEW ok \in EventAddOutcomes, EventAdd(t, ok) PROVE FiredOnce(o)'
  BY <1>3 DEF EventAdd
<1>4. CASE EventDel(t) \/ EventFree(t) \/ Unlink(t)
  BY <1>4 DEF EventDel, EventFree, Unlink
<1>5. CASE FreeObj(t)
  BY <1>5 DEF FreeObj
<1>6. ASSUME NEW e \in Objects, NEW c \in Calls, Schedule(t, e, c) PROVE FiredOnce(o)'
  BY <1>6 DEF Schedule
<1>7. ASSUME NEW e \in Objects, Cancel(t, e) PROVE FiredOnce(o)'
  BY <1>7 DEF Cancel
<1> QED
  BY <1>1, <1>2, <1>3, <1>4, <1>5, <1>6, <1>7 DEF ApiStep, ClientCall

LEMMA FiredStep ==
  ASSUME SingleShotsAnonymous, IInv, FiredInv, [Next]_vars
  PROVE  FiredInv'
<1>1. ASSUME NEW t \in Threads, ApiStep(t) \/ ClientCall(t) PROVE FiredInv'
  BY <1>1, OtherOnce
<1>2. ASSUME NEW e \in Objects, Fire(e) PROVE FiredInv'
  BY <1>2, FireOnce
<1>3. CASE UNCHANGED <<heap, ev, call, fired>>
  BY <1>3 DEF FiredInv, FiredOnce
<1>4. ASSUME LoopStep, ~\E e \in Objects : Fire(e) PROVE UNCHANGED <<heap, ev, call, fired>>
  BY <1>4 DEF LoopStep, LoopStart, LoopWakes, CallbackReturns, LoopNext, LoopTop, LoopExits,
              LoopCancelled, CallbackCancelled, apiVars, loopVars
<1>5. ASSUME (\E ok \in SetupOutcomes, armed \in EventAddOutcomes : Setup(ok, armed))
           \/ TeardownBreak \/ TeardownStep
      PROVE  UNCHANGED <<heap, ev, call, fired>>
  BY <1>5 DEF Setup, TeardownBreak, TeardownStep, PthreadCancel, PthreadJoin, Reap, BaseFree,
              apiVars, loopVars
<1> QED
  BY <1>1, <1>2, <1>3, <1>4, <1>5 DEF Next, Done, StaysHung, vars, apiVars, loopVars

\* The callback given to events_schedule_single_shot runs at most once, when
\* nobody passes that call an identifier's address: its event is never in the
\* base again, although the list keeps it until the proxy destroys it.
THEOREM SingleShotsFireOnce ==
  ASSUME ClientDiscipline, SingleShotsAnonymous
  PROVE  Spec => []SingleShotFiresOnce
<1>1. Init => FiredInv
  BY DEF Init, FiredInv, FiredOnce
<1>2. IInv /\ FiredInv /\ [Next]_vars => FiredInv'
  BY FiredStep
<1>3. IInv /\ FiredInv => SingleShotFiresOnce
  <2> SUFFICES ASSUME IInv, FiredInv, NEW o \in Objects, call[o].kind = "single"
               PROVE  fired[o] <= 1
    BY DEF SingleShotFiresOnce
  <2>1. fired[o] \in 0..2
    BY DEF IInv, TypeOK
  <2> QED
    BY <2>1 DEF FiredInv, FiredOnce
<1> QED
  BY <1>1, <1>2, <1>3, InvariantHolds, PTL DEF Spec

=============================================================================
