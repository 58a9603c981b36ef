------------------------------- MODULE Events -------------------------------
(***************************************************************************)
(* src/src/events.c: an event service on top of libevent.  A client thread *)
(* ("main") calls the API; a thread of the service ("loop") runs           *)
(* event_base_loop and, inside it, the clients' callbacks, which may call  *)
(* the API again.  Every access to shared memory that another thread can   *)
(* observe is a step of its own: the counter of identifiers is read and    *)
(* written without the mutex, the list is searched under the mutex and     *)
(* the element found is used after the mutex was released.                 *)
(*                                                                         *)
(* libevent and pthreads are modelled from how events.c uses them:         *)
(*   - event_del blocks while another thread runs the event's callback;    *)
(*   - event_base_loop clears the break flag when it starts, ends when it  *)
(*     finds the flag set or the base empty, and takes a one-shot event    *)
(*     out of the base before it runs its callback;                        *)
(*   - a thread that pthread_cancel hit ends at its next cancellation      *)
(*     point: the wait of event_base_loop or a blocking call in a callback.*)
(*                                                                         *)
(* A dereference of freed memory has no special step here: NoUseAfterFree  *)
(* states that no thread is ever about to make one.                        *)
(***************************************************************************)
EXTENDS Naturals, FiniteSets

CONSTANTS
  Objects,          \* the struct events_event that are ever allocated
  None,             \* "no event"
  Calls,            \* the calls clients make, see CallRecords
  Schedulers,       \* threads that schedule events or add readers
  SetupOutcomes,    \* results of events_setup: subset of BOOLEAN
  EventNewOutcomes, \* results of event_new: subset of BOOLEAN
  EventAddOutcomes, \* results of event_add: subset of BOOLEAN
  CallbackBlocks    \* TRUE when callbacks contain cancellation points

Threads == {"main", "loop"}
NoThread == "nobody"

(***************************************************************************)
(* A call to the API: what is asked for and, when the id pointer is not    *)
(* NULL, the one thread that will use the identifier in events_cancel.     *)
(***************************************************************************)
Kinds == {"single", "periodic", "reader"}
CallRecords == [kind : Kinds, owner : Threads \cup {NoThread}]
NoCall == [kind |-> "unset", owner |-> NoThread]

ASSUME ObjectsAssumption == None \notin Objects /\ IsFiniteSet(Objects)
ASSUME CallsAssumption == Calls \subseteq CallRecords /\ Schedulers \subseteq Threads
ASSUME OutcomesAssumption ==
  /\ SetupOutcomes \subseteq BOOLEAN
  /\ EventNewOutcomes \subseteq BOOLEAN
  /\ EventAddOutcomes \subseteq BOOLEAN
  /\ CallbackBlocks \in BOOLEAN

VARIABLES
  pc,        \* the next step of each thread
  obj,       \* the event the thread's API call works on
  ret,       \* where the API call returns to
  idreg,     \* the value of _id_cnt the thread has read
  idCnt,     \* ctx->_id_cnt
  heap,      \* "unused", "alloc", "freed": the struct events_event
  ev,        \* its struct event: "none", "new", "added", "del", "freed"
  list,      \* ctx->events_events
  call,      \* the API call that created the event
  id,        \* evs_ev->_id
  handle,    \* the thread that holds the identifier, once the call returned
  mtx,       \* holder of ctx->events_events_mtx
  current,   \* libevent's current_event: the callback being run
  brk,       \* libevent's event_break
  cancelReq, \* pthread_cancel(ctx->event_thread) was called
  noExit,    \* ctx->no_exit_timer_event: "none", "added" to the base, "refused"
  base,      \* "none", "live", "freed": ctx->base
  fired      \* how often each event ran, saturating at 2

apiVars == <<obj, ret, idreg, idCnt, heap, ev, list, call, id, handle, mtx>>
loopVars == <<current, brk, cancelReq, noExit, base, fired>>
vars == <<pc, apiVars, loopVars>>

\* Mutant: periodic events get the one-shot proxy too.
PersistentReaderOnly(c) == c.kind = "reader"

\* Mutant: "persistent = true" in place of "persistent == true".
PersistentAlways(c) == TRUE

(***************************************************************************)
(* _events_schedule takes (ctx, cb, usr, tv, id, persistent).              *)
(* events_schedule_single_shot passes (..., tv, false, id): a non-NULL id  *)
(* becomes persistent = true, and the identifier goes to a NULL pointer.   *)
(***************************************************************************)
Persistent(c) == c.kind # "single" \/ c.owner # NoThread
GetsId(c) == c.kind # "single" /\ c.owner # NoThread

SchedulePCs == {"store_id", "event_new", "insert", "event_add"}
DestroyPCs == {"event_del", "event_free", "unlink", "free_obj"}
ApiPCs == SchedulePCs \cup DestroyPCs
MainPCs == {"boot", "failed", "client", "lookup"} \cup ApiPCs
             \cup {"pthread_cancel", "join", "reap", "gone"}
LoopPCs == {"none", "start", "wait", "process", "client", "lookup"} \cup ApiPCs
             \cup {"loop_next", "dead"}
TeardownPCs == {"pthread_cancel", "join", "reap", "gone"}

MaxId == Cardinality(Objects)

PcOK ==
  /\ pc \in [Threads -> MainPCs \cup LoopPCs]
  /\ pc["main"] \in MainPCs /\ pc["loop"] \in LoopPCs

\* The event that a thread is creating.
ObjOK == \A t \in Threads : pc[t] \in SchedulePCs => obj[t] \in Objects

TypeOK ==
  /\ PcOK
  /\ obj \in [Threads -> Objects \cup {None}]
  /\ ObjOK
  /\ ret \in [Threads -> {"client", "loop_next", "reap"}]
  /\ ret["main"] # "loop_next" /\ ret["loop"] # "reap"
  /\ idreg \in [Threads -> Nat] /\ idCnt \in Nat
  /\ heap \in [Objects -> {"unused", "alloc", "freed"}]
  /\ ev \in [Objects -> {"none", "new", "added", "del", "freed"}]
  /\ list \subseteq Objects
  /\ call \in [Objects -> CallRecords \cup {NoCall}]
  /\ id \in [Objects -> Nat]
  /\ handle \in [Objects -> Threads \cup {NoThread}]
  /\ mtx \in Threads \cup {NoThread}
  /\ current \in Objects \cup {None}
  /\ brk \in BOOLEAN /\ cancelReq \in BOOLEAN
  /\ noExit \in {"none", "added", "refused"}
  /\ base \in {"none", "live", "freed"}
  /\ fired \in [Objects -> 0..2]

Init ==
  /\ pc = [t \in Threads |-> IF t = "main" THEN "boot" ELSE "none"]
  /\ obj = [t \in Threads |-> None]
  /\ ret = [t \in Threads |-> "client"]
  /\ idreg = [t \in Threads |-> 0]
  /\ idCnt = 0
  /\ heap = [o \in Objects |-> "unused"]
  /\ ev = [o \in Objects |-> "none"]
  /\ list = {}
  /\ call = [o \in Objects |-> NoCall]
  /\ id = [o \in Objects |-> 0]
  /\ handle = [o \in Objects |-> NoThread]
  /\ mtx = NoThread
  /\ current = None
  /\ brk = FALSE /\ cancelReq = FALSE /\ noExit = "none"
  /\ base = "none"
  /\ fired = [o \in Objects |-> 0]

Goto(t, from, to) ==
  /\ pc[t] = from
  /\ pc' = [pc EXCEPT ![t] = to]

-----------------------------------------------------------------------------
(* events_setup *)

\* Mutant: without the no-exit timer.
SetupWithoutTimer(ok, armed) ==
  /\ pc["main"] = "boot"
  /\ pc' = IF ok THEN [t \in Threads |-> IF t = "main" THEN "client" ELSE "start"]
                 ELSE [pc EXCEPT !["main"] = "failed"]
  /\ base' = IF ok THEN "live" ELSE "none"
  /\ UNCHANGED <<apiVars, current, brk, cancelReq, noExit, fired>>

(***************************************************************************)
(* The result of event_add on the no-exit timer is ignored: a successful   *)
(* setup starts the thread with the timer in the base, or with an empty    *)
(* base.  On a failure of calloc, event_base_new, event_new or             *)
(* pthread_create everything but the no-exit timer's memory is given back. *)
(***************************************************************************)
Setup(ok, armed) ==
  /\ pc["main"] = "boot"
  /\ pc' = IF ok THEN [t \in Threads |-> IF t = "main" THEN "client" ELSE "start"]
                 ELSE [pc EXCEPT !["main"] = "failed"]
  /\ base' = IF ok THEN "live" ELSE "none"
  /\ noExit' = IF ~ok THEN "none" ELSE IF armed THEN "added" ELSE "refused"
  /\ UNCHANGED <<apiVars, current, brk, cancelReq, fired>>

-----------------------------------------------------------------------------
(* events_schedule_single_shot, events_schedule_periodic, events_add_reader *)

\* Mutant: the result of calloc is not checked.
ScheduleUnchecked(t, o, c) ==
  /\ t \in Schedulers
  /\ Goto(t, "client", "store_id")
  /\ heap[o] = "unused"
  /\ obj' = [obj EXCEPT ![t] = None]
  /\ ret' = [ret EXCEPT ![t] = "client"]
  /\ UNCHANGED <<idreg, idCnt, heap, ev, list, call, id, handle, mtx, loopVars>>

\* calloc, and the read of _id_cnt++ (no lock is held).
Schedule(t, o, c) ==
  /\ t \in Schedulers
  /\ Goto(t, "client", "store_id")
  /\ heap[o] = "unused"
  /\ heap' = [heap EXCEPT ![o] = "alloc"]
  /\ call' = [call EXCEPT ![o] = c]
  /\ obj' = [obj EXCEPT ![t] = o]
  /\ ret' = [ret EXCEPT ![t] = "client"]
  /\ idreg' = [idreg EXCEPT ![t] = idCnt]
  /\ UNCHANGED <<idCnt, ev, list, id, handle, mtx, loopVars>>

\* Mutant: the counter is not incremented.
StoreIdOnly(t) ==
  /\ Goto(t, "store_id", "event_new")
  /\ id' = [id EXCEPT ![obj[t]] = idreg[t]]
  /\ UNCHANGED <<obj, ret, idreg, idCnt, heap, ev, list, call, handle, mtx, loopVars>>

\* The write of _id_cnt++, and evs_ev->_id.
StoreId(t) ==
  /\ Goto(t, "store_id", "event_new")
  /\ idCnt' = idreg[t] + 1
  /\ id' = [id EXCEPT ![obj[t]] = idreg[t]]
  /\ UNCHANGED <<obj, ret, idreg, heap, ev, list, call, handle, mtx, loopVars>>

\* event_new; a failure goes to _destroy_events_event at once.
EventNew(t, ok) ==
  /\ Goto(t, "event_new", IF ok THEN "insert" ELSE "event_del")
  /\ ev' = IF ok THEN [ev EXCEPT ![obj[t]] = "new"] ELSE ev
  /\ UNCHANGED <<obj, ret, idreg, idCnt, heap, list, call, id, handle, mtx, loopVars>>

\* Mutant: the event is not put into the list.
InsertNothing(t) ==
  /\ Goto(t, "insert", "event_add")
  /\ mtx = NoThread
  /\ mtx' = t
  /\ UNCHANGED <<obj, ret, idreg, idCnt, heap, ev, list, call, id, handle, loopVars>>

\* pthread_mutex_lock, LIST_INSERT_HEAD.
Insert(t) ==
  /\ Goto(t, "insert", "event_add")
  /\ mtx = NoThread
  /\ mtx' = t
  /\ list' = list \cup {obj[t]}
  /\ UNCHANGED <<obj, ret, idreg, idCnt, heap, ev, call, id, handle, loopVars>>

(***************************************************************************)
(* event_add, pthread_mutex_unlock.  A client whose call succeeded holds   *)
(* the identifier, if it asked for one and the code wrote it; a failed     *)
(* call destroys the event and its client never uses the identifier.       *)
(***************************************************************************)
EventAdd(t, ok) ==
  /\ Goto(t, "event_add", IF ok THEN "client" ELSE "event_del")
  /\ mtx' = NoThread
  /\ ev' = IF ok THEN [ev EXCEPT ![obj[t]] = "added"] ELSE ev
  /\ handle' = IF ok /\ GetsId(call[obj[t]])
                 THEN [handle EXCEPT ![obj[t]] = call[obj[t]].owner] ELSE handle
  /\ UNCHANGED <<obj, ret, idreg, idCnt, heap, list, call, id, loopVars>>

-----------------------------------------------------------------------------
(* events_cancel and _destroy_events_event *)

\* A client calls events_cancel with an identifier it was given; the event
\* may be gone already.
Cancel(t, h) ==
  /\ Goto(t, "client", "lookup")
  /\ handle[h] = t
  /\ obj' = [obj EXCEPT ![t] = h]
  /\ ret' = [ret EXCEPT ![t] = "client"]
  /\ UNCHANGED <<idreg, idCnt, heap, ev, list, call, id, handle, mtx, loopVars>>

(***************************************************************************)
(* The search, under the mutex, for the first element with the identifier  *)
(* (the order of the list only decides among equal identifiers: any of     *)
(* them may be the first).  The mutex is free again when the element is    *)
(* destroyed.                                                              *)
(***************************************************************************)
Matches(h) == {o \in list : id[o] = id[h]}

LookupFound(t) ==
  /\ Goto(t, "lookup", "event_del")
  /\ mtx = NoThread
  /\ \E o \in Matches(obj[t]) : obj' = [obj EXCEPT ![t] = o]
  /\ UNCHANGED <<ret, idreg, idCnt, heap, ev, list, call, id, handle, mtx, loopVars>>

\* Mutant: events_cancel returns EXIT_FAILURE without the unlock.
LookupMissedLocked(t) ==
  /\ Goto(t, "lookup", "client")
  /\ mtx = NoThread
  /\ Matches(obj[t]) = {}
  /\ mtx' = t
  /\ UNCHANGED <<obj, ret, idreg, idCnt, heap, ev, list, call, id, handle, loopVars>>

\* No element has the identifier: unlock, EXIT_FAILURE.
LookupMissed(t) ==
  /\ Goto(t, "lookup", "client")
  /\ mtx = NoThread
  /\ Matches(obj[t]) = {}
  /\ UNCHANGED <<apiVars, loopVars>>

\* event_del waits for a callback of this event that another thread runs.
MayDelete(t) == current = obj[t] => t = "loop"

\* Mutant: event_del does not wait for the callback.
EventDelNoWait(t) ==
  /\ Goto(t, "event_del", "event_free")
  /\ ev' = [ev EXCEPT ![obj[t]] = "del"]
  /\ UNCHANGED <<obj, ret, idreg, idCnt, heap, list, call, id, handle, mtx, loopVars>>

EventDel(t) ==
  /\ Goto(t, "event_del", "event_free")
  /\ MayDelete(t)
  /\ ev' = [ev EXCEPT ![obj[t]] = "del"]
  /\ UNCHANGED <<obj, ret, idreg, idCnt, heap, list, call, id, handle, mtx, loopVars>>

EventFree(t) ==
  /\ Goto(t, "event_free", "unlink")
  /\ ev' = [ev EXCEPT ![obj[t]] = "freed"]
  /\ UNCHANGED <<obj, ret, idreg, idCnt, heap, list, call, id, handle, mtx, loopVars>>

\* pthread_mutex_lock, LIST_REMOVE, pthread_mutex_unlock.
Unlink(t) ==
  /\ Goto(t, "unlink", "free_obj")
  /\ mtx = NoThread
  /\ list' = list \ {obj[t]}
  /\ UNCHANGED <<obj, ret, idreg, idCnt, heap, ev, call, id, handle, mtx, loopVars>>

\* Mutant: free(evs_ev) is missing.
KeepObj(t) ==
  /\ Goto(t, "free_obj", ret[t])
  /\ UNCHANGED <<apiVars, loopVars>>

FreeObj(t) ==
  /\ Goto(t, "free_obj", ret[t])
  /\ heap' = [heap EXCEPT ![obj[t]] = "freed"]
  /\ UNCHANGED <<obj, ret, idreg, idCnt, ev, list, call, id, handle, mtx, loopVars>>

-----------------------------------------------------------------------------
(* _event_thread: event_base_loop and the proxies *)

LoopStart ==
  /\ Goto("loop", "start", "wait")
  /\ brk' = FALSE
  /\ UNCHANGED <<apiVars, current, cancelReq, noExit, base, fired>>

HasEvents == noExit = "added" \/ \E o \in Objects : ev[o] = "added"

\* The wait ends: an event is due, event_base_loopbreak notified the base, or
\* the no-exit timer is due.  A pending cancellation does not let it end.
LoopWakes ==
  /\ Goto("loop", "wait", "process")
  /\ HasEvents
  /\ ~cancelReq
  /\ UNCHANGED <<apiVars, loopVars>>

\* An armed event is due: its proxy calls the client's callback.
Fire(o) ==
  /\ Goto("loop", "process", "client")
  /\ ev[o] = "added"
  /\ ev' = IF Persistent(call[o]) THEN ev ELSE [ev EXCEPT ![o] = "del"]
  /\ current' = o
  /\ fired' = [fired EXCEPT ![o] = IF @ = 2 THEN 2 ELSE @ + 1]
  /\ UNCHANGED <<obj, ret, idreg, idCnt, heap, list, call, id, handle, mtx,
                 brk, cancelReq, noExit, base>>

\* The callback returns; the one-shot proxy then destroys its event.
CallbackReturns ==
  /\ Goto("loop", "client", IF Persistent(call[current]) THEN "loop_next" ELSE "event_del")
  /\ obj' = [obj EXCEPT !["loop"] = current]
  /\ ret' = [ret EXCEPT !["loop"] = "loop_next"]
  /\ UNCHANGED <<idreg, idCnt, heap, ev, list, call, id, handle, mtx, loopVars>>

\* The loop has run one callback and looks at the break flag.
LoopNext ==
  /\ Goto("loop", "loop_next", IF brk THEN "dead" ELSE "process")
  /\ current' = None
  /\ UNCHANGED <<apiVars, brk, cancelReq, noExit, base, fired>>

\* Nothing more is due in this pass of the loop.
LoopTop ==
  /\ Goto("loop", "process", "wait")
  /\ UNCHANGED <<apiVars, loopVars>>

\* The loop, at its top, finds the break flag set or nothing to wait for.
LoopExits ==
  /\ Goto("loop", "wait", "dead")
  /\ HasEvents => brk
  /\ UNCHANGED <<apiVars, loopVars>>

\* The pending cancellation acts in the wait of event_base_loop.
LoopCancelled ==
  /\ Goto("loop", "wait", "dead")
  /\ cancelReq
  /\ UNCHANGED <<apiVars, loopVars>>

\* The pending cancellation acts in a blocking call of a callback:
\* current_event stays set for ever.
CallbackCancelled ==
  /\ Goto("loop", "client", "dead")
  /\ cancelReq /\ CallbackBlocks
  /\ UNCHANGED <<apiVars, loopVars>>

-----------------------------------------------------------------------------
(* events_teardown, called by the client thread outside any other API call *)

TeardownBreak ==
  /\ Goto("main", "client", "pthread_cancel")
  /\ brk' = TRUE
  /\ UNCHANGED <<apiVars, current, cancelReq, noExit, base, fired>>

\* Mutant: the thread is not cancelled.
NoPthreadCancel ==
  /\ Goto("main", "pthread_cancel", "join")
  /\ UNCHANGED <<apiVars, loopVars>>

PthreadCancel ==
  /\ Goto("main", "pthread_cancel", "join")
  /\ cancelReq' = TRUE
  /\ UNCHANGED <<apiVars, current, brk, noExit, base, fired>>

\* Mutant: teardown does not wait for the event thread.
NoPthreadJoin ==
  /\ Goto("main", "join", "reap")
  /\ UNCHANGED <<apiVars, loopVars>>

PthreadJoin ==
  /\ Goto("main", "join", "reap")
  /\ pc["loop"] = "dead"
  /\ UNCHANGED <<apiVars, loopVars>>

\* while (lh_first != NULL) _destroy_events_event(lh_first)
Reap(o) ==
  /\ Goto("main", "reap", "event_del")
  /\ o \in list
  /\ obj' = [obj EXCEPT !["main"] = o]
  /\ ret' = [ret EXCEPT !["main"] = "reap"]
  /\ UNCHANGED <<idreg, idCnt, heap, ev, list, call, id, handle, mtx, loopVars>>

\* event_base_free drops what is left in the base, then ctx is freed.
BaseFree ==
  /\ Goto("main", "reap", "gone")
  /\ list = {}
  /\ base' = "freed"
  /\ noExit' = "none"
  /\ UNCHANGED <<apiVars, current, brk, cancelReq, fired>>

-----------------------------------------------------------------------------

\* The client may leave the service alone for ever after it is closed.
Done == pc["main"] \in {"failed", "gone"} /\ UNCHANGED vars

(***************************************************************************)
(* events_teardown hangs when its pthread_cancel has killed the event      *)
(* thread inside a callback: event_del waits for that callback to end.     *)
(***************************************************************************)
Hung == /\ pc["main"] = "event_del" /\ ret["main"] = "reap"
        /\ pc["loop"] = "dead" /\ current = obj["main"]

StaysHung == Hung /\ UNCHANGED vars

ApiStep(t) ==
  \/ StoreId(t)
  \/ \E ok \in EventNewOutcomes : EventNew(t, ok)
  \/ Insert(t)
  \/ \E ok \in EventAddOutcomes : EventAdd(t, ok)
  \/ LookupFound(t)
  \/ LookupMissed(t)
  \/ EventDel(t)
  \/ EventFree(t)
  \/ Unlink(t)
  \/ FreeObj(t)

ClientCall(t) ==
  \E o \in Objects : \/ \E c \in Calls : Schedule(t, o, c)
                     \/ Cancel(t, o)

LoopStep ==
  \/ LoopStart
  \/ LoopWakes
  \/ \E o \in Objects : Fire(o)
  \/ CallbackReturns
  \/ LoopNext
  \/ LoopTop
  \/ LoopExits
  \/ LoopCancelled
  \/ CallbackCancelled

TeardownStep ==
  \/ PthreadCancel
  \/ PthreadJoin
  \/ \E o \in Objects : Reap(o)
  \/ BaseFree

Next ==
  \/ \E ok \in SetupOutcomes, armed \in EventAddOutcomes : Setup(ok, armed)
  \/ \E t \in Threads : ClientCall(t) \/ ApiStep(t)
  \/ LoopStep
  \/ TeardownBreak
  \/ TeardownStep
  \/ Done
  \/ StaysHung

Spec == Init /\ [][Next]_vars

(***************************************************************************)
(* Fairness.  Both threads are scheduled, the mutex is handed on, and a    *)
(* client's callback ends; every wait ends, at the latest with the no-exit *)
(* timer, and every pass of the loop has an end and starts with a test of  *)
(* the break flag; libevent runs timers in the order of their deadlines,   *)
(* so none is passed over for ever.  Nothing is assumed of readers, which  *)
(* wait for data, of the clients' calls, or of whether the service is ever *)
(* torn down.                                                              *)
(***************************************************************************)
FireTimer(o) == Fire(o) /\ call[o].kind # "reader"

Fairness ==
  /\ \A t \in Threads : SF_vars(ApiStep(t))
  /\ WF_vars(LoopStart)
  /\ SF_vars(CallbackReturns)
  /\ WF_vars(LoopNext)
  /\ SF_vars(LoopTop)
  /\ WF_vars(LoopWakes)
  /\ SF_vars(LoopExits)
  /\ WF_vars(LoopCancelled)
  /\ \A o \in Objects : SF_vars(FireTimer(o))
  /\ WF_vars(TeardownStep)

FairSpec == Spec /\ Fairness

-----------------------------------------------------------------------------
(* Properties *)

\* No thread is about to use an event, its libevent event, a list entry or a
\* base that another thread (or it itself) has given back: the two threads
\* and the self-cancelling callbacks never destroy one event twice.
\* (_destroy_events_event is called from four places without a lock.)
NoUseAfterFree ==
  /\ \A t \in Threads :
       /\ pc[t] \in ApiPCs => heap[obj[t]] = "alloc"
       /\ pc[t] = "event_del" => ev[obj[t]] \in {"new", "added", "del"}
       /\ pc[t] = "event_free" => ev[obj[t]] = "del"
       /\ pc[t] = "unlink" => obj[t] \in list
  /\ \A o \in Objects : ev[o] = "added" => heap[o] = "alloc"
  /\ pc["loop"] = "client" /\ ~Persistent(call[current]) => heap[current] = "alloc"
  /\ pc["loop"] \notin {"none", "dead"} => base = "live"

\* While the client thread destroys an event, in events_cancel or in
\* events_teardown, that event's callback is not running in the other thread.
OwnCallbackFinished ==
  pc["main"] \in {"event_free", "unlink", "free_obj"} => current # obj["main"]

\* Two events never share an identifier although _id_cnt is read and written
\* without the mutex (as long as one thread does all the scheduling).
UniqueIds ==
  \A o, p \in Objects :
    o # p /\ {handle[o], handle[p]} \subseteq Threads => id[o] # id[p]

\* events_teardown is under way, or has returned.
TearingDown ==
  pc["main"] \in TeardownPCs \/ (pc["main"] \in DestroyPCs /\ ret["main"] = "reap")

\* The thread ended on an empty base: event_add refused the no-exit timer.
RanDry == pc["loop"] = "dead" /\ noExit = "refused"

\* The event thread ends for one of two reasons: events_teardown is under way,
\* or the base holds no event at all, which takes the refused timer that
\* events_setup ignores.  No armed event of a client is ever left behind.
LoopEndsForAReason ==
  [][ pc["loop"] # "dead" /\ pc'["loop"] = "dead" =>
        \/ TearingDown
        \/ noExit = "refused" /\ \A o \in Objects : ev[o] # "added" ]_vars

\* When events_teardown has returned the thread is dead, nobody holds the
\* mutex that was destroyed, and every event ever created was given back.
TeardownClean ==
  pc["main"] = "gone" =>
    /\ pc["loop"] = "dead" /\ mtx = NoThread
    /\ \A o \in Objects : heap[o] # "alloc" /\ ev[o] \in {"none", "freed"}

\* A one-shot event runs its callback at most once.
SingleShotFiresOnce ==
  \A o \in Objects : call[o].kind = "single" => fired[o] <= 1

\* events_teardown returns, although event_base_loop may clear the break flag
\* it has set; the only thing it can wait for in vain is the callback that
\* its own pthread_cancel has killed.
TeardownReturns == pc["main"] = "pthread_cancel" ~> pc["main"] = "gone" \/ Hung

\* events_cancel returns, for the client thread and inside callbacks, even
\* when the callback of the event is running.
CancelReturns == \A t \in Threads : pc[t] = "lookup" ~> pc[t] = "client"

\* An armed timer fires unless it is cancelled or the service is torn down,
\* which includes a teardown that hangs.  A timer armed after the event thread
\* has ended on an empty base is not covered: it never fires.
TimerFires ==
  \A o \in Objects :
    ev[o] = "added" /\ call[o].kind # "reader" /\ ~RanDry ~>
      fired[o] > 0 \/ ev[o] # "added" \/ Hung

-----------------------------------------------------------------------------
(* The refinement mapping to Dispatcher *)

InCallback ==
  \/ pc["loop"] \in {"client", "lookup"}
  \/ pc["loop"] \in ApiPCs /\ ret["loop"] = "client"

PhaseOf == IF base = "none" THEN "down" ELSE IF base = "live" THEN "up" ELSE "closed"
KindOf == [o \in Objects |-> call[o].kind]
StageOf == [o \in Objects |-> IF ev[o] \in {"none", "new"} THEN "idle"
                              ELSE IF ev[o] = "added" THEN "armed" ELSE "over"]
RunningOf == IF InCallback THEN current ELSE None

D == INSTANCE Dispatcher WITH phase <- PhaseOf, kind <- KindOf,
                              stage <- StageOf, running <- RunningOf

\* events.c implements the service that Dispatcher specifies.
ImplementsDispatcher == D!Spec

=============================================================================
