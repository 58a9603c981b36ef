-------------------------- MODULE EventsInvariant ---------------------------
(***************************************************************************)
(* The inductive invariant behind the memory safety of src/src/events.c.   *)
(* Each conjunct says who may touch an event in which stage of its life;   *)
(* EventsProofs shows that every step preserves their conjunction under    *)
(* ClientDiscipline, and MCEvents lets TLC evaluate it on small instances. *)
(***************************************************************************)
EXTENDS Events

(***************************************************************************)
(* What events.c needs from its environment: event_new does not fail       *)
(* (_destroy_events_event passes a NULL event to event_del otherwise), and *)
(* either one thread does all the scheduling, because _id_cnt is not       *)
(* protected, or nobody ever keeps an identifier.                          *)
(***************************************************************************)
Anonymous == \A c \in Calls : c.owner = NoThread
OneScheduler == \A t, u \in Schedulers : t = u
ClientDiscipline == EventNewOutcomes = {TRUE} /\ (Anonymous \/ OneScheduler)

\* Nobody passes an id pointer to events_schedule_single_shot, which would
\* make the event a periodic one.
SingleShotsAnonymous ==
  \A c \in Calls : c.kind = "single" => c.owner = NoThread

Working(t) == pc[t] \in ApiPCs
WorksOn(t, o) == Working(t) /\ obj[t] = o

\* The mutex is held exactly between Insert and EventAdd.
MutexInv == \A t \in Threads : mtx = t <=> pc[t] = "event_add"

\* The event a thread works on exists, in the stage its next step expects.
WorkInv ==
  \A t \in Threads : Working(t) =>
    /\ obj[t] \in Objects
    /\ heap[obj[t]] = "alloc"
    /\ pc[t] \in {"store_id", "event_new"} => ev[obj[t]] = "none" /\ obj[t] \notin list
    /\ pc[t] = "insert" => ev[obj[t]] = "new" /\ obj[t] \notin list
    /\ pc[t] = "event_add" => ev[obj[t]] = "new" /\ obj[t] \in list
    /\ pc[t] = "event_del" => ev[obj[t]] \in {"new", "added", "del"} /\ obj[t] \in list
    /\ pc[t] = "event_free" => ev[obj[t]] = "del" /\ obj[t] \in list
    /\ pc[t] = "unlink" => ev[obj[t]] = "freed" /\ obj[t] \in list
    /\ pc[t] = "free_obj" => ev[obj[t]] = "freed" /\ obj[t] \notin list

\* A thread works on an event because it creates it, holds its identifier,
\* ran its one-shot callback, or tears the service down.
OwnInv ==
  /\ \A t \in Threads : Working(t) =>
       /\ handle[obj[t]] \in {NoThread, t} \/ ret[t] = "reap"
       /\ pc[t] \in SchedulePCs =>
            handle[obj[t]] = NoThread /\ t \in Schedulers /\ ret[t] = "client"
       /\ pc[t] = "event_del" /\ ev[obj[t]] = "added" =>
            handle[obj[t]] = t \/ ret[t] = "reap"
  /\ ret["main"] = "reap" => pc["loop"] = "dead"
  /\ pc["main"] \in {"reap", "gone"} => pc["loop"] = "dead"

DisjointInv == Working("main") /\ Working("loop") => obj["main"] # obj["loop"]

\* The life of an event that no thread works on.
HeapInv ==
  \A o \in Objects :
    /\ o \in list => heap[o] = "alloc" /\ ev[o] # "none"
    /\ ev[o] = "added" => o \in list
    /\ heap[o] = "unused" => ev[o] = "none" /\ handle[o] = NoThread
    /\ heap[o] = "freed" => ev[o] = "freed"
    /\ heap[o] = "alloc" => o \in list \/ \E t \in Threads : WorksOn(t, o)
    /\ o \in list /\ ev[o] = "freed" =>
         \E t \in Threads : WorksOn(t, o) /\ pc[t] = "unlink"

\* Every event stems from one call, and only calls that persist are given an
\* identifier.
HandleInv ==
  \A o \in Objects :
    /\ handle[o] # NoThread => Persistent(call[o]) /\ call[o].owner = handle[o]
    /\ IF heap[o] = "unused" THEN call[o] = NoCall ELSE call[o] \in Calls

\* A running callback belongs to an event; a one-shot event waits, unlinked
\* from the base but not from the list, for its proxy to destroy it.
CallbackInv ==
  /\ InCallback => current \in Objects /\ heap[current] # "unused"
  /\ InCallback /\ ~Persistent(call[current]) =>
       /\ current \in list /\ ev[current] = "del"
       /\ \A t \in Threads : ~WorksOn(t, current)

\* Identifiers are below the counter and differ (with one scheduler).
HasId(o) == heap[o] # "unused" /\ \A t \in Threads : ~(WorksOn(t, o) /\ pc[t] = "store_id")
IdInv ==
  \/ Anonymous
  \/ /\ \A t \in Threads : pc[t] = "store_id" => idreg[t] = idCnt
     /\ \A o \in Objects : HasId(o) => id[o] < idCnt
     /\ \A o, p \in Objects : HasId(o) /\ HasId(p) /\ o # p => id[o] # id[p]

\* The argument of events_cancel is an identifier the thread was given.
LookupInv ==
  \A t \in Threads :
    pc[t] = "lookup" => obj[t] \in Objects /\ handle[obj[t]] = t /\ ret[t] = "client"

BaseInv ==
  /\ pc["main"] \in {"boot", "failed"} => pc["loop"] = "none"
  /\ pc["loop"] \notin {"none", "dead"} => base = "live"
  /\ pc["main"] \in {"boot", "failed"} => base = "none"
  /\ pc["main"] \notin {"boot", "failed", "gone"} => base = "live"
  /\ pc["main"] = "gone" => list = {} /\ base = "freed"

IInv ==
  /\ TypeOK
  /\ MutexInv
  /\ WorkInv
  /\ OwnInv
  /\ DisjointInv
  /\ HeapInv
  /\ HandleInv
  /\ CallbackInv
  /\ IdInv
  /\ LookupInv
  /\ BaseInv
  /\ OwnCallbackFinished

=============================================================================
