----------------------------- MODULE Dispatcher -----------------------------
(***************************************************************************)
(* What the event service of src/include/events.h promises its clients,    *)
(* independently of threads, locks and memory: a client arms one-shot      *)
(* timers, periodic timers and readers; the service runs at most one       *)
(* callback at a time; a one-shot event runs at most once; an event that   *)
(* was disarmed, or refused, never runs; after the service is closed       *)
(* nothing runs.                                                           *)
(*                                                                         *)
(* Module Events models src/src/events.c and is shown to implement this.   *)
(***************************************************************************)

CONSTANTS Objects,   \* the events the clients ever create
          None       \* "no callback is running"

Kinds == {"single", "periodic", "reader"}

VARIABLES phase,     \* "down" -> "up" -> "closed"
          kind,      \* what the client asked for
          stage,     \* "idle" -> "armed" -> "over" of every event
          running    \* the event whose callback runs, or None

vars == <<phase, kind, stage, running>>

TypeOK ==
  /\ phase \in {"down", "up", "closed"}
  /\ kind \in [Objects -> Kinds \cup {"unset"}]
  /\ stage \in [Objects -> {"idle", "armed", "over"}]
  /\ running \in Objects \cup {None}

Init ==
  /\ phase = "down"
  /\ kind = [o \in Objects |-> "unset"]
  /\ stage = [o \in Objects |-> "idle"]
  /\ running = None

\* events_setup succeeded.
Open ==
  /\ phase = "down"
  /\ phase' = "up"
  /\ UNCHANGED <<kind, stage, running>>

\* A client asks for an event of kind k; the service has not armed it yet.
Ask(o, k) ==
  /\ phase = "up"
  /\ kind[o] = "unset"
  /\ kind' = [kind EXCEPT ![o] = k]
  /\ UNCHANGED <<phase, stage, running>>

Arm(o) ==
  /\ phase = "up"
  /\ kind[o] # "unset"
  /\ stage[o] = "idle"
  /\ stage' = [stage EXCEPT ![o] = "armed"]
  /\ UNCHANGED <<phase, kind, running>>

\* The event is armed and no other callback runs: a one-shot is over with it.
Fire(o) ==
  /\ phase = "up"
  /\ running = None
  /\ stage[o] = "armed"
  /\ running' = o
  /\ stage' = [stage EXCEPT ![o] = IF kind[o] = "single" THEN "over" ELSE "armed"]
  /\ UNCHANGED <<phase, kind>>

Return ==
  /\ running # None
  /\ running' = None
  /\ UNCHANGED <<phase, kind, stage>>

\* Cancelled by a client, torn down, or refused before it was armed.
Disarm(o) ==
  /\ phase = "up"
  /\ kind[o] # "unset"
  /\ stage[o] # "over"
  /\ stage' = [stage EXCEPT ![o] = "over"]
  /\ UNCHANGED <<phase, kind, running>>

Close ==
  /\ phase = "up"
  /\ running = None
  /\ \A o \in Objects : stage[o] # "armed"
  /\ phase' = "closed"
  /\ UNCHANGED <<kind, stage, running>>

Next ==
  \/ Open
  \/ \E o \in Objects : \/ \E k \in Kinds : Ask(o, k)
                        \/ Arm(o)
                        \/ Fire(o)
                        \/ Disarm(o)
  \/ Return
  \/ Close

Spec == Init /\ [][Next]_vars

=============================================================================
