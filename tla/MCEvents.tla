------------------------------ MODULE MCEvents ------------------------------
(***************************************************************************)
(* Instances of Events for TLC.  The client disciplines:                   *)
(*   - OwnedCalls: one thread schedules, every identifier is used by one   *)
(*     thread (the client, or the callbacks);                              *)
(*     (an anonymous event is one that is never cancelled);               *)
(*   - AnonymousCalls: both threads schedule and nobody keeps identifiers; *)
(*   - SingleShotWithId: the one-shot call with a non-NULL id pointer.     *)
(***************************************************************************)
EXTENDS EventsInvariant, TLC

OwnedCalls ==
  { [kind |-> "single", owner |-> NoThread],
    [kind |-> "periodic", owner |-> "main"],
    [kind |-> "reader", owner |-> "loop"] }

AnonymousCalls == [kind : Kinds, owner : {NoThread}]

SingleShotWithId == { [kind |-> "single", owner |-> "main"] }

MainOnly == {"main"}

ObjectSymmetry == Permutations(Objects)

\* For the liveness run, where symmetry may not be used: of the addresses that
\* calloc may return, one is always the first, as they are interchangeable.
\* Scheduling is under no fairness, so that this removes no fair behaviour that
\* is not a renaming of one that is left.
First == CHOOSE o \in Objects : TRUE
FirstFirst == (\A o \in Objects : heap'[o] = "unused") \/ heap'[First] # "unused"

OrderedSpec == Init /\ [][Next /\ FirstFirst]_vars /\ Fairness
=============================================================================
