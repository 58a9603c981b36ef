------------------------------- MODULE LoopMM -------------------------------
(***************************************************************************)
(* src/bin/loop-mm-types.c: once the command line is read, main walks over *)
(* the table of the message types of IEEE 1901-2010 and sends, for each,   *)
(* the operations that it supports and the user selected.  No event is     *)
(* ever registered: nothing that comes back is read.                       *)
(***************************************************************************)
EXTENDS CommandLine

R == {"request"}
I == {"indication"}
RC == {"request", "confirm"}
RI == {"request", "indication"}
IP == {"indication", "response"}
RCI == {"request", "confirm", "indication"}
RCIP == Operations

\* The operations of each message type, in the order of the table of the header.
MMTypes ==
  <<RC, RC, RCIP, RC, IP, RCI, RC, RC, RC, RI, RC, RC, RC, RCIP, RI, RI, RC,
    RC, RCIP, RCIP, IP, RC, I, IP, RC, I, R, R, I, R, RC, I, R, R, RCI, RCI,
    RC, I, I, IP, RC, RC, RC, I, I, RC, RC, RC, IP, RC, RC, RC, RC, RC, RC,
    I, RC, RC, RCI, I, RC, RC>>

VARIABLES
  i,     \* the index of the outer loop, from 1
  oper,  \* the operation of the inner loop
  sent   \* what message_send was called with

vars == <<cmdVars, i, oper, sent>>

\* enum MMOperationTypes.
OperationAt == <<"request", "confirm", "indication", "response">>

Init == CmdInit /\ i = 1 /\ oper = 1 /\ sent = <<>>

TypeOK ==
  /\ CmdTypeOK
  /\ pc \in {"options", "usage", "ready", "walk", "done", "exited"}
  /\ i \in 1..Len(MMTypes) + 1 /\ oper \in 1..4
  /\ sent \in Seq((1..Len(MMTypes)) \X (1..4))

Parse == ParseStep /\ UNCHANGED <<i, oper, sent>>

\* events_setup and net_create; _PANIC when one of them fails.
Start ==
  /\ pc = "ready" /\ prog = "loop"
  /\ pc' \in {"walk", "exited"}
  /\ UNCHANGED <<argv, parser, conf, i, oper, sent>>

\* Mutant: the loop goes on with the next type once it has sent something.
AdvanceType ==
  /\ oper' = IF oper = 4 \/ sent' # sent THEN 1 ELSE oper + 1
  /\ i' = IF oper = 4 \/ sent' # sent THEN i + 1 ELSE i

\* oper++, and i++ behind the last operation.
Advance ==
  /\ oper' = IF oper = 4 THEN 1 ELSE oper + 1
  /\ i' = IF oper = 4 THEN i + 1 ELSE i

Supported == OperationAt[oper] \in MMTypes[i] /\ conf.cnt[OperationAt[oper]] > 0

SendMessage ==
  /\ pc = "walk" /\ i <= Len(MMTypes) /\ Supported
  /\ sent' = Append(sent, <<i, oper>>)
  /\ Advance
  /\ UNCHANGED cmdVars

SkipOperation ==
  /\ pc = "walk" /\ i <= Len(MMTypes) /\ ~Supported
  /\ UNCHANGED <<cmdVars, sent>>
  /\ Advance

\* events_teardown and net_destroy.
Finish ==
  /\ pc = "walk" /\ i > Len(MMTypes)
  /\ pc' = "done"
  /\ UNCHANGED <<argv, parser, conf, i, oper, sent>>

\* The other programs go on with their sessions.
Over ==
  /\ pc \in {"usage", "done", "exited"} \/ (pc = "ready" /\ prog # "loop")
  /\ UNCHANGED vars

Next == Parse \/ Start \/ SendMessage \/ SkipOperation \/ Finish \/ Over

Spec == Init /\ [][Next]_vars

-----------------------------------------------------------------------------
(* Properties *)

SelectedOperations == {OperationOf[k] : k \in Everything(Named({"r", "R", "i", "c"}), {"r"})}

\* The walk sends each operation that a type supports and the options select
\* exactly once, in the order of the table, and nothing else.
SendsSelected ==
  pc = "done" =>
    /\ Range(sent) = {m \in (1..Len(MMTypes)) \X (1..4) :
                        OperationAt[m[2]] \in MMTypes[m[1]] \cap SelectedOperations}
    /\ \A k \in 1..Len(sent) - 1 :
         4 * sent[k][1] + sent[k][2] < 4 * sent[k + 1][1] + sent[k + 1][2]

=============================================================================
