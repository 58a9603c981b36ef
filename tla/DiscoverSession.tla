-------------------------- MODULE DiscoverSession ---------------------------
(***************************************************************************)
(* One run of src/bin/hpav-discover.c.  main sends one discovery and       *)
(* sleeps; the event thread prints the stations of every list that         *)
(* arrives and itself asks, through the same socket, for the network       *)
(* information of the adapter that sent the list, once for each station    *)
(* of it.  The one sleep of main has to outlast both round trips.          *)
(*                                                                         *)
(* The event service is Dispatcher, the socket is Net; the adapters are    *)
(* external.  An answer carries the time left until it is handled.         *)
(***************************************************************************)
EXTENDS Net, FiniteSets

CONSTANTS
  Reader,      \* the one event of the program
  NoCallback,  \* "no callback is running"
  Stations,    \* the adapters in reach
  Networks,    \* the lengths of their station lists, see Init
  Delays,      \* how long the slowest answer may take
  Wait,        \* the sleep of main, 250000 microseconds in the code
  MaxFaults    \* how many calls fail and answers are lost or cut off

ASSUME NetworksAssumption == Networks \subseteq [Stations -> Nat] /\ Stations # {}
ASSUME TimesAssumption ==
  Delays \subseteq Nat /\ Wait \in Nat /\ MaxFaults \in Nat /\ NoCallback # Reader

VARIABLES
  conf,    \* ctx.conf: the adapters that hear oda, and discover_networks
  lists,   \* how many stations each adapter knows
  delay,   \* the slowest answer of this network
  pc,      \* the next step of main
  wait,    \* how long main still sleeps
  net,     \* answers on their way
  cb,      \* the answer of the running callback; count: elements not yet printed
  report,  \* the sections that were printed
  faults,
  phase, kind, stage, running \* the event service

service == <<phase, kind, stage, running>>
network == <<conf, lists, delay>>
vars == <<network, pc, wait, net, cb, report, faults, netVars, service>>

Service == INSTANCE Dispatcher WITH Objects <- {Reader}, None <- NoCallback

\* A list confirm, or the network information for the nth station of a list.
Section == [what : {"list", "nw"}, from : Stations, nth : Nat]
Message == [what : {"list", "nw"}, from : Stations, nth : Nat, count : Nat, due : Nat]
Sections(what, s, n) == [what |-> what, from |-> s, nth |-> n]

TypeOK ==
  /\ conf \in [oda : SUBSET Stations, nwinfo : BOOLEAN]
  /\ lists \in Networks /\ delay \in Delays
  /\ pc \in {"setup", "net", "ask", "arm", "send", "final", "teardown", "close", "destroy",
             "done", "exited", "hung"}
  /\ wait \in 0..Wait
  /\ net \subseteq Message /\ cb \in Message
  /\ report \subseteq Section
  /\ faults \in 0..MaxFaults
  /\ NetTypeOK /\ Service!TypeOK

NoMessage == [what |-> "list", from |-> CHOOSE s \in Stations : TRUE, nth |-> 0,
              count |-> 0, due |-> 0]

\* -b is heard by everyone, -l and -d by one adapter.
Init ==
  /\ conf \in [oda : {Stations} \cup {{s} : s \in Stations}, nwinfo : BOOLEAN]
  /\ lists \in Networks /\ delay \in Delays
  /\ pc = "setup" /\ wait = 0
  /\ net = {} /\ cb = NoMessage /\ report = {}
  /\ faults = 0
  /\ NetInit /\ Service!Init

-----------------------------------------------------------------------------

Goto(from, to) == pc = from /\ wait = 0 /\ pc' = to

Fails == faults < MaxFaults /\ faults' = faults + 1

SetUp ==
  /\ \/ Goto("setup", "net") /\ Service!Open /\ UNCHANGED faults
     \/ Goto("setup", "exited") /\ Fails /\ UNCHANGED service
  /\ UNCHANGED <<network, wait, net, cb, report, netVars>>

\* One call of net_create; _PANIC when it returns NULL.
NetCreate ==
  /\ \E c \in Calls :
       \/ CallSucceeds(c) /\ Goto("net", IF c = "bind" THEN "ask" ELSE "net") /\ UNCHANGED faults
       \/ CallFails(c) /\ Goto("net", "exited") /\ Fails
  /\ UNCHANGED <<network, wait, net, cb, report, service>>

AskForReader ==
  /\ Goto("ask", "arm")
  /\ Service!Ask(Reader, "reader")
  /\ UNCHANGED <<network, wait, net, cb, report, faults, netVars>>

\* Mutant: main tries until events_add_reader succeeds.
RetryReader ==
  /\ \/ Goto("arm", "send") /\ Service!Arm(Reader) /\ UNCHANGED faults
     \/ Goto("arm", "arm") /\ Service!Disarm(Reader) /\ Fails
  /\ UNCHANGED <<network, wait, net, cb, report, netVars>>

\* main ignores whether events_add_reader succeeds.  An event thread that has
\* ended by then, on a base without the no-exit timer (see Events), runs no
\* callback either: to main it is a reader that could not be armed.
ArmReader ==
  /\ Goto("arm", "send")
  /\ \/ Service!Arm(Reader) /\ UNCHANGED faults
     \/ Service!Disarm(Reader) /\ Fails
  /\ UNCHANGED <<network, wait, net, cb, report, netVars>>

\* What an adapter sends back: a list of all it knows, or one nwinfo.
Elements(what, s) == IF what = "list" THEN lists[s] ELSE 1

\* A request to the adapters S: all of them answer; or it is not sent; or one
\* of the answers is lost, or cut off behind some of its elements.
Request(what, S, n) ==
  \E due \in [S -> 0..delay] :
    LET Answer(s, c) == [what |-> what, from |-> s, nth |-> n, count |-> c, due |-> due[s]]
        Whole(s) == Answer(s, Elements(what, s))
    IN \/ net' = net \cup {Whole(s) : s \in S} /\ UNCHANGED faults
       \/ net' = net /\ Fails
       \/ /\ \E b \in S : \E c \in 0..Elements(what, b) - 1 :
               net' = net \cup {Whole(s) : s \in S \ {b}} \cup {Answer(b, c)}
          /\ Fails

\* Mutant: no sleep after the discovery.
SendAndGo ==
  /\ Goto("send", "final")
  /\ Request("list", conf.oda, 0)
  /\ UNCHANGED <<network, wait, cb, report, netVars, service>>

SendDiscover ==
  /\ Goto("send", "final")
  /\ Request("list", conf.oda, 0)
  /\ wait' = Wait
  /\ UNCHANGED <<network, cb, report, netVars, service>>

-----------------------------------------------------------------------------
(* The event thread *)

\* _handle_data: an answer is read and goes to its callback, unless
\* events_teardown has killed the event thread.
HandleData(m) ==
  /\ m \in net /\ m.due = 0 /\ pc # "hung"
  /\ Service!Fire(Reader)
  /\ net' = net \ {m}
  /\ cb' = m
  /\ UNCHANGED <<network, pc, wait, report, faults, netVars>>

Printed == Sections(cb.what, cb.from, IF cb.what = "list" THEN cb.count ELSE cb.nth)

\* Mutant: the follow-up goes to everyone who hears oda.
StationInfoToAll ==
  /\ running = Reader /\ cb.what = "list" /\ cb.count > 0
  /\ report' = report \cup {Printed}
  /\ cb' = [cb EXCEPT !.count = @ - 1]
  /\ Request("nw", conf.oda, cb.count)
  /\ UNCHANGED <<network, pc, wait, netVars, service>>

\* Mutant: do .. while instead of while over the elements.
StationInfoOnceMore ==
  /\ running = Reader /\ cb.what = "list"
  /\ report' = report \cup {Printed}
  /\ cb' = [cb EXCEPT !.count = @ - 1]
  /\ IF conf.nwinfo THEN Request("nw", {cb.from}, cb.count) ELSE UNCHANGED <<net, faults>>
  /\ UNCHANGED <<network, pc, wait, netVars, service>>

\* _station_info: the station is printed, and the sender of the list is asked.
StationInfo ==
  /\ running = Reader /\ cb.what = "list" /\ cb.count > 0
  /\ report' = report \cup {Printed}
  /\ cb' = [cb EXCEPT !.count = @ - 1]
  /\ IF conf.nwinfo THEN Request("nw", {cb.from}, cb.count) ELSE UNCHANGED <<net, faults>>
  /\ UNCHANGED <<network, pc, wait, netVars, service>>

\* _nwinfo.
NwInfo ==
  /\ running = Reader /\ cb.what = "nw" /\ cb.count > 0
  /\ report' = report \cup {Printed}
  /\ cb' = [cb EXCEPT !.count = @ - 1]
  /\ UNCHANGED <<network, pc, wait, net, faults, netVars, service>>

CallbackReturns ==
  /\ cb.count = 0
  /\ Service!Return
  /\ cb' = NoMessage
  /\ UNCHANGED <<network, pc, wait, net, report, faults, netVars>>

-----------------------------------------------------------------------------
(* Ending: events_teardown, then net_destroy *)

\* Mutant: net_destroy before events_teardown.
DestroyFirst ==
  /\ Goto("final", "teardown")
  /\ Destroy
  /\ UNCHANGED <<network, wait, net, cb, report, faults, service>>

StartTeardown ==
  /\ Goto("final", "teardown")
  /\ UNCHANGED <<network, wait, net, cb, report, faults, netVars, service>>

DisarmReader ==
  /\ Goto("teardown", "close")
  /\ running = NoCallback
  /\ IF stage[Reader] = "over" THEN UNCHANGED service ELSE Service!Disarm(Reader)
  /\ UNCHANGED <<network, wait, net, cb, report, faults, netVars>>

\* pthread_cancel hits read(), write() or printf() of a running callback.
KillCallback ==
  /\ Goto("teardown", "hung")
  /\ Service!Return
  /\ cb' = NoMessage
  /\ UNCHANGED <<network, wait, net, report, faults, netVars>>

CloseService ==
  /\ Goto("close", "destroy")
  /\ Service!Close
  /\ UNCHANGED <<network, wait, net, cb, report, faults, netVars>>

NetDestroy ==
  /\ Goto("destroy", "done")
  /\ Destroy
  /\ UNCHANGED <<network, wait, net, cb, report, faults, service>>

-----------------------------------------------------------------------------

Tick ==
  /\ wait > 0 \/ net # {}
  /\ running = NoCallback
  /\ stage[Reader] = "armed" => \A m \in net : m.due > 0
  /\ wait' = IF wait > 0 THEN wait - 1 ELSE 0
  /\ net' = {[m EXCEPT !.due = IF @ > 0 THEN @ - 1 ELSE 0] : m \in net}
  /\ UNCHANGED <<network, pc, cb, report, faults, netVars, service>>

Over == pc \in {"done", "exited", "hung"} /\ UNCHANGED vars

MainStep ==
  \/ SetUp \/ NetCreate \/ AskForReader \/ ArmReader \/ SendDiscover
  \/ StartTeardown \/ DisarmReader \/ CloseService \/ NetDestroy

EventThread == (\E m \in net : HandleData(m)) \/ StationInfo \/ NwInfo \/ CallbackReturns

Next == MainStep \/ EventThread \/ KillCallback \/ Tick \/ Over

Spec == Init /\ [][Next]_vars

\* Main and the event thread are scheduled, and the sleep ends.
Fairness == WF_vars(MainStep) /\ WF_vars(EventThread) /\ WF_vars(Tick)

FairSpec == Spec /\ Fairness

-----------------------------------------------------------------------------
(* Properties *)

\* Everything the discovery can bring to light: the stations of every adapter
\* that hears oda and, without -n, one nwinfo for each.
Discoverable ==
  UNION {{Sections(w, s, n) : n \in 1..lists[s]} :
           s \in conf.oda, w \in {"list"} \cup IF conf.nwinfo THEN {"nw"} ELSE {}}

\* Without a fault the single sleep outlasts the list and the follow-up that
\* the callback sends when the list arrives, if two answers fit into it.
CompleteDiscovery ==
  pc = "done" /\ faults = 0 /\ 2 * delay < Wait => report = Discoverable

\* Whatever is lost, cut off or late, a network information, which is that of
\* the adapter that sent a list, is printed only after the station of this list
\* that made the callback ask for it.
NwInfoFollowsStation ==
  /\ report \subseteq Discoverable
  /\ \A r \in report : r.what = "nw" => Sections("list", r.from, r.nth) \in report

\* The callback reads from the socket of main and writes to it: as long as it
\* runs, or may run, the socket is the bound one and open.
SocketOutlivesReader ==
  running = Reader \/ stage[Reader] = "armed" => at = "up" /\ "raw" \in held

\* The program ends, or hangs because events_teardown killed a callback.
Terminates == <>(pc \in {"done", "exited", "hung"})

=============================================================================
