---------------------------- MODULE StatsSession ----------------------------
(***************************************************************************)
(* One run of src/bin/hpav-stats.c: main sends requests to a power line    *)
(* adapter and sleeps between them; the event thread reads the confirm     *)
(* messages and prints them.  The event service is Dispatcher, which       *)
(* events.c implements; the adapter and the network are external: a        *)
(* request is answered after some time, refused, or never.                 *)
(*                                                                         *)
(* Time is counted in the unit of message_gap_usec.  An answer carries the *)
(* time left until the event thread handles it; main may oversleep.        *)
(***************************************************************************)
EXTENDS Integers, FiniteSets

CONSTANTS
  Reader,      \* the one event of the program
  NoCallback,  \* "no callback is running"
  Sessions,    \* command lines and networks: the options, see Options, and
               \* the time that the slowest answer takes
  AllLimit,    \* the last link identifier of option -a (255 in the code)
  Width,       \* message_gap_usec and useconds_t are numbers below it (2^32)
  MaxFaults    \* how many calls fail and answers are lost or refused

Directions == {"tx", "rx"}
Options == [what : SUBSET {"nw", "link"}, dir : SUBSET Directions,
            lid : -1..255, all : BOOLEAN, gap : {n \in Nat : n < Width}]

ASSUME SessionsAssumption ==
  \A s \in Sessions : s.options \in Options /\ s.delay \in Nat
ASSUME BoundsAssumption ==
  /\ AllLimit \in 4..255 /\ Width \in Nat /\ MaxFaults \in Nat
  /\ NoCallback # Reader

VARIABLES
  conf,     \* ctx.conf after argp_parse
  pc,       \* the next step of main
  lid,      \* main's loop counter
  delay,    \* the slowest answer of this network
  wait,     \* how long main still sleeps
  quiet,    \* the time since the last request, counted up to one gap
  reqType,  \* ctx.link_stats_req_type: main does not initialise it
  sock,     \* ctx.nctx->sock: "none", "open", "closed"
  net,      \* answers on their way, with the time until they are handled
  cb,       \* the answer the running callback works on
  report,   \* what was printed: the answer, and as which kind of statistics
  faults,   \* calls that failed, answers that were lost or refused
  phase, kind, stage, running \* the event service

service == <<phase, kind, stage, running>>
time == <<delay, wait, quiet>>
vars == <<conf, pc, lid, time, reqType, sock, net, cb, report, faults, service>>

Service == INSTANCE Dispatcher WITH Objects <- {Reader}, None <- NoCallback

NetworkRequest == [what |-> "nw", dir |-> "none", lid |-> 0]
LinkRequest(d, l) == [what |-> "link", dir |-> d, lid |-> l]
Requests == {NetworkRequest} \cup {LinkRequest(d, l) : d \in Directions, l \in 0..255}

NoAnswer == [req |-> NetworkRequest, due |-> 0, ok |-> FALSE]

\* usleep(ctx.conf.message_gap_usec * n): the product has 32 bits.
Sleep(n) == (n * conf.gap) % Width

TypeOK ==
  /\ conf \in Options
  /\ pc \in {"setup", "net", "ask", "arm", "nw", "link", "set_tx", "tx", "gap", "set_rx", "rx",
             "final", "teardown", "close", "destroy", "done", "exited", "hung"}
  /\ lid \in 0..256
  /\ delay \in Nat /\ wait \in Nat /\ wait < Width /\ quiet \in 0..conf.gap
  /\ reqType \in {"unset", "tx", "rx"}
  /\ sock \in {"none", "open", "closed"}
  /\ net \subseteq [req : Requests, due : 0..delay, ok : BOOLEAN]
  /\ cb \in [req : Requests, due : {0}, ok : BOOLEAN]
  /\ report \subseteq [req : Requests, as : Directions \cup {"nw"}]
  /\ faults \in 0..MaxFaults
  /\ Service!TypeOK

\* ARGP_KEY_END: an option that restricts nothing means everything.
AfterParsing(c) ==
  [c EXCEPT !.what = IF @ = {} THEN {"nw", "link"} ELSE @,
            !.dir = IF @ = {} THEN Directions ELSE @]

Init ==
  /\ \E s \in Sessions : conf = AfterParsing(s.options) /\ delay = s.delay
  /\ pc = "setup"
  /\ lid = 0 /\ wait = 0 /\ quiet = conf.gap
  /\ reqType = "unset"
  /\ sock = "none"
  /\ net = {} /\ cb = NoAnswer /\ report = {}
  /\ faults = 0
  /\ Service!Init

-----------------------------------------------------------------------------
(* Starting *)

Goto(from, to) == pc = from /\ wait = 0 /\ pc' = to

Fails == faults < MaxFaults /\ faults' = faults + 1

\* events_setup; _PANIC ends the process when it fails.
SetUp ==
  /\ \/ Goto("setup", "net") /\ Service!Open /\ UNCHANGED faults
     \/ Goto("setup", "exited") /\ Fails /\ UNCHANGED service
  /\ UNCHANGED <<conf, lid, time, reqType, sock, net, cb, report>>

\* net_create; it closes the socket it could not bind.
NetCreate ==
  /\ \/ Goto("net", "ask") /\ sock' = "open" /\ UNCHANGED faults
     \/ Goto("net", "exited") /\ Fails /\ UNCHANGED sock
  /\ UNCHANGED <<conf, lid, time, reqType, net, cb, report, service>>

\* events_add_reader: main ignores whether it succeeds.  An event thread that
\* has ended by then, on a base without the no-exit timer (see Events), runs
\* no callback either: to main it is a reader that could not be armed.
AskForReader ==
  /\ Goto("ask", "arm")
  /\ Service!Ask(Reader, "reader")
  /\ UNCHANGED <<conf, lid, time, reqType, sock, net, cb, report, faults>>

ArmReader ==
  /\ Goto("arm", "nw")
  /\ \/ Service!Arm(Reader) /\ UNCHANGED faults
     \/ Service!Disarm(Reader) /\ Fails
  /\ UNCHANGED <<conf, lid, time, reqType, sock, net, cb, report>>

-----------------------------------------------------------------------------
(* Sending *)

\* The request is answered in time; or it is not sent (the result of
\* ieee1901_2010_message_send is ignored), not answered, or refused.
Send(req) ==
  /\ quiet' = 0
  /\ \/ /\ \E d \in 0..delay : net' = net \cup {[req |-> req, due |-> d, ok |-> TRUE]}
        /\ UNCHANGED faults
     \/ /\ Fails
        /\ \/ UNCHANGED net
           \/ \E d \in 0..delay : net' = net \cup {[req |-> req, due |-> d, ok |-> FALSE]}

RequestNetworkStats ==
  /\ "nw" \in conf.what
  /\ Goto("nw", "link")
  /\ Send(NetworkRequest)
  /\ UNCHANGED <<conf, lid, delay, wait, reqType, sock, cb, report, service>>

SkipNetworkStats ==
  /\ "nw" \notin conf.what
  /\ Goto("nw", "link")
  /\ UNCHANGED <<conf, lid, time, reqType, sock, net, cb, report, faults, service>>

\* usleep(2 gaps); the transmit phase starts once main wakes up.
StartLinkStats ==
  /\ "link" \in conf.what
  /\ Goto("link", "set_tx")
  /\ wait' = Sleep(2)
  /\ UNCHANGED <<conf, lid, delay, quiet, reqType, sock, net, cb, report, faults, service>>

SkipLinkStats ==
  /\ "link" \notin conf.what
  /\ Goto("link", "final")
  /\ wait' = Sleep(5)
  /\ UNCHANGED <<conf, lid, delay, quiet, reqType, sock, net, cb, report, faults, service>>

\* Mutant: link_stats_req_type is left as it is.
KeepRequestType ==
  /\ Goto("set_tx", IF "tx" \in conf.dir THEN "tx" ELSE "gap")
  /\ lid' = 0
  /\ UNCHANGED <<conf, time, reqType, sock, net, cb, report, faults, service>>

SetTransmit ==
  /\ Goto("set_tx", IF "tx" \in conf.dir THEN "tx" ELSE "gap")
  /\ reqType' = "tx"
  /\ lid' = 0
  /\ UNCHANGED <<conf, time, sock, net, cb, report, faults, service>>

\* Mutant: lid_lim = 256.
LidLimitTooLarge == IF conf.all THEN 256 ELSE 4

LidLimit == IF conf.all THEN AllLimit ELSE 4

AfterPhase(d) == IF d = "tx" THEN "gap" ELSE "final"

\* -i: one request, and no sleep before the next phase.
RequestOne(d) ==
  /\ conf.lid # -1
  /\ Goto(d, AfterPhase(d))
  /\ Send(LinkRequest(d, conf.lid))
  /\ wait' = IF d = "tx" THEN 0 ELSE Sleep(5)
  /\ UNCHANGED <<conf, lid, delay, reqType, sock, cb, report, service>>

\* Mutant: lid is as narrow as the message field, uint8_t.
RequestNextNarrow(d) ==
  /\ conf.lid = -1
  /\ lid <= LidLimit
  /\ Goto(d, d)
  /\ Send(LinkRequest(d, lid))
  /\ lid' = (lid + 1) % (AllLimit + 1)
  /\ wait' = Sleep(1)
  /\ UNCHANGED <<conf, delay, reqType, sock, cb, report, service>>

\* Mutant: no usleep behind a request of the range.
RequestNextAtOnce(d) ==
  /\ conf.lid = -1
  /\ lid <= LidLimit
  /\ Goto(d, d)
  /\ Send(LinkRequest(d, lid))
  /\ lid' = lid + 1
  /\ UNCHANGED <<conf, delay, wait, reqType, sock, cb, report, service>>

\* for (lid = 0; lid <= lid_lim; lid++): one request, then usleep(gap).
RequestNext(d) ==
  /\ conf.lid = -1
  /\ lid <= LidLimit
  /\ Goto(d, d)
  /\ Send(LinkRequest(d, lid))
  /\ lid' = lid + 1
  /\ wait' = Sleep(1)
  /\ UNCHANGED <<conf, delay, reqType, sock, cb, report, service>>

\* Mutant: no sleep before events_teardown.
EndLoopAtOnce(d) ==
  /\ conf.lid = -1
  /\ lid > LidLimit
  /\ Goto(d, AfterPhase(d))
  /\ UNCHANGED <<conf, lid, time, reqType, sock, net, cb, report, faults, service>>

EndLoop(d) ==
  /\ conf.lid = -1
  /\ lid > LidLimit
  /\ Goto(d, AfterPhase(d))
  /\ wait' = IF d = "tx" THEN 0 ELSE Sleep(5)
  /\ UNCHANGED <<conf, lid, delay, quiet, reqType, sock, net, cb, report, faults, service>>

\* Mutant: no sleep between the phases.
NoWaitBeforeReceive ==
  /\ "rx" \in conf.dir
  /\ Goto("gap", "set_rx")
  /\ UNCHANGED <<conf, lid, time, reqType, sock, net, cb, report, faults, service>>

\* usleep(2 gaps) before the receive phase, if there is one.
WaitBeforeReceive ==
  /\ "rx" \in conf.dir
  /\ Goto("gap", "set_rx")
  /\ wait' = Sleep(2)
  /\ UNCHANGED <<conf, lid, delay, quiet, reqType, sock, net, cb, report, faults, service>>

SkipReceive ==
  /\ "rx" \notin conf.dir
  /\ Goto("gap", "final")
  /\ wait' = Sleep(5)
  /\ UNCHANGED <<conf, lid, delay, quiet, reqType, sock, net, cb, report, faults, service>>

SetReceive ==
  /\ Goto("set_rx", "rx")
  /\ reqType' = "rx"
  /\ lid' = 0
  /\ UNCHANGED <<conf, time, sock, net, cb, report, faults, service>>

-----------------------------------------------------------------------------
(* The event thread *)

\* _handle_data, ieee1901_2010_handle_message: the answer is read, unless
\* events_teardown has killed the event thread.
HandleData(m) ==
  /\ m \in net /\ m.due = 0 /\ pc # "hung"
  /\ Service!Fire(Reader)
  /\ net' = net \ {m}
  /\ cb' = m
  /\ UNCHANGED <<conf, pc, lid, time, reqType, sock, report, faults>>

\* What the switch over link_stats_req_type makes of a value; an indeterminate
\* one may be read as either kind or as none.
Classified(t) == IF t = "unset" THEN Directions \cup {"none"} ELSE {t}

\* _nw_stats, or _link_stats: an answer that is refused, or too short, is
\* dropped. Both kinds of statistics have the same size on the wire, so that
\* link_stats_req_type as it is now decides how an answer is printed.
PrintStats ==
  /\ Service!Return
  /\ \E t \in Classified(reqType) :
       LET as == IF cb.req.what = "nw" THEN "nw" ELSE t
       IN report' = IF cb.ok /\ as # "none" THEN report \cup {[req |-> cb.req, as |-> as]}
                    ELSE report
  /\ cb' = NoAnswer
  /\ UNCHANGED <<conf, pc, lid, time, reqType, sock, net, faults>>

-----------------------------------------------------------------------------
(* Ending: events_teardown, then net_destroy *)

\* Mutant: net_destroy before events_teardown.
CloseFirst ==
  /\ Goto("final", "teardown")
  /\ sock' = "closed"
  /\ UNCHANGED <<conf, lid, time, reqType, net, cb, report, faults, service>>

StartTeardown ==
  /\ Goto("final", "teardown")
  /\ UNCHANGED <<conf, lid, time, reqType, sock, net, cb, report, faults, service>>

\* events_teardown has joined the event thread and destroys the reader.
DisarmReader ==
  /\ Goto("teardown", "close")
  /\ running = NoCallback
  /\ IF stage[Reader] = "over" THEN UNCHANGED service ELSE Service!Disarm(Reader)
  /\ UNCHANGED <<conf, lid, time, reqType, sock, net, cb, report, faults>>

\* pthread_cancel hits read() or printf() of a running callback.
KillCallback ==
  /\ Goto("teardown", "hung")
  /\ Service!Return
  /\ cb' = NoAnswer
  /\ UNCHANGED <<conf, lid, time, reqType, sock, net, report, faults>>

CloseService ==
  /\ Goto("close", "destroy")
  /\ Service!Close
  /\ UNCHANGED <<conf, lid, time, reqType, sock, net, cb, report, faults>>

NetDestroy ==
  /\ Goto("destroy", "done")
  /\ sock' = "closed"
  /\ UNCHANGED <<conf, lid, time, reqType, net, cb, report, faults, service>>

-----------------------------------------------------------------------------

\* Time passes; what is due by now has been handled.
Tick ==
  /\ wait > 0 \/ net # {}
  /\ running = NoCallback
  /\ stage[Reader] = "armed" => \A m \in net : m.due > 0
  /\ wait' = IF wait > 0 THEN wait - 1 ELSE 0
  /\ quiet' = IF quiet < conf.gap THEN quiet + 1 ELSE quiet
  /\ net' = {[m EXCEPT !.due = IF @ > 0 THEN @ - 1 ELSE 0] : m \in net}
  /\ UNCHANGED <<conf, pc, delay, lid, reqType, sock, cb, report, faults, service>>

Over == pc \in {"done", "exited", "hung"} /\ UNCHANGED vars

Start == SetUp \/ NetCreate \/ AskForReader \/ ArmReader

RequestStep ==
  \/ RequestNetworkStats \/ SkipNetworkStats
  \/ StartLinkStats \/ SkipLinkStats
  \/ SetTransmit \/ WaitBeforeReceive \/ SkipReceive \/ SetReceive
  \/ \E d \in Directions : RequestOne(d) \/ RequestNext(d) \/ EndLoop(d)

Finish == StartTeardown \/ DisarmReader \/ CloseService \/ NetDestroy

MainStep == Start \/ RequestStep \/ Finish

EventThread == (\E m \in net : HandleData(m)) \/ PrintStats

Next == MainStep \/ EventThread \/ KillCallback \/ Tick \/ Over

Spec == Init /\ [][Next]_vars

\* Main and the event thread are scheduled, and sleeps end.
Fairness == WF_vars(MainStep) /\ WF_vars(EventThread) /\ WF_vars(Tick)

FairSpec == Spec /\ Fairness

-----------------------------------------------------------------------------
(* Properties *)

\* Every answer is printed as the kind of statistics that was asked for; the
\* comment at hpav-stats.c:61 explains why the program has to remember which.
AttributionCorrect ==
  \A r \in report : r.req.what = "link" => r.as = r.req.dir

\* The last transmit answer is handled before the receive phase begins: two
\* gaps, and the gap behind the last request of a range, none of which wraps.
BetweenPhases ==
  2 * conf.gap < Width /\ delay < (IF conf.lid = -1 THEN 3 ELSE 2) * conf.gap

\* Transmit statistics are printed as such, and receive statistics too, when
\* the network answers between the phases: the callback runs concurrently with
\* main, which overwrites link_stats_req_type, and calls fail or answers are
\* lost or refused.
TimelyAttribution == BetweenPhases => AttributionCorrect

\* What the options ask for, in the words of the option texts.
Asked ==
  (IF "nw" \in conf.what THEN {NetworkRequest} ELSE {})
  \cup
  (IF "link" \in conf.what
     THEN {LinkRequest(d, l) : d \in conf.dir,
             l \in IF conf.lid # -1 THEN {conf.lid} ELSE IF conf.all THEN 0..AllLimit ELSE 0..3}
     ELSE {})

\* Without a fault, everything the options ask for is printed before main
\* tears the event thread down, if the network answers within the last sleep of
\* five gaps and the 32 bit product does not wrap to a shorter one.
CompleteReport ==
  /\ pc = "done" /\ faults = 0
  /\ 5 * conf.gap < Width /\ delay < 5 * conf.gap
  => Asked \subseteq {r.req : r \in report}

\* main sends a request, of whatever kind.
Sending == RequestNetworkStats \/ \E d \in Directions : RequestOne(d) \/ RequestNext(d)

\* Whenever main sends a request, at least message_gap_usec has passed since
\* the one before it, also from one kind of request and from one phase to the
\* next, unless twice the gap wraps.
GapKept == [][2 * conf.gap < Width /\ Sending => quiet = conf.gap]_vars

\* Every answer about a link is classified by a value that main has assigned
\* (ctx is not initialised, and the callback is registered before l.398).
RequestTypeSetBeforeUse ==
  running = Reader /\ cb.req.what = "link" => reqType # "unset"

\* The event thread never reads from a socket that net_destroy has closed.
SocketOutlivesReader ==
  running = Reader \/ stage[Reader] = "armed" => sock = "open"

\* The program ends, or hangs because events_teardown killed a callback.
Terminates == <>(pc \in {"done", "exited", "hung"})

=============================================================================
