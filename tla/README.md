# A verification development for hpav-link-stats

hpav-link-stats queries HomePlug AV adapters: `hpav-stats` prints network and
link statistics, `hpav-discover` lists stations and networks, and
`loop-mm-types` tries message types. All three run a client thread (`main`)
and an event thread that a small library, `events.c`, puts on top of libevent.
These modules specify the library, the programs on top of it and the script
`hpav_stats.py` that runs one of them, check them with TLC on small instances,
and prove with TLAPS the properties of the event service, of the message parser
and of the two sessions, for every number of events, every legal client, every
frame and every network.

All line numbers refer to the repository's files, `src/` being its root.

## 1. The system

| Component | State | Operations | Hard because |
|---|---|---|---|
| event service, `src/src/events.c`, `src/include/events.h` | `events_ctx`: libevent base, event thread, list of events, mutex, counter `_id_cnt`, no-exit timer; `events_event`: libevent event, callbacks, `_id` | setup, teardown, schedule one-shot, schedule periodic, add reader, cancel; the proxies in the event thread | two threads; an element found under the mutex is destroyed outside it; the counter has no lock; teardown cancels the thread, possibly inside a callback |
| `hpav-stats` session, `src/bin/hpav-stats.c` | options `conf`, `link_stats_req_type`, the socket, the loop counter | requests for network, transmit and receive statistics, separated by sleeps; callbacks print | the callback classifies an answer by a variable that `main` overwrites meanwhile; only sleeps order the two |
| raw socket, `src/src/net.c` | descriptor, interface address | create, destroy | is read by the other thread until teardown |
| management messages, `src/src/ieee1901-2010.c` | registered callbacks | classify, parse four confirms, frame and pad a request | counts and lengths come from the frame |
| `hpav-discover` session, `src/bin/hpav-discover.c` | options, socket | discover; a follow-up request per listed station, sent from the callback | one sleep covers a chain of answers; two threads use one socket |
| command lines: `_parse_opt` of the three programs | `cmd_cnf`, `nid_set`, `da_sa_mac_set`, `errno` | one option, one argument, the end | order and repetition of options, numbers at the limits of their types, `errno` |
| `helper.c` | none | parse MAC and network identifier | a regular expression and `sscanf` read the same text |
| `loop-mm-types`, `src/bin/loop-mm-types.c` | counters of types and operations | send each selected operation of each type in the table | the counts that stand for defaults |
| `src/bin/hpav_stats.py` | the sections of two queries | match requests and answers of two stations | missing sections, sections of others, counters of 0 |

Interaction: `main` calls the API of the event service; the event service
calls back, in its own thread, `_handle_data`, which reads the socket and
calls `ieee1901_2010_handle_message`, which calls `_nw_stats` or `_link_stats`
with the program's context. `main` and the callbacks share that context
without a lock. `main` ends with `events_teardown`, then `net_destroy`.

What makes each component correct:

* **event service** - no use of memory that was given back, whatever threads
  and callbacks cancel, schedule or tear down; no callback while its event is
  destroyed; different identifiers; a one-shot runs at most once; the thread
  ends for a known reason only and never while an event is armed, unless torn
  down; teardown returns and leaves nothing behind; cancel returns; armed
  timers fire. In one sentence: it implements `Dispatcher`.
* **`hpav-stats`** - answers are printed as what was asked for; what was asked
  for is printed; the socket outlives the reader; the program ends.
* **management messages** - no read behind the end of a frame; every complete
  element of a confirm reaches its callback once; the status tells whether
  something was missing; what `message_send` writes is accepted by a receiver;
  vendor messages are refused, as documented.
* **`hpav-stats`** also keeps the gap between requests that `-g` promises.
* **`hpav-discover`** - everything that can be discovered is printed in time;
  a network information follows the listed station that triggered the request
  for it; the socket outlives its user.
* **raw socket** - whichever call fails, nothing stays open.
* **command lines** - accepted settings are those that were written, and a
  command line without a flaw is never refused.
* **`loop-mm-types`** - each selected operation of each type is sent once.
* **`hpav_stats.py`** - counters of one link are compared; no answer is lost.

## 2. Modules

| Module | What it is |
|---|---|
| `Dispatcher` | the abstract event service: what `events.h` promises |
| `Events` | `events.c`, step by step, with libevent and pthreads as its environment |
| `EventsInvariant` | the inductive invariant of `Events` and the client discipline |
| `EventsProofs` | type correctness |
| `EventsSafetyProofs` | the inductive invariant and the safety theorems; why the event thread ends; one-shots run once |
| `EventsRefinementProofs` | `Events` implements `Dispatcher` |
| `MCEvents` | instances of `Events` for TLC |
| `StatsSession` | one run of `hpav-stats`, on top of `Dispatcher` |
| `StatsProofs` | types, the life of the socket, the initialisation of `link_stats_req_type`; the gap between requests, attribution and completeness |
| `MCStatsSession` | command lines and networks for TLC |
| `Net` | `net.c`: the calls of `net_create` and what each failure gives back |
| `DiscoverSession` | one run of `hpav-discover`, on top of `Dispatcher` and `Net` |
| `MCDiscoverSession` | two adapters for TLC |
| `DiscoverProofs` | its invariants and theorems |
| `Helper` | `helper.c`: the two address parsers, as one operator |
| `CommandLine` | `_parse_opt` of the three programs |
| `LoopMM` | `loop-mm-types`, from its command line to its end |
| `LoopMMProofs` | the address parsers, the command lines and the walk over the table |
| `MCLoopMM` | command lines for TLC |
| `Monitor` | `hpav_stats.py`: two queries and the two blocks it prints |
| `MonitorProofs` | what stands in the lines, and that no answer is missing |
| `MCMonitor` | three adapters for TLC |
| `MgmtMessage` | `ieee1901-2010.c`: classification, parsers, framing |
| `MgmtMessageProofs` | its inductive invariant and theorems |
| `MCMgmtMessage` | frames and requests for TLC |

`StatsSession` and `DiscoverSession` compose a program with the *abstract*
service (`Service == INSTANCE Dispatcher`), and `Events` is proved to implement that service, so
neither has to be checked together with the other. The one behaviour of
`events_teardown` that `Dispatcher` does not speak about, the teardown that
hangs, is an action of its own in both sessions (`KillCallback`).

Operators whose comment starts with "Mutant:" are variants of the definition
that follows them, with a plausible bug. They are not part of any
specification; substituted for the definition they show that a property
notices the bug.

## 3. Events: correspondence with the code

Two threads, `"main"` and `"loop"`, each with a `pc`. One step is one access
to memory the other thread can see, one call of libevent, or one critical
section. `obj` is the local `evs_ev`, `ret` the caller of
`_destroy_events_event`, `idreg` the value read by `_id_cnt++`.

| Code | Actions |
|---|---|
| `events_setup` 24-68 | `Setup` |
| `events_schedule_*`, `events_add_reader` 121-230 | `Schedule` (calloc, read of `_id_cnt`), `StoreId` (write of `_id_cnt`), `EventNew`, `Insert`, `EventAdd` |
| `events_cancel` 239-261 | `Cancel`, `LookupFound`, `LookupMissed`, then as the next line |
| `_destroy_events_event` 109-119 | `EventDel`, `EventFree`, `Unlink`, `FreeObj` |
| `_event_thread` 263-274, inside libevent | `LoopStart`, `LoopWakes`, `LoopNext`, `LoopTop`, `LoopExits` |
| the proxies 87-107 | `Fire`, `CallbackReturns` (the one-shot proxy goes on to `EventDel`) |
| `events_teardown` 70-85 | `TeardownBreak`, `PthreadCancel`, `PthreadJoin`, `Reap`, `BaseFree`; `LoopCancelled`, `CallbackCancelled` in the other thread |

`events_setup` ignores the result of `event_add` on its no-exit timer (line
49): a successful `Setup` starts the thread with the timer in the base or, when
`event_add` may fail, with an empty base (`noExit` is `"refused"`), on which
`event_base_loop` returns as soon as the thread gets there, or later, if the
client has armed an event of its own by then, when that event is gone.

`Persistent` and `GetsId` follow the arguments as the code passes them,
including the swapped pair at line 179.

`_events_schedule` and `events_add_reader` are the same sequence of steps; the
kind of a call only decides the proxy, the flags and the identifier. The list
is a set: its order matters only where two elements have one identifier, and
then `LookupFound` picks any of them; `Reap` picks any element where the code
takes the head, so every order of destruction is covered.

*External behaviour*, modelled from how `events.c` uses it: `event_del` waits
while another thread runs the event's callback and returns at once in that
callback itself (libevent 2.0 and 2.1 do, with `evthread_use_pthreads`, for
events without the finalize flag); `event_base_loop` clears the break flag
when it starts, takes a non-persistent event out of the base before its
callback, and ends when the break flag is set or the base is empty;
`pthread_cancel` takes effect at a cancellation point, which are the wait of
the loop and, with `CallbackBlocks`, calls such as `read` and `printf` in a
callback.

A client here is any program that calls the API from `main` and from
callbacks, cancels only identifiers it was given, from the thread that owns
them and once, and calls nothing after teardown. `events.h` does not say what
two cancellations of one identifier may do, and the code has no defence
against two at the same time. The programs of this repository are
far simpler clients (one reader); the model is about the library.

*Abstracted*: times (an armed event may be due at any moment), user data, the
file descriptor of a reader, the allocation of `ctx` itself (its failure is the
failing `Setup`), and calloc failing in a schedule call (the call then returns
without having done anything).

## 4. StatsSession: correspondence with the code

`pc` is the next statement of `main`. Time passes in the unit in which
`message_gap_usec` is given (`Tick`); `conf.gap` is the gap in that unit, and
`Sleep(n)` the argument of `usleep`, a product that the code computes in 32
bits: `Width` stands for 2^32. `wait` is what is left of the present sleep,
`delay` the time that the slowest answer of this network takes, and `quiet` a
history variable, the time since the last request, counted up to one gap.
`net` holds the answers on their way, each with the time until the event
thread handles it. An action of `main` needs `wait = 0`; as `Tick` is an
action of its own, `main` may also wake up late. A callback takes no modelled
time, but `main` may take steps between its start (`HandleData`) and its end
(`PrintStats`).

| Code | Actions |
|---|---|
| 357-370 | `SetUp`, `NetCreate`, `AskForReader`, `ArmReader` |
| 372-381 | `RequestNetworkStats` or `SkipNetworkStats` |
| 383-401 | `StartLinkStats` or `SkipLinkStats`, `SetTransmit` |
| 403-414, 426-437 | `RequestOne` (option `-i`), `RequestNext`, `EndLoop`, for both directions |
| 417-424 | `WaitBeforeReceive` or `SkipReceive`, `SetReceive` |
| 441-444 | `StartTeardown`, `DisarmReader`, `CloseService` (inside `events_teardown`), `NetDestroy`; `KillCallback` when teardown's `pthread_cancel` hits a callback |
| 218-233, 244-323 | `HandleData`, `PrintStats` |

`link_stats_req_type` is `"unset"` until line 398 assigns it, and reading it
then may give any of the outcomes of the `switch` (`Classified`). A *fault* is
a failing `events_setup`, `net_create` or `event_add`, or a request that is
not sent, not answered, or answered by a refusal or a short frame. An answer
to a network request stands for all its stations. Both kinds of link
statistics are taken to have the same size, as the comment at lines 61-65
reports: the smallest frame `_handle_data` passes has 39 bytes after the two
headers, just the transmit statistics (`EitherKindFits` of `MgmtMessage`), and
`_link_stats` checks the length it is given in any case. After
`KillCallback` the event thread is dead and handles nothing more.

An event thread that has ended on an empty base (line 49 of `events.c`) handles no answer:
in both sessions this is the same as a reader that was never armed, a fault of
`ArmReader`.

Two properties speak of attribution. `AttributionCorrect` says without
condition that answers are printed as what was asked for; the code does not
guarantee it (finding 2). `TimelyAttribution` says it of networks that answer
between the two phases (`BetweenPhases`): the last request of a range is
followed by its own gap and two more, a single one by two. The other
conditions are of the same kind: twice the gap, or five times, has to fit into
32 bits, and the last answer has to arrive within the last sleep.

## 5. The other components: correspondence with the code

### MgmtMessage

The parser runs in one thread and keeps no state between frames; it is a
state machine because a pointer, `remaining_size` and a counter move over the
frame. A frame is its length, the three header fields that are looked at, and
its two count bytes; everything else in it is payload that is only handed on.
A read, or a callback, records the bytes it concerns in `span`.

| Code | Actions |
|---|---|
| `ieee1901_2010_init` 15-23, `ieee1901_2010_register_*` 237-309 | `Init`, `Register` |
| `_handle_data` of the programs; `ieee1901_2010_handle_message` 25-74 | `HandleData`, `HandleMessage`, `Forget` |
| the discovery parser 108-164 | `ReadCount`, `Element`, `EndOfList`, for stations and then for networks |
| the network statistics 166-200 and network information 202-235 parsers | the same three actions, with one list |
| the link statistics parser 76-105 | `LinkConfirm` |
| `ieee1901_2010_message_send` 311-371 | `Send`, received by a peer that runs the same code |

`Ntohs` swaps the bytes of the type, as on a little-endian host, in the vendor
check only; the `switch` and `message_send` use the type as it is.
`remaining_size` is an `int` that C converts to `size_t` in the comparisons
with `sizeof` (`Less`): a negative value would pass them, which is why
`TypeOK` has `rem` in the naturals. A discovery returns `EXIT_FAILURE` also
when it was complete (line 163); `StatusTellsCompleteness` is therefore stated
for its siblings only, and nothing in the repository says otherwise. Left out:
NULL arguments, a failing `write`, and `ieee1901_2010_vendor_message_send`,
which is empty.

### Net and DiscoverSession

`Net` is the life of one packet socket: `at` is the system call that
`net_create` makes next, `held` what it has acquired. The ioctl socket of
`_get_if_cfg` is closed before the packet socket is opened, so three things
can be held.

| Code of `net.c` | Definitions |
|---|---|
| `_get_if_cfg` 16-47 and `net_create` 52-99, in the order of the calls | `Following`, `Acquired`, `Dropped`, `CallSucceeds` |
| the early returns of `_get_if_cfg`, the labels `err_has_sock`, `err_has_ctx` | `GivenBack`, `CallFails` |
| `net_destroy` | `Destroy` |

`DiscoverSession` extends `Net`: its `NetCreate` is one call of `net_create`
after the other, its `NetDestroy` is `Destroy`. It composes them with
`Dispatcher` in the same way as `StatsSession`, with the same treatment of
time, of `KillCallback` and of faults; here a fault may also cut an answer off
behind some of its elements, and the event thread sends requests itself.

| Code of `hpav-discover.c` | Actions |
|---|---|
| `main` from `events_setup` to `events_add_reader` | `SetUp`, `NetCreate`, `AskForReader`, `ArmReader` |
| the discovery and the sleep of 250 ms, line 232 | `SendDiscover` |
| `_handle_data` and the parser behind it | `HandleData`, `CallbackReturns` |
| `_station_info`, called once per station of a list | `StationInfo`, which also sends the follow-up |
| `_nwinfo` | `NwInfo` |
| `events_teardown`, `net_destroy` | `StartTeardown`, `DisarmReader`, `CloseService`, `NetDestroy`; `KillCallback` |

A station is known by the adapter that lists it and its place in the list; an
adapter answers an nwinfo request with one element, about itself. A list is
walked from its last station to its first: the model counts elements down, the
order of the lines has no meaning. `-b` is heard by everyone, `-l` and `-d` by
one adapter.

### Helper, CommandLine and LoopMM

A string is a sequence of characters, in which hexadecimal digits are their
values. `Helper!Matches` is the regular expression, `Starts` and `ScannedByte`
what `sscanf` with `%x:%x:...` makes of the same text, with the assignment of
an `int` to a byte; `ParseAddress` is `hpav_parse_mac` for 6 and
`hpav_parse_nid` for 7.

`CommandLine` is `_parse_opt` of the three programs, one action per group of
options; `argp` is external: it hands over the options in their order, then
the arguments, then `ARGP_KEY_END`. `argp_usage` and `argp_error` end the
program (`Refuse`). The number behind `-i` goes through `sscanf("%d")`
(`Int32`: cut to `long`, then to 32 bits), the one behind `-g` through
`strtoul` with the test of `errno`, which nobody resets (`erange`), and is cut
to 32 bits. How `sscanf` and `strtoul` treat overflow and `errno` is glibc's
behaviour. `LoopMM` extends `CommandLine`: `MMTypes` is the table of the
header `ieee1901-2010.h` as sets of operations, in its order,
`SendMessage` and `SkipOperation` are the body of the two loops of
`loop-mm-types`, `Advance` their counters. The program's `usleep(100000)`
is left out: no reader is registered, so that nothing depends on it.

The properties compare the result with the option texts, stated over the whole
command line instead of option by option (`Given`, `Final`, `Named`).
`RefusedForAReason` names two kinds of flaws: `Mistaken`, which no accepted
command line has, and `Misnumbered`, of which the code overlooks some. What the
program's own messages say about numbers is stated without any exception by
`NumbersAsExpected`, which the code does not satisfy (finding 4).

### Monitor

`Monitor` is `hpav_stats.py`: `Query` is `link_stats` (two runs of
`hpav-stats -L`), `QueryFails` its exceptions and a child that never ends,
`Received`, `Transmitted` and `EndLoop` the two loops of `print_link_stats`,
for one block and then the other. `Match` is the inner loop over the `tx`
sections of the other query; it does not stop at a match. A dictionary may
have any order, so `Query` takes any order of the `tx` sections. Of the
counters only "zero or not" is kept: `ZeroDivision`. The model takes the answers
to the query for a station from the adapters with a link to it; under which of
the two addresses of a block their counters belong is the firmware's
interpretation of the request, and is not checked.

## 6. The runs

Sizes are distinct states; each run takes seconds to three minutes.

| Run | Instance | Shows |
|---|---|---|
| `events_owned` | 3 events; one-shots, periodic timers cancelled by `main`, readers cancelled by callbacks; `main` schedules; `event_add`, also that of the no-exit timer, and setup may fail; 1.7 M states | all safety invariants, `LoopEndsForAReason` and `ImplementsDispatcher` |
| `events_anonymous` | 3 events of every kind, both threads schedule, nobody cancels; 1.5 M states | memory safety and clean teardown even with equal identifiers |
| `events_live` | 2 events, `event_add` may fail everywhere; 49 k states, under the fairness of `FairSpec` | `TeardownReturns`, `CancelReturns`, `TimerFires` |
| `events_single_id` | 1 one-shot with an id pointer | a violation of `SingleShotFiresOnce`: finding 1 |
| `stats` | every combination of `-N -L -r -t` with one link and with a range, `-a` with 6 links; networks just fast enough, answering during the teardown or after the end; gaps of 0, 1, 3, 7 and 8 with `Width` 16; one fault; 65 k states, under `FairSpec` | attribution, completeness, spacing, socket, initialisation, termination |
| `stats_late` | `-i`, answers up to 3 gaps | a violation of `AttributionCorrect`: finding 2 |
| `discover` | 2 adapters that list each other, or of which one lists two stations; delays 1 and 3, `Wait` 3, one fault; 13 k states, under `FairSpec` | completeness, order, socket, nothing left open, termination |
| `command_lines` | all orders of up to 3 options; numbers around every limit with `W32` 1024 and `W64` 4096; every text one character away from an address; 33 k states | the settings and refusals of the three programs, the walk of `loop-mm-types` |
| `command_line_numbers` | every pair of `-i` and `-g` with the numbers of `command_lines` | a violation of `NumbersAsExpected`: finding 4 |
| `monitor` | 3 adapters, 2 links, up to 3 answers per query; 444 k states | which counters are compared, that every answer is printed |
| `mgmt_parse` | 335 frames of 18 to 70 bytes with counts 0, 1, 2 and 255, 96 requests, every set of callbacks; 35 k states | the parser's safety properties |
| `mgmt_vendor` | two frames of vendor types | a violation of `VendorRefused`: finding 3 |

*Bounds and why they are enough.*

* `Objects` bounds the events ever created, not those alive at once; two
  threads can work on at most two events, and a third is needed for a bystander
  (an entry of the list with the same identifier, an armed event at teardown).
  The theorems of section 8 remove the bound. `fired` saturates at 2 because
  the only question is "more than once". Symmetry is used for `Objects` in the
  two safety runs only; in the liveness run the first event scheduled is always
  the same one (`OrderedSpec`), which renames fair behaviours and removes none.
* `AllLimit` stands for 255 and must exceed 4, so that the range of `-a`
  differs from the default one. With `Width` 16 a gap of 1 is undisturbed, of
  3 is long enough for several steps of `main` between two answers and still
  fits five times, of 7 fits twice but not five times, of 8 wraps to 0 when
  doubled, and of 0 never sleeps. The delays lie just below and beyond the
  limits 2, 3 and 5 gaps of the properties. The theorems hold for all others.
* One fault at a time suffices in the runs for calls whose results are ignored
  one by one; the theorems allow any number.
* `Wait` 3 with answers of 1 is the smallest network in which two round trips
  fit and neither sleep nor answers are zero; with answers of 3 the callbacks
  run during the teardown.
* Options are independent of each other except for those that share a field or
  that `ARGP_KEY_END` looks at together; three are needed to select, deselect
  and select again (`-r -c -r`), and to give two addresses and a flag in every
  order. `W32` and `W64` only have to keep the limits of the code apart:
  255 < `W32`/2 < `W32` < `W64`/2 < `W64`. The default gap is scaled to 200.
  The table of message types is the real one.
* Three answers per query allow two answers about one link and one about
  another; two adapters and a third are all roles the script knows.
* The lengths in `mgmt_parse` lie at and around every limit of the parsers:
  the header, the counts, one and two elements of each list, the smallest
  frame, the link statistics; the theorems cover every other length and count.

### Findings

1. `events_schedule_single_shot` with a non-NULL `id`
   (`src/src/events.c:179`): `id` and `persistent` are swapped; the event is
   periodic and the identifier is not written. No program of the repository
   passes an id.
2. `hpav-stats -i` (`src/bin/hpav-stats.c:422`): an answer to the transmit
   request that is handled after two gaps is printed as receive statistics.
   The request identifier could tell them apart but carries the link
   identifier. With a range of links the margin is three gaps.
3. The check that should refuse vendor messages (`src/src/ieee1901-2010.c:38`)
   swaps the bytes of a type that is in host order: types from 0x8000 on pass
   when their low byte is small. `SentIsAccepted` shows that no standard type
   is refused by it.
4. The number behind `-i` (`src/bin/hpav-stats.c:159`) is cut to 32 bits before
   it is compared with 0..255, and may be followed by anything, although the
   messages at lines 160 and 164 expect "a number 0..255": 4294967297 and `1abc`
   are link 1. When it exceeds a `long` it leaves `ERANGE` in `errno`, which line
   180 takes for an error of a later, sound `-g`. The argument of `-g` itself
   may be empty, negative, or exceed 32 bits; the message at line 182 expects a
   "time in useconds".

Disagreements with a text of the repository that are part of the models, but
that no run is devoted to:

* without `-i` and `-a`, links 0..4 are queried (`lid_lim = 4` with `<=`,
  `LidLimit`); the option text (`src/bin/hpav-stats.c:97`) and
  `src/README.md:304` say 0..3;
* `events_setup` ignores the result of `event_add` on the no-exit timer
  (`src/src/events.c:49`), with which the comment at line 267 replaces
  `EVLOOP_NO_EXIT_ON_EMPTY`: setup may return a service whose thread ends at
  once. `LoopEndsForAReason` says that this and teardown are the only ways, and
  that the thread never ends before teardown while an event is armed;
  `TimerFires` is about threads that live;
* `hpav_stats.py` pairs counters by link identifier alone
  (`src/bin/hpav_stats.py:96`): when a third adapter answers one of the queries,
  its counters are compared with a station's, although the script is to
  "correlate the link statistics of two stations" (`src/README.md:324`) with the
  counters of "station A and B" (line 340). `SameLink` says what holds when only
  the two answer.

Known and modelled, but without a text in the repository that they contradict:

* teardown hangs when its `pthread_cancel` kills a callback (`Hung`,
  `KillCallback`);
* a failing `event_new` is followed by a NULL dereference (excluded by
  `ClientDiscipline`);
* `hpav-discover` asks the adapter that sent a list for its network
  information, once for each station of the list, and never the stations
  listed: with two adapters both readings give the same output;
* `hpav_stats.py` ends with a division by zero when a link is idle, and prints
  nothing of what is left.

## 7. Fairness

`Events!Fairness`: each thread's API steps are strongly fair, because the
mutex they may wait for is released and handed on; callbacks return; a pass of
the loop ends and the next starts with a test of the break flag
(`LoopTop`, `LoopExits`); the wait ends, at the latest when the no-exit timer
of line 44 is due or, without it, the first event is (`LoopWakes`); a pending cancellation acts in the wait;
libevent runs timers in the order of their deadlines (`FireTimer`), so a timer
is not passed over for ever. Readers get no fairness, nor do clients' calls or
the decision to tear down.

`StatsSession!Fairness` and `DiscoverSession!Fairness` are the same: `main`
and the event thread are scheduled, and time passes, so that sleeps end. That
is all `Terminates` needs. No fairness is asked of `KillCallback` nor of
anything that fails. The remaining specifications state safety only.

## 8. Proofs

### The event service

`EventsProofs` proves `Spec => []TypeOK` without any assumption on clients.
`EventsSafetyProofs` proves the inductive invariant `IInv` under
`ClientDiscipline`, with one lemma per action, and derives `MemorySafety`,
`CallbackFinished`, `IdentifiersDiffer` and `CleanTeardown`.
`EventsRefinementProofs` uses it to show that every step of `Events` is a step
of `Dispatcher` or a stutter.

`ClientDiscipline` says that `event_new` succeeds and that either only one
thread schedules or nobody keeps an identifier. Without its second half two
events may share an identifier, `events_cancel` may find the wrong one, and
two threads destroy one event. The refinement also assumes
`SingleShotsAnonymous`: no id pointer for a one-shot, see finding 1.

*Why `NoUseAfterFree` is not inductive, and what is.* `events_cancel` uses an
element after it has released the mutex, so "the element is in the list" is
not stable by itself. It is stable because of *ownership* (`OwnInv`): a thread
works on an event only if it creates it, holds its identifier, has run its
one-shot callback, or is tearing down after the other thread has died.
`DisjointInv` (the two threads never work on one event) follows step by step
from ownership, from `IdInv` (the search finds the caller's own event: all
identifiers are below the counter and differ, and while a thread is between
the read and the write of `_id_cnt` nobody else writes it) and from `HandleInv`
(an event with an identifier is persistent, so the one-shot proxy does not
destroy it). `WorkInv` and `HeapInv` give the stage of an event at each step
of its creation and destruction, `CallbackInv` what a running callback may
rely on, `BaseInv` the life of the base. The wait of `event_del` gives
`OwnCallbackFinished`, which is a conjunct. TLC has checked `IInv` on the instances of
`events_owned` and `events_anonymous`.

*The refinement mapping*: a phase from `base`, a stage from libevent's view of
the event (`none`/`new`, `added`, anything later), the running callback from
`current` and the event thread's position.

The second part of `EventsSafetyProofs` proves `LoopEndsForAReason` without any
assumption on clients or on what fails: `LifeInv` says that the break flag and
the cancellation are the work of `events_teardown`, and that the base has the
no-exit timer until then unless `event_add` has refused it; `OnlyLoopEnds` that
the thread ends in three steps only, of which one looks at the base. It then
proves `SingleShotFiresOnce` on top of `IInv`: an event whose one-shot callback has
run is out of the base for good (`FiredInv`), because `WorkInv` allows
`event_add` only for events that were never added.

### The sessions

`StatsProofs` holds for every set of command lines and
networks, every width of the counters and any number of faults.
`SocketOutlivesReader` follows from `StepsInv`, which ties the socket and
the stage of the reader to the next step of `main`;
`RequestTypeSetBeforeUse` from `UnsetInv`: while `link_stats_req_type` is
unset no request about a link has been sent. `GapKept` speaks of every step
that sends, also of two with no time in between, and needs `SpacingInv` (before
each request the time that has passed and the time still to sleep make a gap).

`TimelyAttribution` needs more, because an answer is classified long after its
request: `PhaseInv` (only transmit requests are made before `set_rx`),
`AgeInv` (the age of an answer and the time it has left make at most `delay`,
and no answer is younger than the last request) and `HandledInv` (when `main`
wakes up at `set_rx` no transmit answer is on its way or in the callback, as
`Tick` does not pass over what is due). `CompleteReport` follows from
`CoveredInv` (whatever is asked for is still to be requested, on its way, in
the callback or printed) and `HeardInv` (without a fault nothing is on its way
after the last sleep), both under `Undisturbed`.

`DiscoverProofs` holds for any set of adapters, lists and delays.
`NothingLeftOpen` follows from `HeldInv` (what is held before each call of
`net_create`), `SocketOutlivesReader` from `StepsInv`, `NwInfoFollowsStation`
from `OrderInv` (an answer with network information is only on its way for a
station that was printed). `CompleteDiscovery` is the one with two round trips
under one sleep: `HeardInv` bounds the time that each kind of answer has left
by the rest of the sleep, one `delay` less for lists, and `FoundInv` says that
every station is printed or pending, and so is its network information.

The proofs use the named assumptions on the constants only
(`SessionsAssumption`, `BoundsAssumption`, `NetworksAssumption`,
`TimesAssumption`). That the sleeps of the code satisfy the conditions of the
properties in a given network is not provable: how fast adapters answer is
outside the program.

### The parser

`MgmtMessageProofs` proves, for every set of frames and requests, `TypeOK`,
`InBounds`, `EitherKindFits` and `SentIsAccepted`. `InBounds` is not inductive:
it says nothing of what may still be read. `WalkInv` adds that pointer and
`remaining_size` always meet at the end of the frame, `LinkInv` that the guard
of `_handle_data` is still known when the link statistics callback is called,
and that nothing is walked without a caller. `StandardTypePasses` is the
arithmetic of the swapped bytes for every type and operation.

`GivenAsCounted` and `StatusTellsCompleteness` say what a walk has done when it
is over, and so need where it stands. `ListInv`: which list of which message is
walked, that `remaining_size` is the room of the list less the elements seen,
and that each callback was given the elements seen, for the second of two lists
after all of the first. `FittingCut` and `FittingAll` are the arithmetic at the
end: a list that stops in the middle of an element has given those that fit.
`StatusInv`: only an accepted frame that somebody wants is walked, and between
two frames no status is kept.

### The command lines

`LoopMMProofs` holds for every sequence of options, and so for command lines no
test would write. Three things are put together:

* *The parser of addresses.* `BytesScanned` says that for every text that
  matches the regular expression the conversions of `sscanf` take exactly the
  digits in front of the next colon, and that no byte overflows; `AddressParsed`
  that the result are the bytes that `helper.c` promises.
* *The scan of the options.* A property speaks of the last option of a kind, the
  code of one option after the other. `Holds(opts, n, ...)` is the invariant in
  between: after `n` options a field has the value of the last one of its kind
  among them, or its default. `OneMore` is its step, for any field; `AddedInv`
  and `CntInv` say the same of restrictions and of the counters of operations,
  which add up; `GoodInv` and `RangeInv` that nothing read so far is a reason
  to refuse, and that `errno` is only set by an `-i` that is one: `SoundNumbers`
  shows that a number 0..255 does not set it.
* *The walk.* `SentInv`: what was sent are the supported and selected operations
  of the entries before the one main has come to, in the order of the table.

`Holds` speaks of prefixes, so that no induction over sequences is needed: the
induction is the one over the steps of the program. The assumptions are
`ArgvsAssumption` (the options are those of the tables of `argp_option`) and
`WidthAssumption` (an `int` has room for a lid and the default gap, a `long` for
an `int`, and both have an even number of values).

### The monitor

`MonitorProofs` holds for any number of adapters, links and answers. A line of
the output has a place, a station, a loop and an index in it; `Above` counts the
lines before a loop. `PlaceInv` ties the number of lines to the loop that runs,
`LinesInv` says that every line printed is that of its place and that each
place before the end of the output has one. `OnePlace` (places do not collide)
and `OneSection` (no answer is in two lists or twice in one) turn this into
`EveryAnswerPrinted`; `Compared` (the last match of the inner loop) and the
peer of a section give `SameLink`. `MonitorAssumption` asks for finitely many
adapters, as `link_stats` could not list the answers of infinitely many.

### What is only model-checked

The liveness properties (`LoopEndsForAReason` says that the thread is *able*
to run; that calls return, timers fire and the programs end is liveness under
fairness, which is beyond the prover, as is ENABLED), and the violations, which
are counterexamples of single instances. There is no RECURSIVE
operator in the modules; the two recursive definitions, the value of scanned
digits and the starts of the conversions in `Helper`, are functions, and the
proofs need their values for up to two digits and seven bytes only.

## 9. Not modelled, and what could come next

Left out, with the reason:

* build files, the figure in `doc/` and the unit test, which is read as
  documentation of the address parsers;
* output formats and the values of the printed counters; `network_stats` of
  `hpav_stats.py`, which `main` does not call and which only regroups output;
* a second querying program on the same host, whose answers a raw socket would
  see too, and frames that arrive between `socket` and `bind`: nothing in the
  code ties an answer to a session, so that there is no promise to check (and
  `RequestTypeSetBeforeUse` is about the answers to the run's own requests);
* the truncation of an interface name that fills `IF_NAMESIZE`;
* a NULL context, payload or argument, which no caller passes, a failing
  `write`, and `ieee1901_2010_vendor_message_send`, which is empty;
* the memory of the no-exit timer, which neither a failing `events_setup` nor
  `events_teardown` frees.

Next would be action properties of the sessions as theorems, and a session on a
host on which another program queries the same adapters.
