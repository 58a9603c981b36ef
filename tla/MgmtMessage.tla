---------------------------- MODULE MgmtMessage -----------------------------
(***************************************************************************)
(* src/src/ieee1901-2010.c: a frame that the event thread has read is      *)
(* classified and, when it is a confirm somebody registered a callback     *)
(* for, walked: a pointer and remaining_size move over elements whose      *)
(* number is a byte of the frame itself.  Requests are framed and padded.  *)
(*                                                                         *)
(* A frame is what the code looks at: its length, three header fields and  *)
(* the (at most two) count bytes.  Offsets are counted in bytes.           *)
(***************************************************************************)
EXTENDS Integers

CONSTANTS Frames,   \* the frames that may arrive
          Requests  \* what the programs send: type, operation and payload length

HeaderSize == 19    \* struct MM_APDU_Standard_Header
MinMsgSize == 60    \* IEEE1901_2010_MIN_MSG_SIZE
HeadSize == 2       \* struct ieee1901_2010_cm_link_stats_confirm_head
ReceiveSize == 34   \* struct ieee1901_2010_cm_link_stats_receive_confirm
TransmitSize == 39  \* struct ieee1901_2010_cm_link_stats_transmit_confirm

Lists == {"station", "network", "nwinfo", "stats"}
Callbacks == Lists \cup {"link"}

\* sizeof of the elements of each list.
Size == [l \in Lists |-> CASE l = "station" -> 12 [] l = "network" -> 13
                           [] l = "nwinfo" -> 18 [] l = "stats" -> 8]

\* The management message types of MMTypes, and the operations in their two
\* low bits.
StandardTypes == {4 * k : k \in 0..29 \cup 2048..2050 \cup 4096..4100 \cup 6144..6167}
Operations == 0..3

Confirm(type) == type + 1
DiscoverList == Confirm(20)      \* CC_DISCOVER_LIST, 0x0014
NwInfo == Confirm(24632)         \* CM_NW_INFO, 0x6038
NwStats == Confirm(24648)        \* CM_NW_STATS, 0x6048
LinkStats == Confirm(24652)      \* CM_LINK_STATS, 0x604C

Word == {n \in Nat : n < 65536}  \* uint16_t

FrameRecords == [len : Nat, ours : BOOLEAN, type : Word, nf : 0..15,
                 first : 0..255, second : 0..255]
NoFrame == [len |-> 0, ours |-> FALSE, type |-> 0, nf |-> 0, first |-> 0, second |-> 0]

RequestRecords == [type : StandardTypes, oper : Operations, len : Nat]

ASSUME FramesAssumption == Frames \subseteq FrameRecords
ASSUME RequestsAssumption == Requests \subseteq RequestRecords

VARIABLES
  ctx,    \* the callbacks registered in struct ieee1901_2010_ctx
  pc,     \* "idle", or the next step of the parser: "count", "element", "link"
  frame,  \* the frame being handled, or handled last
  via,    \* who passed it: "_handle_data" of a program, any caller ("direct"), or
          \* "_handle_data" of a peer that was sent a request
  list,   \* the list being walked
  left,   \* its elements that were not looked at yet
  off,    \* payload, as an offset into the frame
  rem,    \* remaining_size
  span,   \* the bytes that were read, or given to a callback, last
  given,  \* how often each callback was called for this frame
  size,   \* the payload size the link statistics callback was told
  rc      \* the status that handle_message returned

walk == <<list, left, off, rem>>
result == <<span, given, size>>
vars == <<ctx, pc, frame, via, walk, result, rc>>

NoSpan == [from |-> 0, to |-> 0]
NoneGiven == [c \in Callbacks |-> 0]

TypeOK ==
  /\ ctx \subseteq Callbacks
  /\ pc \in {"idle", "count", "element", "link"}
  /\ frame \in FrameRecords /\ via \in {"none", "_handle_data", "direct", "peer"}
  /\ list \in Lists /\ left \in 0..255
  /\ off \in Nat /\ rem \in Nat
  /\ span \in [from : Nat, to : Nat]
  /\ given \in [Callbacks -> Nat]
  /\ size \in Nat
  /\ rc \in {"none", "ok", "fail"}

\* ieee1901_2010_init.
Init ==
  /\ ctx = {}
  /\ pc = "idle" /\ frame = NoFrame /\ via = "none"
  /\ list = "station" /\ left = 0 /\ off = 0 /\ rem = 0
  /\ span = NoSpan /\ given = NoneGiven /\ size = 0
  /\ rc = "none"

\* ieee1901_2010_register_*, with a callback or with NULL, between two frames.
Register(c) ==
  /\ via = "none"
  /\ \/ ctx' = ctx \cup {c}
     \/ ctx' = ctx \ {c}
  /\ UNCHANGED <<pc, frame, via, walk, result, rc>>

-----------------------------------------------------------------------------
(* ieee1901_2010_handle_message *)

\* ntohs on a little-endian host; mmtype itself is read in host order.
Ntohs(n) == (n % 256) * 256 + n \div 256

\* The frame is ours, not refused as a vendor's, and not a fragment.
Accepted(f) ==
  /\ f.len >= HeaderSize
  /\ f.ours
  /\ Ntohs(f.type) <= 32764  \* 0x7ffc
  /\ f.nf = 0

ListOf(type) ==
  CASE type = DiscoverList -> "station"
    [] type = NwInfo -> "nwinfo"
    [] OTHER -> "stats"

\* The switch over mmtype: is there a callback for the message?
Wanted(f) ==
  \/ f.type = DiscoverList /\ ctx \cap {"station", "network"} # {}
  \/ f.type = NwInfo /\ "nwinfo" \in ctx
  \/ f.type = NwStats /\ "stats" \in ctx
  \/ f.type = LinkStats /\ "link" \in ctx

HandleMessage(f, caller) ==
  /\ via = "none"
  /\ frame' = f /\ via' = caller
  /\ span' = [from |-> 0, to |-> IF f.len < HeaderSize THEN 0 ELSE HeaderSize]
  /\ given' = NoneGiven /\ size' = 0
  /\ IF Accepted(f) /\ Wanted(f)
       THEN /\ pc' = IF f.type = LinkStats THEN "link" ELSE "count"
            /\ list' = ListOf(f.type) /\ left' = 0
            /\ off' = HeaderSize /\ rem' = f.len - HeaderSize
            /\ rc' = "none"
       ELSE /\ rc' = IF Accepted(f) THEN "ok" ELSE "fail"
            /\ UNCHANGED <<pc, walk>>
  /\ UNCHANGED ctx

\* Mutant: _handle_data only asks for a header.
HandleAnyData(f) ==
  /\ f.len >= HeaderSize
  /\ HandleMessage(f, "_handle_data")

\* _handle_data of the programs drops what is shorter than a frame can be.
HandleData(f) ==
  /\ f.len >= MinMsgSize
  /\ HandleMessage(f, "_handle_data")

Return(status) ==
  /\ pc' = "idle"
  /\ rc' = status

\* Mutant: the count byte is read without a check.
ReadCountUnchecked ==
  /\ pc = "count"
  /\ left' = IF list = "network" THEN frame.second ELSE frame.first
  /\ span' = [from |-> off, to |-> off + 1]
  /\ off' = off + 1 /\ rem' = rem - 1
  /\ pc' = "element"
  /\ UNCHANGED <<ctx, frame, via, list, given, size, rc>>

\* A discovery needs two count bytes from the start.
CountSize == IF list = "station" THEN 2 ELSE 1

ReadCount ==
  /\ pc = "count"
  /\ IF rem < CountSize
       THEN Return("fail") /\ UNCHANGED <<walk, span>>
       ELSE /\ left' = IF list = "network" THEN frame.second ELSE frame.first
            /\ span' = [from |-> off, to |-> off + 1]
            /\ off' = off + 1 /\ rem' = rem - 1
            /\ pc' = "element"
            /\ UNCHANGED <<list, rc>>
  /\ UNCHANGED <<ctx, frame, via, given, size>>

\* remaining_size is an int, sizeof a size_t: a negative int would be huge.
Less(int, unsigned) == int >= 0 /\ int < unsigned

\* Mutant: only an empty rest is refused.
LessThanOne(int, unsigned) == int < 1

TooShort(int, unsigned) == Less(int, unsigned)

\* Mutant: the last element of a full frame is refused.
ElementOffByOne ==
  /\ pc = "element" /\ left > 0
  /\ IF TooShort(rem, Size[list] + 1)
       THEN Return("fail") /\ UNCHANGED <<walk, span, given>>
       ELSE /\ span' = [from |-> off, to |-> off + Size[list]]
            /\ given' = [given EXCEPT ![list] = @ + (IF list \in ctx THEN 1 ELSE 0)]
            /\ off' = off + Size[list] /\ rem' = rem - Size[list]
            /\ left' = left - 1
            /\ UNCHANGED <<pc, list, rc>>
  /\ UNCHANGED <<ctx, frame, via, size>>

\* Mutant: a list that is cut off ends the walk with EXIT_SUCCESS.
ElementCutOff ==
  /\ pc = "element" /\ left > 0
  /\ IF TooShort(rem, Size[list])
       THEN Return("ok") /\ UNCHANGED <<walk, span, given>>
       ELSE /\ span' = [from |-> off, to |-> off + Size[list]]
            /\ given' = [given EXCEPT ![list] = @ + (IF list \in ctx THEN 1 ELSE 0)]
            /\ off' = off + Size[list] /\ rem' = rem - Size[list]
            /\ left' = left - 1
            /\ UNCHANGED <<pc, list, rc>>
  /\ UNCHANGED <<ctx, frame, via, size>>

Element ==
  /\ pc = "element" /\ left > 0
  /\ IF TooShort(rem, Size[list])
       THEN Return("fail") /\ UNCHANGED <<walk, span, given>>
       ELSE /\ span' = [from |-> off, to |-> off + Size[list]]
            /\ given' = [given EXCEPT ![list] = @ + (IF list \in ctx THEN 1 ELSE 0)]
            /\ off' = off + Size[list] /\ rem' = rem - Size[list]
            /\ left' = left - 1
            /\ UNCHANGED <<pc, list, rc>>
  /\ UNCHANGED <<ctx, frame, via, size>>

\* Stations are followed by networks; a discovery ends with EXIT_FAILURE.
EndOfList ==
  /\ pc = "element" /\ left = 0
  /\ IF list = "station"
       THEN pc' = "count" /\ list' = "network" /\ UNCHANGED rc
       ELSE Return(IF list = "network" THEN "fail" ELSE "ok") /\ UNCHANGED list
  /\ UNCHANGED <<ctx, frame, via, left, off, rem, result>>

\* _parse_mm_type_cm_link_stats_confirm: the head, and the rest as one piece.
LinkConfirm ==
  /\ pc = "link"
  /\ IF TooShort(rem, HeadSize) \/ TooShort(rem - HeadSize, ReceiveSize)
       THEN Return("fail") /\ UNCHANGED <<off, rem, result>>
       ELSE /\ Return("ok")
            /\ span' = [from |-> off, to |-> off + rem]
            /\ given' = [given EXCEPT !["link"] = @ + 1]
            /\ size' = rem - HeadSize
            /\ off' = off + HeadSize /\ rem' = rem - HeadSize
  /\ UNCHANGED <<ctx, frame, via, list, left>>

\* The caller returns: the buffer and everything about the frame is gone.
Forget ==
  /\ pc = "idle" /\ via # "none"
  /\ frame' = NoFrame /\ via' = "none"
  /\ list' = "station" /\ left' = 0 /\ off' = 0 /\ rem' = 0
  /\ span' = NoSpan /\ given' = NoneGiven /\ size' = 0
  /\ rc' = "none"
  /\ UNCHANGED <<ctx, pc>>

-----------------------------------------------------------------------------
(* ieee1901_2010_message_send *)

\* -EINVAL, and nothing is written.
TooLong(len) == len > 1500 - HeaderSize

\* Mutant: a frame with a payload is not padded.
UnpaddedLength(len) == IF len = 0 THEN MinMsgSize ELSE HeaderSize + len

\* Without a payload a frame of the minimum size is written, otherwise header,
\* payload and the padding they need.
FrameLength(len) ==
  IF len = 0 \/ HeaderSize + len < MinMsgSize THEN MinMsgSize ELSE HeaderSize + len

\* What the programs send carries no counts: requests, or frames without payload.
Written(r) ==
  [len |-> FrameLength(r.len), ours |-> TRUE, type |-> r.type + r.oper,
   nf |-> 0, first |-> 0, second |-> 0]

\* The frame arrives at a peer that runs this code.
Send(r) ==
  /\ ~TooLong(r.len)
  /\ HandleMessage(Written(r), "peer")

-----------------------------------------------------------------------------

Next ==
  \/ \E c \in Callbacks : Register(c)
  \/ \E f \in Frames : HandleData(f) \/ HandleMessage(f, "direct")
  \/ \E r \in Requests : Send(r)
  \/ ReadCount
  \/ Element
  \/ EndOfList
  \/ LinkConfirm
  \/ Forget

Spec == Init /\ [][Next]_vars

-----------------------------------------------------------------------------
(* Properties *)

\* No byte behind the end of the frame is read or given to a callback, for
\* any length and any count bytes (remaining_size in the four parsers).
InBounds == span.from <= span.to /\ span.to <= frame.len

\* As many elements of n as fit completely into the given room.
Fitting(n, room, s) == IF n * s <= room THEN n ELSE room \div s

Room == frame.len - HeaderSize
RestAfterStations == Room - 1 - frame.first * Size["station"]

\* How often each callback should be called for the frame, from its length and
\* its counts alone.
Expected(c) ==
  IF c \notin ctx \/ ~Accepted(frame) THEN 0
  ELSE CASE c = "station" /\ frame.type = DiscoverList /\ Room >= 2 ->
              Fitting(frame.first, Room - 1, Size["station"])
         [] c = "network" /\ frame.type = DiscoverList /\ RestAfterStations >= 1 ->
              Fitting(frame.second, RestAfterStations - 1, Size["network"])
         [] c = "nwinfo" /\ frame.type = NwInfo /\ Room >= 1 ->
              Fitting(frame.first, Room - 1, Size["nwinfo"])
         [] c = "stats" /\ frame.type = NwStats /\ Room >= 1 ->
              Fitting(frame.first, Room - 1, Size["stats"])
         [] c = "link" /\ frame.type = LinkStats /\ Room >= HeadSize + ReceiveSize -> 1
         [] OTHER -> 0

\* Every complete element reaches the callback registered for its message,
\* once, and no other callback is called: also for frames that are cut off in
\* the middle of a list, or in the second of two lists.
GivenAsCounted ==
  pc = "idle" /\ via # "none" => \A c \in Callbacks : given[c] = Expected(c)

\* The status of the parsers with one list: EXIT_SUCCESS exactly when nothing
\* of what the frame announces was missing.
StatusTellsCompleteness ==
  pc = "idle" /\ rc # "none" /\ Accepted(frame) =>
    /\ frame.type = NwInfo /\ "nwinfo" \in ctx =>
         (rc = "ok" <=> Room >= 1 /\ given["nwinfo"] = frame.first)
    /\ frame.type = NwStats /\ "stats" \in ctx =>
         (rc = "ok" <=> Room >= 1 /\ given["stats"] = frame.first)

\* A link statistics confirm that comes through _handle_data is always long
\* enough for either kind of statistics, whichever the program takes it for:
\* the smallest frame has just room for the larger one.
EitherKindFits ==
  via = "_handle_data" /\ given["link"] > 0 => size >= TransmitSize /\ size >= ReceiveSize

\* What message_send writes, a peer running this code reads: the frame has the
\* minimum size that _handle_data asks for, and no standard message type is
\* mistaken for a vendor's although that check swaps the bytes of mmtype.
SentIsAccepted ==
  via = "peer" => Accepted(frame) /\ frame.len >= MinMsgSize /\ frame.len <= 1500

\* "no support for manufacturer or vendor specific messages": they are refused.
VendorRefused ==
  pc = "idle" /\ via # "none" /\ frame.type >= 32768 => rc = "fail"

=============================================================================
