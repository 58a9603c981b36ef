------------------------- MODULE MgmtMessageProofs --------------------------
(***************************************************************************)
(* Proofs about src/src/ieee1901-2010.c, for every set of frames (of any   *)
(* length and with any count bytes) and every request.                     *)
(***************************************************************************)
EXTENDS MgmtMessage, TLAPS

USE DEF HeaderSize, MinMsgSize, HeadSize, ReceiveSize, TransmitSize

\* While a frame is walked, the pointer and remaining_size meet at its end.
WalkInv == pc # "idle" => off >= HeaderSize /\ off + rem = frame.len

\* Nothing is walked without a caller, the program's guard on the length of the
\* frame is remembered by the frame, and the link statistics callback is called
\* at the end of its walk.
LinkInv ==
  /\ via = "none" => pc = "idle"
  /\ via = "_handle_data" => frame.len >= MinMsgSize
  /\ pc = "link" => off = HeaderSize
  /\ pc # "idle" => given["link"] = 0

\* What the properties need, without the types.
Safe == WalkInv /\ LinkInv /\ InBounds /\ EitherKindFits /\ SentIsAccepted

\* The inductive invariant of the parser.
MInv == TypeOK /\ Safe

-----------------------------------------------------------------------------
(* Facts about the constants *)

\* No element is empty, so that a walk makes progress.
LEMMA SizeIsPositive == \A l \in Lists : Size[l] \in Nat /\ Size[l] > 0
BY DEF Lists, Size

LEMMA ListIsCallback == Lists \subseteq Callbacks /\ "link" \in Callbacks /\ "link" \notin Lists
BY DEF Lists, Callbacks

LEMMA ListOfType == \A type \in Int : ListOf(type) \in Lists
BY DEF ListOf, Lists

LEMMA FrameFields ==
  ASSUME NEW f \in FrameRecords
  PROVE  f.len \in Nat /\ f.type \in Int /\ f.first \in 0..255 /\ f.second \in 0..255
<1>1. f.len \in Nat
  BY DEF FrameRecords
<1>2. f.type \in Int
  BY DEF FrameRecords, Word
<1>3. f.first \in 0..255
  BY DEF FrameRecords
<1>4. f.second \in 0..255
  BY DEF FrameRecords
<1> QED
  BY <1>1, <1>2, <1>3, <1>4

LEMMA NoFrameIsFrame == NoFrame \in FrameRecords
BY DEF FrameRecords, NoFrame, Word

LEMMA NoneGivenType == NoneGiven \in [Callbacks -> Nat] /\ NoneGiven["link"] = 0
BY ListIsCallback DEF NoneGiven

\* A small low byte and a small high byte, swapped, stay below the limit.
LEMMA SwappedBelow ==
  ASSUME NEW n \in Word, n % 256 <= 119, n \div 256 <= 96
  PROVE  Ntohs(n) <= 32764
BY DEF Ntohs, Word

\* The bytes of a standard message type, swapped, stay below the limit.
LEMMA StandardTypePasses ==
  ASSUME NEW t \in StandardTypes, NEW o \in Operations
  PROVE  t + o \in Word /\ Ntohs(t + o) <= 32764
<1>1. PICK k \in 0..29 \cup 2048..2050 \cup 4096..4100 \cup 6144..6167 : t = 4 * k
  BY DEF StandardTypes
<1>2. o \in 0..3
  BY DEF Operations
<1>3. /\ t + o \in Word
      /\ (t + o) % 256 <= 119
      /\ (t + o) \div 256 <= 96
  <2>1. CASE k \in 0..29
    BY <1>1, <1>2, <2>1 DEF Word
  <2>2. CASE k \in 2048..2050
    BY <1>1, <1>2, <2>2 DEF Word
  <2>3. CASE k \in 4096..4100
    BY <1>1, <1>2, <2>3 DEF Word
  <2>4. CASE k \in 6144..6167
    BY <1>1, <1>2, <2>4 DEF Word
  <2> QED
    BY <1>1, <2>1, <2>2, <2>3, <2>4
<1>4. Ntohs(t + o) <= 32764
  BY <1>3, SwappedBelow
<1> QED
  BY <1>3, <1>4

\* A frame that message_send writes is a frame, and is accepted.
LEMMA WrittenIsAccepted ==
  ASSUME NEW r \in RequestRecords, ~TooLong(r.len)
  PROVE  /\ Written(r) \in FrameRecords
         /\ Accepted(Written(r))
         /\ Written(r).len >= MinMsgSize /\ Written(r).len <= 1500
<1>1. r.type \in StandardTypes /\ r.oper \in Operations /\ r.len \in Nat
  BY DEF RequestRecords
<1>2. /\ FrameLength(r.len) \in Nat
      /\ FrameLength(r.len) >= MinMsgSize /\ FrameLength(r.len) <= 1500
  BY <1>1 DEF FrameLength, TooLong
<1>3. r.type + r.oper \in Word /\ Ntohs(r.type + r.oper) <= 32764
  <2>1. \A t \in StandardTypes, o \in Operations :
          t + o \in Word /\ Ntohs(t + o) <= 32764
    BY StandardTypePasses
  <2> QED
    BY <1>1, <2>1
<1>4. Written(r) \in FrameRecords
  <2>1. FrameLength(r.len) \in Nat
    BY <1>2
  <2> QED
    BY <1>3, <2>1 DEF Written, FrameRecords
<1>5. Written(r).len = FrameLength(r.len)
  BY DEF Written
<1>6. Accepted(Written(r))
  <2>1. FrameLength(r.len) >= HeaderSize
    BY <1>2
  <2> QED
    BY <1>3, <2>1 DEF Accepted, Written
<1> QED
  BY <1>2, <1>4, <1>5, <1>6

-----------------------------------------------------------------------------
(* The invariant holds initially and is preserved by every action *)

LEMMA InitMInv == Init => MInv
<1> SUFFICES ASSUME Init PROVE MInv
  OBVIOUS
<1> USE DEF Init
<1>1. TypeOK
  BY NoFrameIsFrame, NoneGivenType DEF TypeOK, NoSpan, Lists
<1>2. Safe
  BY NoneGivenType DEF Safe, WalkInv, LinkInv, InBounds, EitherKindFits, SentIsAccepted,
    NoFrame, NoSpan
<1> QED
  BY <1>1, <1>2 DEF MInv

LEMMA HandleMInv ==
  ASSUME MInv, NEW f \in FrameRecords, NEW caller \in {"_handle_data", "direct", "peer"},
         HandleMessage(f, caller),
         caller = "_handle_data" => f.len >= MinMsgSize,
         caller = "peer" => Accepted(f) /\ f.len >= MinMsgSize /\ f.len <= 1500
  PROVE  MInv'
<1> USE DEF HandleMessage
<1>1. f.len \in Nat /\ f.type \in Int
  BY FrameFields
<1>2. Accepted(f) => f.len - HeaderSize \in Nat
  BY <1>1 DEF Accepted
<1>3. pc = "idle" /\ TypeOK
  BY DEF MInv, Safe, LinkInv
<1>4. span'.from = 0 /\ span'.to \in 0..f.len /\ span' \in [from : Nat, to : Nat]
  BY <1>1
<1>5. given'["link"] = 0 /\ given' \in [Callbacks -> Nat]
  BY NoneGivenType
<1>6. SentIsAccepted' /\ EitherKindFits' /\ InBounds'
  BY <1>1, <1>4, <1>5 DEF SentIsAccepted, EitherKindFits, InBounds, Accepted
<1>7. CASE Accepted(f) /\ Wanted(f)
  <2>1. TypeOK'
    BY <1>1, <1>2, <1>3, <1>4, <1>5, <1>7, ListOfType DEF TypeOK
  <2>2. WalkInv' /\ LinkInv'
    BY <1>1, <1>2, <1>5, <1>7 DEF WalkInv, LinkInv
  <2> QED
    BY <1>6, <2>1, <2>2 DEF MInv, Safe
<1>8. CASE ~(Accepted(f) /\ Wanted(f))
  <2>1. TypeOK'
    BY <1>3, <1>4, <1>5, <1>8 DEF TypeOK, walk
  <2>2. WalkInv' /\ LinkInv'
    BY <1>3, <1>8 DEF WalkInv, LinkInv, walk
  <2> QED
    BY <1>6, <2>1, <2>2 DEF MInv, Safe
<1> QED
  BY <1>7, <1>8

\* A step of a walk changes nothing but its own variables, and may call back.
LEMMA WalkStep ==
  ASSUME MInv, UNCHANGED <<frame, via>>, via # "none", WalkInv', InBounds',
         pc' # "idle" => given'["link"] = 0,
         pc' = "link" => off' = HeaderSize,
         \/ /\ given'["link"] = given["link"]
            /\ size' = size
         \/ EitherKindFits'
  PROVE  Safe'
<1>1. LinkInv' /\ SentIsAccepted'
  BY DEF MInv, Safe, LinkInv, SentIsAccepted, Accepted
<1>2. EitherKindFits'
  BY DEF MInv, Safe, EitherKindFits
<1> QED
  BY <1>1, <1>2 DEF Safe

LEMMA ReadCountMInv == ASSUME MInv, ReadCount PROVE MInv'
<1> USE DEF ReadCount, Return
<1>1. frame.len \in Nat /\ frame.first \in 0..255 /\ frame.second \in 0..255
  BY FrameFields DEF MInv, TypeOK
<1>2. CountSize \in {1, 2}
  BY DEF CountSize
<1>3. TypeOK /\ WalkInv /\ InBounds /\ via # "none" /\ given["link"] = 0
  BY DEF MInv, Safe, LinkInv
<1>4. CASE rem < CountSize
  <2>1. TypeOK'
    BY <1>3, <1>4 DEF TypeOK, walk
  <2>2. WalkInv' /\ InBounds'
    BY <1>3, <1>4 DEF WalkInv, InBounds, walk
  <2> QED
    BY <1>3, <1>4, <2>1, <2>2, WalkStep DEF MInv
<1>5. CASE ~(rem < CountSize)
  <2>1. rem \in Nat /\ rem >= 1 /\ off \in Nat
    BY <1>2, <1>3, <1>5 DEF TypeOK
  <2>2. TypeOK'
    BY <1>1, <1>3, <1>5, <2>1 DEF TypeOK
  <2>3. WalkInv' /\ InBounds'
    BY <1>1, <1>3, <1>5, <2>1 DEF WalkInv, InBounds
  <2> QED
    BY <1>3, <1>5, <2>2, <2>3, WalkStep DEF MInv
<1> QED
  BY <1>4, <1>5

LEMMA ElementMInv == ASSUME MInv, Element PROVE MInv'
<1> USE DEF Element, Return
<1>1. list \in Lists /\ Size[list] \in Nat /\ Size[list] > 0
  BY SizeIsPositive DEF MInv, TypeOK
<1>2. TypeOK /\ WalkInv /\ InBounds /\ via # "none" /\ given["link"] = 0
  BY DEF MInv, Safe, LinkInv
<1>3. CASE TooShort(rem, Size[list])
  <2>1. TypeOK'
    BY <1>2, <1>3 DEF TypeOK, walk
  <2>2. WalkInv' /\ InBounds'
    BY <1>2, <1>3 DEF WalkInv, InBounds, walk
  <2> QED
    BY <1>2, <1>3, <2>1, <2>2, WalkStep DEF MInv
<1>4. CASE ~TooShort(rem, Size[list])
  <2>1. frame.len \in Nat /\ off \in Nat /\ rem \in Nat /\ left \in 0..255
    BY <1>2, FrameFields DEF TypeOK
  <2>2. rem >= Size[list]
    BY <1>1, <1>4, <2>1 DEF TooShort, Less
  <2>3. given' \in [Callbacks -> Nat] /\ given'["link"] = given["link"]
    BY <1>1, <1>2, <1>4, ListIsCallback DEF TypeOK
  <2>4. TypeOK'
    BY <1>1, <1>2, <1>4, <2>1, <2>2, <2>3 DEF TypeOK
  <2>5. WalkInv' /\ InBounds'
    BY <1>1, <1>2, <1>4, <2>1, <2>2 DEF WalkInv, InBounds
  <2> QED
    BY <1>2, <1>4, <2>3, <2>4, <2>5, WalkStep DEF MInv
<1> QED
  BY <1>3, <1>4

LEMMA EndOfListMInv == ASSUME MInv, EndOfList PROVE MInv'
<1> USE DEF EndOfList, Return
<1>1. TypeOK /\ WalkInv /\ InBounds /\ via # "none" /\ given["link"] = 0
  BY DEF MInv, Safe, LinkInv
<1>2. TypeOK'
  BY <1>1 DEF TypeOK, result, Lists
<1>3. WalkInv' /\ InBounds'
  BY <1>1 DEF WalkInv, InBounds, result
<1> QED
  BY <1>1, <1>2, <1>3, WalkStep DEF MInv, result

LEMMA LinkConfirmMInv == ASSUME MInv, LinkConfirm PROVE MInv'
<1> USE DEF LinkConfirm, Return
<1>1. TypeOK /\ WalkInv /\ InBounds /\ via # "none" /\ given["link"] = 0
  BY DEF MInv, Safe, LinkInv
<1>2. frame.len \in Nat /\ rem \in Nat /\ off = HeaderSize /\ off + rem = frame.len
  BY FrameFields DEF MInv, Safe, TypeOK, WalkInv, LinkInv
<1>3. CASE TooShort(rem, HeadSize) \/ TooShort(rem - HeadSize, ReceiveSize)
  <2>1. TypeOK'
    BY <1>1, <1>3 DEF TypeOK, result
  <2>2. WalkInv' /\ InBounds'
    BY <1>1, <1>3 DEF WalkInv, InBounds, result
  <2> QED
    BY <1>1, <1>3, <2>1, <2>2, WalkStep DEF MInv, result
<1>4. CASE ~(TooShort(rem, HeadSize) \/ TooShort(rem - HeadSize, ReceiveSize))
  <2>1. rem >= HeadSize + ReceiveSize
    BY <1>2, <1>4 DEF TooShort, Less
  <2>2. given' \in [Callbacks -> Nat]
    BY <1>1, <1>4, ListIsCallback DEF TypeOK
  <2>3. TypeOK'
    BY <1>1, <1>2, <1>4, <2>1, <2>2 DEF TypeOK
  <2>4. WalkInv' /\ InBounds'
    BY <1>2, <1>4, <2>1 DEF WalkInv, InBounds
  <2>5. EitherKindFits'
    <3>1. via = "_handle_data" => frame.len >= MinMsgSize
      BY DEF MInv, Safe, LinkInv
    <3> QED
      BY <1>2, <1>4, <3>1 DEF EitherKindFits
  <2> QED
    BY <1>1, <1>4, <2>3, <2>4, <2>5, WalkStep DEF MInv
<1> QED
  BY <1>3, <1>4

LEMMA ForgetMInv == ASSUME MInv, Forget PROVE MInv'
<1> USE DEF Forget
<1>1. TypeOK'
  BY NoFrameIsFrame, NoneGivenType DEF MInv, TypeOK, NoSpan, Lists
<1>2. Safe'
  BY NoneGivenType DEF Safe, WalkInv, LinkInv, InBounds, EitherKindFits, SentIsAccepted,
    NoFrame, NoSpan
<1> QED
  BY <1>1, <1>2 DEF MInv

LEMMA RegisterMInv ==
  ASSUME MInv, NEW c \in Callbacks, Register(c)
  PROVE  MInv'
<1> USE DEF Register, walk, result
<1>1. TypeOK'
  BY DEF MInv, TypeOK
<1>2. Safe'
  BY DEF MInv, Safe, WalkInv, LinkInv, InBounds, EitherKindFits, SentIsAccepted, Accepted
<1> QED
  BY <1>1, <1>2 DEF MInv

LEMMA NextMInv == ASSUME MInv, [Next]_vars PROVE MInv'
<1>1. ASSUME NEW f \in Frames, HandleData(f) \/ HandleMessage(f, "direct") PROVE MInv'
  BY <1>1, HandleMInv, FramesAssumption DEF HandleData
<1>2. ASSUME NEW r \in Requests, Send(r) PROVE MInv'
  <2>1. r \in RequestRecords
    BY RequestsAssumption
  <2> QED
    BY <1>2, <2>1, HandleMInv, WrittenIsAccepted DEF Send
<1>3. CASE UNCHANGED vars
  <2> USE <1>3 DEF vars, walk, result
  <2>1. TypeOK'
    BY DEF MInv, TypeOK
  <2>2. Safe'
    BY DEF MInv, Safe, WalkInv, LinkInv, InBounds, EitherKindFits, SentIsAccepted, Accepted
  <2> QED
    BY <2>1, <2>2 DEF MInv
<1> QED
  BY <1>1, <1>2, <1>3, RegisterMInv, ReadCountMInv, ElementMInv, EndOfListMInv,
    LinkConfirmMInv, ForgetMInv DEF Next

LEMMA MInvHolds == Spec => []MInv
BY InitMInv, NextMInv, PTL DEF Spec

-----------------------------------------------------------------------------
(***************************************************************************)
(* How often the callbacks are called.  Expected computes that from the    *)
(* frame alone; the walk only knows what is left.  CountInv relates the    *)
(* two: the room of the list being walked is the rest of the frame and the *)
(* elements that were given already.                                       *)
(***************************************************************************)

CountOf(l) == IF l = "network" THEN frame.second ELSE frame.first
RoomOf(l) == IF l = "network" THEN RestAfterStations ELSE Room

\* The elements of the list that was walked so far.
Seen == IF pc = "element" THEN CountOf(list) - left ELSE 0

\* How often the callback c was called in the middle of a walk.
Reached(c) ==
  IF c \notin ctx THEN 0
  ELSE IF c = list THEN Seen
  ELSE IF c = "station" /\ list = "network" THEN frame.first
  ELSE 0

\* A list is walked for the type of its message; what remains of its room is
\* what the count byte and the elements seen have left.
ListInv ==
  pc \in {"count", "element"} =>
    /\ \/ frame.type = DiscoverList /\ list \in {"station", "network"}
       \/ frame.type = NwInfo /\ list = "nwinfo"
       \/ frame.type = NwStats /\ list = "stats"
    /\ list = "network" => Room >= 2
    /\ pc = "element" => Seen >= 0 /\ RoomOf(list) >= CountSize
    /\ rem = RoomOf(list) - (IF pc = "element" THEN 1 + Seen * Size[list] ELSE 0)
    /\ given = [c \in Callbacks |-> Reached(c)]

LinkWalkInv ==
  pc = "link" => frame.type = LinkStats /\ "link" \in ctx /\ rem = Room /\ given = NoneGiven

\* Only an accepted frame that somebody wants is walked; between two frames no
\* status is kept.
StatusInv ==
  /\ pc # "idle" => Accepted(frame) /\ Wanted(frame) /\ via # "none"
  /\ via = "none" => rc = "none"

CountInv ==
  /\ ListInv /\ LinkWalkInv /\ StatusInv
  /\ GivenAsCounted /\ StatusTellsCompleteness

-----------------------------------------------------------------------------
(* Lemmas about Fitting and Expected *)

\* A list that ends in the middle of an element: those before it fit.
LEMMA FittingCut ==
  ASSUME NEW n \in Nat, NEW k \in Nat, NEW room \in Nat, NEW s \in {8, 12, 13, 18},
         k < n, k * s <= room, room < k * s + s
  PROVE  Fitting(n, room, s) = k
<1>1. CASE s = 8
  BY <1>1 DEF Fitting
<1>2. CASE s = 12
  BY <1>2 DEF Fitting
<1>3. CASE s = 13
  BY <1>3 DEF Fitting
<1>4. CASE s = 18
  BY <1>4 DEF Fitting
<1> QED
  BY <1>1, <1>2, <1>3, <1>4

LEMMA FittingAll ==
  ASSUME NEW n \in Nat, NEW room \in Nat, NEW s \in Nat, n * s <= room
  PROVE  Fitting(n, room, s) = n
BY DEF Fitting

LEMMA SizeOf ==
  /\ Size["station"] = 12 /\ Size["network"] = 13
  /\ Size["nwinfo"] = 18 /\ Size["stats"] = 8
BY DEF Size, Lists

LEMMA Types == DiscoverList = 21 /\ NwInfo = 24633 /\ NwStats = 24649 /\ LinkStats = 24653
BY DEF DiscoverList, NwInfo, NwStats, LinkStats, Confirm

\* What the walk of a list knows about its frame.
LEMMA WalkFacts ==
  ASSUME MInv, CountInv, pc \in {"count", "element"}
  PROVE  /\ frame.first \in Nat /\ frame.second \in Nat /\ rem \in Nat /\ Room \in Nat
         /\ left \in 0..255 /\ Accepted(frame) /\ via # "none"
         /\ pc = "element" => Seen = CountOf(list) - left /\ Seen \in Nat
<1>1. frame.len \in Nat /\ frame.first \in 0..255 /\ frame.second \in 0..255
  BY FrameFields DEF MInv, TypeOK
<1>2. Accepted(frame) /\ via # "none"
  BY DEF CountInv, StatusInv
<1>3. Room \in Nat
  BY <1>1, <1>2 DEF Room, Accepted
<1>4. rem \in Nat /\ left \in 0..255
  BY DEF MInv, TypeOK
<1>5. pc = "element" => Seen = CountOf(list) - left /\ Seen \in Nat
  BY <1>1, <1>4 DEF CountInv, ListInv, Seen, CountOf
<1> QED
  BY <1>1, <1>2, <1>3, <1>4, <1>5

\* The three ways in which the walk of a list ends.
Stops ==
  \/ pc = "count" /\ rem < CountSize
  \/ pc = "element" /\ left > 0 /\ rem < Size[list]
  \/ pc = "element" /\ left = 0 /\ list # "station"

\* Wherever a walk ends, the callbacks were called as often as the frame says.
LEMMA StopCounts ==
  ASSUME MInv, CountInv, Stops
  PROVE  \A c \in Callbacks : given[c] = Expected(c)
<1>0. pc \in {"count", "element"}
  BY DEF Stops
<1>1. /\ frame.first \in Nat /\ frame.second \in Nat /\ rem \in Nat /\ Room \in Nat
      /\ left \in 0..255 /\ Accepted(frame)
      /\ pc = "element" => Seen = CountOf(list) - left /\ Seen \in Nat
  BY <1>0, WalkFacts
<1>2. ListInv
  BY DEF CountInv
<1>3. ASSUME NEW c \in Callbacks, c \in ctx PROVE Reached(c) = Expected(c)
  <2>1. CASE list = "nwinfo"
    <3>1. frame.type = NwInfo /\ CountSize = 1 /\ RoomOf(list) = Room /\ CountOf(list) = frame.first
      BY <1>0, <1>2, <2>1 DEF ListInv, CountSize, RoomOf, CountOf
    <3>2. Reached(c) = IF c = "nwinfo" THEN Seen ELSE 0
      BY <1>3, <2>1 DEF Reached
    <3>3. Expected(c) = IF c = "nwinfo" /\ Room >= 1 THEN Fitting(frame.first, Room - 1, 18) ELSE 0
      BY <1>1, <1>3, <3>1, Types, SizeOf DEF Expected
    <3>4. pc = "count" => Seen = 0 /\ Room = 0
      BY <1>0, <1>1, <1>2, <2>1, <3>1 DEF ListInv, Stops, Seen
    <3>5. pc = "element" => Room >= 1 /\ rem = Room - 1 - Seen * 18
      BY <1>0, <1>1, <1>2, <2>1, <3>1, SizeOf DEF ListInv
    <3>6. pc = "element" => Fitting(frame.first, Room - 1, 18) = Seen
      BY <1>0, <1>1, <2>1, <3>1, <3>5, FittingCut, FittingAll, SizeOf DEF Stops
    <3> QED
      BY <1>0, <3>2, <3>3, <3>4, <3>5, <3>6
  <2>2. CASE list = "stats"
    <3>1. frame.type = NwStats /\ CountSize = 1 /\ RoomOf(list) = Room /\ CountOf(list) = frame.first
      BY <1>0, <1>2, <2>2 DEF ListInv, CountSize, RoomOf, CountOf
    <3>2. Reached(c) = IF c = "stats" THEN Seen ELSE 0
      BY <1>3, <2>2 DEF Reached
    <3>3. Expected(c) = IF c = "stats" /\ Room >= 1 THEN Fitting(frame.first, Room - 1, 8) ELSE 0
      BY <1>1, <1>3, <3>1, Types, SizeOf DEF Expected
    <3>4. pc = "count" => Seen = 0 /\ Room = 0
      BY <1>0, <1>1, <1>2, <2>2, <3>1 DEF ListInv, Stops, Seen
    <3>5. pc = "element" => Room >= 1 /\ rem = Room - 1 - Seen * 8
      BY <1>0, <1>1, <1>2, <2>2, <3>1, SizeOf DEF ListInv
    <3>6. pc = "element" => Fitting(frame.first, Room - 1, 8) = Seen
      BY <1>0, <1>1, <2>2, <3>1, <3>5, FittingCut, FittingAll, SizeOf DEF Stops
    <3> QED
      BY <1>0, <3>2, <3>3, <3>4, <3>5, <3>6
  <2>3. CASE list = "station"
    <3>1. frame.type = DiscoverList /\ CountSize = 2 /\ RoomOf(list) = Room /\ CountOf(list) = frame.first
      BY <1>0, <1>2, <2>3, Types DEF ListInv, CountSize, RoomOf, CountOf
    <3>2. Reached(c) = IF c = "station" THEN Seen ELSE 0
      BY <1>3, <2>3 DEF Reached
    <3>3. Expected(c) =
            IF c = "station" /\ Room >= 2 THEN Fitting(frame.first, Room - 1, 12)
            ELSE IF c = "network" /\ Room - 1 - frame.first * 12 >= 1
              THEN Fitting(frame.second, Room - 1 - frame.first * 12 - 1, 13) ELSE 0
      BY <1>1, <1>3, <3>1, Types, SizeOf DEF Expected, RestAfterStations
    <3>4. pc = "count" => Seen = 0 /\ Room < 2
      BY <1>0, <1>1, <1>2, <2>3, <3>1 DEF ListInv, Stops, Seen
    <3>5. pc = "element" => /\ Room >= 2 /\ rem = Room - 1 - Seen * 12
                            /\ Seen < frame.first /\ rem < 12
      BY <1>0, <1>1, <1>2, <2>3, <3>1, SizeOf DEF ListInv, Stops
    <3>6. pc = "element" => /\ Fitting(frame.first, Room - 1, 12) = Seen
                            /\ Room - 1 - frame.first * 12 < 1
      BY <1>1, <3>5, FittingCut
    <3> QED
      BY <1>0, <1>1, <3>2, <3>3, <3>4, <3>5, <3>6
  <2>4. CASE list = "network"
    <3>1. /\ frame.type = DiscoverList /\ CountSize = 1 /\ Room >= 2 /\ CountOf(list) = frame.second
          /\ RoomOf(list) = Room - 1 - frame.first * 12
      BY <1>0, <1>2, <2>4, Types, SizeOf DEF ListInv, CountSize, RoomOf, CountOf, RestAfterStations
    <3>2. Reached(c) = IF c = "network" THEN Seen ELSE IF c = "station" THEN frame.first ELSE 0
      BY <1>3, <2>4 DEF Reached
    <3>3. Expected(c) =
            IF c = "station" THEN Fitting(frame.first, Room - 1, 12)
            ELSE IF c = "network" /\ Room - 1 - frame.first * 12 >= 1
              THEN Fitting(frame.second, Room - 1 - frame.first * 12 - 1, 13) ELSE 0
      BY <1>1, <1>3, <3>1, Types, SizeOf DEF Expected, RestAfterStations
    <3>4. pc = "count" => Seen = 0 /\ Room - 1 - frame.first * 12 = 0
      BY <1>0, <1>1, <1>2, <2>4, <3>1 DEF ListInv, Stops, Seen
    <3>5. pc = "element" => /\ Room - 1 - frame.first * 12 >= 1
                            /\ rem = Room - 1 - frame.first * 12 - 1 - Seen * 13
                            /\ Seen = frame.second - left
                            /\ left = 0 \/ (left > 0 /\ rem < 13)
      BY <1>0, <1>1, <1>2, <2>4, <3>1, SizeOf DEF ListInv, Stops
    <3>6. pc = "element" => Fitting(frame.second, Room - 1 - frame.first * 12 - 1, 13) = Seen
      <4> DEFINE R == Room - 1 - frame.first * 12 - 1
      <4>1. pc = "element" => R \in Nat /\ rem = R - Seen * 13
        BY <1>1, <3>5
      <4> HIDE DEF R
      <4>2. pc = "element" => Fitting(frame.second, R, 13) = Seen
        BY <1>1, <3>5, <4>1, FittingCut, FittingAll
      <4> QED
        BY <4>2 DEF R
    <3>7. Fitting(frame.first, Room - 1, 12) = frame.first
      BY <1>0, <1>1, <3>4, <3>5, FittingAll
    <3> QED
      BY <1>0, <3>2, <3>3, <3>4, <3>5, <3>6, <3>7
  <2> QED
    BY <1>0, <1>2, <2>1, <2>2, <2>3, <2>4 DEF ListInv
<1>4. ASSUME NEW c \in Callbacks, c \notin ctx PROVE Reached(c) = Expected(c)
  BY <1>4 DEF Reached, Expected
<1>5. given = [c \in Callbacks |-> Reached(c)]
  BY <1>0, <1>2 DEF ListInv
<1> QED
  BY <1>3, <1>4, <1>5

\* The status tells whether the one list of the message was complete.
LEMMA StopTells ==
  ASSUME MInv, CountInv, Stops, NEW status \in {"ok", "fail"},
         status = "ok" <=> pc = "element" /\ left = 0 /\ list # "network"
  PROVE  /\ frame.type = NwInfo /\ "nwinfo" \in ctx =>
              (status = "ok" <=> Room >= 1 /\ given["nwinfo"] = frame.first)
         /\ frame.type = NwStats /\ "stats" \in ctx =>
              (status = "ok" <=> Room >= 1 /\ given["stats"] = frame.first)
<1>0. pc \in {"count", "element"}
  BY DEF Stops
<1>1. /\ frame.first \in Nat /\ rem \in Nat /\ Room \in Nat /\ left \in 0..255
      /\ pc = "element" => Seen = CountOf(list) - left
  BY <1>0, WalkFacts
<1>2. ASSUME list \in {"nwinfo", "stats"}, list \in ctx
      PROVE  status = "ok" <=> Room >= 1 /\ given[list] = frame.first
  <2>1. CountSize = 1 /\ RoomOf(list) = Room /\ CountOf(list) = frame.first
    BY <1>2 DEF CountSize, RoomOf, CountOf
  <2>2. given[list] = Seen
    BY <1>0, <1>2, ListIsCallback DEF CountInv, ListInv, Reached, Lists
  <2>3. CASE pc = "count"
    BY <1>1, <2>1, <2>3 DEF CountInv, ListInv, Stops
  <2>4. CASE pc = "element"
    BY <1>1, <1>2, <2>1, <2>2, <2>4 DEF CountInv, ListInv, Stops
  <2> QED
    BY <1>0, <2>3, <2>4
<1>3. /\ frame.type = NwInfo => list = "nwinfo"
      /\ frame.type = NwStats => list = "stats"
  BY <1>0, Types DEF CountInv, ListInv
<1> QED
  BY <1>2, <1>3

\* A step that only returns, where a walk ends, keeps the counts.
LEMMA StopStep ==
  ASSUME MInv, CountInv, Stops, UNCHANGED <<ctx, frame, via, given>>,
         NEW status \in {"ok", "fail"}, Return(status),
         status = "ok" <=> pc = "element" /\ left = 0 /\ list # "network"
  PROVE  CountInv'
<1>1. pc' = "idle" /\ rc' = status
  BY DEF Return
<1>2. ListInv' /\ LinkWalkInv'
  BY <1>1 DEF ListInv, LinkWalkInv
<1>3. StatusInv'
  <2>1. via # "none"
    BY WalkFacts DEF Stops
  <2> QED
    BY <1>1, <2>1 DEF StatusInv
<1>4. GivenAsCounted'
  <2>1. \A c \in Callbacks : given[c] = Expected(c)
    BY StopCounts
  <2>2. \A c \in Callbacks : Expected(c)' = Expected(c)
    BY DEF Expected, RestAfterStations, Room
  <2> QED
    BY <2>1, <2>2 DEF GivenAsCounted
<1>5. StatusTellsCompleteness'
  <2>1. Room' = Room
    BY DEF Room
  <2> QED
    BY <1>1, <2>1, StopTells DEF StatusTellsCompleteness
<1> QED
  BY <1>2, <1>3, <1>4, <1>5 DEF CountInv

LEMMA HandleCounts ==
  ASSUME CountInv, NEW f \in FrameRecords, NEW caller, caller # "none", HandleMessage(f, caller),
         MInv
  PROVE  CountInv'
<1>0. pc = "idle"
  BY DEF HandleMessage, MInv, Safe, LinkInv
<1>1. CASE Accepted(f) /\ Wanted(f)
  <2>1. /\ frame' = f /\ via' = caller /\ ctx' = ctx /\ given' = NoneGiven /\ rc' = "none"
        /\ pc' = IF f.type = LinkStats THEN "link" ELSE "count"
        /\ list' = ListOf(f.type) /\ rem' = f.len - HeaderSize
    BY <1>1 DEF HandleMessage
  <2>2. StatusInv'
    BY <1>1, <2>1 DEF StatusInv, Accepted, Wanted
  <2>3. ListInv'
    <3>1. pc' = "count" => \/ f.type = DiscoverList /\ list' = "station"
                           \/ f.type = NwInfo /\ list' = "nwinfo"
                           \/ f.type = NwStats /\ list' = "stats"
      BY <1>1, <2>1, Types DEF Wanted, ListOf
    <3>2. pc' = "count" => given' = [c \in Callbacks |-> Reached(c)']
      BY <2>1, <3>1 DEF NoneGiven, Reached, Seen
    <3>3. pc' = "count" => rem' = RoomOf(list)'
      BY <2>1, <3>1 DEF RoomOf, Room
    <3> QED
      BY <2>1, <3>1, <3>2, <3>3, FrameFields DEF ListInv
  <2>4. LinkWalkInv'
    BY <1>1, <2>1, Types DEF LinkWalkInv, Wanted, Room
  <2>5. GivenAsCounted' /\ StatusTellsCompleteness'
    BY <2>1 DEF GivenAsCounted, StatusTellsCompleteness
  <2> QED
    BY <2>2, <2>3, <2>4, <2>5 DEF CountInv
<1>2. CASE ~(Accepted(f) /\ Wanted(f))
  <2>1. /\ frame' = f /\ via' = caller /\ ctx' = ctx /\ given' = NoneGiven
        /\ pc' = "idle"
    BY <1>0, <1>2 DEF HandleMessage
  <2>2. StatusInv' /\ ListInv' /\ LinkWalkInv'
    BY <2>1 DEF StatusInv, ListInv, LinkWalkInv
  <2>3. \A c \in Callbacks : Expected(c)' = 0
    BY <1>2, <2>1 DEF Expected, Accepted, Wanted
  <2>4. GivenAsCounted'
    BY <2>1, <2>3 DEF GivenAsCounted, NoneGiven
  <2>5. StatusTellsCompleteness'
    BY <1>2, <2>1 DEF StatusTellsCompleteness, Accepted, Wanted
  <2> QED
    BY <2>2, <2>4, <2>5 DEF CountInv
<1> QED
  BY <1>1, <1>2

LEMMA ReadCountCounts == ASSUME MInv, CountInv, ReadCount PROVE CountInv'
<1> USE DEF ReadCount
<1>1. CASE rem < CountSize
  BY <1>1, StopStep DEF Stops
<1>2. CASE ~(rem < CountSize)
  <2>1. /\ UNCHANGED <<ctx, frame, via, given, list>> /\ pc = "count" /\ pc' = "element"
        /\ left' = CountOf(list) /\ rem' = rem - 1
    BY <1>2 DEF CountOf
  <2>2. /\ frame.first \in Nat /\ frame.second \in Nat /\ rem \in Nat /\ Room \in Nat
    BY <2>1, WalkFacts
  <2>3. CountOf(list)' = CountOf(list) /\ RoomOf(list)' = RoomOf(list) /\ CountSize' = CountSize
        /\ Room' = Room
    BY <2>1 DEF CountOf, RoomOf, CountSize, Room, RestAfterStations
  <2>4. CountOf(list) \in Nat /\ Seen = 0 /\ Seen' = 0
    BY <2>1, <2>2, <2>3 DEF CountOf, Seen
  <2>5. \A c \in Callbacks : Reached(c)' = Reached(c)
    BY <2>1, <2>4 DEF Reached
  <2>6. ListInv'
    <3>1. list \in Lists /\ Size[list] \in Nat
      BY SizeIsPositive DEF MInv, TypeOK
    <3>2. rem = RoomOf(list) /\ RoomOf(list) >= CountSize
      <4>1. RoomOf(list) \in Int
        BY <2>2, SizeOf DEF RoomOf, RestAfterStations
      <4>2. rem = RoomOf(list) - 0
        BY <2>1 DEF CountInv, ListInv
      <4> QED
        BY <1>2, <2>2, <4>1, <4>2 DEF CountSize
    <3>3. rem' = RoomOf(list)' - (1 + Seen' * Size[list]')
      BY <2>1, <2>2, <2>3, <2>4, <3>1, <3>2
    <3> QED
      BY <2>1, <2>3, <2>4, <2>5, <3>2, <3>3 DEF CountInv, ListInv
  <2>7. LinkWalkInv' /\ GivenAsCounted' /\ StatusTellsCompleteness'
    BY <2>1 DEF LinkWalkInv, GivenAsCounted, StatusTellsCompleteness
  <2>8. StatusInv'
    BY <2>1 DEF CountInv, StatusInv, Accepted, Wanted
  <2> QED
    BY <2>6, <2>7, <2>8 DEF CountInv
<1> QED
  BY <1>1, <1>2

LEMMA ElementCounts == ASSUME MInv, CountInv, Element PROVE CountInv'
<1> USE DEF Element
<1>0. list \in Lists /\ Size[list] \in Nat /\ Size[list] > 0 /\ rem \in Nat /\ left \in 0..255
  BY SizeIsPositive DEF MInv, TypeOK
<1>1. CASE TooShort(rem, Size[list])
  <2>1. Stops
    BY <1>0, <1>1 DEF Stops, TooShort, Less
  <2> QED
    BY <1>0, <1>1, <2>1, StopStep
<1>2. CASE ~TooShort(rem, Size[list])
  <2>1. /\ UNCHANGED <<ctx, frame, via, list, pc, rc>> /\ pc = "element" /\ left > 0
        /\ left' = left - 1 /\ rem' = rem - Size[list]
        /\ given' = [given EXCEPT ![list] = @ + (IF list \in ctx THEN 1 ELSE 0)]
    BY <1>2
  <2>2. /\ frame.first \in Nat /\ frame.second \in Nat /\ Room \in Nat
        /\ Seen = CountOf(list) - left /\ Seen \in Nat
    BY <2>1, WalkFacts
  <2>3. CountOf(list)' = CountOf(list) /\ RoomOf(list)' = RoomOf(list) /\ CountSize' = CountSize
        /\ Room' = Room
    BY <2>1 DEF CountOf, RoomOf, CountSize, Room, RestAfterStations
  <2>4. CountOf(list) \in Nat /\ Seen' = Seen + 1
    BY <1>0, <2>1, <2>2, <2>3 DEF CountOf, Seen
  <2>5. given' = [c \in Callbacks |-> Reached(c)']
    <3>1. given = [c \in Callbacks |-> Reached(c)]
      BY <2>1 DEF CountInv, ListInv
    <3>2. \A c \in Callbacks :
            Reached(c)' = IF c = list /\ c \in ctx THEN Reached(c) + 1 ELSE Reached(c)
      BY <2>1, <2>4 DEF Reached
    <3>3. list \in ctx => Reached(list) \in Nat
      BY <2>2 DEF Reached
    <3>4. list \notin ctx => Reached(list) = 0
      BY DEF Reached
    <3>5. list \in Callbacks
      BY <1>0, ListIsCallback
    <3> QED
      BY <2>1, <3>1, <3>2, <3>3, <3>4, <3>5
  <2>6. ListInv'
    <3>1. rem = RoomOf(list) - (1 + Seen * Size[list]) /\ RoomOf(list) \in Int
      BY <2>1, <2>2, SizeOf DEF CountInv, ListInv, RoomOf, RestAfterStations
    <3>2. (Seen + 1) * Size[list] = Seen * Size[list] + Size[list] /\ Seen * Size[list] \in Nat
      <4>1. Size[list] \in {8, 12, 13, 18}
        BY <1>0, SizeOf DEF Lists
      <4> QED
        BY <2>2, <4>1
    <3>3. rem' = RoomOf(list)' - (1 + Seen' * Size[list]')
      BY <1>0, <2>1, <2>3, <2>4, <3>1, <3>2
    <3>4. Seen' >= 0
      BY <2>2, <2>4
    <3>5. /\ \/ frame.type = DiscoverList /\ list \in {"station", "network"}
             \/ frame.type = NwInfo /\ list = "nwinfo"
             \/ frame.type = NwStats /\ list = "stats"
          /\ list = "network" => Room >= 2
          /\ RoomOf(list) >= CountSize
      BY <2>1 DEF CountInv, ListInv
    <3> QED
      BY <2>1, <2>3, <2>5, <3>3, <3>4, <3>5 DEF ListInv
  <2>7. LinkWalkInv' /\ GivenAsCounted' /\ StatusTellsCompleteness'
    BY <2>1 DEF LinkWalkInv, GivenAsCounted, StatusTellsCompleteness
  <2>8. StatusInv'
    BY <2>1 DEF CountInv, StatusInv, Accepted, Wanted
  <2> QED
    BY <2>6, <2>7, <2>8 DEF CountInv
<1> QED
  BY <1>1, <1>2

\* The networks of a discovery follow where its stations ended.
LEMMA EndOfListCounts == ASSUME MInv, CountInv, EndOfList PROVE CountInv'
<1> USE DEF EndOfList
<1>1. CASE list # "station"
  <2>1. Stops /\ UNCHANGED <<ctx, frame, via, given>>
    BY <1>1 DEF Stops, result
  <2>2. \/ list = "network" /\ Return("fail")
        \/ list # "network" /\ Return("ok")
    BY <1>1
  <2> QED
    BY <1>1, <2>1, <2>2, StopStep
<1>2. CASE list = "station"
  <2>1. /\ UNCHANGED <<ctx, frame, via, left, rem, given, rc>> /\ pc = "element" /\ left = 0
        /\ pc' = "count" /\ list' = "network"
    BY <1>2 DEF result
  <2>2. /\ frame.first \in Nat /\ Room \in Nat /\ Seen = frame.first
    BY <1>2, <2>1, WalkFacts DEF CountOf
  <2>3. /\ frame.type = DiscoverList /\ Room >= 2
        /\ rem = Room - 1 - frame.first * 12
    <3>1. CountSize = 2 /\ RoomOf(list) = Room
      BY <1>2 DEF CountSize, RoomOf
    <3> QED
      BY <1>2, <2>1, <2>2, <3>1, Types, SizeOf DEF CountInv, ListInv
  <2>4. rem' = RoomOf(list)' /\ Room' = Room
    BY <2>1, <2>3, SizeOf DEF RoomOf, RestAfterStations, Room
  <2>5. \A c \in Callbacks : Reached(c)' = Reached(c)
    BY <1>2, <2>1, <2>2 DEF Reached, Seen
  <2>6. ListInv'
    BY <1>2, <2>1, <2>2, <2>3, <2>4, <2>5 DEF CountInv, ListInv
  <2>7. LinkWalkInv' /\ GivenAsCounted' /\ StatusTellsCompleteness'
    BY <2>1 DEF LinkWalkInv, GivenAsCounted, StatusTellsCompleteness
  <2>8. StatusInv'
    BY <2>1 DEF CountInv, StatusInv, Accepted, Wanted
  <2> QED
    BY <2>6, <2>7, <2>8 DEF CountInv
<1> QED
  BY <1>1, <1>2

LEMMA LinkConfirmCounts == ASSUME MInv, CountInv, LinkConfirm PROVE CountInv'
<1> USE DEF LinkConfirm
<1>1. /\ UNCHANGED <<ctx, frame, via>> /\ pc = "link" /\ pc' = "idle"
      /\ frame.type = LinkStats /\ "link" \in ctx /\ rem = Room /\ rem \in Nat
      /\ given = NoneGiven /\ Accepted(frame) /\ via # "none"
  BY DEF CountInv, LinkWalkInv, StatusInv, MInv, TypeOK, Return
<1>2. given' = [c \in Callbacks |-> IF c = "link" /\ Room >= HeadSize + ReceiveSize THEN 1 ELSE 0]
  BY <1>1 DEF NoneGiven, TooShort, Less, result
<1>3. \A c \in Callbacks :
        Expected(c)' = IF c = "link" /\ Room >= HeadSize + ReceiveSize THEN 1 ELSE 0
  BY <1>1, Types DEF Expected, Room
<1>4. GivenAsCounted' /\ StatusTellsCompleteness'
  BY <1>1, <1>2, <1>3, Types DEF GivenAsCounted, StatusTellsCompleteness
<1>5. ListInv' /\ LinkWalkInv' /\ StatusInv'
  BY <1>1 DEF ListInv, LinkWalkInv, StatusInv
<1> QED
  BY <1>4, <1>5 DEF CountInv

LEMMA NextCounts == ASSUME MInv, CountInv, [Next]_vars PROVE CountInv'
<1>1. ASSUME NEW f \in Frames, HandleData(f) \/ HandleMessage(f, "direct") PROVE CountInv'
  BY <1>1, HandleCounts, FramesAssumption DEF HandleData
<1>2. ASSUME NEW r \in Requests, Send(r) PROVE CountInv'
  <2>1. Written(r) \in FrameRecords
    BY <1>2, RequestsAssumption, WrittenIsAccepted DEF Send
  <2> QED
    BY <1>2, <2>1, HandleCounts DEF Send
<1>3. CASE Forget \/ \E c \in Callbacks : Register(c)
  <2>1. pc = "idle" /\ pc' = "idle" /\ via' = "none" /\ rc' = "none"
    BY <1>3 DEF Forget, Register, CountInv, StatusInv, MInv, Safe, LinkInv
  <2> QED
    BY <2>1 DEF CountInv, ListInv, LinkWalkInv, StatusInv, GivenAsCounted, StatusTellsCompleteness
<1>4. CASE UNCHANGED vars
  <2> USE <1>4 DEF vars, walk, result, CountInv
  <2>1. ListInv' /\ LinkWalkInv'
    BY DEF ListInv, LinkWalkInv, RoomOf, RestAfterStations, Room, Seen, CountOf, CountSize, Reached
  <2>2. StatusInv'
    BY DEF StatusInv, Accepted, Wanted
  <2>3. GivenAsCounted'
    BY DEF GivenAsCounted, Expected, Room, RestAfterStations, Accepted
  <2>4. StatusTellsCompleteness'
    BY DEF StatusTellsCompleteness, Room, Accepted
  <2> QED
    BY <2>1, <2>2, <2>3, <2>4
<1> QED
  BY <1>1, <1>2, <1>3, <1>4, ReadCountCounts, ElementCounts, EndOfListCounts, LinkConfirmCounts
  DEF Next

LEMMA CountInvHolds == Spec => []CountInv
<1>1. Init => CountInv
  BY DEF Init, CountInv, ListInv, LinkWalkInv, StatusInv, GivenAsCounted, StatusTellsCompleteness
<1> QED
  BY <1>1, NextCounts, MInvHolds, PTL DEF Spec

-----------------------------------------------------------------------------

\* Every variable of the parser keeps its type; in particular remaining_size,
\* an int, never becomes negative.
THEOREM ParserTypeCorrect == Spec => []TypeOK
BY MInvHolds, PTL DEF MInv, Safe

\* The parsers never read, or hand out, a byte behind the end of the frame.
THEOREM ParserInBounds == Spec => []InBounds
BY MInvHolds, PTL DEF MInv, Safe

\* Link statistics that reach a program have room for either kind.
THEOREM LinkStatsFit == Spec => []EitherKindFits
BY MInvHolds, PTL DEF MInv, Safe

\* message_send writes frames that handle_message accepts.
THEOREM RequestsAccepted == Spec => []SentIsAccepted
BY MInvHolds, PTL DEF MInv, Safe

\* Every complete element of an accepted frame is given to the callback that is
\* registered for it, once, and to no other, also when the frame is cut off in
\* the middle of a list or in the second of two lists.
THEOREM ElementsGiven == Spec => []GivenAsCounted
BY CountInvHolds, PTL DEF CountInv

\* The parsers with one list return EXIT_SUCCESS exactly for a complete list.
THEOREM StatusIsTold == Spec => []StatusTellsCompleteness
BY CountInvHolds, PTL DEF CountInv

=============================================================================
