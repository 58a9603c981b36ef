--------------------------- MODULE MCMgmtMessage ----------------------------
(* Instances of MgmtMessage for TLC. *)
EXTENDS MgmtMessage

\* Lengths around every limit of the parsers, and types around every branch.
SomeFrames ==
  [len : {18, 19, 20, 21, 27, 28, 37, 38, 45, 46, 59, 60, 70}, ours : {TRUE},
   type : {DiscoverList, NwInfo, NwStats}, nf : {0}, first : {0, 1, 2, 255}, second : {0, 2}]
  \cup [len : {19, 21, 54, 55, 59, 60, 61}, ours : {TRUE}, type : {LinkStats},
        nf : {0}, first : {0}, second : {0}]
  \cup [len : {60}, ours : BOOLEAN, type : {DiscoverList, LinkStats, 24648, 40961},
        nf : {0, 1}, first : {1}, second : {0}]

\* The last type of every category, and payloads around the limits.
SomeRequests ==
  [type : {116, 8200, 16400, 24668}, oper : Operations, len : {0, 18, 41, 42, 1481, 1482}]

VendorFrames ==
  [len : {60}, ours : {TRUE}, type : {32768, 40961}, nf : {0}, first : {0}, second : {0}]
=============================================================================
