------------------------------- MODULE Helper -------------------------------
(***************************************************************************)
(* src/src/helper.c: hpav_parse_mac and hpav_parse_nid, the same algorithm *)
(* for six and for seven bytes.  A string is a sequence of characters: the *)
(* hexadecimal digits are their values, every other character is a number  *)
(* from 16 on.                                                             *)
(***************************************************************************)
LOCAL INSTANCE Integers
LOCAL INSTANCE Sequences

Hex == 0..15
Colon == 16
Byte == 0..255

\* Mutant: the expression is not anchored at its end.
MatchesPrefix(s, n) ==
  /\ Len(s) >= 3 * n - 1
  /\ \A i \in 1..3 * n - 1 : IF i % 3 = 0 THEN s[i] = Colon ELSE s[i] \in Hex

\* regexec: "^([0-9A-Fa-f]{2}[:]{1}){n-1}[0-9A-Fa-f]{2}$".
Matches(s, n) ==
  /\ Len(s) = 3 * n - 1
  /\ \A i \in DOMAIN s : IF i % 3 = 0 THEN s[i] = Colon ELSE s[i] \in Hex

\* The end of the digits that %x consumes from position p on (the expression
\* leaves no blank, sign or 0x in front of them).
EndOfDigits(s, p) ==
  CHOOSE e \in p..Len(s) + 1 :
    /\ \A i \in p..e - 1 : s[i] \in Hex
    /\ e = Len(s) + 1 \/ s[e] \notin Hex

\* Where the nth conversion of "%x:%x:..." starts, 0 if sscanf ends before.
Starts(s, n) ==
  LET start[k \in 1..n] ==
        IF k = 1 THEN 1
        ELSE LET p == start[k - 1]
                 e == EndOfDigits(s, p)
             IN IF p # 0 /\ p < e /\ e <= Len(s) /\ s[e] = Colon THEN e + 1 ELSE 0
  IN start

\* What %x makes of the digits from p on; dst[i] = in[i] keeps the low byte.
ScannedByte(s, p) ==
  LET e == EndOfDigits(s, p)
      value[q \in p..e] == IF q = p THEN 0 ELSE 16 * value[q - 1] + s[q - 1]
  IN value[e] % 256

\* EXIT_SUCCESS with the bytes, or a refusal.
ParseAddress(s, n) ==
  IF Matches(s, n) /\ \A k \in 1..n : Starts(s, n)[k] # 0
    THEN [ok |-> TRUE, bytes |-> [k \in 1..n |-> ScannedByte(s, Starts(s, n)[k])]]
    ELSE [ok |-> FALSE, bytes |-> <<>>]

=============================================================================
