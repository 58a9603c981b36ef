---------------------------- MODULE LoopMMProofs -----------------------------
(***************************************************************************)
(* Proofs about the command lines of the three programs (src/src/helper.c  *)
(* and the functions _parse_opt) and about src/bin/loop-mm-types.c, for    *)
(* every command line: any number of options in any order, texts of any    *)
(* length, and every width of int and long that WidthAssumption allows.    *)
(***************************************************************************)
EXTENDS LoopMM, SequenceTheorems, TLAPS

-----------------------------------------------------------------------------
(* hpav_parse_mac and hpav_parse_nid *)

\* The characters of a text of the right form: pairs of digits, and colons.
LEMMA MatchedText ==
  ASSUME NEW s \in Seq(Nat), NEW n \in Nat, Matches(s, n), NEW k \in 1..n
  PROVE  /\ Len(s) = 3 * n - 1 /\ DOMAIN s = 1..Len(s)
         /\ s[3 * k - 2] \in Hex /\ s[3 * k - 1] \in Hex
         /\ s[3 * k - 2] \in Nat /\ s[3 * k - 1] \in Nat
         /\ 3 * k <= Len(s) => s[3 * k] = Colon /\ s[3 * k] \notin Hex
<1>1. Len(s) = 3 * n - 1 /\ DOMAIN s = 1..Len(s)
  BY DEF Matches
<1>2. \A q \in 1..Len(s) : IF q % 3 = 0 THEN s[q] = Colon ELSE s[q] \in Hex
  BY <1>1 DEF Matches
<1>3. 3 * k - 2 \in 1..Len(s) /\ 3 * k - 1 \in 1..Len(s)
  BY <1>1
<1>4. (3 * k - 2) % 3 # 0 /\ (3 * k - 1) % 3 # 0 /\ (3 * k) % 3 = 0
  OBVIOUS
<1>5. s[3 * k - 2] \in Hex
  BY <1>2, <1>3, <1>4
<1>6. s[3 * k - 1] \in Hex
  BY <1>2, <1>3, <1>4
<1>7. ASSUME 3 * k <= Len(s) PROVE s[3 * k] = Colon
  <2>1. 3 * k \in 1..Len(s)
    BY <1>1, <1>7
  <2> QED
    BY <1>2, <1>4, <2>1
<1>8. Colon \notin Hex
  BY DEF Colon, Hex
<1> QED
  BY <1>1, <1>3, <1>5, <1>6, <1>7, <1>8

\* In a text of the right form %x ends at the colon, or at the end.
LEMMA DigitsEnd ==
  ASSUME NEW s \in Seq(Nat), NEW n \in Nat, Matches(s, n), NEW k \in 1..n
  PROVE  EndOfDigits(s, 3 * k - 2) = 3 * k
<1> DEFINE p == 3 * k - 2
           Ends(e) == /\ \A q \in p..e - 1 : s[q] \in Hex
                      /\ e = Len(s) + 1 \/ s[e] \notin Hex
<1>1. Len(s) = 3 * n - 1 /\ DOMAIN s = 1..Len(s)
  BY DEF Matches
<1>2. s[p] \in Hex /\ s[p + 1] \in Hex
  <2>1. p + 1 = 3 * k - 1
    OBVIOUS
  <2> QED
    BY <2>1, MatchedText
<1>3. 3 * k <= Len(s) => s[3 * k] = Colon /\ s[3 * k] \notin Hex
  BY MatchedText
<1>4. 3 * k \in p..Len(s) + 1 /\ Ends(3 * k)
  <2>1. 3 * k \in p..Len(s) + 1 /\ (3 * k = Len(s) + 1 \/ 3 * k <= Len(s))
    BY <1>1
  <2>2. \A q \in p..3 * k - 1 : q = p \/ q = p + 1
    OBVIOUS
  <2>3. \A q \in p..3 * k - 1 : s[q] \in Hex
    BY <1>2, <2>2
  <2> QED
    BY <1>3, <2>1, <2>3
<1>5. ASSUME NEW e \in p..Len(s) + 1, Ends(e) PROVE e = 3 * k
  <2>1. ~(e < 3 * k)
    <3>1. e < 3 * k => e \in {p, p + 1} /\ e # Len(s) + 1
      BY <1>1, <1>5
    <3> QED
      BY <1>2, <1>5, <3>1
  <2>2. ~(e > 3 * k)
    <3>1. e > 3 * k => 3 * k \in p..e - 1 /\ 3 * k <= Len(s)
      BY <1>1, <1>5
    <3> QED
      BY <1>3, <1>5, <3>1
  <2> QED
    BY <1>1, <2>1, <2>2
<1>6. EndOfDigits(s, p) = CHOOSE e \in p..Len(s) + 1 : Ends(e)
  BY DEF EndOfDigits
<1> QED
  BY <1>4, <1>5, <1>6

\* The conversions of sscanf start where the expression has its pairs of digits.
LEMMA StartsAt ==
  ASSUME NEW s \in Seq(Nat), NEW n \in {6, 7}, Matches(s, n)
  PROVE  Starts(s, n) = [k \in 1..n |-> 3 * k - 2]
<1> DEFINE Def(f) == [k \in 1..n |->
                        IF k = 1 THEN 1
                        ELSE LET p == f[k - 1]
                                 e == EndOfDigits(s, p)
                             IN IF p # 0 /\ p < e /\ e <= Len(s) /\ s[e] = Colon THEN e + 1 ELSE 0]
           g == [k \in 1..n |-> 3 * k - 2]
           f == Starts(s, n)
<1>1. f = CHOOSE h : h = Def(h)
  BY DEF Starts
<1>2. Len(s) = 3 * n - 1 /\ DOMAIN s = 1..Len(s)
  BY DEF Matches
<1>3. ASSUME NEW h, NEW k \in 2..n, h[k - 1] = 3 * (k - 1) - 2
      PROVE  Def(h)[k] = 3 * k - 2
  <2>1. k - 1 \in 1..n /\ 3 * (k - 1) <= Len(s) /\ n \in Nat
    BY <1>2
  <2>2. EndOfDigits(s, 3 * (k - 1) - 2) = 3 * (k - 1)
    BY <2>1, DigitsEnd
  <2>3. s[3 * (k - 1)] = Colon
    BY <2>1, MatchedText
  <2> QED
    BY <1>3, <2>1, <2>2, <2>3
<1>4. g = Def(g)
  <2>1. \A k \in 2..n : Def(g)[k] = 3 * k - 2
    <3>1. \A k \in 2..n : g[k - 1] = 3 * (k - 1) - 2
      OBVIOUS
    <3> HIDE DEF g, Def
    <3> QED
      BY <1>3, <3>1
  <2>2. Def(g)[1] = 1 /\ DOMAIN Def(g) = 1..n /\ Def(g) = [k \in 1..n |-> Def(g)[k]]
    OBVIOUS
  <2>3. \A k \in 1..n : k = 1 \/ k \in 2..n
    OBVIOUS
  <2> HIDE DEF Def
  <2>4. \A k \in 1..n : Def(g)[k] = 3 * k - 2
    BY <2>1, <2>2, <2>3
  <2> QED
    BY <2>2, <2>4
<1> HIDE DEF g
<1>6. f = Def(f)
  <2> HIDE DEF f, Def
  <2>1. \E h : h = Def(h)
    BY <1>4
  <2> QED
    BY <1>1, <2>1
<1>7. f[1] = 1 /\ \A k \in 2..n : f[k - 1] = 3 * (k - 1) - 2 => f[k] = 3 * k - 2
  <2>1. f[1] = 1
    BY <1>6
  <2>2. \A k \in 2..n : f[k - 1] = 3 * (k - 1) - 2 => Def(f)[k] = 3 * k - 2
    BY <1>3
  <2> QED
    BY <1>6, <2>1, <2>2
<1>8. DOMAIN f = 1..n /\ f = [k \in 1..n |-> f[k]]
  BY <1>6
<1> HIDE DEF f, Def
<1>9. f[1] = 1 /\ f[2] = 4 /\ f[3] = 7 /\ f[4] = 10
  BY <1>7
<1>10. f[5] = 13 /\ f[6] = 16 /\ (n = 7 => f[7] = 19)
  BY <1>7, <1>9
<1>11. ASSUME NEW k \in 1..n PROVE f[k] = 3 * k - 2
  <2>1. k \in {1, 2, 3, 4, 5, 6} \/ (k = 7 /\ n = 7)
    OBVIOUS
  <2> QED
    BY <1>9, <1>10, <2>1
<1> QED
  BY <1>8, <1>11 DEF f

\* Two digits, and their value.
LEMMA TwoDigits ==
  ASSUME NEW s, NEW p \in Int, s[p] \in Nat, s[p + 1] \in Nat, EndOfDigits(s, p) = p + 2
  PROVE  ScannedByte(s, p) = (16 * s[p] + s[p + 1]) % 256
<1> DEFINE Digit(v, q) == IF q = p THEN 0 ELSE 16 * v[q - 1] + s[q - 1]
           Def(v) == [q \in p..p + 2 |-> Digit(v, q)]
           value == CHOOSE v : v = Def(v)
           w == [q \in p..p + 2 |-> IF q = p THEN 0
                                    ELSE IF q = p + 1 THEN s[p]
                                    ELSE 16 * s[p] + s[p + 1]]
<1>1. ScannedByte(s, p) = value[p + 2] % 256
  BY DEF ScannedByte
<1>2. w[p] = 0 /\ w[p + 1] = s[p] /\ w[p + 2] = 16 * s[p] + s[p + 1]
      /\ w = [q \in p..p + 2 |-> w[q]]
  OBVIOUS
<1> HIDE DEF w
<1>3. /\ Digit(w, p) = 0 /\ Digit(w, p + 1) = s[p]
      /\ Digit(w, p + 2) = 16 * s[p] + s[p + 1]
  BY <1>2
<1> HIDE DEF Digit
<1>4. \A q \in p..p + 2 : w[q] = Digit(w, q)
  <2>1. \A q \in p..p + 2 : q = p \/ q = p + 1 \/ q = p + 2
    OBVIOUS
  <2> QED
    BY <1>2, <1>3, <2>1
<1>5. w = Def(w)
  BY <1>2, <1>4
<1>6. value = Def(value)
  <2> HIDE DEF Def
  <2> QED
    BY <1>5
<1> HIDE DEF value
<1>7. p \in p..p + 2 /\ p + 1 \in p..p + 2 /\ p + 2 \in p..p + 2
  OBVIOUS
<1>8. value[p] = Digit(value, p) /\ value[p + 1] = Digit(value, p + 1)
      /\ value[p + 2] = Digit(value, p + 2)
  BY <1>6, <1>7
<1>9. value[p] = 0
  BY <1>8 DEF Digit
<1>10. value[p + 1] = s[p]
  BY <1>8, <1>9 DEF Digit
<1>11. value[p + 2] = 16 * s[p] + s[p + 1]
  BY <1>8, <1>10 DEF Digit
<1> QED
  BY <1>1, <1>11

LEMMA BytesScanned ==
  ASSUME NEW s \in Seq(Nat), NEW n \in Nat, Matches(s, n), NEW k \in 1..n
  PROVE  ScannedByte(s, 3 * k - 2) = (16 * s[3 * k - 2] + s[3 * k - 1]) % 256
<1>1. s[3 * k - 2] \in Nat /\ s[3 * k - 1] \in Nat
  BY MatchedText
<1>2. EndOfDigits(s, 3 * k - 2) = 3 * k
  BY DigitsEnd
<1>3. 3 * k - 2 \in Int /\ (3 * k - 2) + 1 = 3 * k - 1 /\ (3 * k - 2) + 2 = 3 * k
  OBVIOUS
<1> QED
  BY <1>1, <1>2, <1>3, TwoDigits

\* The bytes that a text stands for.
LEMMA BytesType ==
  ASSUME NEW s \in Seq(Nat), NEW n \in Nat, Len(s) = 3 * n - 1
  PROVE  BytesAt(s, n) \in Seq(Byte) /\ Len(BytesAt(s, n)) = n
<1> DEFINE byte(k) == (16 * s[3 * k - 2] + s[3 * k - 1]) % 256
<1>1. BytesAt(s, n) = [k \in 1..n |-> byte(k)]
  BY Zenon DEF BytesAt
<1>2. ASSUME NEW k \in 1..n PROVE byte(k) \in Byte
  <2>1. \A v \in Nat : v % 256 \in Byte
    BY DEF Byte
  <2>2. \A a, c \in Nat : 16 * a + c \in Nat
    OBVIOUS
  <2>3. s[3 * k - 2] \in Nat /\ s[3 * k - 1] \in Nat
    OBVIOUS
  <2> QED
    BY <2>1, <2>2, <2>3, Zenon
<1> HIDE DEF byte
<1> QED
  BY <1>1, <1>2

LEMMA Nibbles ==
  /\ \A a, c \in Hex : ((16 * a + c) % 256) \div 16 = a /\ ((16 * a + c) % 256) % 16 = c
  /\ \A v \in Byte : v \div 16 \in Hex /\ v % 16 \in Hex
BY DEF Hex, Byte

\* The expression accepts the texts that writing some bytes yields, no others.
LEMMA RightForm ==
  ASSUME NEW s \in Seq(Nat), NEW n \in {6, 7}
  PROVE  Matches(s, n) <=> WellFormed(s, n)
<1> DEFINE b == BytesAt(s, n)
<1>1. CASE Len(s) # 3 * n - 1
  <2>1. ~Matches(s, n)
    BY <1>1, Zenon DEF Matches
  <2>2. ~WellFormed(s, n)
    BY <1>1, Zenon DEF WellFormed
  <2> QED
    BY <2>1, <2>2
<1>2. CASE Len(s) = 3 * n - 1
  <2>1. /\ b \in Seq(Byte) /\ Len(b) = n
        /\ \A k \in 1..n : b[k] = (16 * s[3 * k - 2] + s[3 * k - 1]) % 256
    <3>1. b \in Seq(Byte) /\ Len(b) = n
      BY <1>2, BytesType
    <3>2. ASSUME NEW k \in 1..n PROVE b[k] = (16 * s[3 * k - 2] + s[3 * k - 1]) % 256
      BY Zenon DEF BytesAt
    <3> QED
      BY <3>1, <3>2
  <2>2. DOMAIN s = 1..3 * n - 1 /\ \A q \in 1..3 * n - 1 : s[q] \in Nat
    BY <1>2
  <2> HIDE DEF b
  <2>3. /\ DOMAIN Text(b) = 1..3 * n - 1 /\ Text(b) = [q \in 1..3 * n - 1 |-> Text(b)[q]]
        /\ \A q \in 1..3 * n - 1 : Text(b)[q] = CASE q % 3 = 0 -> Colon
                                                  [] q % 3 = 1 -> b[(q + 2) \div 3] \div 16
                                                  [] q % 3 = 2 -> b[(q + 2) \div 3] % 16
    BY <2>1 DEF Text
  <2>4. ASSUME NEW q \in 1..3 * n - 1
        PROVE  \E k \in 1..n : \/ q = 3 * k - 2 /\ q % 3 = 1
                               \/ q = 3 * k - 1 /\ q % 3 = 2
                               \/ q = 3 * k /\ q % 3 = 0
    <3>1. q % 3 = 1 => (q + 2) \div 3 \in 1..n /\ q = 3 * ((q + 2) \div 3) - 2
      OBVIOUS
    <3>2. q % 3 = 2 => (q + 1) \div 3 \in 1..n /\ q = 3 * ((q + 1) \div 3) - 1
      OBVIOUS
    <3>3. q % 3 = 0 => q \div 3 \in 1..n /\ q = 3 * (q \div 3)
      OBVIOUS
    <3>4. q % 3 \in {0, 1, 2}
      OBVIOUS
    <3> QED
      BY <3>1, <3>2, <3>3, <3>4
  <2>5. ASSUME NEW k \in 1..n
        PROVE  /\ 3 * k - 2 \in 1..3 * n - 1 /\ Text(b)[3 * k - 2] = b[k] \div 16
               /\ 3 * k - 1 \in 1..3 * n - 1 /\ Text(b)[3 * k - 1] = b[k] % 16
               /\ 3 * k \in 1..3 * n - 1 => Text(b)[3 * k] = Colon
    <3>1. 3 * k - 2 \in 1..3 * n - 1 /\ (3 * k - 2) % 3 = 1 /\ ((3 * k - 2) + 2) \div 3 = k
      OBVIOUS
    <3>2. 3 * k - 1 \in 1..3 * n - 1 /\ (3 * k - 1) % 3 = 2 /\ ((3 * k - 1) + 2) \div 3 = k
      OBVIOUS
    <3>3. (3 * k) % 3 = 0
      OBVIOUS
    <3>4. Text(b)[3 * k - 2] = b[k] \div 16
      BY <2>3, <3>1
    <3>5. Text(b)[3 * k - 1] = b[k] % 16
      <4> DEFINE q == 3 * k - 1
      <4>1. q \in 1..3 * n - 1 /\ q % 3 = 2 /\ (q + 2) \div 3 = k
        BY <3>2
      <4> HIDE DEF q
      <4>2. Text(b)[q] = b[k] % 16
        BY <2>3, <4>1
      <4> QED
        BY <4>2 DEF q
    <3>6. 3 * k \in 1..3 * n - 1 => Text(b)[3 * k] = Colon
      BY <2>3, <3>3
    <3> QED
      BY <3>1, <3>2, <3>4, <3>5, <3>6
  <2>6. ASSUME Matches(s, n) PROVE s = Text(b)
    <3>1. ASSUME NEW k \in 1..n
          PROVE  s[3 * k - 2] = b[k] \div 16 /\ s[3 * k - 1] = b[k] % 16
      <4>1. s[3 * k - 2] \in Hex /\ s[3 * k - 1] \in Hex
        BY <2>6, MatchedText
      <4>2. b[k] = (16 * s[3 * k - 2] + s[3 * k - 1]) % 256
        BY <2>1
      <4>3. \A a, c \in Hex : b[k] = (16 * a + c) % 256 => b[k] \div 16 = a /\ b[k] % 16 = c
        BY Nibbles
      <4> QED
        BY <4>1, <4>2, <4>3
    <3>2. \A k \in 1..n : 3 * k <= Len(s) => s[3 * k] = Colon
      BY <2>6, MatchedText
    <3>3. ASSUME NEW q \in 1..3 * n - 1 PROVE s[q] = Text(b)[q]
      <4>1. PICK k \in 1..n : q = 3 * k - 2 \/ q = 3 * k - 1 \/ q = 3 * k
        BY <2>4
      <4>2. CASE q = 3 * k - 2
        BY <2>5, <3>1, <4>2
      <4>3. CASE q = 3 * k - 1
        BY <2>5, <3>1, <4>3
      <4>4. CASE q = 3 * k
        <5>1. 3 * k \in 1..3 * n - 1 /\ 3 * k <= Len(s)
          BY <1>2, <4>4
        <5> QED
          BY <2>5, <3>2, <4>4, <5>1
      <4> QED
        BY <4>1, <4>2, <4>3, <4>4
    <3>4. s = [q \in 1..3 * n - 1 |-> s[q]]
      BY <2>2
    <3> QED
      BY <2>3, <3>3, <3>4
  <2>7. ASSUME s = Text(b) PROVE Matches(s, n)
    <3>1. ASSUME NEW q \in 1..3 * n - 1
          PROVE  IF q % 3 = 0 THEN s[q] = Colon ELSE s[q] \in Hex
      <4>1. PICK k \in 1..n : \/ q = 3 * k - 2 /\ q % 3 = 1
                              \/ q = 3 * k - 1 /\ q % 3 = 2
                              \/ q = 3 * k /\ q % 3 = 0
        BY <2>4
      <4>2. b[k] \div 16 \in Hex /\ b[k] % 16 \in Hex
        BY <2>1, Nibbles
      <4>3. CASE q = 3 * k - 2 /\ q % 3 = 1
        BY <2>5, <2>7, <4>2, <4>3
      <4>4. CASE q = 3 * k - 1 /\ q % 3 = 2
        BY <2>5, <2>7, <4>2, <4>4
      <4>5. CASE q = 3 * k /\ q % 3 = 0
        BY <2>5, <2>7, <4>5
      <4> QED
        BY <4>1, <4>3, <4>4, <4>5
    <3> QED
      BY <1>2, <2>2, <3>1 DEF Matches
  <2> QED
    BY <1>2, <2>6, <2>7 DEF WellFormed, b
<1> QED
  BY <1>1, <1>2

\* What -d, -m and -n make of a text: its bytes, if it has the right form.
LEMMA AddressParsed ==
  ASSUME NEW s \in Seq(Nat), NEW n \in {6, 7}
  PROVE  /\ ParseAddress(s, n).ok <=> WellFormed(s, n)
         /\ ParseAddress(s, n).ok => ParseAddress(s, n).bytes = BytesAt(s, n)
         /\ ParseAddress(s, n).ok => BytesAt(s, n) \in Seq(Byte) /\ Len(BytesAt(s, n)) = n
<1>1. CASE Matches(s, n)
  <2>1. \A k \in 1..n : Starts(s, n)[k] = 3 * k - 2
    BY <1>1, StartsAt
  <2>2. \A k \in 1..n : Starts(s, n)[k] # 0
    BY <2>1
  <2>3. \A k \in 1..n : ScannedByte(s, Starts(s, n)[k]) = (16 * s[3 * k - 2] + s[3 * k - 1]) % 256
    BY <1>1, <2>1, BytesScanned
  <2>4. ParseAddress(s, n) =
          [ok |-> TRUE, bytes |-> [k \in 1..n |-> ScannedByte(s, Starts(s, n)[k])]]
    BY <1>1, <2>2 DEF ParseAddress
  <2>5. [k \in 1..n |-> ScannedByte(s, Starts(s, n)[k])] = BytesAt(s, n)
    BY <2>3 DEF BytesAt
  <2>6. Len(s) = 3 * n - 1
    BY <1>1 DEF Matches
  <2> QED
    BY <1>1, <2>4, <2>5, <2>6, BytesType, RightForm
<1>2. CASE ~Matches(s, n)
  BY <1>2, RightForm DEF ParseAddress
<1> QED
  BY <1>1, <1>2

-----------------------------------------------------------------------------
(***************************************************************************)
(* The loop over the options.  argp has handed the first Read options to   *)
(* _parse_opt; ParseInv says what struct cmd_cnf then holds, in terms of   *)
(* those options alone.                                                    *)
(***************************************************************************)

Read == Len(argv.opts) - Len(todo)

\* The options that were read are followed by those that are left.
TodoInv ==
  /\ argv \in Argvs
  /\ todo \in Seq(OptionsOf(prog)) /\ Len(todo) <= Len(argv.opts)
  /\ \A q \in 1..Len(todo) : todo[q] = argv.opts[Read + q]

\* conf is a struct cmd_cnf.
ConfInv == DOMAIN conf = DOMAIN Defaults

LEMMA ArgvType ==
  ASSUME argv \in Argvs
  PROVE  prog \in Programs /\ argv.opts \in Seq(OptionsOf(prog)) /\ Len(argv.opts) \in Nat
BY ArgvsAssumption DEF prog

\* An option that is read becomes the last of those that were read.
LEMMA ReadOption ==
  ASSUME TodoInv, todo # <<>>, Continue
  PROVE  /\ TodoInv' /\ Read \in Nat /\ Read' = Read + 1
         /\ Read + 1 \in 1..Len(argv.opts) /\ argv.opts[Read + 1] = Option
         /\ Option \in OptionsOf(prog)
         /\ argv' = argv /\ prog' = prog
<1>1. argv.opts \in Seq(OptionsOf(prog)) /\ argv' = argv /\ prog' = prog
  BY ArgvType DEF TodoInv, Continue, prog
<1>2. Len(todo) \in Nat /\ Len(todo) > 0
  BY DEF TodoInv
<1>3. /\ Head(todo) \in OptionsOf(prog) /\ Tail(todo) \in Seq(OptionsOf(prog))
      /\ Len(Tail(todo)) = Len(todo) - 1
      /\ \A q \in 1..Len(Tail(todo)) : Tail(todo)[q] = todo[q + 1]
  BY HeadTailProperties DEF TodoInv
<1>4. Head(todo) = todo[1]
  BY DEF TodoInv
<1>5. todo' = Tail(todo)
  BY DEF Continue
<1>6. Read \in Nat /\ Read' = Read + 1 /\ Read + 1 \in 1..Len(argv.opts)
  BY <1>1, <1>2, <1>3, <1>5 DEF Read, TodoInv
<1>7. argv.opts[Read + 1] = Option
  BY <1>2, <1>4 DEF TodoInv, Option
<1>8. TodoInv'
  <2>1. \A q \in 1..Len(todo') : todo'[q] = argv'.opts[Read' + q]
    <3>1. ASSUME NEW q \in 1..Len(todo') PROVE todo'[q] = argv'.opts[Read' + q]
      <4>1. todo'[q] = todo[q + 1] /\ q + 1 \in 1..Len(todo)
        BY <1>2, <1>3, <1>5, <3>1
      <4>2. todo[q + 1] = argv.opts[Read + (q + 1)] /\ Read + (q + 1) = Read' + q
        BY <1>6, <4>1 DEF TodoInv
      <4> QED
        BY <1>1, <4>1, <4>2
    <3> QED
      BY <3>1
  <2> QED
    BY <1>1, <1>2, <1>3, <1>5, <2>1 DEF TodoInv
<1> QED
  BY <1>1, <1>3, <1>6, <1>7, <1>8 DEF Option

\* r options have been read; one of them has the key.
Among(opts, r, key) == \E q \in 1..r : opts[q].key = key

\* The option at q is the last of them with a key of K.
LastOf(opts, r, K, q) ==
  /\ q \in 1..r /\ opts[q].key \in K
  /\ \A t \in q + 1..r : opts[t].key \notin K

\* x is what val makes of the last of them with a key of K, and d without one.
Holds(opts, r, K, x, d, val) ==
  \/ x = d /\ \A q \in 1..r : opts[q].key \notin K
  \/ \E q \in 1..r : LastOf(opts, r, K, q) /\ x = val[q]


\* One more option.
LEMMA OneMore ==
  ASSUME NEW opts, NEW r \in Nat
  PROVE  /\ \A key : Among(opts, r + 1, key) <=> Among(opts, r, key) \/ opts[r + 1].key = key
         /\ \A K, x, y, d, val :
              /\ Holds(opts, r, K, x, d, val)
              /\ y = (IF opts[r + 1].key \in K THEN val[r + 1] ELSE x)
              => Holds(opts, r + 1, K, y, d, val)
<1>1. \A q : q \in 1..r + 1 <=> q \in 1..r \/ q = r + 1
  OBVIOUS
<1>2. \A key : Among(opts, r + 1, key) <=> Among(opts, r, key) \/ opts[r + 1].key = key
  BY <1>1 DEF Among
<1>3. ASSUME NEW K, NEW x, NEW y, NEW d, NEW val, Holds(opts, r, K, x, d, val),
             y = (IF opts[r + 1].key \in K THEN val[r + 1] ELSE x)
      PROVE  Holds(opts, r + 1, K, y, d, val)
  <2>1. CASE opts[r + 1].key \in K
    <3>1. \A t \in (r + 1) + 1..r + 1 : FALSE
      OBVIOUS
    <3>2. LastOf(opts, r + 1, K, r + 1)
      BY <1>1, <2>1, <3>1 DEF LastOf
    <3> QED
      BY <1>1, <1>3, <2>1, <3>2 DEF Holds
  <2>2. CASE opts[r + 1].key \notin K
    <3>1. ASSUME NEW q \in 1..r, LastOf(opts, r, K, q) PROVE LastOf(opts, r + 1, K, q)
      <4>1. \A t \in q + 1..r + 1 : t \in q + 1..r \/ t = r + 1
        OBVIOUS
      <4> QED
        BY <1>1, <2>2, <3>1, <4>1 DEF LastOf
    <3>2. (\A q \in 1..r : opts[q].key \notin K) => \A q \in 1..r + 1 : opts[q].key \notin K
      BY <1>1, <2>2
    <3> QED
      BY <1>1, <1>3, <2>2, <3>1, <3>2 DEF Holds
  <2> QED
    BY <2>1, <2>2
<1> QED
  BY <1>2, <1>3

Places == 1..Len(argv.opts)
OdaOf(o) == IF o.key = "b" THEN Broadcast ELSE IF o.key = "l" THEN Local ELSE BytesAt(o.arg, 6)

\* The fields where the last option counts.
OdaInv == Holds(argv.opts, Read, {"b", "l", "d"}, conf.oda, Broadcast,
                [q \in Places |-> OdaOf(argv.opts[q])])
VerInv == Holds(argv.opts, Read, {"0", "1"}, conf.ver, "1", [q \in Places |-> argv.opts[q].key])
MacInv == Holds(argv.opts, Read, {"m"}, conf.mac, NoMac, [q \in Places |-> BytesAt(argv.opts[q].arg, 6)])
NidInv == Holds(argv.opts, Read, {"n"}, conf.nid, NoNid, [q \in Places |-> BytesAt(argv.opts[q].arg, 7)])
LidInv == Holds(argv.opts, Read, {"i"}, conf.lid, -1, [q \in Places |-> Int32(argv.opts[q].arg.value)])
GapOf(o) == IF o.arg.number THEN o.arg.value % W32 ELSE 0
GapInv == Holds(argv.opts, Read, {"g"}, conf.gap, DefaultGap, [q \in Places |-> GapOf(argv.opts[q])])

Mentioned(key) == Among(argv.opts, Read, key)

\* The fields that options add to.
AddedInv ==
  /\ prog = "stats" =>
       /\ conf.what \subseteq {"nw", "link"} /\ conf.dir \subseteq {"tx", "rx"}
       /\ "nw" \in conf.what <=> Mentioned("N")
       /\ "link" \in conf.what <=> Mentioned("L")
       /\ "rx" \in conf.dir <=> Mentioned("r")
       /\ "tx" \in conf.dir <=> Mentioned("t")
       /\ conf.all \in BOOLEAN /\ (conf.all <=> Mentioned("a"))
       /\ set \subseteq {"n", "m"}
       /\ "n" \in set <=> Mentioned("n")
       /\ "m" \in set <=> Mentioned("m")
  /\ prog = "discover" =>
       /\ conf.nwinfo \in BOOLEAN /\ (conf.nwinfo <=> ~Mentioned("n"))
       /\ conf.numeric \in BOOLEAN /\ (conf.numeric <=> Mentioned("N"))

CntInv ==
  prog = "loop" =>
    /\ conf.cnt["response"] > 0 <=> Mentioned("R")
    /\ conf.cnt["indication"] > 0 <=> Mentioned("i")
    /\ conf.cnt["confirm"] > 0 <=> Mentioned("c")
    /\ IF Mentioned("r") THEN conf.cnt["request"] > 1
       ELSE conf.cnt["request"] = IF Mentioned("R") \/ Mentioned("i") \/ Mentioned("c") THEN 0 ELSE 1

Good(o) ==
  /\ o.key = "d" => WellFormed(o.arg, 6)
  /\ prog = "stats" =>
       /\ o.key = "m" => WellFormed(o.arg, 6)
       /\ o.key = "n" => WellFormed(o.arg, 7)
       /\ o.key = "i" => o.arg.number /\ Int32(o.arg.value) \in 0..255
       /\ o.key = "g" => ~o.arg.rest

GoodInv == \A q \in 1..Read : Good(argv.opts[q])

RangeInv ==
  erange => prog = "stats" /\ \E q \in 1..Read : argv.opts[q].key = "i" /\ OutOfLong(argv.opts[q].arg.value)

ParseInv ==
  /\ TodoInv /\ OdaInv /\ VerInv /\ (prog = "stats" => MacInv /\ NidInv /\ LidInv /\ GapInv)
  /\ AddedInv /\ CntInv /\ GoodInv /\ RangeInv

-----------------------------------------------------------------------------
(* What _parse_opt does with one option *)

Fields ==
  {"oda", "ver", "what", "dir", "nid", "mac", "lid", "all", "gap", "nwinfo", "numeric", "cnt",
   "verbose"}

LEMMA FieldNames == DOMAIN Defaults = Fields
BY DEF Defaults, Fields

LEMMA FieldSet ==
  ASSUME ConfInv, NEW f \in Fields, NEW v, conf' = [conf EXCEPT ![f] = v]
  PROVE  ConfInv' /\ conf'[f] = v /\ \A g \in Fields : g # f => conf'[g] = conf[g]
BY FieldNames DEF ConfInv

\* The argument of an option has the type that _parse_opt reads.
LEMMA OptionArg ==
  ASSUME prog \in Programs, NEW o \in OptionsOf(prog)
  PROVE  /\ o.key = "d" => o.arg \in Seq(Nat)
         /\ prog = "stats" /\ o.key \in {"m", "n"} => o.arg \in Seq(Nat)
         /\ prog = "stats" /\ o.key \in {"i", "g"} => o.arg \in Numbers
BY DEF Programs, OptionsOf, Switches

\* The fields after one more option, each by the option that writes it.
OptionRead ==
  /\ todo # <<>> /\ Continue /\ ConfInv' /\ Good(Option)
  /\ conf'.oda = IF Option.key \in {"b", "l", "d"} THEN OdaOf(Option) ELSE conf.oda
  /\ conf'.ver = IF Option.key \in {"0", "1"} THEN Option.key ELSE conf.ver
  /\ conf'.mac = IF prog = "stats" /\ Option.key = "m" THEN BytesAt(Option.arg, 6) ELSE conf.mac
  /\ conf'.nid = IF prog = "stats" /\ Option.key = "n" THEN BytesAt(Option.arg, 7) ELSE conf.nid
  /\ conf'.lid = IF prog = "stats" /\ Option.key = "i" THEN Int32(Option.arg.value) ELSE conf.lid
  /\ conf'.gap = IF prog = "stats" /\ Option.key = "g" THEN GapOf(Option) ELSE conf.gap
  /\ conf'.what = IF prog = "stats" /\ Option.key = "N" THEN conf.what \cup {"nw"}
                  ELSE IF prog = "stats" /\ Option.key = "L" THEN conf.what \cup {"link"}
                  ELSE conf.what
  /\ conf'.dir = IF prog = "stats" /\ Option.key = "r" THEN conf.dir \cup {"rx"}
                 ELSE IF prog = "stats" /\ Option.key = "t" THEN conf.dir \cup {"tx"}
                 ELSE conf.dir
  /\ conf'.all = IF prog = "stats" /\ Option.key = "a" THEN TRUE ELSE conf.all
  /\ conf'.nwinfo = IF prog = "discover" /\ Option.key = "n" THEN FALSE ELSE conf.nwinfo
  /\ conf'.numeric = IF prog = "discover" /\ Option.key = "N" THEN TRUE ELSE conf.numeric
  /\ conf'.cnt = IF prog = "loop" /\ Option.key \in {"r", "R", "i", "c"}
                 THEN Select(conf.cnt, OperationOf[Option.key]) ELSE conf.cnt
  /\ set' = IF prog = "stats" /\ Option.key \in {"m", "n"} THEN set \cup {Option.key} ELSE set
  /\ erange' = IF prog = "stats" /\ Option.key = "i" THEN (erange \/ OutOfLong(Option.arg.value))
               ELSE erange

\* The options without an argument.
LEMMA SwitchRead ==
  ASSUME ConfInv, pc = "options", prog \in Programs,
         Oda \/ Version \/ StatsFlags \/ DiscoverFlags \/ LoopFlags
  PROVE  OptionRead
<1>1. todo # <<>> /\ Continue /\ set' = set /\ erange' = erange
  BY DEF Oda, Version, StatsFlags, DiscoverFlags, LoopFlags, Flag, Has
<1>2. CASE Option.key = "b" /\ conf' = [conf EXCEPT !.oda = Broadcast]
  <2>1. ConfInv' /\ conf'.oda = Broadcast /\ \A g \in Fields : g # "oda" => conf'[g] = conf[g]
    BY <1>2, FieldSet DEF Fields
  <2> QED
    BY <1>1, <1>2, <2>1 DEF OptionRead, Good, OdaOf, Fields
<1>3. CASE Option.key = "l" /\ conf' = [conf EXCEPT !.oda = Local]
  <2>1. ConfInv' /\ conf'.oda = Local /\ \A g \in Fields : g # "oda" => conf'[g] = conf[g]
    BY <1>3, FieldSet DEF Fields
  <2> QED
    BY <1>1, <1>3, <2>1 DEF OptionRead, Good, OdaOf, Fields
<1>4. CASE prog = "stats" /\ Option.key = "N" /\ conf' = [conf EXCEPT !.what = @ \cup {"nw"}]
  <2>1. ConfInv' /\ conf'.what = conf.what \cup {"nw"} /\ \A g \in Fields : g # "what" => conf'[g] = conf[g]
    BY <1>4, FieldSet DEF Fields
  <2> QED
    BY <1>1, <1>4, <2>1 DEF OptionRead, Good, OdaOf, Fields
<1>5. CASE prog = "stats" /\ Option.key = "L" /\ conf' = [conf EXCEPT !.what = @ \cup {"link"}]
  <2>1. ConfInv' /\ conf'.what = conf.what \cup {"link"} /\ \A g \in Fields : g # "what" => conf'[g] = conf[g]
    BY <1>5, FieldSet DEF Fields
  <2> QED
    BY <1>1, <1>5, <2>1 DEF OptionRead, Good, OdaOf, Fields
<1>6. CASE prog = "stats" /\ Option.key = "r" /\ conf' = [conf EXCEPT !.dir = @ \cup {"rx"}]
  <2>1. ConfInv' /\ conf'.dir = conf.dir \cup {"rx"} /\ \A g \in Fields : g # "dir" => conf'[g] = conf[g]
    BY <1>6, FieldSet DEF Fields
  <2> QED
    BY <1>1, <1>6, <2>1 DEF OptionRead, Good, OdaOf, Fields
<1>7. CASE prog = "stats" /\ Option.key = "t" /\ conf' = [conf EXCEPT !.dir = @ \cup {"tx"}]
  <2>1. ConfInv' /\ conf'.dir = conf.dir \cup {"tx"} /\ \A g \in Fields : g # "dir" => conf'[g] = conf[g]
    BY <1>7, FieldSet DEF Fields
  <2> QED
    BY <1>1, <1>7, <2>1 DEF OptionRead, Good, OdaOf, Fields
<1>8. CASE prog = "stats" /\ Option.key = "a" /\ conf' = [conf EXCEPT !.all = TRUE]
  <2>1. ConfInv' /\ conf'.all = TRUE /\ \A g \in Fields : g # "all" => conf'[g] = conf[g]
    BY <1>8, FieldSet DEF Fields
  <2> QED
    BY <1>1, <1>8, <2>1 DEF OptionRead, Good, OdaOf, Fields
<1>9. CASE prog = "discover" /\ Option.key = "n" /\ conf' = [conf EXCEPT !.nwinfo = FALSE]
  <2>1. ConfInv' /\ conf'.nwinfo = FALSE /\ \A g \in Fields : g # "nwinfo" => conf'[g] = conf[g]
    BY <1>9, FieldSet DEF Fields
  <2> QED
    BY <1>1, <1>9, <2>1 DEF OptionRead, Good, OdaOf, Fields
<1>10. CASE prog = "discover" /\ Option.key = "N" /\ conf' = [conf EXCEPT !.numeric = TRUE]
  <2>1. ConfInv' /\ conf'.numeric = TRUE /\ \A g \in Fields : g # "numeric" => conf'[g] = conf[g]
    BY <1>10, FieldSet DEF Fields
  <2> QED
    BY <1>1, <1>10, <2>1 DEF OptionRead, Good, OdaOf, Fields
<1>11. CASE prog = "loop" /\ Option.key = "v" /\ conf' = [conf EXCEPT !.verbose = TRUE]
  <2>1. ConfInv' /\ conf'.verbose = TRUE /\ \A g \in Fields : g # "verbose" => conf'[g] = conf[g]
    BY <1>11, FieldSet DEF Fields
  <2> QED
    BY <1>1, <1>11, <2>1 DEF OptionRead, Good, OdaOf, Fields
<1>12. CASE Option.key \in {"0", "1"} /\ conf' = [conf EXCEPT !.ver = Option.key]
  <2>1. ConfInv' /\ conf'.ver = Option.key /\ \A g \in Fields : g # "ver" => conf'[g] = conf[g]
    BY <1>12, FieldSet DEF Fields
  <2> QED
    BY <1>1, <1>12, <2>1 DEF OptionRead, Good, Fields
<1>13. CASE /\ prog = "loop" /\ Option.key \in {"r", "R", "i", "c"}
           /\ conf' = [conf EXCEPT !.cnt = Select(conf.cnt, OperationOf[Option.key])]
  <2>1. /\ ConfInv' /\ conf'.cnt = Select(conf.cnt, OperationOf[Option.key])
        /\ \A g \in Fields : g # "cnt" => conf'[g] = conf[g]
    BY <1>13, FieldSet DEF Fields
  <2> QED
    BY <1>1, <1>13, <2>1 DEF OptionRead, Good, Fields
<1>14. CASE Oda
  BY <1>14, <1>2, <1>3 DEF Oda, Flag, Has
<1>15. CASE Version
  BY <1>15, <1>12 DEF Version, Flag, Has
<1>16. CASE StatsFlags
  BY <1>16, <1>4, <1>5, <1>6, <1>7, <1>8 DEF StatsFlags, Flag, Has
<1>17. CASE DiscoverFlags
  BY <1>17, <1>9, <1>10 DEF DiscoverFlags, Flag, Has
<1>18. CASE LoopFlags
  BY <1>18, <1>11, <1>13 DEF LoopFlags, Flag, Has, OperationOf
<1> QED
  BY <1>14, <1>15, <1>16, <1>17, <1>18

\* The options with an argument, when _parse_opt accepts it.
LEMMA ArgumentRead ==
  ASSUME ConfInv, pc = "options", pc' = "options", prog \in Programs,
         Option \in OptionsOf(prog), Addresses \/ Lid \/ Gap
  PROVE  OptionRead
<1>1. todo # <<>> /\ Continue
  BY DEF Addresses, Address, Lid, Gap, Has, Refuse
<1>2. /\ Option.key = "d" => Option.arg \in Seq(Nat)
      /\ prog = "stats" /\ Option.key \in {"m", "n"} => Option.arg \in Seq(Nat)
      /\ prog = "stats" /\ Option.key \in {"i", "g"} => Option.arg \in Numbers
  BY OptionArg
<1>4. CASE Address(Programs, "d", 6, "oda")
  <2>1. Option.arg \in Seq(Nat)
    BY <1>2, <1>4 DEF Address, Has
  <2>2. /\ Option.key = "d" /\ WellFormed(Option.arg, 6) /\ set' = set /\ erange' = erange
        /\ conf' = [conf EXCEPT !.oda = BytesAt(Option.arg, 6)]
    <3>1. ParseAddress(Option.arg, 6).ok
      BY <1>4 DEF Address, Refuse
    <3>2. /\ WellFormed(Option.arg, 6)
          /\ ParseAddress(Option.arg, 6).bytes = BytesAt(Option.arg, 6)
      BY <2>1, <3>1, AddressParsed
    <3> QED
      BY <1>4, <3>1, <3>2 DEF Address, Has
  <2>3. ConfInv' /\ conf'.oda = BytesAt(Option.arg, 6) /\ \A g \in Fields : g # "oda" => conf'[g] = conf[g]
    BY <2>2, FieldSet DEF Fields
  <2> QED
    BY <1>1, <2>2, <2>3 DEF OptionRead, Good, OdaOf, Fields
<1>5. CASE Address({"stats"}, "m", 6, "mac")
  <2>1. Option.arg \in Seq(Nat)
    BY <1>2, <1>5 DEF Address, Has
  <2>2. /\ prog = "stats" /\ Option.key = "m" /\ WellFormed(Option.arg, 6)
        /\ set' = set \cup {"m"} /\ erange' = erange
        /\ conf' = [conf EXCEPT !.mac = BytesAt(Option.arg, 6)]
    <3>1. ParseAddress(Option.arg, 6).ok
      BY <1>5 DEF Address, Refuse
    <3>2. /\ WellFormed(Option.arg, 6)
          /\ ParseAddress(Option.arg, 6).bytes = BytesAt(Option.arg, 6)
      BY <2>1, <3>1, AddressParsed
    <3> QED
      BY <1>5, <3>1, <3>2 DEF Address, Has
  <2>3. ConfInv' /\ conf'.mac = BytesAt(Option.arg, 6) /\ \A g \in Fields : g # "mac" => conf'[g] = conf[g]
    BY <2>2, FieldSet DEF Fields
  <2> QED
    BY <1>1, <2>2, <2>3 DEF OptionRead, Good, Fields
<1>6. CASE Address({"stats"}, "n", 7, "nid")
  <2>1. Option.arg \in Seq(Nat)
    BY <1>2, <1>6 DEF Address, Has
  <2>2. /\ prog = "stats" /\ Option.key = "n" /\ WellFormed(Option.arg, 7)
        /\ set' = set \cup {"n"} /\ erange' = erange
        /\ conf' = [conf EXCEPT !.nid = BytesAt(Option.arg, 7)]
    <3>1. ParseAddress(Option.arg, 7).ok
      BY <1>6 DEF Address, Refuse
    <3>2. /\ WellFormed(Option.arg, 7)
          /\ ParseAddress(Option.arg, 7).bytes = BytesAt(Option.arg, 7)
      BY <2>1, <3>1, AddressParsed
    <3> QED
      BY <1>6, <3>1, <3>2 DEF Address, Has
  <2>3. ConfInv' /\ conf'.nid = BytesAt(Option.arg, 7) /\ \A g \in Fields : g # "nid" => conf'[g] = conf[g]
    BY <2>2, FieldSet DEF Fields
  <2> QED
    BY <1>1, <2>2, <2>3 DEF OptionRead, Good, Fields
<1>7. CASE Lid
  <2>1. /\ prog = "stats" /\ Option.key = "i" /\ Option.arg.number
        /\ Int32(Option.arg.value) \in 0..255
        /\ conf' = [conf EXCEPT !.lid = Int32(Option.arg.value)]
        /\ erange' = (erange \/ OutOfLong(Option.arg.value)) /\ set' = set
    BY <1>7 DEF Lid, Has, Refuse, LidAllowed
  <2>2. ConfInv' /\ conf'.lid = Int32(Option.arg.value) /\ \A g \in Fields : g # "lid" => conf'[g] = conf[g]
    BY <2>1, FieldSet DEF Fields
  <2> QED
    BY <1>1, <2>1, <2>2 DEF OptionRead, Good, Fields
<1>8. CASE Gap
  <2>1. /\ prog = "stats" /\ Option.key = "g" /\ ~Option.arg.rest
        /\ conf' = [conf EXCEPT !.gap = GapOf(Option)]
        /\ erange' = erange /\ set' = set
    <3>1. Option.arg.number => GapOf(Option) = Option.arg.value % W32
      BY DEF GapOf
    <3>2. ~Option.arg.number => GapOf(Option) = 0 % W32
      BY WidthAssumption DEF GapOf
    <3> QED
      BY <1>8, <3>1, <3>2 DEF Gap, Has, Refuse
  <2>2. ConfInv' /\ conf'.gap = GapOf(Option) /\ \A g \in Fields : g # "gap" => conf'[g] = conf[g]
    BY <2>1, FieldSet DEF Fields
  <2> QED
    BY <1>1, <2>1, <2>2 DEF OptionRead, Good, Fields
<1> QED
  BY <1>4, <1>5, <1>6, <1>7, <1>8 DEF Addresses

\* The last step of the loop.
LEMMA EndRead ==
  ASSUME pc = "options", pc' = "options"
  PROVE  ~End
BY DEF End, Refuse

LEMMA OptionIsRead ==
  ASSUME TodoInv, ConfInv, pc = "options", pc' = "options", ParseStep
  PROVE  OptionRead
<1>1. prog \in Programs
  BY ArgvType DEF TodoInv
<1>2. CASE Addresses \/ Lid \/ Gap
  <2>1. todo # <<>>
    BY <1>2 DEF Addresses, Address, Lid, Gap, Has
  <2>2. Option \in OptionsOf(prog)
    BY <2>1, HeadTailProperties DEF TodoInv, Option
  <2> QED
    BY <1>1, <1>2, <2>2, ArgumentRead
<1> QED
  BY <1>1, <1>2, SwitchRead, EndRead DEF ParseStep

-----------------------------------------------------------------------------
(* ParseInv holds in front of every option *)

\* Of the options for one field the last one wins.
LEMMA LastWins ==
  ASSUME ConfInv, ParseInv, OptionRead
  PROVE  OdaInv' /\ VerInv' /\ (prog = "stats" => MacInv' /\ NidInv' /\ LidInv' /\ GapInv')
<1>1. /\ Read \in Nat /\ Read' = Read + 1 /\ argv' = argv /\ Read + 1 \in Places
      /\ argv.opts[Read + 1] = Option
  BY ReadOption DEF ParseInv, OptionRead, Places
<1>2. OdaInv'
  <2> DEFINE val == [q \in Places |-> OdaOf(argv.opts[q])]
  <2>1. val[Read + 1] = OdaOf(Option) /\ val' = val
    BY <1>1 DEF Places
  <2> HIDE DEF val
  <2>2. Holds(argv.opts, Read, {"b", "l", "d"}, conf.oda, Broadcast, val)
    BY Zenon DEF ParseInv, OdaInv, val
  <2>3. conf'.oda = IF Option.key \in {"b", "l", "d"} THEN val[Read + 1] ELSE conf.oda
    BY <2>1 DEF OptionRead
  <2>4. Holds(argv.opts, Read + 1, {"b", "l", "d"}, conf'.oda, Broadcast, val)
    BY <1>1, <2>2, <2>3, OneMore
  <2>5. Holds(argv'.opts, Read', {"b", "l", "d"}, conf'.oda, Broadcast, val')
    BY <1>1, <2>1, <2>4
  <2> QED
    BY <2>5 DEF OdaInv, val
<1>3. VerInv'
  <2> DEFINE val == [q \in Places |-> argv.opts[q].key]
  <2>1. val[Read + 1] = Option.key /\ val' = val
    BY <1>1 DEF Places
  <2> HIDE DEF val
  <2>2. Holds(argv.opts, Read, {"0", "1"}, conf.ver, "1", val)
    BY Zenon DEF ParseInv, VerInv, val
  <2>3. conf'.ver = IF Option.key \in {"0", "1"} THEN val[Read + 1] ELSE conf.ver
    BY <2>1 DEF OptionRead
  <2>4. Holds(argv.opts, Read + 1, {"0", "1"}, conf'.ver, "1", val)
    BY <1>1, <2>2, <2>3, OneMore
  <2>5. Holds(argv'.opts, Read', {"0", "1"}, conf'.ver, "1", val')
    BY <1>1, <2>1, <2>4
  <2> QED
    BY <2>5 DEF VerInv, val
<1>4. ASSUME prog = "stats" PROVE MacInv'
  <2> DEFINE val == [q \in Places |-> BytesAt(argv.opts[q].arg, 6)]
  <2>1. val[Read + 1] = BytesAt(Option.arg, 6) /\ val' = val
    BY <1>1 DEF Places
  <2> HIDE DEF val
  <2>2. Holds(argv.opts, Read, {"m"}, conf.mac, NoMac, val)
    BY <1>4, Zenon DEF ParseInv, MacInv, val
  <2>3. conf'.mac = IF Option.key \in {"m"} THEN val[Read + 1] ELSE conf.mac
    BY <1>4, <2>1 DEF OptionRead
  <2>4. Holds(argv.opts, Read + 1, {"m"}, conf'.mac, NoMac, val)
    BY <1>1, <2>2, <2>3, OneMore
  <2>5. Holds(argv'.opts, Read', {"m"}, conf'.mac, NoMac, val')
    BY <1>1, <2>1, <2>4
  <2> QED
    BY <2>5 DEF MacInv, val
<1>5. ASSUME prog = "stats" PROVE NidInv'
  <2> DEFINE val == [q \in Places |-> BytesAt(argv.opts[q].arg, 7)]
  <2>1. val[Read + 1] = BytesAt(Option.arg, 7) /\ val' = val
    BY <1>1 DEF Places
  <2> HIDE DEF val
  <2>2. Holds(argv.opts, Read, {"n"}, conf.nid, NoNid, val)
    BY <1>5, Zenon DEF ParseInv, NidInv, val
  <2>3. conf'.nid = IF Option.key \in {"n"} THEN val[Read + 1] ELSE conf.nid
    BY <1>5, <2>1 DEF OptionRead
  <2>4. Holds(argv.opts, Read + 1, {"n"}, conf'.nid, NoNid, val)
    BY <1>1, <2>2, <2>3, OneMore
  <2>5. Holds(argv'.opts, Read', {"n"}, conf'.nid, NoNid, val')
    BY <1>1, <2>1, <2>4
  <2> QED
    BY <2>5 DEF NidInv, val
<1>6. ASSUME prog = "stats" PROVE LidInv'
  <2> DEFINE val == [q \in Places |-> Int32(argv.opts[q].arg.value)]
  <2>1. val[Read + 1] = Int32(Option.arg.value) /\ val' = val
    BY <1>1 DEF Places
  <2> HIDE DEF val
  <2>2. Holds(argv.opts, Read, {"i"}, conf.lid, -1, val)
    BY <1>6, Zenon DEF ParseInv, LidInv, val
  <2>3. conf'.lid = IF Option.key \in {"i"} THEN val[Read + 1] ELSE conf.lid
    BY <1>6, <2>1 DEF OptionRead
  <2>4. Holds(argv.opts, Read + 1, {"i"}, conf'.lid, -1, val)
    BY <1>1, <2>2, <2>3, OneMore
  <2>5. Holds(argv'.opts, Read', {"i"}, conf'.lid, -1, val')
    BY <1>1, <2>1, <2>4
  <2> QED
    BY <2>5 DEF LidInv, val
<1>7. ASSUME prog = "stats" PROVE GapInv'
  <2> DEFINE val == [q \in Places |-> GapOf(argv.opts[q])]
  <2>1. val[Read + 1] = GapOf(Option) /\ val' = val
    BY <1>1 DEF Places
  <2> HIDE DEF val
  <2>2. Holds(argv.opts, Read, {"g"}, conf.gap, DefaultGap, val)
    BY <1>7, Zenon DEF ParseInv, GapInv, val
  <2>3. conf'.gap = IF Option.key \in {"g"} THEN val[Read + 1] ELSE conf.gap
    BY <1>7, <2>1 DEF OptionRead
  <2>4. Holds(argv.opts, Read + 1, {"g"}, conf'.gap, DefaultGap, val)
    BY <1>1, <2>2, <2>3, OneMore
  <2>5. Holds(argv'.opts, Read', {"g"}, conf'.gap, DefaultGap, val')
    BY <1>1, <2>1, <2>4
  <2> QED
    BY <2>5 DEF GapInv, val
<1> QED
  BY <1>2, <1>3, <1>4, <1>5, <1>6, <1>7

LEMMA AddedUp ==
  ASSUME ConfInv, ParseInv, OptionRead
  PROVE  AddedInv'
<1>1. /\ Read \in Nat /\ Read' = Read + 1 /\ argv' = argv /\ prog' = prog
      /\ argv.opts[Read + 1] = Option
  BY ReadOption DEF ParseInv, OptionRead
<1>2. \A key : Mentioned(key)' <=> Mentioned(key) \/ Option.key = key
  BY <1>1, OneMore DEF Mentioned
<1>3. CASE prog = "stats"
  <2>1. conf'.what \subseteq {"nw", "link"} /\ conf'.dir \subseteq {"tx", "rx"} /\ set' \subseteq {"n", "m"}
    BY <1>3 DEF ParseInv, AddedInv, OptionRead
  <2>2. ("nw" \in conf'.what <=> Mentioned("N")') /\ ("link" \in conf'.what <=> Mentioned("L")')
    BY <1>2, <1>3 DEF ParseInv, AddedInv, OptionRead
  <2>3. ("rx" \in conf'.dir <=> Mentioned("r")') /\ ("tx" \in conf'.dir <=> Mentioned("t")')
    BY <1>2, <1>3 DEF ParseInv, AddedInv, OptionRead
  <2>4. conf'.all \in BOOLEAN /\ (conf'.all <=> Mentioned("a")')
    BY <1>2, <1>3 DEF ParseInv, AddedInv, OptionRead
  <2>5. ("n" \in set' <=> Mentioned("n")') /\ ("m" \in set' <=> Mentioned("m")')
    BY <1>2, <1>3 DEF ParseInv, AddedInv, OptionRead
  <2> QED
    BY <1>1, <1>3, <2>1, <2>2, <2>3, <2>4, <2>5 DEF AddedInv
<1>4. CASE prog = "discover"
  <2>1. conf'.nwinfo \in BOOLEAN /\ (conf'.nwinfo <=> ~Mentioned("n")')
    BY <1>2, <1>4 DEF ParseInv, AddedInv, OptionRead
  <2>2. conf'.numeric \in BOOLEAN /\ (conf'.numeric <=> Mentioned("N")')
    BY <1>2, <1>4 DEF ParseInv, AddedInv, OptionRead
  <2> QED
    BY <1>1, <1>4, <2>1, <2>2 DEF AddedInv
<1> QED
  BY <1>1, <1>3, <1>4 DEF AddedInv

\* The counts of the operations: what a count of one and of two means.
LEMMA Counted ==
  ASSUME ConfInv, ParseInv, OptionRead, conf.cnt \in [Operations -> Nat]
  PROVE  CntInv' /\ conf'.cnt \in [Operations -> Nat]
<1>1. /\ Read \in Nat /\ Read' = Read + 1 /\ argv' = argv /\ prog' = prog
      /\ argv.opts[Read + 1] = Option
  BY ReadOption DEF ParseInv, OptionRead
<1>2. \A key : Mentioned(key)' <=> Mentioned(key) \/ Option.key = key
  BY <1>1, OneMore DEF Mentioned
<1> DEFINE c == conf.cnt
<1>3. CASE ~(prog = "loop" /\ Option.key \in {"r", "R", "i", "c"})
  BY <1>1, <1>2, <1>3 DEF ParseInv, CntInv, OptionRead
<1>4. CASE prog = "loop" /\ Option.key = "r"
  <2>1. conf'.cnt = [c EXCEPT !["request"] = @ + 2]
    BY <1>4 DEF OptionRead, Select, OperationOf
  <2>2. /\ conf'.cnt \in [Operations -> Nat] /\ conf'.cnt["request"] = c["request"] + 2
        /\ \A o \in {"response", "indication", "confirm"} : conf'.cnt[o] = c[o]
    BY <2>1 DEF Operations
  <2>3. c["request"] \in Nat
    BY DEF Operations
  <2> QED
    BY <1>1, <1>2, <1>4, <2>2, <2>3 DEF ParseInv, CntInv
<1>5. CASE prog = "loop" /\ Option.key = "R"
  <2>1. conf'.cnt = [c EXCEPT !["request"] = IF @ = 1 THEN 0 ELSE @, !["response"] = @ + 1]
    BY <1>5 DEF OptionRead, Select, OperationOf
  <2>2. /\ conf'.cnt \in [Operations -> Nat]
        /\ conf'.cnt["request"] = IF c["request"] = 1 THEN 0 ELSE c["request"]
        /\ conf'.cnt["response"] = c["response"] + 1
        /\ \A o \in {"indication", "confirm"} : conf'.cnt[o] = c[o]
    BY <2>1 DEF Operations
  <2>3. c["request"] \in Nat /\ c["response"] \in Nat
    BY DEF Operations
  <2> QED
    BY <1>1, <1>2, <1>5, <2>2, <2>3 DEF ParseInv, CntInv
<1>6. CASE prog = "loop" /\ Option.key = "i"
  <2>1. conf'.cnt = [c EXCEPT !["request"] = IF @ = 1 THEN 0 ELSE @, !["indication"] = @ + 1]
    BY <1>6 DEF OptionRead, Select, OperationOf
  <2>2. /\ conf'.cnt \in [Operations -> Nat]
        /\ conf'.cnt["request"] = IF c["request"] = 1 THEN 0 ELSE c["request"]
        /\ conf'.cnt["indication"] = c["indication"] + 1
        /\ \A o \in {"response", "confirm"} : conf'.cnt[o] = c[o]
    BY <2>1 DEF Operations
  <2>3. c["request"] \in Nat /\ c["indication"] \in Nat
    BY DEF Operations
  <2> QED
    BY <1>1, <1>2, <1>6, <2>2, <2>3 DEF ParseInv, CntInv
<1>7. CASE prog = "loop" /\ Option.key = "c"
  <2>1. conf'.cnt = [c EXCEPT !["request"] = IF @ = 1 THEN 0 ELSE @, !["confirm"] = @ + 1]
    BY <1>7 DEF OptionRead, Select, OperationOf
  <2>2. /\ conf'.cnt \in [Operations -> Nat]
        /\ conf'.cnt["request"] = IF c["request"] = 1 THEN 0 ELSE c["request"]
        /\ conf'.cnt["confirm"] = c["confirm"] + 1
        /\ \A o \in {"response", "indication"} : conf'.cnt[o] = c[o]
    BY <2>1 DEF Operations
  <2>3. c["request"] \in Nat /\ c["confirm"] \in Nat
    BY DEF Operations
  <2> QED
    BY <1>1, <1>2, <1>7, <2>2, <2>3 DEF ParseInv, CntInv
<1> QED
  BY <1>3, <1>4, <1>5, <1>6, <1>7

LEMMA LocalAddresses ==
  /\ Broadcast \in Seq(Byte) /\ Len(Broadcast) = 6
  /\ Local \in Seq(Byte) /\ Len(Local) = 6
<1>1. 255 \in Byte /\ 0 \in Byte /\ 176 \in Byte /\ 82 \in Byte /\ 1 \in Byte
  BY DEF Byte
<1> QED
  BY <1>1 DEF Broadcast, Local

LEMMA ParsedOn ==
  ASSUME ConfInv, CmdTypeOK, ParseInv, pc = "options", pc' = "options", ParseStep
  PROVE  ConfInv' /\ CmdTypeOK' /\ ParseInv'
<1>1. OptionRead
  BY OptionIsRead DEF ParseInv
<1>2. /\ TodoInv' /\ Read \in Nat /\ Read' = Read + 1 /\ argv' = argv /\ prog' = prog
      /\ argv.opts[Read + 1] = Option /\ Option \in OptionsOf(prog)
  BY <1>1, ReadOption DEF ParseInv, OptionRead
<1>3. prog \in Programs
  BY ArgvType DEF ParseInv, TodoInv
<1>4. GoodInv'
  <2>1. \A q \in 1..Read + 1 : Good(argv.opts[q])
    <3>1. \A q \in 1..Read + 1 : q \in 1..Read \/ q = Read + 1
      BY <1>2
    <3> QED
      BY <1>1, <1>2, <3>1 DEF ParseInv, GoodInv, OptionRead
  <2> QED
    BY <1>2, <2>1 DEF GoodInv, Good
<1>5. RangeInv'
  <2>1. CASE prog = "stats" /\ Option.key = "i" /\ OutOfLong(Option.arg.value)
    <3>1. Read + 1 \in 1..Read'
      BY <1>2
    <3> QED
      BY <1>2, <2>1, <3>1 DEF RangeInv
  <2>2. CASE ~(prog = "stats" /\ Option.key = "i" /\ OutOfLong(Option.arg.value))
    <3>1. erange' => erange
      BY <1>1, <2>2 DEF OptionRead
    <3>2. 1..Read \subseteq 1..Read'
      BY <1>2
    <3> QED
      BY <1>2, <3>1, <3>2 DEF ParseInv, RangeInv
  <2> QED
    BY <2>1, <2>2
<1>6. CntInv' /\ conf'.cnt \in [Operations -> Nat]
  BY <1>1, Counted DEF CmdTypeOK
<1>7. ParseInv'
  BY <1>1, <1>2, <1>4, <1>5, <1>6, LastWins, AddedUp DEF ParseInv
<1>8. CmdTypeOK'
  <2>1. conf'.what \subseteq {"nw", "link"} /\ conf'.dir \subseteq {"tx", "rx"} /\ set' \subseteq {"n", "m"}
    BY <1>1 DEF OptionRead, CmdTypeOK
  <2>2. conf'.oda \in Seq(Byte) /\ Len(conf'.oda) = 6
    <3>1. CASE Option.key = "d"
      <4>1. Option.arg \in Seq(Nat) /\ WellFormed(Option.arg, 6)
        BY <1>1, <1>2, <1>3, <3>1, OptionArg DEF OptionRead, Good
      <4>2. conf'.oda = BytesAt(Option.arg, 6)
        BY <1>1, <3>1 DEF OptionRead, OdaOf
      <4> QED
        BY <4>1, <4>2, AddressParsed
    <3>2. CASE Option.key \in {"b", "l"}
      <4>1. conf'.oda \in {Broadcast, Local}
        BY <1>1, <3>2 DEF OptionRead, OdaOf
      <4> QED
        BY <4>1, LocalAddresses
    <3>3. CASE Option.key \notin {"b", "l", "d"}
      BY <1>1, <3>3 DEF OptionRead, CmdTypeOK
    <3> QED
      BY <3>1, <3>2, <3>3
  <2>3. conf'.nid \in Seq(Byte) /\ Len(conf'.nid) = 7
    <3>1. CASE prog = "stats" /\ Option.key = "n"
      <4>1. Option.arg \in Seq(Nat) /\ WellFormed(Option.arg, 7)
        BY <1>1, <1>2, <1>3, <3>1, OptionArg DEF OptionRead, Good
      <4>2. conf'.nid = BytesAt(Option.arg, 7)
        BY <1>1, <3>1 DEF OptionRead
      <4> QED
        BY <4>1, <4>2, AddressParsed
    <3>2. CASE ~(prog = "stats" /\ Option.key = "n")
      BY <1>1, <3>2 DEF OptionRead, CmdTypeOK
    <3> QED
      BY <3>1, <3>2
  <2>4. conf'.lid \in -1..255
    BY <1>1 DEF OptionRead, Good, CmdTypeOK
  <2>5. conf'.gap \in 0..W32 - 1
    <3>1. CASE prog = "stats" /\ Option.key = "g"
      <4>1. Option.arg \in Numbers
        BY <1>2, <1>3, <3>1, OptionArg
      <4>2. GapOf(Option) \in 0..W32 - 1
        BY <4>1, WidthAssumption DEF Numbers, GapOf
      <4> QED
        BY <1>1, <3>1, <4>2 DEF OptionRead
    <3>2. CASE ~(prog = "stats" /\ Option.key = "g")
      BY <1>1, <3>2 DEF OptionRead, CmdTypeOK
    <3> QED
      BY <3>1, <3>2
  <2> QED
    BY <1>6, <2>1, <2>2, <2>3, <2>4, <2>5 DEF CmdTypeOK
<1> QED
  BY <1>1, <1>7, <1>8 DEF OptionRead

-----------------------------------------------------------------------------
(* The end of the command line: what was read last, and what was read at all *)

All == Len(argv.opts)

LEMMA FinalIs ==
  ASSUME argv \in Argvs, NEW K, NEW q, LastOf(argv.opts, All, K, q)
  PROVE  Given(K) /\ Final(K) = argv.opts[q]
<1>1. argv.opts \in Seq(OptionsOf(prog)) /\ DOMAIN argv.opts = 1..All /\ All \in Nat
  BY ArgvType DEF All
<1>2. q \in Positions(K) /\ Positions(K) \subseteq 1..All
  BY <1>1 DEF LastOf, Positions
<1>3. \A y \in Positions(K) : q >= y
  <2>1. ASSUME NEW y \in Positions(K), y > q PROVE FALSE
    <3>1. y \in q + 1..All /\ argv.opts[y].key \in K
      BY <1>1, <1>2, <2>1 DEF Positions
    <3> QED
      BY <3>1 DEF LastOf
  <2> QED
    BY <1>1, <1>2, <2>1
<1>4. Max(Positions(K)) = q
  <2>1. ASSUME NEW x \in Positions(K), \A y \in Positions(K) : x >= y PROVE x = q
    BY <1>1, <1>2, <1>3, <2>1
  <2> QED
    BY <1>2, <1>3, <2>1 DEF Max
<1> QED
  BY <1>2, <1>4 DEF Given, Final

LEMMA GivenIs ==
  ASSUME argv \in Argvs
  PROVE  /\ \A K : Given(K) <=> \E q \in 1..All : argv.opts[q].key \in K
         /\ \A K, k : k \in Named(K) <=> k \in K /\ Among(argv.opts, All, k)
<1>1. DOMAIN argv.opts = 1..All
  BY ArgvType DEF All
<1> QED
  BY <1>1 DEF Given, Positions, Named, Among

\* In the end, a field where the last option counts holds what the last one gave.
LEMMA HeldIs ==
  ASSUME argv \in Argvs, NEW K, NEW x, NEW d, NEW val, Holds(argv.opts, All, K, x, d, val)
  PROVE  \/ ~Given(K) /\ x = d
         \/ \E q \in 1..All : /\ LastOf(argv.opts, All, K, q) /\ Given(K)
                              /\ Final(K) = argv.opts[q] /\ x = val[q]
<1>1. CASE x = d /\ \A q \in 1..All : argv.opts[q].key \notin K
  BY <1>1, GivenIs
<1>2. CASE \E q \in 1..All : LastOf(argv.opts, All, K, q) /\ x = val[q]
  BY <1>2, FinalIs
<1> QED
  BY <1>1, <1>2 DEF Holds

\* Numbers that fit are not changed.
LEMMA Fits ==
  /\ \A v \in -(W32 \div 2)..(W32 \div 2) - 1 : Int32(v) = v /\ ~OutOfLong(v)
  /\ \A v \in 0..W32 - 1 : v % W32 = v /\ v < W64 /\ v > -W64
<1>1. PICK h \in Nat : W32 = 2 * h /\ h > 256
  BY WidthAssumption
<1>2. PICK g \in Nat : W64 = 2 * g /\ g >= h
  BY <1>1, WidthAssumption
<1>3. W32 \div 2 = h /\ W64 \div 2 = g
  BY <1>1, <1>2
<1>4. \A v \in 0..W32 - 1 : v % W32 = v
  BY WidthAssumption
<1>5. \A v \in -h..-1 : v % W32 = v + W32
  BY <1>1, WidthAssumption
<1>6. ASSUME NEW v \in -h..h - 1 PROVE Int32(v) = v /\ ~OutOfLong(v)
  <2>1. v < g /\ ~(v < -g) /\ v \in Int
    BY <1>1, <1>2
  <2>2. Int32(v) = IF v % W32 < h THEN v % W32 ELSE (v % W32) - W32
    BY <1>3, <2>1 DEF Int32
  <2>3. CASE v >= 0
    BY <1>1, <1>3, <1>4, <2>1, <2>2, <2>3 DEF OutOfLong
  <2>4. CASE v < 0
    BY <1>1, <1>3, <1>5, <2>1, <2>2, <2>4 DEF OutOfLong
  <2> QED
    BY <2>1, <2>3, <2>4
<1> QED
  BY <1>1, <1>2, <1>3, <1>4, <1>6

LEMMA CompletedFields ==
  ASSUME ConfInv
  PROVE  /\ DOMAIN Completed(conf) = DOMAIN Defaults
         /\ Completed(conf).what = IF conf.what = {} THEN {"nw", "link"} ELSE conf.what
         /\ Completed(conf).dir = IF conf.dir = {} THEN {"tx", "rx"} ELSE conf.dir
         /\ \A g \in Fields : g \notin {"what", "dir"} => Completed(conf)[g] = conf[g]
BY FieldNames DEF ConfInv, Completed, Fields

\* All options were read when the loop ends.
LEMMA AllRead ==
  ASSUME TodoInv, todo = <<>>
  PROVE  argv \in Argvs /\ Read = All /\ All \in Nat /\ prog \in Programs
BY ArgvType DEF TodoInv, Read, All

\* Every option that was read is right.
LEMMA RightOptions ==
  ASSUME ParseInv, todo = <<>>
  PROVE  /\ \A q \in Positions({"d"}) : WellFormed(argv.opts[q].arg, 6)
         /\ prog = "stats" =>
              /\ \A q \in Positions({"m"}) : WellFormed(argv.opts[q].arg, 6)
              /\ \A q \in Positions({"n"}) : WellFormed(argv.opts[q].arg, 7)
              /\ \A q \in Positions({"i"}) : /\ argv.opts[q].arg.number
                                             /\ Int32(argv.opts[q].arg.value) \in 0..255
              /\ \A q \in Positions({"g"}) : ~argv.opts[q].arg.rest
<1>1. TodoInv /\ argv \in Argvs /\ Read = All /\ All \in Nat /\ prog \in Programs
  BY AllRead DEF ParseInv
<1>2. \A key : \A q \in Positions({key}) : argv.opts[q].key = key /\ q \in 1..Read
  BY <1>1, ArgvType DEF Positions, All
<1>3. \A q \in 1..Read : Good(argv.opts[q])
  BY DEF ParseInv, GoodInv
<1>4. ASSUME NEW q \in Positions({"d"}) PROVE WellFormed(argv.opts[q].arg, 6)
  <2>1. argv.opts[q].key = "d" /\ Good(argv.opts[q])
    BY <1>2, <1>3
  <2> QED
    BY <2>1 DEF Good
<1>5. ASSUME prog = "stats", NEW q \in Positions({"m"}) PROVE WellFormed(argv.opts[q].arg, 6)
  <2>1. argv.opts[q].key = "m" /\ Good(argv.opts[q])
    BY <1>2, <1>3
  <2> QED
    BY <1>5, <2>1 DEF Good
<1>6. ASSUME prog = "stats", NEW q \in Positions({"n"}) PROVE WellFormed(argv.opts[q].arg, 7)
  <2>1. argv.opts[q].key = "n" /\ Good(argv.opts[q])
    BY <1>2, <1>3
  <2> QED
    BY <1>6, <2>1 DEF Good
<1>7. ASSUME prog = "stats", NEW q \in Positions({"i"})
      PROVE  argv.opts[q].arg.number /\ Int32(argv.opts[q].arg.value) \in 0..255
  <2>1. argv.opts[q].key = "i" /\ Good(argv.opts[q])
    BY <1>2, <1>3
  <2> QED
    BY <1>7, <2>1 DEF Good
<1>8. ASSUME prog = "stats", NEW q \in Positions({"g"}) PROVE ~argv.opts[q].arg.rest
  <2>1. argv.opts[q].key = "g" /\ Good(argv.opts[q])
    BY <1>2, <1>3
  <2> QED
    BY <1>8, <2>1 DEF Good
<1> QED
  BY <1>4, <1>5, <1>6, <1>7, <1>8

\* How the addresses of the command line are used when every option is right.
LEMMA AddressesEnd ==
  ASSUME ConfInv, ParseInv, todo = <<>>, argv' = argv, pc' = "ready",
         conf' = IF prog = "stats" THEN Completed(conf) ELSE conf
  PROVE  AddressesAsGiven'
<1>1. TodoInv /\ argv \in Argvs /\ Read = All /\ All \in Nat /\ prog \in Programs
  BY AllRead DEF ParseInv
<1>2. conf'.oda = conf.oda /\ conf'.mac = conf.mac /\ conf'.nid = conf.nid
  BY CompletedFields DEF Fields
<1>3. conf.oda = IF ~Given({"b", "l", "d"}) THEN Broadcast
                 ELSE CASE Final({"b", "l", "d"}).key = "b" -> Broadcast
                        [] Final({"b", "l", "d"}).key = "l" -> Local
                        [] OTHER -> BytesAt(Final({"d"}).arg, 6)
  <2> DEFINE K == {"b", "l", "d"}
             val == [q \in Places |-> OdaOf(argv.opts[q])]
  <2>1. Holds(argv.opts, All, K, conf.oda, Broadcast, val)
    BY <1>1 DEF ParseInv, OdaInv
  <2>2. \A q \in 1..All : val[q] = OdaOf(argv.opts[q])
    BY DEF Places, All
  <2> HIDE DEF val
  <2>3. CASE ~Given(K) /\ conf.oda = Broadcast
    BY <2>3
  <2>4. CASE \E q \in 1..All : /\ LastOf(argv.opts, All, K, q) /\ Given(K)
                               /\ Final(K) = argv.opts[q] /\ conf.oda = val[q]
    <3>1. PICK q \in 1..All : /\ LastOf(argv.opts, All, K, q) /\ Given(K)
                              /\ Final(K) = argv.opts[q] /\ conf.oda = val[q]
      BY <2>4
    <3>2. conf.oda = OdaOf(Final(K)) /\ Final(K).key \in K
      BY <2>2, <3>1 DEF LastOf
    <3>3. ASSUME Final(K).key = "d" PROVE Final({"d"}) = Final(K)
      <4>1. LastOf(argv.opts, All, {"d"}, q)
        BY <3>1, <3>3 DEF LastOf
      <4> QED
        BY <1>1, <3>1, <4>1, FinalIs
    <3> QED
      BY <3>1, <3>2, <3>3 DEF OdaOf
  <2> QED
    BY <1>1, <2>1, <2>3, <2>4, HeldIs
<1>4. ASSUME prog = "stats"
      PROVE  /\ Given({"m"}) => conf.mac = BytesAt(Final({"m"}).arg, 6)
             /\ Given({"n"}) => conf.nid = BytesAt(Final({"n"}).arg, 7)
  <2> DEFINE mac == [q \in Places |-> BytesAt(argv.opts[q].arg, 6)]
             nid == [q \in Places |-> BytesAt(argv.opts[q].arg, 7)]
  <2>1. /\ Holds(argv.opts, All, {"m"}, conf.mac, NoMac, mac)
        /\ Holds(argv.opts, All, {"n"}, conf.nid, NoNid, nid)
    BY <1>1, <1>4 DEF ParseInv, MacInv, NidInv
  <2>2. \A q \in 1..All : /\ mac[q] = BytesAt(argv.opts[q].arg, 6)
                          /\ nid[q] = BytesAt(argv.opts[q].arg, 7)
    BY DEF Places, All
  <2> HIDE DEF mac, nid
  <2>3. Given({"m"}) => \E q \in 1..All : Final({"m"}) = argv.opts[q] /\ conf.mac = mac[q]
    BY <1>1, <2>1, HeldIs
  <2>4. Given({"n"}) => \E q \in 1..All : Final({"n"}) = argv.opts[q] /\ conf.nid = nid[q]
    BY <1>1, <2>1, HeldIs
  <2> QED
    BY <2>2, <2>3, <2>4
<1>6. /\ \A q \in Positions({"d"}) : WellFormed(argv.opts[q].arg, 6)
      /\ prog = "stats" => /\ \A q \in Positions({"m"}) : WellFormed(argv.opts[q].arg, 6)
                           /\ \A q \in Positions({"n"}) : WellFormed(argv.opts[q].arg, 7)
  BY RightOptions
<1>7. AddressesAsGiven' <=>
        /\ conf'.oda = IF ~Given({"b", "l", "d"}) THEN Broadcast
                       ELSE CASE Final({"b", "l", "d"}).key = "b" -> Broadcast
                              [] Final({"b", "l", "d"}).key = "l" -> Local
                              [] OTHER -> BytesAt(Final({"d"}).arg, 6)
        /\ \A q \in Positions({"d"}) : WellFormed(argv.opts[q].arg, 6)
        /\ prog = "stats" =>
             /\ \A q \in Positions({"m"}) : WellFormed(argv.opts[q].arg, 6)
             /\ \A q \in Positions({"n"}) : WellFormed(argv.opts[q].arg, 7)
             /\ Given({"m"}) => conf'.mac = BytesAt(Final({"m"}).arg, 6)
             /\ Given({"n"}) => conf'.nid = BytesAt(Final({"n"}).arg, 7)
  BY DEF AddressesAsGiven, Positions, Given, Final, prog
<1> QED
  BY <1>2, <1>3, <1>4, <1>6, <1>7

\* The keys that the names of the command line come from.
LEMMA NamedIs ==
  ASSUME ParseInv, todo = <<>>
  PROVE  /\ \A k : Mentioned(k) <=> Among(argv.opts, All, k)
         /\ \A k : Mentioned(k) <=> Given({k})
         /\ \A K, k : k \in Named(K) <=> k \in K /\ Mentioned(k)
<1>1. argv \in Argvs /\ Read = All
  BY AllRead DEF ParseInv
<1>2. \A k : Mentioned(k) <=> Among(argv.opts, All, k)
  BY <1>1 DEF Mentioned
<1>3. \A k : Among(argv.opts, All, k) <=> Given({k})
  <2>1. \A k : Given({k}) <=> \E q \in 1..All : argv.opts[q].key = k
    BY <1>1, GivenIs
  <2> QED
    BY <2>1 DEF Among
<1>4. \A K, k : k \in Named(K) <=> k \in K /\ Among(argv.opts, All, k)
  BY <1>1, GivenIs
<1> QED
  BY <1>2, <1>3, <1>4

\* Two options that restrict: nothing given means both.
LEMMA RestrictionsEnd ==
  ASSUME ConfInv, ParseInv, todo = <<>>, prog = "stats"
  PROVE  /\ Completed(conf).what =
              {IF k = "N" THEN "nw" ELSE "link" : k \in Everything(Named({"N", "L"}), {"N", "L"})}
         /\ Completed(conf).dir =
              {IF k = "r" THEN "rx" ELSE "tx" : k \in Everything(Named({"r", "t"}), {"r", "t"})}
<1>1. \A K, k : k \in Named(K) <=> k \in K /\ Mentioned(k)
  BY NamedIs
<1>2. /\ conf.what \subseteq {"nw", "link"} /\ Named({"N", "L"}) \subseteq {"N", "L"}
      /\ "nw" \in conf.what <=> "N" \in Named({"N", "L"})
      /\ "link" \in conf.what <=> "L" \in Named({"N", "L"})
  BY <1>1 DEF ParseInv, AddedInv
<1>3. /\ conf.dir \subseteq {"rx", "tx"} /\ Named({"r", "t"}) \subseteq {"r", "t"}
      /\ "rx" \in conf.dir <=> "r" \in Named({"r", "t"})
      /\ "tx" \in conf.dir <=> "t" \in Named({"r", "t"})
  BY <1>1 DEF ParseInv, AddedInv
<1>4. (IF conf.what = {} THEN {"nw", "link"} ELSE conf.what) =
        {IF k = "N" THEN "nw" ELSE "link" : k \in Everything(Named({"N", "L"}), {"N", "L"})}
  <2> DEFINE c == conf.what
             N == Named({"N", "L"})
  <2>1. /\ c \subseteq {"nw", "link"} /\ N \subseteq {"N", "L"}
        /\ "nw" \in c <=> "N" \in N
        /\ "link" \in c <=> "L" \in N
    BY <1>2
  <2> HIDE DEF c, N
  <2>2. c = {} <=> N = {}
    BY <2>1
  <2>3. CASE c = {}
    BY <2>2, <2>3 DEF Everything, c, N
  <2>4. CASE c # {}
    <3>1. c = {IF k = "N" THEN "nw" ELSE "link" : k \in N}
      BY <2>1
    <3> QED
      BY <2>2, <2>4, <3>1 DEF Everything, c, N
  <2> QED
    BY <2>3, <2>4
<1>5. (IF conf.dir = {} THEN {"rx", "tx"} ELSE conf.dir) =
        {IF k = "r" THEN "rx" ELSE "tx" : k \in Everything(Named({"r", "t"}), {"r", "t"})}
  <2> DEFINE c == conf.dir
             N == Named({"r", "t"})
  <2>1. /\ c \subseteq {"rx", "tx"} /\ N \subseteq {"r", "t"}
        /\ "rx" \in c <=> "r" \in N
        /\ "tx" \in c <=> "t" \in N
    BY <1>3
  <2> HIDE DEF c, N
  <2>2. c = {} <=> N = {}
    BY <2>1
  <2>3. CASE c = {}
    BY <2>2, <2>3 DEF Everything, c, N
  <2>4. CASE c # {}
    <3>1. c = {IF k = "r" THEN "rx" ELSE "tx" : k \in N}
      BY <2>1
    <3> QED
      BY <2>2, <2>4, <3>1 DEF Everything, c, N
  <2> QED
    BY <2>3, <2>4
<1>6. {"rx", "tx"} = {"tx", "rx"}
  OBVIOUS
<1> QED
  BY <1>4, <1>5, <1>6, CompletedFields

\* The operations that loop-mm-types selects.
LEMMA OperationsEnd ==
  ASSUME ParseInv, todo = <<>>, prog = "loop", conf.cnt \in [Operations -> Nat]
  PROVE  {o \in Operations : conf.cnt[o] > 0} =
         {OperationOf[k] : k \in Everything(Named({"r", "R", "i", "c"}), {"r"})}
<1> DEFINE N == Named({"r", "R", "i", "c"})
<1>1. \A k : k \in N <=> k \in {"r", "R", "i", "c"} /\ Mentioned(k)
  BY NamedIs
<1>2. /\ conf.cnt["response"] > 0 <=> "R" \in N
      /\ conf.cnt["indication"] > 0 <=> "i" \in N
      /\ conf.cnt["confirm"] > 0 <=> "c" \in N
      /\ conf.cnt["request"] > 0 <=> "r" \in N \/ N = {}
  <2>1. N = {} <=> ~(Mentioned("r") \/ Mentioned("R") \/ Mentioned("i") \/ Mentioned("c"))
    BY <1>1
  <2>2. conf.cnt["request"] > 0 <=> "r" \in N \/ N = {}
    <3>1. conf.cnt["request"] \in Nat
      BY DEF Operations
    <3>2. CASE Mentioned("r")
      BY <1>1, <3>1, <3>2 DEF ParseInv, CntInv
    <3>3. CASE ~Mentioned("r")
      <4>1. conf.cnt["request"] =
              IF Mentioned("R") \/ Mentioned("i") \/ Mentioned("c") THEN 0 ELSE 1
        BY <3>3 DEF ParseInv, CntInv
      <4> QED
        BY <1>1, <2>1, <3>3, <4>1
    <3> QED
      BY <3>2, <3>3
  <2> QED
    BY <1>1, <2>2 DEF ParseInv, CntInv
<1>3. N \subseteq {"r", "R", "i", "c"}
  BY <1>1
<1> HIDE DEF N
<1>4. CASE N = {}
  <2>1. Everything(N, {"r"}) = {"r"}
    BY <1>4 DEF Everything
  <2> QED
    BY <1>2, <1>4, <2>1 DEF Operations, OperationOf, N
<1>5. CASE N # {}
  <2>1. Everything(N, {"r"}) = N
    BY <1>5 DEF Everything
  <2>2. {o \in Operations : conf.cnt[o] > 0} = {OperationOf[k] : k \in N}
    <3>1. ASSUME NEW k \in N PROVE OperationOf[k] \in Operations /\ conf.cnt[OperationOf[k]] > 0
      <4>1. k \in {"r", "R", "i", "c"}
        BY <1>3
      <4> QED
        BY <1>2, <4>1 DEF Operations, OperationOf
    <3>2. ASSUME NEW o \in Operations, conf.cnt[o] > 0 PROVE \E k \in N : o = OperationOf[k]
      <4>1. CASE o = "request"
        BY <1>2, <1>5, <3>2, <4>1 DEF OperationOf
      <4>2. CASE o = "confirm"
        BY <1>2, <3>2, <4>2 DEF OperationOf
      <4>3. CASE o = "indication"
        BY <1>2, <3>2, <4>3 DEF OperationOf
      <4>4. CASE o = "response"
        BY <1>2, <3>2, <4>4 DEF OperationOf
      <4> QED
        BY <4>1, <4>2, <4>3, <4>4 DEF Operations
    <3> QED
      BY <3>1, <3>2
  <2> QED
    BY <2>1, <2>2 DEF N
<1> QED
  BY <1>4, <1>5

\* The fields where the last option counts, when its number fits.
LEMMA LastEnd ==
  ASSUME ParseInv, todo = <<>>, Representable
  PROVE  /\ conf.ver = IF Given({"0", "1"}) THEN Final({"0", "1"}).key ELSE "1"
         /\ prog = "stats" =>
              /\ conf.lid = IF Given({"i"}) THEN Final({"i"}).arg.value ELSE -1
              /\ conf.gap = IF Given({"g"}) THEN Final({"g"}).arg.value ELSE DefaultGap
<1>1. TodoInv /\ argv \in Argvs /\ Read = All /\ All \in Nat /\ prog \in Programs
  BY AllRead DEF ParseInv
<1>2. \A K : \A q \in 1..All : argv.opts[q].key \in K => q \in Positions(K)
  BY <1>1, ArgvType DEF Positions, All
<1>3. conf.ver = IF Given({"0", "1"}) THEN Final({"0", "1"}).key ELSE "1"
  <2> DEFINE val == [q \in Places |-> argv.opts[q].key]
  <2>1. Holds(argv.opts, All, {"0", "1"}, conf.ver, "1", val)
    BY <1>1, Zenon DEF ParseInv, VerInv
  <2>2. \A q \in 1..All : val[q] = argv.opts[q].key
    BY DEF Places, All
  <2> HIDE DEF val
  <2> QED
    BY <1>1, <2>1, <2>2, HeldIs
<1>4. ASSUME prog = "stats"
      PROVE  conf.lid = IF Given({"i"}) THEN Final({"i"}).arg.value ELSE -1
  <2> DEFINE val == [q \in Places |-> Int32(argv.opts[q].arg.value)]
  <2>1. Holds(argv.opts, All, {"i"}, conf.lid, -1, val)
    BY <1>1, <1>4, Zenon DEF ParseInv, LidInv
  <2>2. \A q \in 1..All : val[q] = Int32(argv.opts[q].arg.value)
    BY DEF Places, All
  <2> HIDE DEF val
  <2>3. ASSUME NEW q \in 1..All, argv.opts[q].key \in {"i"} PROVE val[q] = argv.opts[q].arg.value
    <3>1. argv.opts[q].arg.value \in -(W32 \div 2)..(W32 \div 2) - 1
      BY <1>2, <1>4, <2>3 DEF Representable
    <3> QED
      BY <2>2, <3>1, Fits
  <2>4. CASE ~Given({"i"}) /\ conf.lid = -1
    BY <2>4
  <2>5. CASE \E q \in 1..All : /\ LastOf(argv.opts, All, {"i"}, q) /\ Given({"i"})
                               /\ Final({"i"}) = argv.opts[q] /\ conf.lid = val[q]
    BY <2>3, <2>5 DEF LastOf
  <2> QED
    BY <1>1, <2>1, <2>4, <2>5, HeldIs
<1>5. ASSUME prog = "stats"
      PROVE  conf.gap = IF Given({"g"}) THEN Final({"g"}).arg.value ELSE DefaultGap
  <2> DEFINE val == [q \in Places |-> GapOf(argv.opts[q])]
  <2>1. Holds(argv.opts, All, {"g"}, conf.gap, DefaultGap, val)
    BY <1>1, <1>5, Zenon DEF ParseInv, GapInv
  <2>2. \A q \in 1..All : val[q] = GapOf(argv.opts[q])
    BY DEF Places, All
  <2> HIDE DEF val
  <2>3. ASSUME NEW q \in 1..All, argv.opts[q].key \in {"g"} PROVE val[q] = argv.opts[q].arg.value
    <3>1. argv.opts[q].arg.value \in 0..W32 - 1
      BY <1>2, <1>5, <2>3 DEF Representable
    <3>2. argv.opts[q] \in OptionsOf(prog)
      BY <1>1, ArgvType DEF All
    <3>3. argv.opts[q].arg \in Numbers
      BY <1>1, <1>5, <2>3, <3>2, OptionArg
    <3>4. ~argv.opts[q].arg.number => argv.opts[q].arg.value = 0
      BY <3>3 DEF Numbers
    <3> QED
      BY <2>2, <3>1, <3>4, Fits DEF GapOf
  <2>4. CASE ~Given({"g"}) /\ conf.gap = DefaultGap
    BY <2>4
  <2>5. CASE \E q \in 1..All : /\ LastOf(argv.opts, All, {"g"}, q) /\ Given({"g"})
                               /\ Final({"g"}) = argv.opts[q] /\ conf.gap = val[q]
    BY <2>3, <2>5 DEF LastOf
  <2> QED
    BY <1>1, <2>1, <2>4, <2>5, HeldIs
<1> QED
  BY <1>3, <1>4, <1>5

LEMMA SettingsEnd ==
  ASSUME ConfInv, ParseInv, conf.cnt \in [Operations -> Nat], todo = <<>>, argv' = argv, pc' = "ready",
         conf' = IF prog = "stats" THEN Completed(conf) ELSE conf
  PROVE  SettingsAsGiven'
<1> SUFFICES ASSUME Representable PROVE SettingsAsGiven'
  <2>1. ~Representable => SettingsAsGiven'
    <3>1. Representable' <=> Representable
      BY DEF Representable, Positions, prog
    <3> QED
      BY <3>1 DEF SettingsAsGiven
  <2> QED
    BY <2>1
<1>1. \A k : Mentioned(k) <=> Given({k})
  BY NamedIs
<1>2. /\ conf'.ver = conf.ver /\ conf'.lid = conf.lid /\ conf'.gap = conf.gap /\ conf'.all = conf.all
      /\ conf'.cnt = conf.cnt
  BY CompletedFields DEF Fields
<1>3. prog = "stats" => conf'.what = Completed(conf).what /\ conf'.dir = Completed(conf).dir
  OBVIOUS
<1>4. prog = "stats" => conf.all = Given({"a"})
  <2>1. prog = "stats" => conf.all \in BOOLEAN /\ (conf.all <=> Given({"a"}))
    BY <1>1 DEF ParseInv, AddedInv
  <2>2. Given({"a"}) \in BOOLEAN
    BY DEF Given
  <2> QED
    BY <2>1, <2>2
<1>5. ASSUME prog = "discover" PROVE conf'.nwinfo = ~Given({"n"}) /\ conf'.numeric = Given({"N"})
  <2>1. /\ conf'.nwinfo \in BOOLEAN /\ (conf'.nwinfo <=> ~Given({"n"}))
        /\ conf'.numeric \in BOOLEAN /\ (conf'.numeric <=> Given({"N"}))
    BY <1>1, <1>5 DEF ParseInv, AddedInv
  <2>2. Given({"n"}) \in BOOLEAN /\ Given({"N"}) \in BOOLEAN
    BY DEF Given
  <2> QED
    BY <2>1, <2>2
<1>6. \A K : (Given(K)' <=> Given(K)) /\ Named(K)' = Named(K) /\ Final(K)' = Final(K)
  BY DEF Given, Named, Final, Positions
<1>7. prog' = prog /\ pc' \notin {"options", "usage"}
  BY DEF prog
<1>8. conf'.ver = IF Given({"0", "1"})' THEN Final({"0", "1"})'.key ELSE "1"
  BY <1>2, <1>6, LastEnd
<1>9. ASSUME prog = "stats"
      PROVE  /\ conf'.what = {IF k = "N" THEN "nw" ELSE "link" : k \in Everything(Named({"N", "L"})', {"N", "L"})}
             /\ conf'.dir = {IF k = "r" THEN "rx" ELSE "tx" : k \in Everything(Named({"r", "t"})', {"r", "t"})}
             /\ conf'.lid = IF Given({"i"})' THEN Final({"i"})'.arg.value ELSE -1
             /\ conf'.gap = IF Given({"g"})' THEN Final({"g"})'.arg.value ELSE DefaultGap
             /\ conf'.all = Given({"a"})'
  <2>1. conf'.what = {IF k = "N" THEN "nw" ELSE "link" : k \in Everything(Named({"N", "L"})', {"N", "L"})}
    BY <1>3, <1>6, <1>9, RestrictionsEnd, Zenon
  <2>2. conf'.dir = {IF k = "r" THEN "rx" ELSE "tx" : k \in Everything(Named({"r", "t"})', {"r", "t"})}
    BY <1>3, <1>6, <1>9, RestrictionsEnd, Zenon
  <2>3. conf'.lid = IF Given({"i"})' THEN Final({"i"})'.arg.value ELSE -1
    BY <1>2, <1>6, <1>9, LastEnd
  <2>4. conf'.gap = IF Given({"g"})' THEN Final({"g"})'.arg.value ELSE DefaultGap
    BY <1>2, <1>6, <1>9, LastEnd
  <2>5. conf'.all = Given({"a"})'
    BY <1>2, <1>4, <1>9 DEF Given, Positions
  <2> QED
    BY <2>1, <2>2, <2>3, <2>4, <2>5
<1>10. ASSUME prog = "discover" PROVE conf'.nwinfo = (~Given({"n"}))' /\ conf'.numeric = Given({"N"})'
  BY <1>5, <1>10 DEF Given, Positions
<1>11. ASSUME prog = "loop"
       PROVE  {o \in Operations : conf'.cnt[o] > 0} =
              {OperationOf[k] : k \in Everything(Named({"r", "R", "i", "c"})', {"r"})}
  BY <1>2, <1>6, <1>11, OperationsEnd, Zenon
<1> QED
  BY <1>7, <1>8, <1>9, <1>10, <1>11, Zenon DEF SettingsAsGiven

-----------------------------------------------------------------------------
(* What is refused *)

LEMMA NextOption ==
  ASSUME TodoInv, todo # <<>>
  PROVE  /\ Option \in OptionsOf(prog) /\ prog \in Programs
         /\ \A K : Option.key \in K => \E q \in Positions(K) : argv.opts[q] = Option
<1>1. /\ argv.opts \in Seq(OptionsOf(prog)) /\ DOMAIN argv.opts = 1..Len(argv.opts)
      /\ prog \in Programs /\ Len(argv.opts) \in Nat
  BY ArgvType DEF TodoInv
<1>2. Len(todo) \in Nat /\ Len(todo) > 0 /\ Head(todo) = todo[1] /\ Head(todo) \in OptionsOf(prog)
  BY HeadTailProperties DEF TodoInv
<1>3. Read + 1 \in 1..Len(argv.opts) /\ 1 \in 1..Len(todo)
  BY <1>1, <1>2 DEF Read, TodoInv
<1>4. argv.opts[Read + 1] = Option
  BY <1>2, <1>3 DEF TodoInv, Option
<1>5. ASSUME NEW K, Option.key \in K PROVE \E q \in Positions(K) : argv.opts[q] = Option
  <2>1. Read + 1 \in Positions(K)
    BY <1>1, <1>3, <1>4, <1>5 DEF Positions
  <2> QED
    BY <1>4, <2>1
<1> QED
  BY <1>1, <1>2, <1>5 DEF Option

\* One interface, and what a link query needs.
LEMMA LinkQuery ==
  ASSUME ConfInv, ParseInv, todo = <<>>, prog = "stats"
  PROVE  /\ set = Named({"n", "m"})
         /\ "link" \in Completed(conf).what <=> Given({"L"}) \/ ~Given({"N"})
<1>1. /\ \A k : Mentioned(k) <=> Given({k})
      /\ \A K, k : k \in Named(K) <=> k \in K /\ Mentioned(k)
  BY NamedIs
<1>2. set = Named({"n", "m"})
  <2> DEFINE N == Named({"n", "m"})
  <2>1. \A k : k \in N <=> k \in {"n", "m"} /\ Mentioned(k)
    BY <1>1
  <2>2. /\ set \subseteq {"n", "m"}
        /\ "n" \in set <=> Mentioned("n")
        /\ "m" \in set <=> Mentioned("m")
    BY DEF ParseInv, AddedInv
  <2> HIDE DEF N
  <2>3. \A k : k \in set <=> k \in N
    BY <2>1, <2>2
  <2>4. set = N
    BY <2>3
  <2> QED
    BY <2>4 DEF N
<1>3. /\ conf.what \subseteq {"nw", "link"}
      /\ "nw" \in conf.what <=> Given({"N"})
      /\ "link" \in conf.what <=> Given({"L"})
  BY <1>1 DEF ParseInv, AddedInv
<1>4. conf.what = {} <=> ~Given({"N"}) /\ ~Given({"L"})
  BY <1>3
<1> QED
  BY <1>2, <1>3, <1>4, CompletedFields

\* A number 0..255 comes through sscanf as it is, and sets no errno; a number
\* that a uint32_t holds is no more than strtoul takes.
LEMMA SoundNumbers ==
  ASSUME NEW n
  PROVE  /\ LidNumber(n) => n.number /\ Int32(n.value) \in 0..255 /\ ~OutOfLong(n.value)
         /\ GapNumber(n) => ~n.rest /\ n.value < W64 /\ n.value > -W64 /\ n.value \in Int
<1>1. \A v \in 0..255 : v \in -(W32 \div 2)..(W32 \div 2) - 1
  <2>1. PICK h \in Nat : W32 = 2 * h /\ h > 256
    BY WidthAssumption
  <2> QED
    BY <2>1
<1> QED
  BY <1>1, Fits DEF LidNumber, GapNumber, NumberIn

LEMMA Refused ==
  ASSUME ConfInv, ParseInv, pc = "options", pc' = "usage", ParseStep
  PROVE  Mistaken \/ Misnumbered
<1>2. ~(Oda \/ Version \/ StatsFlags \/ DiscoverFlags \/ LoopFlags)
  BY DEF Oda, Version, StatsFlags, DiscoverFlags, LoopFlags, Flag, Continue
<1>3. ASSUME Addresses \/ Lid \/ Gap
      PROVE  /\ todo # <<>> /\ Option \in OptionsOf(prog) /\ prog \in Programs
             /\ \A k : Option.key = k => \E q \in Positions({k}) : argv.opts[q] = Option
  <2>1. todo # <<>>
    BY <1>3 DEF Addresses, Address, Lid, Gap, Has
  <2> QED
    BY <2>1, NextOption DEF ParseInv
<1>4. CASE Addresses
  <2>1. /\ Option.key = "d" => Option.arg \in Seq(Nat)
        /\ prog = "stats" /\ Option.key \in {"m", "n"} => Option.arg \in Seq(Nat)
    BY <1>3, <1>4, OptionArg
  <2>2. CASE Address(Programs, "d", 6, "oda")
    <3>1. Option.key = "d" /\ ~ParseAddress(Option.arg, 6).ok
      BY <2>2 DEF Address, Has, Continue
    <3>2. ~WellFormed(Option.arg, 6)
      BY <2>1, <3>1, AddressParsed
    <3> QED
      BY <1>3, <1>4, <3>1, <3>2 DEF Mistaken
  <2>3. CASE Address({"stats"}, "m", 6, "mac")
    <3>1. prog = "stats" /\ Option.key = "m" /\ ~ParseAddress(Option.arg, 6).ok
      BY <2>3 DEF Address, Has, Continue
    <3>2. ~WellFormed(Option.arg, 6)
      BY <2>1, <3>1, AddressParsed
    <3> QED
      BY <1>3, <1>4, <3>1, <3>2 DEF Mistaken
  <2>4. CASE Address({"stats"}, "n", 7, "nid")
    <3>1. prog = "stats" /\ Option.key = "n" /\ ~ParseAddress(Option.arg, 7).ok
      BY <2>4 DEF Address, Has, Continue
    <3>2. ~WellFormed(Option.arg, 7)
      BY <2>1, <3>1, AddressParsed
    <3> QED
      BY <1>3, <1>4, <3>1, <3>2 DEF Mistaken
  <2> QED
    BY <1>4, <2>2, <2>3, <2>4 DEF Addresses
<1>5. CASE Lid
  <2>1. /\ prog = "stats" /\ Option.key = "i"
        /\ ~(Option.arg.number /\ Int32(Option.arg.value) \in 0..255)
    BY <1>5 DEF Lid, Has, Continue, LidAllowed
  <2>2. PICK q \in Positions({"i"}) : argv.opts[q] = Option
    BY <1>3, <1>5, <2>1
  <2>3. ~LidNumber(argv.opts[q].arg)
    BY <2>1, <2>2, SoundNumbers
  <2> QED
    BY <2>1, <2>3 DEF Misnumbered
<1>6. CASE Gap
  <2>1. /\ prog = "stats" /\ Option.key = "g"
        /\ \/ erange \/ Option.arg.rest
           \/ Option.arg.number /\ (Option.arg.value >= W64 \/ Option.arg.value <= -W64)
           \/ ~Option.arg.number /\ (0 >= W64 \/ 0 <= -W64)
    BY <1>6 DEF Gap, Has, Continue
  <2>2. PICK q \in Positions({"g"}) : argv.opts[q] = Option
    BY <1>3, <1>6, <2>1
  <2>3. CASE erange
    <3>1. PICK p \in 1..Read : argv.opts[p].key = "i" /\ OutOfLong(argv.opts[p].arg.value)
      BY <2>3 DEF ParseInv, RangeInv
    <3>2. DOMAIN argv.opts = 1..Len(argv.opts) /\ Len(argv.opts) \in Nat /\ Len(todo) \in Nat
      BY ArgvType DEF ParseInv, TodoInv
    <3>3. p \in Positions({"i"})
      BY <3>1, <3>2 DEF Positions, Read
    <3>4. ~LidNumber(argv.opts[p].arg)
      BY <3>1, SoundNumbers
    <3> QED
      BY <2>1, <3>3, <3>4 DEF Misnumbered
  <2>4. CASE ~erange
    <3>1. ASSUME GapNumber(Option.arg) PROVE FALSE
      <4>1. ~Option.arg.rest /\ Option.arg.value < W64 /\ Option.arg.value > -W64
            /\ Option.arg.value \in Int
        BY <3>1, SoundNumbers
      <4>2. W64 \in Nat /\ ~(0 >= W64) /\ ~(0 <= -W64)
        BY WidthAssumption
      <4> QED
        BY <2>1, <2>4, <4>1, <4>2
    <3> QED
      BY <2>1, <2>2, <3>1 DEF Misnumbered
  <2> QED
    BY <2>3, <2>4
<1>7. CASE End
  <2>1. CASE argv.ifs # 1
    BY <2>1 DEF Mistaken
  <2>2. CASE prog = "stats" /\ "link" \in Completed(conf).what /\ set # {"n", "m"}
    <3>1. todo = <<>>
      BY <1>7 DEF End
    <3> QED
      BY <2>2, <3>1, LinkQuery DEF Mistaken, MissingParameter
  <2> QED
    BY <1>7, <2>1, <2>2 DEF End
<1> QED
  BY <1>2, <1>4, <1>5, <1>6, <1>7 DEF ParseStep

LEMMA AcceptedIsRight ==
  ASSUME ConfInv, ParseInv, End, pc' = "ready"
  PROVE  ~Mistaken
<1>1. /\ todo = <<>> /\ argv.ifs = 1
      /\ prog = "stats" => ~("link" \in Completed(conf).what /\ set # {"n", "m"})
  BY DEF End, Refuse
<1>2. TodoInv /\ argv \in Argvs /\ Read = All /\ All \in Nat /\ prog \in Programs
  BY <1>1, AllRead DEF ParseInv
<1>4. \A q \in Positions({"d"}) : WellFormed(argv.opts[q].arg, 6)
  BY <1>1, RightOptions
<1>5. ASSUME prog = "stats"
      PROVE  /\ \A q \in Positions({"m"}) : WellFormed(argv.opts[q].arg, 6)
             /\ \A q \in Positions({"n"}) : WellFormed(argv.opts[q].arg, 7)
             /\ ~MissingParameter
  BY <1>1, <1>5, RightOptions, LinkQuery DEF MissingParameter
<1> QED
  BY <1>1, <1>4, <1>5 DEF Mistaken, MissingParameter

-----------------------------------------------------------------------------
(***************************************************************************)
(* The walk over the table.  The pairs of a type and an operation that the *)
(* loops have passed are those before 4 * i + oper in the order of the     *)
(* table.                                                                  *)
(***************************************************************************)

Types == Len(MMTypes)
Chosen(m) == OperationAt[m[2]] \in MMTypes[m[1]] /\ conf.cnt[OperationAt[m[2]]] > 0
Order(m) == 4 * m[1] + m[2]

SentInv ==
  /\ \A k \in 1..Len(sent) : Chosen(sent[k]) /\ Order(sent[k]) < 4 * i + oper
  /\ \A m \in (1..Types) \X (1..4) :
       Chosen(m) /\ Order(m) < 4 * i + oper => \E k \in 1..Len(sent) : sent[k] = m
  /\ \A k \in 1..Len(sent) - 1 : Order(sent[k]) < Order(sent[k + 1])

\* What the loops have done: before them nothing is sent, behind them all is.
WalkInv ==
  /\ pc \in {"options", "ready"} => i = 1 /\ oper = 1 /\ sent = <<>>
  /\ pc = "done" => i = Types + 1
  /\ pc \in {"walk", "done"} => prog = "loop" /\ SentInv

LEMMA TableLength == Types = 62
BY DEF Types, MMTypes

LEMMA Advanced ==
  ASSUME TypeOK, i <= Types, Advance
  PROVE  i' \in 1..Types + 1 /\ oper' \in 1..4 /\ 4 * i' + oper' = 4 * i + oper + 1
BY TableLength DEF TypeOK, Advance, Types

LEMMA Walked ==
  ASSUME TypeOK, SentInv, SendMessage \/ SkipOperation
  PROVE  SentInv' /\ sent' \in Seq((1..Types) \X (1..4)) /\ i' \in 1..Types + 1 /\ oper' \in 1..4
<1> DEFINE at == 4 * i + oper
           here == <<i, oper>>
<1>1. i \in 1..Types /\ oper \in 1..4 /\ sent \in Seq((1..Types) \X (1..4))
  BY TableLength DEF TypeOK, SendMessage, SkipOperation, Types
<1>2. /\ i' \in 1..Types + 1 /\ oper' \in 1..4 /\ 4 * i' + oper' = at + 1 /\ conf' = conf
  BY Advanced DEF SendMessage, SkipOperation, cmdVars, Types
<1>3. here \in (1..Types) \X (1..4) /\ Order(here) = at
  BY <1>1 DEF Order
<1>4. \A m \in (1..Types) \X (1..4) : Order(m) = at => m = here
  <2>1. ASSUME NEW a \in 1..Types, NEW b \in 1..4, 4 * a + b = at PROVE a = i /\ b = oper
    BY <1>1, <2>1, TableLength
  <2> QED
    BY <2>1 DEF Order
<1>5. \A m \in (1..Types) \X (1..4) : Order(m) \in Nat
  BY TableLength DEF Order
<1>6. Chosen(here) <=> Supported
  BY DEF Chosen, Supported
<1>7. /\ \A k \in 1..Len(sent) : Chosen(sent[k]) /\ Order(sent[k]) < at
      /\ \A m \in (1..Types) \X (1..4) :
           Chosen(m) /\ Order(m) < at => \E k \in 1..Len(sent) : sent[k] = m
      /\ \A k \in 1..Len(sent) - 1 : Order(sent[k]) < Order(sent[k + 1])
  BY DEF SentInv
<1>8. \A k \in 1..Len(sent) : sent[k] \in (1..Types) \X (1..4)
  BY <1>1
<1>9. Len(sent) \in Nat /\ at \in Nat
  BY <1>1, TableLength
<1> HIDE DEF at, here
<1>10. CASE SkipOperation
  <2>1. sent' = sent /\ ~Chosen(here)
    BY <1>6, <1>10 DEF SkipOperation
  <2>2. \A k \in 1..Len(sent') : Chosen(sent'[k]) /\ Order(sent'[k]) < at + 1
    BY <1>5, <1>7, <1>8, <1>9, <2>1
  <2>3. ASSUME NEW m \in (1..Types) \X (1..4), Chosen(m), Order(m) < at + 1
        PROVE  \E k \in 1..Len(sent') : sent'[k] = m
    <3>1. Order(m) < at
      BY <1>4, <1>5, <1>9, <2>1, <2>3
    <3> QED
      BY <1>7, <2>1, <2>3, <3>1
  <2>4. \A k \in 1..Len(sent') - 1 : Order(sent'[k]) < Order(sent'[k + 1])
    BY <1>7, <2>1
  <2> QED
    BY <1>1, <1>2, <2>1, <2>2, <2>3, <2>4 DEF SentInv, Chosen
<1>11. CASE SendMessage
  <2>1. sent' = Append(sent, here) /\ Chosen(here)
    BY <1>6, <1>11 DEF SendMessage, here
  <2>2. /\ sent' \in Seq((1..Types) \X (1..4)) /\ Len(sent') = Len(sent) + 1
        /\ sent'[Len(sent) + 1] = here
        /\ \A k \in 1..Len(sent) : sent'[k] = sent[k]
    BY <1>1, <1>3, <2>1
  <2>3. \A k \in 1..Len(sent') : k \in 1..Len(sent) \/ k = Len(sent) + 1
    BY <1>9, <2>2
  <2>4. \A k \in 1..Len(sent) : k \in 1..Len(sent')
    BY <1>9, <2>2
  <2>6. ASSUME NEW k \in 1..Len(sent') PROVE Chosen(sent'[k]) /\ Order(sent'[k]) < at + 1
    <3>1. CASE k \in 1..Len(sent)
      BY <1>5, <1>7, <1>8, <1>9, <2>2, <3>1
    <3>2. CASE k = Len(sent) + 1
      BY <1>3, <1>9, <2>1, <2>2, <3>2
    <3> QED
      BY <2>3, <3>1, <3>2
  <2>7. ASSUME NEW m \in (1..Types) \X (1..4), Chosen(m), Order(m) < at + 1
        PROVE  \E k \in 1..Len(sent') : sent'[k] = m
    <3>1. CASE Order(m) < at
      <4>1. PICK k \in 1..Len(sent) : sent[k] = m
        BY <1>7, <2>7, <3>1
      <4> QED
        BY <2>2, <2>4, <4>1
    <3>2. CASE ~(Order(m) < at)
      <4>1. m = here
        BY <1>4, <1>5, <1>9, <2>7, <3>2
      <4>2. Len(sent) + 1 \in 1..Len(sent')
        BY <1>9, <2>2
      <4> QED
        BY <2>2, <4>1, <4>2
    <3> QED
      BY <3>1, <3>2
  <2>8. ASSUME NEW k \in 1..Len(sent') - 1 PROVE Order(sent'[k]) < Order(sent'[k + 1])
    <3>1. k \in 1..Len(sent) /\ k + 1 \in 1..Len(sent')
      BY <1>9, <2>2
    <3>2. CASE k = Len(sent)
      BY <1>3, <1>7, <2>2, <3>1, <3>2
    <3>3. CASE k # Len(sent)
      <4>1. k \in 1..Len(sent) - 1 /\ k + 1 \in 1..Len(sent)
        BY <1>9, <3>1, <3>3
      <4> QED
        BY <1>7, <2>2, <4>1
    <3> QED
      BY <3>2, <3>3
  <2>9. \A k \in 1..Len(sent') : Chosen(sent'[k]) /\ Order(sent'[k]) < 4 * i' + oper'
    BY <1>2, <2>6
  <2>10. \A m \in (1..Types) \X (1..4) :
           Chosen(m) /\ Order(m) < 4 * i' + oper' => \E k \in 1..Len(sent') : sent'[k] = m
    BY <1>2, <2>7
  <2> QED
    BY <1>2, <2>2, <2>8, <2>9, <2>10 DEF SentInv, Chosen
<1> QED
  BY <1>10, <1>11

\* The walk is over when the loop has passed the last type.
LEMMA WalkEnd ==
  ASSUME TypeOK, SentInv, SettingsAsGiven, pc \notin {"options", "usage"}, prog = "loop", i = Types + 1
  PROVE  /\ Range(sent) = {m \in (1..Len(MMTypes)) \X (1..4) :
                             OperationAt[m[2]] \in MMTypes[m[1]] \cap SelectedOperations}
         /\ \A k \in 1..Len(sent) - 1 :
              4 * sent[k][1] + sent[k][2] < 4 * sent[k + 1][1] + sent[k + 1][2]
<1>1. sent \in Seq((1..Types) \X (1..4)) /\ oper \in 1..4 /\ DOMAIN sent = 1..Len(sent)
  BY DEF TypeOK, Types
<1>2. \A o : o \in Operations /\ conf.cnt[o] > 0 <=> o \in SelectedOperations
  <2>1. {o \in Operations : conf.cnt[o] > 0} = SelectedOperations
    BY DEF SettingsAsGiven, SelectedOperations, Representable
  <2> QED
    BY <2>1
<1>3. ASSUME NEW m \in (1..Types) \X (1..4)
      PROVE  Chosen(m) <=> OperationAt[m[2]] \in MMTypes[m[1]] \cap SelectedOperations
  <2>1. OperationAt[m[2]] \in Operations
    <3>1. m[2] \in {1, 2, 3, 4}
      OBVIOUS
    <3> QED
      BY <3>1 DEF OperationAt, Operations
  <2> QED
    BY <1>2, <2>1 DEF Chosen
<1>4. \A m \in (1..Types) \X (1..4) : Order(m) < 4 * i + oper
  <2>1. \A a \in 1..Types, b \in 1..4 : 4 * a + b < 4 * i + oper
    BY <1>1, TableLength
  <2> QED
    BY <2>1 DEF Order
<1>5. \A m \in (1..Types) \X (1..4) : Chosen(m) <=> \E k \in 1..Len(sent) : sent[k] = m
  BY <1>4 DEF SentInv
<1>6. Range(sent) = {sent[k] : k \in 1..Len(sent)}
  BY <1>1 DEF Range
<1>7. \A k \in 1..Len(sent) : sent[k] \in (1..Types) \X (1..4)
  BY <1>1
<1>8. Range(sent) = {m \in (1..Types) \X (1..4) :
                       OperationAt[m[2]] \in MMTypes[m[1]] \cap SelectedOperations}
  BY <1>3, <1>5, <1>6, <1>7
<1> QED
  BY <1>8 DEF SentInv, Order, Types

-----------------------------------------------------------------------------
(* The inductive invariant *)

IInv ==
  /\ TypeOK /\ ConfInv /\ argv \in Argvs
  /\ pc = "options" => ParseInv
  /\ WalkInv
  /\ AddressesAsGiven /\ SettingsAsGiven /\ RefusedForAReason

LEMMA InitIInv ==
  ASSUME Init
  PROVE  IInv
<1>1. /\ argv \in Argvs /\ pc = "options" /\ todo = argv.opts /\ conf = Defaults
      /\ set = {} /\ erange = FALSE /\ i = 1 /\ oper = 1 /\ sent = <<>>
  BY DEF Init, CmdInit
<1>2. /\ prog \in Programs /\ argv.opts \in Seq(OptionsOf(prog)) /\ Len(argv.opts) \in Nat
  BY <1>1, ArgvType
<1>3. Read = 0
  BY <1>1, <1>2 DEF Read
<1>4. 1..Read = {}
  BY <1>3
<1>5. TodoInv
  BY <1>1, <1>2, <1>3 DEF TodoInv
<1>6. ConfInv
  BY <1>1 DEF ConfInv
<1>7. \A k : ~Mentioned(k)
  BY <1>4 DEF Mentioned, Among
<1>8. \A K, x, val : Holds(argv.opts, Read, K, x, x, val)
  BY <1>4 DEF Holds
<1>9. OdaInv /\ VerInv /\ MacInv /\ NidInv /\ LidInv /\ GapInv
  <2>1. /\ conf.oda = Broadcast /\ conf.ver = "1" /\ conf.mac = NoMac /\ conf.nid = NoNid
        /\ conf.lid = -1 /\ conf.gap = DefaultGap
    BY <1>1 DEF Defaults
  <2> QED
    BY <1>8, <2>1, Zenon DEF OdaInv, VerInv, MacInv, NidInv, LidInv, GapInv
<1>10. AddedInv /\ CntInv
  BY <1>1, <1>7 DEF AddedInv, CntInv, Defaults, Operations
<1>11. GoodInv /\ RangeInv
  BY <1>1, <1>4 DEF GoodInv, RangeInv
<1>12. ParseInv
  BY <1>5, <1>9, <1>10, <1>11 DEF ParseInv
<1>13. CmdTypeOK
  <2>1. 0 \in Byte /\ 255 \in Byte
    BY DEF Byte
  <2>2. NoNid \in Seq(Byte) /\ Len(NoNid) = 7
    BY <2>1 DEF NoNid
  <2>3. /\ conf.what = {} /\ conf.dir = {} /\ conf.oda = Broadcast /\ conf.nid = NoNid
        /\ conf.lid = -1 /\ conf.gap = 200
    BY <1>1 DEF Defaults, DefaultGap
  <2>4. conf.cnt = [o \in Operations |-> IF o = "request" THEN 1 ELSE 0]
    BY <1>1 DEF Defaults
  <2> QED
    BY <1>1, <2>2, <2>3, <2>4, LocalAddresses, WidthAssumption DEF CmdTypeOK
<1>14. TypeOK
  BY <1>1, <1>13, TableLength DEF TypeOK, Types
<1> QED
  BY <1>1, <1>6, <1>12, <1>14
     DEF IInv, WalkInv, AddressesAsGiven, SettingsAsGiven, RefusedForAReason, Accepted

\* What one call of _parse_opt comes to.
LEMMA ParseOutcome ==
  ASSUME ParseStep, pc = "options"
  PROVE  /\ pc' \in {"options", "usage", "ready"} /\ argv' = argv
         /\ pc' = "usage" => todo' = todo /\ set' = set /\ conf' = conf
         /\ pc' = "ready" => /\ End /\ todo = <<>> /\ set' = set
                             /\ conf' = IF prog = "stats" THEN Completed(conf) ELSE conf
<1>1. CASE Continue
  BY <1>1 DEF Continue
<1>2. CASE Refuse
  BY <1>2 DEF Refuse, parser
<1>3. CASE End
  BY <1>2, <1>3 DEF End, parser
<1>4. Continue \/ Refuse \/ End
  BY DEF ParseStep, Oda, Version, StatsFlags, DiscoverFlags, LoopFlags, Flag, Addresses, Address,
         Lid, Gap
<1> QED
  BY <1>1, <1>2, <1>3, <1>4

LEMMA ParseKeeps ==
  ASSUME IInv, Parse
  PROVE  IInv'
<1>1. pc = "options" /\ ParseInv /\ ConfInv /\ CmdTypeOK /\ argv \in Argvs
  BY DEF IInv, TypeOK, Parse, ParseStep, Oda, Version, StatsFlags, DiscoverFlags, LoopFlags, Flag,
         Addresses, Address, Lid, Gap, End, Has
<1>2. ParseStep /\ i' = i /\ oper' = oper /\ sent' = sent /\ i = 1 /\ oper = 1 /\ sent = <<>>
  BY <1>1 DEF Parse, IInv, WalkInv
<1>3. /\ pc' \in {"options", "usage", "ready"} /\ argv' = argv
  BY <1>1, <1>2, ParseOutcome
<1>4. WalkInv'
  BY <1>2, <1>3 DEF WalkInv
<1>5. CmdTypeOK' => TypeOK'
  BY <1>2, <1>3 DEF TypeOK, IInv
<1>6. CASE pc' = "options"
  <2>1. ConfInv' /\ CmdTypeOK' /\ ParseInv'
    BY <1>1, <1>2, <1>6, ParsedOn
  <2> QED
    BY <1>1, <1>3, <1>4, <1>5, <1>6, <2>1
       DEF IInv, AddressesAsGiven, SettingsAsGiven, RefusedForAReason, Accepted
<1>7. CASE pc' = "usage"
  <2>1. todo' = todo /\ set' = set /\ conf' = conf
    BY <1>1, <1>2, <1>7, ParseOutcome
  <2>2. ConfInv' /\ CmdTypeOK'
    BY <1>1, <1>7, <2>1 DEF ConfInv, CmdTypeOK
  <2>3. Mistaken \/ Misnumbered
    BY <1>1, <1>2, <1>7, Refused
  <2>4. (Mistaken' <=> Mistaken) /\ (Misnumbered' <=> Misnumbered)
    BY <1>3 DEF Mistaken, Misnumbered, MissingParameter, Positions, Given, Named, prog
  <2>5. RefusedForAReason'
    BY <1>7, <2>3, <2>4 DEF RefusedForAReason, Accepted
  <2> QED
    BY <1>1, <1>3, <1>4, <1>5, <1>7, <2>2, <2>5 DEF IInv, AddressesAsGiven, SettingsAsGiven
<1>8. CASE pc' = "ready"
  <2>1. End /\ todo = <<>> /\ set' = set /\ conf' = IF prog = "stats" THEN Completed(conf) ELSE conf
    BY <1>1, <1>2, <1>8, ParseOutcome
  <2>2. AddressesAsGiven'
    BY <1>1, <1>3, <1>8, <2>1, AddressesEnd
  <2>3. SettingsAsGiven'
    BY <1>1, <1>3, <1>8, <2>1, SettingsEnd DEF CmdTypeOK
  <2>4. RefusedForAReason'
    <3>1. ~Mistaken
      BY <1>1, <1>8, <2>1, AcceptedIsRight
    <3>2. (Mistaken' <=> Mistaken) /\ (Misnumbered' <=> Misnumbered)
      BY <1>3 DEF Mistaken, Misnumbered, MissingParameter, Positions, Given, Named, prog
    <3> QED
      BY <1>8, <3>1, <3>2 DEF RefusedForAReason, Accepted
  <2>5. ConfInv' /\ CmdTypeOK'
    <3>1. DOMAIN conf' = DOMAIN Defaults
      BY <1>1, <2>1, CompletedFields DEF ConfInv
    <3>2. /\ conf'.oda = conf.oda /\ conf'.nid = conf.nid /\ conf'.lid = conf.lid
          /\ conf'.gap = conf.gap /\ conf'.cnt = conf.cnt
      BY <1>1, <2>1, CompletedFields DEF Fields
    <3>3. conf'.what \subseteq {"nw", "link"} /\ conf'.dir \subseteq {"tx", "rx"}
      BY <1>1, <2>1, CompletedFields DEF CmdTypeOK
    <3> QED
      BY <1>1, <1>8, <2>1, <3>1, <3>2, <3>3 DEF ConfInv, CmdTypeOK
  <2> QED
    BY <1>1, <1>3, <1>4, <1>5, <1>8, <2>2, <2>3, <2>4, <2>5 DEF IInv
<1> QED
  BY <1>3, <1>6, <1>7, <1>8

\* Once the options are read, what was read stays.
LEMMA ReadStays ==
  ASSUME IInv, argv' = argv, conf' = conf, set' = set, pc \notin {"options", "usage"}, pc' \notin {"options", "usage"}
  PROVE  ConfInv' /\ CmdTypeOK' /\ argv' \in Argvs /\ AddressesAsGiven' /\ SettingsAsGiven' /\ RefusedForAReason'
<1>1. prog' = prog /\ ConfInv' /\ argv' \in Argvs
  BY DEF IInv, prog, ConfInv
<1>2. CmdTypeOK'
  BY DEF IInv, TypeOK, CmdTypeOK
<1>3. AddressesAsGiven'
  BY <1>1 DEF IInv, AddressesAsGiven, Positions, Given, Final
<1>4. \A K : (Given(K)' <=> Given(K)) /\ Named(K)' = Named(K) /\ Final(K)' = Final(K)
  BY DEF Given, Named, Final, Positions
<1>5. (Mistaken' <=> Mistaken) /\ (Misnumbered' <=> Misnumbered)
  BY DEF Mistaken, Misnumbered, MissingParameter, Positions, Given, Named, prog
<1>6. RefusedForAReason'
  BY <1>5 DEF IInv, RefusedForAReason, Accepted
<1>7. SettingsAsGiven'
  <2>1. Representable' <=> Representable
    BY DEF Representable, Positions, prog
  <2> QED
    BY <1>1, <1>4, <2>1, Zenon DEF IInv, SettingsAsGiven
<1> QED
  BY <1>1, <1>2, <1>3, <1>6, <1>7

LEMMA StepIInv ==
  ASSUME IInv, [Next]_vars
  PROVE  IInv'
<1>1. CASE Parse
  BY <1>1, ParseKeeps
<1>2. CASE Start
  <2>1. /\ pc = "ready" /\ prog = "loop" /\ pc' \in {"walk", "exited"} /\ argv' = argv
        /\ conf' = conf /\ set' = set /\ i' = i /\ oper' = oper /\ sent' = sent
    BY <1>2 DEF Start, parser
  <2>2. /\ ConfInv' /\ CmdTypeOK' /\ argv' \in Argvs /\ AddressesAsGiven' /\ SettingsAsGiven'
        /\ RefusedForAReason'
    BY <2>1, ReadStays
  <2>3. i = 1 /\ oper = 1 /\ sent = <<>> /\ prog' = prog
    BY <2>1 DEF IInv, WalkInv, prog
  <2>4. SentInv'
    <3>1. \A m \in (1..Types) \X (1..4) : ~(Order(m) < 4 * 1 + 1)
      BY TableLength DEF Order
    <3> QED
      BY <2>1, <2>3, <3>1 DEF SentInv
  <2>5. WalkInv'
    BY <2>1, <2>3, <2>4 DEF WalkInv
  <2>6. TypeOK'
    BY <2>1, <2>2 DEF IInv, TypeOK
  <2> QED
    BY <2>1, <2>2, <2>5, <2>6 DEF IInv
<1>3. CASE SendMessage \/ SkipOperation
  <2>1. /\ pc = "walk" /\ pc' = pc /\ argv' = argv /\ conf' = conf /\ set' = set
    BY <1>3 DEF SendMessage, SkipOperation, cmdVars, parser
  <2>2. /\ ConfInv' /\ CmdTypeOK' /\ argv' \in Argvs /\ AddressesAsGiven' /\ SettingsAsGiven'
        /\ RefusedForAReason'
    BY <2>1, ReadStays
  <2>3. /\ SentInv' /\ sent' \in Seq((1..Types) \X (1..4)) /\ i' \in 1..Types + 1 /\ oper' \in 1..4
        /\ prog' = "loop"
    BY <1>3, <2>1, Walked DEF IInv, WalkInv, prog
  <2>4. WalkInv'
    BY <2>1, <2>3 DEF WalkInv
  <2>5. TypeOK'
    BY <2>1, <2>2, <2>3 DEF IInv, TypeOK, Types
  <2> QED
    BY <2>1, <2>2, <2>4, <2>5 DEF IInv
<1>4. CASE Finish
  <2>1. /\ pc = "walk" /\ pc' = "done" /\ argv' = argv /\ conf' = conf /\ set' = set
        /\ i' = i /\ oper' = oper /\ sent' = sent /\ i > Types
    BY <1>4 DEF Finish, parser, Types
  <2>2. /\ ConfInv' /\ CmdTypeOK' /\ argv' \in Argvs /\ AddressesAsGiven' /\ SettingsAsGiven'
        /\ RefusedForAReason'
    BY <2>1, ReadStays
  <2>3. i = Types + 1
    BY <2>1, TableLength DEF IInv, TypeOK, Types
  <2>4. WalkInv'
    BY <2>1, <2>3 DEF IInv, WalkInv, SentInv, Chosen, prog
  <2>5. TypeOK'
    BY <2>1, <2>2 DEF IInv, TypeOK
  <2> QED
    BY <2>1, <2>2, <2>4, <2>5 DEF IInv
<1>5. CASE UNCHANGED vars
  <2>1. /\ argv' = argv /\ pc' = pc /\ todo' = todo /\ set' = set /\ erange' = erange
        /\ conf' = conf /\ i' = i /\ oper' = oper /\ sent' = sent
    BY <1>5 DEF vars, cmdVars, parser
  <2>2. TypeOK' /\ ConfInv' /\ argv' \in Argvs
    BY <2>1 DEF IInv, TypeOK, CmdTypeOK, ConfInv
  <2>3. WalkInv'
    BY <2>1 DEF IInv, WalkInv, SentInv, Chosen, prog
  <2>4. CASE pc = "options"
    <3>1. ParseInv'
      <4>1. ParseInv /\ Read' = Read /\ prog' = prog
        BY <2>1, <2>4 DEF IInv, Read, prog
      <4>2. TodoInv'
        BY <2>1, <4>1 DEF ParseInv, TodoInv
      <4>3. OdaInv' /\ VerInv' /\ (prog = "stats" => MacInv' /\ NidInv' /\ LidInv' /\ GapInv')
        BY <2>1, <4>1, Zenon
           DEF ParseInv, OdaInv, VerInv, MacInv, NidInv, LidInv, GapInv, Places
      <4>4. AddedInv' /\ CntInv'
        BY <2>1, <4>1 DEF ParseInv, AddedInv, CntInv, Mentioned
      <4>5. GoodInv' /\ RangeInv'
        BY <2>1, <4>1 DEF ParseInv, GoodInv, Good, RangeInv
      <4> QED
        BY <4>1, <4>2, <4>3, <4>4, <4>5 DEF ParseInv
    <3> QED
      BY <2>1, <2>2, <2>3, <2>4, <3>1
         DEF IInv, AddressesAsGiven, SettingsAsGiven, RefusedForAReason, Accepted
  <2>5. CASE pc = "usage"
    <3>1. (Mistaken' <=> Mistaken) /\ (Misnumbered' <=> Misnumbered)
      BY <2>1 DEF Mistaken, Misnumbered, MissingParameter, Positions, Given, Named, prog
    <3> QED
      BY <2>1, <2>2, <2>3, <2>5, <3>1
         DEF IInv, AddressesAsGiven, SettingsAsGiven, RefusedForAReason, Accepted
  <2>6. CASE pc \notin {"options", "usage"}
    BY <2>1, <2>2, <2>3, <2>6, ReadStays DEF IInv
  <2> QED
    BY <2>4, <2>5, <2>6
<1> QED
  BY <1>1, <1>2, <1>3, <1>4, <1>5 DEF Next, Over

\* The invariant holds of every walk through a command line and the table.
THEOREM Invariant == Spec => []IInv
<1>1. Init => IInv
  BY InitIInv
<1>2. IInv /\ [Next]_vars => IInv'
  BY StepIInv
<1> QED
  BY <1>1, <1>2, PTL DEF Spec

\* struct cmd_cnf keeps its type through _parse_opt: the lid is a byte, the gap
\* has 32 bits and the addresses have their lengths; the indices of the loops of
\* main stay inside the table, and what is sent is an entry of it.
THEOREM TypeCorrect == Spec => []TypeOK
<1>1. IInv => TypeOK
  BY DEF IInv
<1> QED
  BY <1>1, Invariant, PTL

\* hpav_parse_mac and hpav_parse_nid: whatever the texts and the order of the
\* options, the addresses in use are the bytes that were written last, and no
\* text that is not an address is ever accepted.
THEOREM AddressesKept == Spec => []AddressesAsGiven
<1>1. IInv => AddressesAsGiven
  BY DEF IInv
<1> QED
  BY <1>1, Invariant, PTL

\* _parse_opt: restrictions add up whatever the order, the last of the other
\* options counts, and a number that fits its type is taken as it is.
THEOREM SettingsKept == Spec => []SettingsAsGiven
<1>1. IInv => SettingsAsGiven
  BY DEF IInv
<1> QED
  BY <1>1, Invariant, PTL

\* argp_usage and argp_error end the program only for a flaw of the command
\* line, whatever numbers it holds: an errno that sscanf left behind makes a
\* sound -g fail, but never without an -i that is no number 0..255.  And a
\* line that is accepted has one interface, addresses, and what a link query
\* needs.
THEOREM RefusalsJustified == Spec => []RefusedForAReason
<1>1. IInv => RefusedForAReason
  BY DEF IInv
<1> QED
  BY <1>1, Invariant, PTL

\* The loops of main: when they end, message_send was called exactly for the
\* operations that the table supports and the options select, in order.
THEOREM WalkComplete == Spec => []SendsSelected
<1>1. IInv => SendsSelected
  <2>1. ASSUME IInv, pc = "done"
        PROVE  SendsSelected
    <3>1. SentInv /\ prog = "loop" /\ i = Types + 1 /\ TypeOK /\ SettingsAsGiven
      BY <2>1 DEF IInv, WalkInv
    <3>2. /\ Range(sent) = {m \in (1..Len(MMTypes)) \X (1..4) :
                              OperationAt[m[2]] \in MMTypes[m[1]] \cap SelectedOperations}
          /\ \A k \in 1..Len(sent) - 1 :
               4 * sent[k][1] + sent[k][2] < 4 * sent[k + 1][1] + sent[k + 1][2]
      BY <2>1, <3>1, WalkEnd
    <3> QED
      BY <3>2, Zenon DEF SendsSelected
  <2> QED
    BY <2>1 DEF SendsSelected
<1> QED
  BY <1>1, Invariant, PTL

=============================================================================
