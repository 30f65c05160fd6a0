---------------------------- MODULE BlocksProofs ----------------------------
(***************************************************************************)
(* What the handlers read of a block that the station wrote, for every     *)
(* measurement that its digits can say, and what its checksum shows.       *)
(***************************************************************************)
EXTENDS Blocks, RingArith, SequenceTheorems, FiniteSetTheorems, WellFoundedInduction, TLAPS

----------------------------------------------------------------------------
(* The digits.                                                             *)

\* Two digits in a byte are read as they were written (parse.h:14-16).
LEMMA DigitsRead == \A n \in Nat : n <= 99 => DDtoint(BCD(n)) = n /\ BCD(n) \in Byte
  BY DEF DDtoint, BCD, Byte

\* A digit below another nibble.
LEMMA NibbleRead ==
    \A d, k \in Nat : d <= 15 => xDtoint(d + 16 * k) = d
  BY DEF xDtoint

\* The tens of a direction are lost (parse.h:16).
LEMMA TensLost == \A c \in Nat : Dxtoint(c) = 0
  BY DEF Dxtoint

LEMMA Tenths == \A x \in Nat : ToInt(x) = x \div 10
  BY DEF ToInt

\* Three digits with a tenth, and the sign bit above them (parse.c:194-201).
LEMMA TemperatureRead ==
    ASSUME NEW x \in Int, -799 <= x, x <= 799
    PROVE  Temperature(BCD(Magnitude(x) % 100),
                       (Magnitude(x) \div 100) + IF x < 0 THEN 8 ELSE 0) = 10 * ToInt(x)
  <1> DEFINE y == Magnitude(x)
             q == y \div 100
             r == y % 100
             hi == q + IF x < 0 THEN 8 ELSE 0
  <1>1. y \in Nat /\ y <= 799 /\ (x < 0 => y = -x) /\ (~(x < 0) => y = x)
    BY DEF Magnitude
  <1> HIDE DEF y
  <1>2. q \in Nat /\ q <= 7 /\ r \in Nat /\ r <= 99 /\ y = 100 * q + r
    BY <1>1
  <1>3. DDtoint(BCD(r)) = r
    BY <1>2, DigitsRead
  <1> HIDE DEF q, r
  <1>4. hi % 8 = q /\ ((hi \div 8) % 2 = 1 <=> x < 0)
    BY <1>2
  <1>5. xDtoint(hi % 8) = q
    BY <1>2, <1>4 DEF xDtoint
  <1> HIDE DEF hi
  <1>6. Temperature(BCD(r), hi) = IF x < 0 THEN -(10 * (y \div 10)) ELSE 10 * (y \div 10)
    BY <1>2, <1>3, <1>4, <1>5 DEF Temperature
  <1>7. 10 * ToInt(x) = IF x < 0 THEN -(10 * (y \div 10)) ELSE 10 * (y \div 10)
    BY <1>1 DEF ToInt
  <1> QED BY <1>6, <1>7 DEF y, q, r, hi

\* Three digits with a tenth, below a digit of the direction (parse.c:280-284).
LEMMA SpeedRead ==
    ASSUME NEW x \in Nat, x <= 999, NEW k \in Nat
    PROVE  Speed(BCD(x % 100), (x \div 100) + 16 * k) = 10 * ToInt(x)
  <1> DEFINE q == x \div 100
             r == x % 100
  <1>1. q \in Nat /\ q <= 9 /\ r \in Nat /\ r <= 99 /\ x = 100 * q + r
    OBVIOUS
  <1>2. DDtoint(BCD(r)) = r
    BY <1>1, DigitsRead
  <1>3. xDtoint(q + 16 * k) = q
    BY <1>1, NibbleRead
  <1> HIDE DEF q, r
  <1>4. Speed(BCD(r), q + 16 * k) = 10 * (x \div 10)
    BY <1>1, <1>2, <1>3 DEF Speed
  <1> QED BY <1>4, Tenths DEF q, r

LEMMA DirectionRead ==
    ASSUME NEW d \in Nat, d <= 3599, NEW c \in Nat
    PROVE  Direction(BCD(d \div 100), c) = 100 * (d \div 100)
  <1>1. d \div 100 \in Nat /\ d \div 100 <= 99
    OBVIOUS
  <1>2. DDtoint(BCD(d \div 100)) = d \div 100 /\ Dxtoint(c) = 0
    BY <1>1, DigitsRead, TensLost
  <1> QED BY <1>1, <1>2 DEF Direction

\* Three digits of whole millimetres (parse.c:252-253).
LEMMA RainRead ==
    ASSUME NEW r \in Nat, r <= 999
    PROVE  10 * (100 * xDtoint((r \div 100) + 0) + DDtoint(BCD(r % 100))) = 10 * r
  <1> DEFINE q == r \div 100
             s == r % 100
  <1>1. q \in Nat /\ q <= 9 /\ s \in Nat /\ s <= 99 /\ r = 100 * q + s
    OBVIOUS
  <1>2. DDtoint(BCD(s)) = s
    BY <1>1, DigitsRead
  <1>3. xDtoint(q + 0) = q
    BY <1>1 DEF xDtoint
  <1> HIDE DEF q, s
  <1>4. 10 * (100 * xDtoint(q + 0) + DDtoint(BCD(s))) = 10 * r
    BY <1>1, <1>2, <1>3
  <1> QED BY <1>4 DEF q, s

\* Five digits of tenths of a millibar (parse.c:223-224).
LEMMA BaroRead ==
    ASSUME NEW x \in Nat, x <= 19999
    PROVE  /\ DDtoint(BCD(x % 100)) = x % 100
           /\ DDtoint(BCD((x \div 100) % 100)) = (x \div 100) % 100
           /\ xDtoint(x \div 10000) = x \div 10000
           /\ x = (x % 100) + 100 * ((x \div 100) % 100) + 10000 * (x \div 10000)
  <1>1. x % 100 \in Nat /\ x % 100 <= 99 /\ (x \div 100) % 100 \in Nat /\ (x \div 100) % 100 <= 99
    OBVIOUS
  <1>2. xDtoint(x \div 10000) = x \div 10000
    BY DEF xDtoint
  <1>3. x = (x % 100) + 100 * ((x \div 100) % 100) + 10000 * (x \div 10000)
    OBVIOUS
  <1> QED BY <1>1, <1>2, <1>3, DigitsRead

----------------------------------------------------------------------------
(* The bytes of a block.                                                   *)

\* The group number first, then the payload at its places.
LEMMA EncodedByte ==
    ASSUME NEW m, m.h \in Headers
    PROVE  /\ Encode(m)[1] = m.h /\ Len(Encode(m)) = SIZE[m.h]
           /\ \A i \in 1 .. SIZE[m.h] - 2 :
                 At(Encode(m), i) = IF i \in DOMAIN Payload(m) THEN Payload(m)[i] ELSE 0
  <1> DEFINE n == SIZE[m.h] - 1
             body == [k \in 1 .. n |-> IF k = 1 THEN m.h
                                       ELSE IF k - 1 \in DOMAIN Payload(m) THEN Payload(m)[k - 1]
                                       ELSE 0]
             sum == SumFunctionOnSet(body, DOMAIN body) % 256
             S == {body[k] : k \in 1 .. n} \cup {sum}
  <1>1. n \in Nat /\ n >= 13 /\ SIZE[m.h] = n + 1
    BY DEF SIZE, Headers, H8F, H9F, HAF, HBF, HCF
  <1>2. Encode(m) = Append(body, sum)
    BY DEF Encode
  <1> HIDE DEF n
  <1>3. /\ body \in [1 .. n -> S] /\ sum \in S
        /\ \A k \in 1 .. n : body[k] = IF k = 1 THEN m.h
                                       ELSE IF k - 1 \in DOMAIN Payload(m) THEN Payload(m)[k - 1]
                                       ELSE 0
    OBVIOUS
  <1> HIDE DEF body, sum, S
  <1>4. body \in Seq(S)
    BY <1>1, <1>3, SeqDef
  <1>5. Len(body) = n
    BY <1>1, <1>3, <1>4, LenProperties
  <1>6. /\ Len(Append(body, sum)) = n + 1
        /\ \A k \in 1 .. n : Append(body, sum)[k] = body[k]
    BY <1>3, <1>4, <1>5, AppendProperties
  <1>7. 1 \in 1 .. n /\ \A i \in 1 .. n - 1 : i + 1 \in 1 .. n /\ i + 1 # 1 /\ (i + 1) - 1 = i
    BY <1>1
  <1>8. Encode(m)[1] = m.h
    BY <1>2, <1>3, <1>6, <1>7
  <1>9. ASSUME NEW i \in 1 .. n - 1
        PROVE  At(Encode(m), i) = IF i \in DOMAIN Payload(m) THEN Payload(m)[i] ELSE 0
    <2>1. At(Encode(m), i) = body[i + 1]
      BY <1>2, <1>6, <1>7 DEF At
    <2> QED BY <1>3, <1>7, <2>1
  <1>10. SIZE[m.h] - 2 = n - 1
    BY <1>1
  <1> QED BY <1>1, <1>2, <1>6, <1>8, <1>9, <1>10

LEMMA GroupNumbers ==
    /\ H8F # H9F /\ H8F # HAF /\ H8F # HBF /\ H8F # HCF /\ H9F # HAF /\ H9F # HBF
    /\ H9F # HCF /\ HAF # HBF /\ HAF # HCF /\ HBF # HCF
    /\ SIZE[H8F] = 35 /\ SIZE[H9F] = 34 /\ SIZE[HAF] = 31 /\ SIZE[HBF] = 14 /\ SIZE[HCF] = 27
  BY DEF SIZE, Headers, H8F, H9F, HAF, HBF, HCF

LEMMA FieldsOfBlocks ==
    /\ FieldsIn(H8F) = {"HUMIN", "HUMOUT"} /\ FieldsIn(H9F) = {"TEMPIN", "TEMPOUT"}
    /\ FieldsIn(HAF) = {"DEWIN", "DEWOUT", "BARO"} /\ FieldsIn(HBF) = {"RAINRATE", "RAINTOT"}
    /\ FieldsIn(HCF) = {"GUST", "GUSTDIR", "WAVG", "WAVGDIR", "WCHILL"}
  BY GroupNumbers, Zenon DEF FieldsIn

\* The readings of a field, by their bounds.
LEMMA Readings ==
    ASSUME NEW f \in Fields, NEW x \in ReadingsOf(f)
    PROVE  \E n \in Int : /\ x = IF f \in InTenths THEN n ELSE 10 * n
                          /\ n <= Most(f) /\ -Most(f) <= n
                          /\ f \notin Signed => n \in Nat
  <1>1. Most(f) \in Nat
    BY DEF Most
  <1>2. PICK n \in (IF f \in Signed THEN -Most(f) ELSE 0) .. Most(f) :
               x = (IF f \in InTenths THEN 1 ELSE 10) * n
    BY DEF ReadingsOf
  <1>3. n \in Int /\ n <= Most(f) /\ -Most(f) <= n /\ (f \notin Signed => n \in Nat)
    BY <1>1, <1>2
  <1> QED BY <1>2, <1>3

\* The same, for each kind of field.
LEMMA WholeReadings ==
    ASSUME NEW f \in {"HUMIN", "HUMOUT", "DEWIN", "DEWOUT"}, NEW x \in ReadingsOf(f)
    PROVE  \E n \in Nat : n <= 99 /\ x = 10 * n
  <1>1. f \in Fields /\ f \notin InTenths /\ f \notin Signed /\ Most(f) = 99
    BY DEF Fields, IntFields, InTenths, Signed, Most, Directions
  <1> QED BY <1>1, Readings

LEMMA ChillReadings ==
    ASSUME NEW x \in ReadingsOf("WCHILL")
    PROVE  \E n \in Int : -99 <= n /\ n <= 99 /\ x = 10 * n
  <1>1. "WCHILL" \in Fields /\ "WCHILL" \notin InTenths /\ Most("WCHILL") = 99
    BY DEF Fields, IntFields, InTenths, Most, Directions
  <1> QED BY <1>1, Readings

LEMMA RainReadings ==
    ASSUME NEW f \in {"RAINRATE", "RAINTOT"}, NEW x \in ReadingsOf(f)
    PROVE  \E n \in Nat : n <= 999 /\ x = 10 * n
  <1>1. f \in Fields /\ f \notin InTenths /\ f \notin Signed /\ Most(f) = 999
    BY DEF Fields, IntFields, InTenths, Signed, Most, Directions
  <1> QED BY <1>1, Readings

LEMMA DirectionReadings ==
    ASSUME NEW f \in Directions, NEW x \in ReadingsOf(f)
    PROVE  \E n \in Nat : n <= 359 /\ x = 10 * n
  <1>1. f \in Fields /\ f \notin InTenths /\ f \notin Signed /\ Most(f) = 359
    BY DEF Fields, IntFields, InTenths, Signed, Most, Directions
  <1> QED BY <1>1, Readings

LEMMA SpeedReadings ==
    ASSUME NEW f \in {"GUST", "WAVG"}, NEW x \in ReadingsOf(f)
    PROVE  x \in Nat /\ x <= 999
  <1>1. f \in Fields /\ f \in InTenths /\ f \notin Signed /\ Most(f) = 999
    BY DEF Fields, IntFields, InTenths, Signed, Most, Directions
  <1> QED BY <1>1, Readings

LEMMA TemperatureReadings ==
    ASSUME NEW f \in {"TEMPIN", "TEMPOUT"}, NEW x \in ReadingsOf(f)
    PROVE  x \in Int /\ -799 <= x /\ x <= 799
  <1>1. f \in Fields /\ f \in InTenths /\ Most(f) = 799
    BY DEF Fields, IntFields, InTenths, Most
  <1> QED BY <1>1, Readings

LEMMA BaroReadings ==
    ASSUME NEW x \in ReadingsOf("BARO")
    PROVE  x \in Nat /\ x <= 19999
  <1>1. "BARO" \in Fields /\ "BARO" \in InTenths /\ "BARO" \notin Signed /\ Most("BARO") = 19999
    BY DEF Fields, IntFields, InTenths, Signed, Most
  <1> QED BY <1>1, Readings

----------------------------------------------------------------------------
(* The handlers.                                                           *)

\* The relative humidities (parse.c:152-183).
LEMMA ReadsHumidity ==
    ASSUME NEW m, Sound(m), m.h = H8F
    PROVE  Decode(Encode(m)) = [HUMIN |-> m.v.HUMIN, HUMOUT |-> m.v.HUMOUT]
  <1> DEFINE b == Encode(m)
  <1>1. m.v.HUMIN \in ReadingsOf("HUMIN") /\ m.v.HUMOUT \in ReadingsOf("HUMOUT")
    BY FieldsOfBlocks DEF Sound
  <1>2. PICK i \in Nat : i <= 99 /\ m.v.HUMIN = 10 * i
    BY <1>1, WholeReadings
  <1>3. PICK o \in Nat : o <= 99 /\ m.v.HUMOUT = 10 * o
    BY <1>1, WholeReadings
  <1>4. At(b, 8) = BCD(i) /\ At(b, 20) = BCD(o)
    <2>1. /\ DOMAIN Payload(m) = {8, 20} /\ Payload(m)[8] = BCD(m.v.HUMIN \div 10)
          /\ Payload(m)[20] = BCD(m.v.HUMOUT \div 10)
      BY DEF Payload, SignBit
    <2>2. 8 \in 1 .. SIZE[m.h] - 2 /\ 20 \in 1 .. SIZE[m.h] - 2 /\ m.h \in Headers
      BY GroupNumbers DEF Sound
    <2>3. (10 * i) \div 10 = i /\ (10 * o) \div 10 = o
      OBVIOUS
    <2> QED BY <1>2, <1>3, <2>1, <2>2, <2>3, EncodedByte
  <1>5. Decode(b) = parse8f(b)
    BY EncodedByte DEF Decode, Sound
  <1> HIDE DEF b
  <1>6. DDtoint(At(b, 8)) = i /\ DDtoint(At(b, 20)) = o
    BY <1>2, <1>3, <1>4, DigitsRead
  <1> QED BY <1>2, <1>3, <1>5, <1>6 DEF parse8f, b

\* Both temperatures (parse.c:185-212).
LEMMA ReadsTemperature ==
    ASSUME NEW m, Sound(m), m.h = H9F
    PROVE  Decode(Encode(m)) = [TEMPIN  |-> 10 * ToInt(m.v.TEMPIN),
                                TEMPOUT |-> 10 * ToInt(m.v.TEMPOUT)]
  <1> DEFINE b == Encode(m)
             x == m.v.TEMPIN
             y == m.v.TEMPOUT
  <1>1. x \in ReadingsOf("TEMPIN") /\ y \in ReadingsOf("TEMPOUT")
    BY FieldsOfBlocks DEF Sound
  <1>2. x \in Int /\ -799 <= x /\ x <= 799 /\ y \in Int /\ -799 <= y /\ y <= 799
    BY <1>1, TemperatureReadings
  <1>3. /\ At(b, 1) = BCD(Magnitude(x) % 100)
        /\ At(b, 2) = (Magnitude(x) \div 100) + IF x < 0 THEN 8 ELSE 0
        /\ At(b, 16) = BCD(Magnitude(y) % 100)
        /\ At(b, 17) = (Magnitude(y) \div 100) + IF y < 0 THEN 8 ELSE 0
    <2>1. /\ DOMAIN Payload(m) = {1, 2, 16, 17}
          /\ Payload(m)[1] = BCD(Magnitude(x) % 100)
          /\ Payload(m)[2] = (Magnitude(x) \div 100) + IF x < 0 THEN 8 ELSE 0
          /\ Payload(m)[16] = BCD(Magnitude(y) % 100)
          /\ Payload(m)[17] = (Magnitude(y) \div 100) + IF y < 0 THEN 8 ELSE 0
      BY GroupNumbers DEF Payload, SignBit
    <2>2. \A i \in {1, 2, 16, 17} : i \in 1 .. SIZE[m.h] - 2
      BY GroupNumbers
    <2> QED BY <2>1, <2>2, EncodedByte DEF Sound
  <1>4. Decode(b) = parse9f(b)
    BY EncodedByte, GroupNumbers DEF Decode, Sound
  <1> HIDE DEF b, x, y
  <1>5. Temperature(At(b, 1), At(b, 2)) = 10 * ToInt(x)
    BY <1>2, <1>3, TemperatureRead
  <1>6. Temperature(At(b, 16), At(b, 17)) = 10 * ToInt(y)
    BY <1>2, <1>3, TemperatureRead
  <1> QED BY <1>4, <1>5, <1>6 DEF parse9f, b, x, y

\* The dewpoints and the barometer (parse.c:214-241).
LEMMA ReadsDewpoint ==
    ASSUME NEW m, Sound(m), m.h = HAF
    PROVE  Decode(Encode(m)) = [DEWIN |-> m.v.DEWIN, DEWOUT |-> m.v.DEWOUT, BARO |-> m.v.BARO]
  <1> DEFINE b == Encode(m)
             p == m.v.BARO
  <1>1. /\ m.v.DEWIN \in ReadingsOf("DEWIN") /\ m.v.DEWOUT \in ReadingsOf("DEWOUT")
        /\ p \in ReadingsOf("BARO")
    BY FieldsOfBlocks DEF Sound
  <1>2. PICK i \in Nat : i <= 99 /\ m.v.DEWIN = 10 * i
    BY <1>1, WholeReadings
  <1>3. PICK o \in Nat : o <= 99 /\ m.v.DEWOUT = 10 * o
    BY <1>1, WholeReadings
  <1>4. p \in Nat /\ p <= 19999
    BY <1>1, BaroReadings
  <1>5. /\ At(b, 7) = BCD(i) /\ At(b, 18) = BCD(o)
        /\ At(b, 3) = BCD(p % 100) /\ At(b, 4) = BCD((p \div 100) % 100)
        /\ At(b, 5) = p \div 10000
    <2>1. /\ DOMAIN Payload(m) = {3, 4, 5, 7, 18}
          /\ Payload(m)[3] = BCD(Magnitude(p) % 100)
          /\ Payload(m)[4] = BCD(Magnitude(p \div 100) % 100)
          /\ Payload(m)[5] = p \div 10000
          /\ Payload(m)[7] = BCD(m.v.DEWIN \div 10)
          /\ Payload(m)[18] = BCD(m.v.DEWOUT \div 10)
      BY GroupNumbers DEF Payload, SignBit
    <2>2. \A k \in {3, 4, 5, 7, 18} : k \in 1 .. SIZE[m.h] - 2
      BY GroupNumbers
    <2>3. /\ (10 * i) \div 10 = i /\ (10 * o) \div 10 = o
          /\ Magnitude(p) = p /\ Magnitude(p \div 100) = p \div 100
      BY <1>4 DEF Magnitude
    <2> QED BY <1>2, <1>3, <2>1, <2>2, <2>3, EncodedByte DEF Sound
  <1>6. Decode(b) = parseaf(b)
    BY EncodedByte, GroupNumbers DEF Decode, Sound
  <1> HIDE DEF b, p
  <1>7. DDtoint(At(b, 7)) = i /\ DDtoint(At(b, 18)) = o
    BY <1>2, <1>3, <1>5, DigitsRead
  <1>8. DDtoint(At(b, 3)) + 100 * DDtoint(At(b, 4)) + 10000 * xDtoint(At(b, 5)) = p
    <2>1. /\ DDtoint(At(b, 3)) = p % 100 /\ DDtoint(At(b, 4)) = (p \div 100) % 100
          /\ xDtoint(At(b, 5)) = p \div 10000
      BY <1>4, <1>5, BaroRead
    <2>2. p = (p % 100) + 100 * ((p \div 100) % 100) + 10000 * (p \div 10000)
      BY <1>4, BaroRead
    <2> QED BY <2>1, <2>2
  <1> QED BY <1>2, <1>3, <1>6, <1>7, <1>8 DEF parseaf, b, p

\* The rain (parse.c:243-268).
LEMMA ReadsRain ==
    ASSUME NEW m, Sound(m), m.h = HBF
    PROVE  Decode(Encode(m)) = [RAINRATE |-> m.v.RAINRATE, RAINTOT |-> m.v.RAINTOT]
  <1> DEFINE b == Encode(m)
  <1>1. m.v.RAINRATE \in ReadingsOf("RAINRATE") /\ m.v.RAINTOT \in ReadingsOf("RAINTOT")
    BY FieldsOfBlocks DEF Sound
  <1>2. PICK i \in Nat : i <= 999 /\ m.v.RAINRATE = 10 * i
    BY <1>1, RainReadings
  <1>3. PICK o \in Nat : o <= 999 /\ m.v.RAINTOT = 10 * o
    BY <1>1, RainReadings
  <1>4. /\ At(b, 1) = BCD(i % 100) /\ At(b, 2) = (i \div 100) + 0
        /\ At(b, 5) = BCD(o % 100) /\ At(b, 6) = (o \div 100) + 0
    <2>1. /\ DOMAIN Payload(m) = {1, 2, 5, 6}
          /\ Payload(m)[1] = BCD(Magnitude(m.v.RAINRATE \div 10) % 100)
          /\ Payload(m)[2] = (Magnitude(m.v.RAINRATE \div 10) \div 100)
                              + IF m.v.RAINRATE \div 10 < 0 THEN 0 ELSE 0
          /\ Payload(m)[5] = BCD(Magnitude(m.v.RAINTOT \div 10) % 100)
          /\ Payload(m)[6] = (Magnitude(m.v.RAINTOT \div 10) \div 100)
                              + IF m.v.RAINTOT \div 10 < 0 THEN 0 ELSE 0
      BY GroupNumbers DEF Payload, SignBit
    <2>2. \A k \in {1, 2, 5, 6} : k \in 1 .. SIZE[m.h] - 2
      BY GroupNumbers
    <2>3. /\ m.v.RAINRATE \div 10 = i /\ m.v.RAINTOT \div 10 = o
          /\ Magnitude(i) = i /\ Magnitude(o) = o
      BY <1>2, <1>3 DEF Magnitude
    <2> QED BY <2>1, <2>2, <2>3, EncodedByte DEF Sound
  <1>5. Decode(b) = parsebf(b)
    BY EncodedByte, GroupNumbers DEF Decode, Sound
  <1> HIDE DEF b
  <1>6. 10 * (100 * xDtoint(At(b, 2)) + DDtoint(At(b, 1))) = 10 * i
    BY <1>2, <1>4, RainRead
  <1>7. 10 * (100 * xDtoint(At(b, 6)) + DDtoint(At(b, 5))) = 10 * o
    BY <1>3, <1>4, RainRead
  <1> QED BY <1>2, <1>3, <1>5, <1>6, <1>7 DEF parsebf, b

\* The wind: two speeds and two directions that share bytes, and the chill
\* (parse.c:270-320).
LEMMA ReadsWind ==
    ASSUME NEW m, Sound(m), m.h = HCF
    PROVE  Decode(Encode(m)) = [GUST    |-> 10 * ToInt(m.v.GUST),
                                GUSTDIR |-> 100 * (m.v.GUSTDIR \div 100),
                                WAVG    |-> 10 * ToInt(m.v.WAVG),
                                WAVGDIR |-> 100 * (m.v.WAVGDIR \div 100),
                                WCHILL  |-> m.v.WCHILL]
  <1> DEFINE b == Encode(m)
             g == m.v.GUST
             d == m.v.GUSTDIR
             a == m.v.WAVG
             e == m.v.WAVGDIR
             c == m.v.WCHILL
  <1>1. /\ g \in ReadingsOf("GUST") /\ d \in ReadingsOf("GUSTDIR") /\ a \in ReadingsOf("WAVG")
        /\ e \in ReadingsOf("WAVGDIR") /\ c \in ReadingsOf("WCHILL")
    BY FieldsOfBlocks DEF Sound
  <1>2. /\ g \in Nat /\ g <= 999 /\ a \in Nat /\ a <= 999
        /\ d \in Nat /\ d <= 3599 /\ e \in Nat /\ e <= 3599
    <2>1. \A f \in Directions : \A x \in ReadingsOf(f) : x \in Nat /\ x <= 3599
      BY DirectionReadings
    <2> QED BY <1>1, <2>1, SpeedReadings DEF Directions
  <1>3. PICK w \in Int : -99 <= w /\ w <= 99 /\ c = 10 * w
    BY <1>1, ChillReadings
  <1>4. /\ DOMAIN Payload(m) = {1, 2, 3, 4, 5, 6, 16, 21}
        /\ Payload(m)[1] = BCD(Magnitude(g) % 100)
        /\ Payload(m)[2] = (Magnitude(g) \div 100) + (IF g < 0 THEN 0 ELSE 0)
                           + 16 * ((d \div 10) % 10)
        /\ Payload(m)[3] = BCD(d \div 100)
        /\ Payload(m)[4] = BCD(Magnitude(a) % 100)
        /\ Payload(m)[5] = (Magnitude(a) \div 100) + (IF a < 0 THEN 0 ELSE 0)
                           + 16 * ((e \div 10) % 10)
        /\ Payload(m)[6] = BCD(e \div 100)
        /\ Payload(m)[16] = BCD(Magnitude(c) \div 10)
        /\ Payload(m)[21] = IF c < 0 THEN 32 ELSE 0
    BY GroupNumbers DEF Payload, SignBit
  <1>5. \A k \in {1, 2, 3, 4, 5, 6, 16, 21} : At(b, k) = Payload(m)[k]
    <2>1. \A k \in {1, 2, 3, 4, 5, 6, 16, 21} : k \in 1 .. SIZE[m.h] - 2
      BY GroupNumbers
    <2> QED BY <1>4, <2>1, EncodedByte DEF Sound
  <1>6. Decode(b) = parsecf(b)
    BY EncodedByte, GroupNumbers DEF Decode, Sound
  <1> HIDE DEF b, g, d, a, e, c
  <1>7. ASSUME NEW x \in Nat, x <= 999, NEW y \in Nat
        PROVE  LET hi == (Magnitude(x) \div 100) + (IF x < 0 THEN 0 ELSE 0)
                         + 16 * ((y \div 10) % 10)
               IN /\ Speed(BCD(Magnitude(x) % 100), hi) = 10 * ToInt(x)
                  /\ hi \in Nat
    <2> DEFINE k == (y \div 10) % 10
    <2>1. k \in Nat
      OBVIOUS
    <2> HIDE DEF k
    <2>2. Magnitude(x) = x /\ (x \div 100) + (IF x < 0 THEN 0 ELSE 0) + 16 * k = (x \div 100) + 16 * k
      BY <1>7, <2>1 DEF Magnitude
    <2>3. (x \div 100) + 16 * k \in Nat
      BY <1>7, <2>1
    <2>4. Speed(BCD(x % 100), (x \div 100) + 16 * k) = 10 * ToInt(x)
      BY <1>7, <2>1, SpeedRead
    <2> QED BY <2>2, <2>3, <2>4 DEF k
  <1>8. Speed(At(b, 1), At(b, 2)) = 10 * ToInt(g) /\ At(b, 2) \in Nat
    BY <1>2, <1>4, <1>5, <1>7
  <1>9. Speed(At(b, 4), At(b, 5)) = 10 * ToInt(a) /\ At(b, 5) \in Nat
    BY <1>2, <1>4, <1>5, <1>7
  <1>10. Direction(At(b, 3), At(b, 2)) = 100 * (d \div 100)
    BY <1>2, <1>4, <1>5, <1>8, DirectionRead
  <1>11. Direction(At(b, 6), At(b, 5)) = 100 * (e \div 100)
    BY <1>2, <1>4, <1>5, <1>9, DirectionRead
  <1>12. (IF (At(b, 21) \div 32) % 2 = 1 THEN -(10 * DDtoint(At(b, 16)))
          ELSE 10 * DDtoint(At(b, 16))) = c
    <2>1. Magnitude(c) \div 10 = Magnitude(w) /\ Magnitude(w) \in Nat /\ Magnitude(w) <= 99
      BY <1>3 DEF Magnitude
    <2>2. DDtoint(At(b, 16)) = Magnitude(w)
      BY <1>4, <1>5, <2>1, DigitsRead
    <2>3. (At(b, 21) \div 32) % 2 = 1 <=> c < 0
      BY <1>4, <1>5
    <2> QED BY <1>3, <2>2, <2>3 DEF Magnitude
  <1> QED BY <1>6, <1>8, <1>9, <1>10, <1>11, <1>12 DEF parsecf, b, g, d, a, e, c

----------------------------------------------------------------------------
(* Sums over a set.  SumFunctionOnSet is a recursion over the subsets of   *)
(* the set: that it has a solution, that the solution is unique and that   *)
(* the order of the elements does not matter follow from a smallest set    *)
(* for which they would fail.                                              *)

\* The element that SumFunctionOnSet takes out of a set, and its sum over the
\* sets of D, one element at a time.
Taken(s) == CHOOSE x \in s : TRUE
Adds(g, f, D) ==
    \A s \in D : g[s] = IF s = {} THEN 0 ELSE f[Taken(s)] + g[s \ {Taken(s)}]

SumsOf(g, f, S) ==
    g = [s \in SUBSET S |-> IF s = {} THEN 0 ELSE f[Taken(s)] + g[s \ {Taken(s)}]]

LEMMA TakenIn == \A s : s # {} => Taken(s) \in s
  BY DEF Taken

LEMMA LeastNat ==
    ASSUME NEW T \in SUBSET Nat, T # {}
    PROVE  \E x \in T : \A y \in T : x <= y
  <1>1. PICK x \in T : \A y \in T : ~(<<y, x>> \in OpToRel(<, Nat))
    BY NatLessThanWellFounded, WFMin
  <1>2. \A y \in T : ~(y < x)
    BY <1>1 DEF OpToRel
  <1> QED BY <1>2

\* A non-empty family of subsets of a finite set has one that leaves the family
\* whatever element it loses.
LEMMA SmallestSet ==
    ASSUME NEW S, IsFiniteSet(S), NEW B \in SUBSET SUBSET S, B # {}
    PROVE  \E s \in B : \A x \in s : s \ {x} \notin B
  <1> DEFINE T == {Cardinality(s) : s \in B}
  <1>1. \A s \in B : IsFiniteSet(s) /\ Cardinality(s) \in Nat
    BY FS_Subset, FS_CardinalityType
  <1>2. PICK n \in T : \A k \in T : n <= k
    <2>1. T \in SUBSET Nat /\ T # {}
      BY <1>1
    <2> HIDE DEF T
    <2> QED BY <2>1, LeastNat
  <1>3. PICK s \in B : Cardinality(s) = n
    BY <1>2
  <1>4. ASSUME NEW x \in s, s \ {x} \in B
        PROVE  FALSE
    <2>1. Cardinality(s \ {x}) = Cardinality(s) - 1
      BY <1>1, <1>4, FS_RemoveElement
    <2>2. n <= Cardinality(s \ {x})
      BY <1>2, <1>4
    <2> QED BY <1>1, <1>3, <2>1, <2>2
  <1> QED BY <1>3, <1>4

\* The recursion has a solution on the subsets of a finite set.
LEMMA AddsExists ==
    ASSUME NEW f, NEW S, IsFiniteSet(S)
    PROVE  \E g : SumsOf(g, f, S)
  <1> DEFINE Level(n) == {s \in SUBSET S : Cardinality(s) <= n}
             Bad == {n \in Nat : ~ \E g : Adds(g, f, Level(n))}
  <1>0. \A s \in SUBSET S : IsFiniteSet(s) /\ Cardinality(s) \in Nat
    BY FS_Subset, FS_CardinalityType
  <1>1. SUFFICES Bad = {}
    <2>1. SUBSET S = Level(Cardinality(S)) /\ Cardinality(S) \in Nat
      BY <1>0, FS_Subset, FS_CardinalityType
    <2>2. PICK h : Adds(h, f, SUBSET S)
      BY <1>1, <2>1
    <2> DEFINE g == [s \in SUBSET S |-> h[s]]
    <2>3. ASSUME NEW s \in SUBSET S
          PROVE  g[s] = IF s = {} THEN 0 ELSE f[Taken(s)] + g[s \ {Taken(s)}]
      <3>1. s \ {Taken(s)} \in SUBSET S
        OBVIOUS
      <3>2. h[s] = IF s = {} THEN 0 ELSE f[Taken(s)] + h[s \ {Taken(s)}]
        BY <2>2 DEF Adds
      <3> QED BY <3>1, <3>2
    <2>4. g = [s \in SUBSET S |-> g[s]]
      OBVIOUS
    <2> HIDE DEF g
    <2>5. SumsOf(g, f, S)
      BY <2>3, <2>4 DEF SumsOf
    <2> QED BY <2>5
  <1>2. SUFFICES ASSUME Bad # {} PROVE FALSE
    OBVIOUS
  <1>3. PICK n \in Bad : \A k \in Bad : n <= k
    <2>1. Bad \in SUBSET Nat
      OBVIOUS
    <2> HIDE DEF Bad
    <2> QED BY <1>2, <2>1, LeastNat
  <1>4. n \in Nat
    BY <1>3
  <1>5. \E g : Adds(g, f, Level(n))
    <2>1. CASE n = 0
      <3>1. Level(n) = {{}}
        <4>1. \A s \in SUBSET S : Cardinality(s) <= 0 <=> s = {}
          BY <1>0, FS_EmptySet
        <4> QED BY <2>1, <4>1
      <3> DEFINE g == [s \in Level(n) |-> 0]
      <3> HIDE DEF Level
      <3>2. Adds(g, f, Level(n))
        BY <3>1 DEF Adds
      <3> QED BY <3>2
    <2>2. CASE n # 0
      <3>1. n - 1 \in Nat /\ n - 1 \notin Bad
        <4>1. n - 1 \in Nat /\ ~(n <= n - 1)
          BY <1>4, <2>2
        <4> HIDE DEF Bad
        <4> QED BY <1>3, <4>1
      <3>2. PICK h : Adds(h, f, Level(n - 1))
        BY <3>1
      <3> DEFINE g == [s \in Level(n) |-> IF s = {} THEN 0 ELSE f[Taken(s)] + h[s \ {Taken(s)}]]
      <3>3. ASSUME NEW s \in Level(n), s # {}
            PROVE  s \ {Taken(s)} \in Level(n - 1) /\ s \ {Taken(s)} \in Level(n)
        <4>1. Cardinality(s \ {Taken(s)}) = Cardinality(s) - 1
          BY <1>0, <3>3, TakenIn, FS_RemoveElement
        <4> QED BY <1>0, <1>4, <3>3, <4>1
      <3>4. \A s \in Level(n - 1) :
               h[s] = IF s = {} THEN 0 ELSE f[Taken(s)] + h[s \ {Taken(s)}]
        BY <3>2 DEF Adds
      <3> HIDE DEF Level
      <3>5. \A s \in Level(n) : s # {} => g[s \ {Taken(s)}] = h[s \ {Taken(s)}]
        BY <3>3, <3>4
      <3>6. Adds(g, f, Level(n))
        BY <3>5 DEF Adds
      <3> QED BY <3>6
    <2> QED BY <2>1, <2>2
  <1> QED BY <1>3, <1>5

\* The sum over a set is a solution's value for it.
LEMMA SumAdds ==
    ASSUME NEW f, NEW S, IsFiniteSet(S)
    PROVE  \E g : Adds(g, f, SUBSET S) /\ SumFunctionOnSet(f, S) = g[S]
  <1> DEFINE iter == CHOOSE g : SumsOf(g, f, S)
  <1>1. SumFunctionOnSet(f, S) = iter[S]
    BY DEF SumFunctionOnSet, FoldFunctionOnSet, MapThenFoldSet, SumsOf, Taken
  <1>2. SumsOf(iter, f, S)
    BY AddsExists, Zenon
  <1> HIDE DEF iter
  <1>3. Adds(iter, f, SUBSET S)
    BY <1>2 DEF Adds, SumsOf
  <1> QED BY <1>1, <1>3

\* Solutions agree, for functions that agree.
LEMMA AddsUnique ==
    ASSUME NEW f, NEW e, NEW T, IsFiniteSet(T), \A x \in T : f[x] = e[x],
           NEW g, Adds(g, f, SUBSET T), NEW h, Adds(h, e, SUBSET T)
    PROVE  g[T] = h[T]
  <1> DEFINE B == {s \in SUBSET T : g[s] # h[s]}
  <1>1. SUFFICES ASSUME B # {} PROVE FALSE
    BY DEF B
  <1>2. PICK s \in B : \A x \in s : s \ {x} \notin B
    <2>1. IsFiniteSet(T) /\ B \in SUBSET SUBSET T
      BY FS_Subset
    <2> HIDE DEF B
    <2> QED BY <1>1, <2>1, SmallestSet
  <1>3. /\ g[s] = IF s = {} THEN 0 ELSE f[Taken(s)] + g[s \ {Taken(s)}]
        /\ h[s] = IF s = {} THEN 0 ELSE e[Taken(s)] + h[s \ {Taken(s)}]
    <2>1. s \in SUBSET T
      BY <1>2
    <2> QED BY <2>1 DEF Adds
  <1>4. s # {}
    BY <1>2, <1>3
  <1>5. Taken(s) \in s /\ f[Taken(s)] = e[Taken(s)]
    BY <1>2, <1>4, TakenIn
  <1>6. g[s \ {Taken(s)}] = h[s \ {Taken(s)}]
    BY <1>2, <1>5
  <1> QED BY <1>2, <1>3, <1>4, <1>5, <1>6

\* Sums of functions that agree on a set are equal.
LEMMA SumsAgree ==
    ASSUME NEW f, NEW e, NEW S, IsFiniteSet(S), \A x \in S : f[x] = e[x]
    PROVE  SumFunctionOnSet(f, S) = SumFunctionOnSet(e, S)
  <1>1. PICK g : Adds(g, f, SUBSET S) /\ SumFunctionOnSet(f, S) = g[S]
    BY SumAdds
  <1>2. PICK h : Adds(h, e, SUBSET S) /\ SumFunctionOnSet(e, S) = h[S]
    BY SumAdds
  <1>3. g[S] = h[S]
    BY <1>1, <1>2, AddsUnique
  <1> QED BY <1>1, <1>2, <1>3

\* The sum over a set, from the sum without the element that is taken.
LEMMA SumTakes ==
    ASSUME NEW f, NEW S, IsFiniteSet(S)
    PROVE  SumFunctionOnSet(f, S) =
              IF S = {} THEN 0 ELSE f[Taken(S)] + SumFunctionOnSet(f, S \ {Taken(S)})
  <1> DEFINE T == S \ {Taken(S)}
  <1>1. T \in SUBSET S /\ S \in SUBSET S /\ IsFiniteSet(T) /\ T \in SUBSET T
    BY FS_Subset
  <1>2. PICK g : Adds(g, f, SUBSET S) /\ SumFunctionOnSet(f, S) = g[S]
    BY SumAdds
  <1>3. PICK h : Adds(h, f, SUBSET T) /\ SumFunctionOnSet(f, T) = h[T]
    BY <1>1, SumAdds
  <1>4. g[S] = IF S = {} THEN 0 ELSE f[Taken(S)] + g[T]
    BY <1>1, <1>2 DEF Adds
  <1>5. g[T] = h[T]
    <2> HIDE DEF T
    <2>1. Adds(g, f, SUBSET T)
      BY <1>1, <1>2 DEF Adds
    <2> QED BY <1>1, <1>3, <2>1, AddsUnique
  <1> QED BY <1>2, <1>3, <1>4, <1>5

\* A sum of integers is one.
LEMMA SumType ==
    ASSUME NEW f, NEW S, IsFiniteSet(S), \A x \in S : f[x] \in Int
    PROVE  \A s \in SUBSET S : SumFunctionOnSet(f, s) \in Int
  <1> DEFINE B == {s \in SUBSET S : SumFunctionOnSet(f, s) \notin Int}
  <1>1. SUFFICES ASSUME B # {} PROVE FALSE
    OBVIOUS
  <1>2. PICK s \in B : \A x \in s : s \ {x} \notin B
    <2>1. B \in SUBSET SUBSET S
      OBVIOUS
    <2> HIDE DEF B
    <2> QED BY <1>1, <2>1, SmallestSet
  <1>3. IsFiniteSet(s) /\ s \in SUBSET S
    BY <1>2, FS_Subset
  <1>4. SumFunctionOnSet(f, s) = IF s = {} THEN 0
                                 ELSE f[Taken(s)] + SumFunctionOnSet(f, s \ {Taken(s)})
    BY <1>3, SumTakes
  <1>5. s # {} => Taken(s) \in s /\ SumFunctionOnSet(f, s \ {Taken(s)}) \in Int
    BY <1>2, <1>3, TakenIn
  <1> QED BY <1>2, <1>3, <1>4, <1>5

\* Any element may be taken out of a sum.
LEMMA SumWithout ==
    ASSUME NEW f, NEW S, IsFiniteSet(S), \A x \in S : f[x] \in Int, NEW i \in S
    PROVE  SumFunctionOnSet(f, S) = f[i] + SumFunctionOnSet(f, S \ {i})
  <1> DEFINE Sum(s) == SumFunctionOnSet(f, s)
             B == {s \in SUBSET S : \E x \in s : Sum(s) # f[x] + Sum(s \ {x})}
  <1>1. SUFFICES ASSUME B # {} PROVE FALSE
    OBVIOUS
  <1> HIDE DEF Sum
  <1>2. PICK s \in B : \A x \in s : s \ {x} \notin B
    <2>1. B \in SUBSET SUBSET S
      OBVIOUS
    <2> HIDE DEF B
    <2> QED BY <1>1, <2>1, SmallestSet
  <1>3. PICK x \in s : Sum(s) # f[x] + Sum(s \ {x})
    BY <1>2
  <1>4. s \in SUBSET S
    BY <1>2
  <1> DEFINE t == Taken(s)
  <1>5. t \in s /\ Sum(s) = f[t] + Sum(s \ {t})
    BY <1>3, <1>4, FS_Subset, SumTakes, TakenIn DEF Sum
  <1> HIDE DEF t
  <1>6. x # t
    BY <1>3, <1>5
  <1>7. Sum(s \ {t}) = f[x] + Sum((s \ {t}) \ {x})
    BY <1>2, <1>3, <1>4, <1>5, <1>6
  <1>8. Sum(s \ {x}) = f[t] + Sum((s \ {x}) \ {t})
    BY <1>2, <1>3, <1>4, <1>5, <1>6
  <1>9. (s \ {t}) \ {x} = (s \ {x}) \ {t} /\ (s \ {t}) \ {x} \in SUBSET S
    BY <1>4
  <1>10. PICK rest \in Int : rest = Sum((s \ {t}) \ {x})
    BY <1>9, SumType DEF Sum
  <1>11. PICK a \in Int, b \in Int : a = f[x] /\ b = f[t]
    BY <1>3, <1>4, <1>5
  <1>12. Sum(s \ {t}) = a + rest /\ Sum(s \ {x}) = b + rest
    BY <1>7, <1>8, <1>9, <1>10, <1>11
  <1>13. Sum(s) = b + (a + rest) /\ Sum(s) # a + (b + rest)
    BY <1>3, <1>5, <1>11, <1>12
  <1> QED BY <1>13

----------------------------------------------------------------------------
(* The checksum.                                                           *)

\* Two blocks with good checksums that agree but in one byte agree in that byte
\* too (parse.c:323-332).
LEMMA ChecksumSees ==
    ASSUME NEW b \in Seq(Byte), NEW g \in Seq(Byte), Len(b) = Len(g), sumcheck(b), sumcheck(g),
           NEW i \in DOMAIN b, \A k \in DOMAIN b \ {i} : b[k] = g[k]
    PROVE  b[i] = g[i]
  <1> DEFINE n == Len(b)
             S == 1 .. n - 1
  <1>1. /\ n \in Nat /\ DOMAIN b = 1 .. n /\ i \in 1 .. n
        /\ \A k \in 1 .. n : b[k] \in Byte /\ g[k] \in Byte
    BY ElementOfSeq, LenProperties
  <1>2. IsFiniteSet(S) /\ \A k \in S : k \in 1 .. n /\ b[k] \in Int /\ g[k] \in Int
    <2>1. IsFiniteSet(S)
      BY <1>1, FS_Interval
    <2>2. \A k \in S : k \in 1 .. n
      BY <1>1
    <2>3. \A x \in Byte : x \in Int
      BY DEF Byte
    <2> QED BY <1>1, <2>1, <2>2, <2>3
  <1>3. SumFunctionOnSet(b, S) % 256 = b[n] /\ SumFunctionOnSet(g, S) % 256 = g[n]
    BY DEF sumcheck
  <1> HIDE DEF S, n
  <1>4. CASE i = n
    <2>1. \A k \in S : b[k] = g[k]
      BY <1>1, <1>4 DEF S
    <2>2. SumFunctionOnSet(b, S) = SumFunctionOnSet(g, S)
      BY <1>2, <2>1, SumsAgree
    <2> QED BY <1>3, <1>4, <2>2
  <1>5. CASE i # n
    <2>1. i \in S /\ n \in 1 .. n
      BY <1>1, <1>5 DEF S
    <2>2. /\ SumFunctionOnSet(b, S) = b[i] + SumFunctionOnSet(b, S \ {i})
          /\ SumFunctionOnSet(g, S) = g[i] + SumFunctionOnSet(g, S \ {i})
      BY <1>2, <2>1, SumWithout
    <2>3. SumFunctionOnSet(b, S \ {i}) = SumFunctionOnSet(g, S \ {i})
      <3>1. IsFiniteSet(S \ {i}) /\ \A k \in S \ {i} : b[k] = g[k]
        BY <1>1, <1>2, FS_Subset
      <3> QED BY <3>1, SumsAgree
    <2>4. PICK rest \in Int : rest = SumFunctionOnSet(b, S \ {i})
      <3>1. SumFunctionOnSet(b, S \ {i}) \in Int
        BY <1>2, SumType
      <3> QED BY <3>1
    <2>5. b[n] = g[n]
      BY <1>1, <1>5, <2>1
    <2>6. (b[i] + rest) % 256 = (g[i] + rest) % 256
      BY <1>3, <2>2, <2>3, <2>4, <2>5
    <2>7. PICK x \in Nat, y \in Nat : x = b[i] /\ y = g[i] /\ x < 256 /\ y < 256
      <3>1. \A z \in Byte : z \in Nat /\ z < 256
        BY DEF Byte
      <3> QED BY <1>1, <3>1
    <2>8. PICK m \in Nat \ {0} : m = 256
      OBVIOUS
    <2>9. (x + rest) % m = (y + rest) % m /\ x < m /\ y < m
      BY <2>6, <2>7, <2>8
    <2>10. x = y
      BY <2>9, ModTells
    <2> QED BY <2>7, <2>10
  <1> QED BY <1>4, <1>5

LEMMA TwoDigits == \A x \in Int : BCD(Magnitude(x) % 100) \in Byte
  <1> TAKE x \in Int
  <1>1. Magnitude(x) % 100 \in Nat /\ Magnitude(x) % 100 <= 99
    BY DEF Magnitude
  <1> QED BY <1>1, DigitsRead

LEMMA HighDigits ==
    ASSUME NEW x \in Int, -999 <= x, x <= 999, NEW bit \in {0, 8}, NEW k \in Nat, k <= 9
    PROVE  (Magnitude(x) \div 100) + (IF x < 0 THEN bit ELSE 0) + 16 * k \in Byte
  <1>1. PICK y \in Nat : y = Magnitude(x) /\ y <= 999
    BY DEF Magnitude
  <1>2. y \div 100 \in Nat /\ y \div 100 <= 9
    BY <1>1
  <1>3. PICK w \in Nat : w = (IF x < 0 THEN bit ELSE 0) /\ w <= 8
    OBVIOUS
  <1>4. \A z \in Nat : z <= 9 => z + w + 16 * k \in Byte
    BY <1>3 DEF Byte
  <1> QED BY <1>1, <1>2, <1>3, <1>4

\* What the station puts into a block are bytes.
LEMMA PayloadBytes ==
    ASSUME NEW m, Sound(m)
    PROVE  \A i \in DOMAIN Payload(m) : Payload(m)[i] \in Byte
  <1>0. \A f \in DOMAIN m.v : m.v[f] \in ReadingsOf(f)
    BY DEF Sound
  <1>1. CASE m.h = H8F
    <2>1. m.v.HUMIN \in ReadingsOf("HUMIN") /\ m.v.HUMOUT \in ReadingsOf("HUMOUT")
      BY <1>1, FieldsOfBlocks DEF Sound
    <2>2. \A f \in {"HUMIN", "HUMOUT"} : \A x \in ReadingsOf(f) : BCD(x \div 10) \in Byte
      <3> TAKE f \in {"HUMIN", "HUMOUT"}
      <3> TAKE x \in ReadingsOf(f)
      <3>1. x \div 10 \in Nat /\ x \div 10 <= 99
        BY WholeReadings
      <3> QED BY <3>1, DigitsRead
    <2>3. /\ DOMAIN Payload(m) = {8, 20} /\ Payload(m)[8] = BCD(m.v.HUMIN \div 10)
          /\ Payload(m)[20] = BCD(m.v.HUMOUT \div 10)
      BY <1>1 DEF Payload, SignBit
    <2> QED BY <2>1, <2>2, <2>3
  <1>2. CASE m.h = H9F
    <2>1. m.v.TEMPIN \in ReadingsOf("TEMPIN") /\ m.v.TEMPOUT \in ReadingsOf("TEMPOUT")
      BY <1>2, FieldsOfBlocks DEF Sound
    <2>2. \A f \in {"TEMPIN", "TEMPOUT"} : \A x \in ReadingsOf(f) :
             /\ BCD(Magnitude(x) % 100) \in Byte
             /\ (Magnitude(x) \div 100) + (IF x < 0 THEN 8 ELSE 0) \in Byte
      <3> TAKE f \in {"TEMPIN", "TEMPOUT"}
      <3> TAKE x \in ReadingsOf(f)
      <3>1. x \in Int /\ -799 <= x /\ x <= 799
        BY TemperatureReadings
      <3>2. (Magnitude(x) \div 100) + (IF x < 0 THEN 8 ELSE 0) + 16 * 0 \in Byte
        BY <3>1, HighDigits
      <3>3. (Magnitude(x) \div 100) + (IF x < 0 THEN 8 ELSE 0) + 16 * 0
              = (Magnitude(x) \div 100) + (IF x < 0 THEN 8 ELSE 0)
        BY <3>1 DEF Magnitude
      <3> QED BY <3>1, <3>2, <3>3, TwoDigits
    <2>3. /\ DOMAIN Payload(m) = {1, 2, 16, 17}
          /\ Payload(m)[1] = BCD(Magnitude(m.v.TEMPIN) % 100)
          /\ Payload(m)[2] = (Magnitude(m.v.TEMPIN) \div 100) + (IF m.v.TEMPIN < 0 THEN 8 ELSE 0)
          /\ Payload(m)[16] = BCD(Magnitude(m.v.TEMPOUT) % 100)
          /\ Payload(m)[17] = (Magnitude(m.v.TEMPOUT) \div 100)
                              + (IF m.v.TEMPOUT < 0 THEN 8 ELSE 0)
      BY <1>2, GroupNumbers DEF Payload, SignBit
    <2> QED BY <2>1, <2>2, <2>3
  <1>3. CASE m.h = HAF
    <2>1. /\ m.v.DEWIN \in ReadingsOf("DEWIN") /\ m.v.DEWOUT \in ReadingsOf("DEWOUT")
          /\ m.v.BARO \in ReadingsOf("BARO")
      BY <1>3, FieldsOfBlocks DEF Sound
    <2>2. \A f \in {"DEWIN", "DEWOUT"} : \A x \in ReadingsOf(f) : BCD(x \div 10) \in Byte
      <3> TAKE f \in {"DEWIN", "DEWOUT"}
      <3> TAKE x \in ReadingsOf(f)
      <3>1. x \div 10 \in Nat /\ x \div 10 <= 99
        BY WholeReadings
      <3> QED BY <3>1, DigitsRead
    <2>3. /\ BCD(Magnitude(m.v.BARO) % 100) \in Byte
          /\ BCD(Magnitude(m.v.BARO \div 100) % 100) \in Byte
          /\ m.v.BARO \div 10000 \in Byte
      <3>1. m.v.BARO \in Nat /\ m.v.BARO <= 19999
        BY <2>1, BaroReadings
      <3>2. m.v.BARO \in Int /\ m.v.BARO \div 100 \in Int
        BY <3>1
      <3>3. m.v.BARO \div 10000 \in Byte
        BY <3>1 DEF Byte
      <3> QED BY <3>2, <3>3, TwoDigits
    <2>4. /\ DOMAIN Payload(m) = {3, 4, 5, 7, 18}
          /\ Payload(m)[3] = BCD(Magnitude(m.v.BARO) % 100)
          /\ Payload(m)[4] = BCD(Magnitude(m.v.BARO \div 100) % 100)
          /\ Payload(m)[5] = m.v.BARO \div 10000
          /\ Payload(m)[7] = BCD(m.v.DEWIN \div 10)
          /\ Payload(m)[18] = BCD(m.v.DEWOUT \div 10)
      BY <1>3, GroupNumbers DEF Payload, SignBit
    <2> QED BY <2>1, <2>2, <2>3, <2>4
  <1>4. CASE m.h = HBF
    <2>1. m.v.RAINRATE \in ReadingsOf("RAINRATE") /\ m.v.RAINTOT \in ReadingsOf("RAINTOT")
      BY <1>4, FieldsOfBlocks DEF Sound
    <2>2. \A f \in {"RAINRATE", "RAINTOT"} : \A x \in ReadingsOf(f) :
             /\ BCD(Magnitude(x \div 10) % 100) \in Byte
             /\ (Magnitude(x \div 10) \div 100) + (IF x \div 10 < 0 THEN 0 ELSE 0) \in Byte
      <3> TAKE f \in {"RAINRATE", "RAINTOT"}
      <3> TAKE x \in ReadingsOf(f)
      <3>1. PICK y \in Nat : y = x \div 10 /\ y <= 999
        BY RainReadings
      <3>2. Magnitude(y) = y
        BY DEF Magnitude
      <3>3. (y \div 100) + (IF y < 0 THEN 0 ELSE 0) \in Byte
        BY <3>1 DEF Byte
      <3> QED BY <3>1, <3>2, <3>3, TwoDigits
    <2>3. /\ DOMAIN Payload(m) = {1, 2, 5, 6}
          /\ Payload(m)[1] = BCD(Magnitude(m.v.RAINRATE \div 10) % 100)
          /\ Payload(m)[2] = (Magnitude(m.v.RAINRATE \div 10) \div 100)
                             + (IF m.v.RAINRATE \div 10 < 0 THEN 0 ELSE 0)
          /\ Payload(m)[5] = BCD(Magnitude(m.v.RAINTOT \div 10) % 100)
          /\ Payload(m)[6] = (Magnitude(m.v.RAINTOT \div 10) \div 100)
                             + (IF m.v.RAINTOT \div 10 < 0 THEN 0 ELSE 0)
      BY <1>4, GroupNumbers DEF Payload, SignBit
    <2> QED BY <2>1, <2>2, <2>3
  <1>5. CASE m.h = HCF
    <2>1. /\ m.v.GUST \in ReadingsOf("GUST") /\ m.v.GUSTDIR \in ReadingsOf("GUSTDIR")
          /\ m.v.WAVG \in ReadingsOf("WAVG") /\ m.v.WAVGDIR \in ReadingsOf("WAVGDIR")
          /\ m.v.WCHILL \in ReadingsOf("WCHILL")
      BY <1>5, FieldsOfBlocks DEF Sound
    <2>2. \A f \in {"GUST", "WAVG"} : \A x \in ReadingsOf(f) : \A e \in Directions :
          \A d \in ReadingsOf(e) :
             /\ BCD(Magnitude(x) % 100) \in Byte
             /\ (Magnitude(x) \div 100) + (IF x < 0 THEN 0 ELSE 0) + 16 * ((d \div 10) % 10)
                  \in Byte
      <3> TAKE f \in {"GUST", "WAVG"}
      <3> TAKE x \in ReadingsOf(f)
      <3> TAKE e \in Directions
      <3> TAKE d \in ReadingsOf(e)
      <3>1. x \in Int /\ -999 <= x /\ x <= 999
        BY SpeedReadings
      <3>2. (d \div 10) % 10 \in Nat /\ (d \div 10) % 10 <= 9
        BY DirectionReadings
      <3> QED BY <3>1, <3>2, TwoDigits, HighDigits
    <2>3. \A e \in Directions : \A d \in ReadingsOf(e) : BCD(d \div 100) \in Byte
      <3> TAKE e \in Directions
      <3> TAKE d \in ReadingsOf(e)
      <3>1. d \div 100 \in Nat /\ d \div 100 <= 99
        BY DirectionReadings
      <3> QED BY <3>1, DigitsRead
    <2>4. BCD(Magnitude(m.v.WCHILL) \div 10) \in Byte
      <3>1. PICK w \in Int : -99 <= w /\ w <= 99 /\ m.v.WCHILL = 10 * w
        BY <2>1, ChillReadings
      <3>2. Magnitude(m.v.WCHILL) \div 10 \in Nat /\ Magnitude(m.v.WCHILL) \div 10 <= 99
        BY <3>1 DEF Magnitude
      <3> QED BY <3>2, DigitsRead
    <2>5. (IF m.v.WCHILL < 0 THEN 32 ELSE 0) \in Byte
      BY DEF Byte
    <2>6. /\ DOMAIN Payload(m) = {1, 2, 3, 4, 5, 6, 16, 21}
          /\ Payload(m)[1] = BCD(Magnitude(m.v.GUST) % 100)
          /\ Payload(m)[2] = (Magnitude(m.v.GUST) \div 100) + (IF m.v.GUST < 0 THEN 0 ELSE 0)
                             + 16 * ((m.v.GUSTDIR \div 10) % 10)
          /\ Payload(m)[3] = BCD(m.v.GUSTDIR \div 100)
          /\ Payload(m)[4] = BCD(Magnitude(m.v.WAVG) % 100)
          /\ Payload(m)[5] = (Magnitude(m.v.WAVG) \div 100) + (IF m.v.WAVG < 0 THEN 0 ELSE 0)
                             + 16 * ((m.v.WAVGDIR \div 10) % 10)
          /\ Payload(m)[6] = BCD(m.v.WAVGDIR \div 100)
          /\ Payload(m)[16] = BCD(Magnitude(m.v.WCHILL) \div 10)
          /\ Payload(m)[21] = IF m.v.WCHILL < 0 THEN 32 ELSE 0
      BY <1>5, GroupNumbers DEF Payload, SignBit
    <2>7. "GUSTDIR" \in Directions /\ "WAVGDIR" \in Directions
      BY DEF Directions
    <2> QED BY <2>1, <2>2, <2>3, <2>4, <2>5, <2>6, <2>7
  <1> QED BY <1>1, <1>2, <1>3, <1>4, <1>5 DEF Sound, Headers

\* A block as the station writes it is a sequence of bytes with a good checksum.
LEMMA EncodedBlock ==
    ASSUME NEW m, Sound(m)
    PROVE  Encode(m) \in Seq(Byte) /\ sumcheck(Encode(m))
  <1> DEFINE n == SIZE[m.h] - 1
             body == [k \in 1 .. n |-> IF k = 1 THEN m.h
                                       ELSE IF k - 1 \in DOMAIN Payload(m) THEN Payload(m)[k - 1]
                                       ELSE 0]
             total == SumFunctionOnSet(body, DOMAIN body)
  <1>1. n \in Nat /\ n >= 13 /\ SIZE[m.h] = n + 1 /\ m.h \in Byte
    BY DEF SIZE, Headers, H8F, H9F, HAF, HBF, HCF, Sound, Byte
  <1>2. Encode(m) = Append(body, total % 256)
    BY DEF Encode
  <1> HIDE DEF n
  <1>3. body \in [1 .. n -> Byte] /\ DOMAIN body = 1 .. n
    BY <1>1, PayloadBytes DEF Byte
  <1> HIDE DEF body
  <1>4. body \in Seq(Byte) /\ Len(body) = n
    <2>1. body \in Seq(Byte)
      BY <1>1, <1>3, SeqDef
    <2> QED BY <1>1, <1>3, <2>1, LenProperties
  <1>5. total \in Int
    <2>1. IsFiniteSet(1 .. n) /\ \A k \in 1 .. n : body[k] \in Int
      <3>1. \A x \in Byte : x \in Int
        BY DEF Byte
      <3> QED BY <1>1, <1>3, <3>1, FS_Interval
    <2> QED BY <1>3, <2>1, SumType
  <1> HIDE DEF total
  <1>6. total % 256 \in Byte
    BY <1>5 DEF Byte
  <1>7. /\ Encode(m) \in Seq(Byte) /\ Len(Encode(m)) = n + 1
        /\ \A k \in 1 .. n : Encode(m)[k] = body[k]
        /\ Encode(m)[n + 1] = total % 256
    BY <1>2, <1>4, <1>6, AppendProperties
  <1>8. SumFunctionOnSet(Encode(m), 1 .. n) = total
    <2>1. IsFiniteSet(1 .. n)
      BY <1>1, FS_Interval
    <2>2. SumFunctionOnSet(Encode(m), 1 .. n) = SumFunctionOnSet(body, 1 .. n)
      BY <1>7, <2>1, SumsAgree
    <2> QED BY <1>3, <2>2 DEF total
  <1>9. 1 .. Len(Encode(m)) - 1 = 1 .. n
    BY <1>1, <1>7
  <1> QED BY <1>7, <1>8, <1>9 DEF sumcheck
=============================================================================
