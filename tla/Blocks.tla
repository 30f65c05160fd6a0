------------------------------- MODULE Blocks -------------------------------
(***************************************************************************)
(* What the bytes of a block say: the macros of parse.h, the checksum, and *)
(* the five handlers of parse.c up to the values they give to update();    *)
(* beside them the station's side: which digit of a reading is in which    *)
(* nibble, from the protocol text (wx200/protocol).  The text has no signs *)
(* (9F 2, 9F 17, CF 16 and 21); where they are is the handlers' own        *)
(* convention (SignBit), and so is that 9F's first digits end at 7.        *)
(*                                                                         *)
(* Data: a quantity is a number of tenths of its unit, for the int and the *)
(* double fields of obs_t alike; a calibration multiplies by a whole       *)
(* number.  Bytes of a block that no handler reads are zero.               *)
(***************************************************************************)
EXTENDS Integers, Sequences, Functions

Byte == 0 .. 255

\* The group number a block starts with, and the length of the block.
H8F == 143
H9F == 159
HAF == 175
HBF == 191
HCF == 207
Headers == {H8F, H9F, HAF, HBF, HCF}

SIZE == [h \in Headers |-> IF h = H8F THEN 35 ELSE IF h = H9F THEN 34
                          ELSE IF h = HAF THEN 31 ELSE IF h = HBF THEN 14 ELSE 27]
MaxSize == 35

\* buf[i], as C counts.
At(b, i) == b[i + 1]

\* Bug: the last byte before the checksum is left out of the sum.
sumcheckShort(b) ==
    SumFunctionOnSet(b, 1 .. Len(b) - 2) % 256 = b[Len(b)]

sumcheck(b) == SumFunctionOnSet(b, 1 .. Len(b) - 1) % 256 = b[Len(b)]

xDtoint(a) == a % 16

\* Bug: two digits are read as one binary number.
DDtointBinary(a) == a

DDtoint(a) == (a % 16) + 10 * (a \div 16)

\* The low nibble is masked before the shift: nothing is left of it.
Dxtoint(a) == (a % 16) \div 16

----------------------------------------------------------------------------
(* The handlers, up to the calibration.                                    *)

\* Three digits with a tenth, divided as integers, and a sign.
Temperature(lo, hi) ==
    LET t == 10 * ((100 * xDtoint(hi % 8) + DDtoint(lo)) \div 10)
    IN IF (hi \div 8) % 2 = 1 THEN -t ELSE t

Speed(lo, hi) == 10 * ((100 * xDtoint(hi) + DDtoint(lo)) \div 10)

Direction(hi, c) == 10 * (Dxtoint(c) + 10 * DDtoint(hi))

parse8f(b) == [HUMIN |-> 10 * DDtoint(At(b, 8)), HUMOUT |-> 10 * DDtoint(At(b, 20))]

parse9f(b) == [TEMPIN  |-> Temperature(At(b, 1), At(b, 2)),
               TEMPOUT |-> Temperature(At(b, 16), At(b, 17))]

parseaf(b) == [DEWIN  |-> 10 * DDtoint(At(b, 7)),
               DEWOUT |-> 10 * DDtoint(At(b, 18)),
               BARO   |-> DDtoint(At(b, 3)) + 100 * DDtoint(At(b, 4))
                          + 10000 * xDtoint(At(b, 5))]

parsebf(b) == [RAINRATE |-> 10 * (100 * xDtoint(At(b, 2)) + DDtoint(At(b, 1))),
               RAINTOT  |-> 10 * (100 * xDtoint(At(b, 6)) + DDtoint(At(b, 5)))]

parsecf(b) == [GUST    |-> Speed(At(b, 1), At(b, 2)),
               GUSTDIR |-> Direction(At(b, 3), At(b, 2)),
               WAVG    |-> Speed(At(b, 4), At(b, 5)),
               WAVGDIR |-> Direction(At(b, 6), At(b, 5)),
               WCHILL  |-> IF (At(b, 21) \div 32) % 2 = 1 THEN -(10 * DDtoint(At(b, 16)))
                           ELSE 10 * DDtoint(At(b, 16))]

Decode(b) == IF b[1] = H8F THEN parse8f(b) ELSE IF b[1] = H9F THEN parse9f(b)
             ELSE IF b[1] = HAF THEN parseaf(b) ELSE IF b[1] = HBF THEN parsebf(b)
             ELSE parsecf(b)

\* The fields of obs_t that are of type int; the others are doubles.
IntFields == {"HUMIN", "HUMOUT", "RAINRATE", "RAINTOT", "GUSTDIR", "WAVGDIR"}
Directions == {"GUSTDIR", "WAVGDIR"}
Fields == IntFields \cup {"TEMPIN", "TEMPOUT", "DEWIN", "DEWOUT", "WCHILL", "GUST",
                          "WAVG", "BARO"}

----------------------------------------------------------------------------
(* Calibration, and what update() gets and stores.                         *)

\* A conversion to int, and the remainder, both towards zero.
ToInt(x)   == IF x < 0 THEN -((-x) \div 10) ELSE x \div 10
CRem(d, n) == IF d < 0 THEN -((-d) % n) ELSE d % n

\* Bug: the offset is scaled as well.
correctSum(x, c) == (x + c.offs) * c.mul

correct(x, c) == x * c.mul + c.offs

\* Bug: a negative direction is only reduced.
OnCompassSigned(x) == 10 * CRem(ToInt(x), 360)

OnCompass(x) == IF x < 0 THEN 10 * (360 + CRem(ToInt(x), 360)) ELSE 10 * CRem(ToInt(x), 360)

\* The second argument of update() for field f, whose reading is x.
Reported(f, x, cal) == IF f \in Directions THEN OnCompass(correct(x, cal[f]))
                       ELSE correct(x, cal[f])

\* What an assignment to the field keeps of it.
Kept(f, v) == IF f \in IntFields THEN 10 * ToInt(v) ELSE v

\* parse9f throws both temperatures away if one is impossible.
BadData(r) == "TEMPIN" \in DOMAIN r /\ (r.TEMPOUT < -500 \/ r.TEMPIN < -500)

----------------------------------------------------------------------------
(* The station: a measurement is a group number and the fields' values.    *)

BCD(n) == 16 * (n \div 10) + (n % 10)

Magnitude(x) == IF x < 0 THEN -x ELSE x

\* The fields of a block, and what the digits of each can say.
FieldsIn(h) == CASE h = H8F -> {"HUMIN", "HUMOUT"} [] h = H9F -> {"TEMPIN", "TEMPOUT"}
                 [] h = HAF -> {"DEWIN", "DEWOUT", "BARO"} [] h = HBF -> {"RAINRATE", "RAINTOT"}
                 [] h = HCF -> {"GUST", "GUSTDIR", "WAVG", "WAVGDIR", "WCHILL"}

BlockOf(f) == CHOOSE h \in Headers : f \in FieldsIn(h)

\* How far the digits of a field go, in tenths or in whole units, and which
\* fields have a sign.
Most(f) == IF f \in {"TEMPIN", "TEMPOUT"} THEN 799 ELSE IF f = "BARO" THEN 19999
           ELSE IF f \in {"GUST", "WAVG", "RAINRATE", "RAINTOT"} THEN 999
           ELSE IF f \in Directions THEN 359 ELSE 99
InTenths == {"TEMPIN", "TEMPOUT", "GUST", "WAVG", "BARO"}
Signed == {"TEMPIN", "TEMPOUT", "WCHILL"}

ReadingsOf(f) == {(IF f \in InTenths THEN 1 ELSE 10) * n :
                     n \in (IF f \in Signed THEN -Most(f) ELSE 0) .. Most(f)}

\* A measurement the station can make.
Sound(m) == /\ m.h \in Headers /\ DOMAIN m.v = FieldsIn(m.h)
            /\ \A f \in DOMAIN m.v : m.v[f] \in ReadingsOf(f)

\* The bits the handlers take for signs; wx200/protocol says nothing of them.
SignBit == [TEMPIN |-> 8, TEMPOUT |-> 8, WCHILL |-> 32]

\* The bytes of a measurement that are not zero, by their place in the block:
\* the digits where the protocol has them, the signs where the handlers do.
Payload(m) ==
    LET v == m.v
        T(x) == BCD(Magnitude(x) % 100)
        S(x, bit) == (Magnitude(x) \div 100) + IF x < 0 THEN bit ELSE 0
    IN IF m.h = H8F THEN [i \in {8, 20} |-> IF i = 8 THEN BCD(v.HUMIN \div 10)
                                           ELSE BCD(v.HUMOUT \div 10)]
       ELSE IF m.h = H9F THEN
            [i \in {1, 2, 16, 17} |->
               IF i = 1 THEN T(v.TEMPIN) ELSE IF i = 2 THEN S(v.TEMPIN, SignBit.TEMPIN)
               ELSE IF i = 16 THEN T(v.TEMPOUT) ELSE S(v.TEMPOUT, SignBit.TEMPOUT)]
       ELSE IF m.h = HAF THEN
            [i \in {3, 4, 5, 7, 18} |->
               IF i = 3 THEN T(v.BARO) ELSE IF i = 4 THEN T(v.BARO \div 100)
               ELSE IF i = 5 THEN v.BARO \div 10000
               ELSE IF i = 7 THEN BCD(v.DEWIN \div 10) ELSE BCD(v.DEWOUT \div 10)]
       ELSE IF m.h = HBF THEN
            [i \in {1, 2, 5, 6} |->
               IF i = 1 THEN T(v.RAINRATE \div 10) ELSE IF i = 2 THEN S(v.RAINRATE \div 10, 0)
               ELSE IF i = 5 THEN T(v.RAINTOT \div 10) ELSE S(v.RAINTOT \div 10, 0)]
       ELSE [i \in {1, 2, 3, 4, 5, 6, 16, 21} |->
               IF i = 1 THEN T(v.GUST)
               ELSE IF i = 2 THEN S(v.GUST, 0) + 16 * ((v.GUSTDIR \div 10) % 10)
               ELSE IF i = 3 THEN BCD(v.GUSTDIR \div 100)
               ELSE IF i = 4 THEN T(v.WAVG)
               ELSE IF i = 5 THEN S(v.WAVG, 0) + 16 * ((v.WAVGDIR \div 10) % 10)
               ELSE IF i = 6 THEN BCD(v.WAVGDIR \div 100)
               ELSE IF i = 16 THEN BCD(Magnitude(v.WCHILL) \div 10)
               ELSE IF v.WCHILL < 0 THEN SignBit.WCHILL ELSE 0]

\* The group number, the payload, and the low byte of their sum.
Encode(m) ==
    LET p == Payload(m)
        body == [k \in 1 .. SIZE[m.h] - 1 |->
                    IF k = 1 THEN m.h ELSE IF k - 1 \in DOMAIN p THEN p[k - 1] ELSE 0]
    IN Append(body, SumFunctionOnSet(body, DOMAIN body) % 256)
=============================================================================
