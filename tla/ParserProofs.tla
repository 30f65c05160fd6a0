---------------------------- MODULE ParserProofs ----------------------------
(***************************************************************************)
(* Theorems about Parser, for every set of blocks, every noise and any     *)
(* number of faults.                                                       *)
(***************************************************************************)
EXTENDS Parser, BlocksProofs

Cur == Bytes[sending]

\* A block has the length its group number says, and a good checksum.
LEMMA BlockFacts ==
    ASSUME NEW m \in Measured
    PROVE  /\ Bytes[m] \in Seq(Byte) /\ Bytes[m][1] \in Headers
           /\ Len(Bytes[m]) = SIZE[Bytes[m][1]]
           /\ sumcheck(Bytes[m])
  <1>1. Sound(m) /\ Bytes[m] = Encode(m)
    BY ParserAssumption DEF Bytes
  <1>2. m.h \in Headers
    BY <1>1 DEF Sound
  <1> QED BY <1>1, <1>2, EncodedByte, EncodedBlock

\* No block is shorter than 14 bytes or longer than MaxSize.
LEMMA Sizes == \A h \in Headers : SIZE[h] \in 14 .. MaxSize
  BY DEF Headers, H8F, H9F, HAF, HBF, HCF, SIZE, MaxSize

LEMMA BlockLength ==
    ASSUME NEW m \in Measured
    PROVE  /\ Len(Bytes[m]) \in 14 .. 35 /\ Len(Bytes[m]) \in Nat /\ Len(Bytes[m]) # 1
           /\ 1 \in 1 .. Len(Bytes[m])
  <1>1. Len(Bytes[m]) \in 14 .. 35
    BY BlockFacts, Sizes DEF MaxSize
  <1>2. \A n \in 14 .. 35 : n \in Nat /\ n # 1 /\ 1 \in 1 .. n
    OBVIOUS
  <1> QED BY <1>1, <1>2, Zenon

----------------------------------------------------------------------------
(* Types.                                                                  *)

\* The digit macros give numbers (parse.h:14-16).
LEMMA DigitsType ==
    ASSUME NEW a \in Byte, NEW c \in Byte
    PROVE  /\ xDtoint(a) \in Int /\ DDtoint(a) \in Int /\ Dxtoint(a) \in Int
           /\ Temperature(a, c) \in Int /\ Speed(a, c) \in Int /\ Direction(a, c) \in Int
  <1>1. xDtoint(a) \in Int /\ DDtoint(a) \in Int /\ Dxtoint(a) \in Int /\ Dxtoint(c) \in Int
    BY DEF Byte, xDtoint, DDtoint, Dxtoint
  <1>2. xDtoint(c) \in Int /\ xDtoint(c % 8) \in Int
    BY DEF Byte, xDtoint
  <1>3. Temperature(a, c) \in Int
    BY <1>1, <1>2 DEF Temperature
  <1>4. Speed(a, c) \in Int
    BY <1>1, <1>2 DEF Speed
  <1>5. Direction(a, c) \in Int
    BY <1>1 DEF Direction
  <1> QED BY <1>1, <1>3, <1>4, <1>5

\* A decoded block gives numbers to fields of current_obs.
LEMMA DecodeType ==
    ASSUME NEW b \in Seq(Byte), b[1] \in Headers, Len(b) = SIZE[b[1]]
    PROVE  /\ DOMAIN Decode(b) \subseteq Fields
           /\ \A f \in DOMAIN Decode(b) : Decode(b)[f] \in Int
  <1> USE DEF H8F, H9F, HAF, HBF, HCF, Fields, IntFields
  <1>0. \A i \in 1 .. Len(b) : b[i] \in Byte
    BY ElementOfSeq
  <1>1. CASE b[1] = H8F
    <2>1. Len(b) = 35
      BY <1>1 DEF SIZE, Headers
    <2>2. At(b, 8) \in Byte /\ At(b, 20) \in Byte
      BY <1>0, <2>1 DEF At
    <2>3. Decode(b) = parse8f(b)
      BY <1>1 DEF Decode
    <2>4. DDtoint(At(b, 8)) \in Int /\ DDtoint(At(b, 20)) \in Int
      BY <2>2, DigitsType
    <2> QED BY <2>3, <2>4 DEF parse8f
  <1>2. CASE b[1] = H9F
    <2>1. Len(b) = 34
      BY <1>2 DEF SIZE, Headers
    <2>2. At(b, 1) \in Byte /\ At(b, 2) \in Byte /\ At(b, 16) \in Byte /\ At(b, 17) \in Byte
      BY <1>0, <2>1 DEF At
    <2>3. Decode(b) = parse9f(b)
      BY <1>2 DEF Decode
    <2>4. Temperature(At(b, 1), At(b, 2)) \in Int /\ Temperature(At(b, 16), At(b, 17)) \in Int
      BY <2>2, DigitsType
    <2> QED BY <2>3, <2>4 DEF parse9f
  <1>3. CASE b[1] = HAF
    <2>1. Len(b) = 31
      BY <1>3 DEF SIZE, Headers
    <2>2. /\ At(b, 3) \in Byte /\ At(b, 4) \in Byte /\ At(b, 5) \in Byte
          /\ At(b, 7) \in Byte /\ At(b, 18) \in Byte
      BY <1>0, <2>1 DEF At
    <2>3. Decode(b) = parseaf(b)
      BY <1>3 DEF Decode
    <2>4. /\ DDtoint(At(b, 3)) \in Int /\ DDtoint(At(b, 4)) \in Int /\ xDtoint(At(b, 5)) \in Int
          /\ DDtoint(At(b, 7)) \in Int /\ DDtoint(At(b, 18)) \in Int
      BY <2>2, DigitsType
    <2>5. /\ 10 * DDtoint(At(b, 7)) \in Int /\ 10 * DDtoint(At(b, 18)) \in Int
          /\ DDtoint(At(b, 3)) + 100 * DDtoint(At(b, 4)) + 10000 * xDtoint(At(b, 5)) \in Int
      BY <2>4
    <2>6. \A x, y, z \in Int :
             LET r == [DEWIN |-> x, DEWOUT |-> y, BARO |-> z]
             IN DOMAIN r \subseteq Fields /\ \A f \in DOMAIN r : r[f] \in Int
      OBVIOUS
    <2> QED BY <2>3, <2>5, <2>6 DEF parseaf
  <1>4. CASE b[1] = HBF
    <2>1. Len(b) = 14
      BY <1>4 DEF SIZE, Headers
    <2>2. At(b, 1) \in Byte /\ At(b, 2) \in Byte /\ At(b, 5) \in Byte /\ At(b, 6) \in Byte
      BY <1>0, <2>1 DEF At
    <2>3. Decode(b) = parsebf(b)
      BY <1>4 DEF Decode
    <2>4. /\ DDtoint(At(b, 1)) \in Int /\ xDtoint(At(b, 2)) \in Int
          /\ DDtoint(At(b, 5)) \in Int /\ xDtoint(At(b, 6)) \in Int
      BY <2>2, DigitsType
    <2>5. /\ 10 * (100 * xDtoint(At(b, 2)) + DDtoint(At(b, 1))) \in Int
          /\ 10 * (100 * xDtoint(At(b, 6)) + DDtoint(At(b, 5))) \in Int
      BY <2>4
    <2>6. \A x, y \in Int :
             LET r == [RAINRATE |-> x, RAINTOT |-> y]
             IN DOMAIN r \subseteq Fields /\ \A f \in DOMAIN r : r[f] \in Int
      OBVIOUS
    <2> QED BY <2>3, <2>5, <2>6 DEF parsebf
  <1>5. CASE b[1] = HCF
    <2>1. Len(b) = 27
      BY <1>5 DEF SIZE, Headers
    <2>2. /\ At(b, 1) \in Byte /\ At(b, 2) \in Byte /\ At(b, 3) \in Byte
          /\ At(b, 4) \in Byte /\ At(b, 5) \in Byte /\ At(b, 6) \in Byte
          /\ At(b, 16) \in Byte /\ At(b, 21) \in Byte
      BY <1>0, <2>1 DEF At
    <2>3. Decode(b) = parsecf(b)
      BY <1>5 DEF Decode
    <2>4. /\ Speed(At(b, 1), At(b, 2)) \in Int /\ Direction(At(b, 3), At(b, 2)) \in Int
          /\ Speed(At(b, 4), At(b, 5)) \in Int /\ Direction(At(b, 6), At(b, 5)) \in Int
          /\ DDtoint(At(b, 16)) \in Int
      BY <2>2, DigitsType
    <2> QED BY <2>3, <2>4 DEF parsecf
  <1> QED BY <1>1, <1>2, <1>3, <1>4, <1>5 DEF Headers

\* Calibration gives numbers (dbif_pg.c:295-341, parse.c:302-308).
LEMMA ReportedType ==
    ASSUME NEW f \in Fields, NEW x \in Int, cal \in [Fields -> [mul : Int, offs : Int]]
    PROVE  Reported(f, x, cal) \in Int /\ Kept(f, Reported(f, x, cal)) \in Int
  <1>1. cal[f].mul \in Int /\ cal[f].offs \in Int
    OBVIOUS
  <1>2. correct(x, cal[f]) \in Int
    BY <1>1 DEF correct
  <1>3. \A y \in Int : ToInt(y) \in Int
    BY DEF ToInt
  <1>4. \A y \in Int : CRem(y, 360) \in Int
    BY DEF CRem
  <1>5. \A y \in Int : OnCompass(y) \in Int
    BY <1>3, <1>4 DEF OnCompass
  <1>6. Reported(f, x, cal) \in Int
    BY <1>2, <1>5 DEF Reported
  <1> QED BY <1>3, <1>6 DEF Kept

LEMMA UpdateType ==
    ASSUME TypeOK, NEW r, DOMAIN r \subseteq Fields, \A f \in DOMAIN r : r[f] \in Int,
           Update(r)
    PROVE  obs' \in [Fields -> Int] /\ flagged' \subseteq Fields
  <1>1. /\ flagged' \subseteq DOMAIN r
        /\ obs' = [f \in Fields |-> IF f \in flagged' THEN Kept(f, Reported(f, r[f], cal))
                                    ELSE obs[f]]
    BY DEF Update
  <1>2. \A f \in flagged' : Kept(f, Reported(f, r[f], cal)) \in Int
    BY <1>1, ReportedType DEF TypeOK
  <1>3. obs \in [Fields -> Int]
    BY DEF TypeOK
  <1> QED BY <1>1, <1>2, <1>3

\* A byte that arrives leaves a block that is shorter than it says.
LEMMA ArriveType ==
    ASSUME TypeOK, NEW c \in Byte, Arrive(c)
    PROVE  /\ buf' \in Seq(Byte)
           /\ buf' # <<>> => buf'[1] \in Headers /\ Len(buf') < SIZE[buf'[1]]
           /\ obs' \in [Fields -> Int] /\ got' \in Seq(Byte) /\ flagged' \subseteq Fields
  <1>1. buf \in Seq(Byte) /\ obs \in [Fields -> Int]
    BY DEF TypeOK
  <1>2. <<>> \in Seq(Byte) /\ {} \subseteq Fields
    OBVIOUS
  <1>3. CASE Hunt(c)
    <2>1. obs' \in [Fields -> Int] /\ got' \in Seq(Byte) /\ flagged' \subseteq Fields
      BY <1>1, <1>2, <1>3 DEF Hunt, Nothing
    <2>2. CASE c \in Headers
      <3>1. buf' = <<c>> /\ SIZE[c] \in 14 .. 35
        BY <1>3, <2>2, Sizes DEF Hunt, MaxSize
      <3>2. <<c>> \in Seq(Byte) /\ <<c>>[1] = c /\ Len(<<c>>) = 1
        OBVIOUS
      <3> QED BY <2>1, <2>2, <3>1, <3>2
    <2>3. CASE c \notin Headers
      BY <1>2, <1>3, <2>1, <2>3 DEF Hunt
    <2> QED BY <2>2, <2>3
  <1>4. CASE Take(c) \/ Parse(c)
    <2>1. /\ buf # <<>> /\ buf[1] \in Headers /\ Len(buf) \in Nat \ {0}
          /\ SIZE[buf[1]] \in 14 .. 35
      BY <1>1, <1>4, Sizes, EmptySeq DEF Take, Parse, TypeOK, MaxSize
    <2>2. /\ Append(buf, c) \in Seq(Byte) /\ Len(Append(buf, c)) = Len(buf) + 1
          /\ Append(buf, c)[1] = buf[1]
      BY <1>1, <2>1, AppendProperties
    <2>3. CASE Take(c)
      <3>1. obs' \in [Fields -> Int] /\ got' \in Seq(Byte) /\ flagged' \subseteq Fields
        BY <1>1, <1>2, <2>3 DEF Take, Nothing
      <3> QED BY <2>1, <2>2, <2>3, <3>1 DEF Take
    <2>4. CASE Parse(c)
      <3> DEFINE b == Append(buf, c)
      <3>1. buf' = <<>> /\ Len(b) = SIZE[b[1]]
        BY <2>2, <2>4 DEF Parse
      <3>2. CASE ~sumcheck(b)
        <4>1. Nothing
          BY <2>4, <3>2 DEF Parse
        <4> QED BY <1>1, <1>2, <3>1, <4>1 DEF Nothing
      <3>3. CASE sumcheck(b) /\ BadData(Decode(b))
        <4>1. got' = b /\ flagged' = {} /\ obs' = obs
          BY <2>4, <3>3 DEF Parse
        <4> QED BY <1>1, <1>2, <2>2, <3>1, <4>1
      <3>4. CASE sumcheck(b) /\ ~BadData(Decode(b))
        <4>1. got' = b /\ Update(Decode(b))
          BY <2>4, <3>4 DEF Parse
        <4>2. /\ DOMAIN Decode(b) \subseteq Fields
              /\ \A f \in DOMAIN Decode(b) : Decode(b)[f] \in Int
          BY <2>1, <2>2, <3>1, DecodeType
        <4>3. obs' \in [Fields -> Int] /\ flagged' \subseteq Fields
          BY <4>1, <4>2, UpdateType
        <4> QED BY <1>2, <2>2, <3>1, <4>1, <4>3
      <3> QED BY <3>2, <3>3, <3>4
    <2> QED BY <1>4, <2>3, <2>4
  <1> QED BY <1>3, <1>4 DEF Arrive

\* The station goes through its block byte by byte.
LEMMA AdvanceType ==
    ASSUME TypeOK, Advance
    PROVE  /\ sending' \in Measured /\ at' \in 1 .. Len(Bytes[sending'])
           /\ Byte1 \in Byte
  <1>1. \A m \in Measured : Bytes[m] \in Seq(Byte) /\ Len(Bytes[m]) \in 14 .. 35
    BY BlockFacts, Sizes DEF MaxSize
  <1>2. sending \in Measured /\ at \in 1 .. Len(Bytes[sending])
    BY <1>1 DEF Advance, TypeOK
  <1>3. CASE at < Len(Bytes[sending])
    <2>1. sending' = sending /\ at' = at + 1
      BY <1>3 DEF Advance
    <2>2. sending' \in Measured /\ at' \in 1 .. Len(Bytes[sending'])
      BY <1>1, <1>2, <1>3, <2>1
    <2> QED BY <1>1, <2>2, ElementOfSeq DEF Byte1
  <1>4. CASE ~(at < Len(Bytes[sending]))
    <2>1. sending' \in Measured /\ at' = 1
      BY <1>4 DEF Advance
    <2>2. Bytes[sending'] \in Seq(Byte) /\ 1 \in 1 .. Len(Bytes[sending'])
      BY <1>1, <2>1, BlockLength
    <2> QED BY <2>1, <2>2, ElementOfSeq DEF Byte1
  <1> QED BY <1>3, <1>4

LEMMA TypesStep == TypeOK /\ [Next]_vars => TypeOK'
  <1> SUFFICES ASSUME TypeOK, [Next]_vars PROVE TypeOK'
    OBVIOUS
  <1> USE DEF line, stored, Nothing
  <1>1. calm \in 0 .. 70 /\ faults \in 0 .. MaxFaults /\ MaxFaults \in Nat
    BY ParserAssumption DEF TypeOK, Calm, MaxSize
  <1>2. <<>> \in Seq(Byte) /\ {} \subseteq Fields
    OBVIOUS
  <1>3. CASE Send
    <2>1. calm' \in 0 .. 70 /\ UNCHANGED <<cal, faults>> /\ Advance /\ Arrive(Byte1)
      BY <1>1, <1>3 DEF Send, Calm, MaxSize
    <2>2. sending' \in Measured /\ at' \in 0 .. Len(Bytes[sending']) /\ Byte1 \in Byte
      BY <2>1, AdvanceType
    <2> QED BY <2>1, <2>2, ArriveType DEF TypeOK, Calm, MaxSize
  <1>4. CASE Drop \/ Change \/ Insert
    <2>1. calm' = 0 /\ faults' \in 0 .. MaxFaults /\ cal' = cal
      BY <1>1, <1>4 DEF Drop, Change, Insert, Fault
    <2>2. CASE Drop
      <3>1. Advance /\ UNCHANGED <<buf, obs>> /\ got' = <<>> /\ flagged' = {}
        BY <2>2 DEF Drop
      <3>2. sending' \in Measured /\ at' \in 0 .. Len(Bytes[sending'])
        BY <3>1, AdvanceType
      <3> QED BY <1>2, <2>1, <3>1, <3>2 DEF TypeOK, Calm, MaxSize
    <2>3. CASE Change
      <3>1. PICK c \in Noise : Arrive(c) /\ Advance
        BY <2>3 DEF Change
      <3>2. c \in Byte
        BY <3>1, ParserAssumption
      <3>3. sending' \in Measured /\ at' \in 0 .. Len(Bytes[sending'])
        BY <3>1, AdvanceType
      <3> QED BY <2>1, <3>1, <3>2, <3>3, ArriveType DEF TypeOK, Calm, MaxSize
    <2>4. CASE Insert
      <3>1. PICK c \in Noise : Arrive(c)
        BY <2>4 DEF Insert
      <3>2. c \in Byte /\ UNCHANGED <<sending, at>>
        BY <2>4, <3>1, ParserAssumption DEF Insert
      <3> QED BY <2>1, <3>1, <3>2, ArriveType DEF TypeOK, Calm, MaxSize
    <2> QED BY <1>4, <2>2, <2>3, <2>4
  <1>5. CASE Start
    <2>1. sending' \in Measured /\ at' \in 0 .. Len(Bytes[sending'])
      <3>1. sending' \in Measured /\ at' \in 1 .. Len(Bytes[sending'])
        BY <1>5 DEF Start
      <3>2. Len(Bytes[sending']) \in Nat
        BY <3>1, BlockFacts, LenProperties
      <3> QED BY <3>1, <3>2
    <2>2. cal' \in [Fields -> [mul : Int, offs : Int]]
      <3>1. PICK t \in CalTables : cal' = t[Len(t)]
        BY <1>5 DEF Start
      <3>2. t \in Seq([Fields -> [mul : Int, offs : Int]]) /\ t # <<>>
        BY ParserAssumption
      <3>3. Len(t) \in 1 .. Len(t)
        BY <3>2, EmptySeq
      <3> QED BY <3>1, <3>2, <3>3, ElementOfSeq
    <2>3. faults' \in 0 .. MaxFaults
      BY <1>1, <1>5 DEF Start, TypeOK
    <2> QED BY <1>2, <1>5, <2>1, <2>2, <2>3 DEF Start, TypeOK, Calm, MaxSize
  <1>6. CASE UNCHANGED vars
    BY <1>6 DEF vars, TypeOK
  <1> QED BY <1>3, <1>4, <1>5, <1>6 DEF Next

LEMMA TypesInit == Init => TypeOK
  <1> SUFFICES ASSUME Init PROVE TypeOK
    OBVIOUS
  <1>1. sending \in Measured /\ 0 \in 0 .. Len(Bytes[sending])
    BY BlockFacts, LenProperties DEF Init
  <1>2. SaneCal \in [Fields -> [mul : Int, offs : Int]]
    BY DEF SaneCal
  <1> QED BY <1>1, <1>2, ParserAssumption DEF Init, TypeOK, Calm, MaxSize

\* Whatever the line does to the bytes, a block in progress starts with a group
\* number and stays below the size that buf has room for, and what is stored of
\* it are numbers (parse.c:35-132).
THEOREM TypeCorrect == Spec => []TypeOK
  BY TypesInit, TypesStep, PTL DEF Spec

----------------------------------------------------------------------------
(* Finding the way back.                                                   *)

\* The parser has what the station has sent of its block.
InStep == IF at = Len(Cur) THEN buf = <<>>
          ELSE Len(buf) = at /\ \A i \in 1 .. at : buf[i] = Cur[i]

\* A block in progress is in step, or was begun before the line fell quiet: so
\* it ends before the line has been quiet for MaxSize bytes, and after that
\* the parser waits for a group number until the station starts a block.
Sync ==
    NoLookalikes /\ at > 0 =>
        /\ buf # <<>> => InStep \/ Len(buf) > calm
        /\ calm >= at + MaxSize - 1 => InStep /\ (at = Len(Cur) => got = Cur)

\* A byte after a quiet one, inside a block.
LEMMA SendInside ==
    ASSUME TypeOK, Sync, Send, at < Len(Cur), NoLookalikes
    PROVE  Sync'
  <1> DEFINE c == Cur[at + 1]
  <1>1. /\ Cur \in Seq(Byte) /\ Cur[1] \in Headers /\ Len(Cur) = SIZE[Cur[1]]
        /\ sumcheck(Cur)
    BY BlockFacts DEF TypeOK, Cur
  <1>2. Len(Cur) \in 14 .. 35
    BY <1>1, Sizes DEF MaxSize
  <1>3. /\ sending' = sending /\ at' = at + 1 /\ at \in 1 .. Len(Cur) - 1
        /\ Arrive(c) /\ Cur' = Cur
    BY <1>2 DEF Send, Advance, Byte1, Cur, TypeOK
  <1>4. c \in Byte /\ c \notin Headers
    <2>1. at + 1 \in 2 .. Len(Cur)
      BY <1>2, <1>3
    <2>2. sending \in Measured
      BY DEF TypeOK
    <2> QED BY <1>1, <1>2, <2>1, <2>2, ElementOfSeq DEF NoLookalikes, Cur
  <1>5. /\ calm \in 0 .. 70 /\ calm' = IF calm < 70 THEN calm + 1 ELSE calm
        /\ calm' >= at' + 34 => calm >= at + 34
    BY <1>3, <1>2 DEF Send, TypeOK, Calm, MaxSize
  <1>6. /\ buf # <<>> => InStep \/ Len(buf) > calm
        /\ calm >= at + 34 => InStep
    BY <1>3 DEF Sync, MaxSize
  <1>7. buf \in Seq(Byte) /\ Len(buf) \in Nat
    BY LenProperties DEF TypeOK
  <1>8. InStep <=> Len(buf) = at /\ \A i \in 1 .. at : buf[i] = Cur[i]
    BY <1>2, <1>3 DEF InStep
  <1>9. InStep' <=> IF at + 1 = Len(Cur) THEN buf' = <<>>
                    ELSE Len(buf') = at + 1 /\ \A i \in 1 .. at + 1 : buf'[i] = Cur[i]
    BY <1>3 DEF InStep
  <1>10. SUFFICES /\ buf' # <<>> => InStep' \/ Len(buf') > calm'
                  /\ calm >= at + 34 => InStep' /\ (at + 1 = Len(Cur) => got' = Cur)
    BY <1>3, <1>5 DEF Sync, MaxSize
  <1> HIDE DEF c
  <1>11. CASE Hunt(c)
    <2>1. buf = <<>> /\ buf' = <<>> /\ Len(buf) = 0
      BY <1>4, <1>11 DEF Hunt
    <2>2. ~InStep
      BY <1>3, <1>8, <2>1
    <2> QED BY <1>6, <2>1, <2>2
  <1>12. CASE Take(c) \/ Parse(c)
    <2>1. buf # <<>> /\ buf[1] \in Headers /\ Len(buf) \in Nat \ {0}
      BY <1>7, <1>12, EmptySeq DEF Take, Parse, TypeOK
    <2>2. /\ Append(buf, c) \in Seq(Byte) /\ Len(Append(buf, c)) = Len(buf) + 1
          /\ \A i \in 1 .. Len(buf) : Append(buf, c)[i] = buf[i]
          /\ Append(buf, c)[Len(buf) + 1] = c
      BY <1>4, <1>7, AppendProperties
    <2>3. InStep => /\ SIZE[buf[1]] = Len(Cur)
                    /\ \A i \in 1 .. at + 1 : Append(buf, c)[i] = Cur[i]
      <3>1. SUFFICES ASSUME InStep
                     PROVE  /\ SIZE[buf[1]] = Len(Cur)
                            /\ \A i \in 1 .. at + 1 : Append(buf, c)[i] = Cur[i]
        OBVIOUS
      <3>2. buf[1] = Cur[1]
        BY <1>3, <1>8, <3>1
      <3>3. Append(buf, c)[at + 1] = Cur[at + 1]
        BY <1>8, <2>2, <3>1 DEF c
      <3>4. \A i \in 1 .. at : Append(buf, c)[i] = Cur[i]
        BY <1>8, <2>2, <3>1
      <3>5. \A i \in 1 .. at + 1 : Append(buf, c)[i] = Cur[i]
        <4> TAKE i \in 1 .. at + 1
        <4>1. i \in 1 .. at \/ i = at + 1
          BY <1>3
        <4> QED BY <3>3, <3>4, <4>1
      <3> QED BY <1>1, <3>2, <3>5
    <2>4. CASE Take(c)
      <3>1. buf' = Append(buf, c) /\ Len(buf) + 1 < SIZE[buf[1]]
        BY <2>4 DEF Take
      <3>2. InStep => InStep' /\ at + 1 # Len(Cur)
        BY <1>8, <1>9, <2>2, <2>3, <3>1
      <3>3. Len(buf) > calm => Len(buf') > calm'
        BY <1>5, <1>7, <2>2, <3>1
      <3> QED BY <1>6, <2>1, <3>2, <3>3
    <2>5. CASE Parse(c)
      <3>1. /\ buf' = <<>> /\ Len(Append(buf, c)) = SIZE[buf[1]]
            /\ sumcheck(Append(buf, c)) => got' = Append(buf, c)
        BY <2>5 DEF Parse
      <3>2. InStep => at + 1 = Len(Cur) /\ Append(buf, c) = Cur
        <4>1. SUFFICES ASSUME InStep
                       PROVE  at + 1 = Len(Cur) /\ Append(buf, c) = Cur
          OBVIOUS
        <4>2. at + 1 = Len(Cur) /\ Len(Append(buf, c)) = Len(Cur)
          BY <1>8, <2>2, <2>3, <3>1, <4>1
        <4>3. \A i \in 1 .. Len(Append(buf, c)) : Append(buf, c)[i] = Cur[i]
          BY <2>3, <4>1, <4>2
        <4> QED BY <1>1, <2>2, <4>2, <4>3, SeqEqual
      <3> QED BY <1>1, <1>6, <1>9, <3>1, <3>2
    <2> QED BY <1>12, <2>4, <2>5
  <1> QED BY <1>3, <1>11, <1>12 DEF Arrive

\* The first byte of a block.
LEMMA SendFirst ==
    ASSUME TypeOK, Sync, Send, at >= Len(Cur), NoLookalikes
    PROVE  Sync'
  <1> DEFINE next == Bytes[sending']
             c    == next[1]
  <1>1. /\ Len(Cur) \in 14 .. 35 /\ at = Len(Cur)
    <2>1. Len(Cur) \in 14 .. 35 /\ at \in 0 .. Len(Cur)
      BY BlockFacts, Sizes DEF TypeOK, Cur, MaxSize
    <2> QED BY <2>1
  <1>2. sending' \in Measured /\ at' = 1 /\ Arrive(c)
    BY <1>1 DEF Send, Advance, Byte1, Cur
  <1>3. c \in Headers /\ Len(next) \in 14 .. 35 /\ Cur' = next
    BY <1>2, BlockFacts, Sizes DEF Cur, MaxSize
  <1>4. calm \in 0 .. 70 /\ calm' = IF calm < 70 THEN calm + 1 ELSE calm
    BY DEF Send, TypeOK, Calm, MaxSize
  <1>5. /\ buf # <<>> => Len(buf) > calm
        /\ buf # <<>> => Len(buf) < 35
        /\ Len(buf) \in Nat /\ buf \in Seq(Byte)
    <2>1. buf # <<>> => Len(buf) < SIZE[buf[1]] /\ buf[1] \in Headers
      BY DEF TypeOK
    <2>2. buf # <<>> => SIZE[buf[1]] \in 14 .. 35
      BY <2>1, Sizes DEF MaxSize
    <2>3. buf # <<>> => Len(buf) > calm
      BY <1>1 DEF Sync, InStep
    <2>4. Len(buf) \in Nat /\ buf \in Seq(Byte)
      BY LenProperties DEF TypeOK
    <2> QED BY <2>1, <2>2, <2>3, <2>4
  <1>6. InStep' <=> Len(buf') = 1 /\ \A i \in 1 .. 1 : buf'[i] = Cur'[i]
    <2>1. at' # Len(Cur')
      BY <1>2, BlockLength DEF Cur
    <2> QED BY <1>2, <2>1 DEF InStep
  <1>7. SUFFICES /\ buf' # <<>> => InStep' \/ Len(buf') > calm'
                 /\ calm' >= 35 => InStep'
    <2>1. at' # Len(Cur')
      BY <1>2, BlockLength DEF Cur
    <2>2. at' + MaxSize - 1 = 35
      BY <1>2 DEF MaxSize
    <2> QED BY <1>7, <2>1, <2>2 DEF Sync
  <1> HIDE DEF next, c
  <1>8. CASE Hunt(c)
    <2>1. buf' = <<c>>
      BY <1>3, <1>8 DEF Hunt
    <2> QED BY <1>3, <1>6, <2>1 DEF c
  <1>9. CASE Take(c) \/ Parse(c)
    <2>1. buf # <<>> /\ calm' < 35
      BY <1>4, <1>5, <1>9 DEF Take, Parse
    <2>2. CASE Take(c)
      <3>1. buf' = Append(buf, c)
        BY <2>2 DEF Take
      <3>2. Len(buf') = Len(buf) + 1
        BY <1>5, <3>1
      <3> QED BY <1>4, <1>5, <2>1, <3>2
    <2>3. CASE Parse(c)
      BY <1>4, <2>1, <2>3 DEF Parse
    <2> QED BY <1>9, <2>2, <2>3
  <1> QED BY <1>2, <1>8, <1>9 DEF Arrive

\* A fault or a start begins a new count of quiet bytes.
LEMMA FaultKeeps ==
    ASSUME TypeOK, TypeOK', calm' = 0, at' > 0
    PROVE  Sync'
  <1>1. buf' # <<>> => Len(buf') > 0
    BY EmptySeq DEF TypeOK
  <1>2. at' \in Nat /\ ~(calm' >= at' + MaxSize - 1)
    <2>1. sending' \in Measured /\ at' \in 0 .. Len(Bytes[sending'])
      BY DEF TypeOK
    <2>2. Len(Bytes[sending']) \in Nat
      BY <2>1, BlockFacts, LenProperties
    <2>3. at' \in Nat
      BY <2>1, <2>2
    <2>4. \A n \in Nat : ~(0 >= n + MaxSize - 1)
      BY DEF MaxSize
    <2> QED BY <2>3, <2>4, Zenon
  <1> QED BY <1>1, <1>2 DEF Sync

LEMMA SyncStep == TypeOK /\ Sync /\ [Next]_vars => Sync'
  <1> SUFFICES ASSUME TypeOK, Sync, [Next]_vars, NoLookalikes PROVE Sync'
    BY DEF Sync
  <1>1. TypeOK'
    BY TypesStep
  <1>2. CASE Send
    <2>1. at \in Int /\ Len(Cur) \in Int
      BY BlockFacts, LenProperties DEF TypeOK, Cur
    <2> QED BY <1>2, <2>1, SendInside, SendFirst
  <1>3. CASE Drop \/ Change \/ Insert \/ Start
    <2>1. calm' = 0
      BY <1>3 DEF Drop, Change, Insert, Start, Fault
    <2>2. at' > 0
      <3>1. CASE Drop \/ Change
        BY <3>1, AdvanceType DEF Drop, Change
      <3>2. CASE Insert
        BY <3>2 DEF Insert, Fault, line
      <3>3. CASE Start
        BY <3>3 DEF Start
      <3> QED BY <1>3, <3>1, <3>2, <3>3
    <2> QED BY <1>1, <2>1, <2>2, FaultKeeps
  <1>4. CASE UNCHANGED vars
    BY <1>4 DEF vars, line, stored, Sync, InStep, Cur
  <1> QED BY <1>2, <1>3, <1>4 DEF Next

LEMMA SyncInit == Init => Sync
  BY DEF Init, Sync

LEMMA SyncReceives == Sync => LaterBlocksArrive
  BY DEF Sync, LaterBlocksArrive, Cur

\* After any noise, any loss and any restart the parser receives every block
\* that has MaxSize - 1 sound bytes before it (parse.c:47-132): for every set
\* of blocks in which no byte but the first looks like a group number.
THEOREM Resynchronises == Spec => []LaterBlocksArrive
  <1>1. Init => TypeOK /\ Sync
    BY TypesInit, SyncInit
  <1>2. TypeOK /\ Sync /\ [Next]_vars => (TypeOK /\ Sync)'
    BY TypesStep, SyncStep
  <1> QED BY <1>1, <1>2, SyncReceives, PTL DEF Spec

----------------------------------------------------------------------------
(* Directions.                                                             *)

\* The remainder in parse.c:302-308 is towards zero, and a negative one is
\* taken from a full circle.
LEMMA OnCompassBounds == \A x \in Int : OnDial(10 * ToInt(OnCompass(x)))
  <1> SUFFICES ASSUME NEW x \in Int PROVE OnDial(10 * ToInt(OnCompass(x)))
    OBVIOUS
  <1>1. CASE x < 0
    <2>1. ToInt(x) \in Int /\ ToInt(x) <= 0
      BY <1>1 DEF ToInt
    <2>2. \A d \in Int : d <= 0 => CRem(d, 360) \in -359 .. 0
      BY DEF CRem
    <2>3. CRem(ToInt(x), 360) \in -359 .. 0
      BY <2>1, <2>2
    <2>4. OnCompass(x) = 10 * (360 + CRem(ToInt(x), 360))
      BY <1>1 DEF OnCompass
    <2>5. PICK n \in -359 .. 0 : n = CRem(ToInt(x), 360)
      BY <2>3
    <2>6. OnCompass(x) = 10 * (360 + n)
      BY <2>4, <2>5
    <2>7. \A k \in -359 .. 0 : OnDial(10 * ToInt(10 * (360 + k)))
      BY DEF ToInt, OnDial
    <2>8. OnDial(10 * ToInt(10 * (360 + n)))
      BY <2>5, <2>7, Zenon
    <2> QED BY <2>6, <2>8, Zenon
  <1>2. CASE ~(x < 0)
    <2>1. ToInt(x) \in Int /\ ToInt(x) >= 0
      BY <1>2 DEF ToInt
    <2>2. \A d \in Int : d >= 0 => CRem(d, 360) \in 0 .. 359
      BY DEF CRem
    <2>3. CRem(ToInt(x), 360) \in 0 .. 359
      BY <2>1, <2>2
    <2>4. PICK n \in 0 .. 359 : n = CRem(ToInt(x), 360)
      BY <2>3
    <2>5. OnCompass(x) = 10 * n
      BY <1>2, <2>4 DEF OnCompass
    <2>6. \A k \in 0 .. 359 : OnDial(10 * ToInt(10 * k))
      BY DEF ToInt, OnDial
    <2>7. OnDial(10 * ToInt(10 * n))
      BY <2>4, <2>6, Zenon
    <2> QED BY <2>5, <2>7, Zenon
  <1> QED BY <1>1, <1>2

LEMMA CompassStep == TypeOK /\ DirectionsOnCompass /\ [Next]_vars => DirectionsOnCompass'
  <1> SUFFICES ASSUME TypeOK, DirectionsOnCompass, [Next]_vars, NEW f \in Directions
               PROVE  OnDial(obs'[f])
    BY DEF DirectionsOnCompass
  <1>1. f \in Fields /\ f \in IntFields
    BY DEF Directions, IntFields, Fields
  <1>2. obs'[f] = obs[f] => OnDial(obs'[f])
    BY DEF DirectionsOnCompass
  <1>3. ASSUME NEW c \in Byte, Arrive(c)
        PROVE  OnDial(obs'[f])
    <2>1. CASE obs' = obs
      BY <1>2, <2>1
    <2>2. CASE obs' # obs
      <3> DEFINE b == Append(buf, c)
                 r == Decode(b)
      <3>1. Parse(c) /\ Update(r)
        BY <1>3, <2>2 DEF Arrive, Hunt, Take, Parse, Nothing
      <3>2. \A g \in DOMAIN r : r[g] \in Int
        <4>1. buf \in Seq(Byte) /\ buf # <<>> /\ buf[1] \in Headers
          BY <3>1 DEF Parse, TypeOK
        <4>2. Len(buf) \in Nat \ {0}
          BY <4>1, EmptySeq
        <4>3. b \in Seq(Byte) /\ b[1] = buf[1]
          BY <4>1, <4>2, AppendProperties
        <4>4. Len(b) = SIZE[b[1]]
          BY <3>1, <4>3 DEF Parse
        <4> QED BY <4>1, <4>3, <4>4, DecodeType
      <3> HIDE DEF r
      <3>3. /\ flagged' \subseteq DOMAIN r
            /\ obs'[f] = IF f \in flagged' THEN Kept(f, Reported(f, r[f], cal)) ELSE obs[f]
        BY <1>1, <3>1 DEF Update
      <3>4. CASE f \in flagged'
        <4>1. r[f] \in Int
          BY <3>2, <3>3, <3>4
        <4>2. cal[f].mul \in Int /\ cal[f].offs \in Int
          BY <1>1 DEF TypeOK
        <4>3. PICK x \in Int : x = correct(r[f], cal[f])
          BY <4>1, <4>2 DEF correct
        <4>4. obs'[f] = 10 * ToInt(OnCompass(x))
          BY <1>1, <3>3, <3>4, <4>3 DEF Kept, Reported
        <4>5. OnDial(10 * ToInt(OnCompass(x)))
          BY <4>3, OnCompassBounds, Zenon
        <4> QED BY <4>4, <4>5
      <3>5. CASE f \notin flagged'
        BY <1>2, <3>3, <3>5
      <3> QED BY <3>4, <3>5
    <2> QED BY <2>1, <2>2
  <1>4. CASE Send
    BY <1>3, <1>4, AdvanceType DEF Send
  <1>5. CASE Change \/ Insert
    <2>1. PICK c \in Noise : Arrive(c)
      BY <1>5 DEF Change, Insert
    <2> QED BY <1>3, <2>1, ParserAssumption
  <1>6. CASE Drop \/ Start \/ UNCHANGED vars
    BY <1>2, <1>6 DEF Drop, Start, Nothing, vars, stored
  <1> QED BY <1>4, <1>5, <1>6 DEF Next

\* A direction is on the compass at all times, for every calibration and every
\* noise (parse.c:302-308).
THEOREM CompassSafe == Spec => []DirectionsOnCompass
  <1>1. Init => TypeOK /\ DirectionsOnCompass
    <2>1. Init => DirectionsOnCompass
      BY DEF Init, DirectionsOnCompass, OnDial, Directions, IntFields, Fields
    <2> QED BY <2>1, TypesInit
  <1>2. TypeOK /\ DirectionsOnCompass /\ [Next]_vars => (TypeOK /\ DirectionsOnCompass)'
    BY TypesStep, CompassStep
  <1> QED BY <1>1, <1>2, PTL DEF Spec

----------------------------------------------------------------------------
(* Readings.                                                               *)

\* What a handler reads of a block as the station wrote it is the measurement,
\* so far as the handler can tell.
LEMMA ReadsBack ==
    ASSUME NEW m, Sound(m)
    PROVE  Decode(Encode(m)) = [g \in DOMAIN m.v |-> Truncated(g, m.v[g])]
  <1> DEFINE T == [g \in DOMAIN m.v |-> Truncated(g, m.v[g])]
  <1>0. \A x : /\ \A f \in {"HUMIN", "HUMOUT", "DEWIN", "DEWOUT", "BARO", "RAINRATE",
                            "RAINTOT", "WCHILL"} : Truncated(f, x) = x
               /\ \A f \in {"TEMPIN", "TEMPOUT", "GUST", "WAVG"} : Truncated(f, x) = 10 * ToInt(x)
               /\ \A f \in Directions : Truncated(f, x) = 100 * (x \div 100)
    BY DEF Truncated, Directions
  <1>1. CASE m.h = H8F
    <2>1. DOMAIN m.v = {"HUMIN", "HUMOUT"}
      BY <1>1, FieldsOfBlocks DEF Sound
    <2>2. T = [HUMIN |-> m.v.HUMIN,
               HUMOUT |-> m.v.HUMOUT]
      BY <1>0, <2>1 DEF Directions
    <2> QED BY <1>1, <2>2, ReadsHumidity
  <1>2. CASE m.h = H9F
    <2>1. DOMAIN m.v = {"TEMPIN", "TEMPOUT"}
      BY <1>2, FieldsOfBlocks DEF Sound
    <2>2. T = [TEMPIN |-> 10 * ToInt(m.v.TEMPIN),
               TEMPOUT |-> 10 * ToInt(m.v.TEMPOUT)]
      BY <1>0, <2>1 DEF Directions
    <2> QED BY <1>2, <2>2, ReadsTemperature
  <1>3. CASE m.h = HAF
    <2>1. DOMAIN m.v = {"DEWIN", "DEWOUT", "BARO"}
      BY <1>3, FieldsOfBlocks DEF Sound
    <2>2. T = [DEWIN |-> m.v.DEWIN,
               DEWOUT |-> m.v.DEWOUT,
               BARO |-> m.v.BARO]
      BY <1>0, <2>1 DEF Directions
    <2> QED BY <1>3, <2>2, ReadsDewpoint
  <1>4. CASE m.h = HBF
    <2>1. DOMAIN m.v = {"RAINRATE", "RAINTOT"}
      BY <1>4, FieldsOfBlocks DEF Sound
    <2>2. T = [RAINRATE |-> m.v.RAINRATE,
               RAINTOT |-> m.v.RAINTOT]
      BY <1>0, <2>1 DEF Directions
    <2> QED BY <1>4, <2>2, ReadsRain
  <1>5. CASE m.h = HCF
    <2>1. DOMAIN m.v = {"GUST", "GUSTDIR", "WAVG", "WAVGDIR", "WCHILL"}
      BY <1>5, FieldsOfBlocks DEF Sound
    <2>2. T = [GUST |-> 10 * ToInt(m.v.GUST),
               GUSTDIR |-> 100 * (m.v.GUSTDIR \div 100),
               WAVG |-> 10 * ToInt(m.v.WAVG),
               WAVGDIR |-> 100 * (m.v.WAVGDIR \div 100),
               WCHILL |-> m.v.WCHILL]
      BY <1>0, <2>1 DEF Directions
    <2> QED BY <1>5, <2>2, ReadsWind
  <1> QED BY <1>1, <1>2, <1>3, <1>4, <1>5 DEF Sound, Headers

\* Every field is in a block.
LEMMA BlockOfField ==
    ASSUME NEW f \in Fields
    PROVE  BlockOf(f) \in Headers /\ f \in FieldsIn(BlockOf(f))
  <1>1. \E h \in Headers : f \in FieldsIn(h)
    BY FieldsOfBlocks DEF Fields, IntFields, Headers
  <1> QED BY <1>1, Zenon DEF BlockOf

LEMMA FieldsAreFields == \A h \in Headers : FieldsIn(h) \subseteq Fields
  BY FieldsOfBlocks DEF Fields, IntFields, Headers

\* Every field can say zero.
LEMMA ZeroReads == \A f \in Fields : 0 \in ReadingsOf(f)
  <1> TAKE f \in Fields
  <1>1. Most(f) \in Nat
    BY DEF Most
  <1>2. 0 \in (IF f \in Signed THEN -Most(f) ELSE 0) .. Most(f)
    BY <1>1
  <1>3. (IF f \in InTenths THEN 1 ELSE 10) * 0 = 0
    OBVIOUS
  <1> QED BY <1>2, <1>3 DEF ReadingsOf

\* What a handler makes of a reading is less than a grain nearer to zero.
LEMMA TruncatedIsNear ==
    ASSUME NEW f \in Fields, NEW x \in ReadingsOf(f)
    PROVE  WithinGrain(f, Truncated(f, x), x)
  <1>1. CASE f \in {"TEMPIN", "TEMPOUT", "GUST", "WAVG"}
    <2>1. x \in Int
      BY <1>1, TemperatureReadings, SpeedReadings
    <2>2. Truncated(f, x) = 10 * ToInt(x) /\ Grain(f) = 10
      BY <1>1 DEF Truncated, Grain
    <2>3. CASE x < 0
      <3> DEFINE y == -x
                 q == y \div 10
      <3>1. y \in Nat /\ q \in Nat /\ 10 * q <= y /\ y < 10 * q + 10
        BY <2>1, <2>3
      <3>2. ToInt(x) = -q /\ x = -y
        BY <2>1, <2>3 DEF ToInt
      <3> HIDE DEF y, q
      <3> QED BY <2>2, <2>3, <3>1, <3>2 DEF WithinGrain, Magnitude
    <2>4. CASE x >= 0
      <3> DEFINE q == x \div 10
      <3>1. q \in Nat /\ 10 * q <= x /\ x < 10 * q + 10
        BY <2>1, <2>4
      <3>2. ToInt(x) = q
        BY <2>1, <2>4 DEF ToInt
      <3> HIDE DEF q
      <3> QED BY <2>1, <2>2, <2>4, <3>1, <3>2 DEF WithinGrain, Magnitude
    <2> QED BY <2>1, <2>3, <2>4
  <1>2. CASE f \in Directions
    <2> DEFINE q == x \div 100
    <2>1. x \in Nat
      BY <1>2, DirectionReadings
    <2>2. q \in Nat /\ 100 * q <= x /\ x < 100 * q + 100
      BY <2>1
    <2>3. Truncated(f, x) = 100 * q /\ Grain(f) = 100
      BY <1>2 DEF Truncated, Grain, Directions
    <2> HIDE DEF q
    <2> QED BY <2>1, <2>2, <2>3 DEF WithinGrain, Magnitude
  <1>3. CASE f \notin {"TEMPIN", "TEMPOUT", "GUST", "WAVG"} \cup Directions
    <2>1. PICK n \in Int : x = IF f \in InTenths THEN n ELSE 10 * n
      BY Readings
    <2>2. x \in Int /\ Truncated(f, x) = x /\ Grain(f) = 1
      BY <1>3, <2>1 DEF Truncated, Grain
    <2> QED BY <2>2 DEF WithinGrain, Magnitude
  <1> QED BY <1>1, <1>2, <1>3

\* For every field and every value of its digits, the handler of the field's
\* block reads that value, exactly or less the digits that Grain names, and
\* zero for the other fields (parse.c:152-320).
THEOREM EveryReadingDecodes == Spec => []ReadsWithinGrain
  <1>1. ReadsWithinGrain
    <2>1. ASSUME NEW f \in Fields, NEW x \in ReadingsOf(f)
          PROVE  LET m == [h |-> BlockOf(f),
                           v |-> [g \in FieldsIn(BlockOf(f)) |-> IF g = f THEN x ELSE 0]]
                     r == Decode(Encode(m))
                 IN /\ DOMAIN r = FieldsIn(BlockOf(f))
                    /\ WithinGrain(f, r[f], x)
                    /\ \A g \in DOMAIN r \ {f} : r[g] = 0
      <3> DEFINE w == [g \in FieldsIn(BlockOf(f)) |-> IF g = f THEN x ELSE 0]
                 m == [h |-> BlockOf(f), v |-> w]
      <3>1. DOMAIN w = FieldsIn(BlockOf(f)) /\ FieldsIn(BlockOf(f)) \subseteq Fields
        BY BlockOfField, FieldsAreFields
      <3>2. \A g \in DOMAIN w : w[g] \in ReadingsOf(g)
        BY <2>1, <3>1, ZeroReads
      <3>3. f \in DOMAIN w /\ w[f] = x /\ \A g \in DOMAIN w \ {f} : w[g] = 0
        BY <3>1, BlockOfField
      <3> HIDE DEF w
      <3>4. m.h = BlockOf(f) /\ m.v = w
        OBVIOUS
      <3> HIDE DEF m
      <3>5. Sound(m)
        BY <3>1, <3>2, <3>4, BlockOfField DEF Sound
      <3>6. Decode(Encode(m)) = [g \in DOMAIN w |-> Truncated(g, w[g])]
        BY <3>4, <3>5, ReadsBack
      <3>7. \A g : Truncated(g, 0) = 0
        BY DEF Truncated, ToInt
      <3>8. /\ DOMAIN Decode(Encode(m)) = FieldsIn(BlockOf(f))
            /\ Decode(Encode(m))[f] = Truncated(f, x)
            /\ \A g \in DOMAIN w \ {f} : Decode(Encode(m))[g] = 0
        BY <3>1, <3>3, <3>6, <3>7
      <3>9. WithinGrain(f, Decode(Encode(m))[f], x)
        BY <2>1, <3>8, TruncatedIsNear
      <3> QED BY <3>1, <3>8, <3>9 DEF m, w
    <2> QED BY <2>1 DEF ReadsWithinGrain
  <1> QED BY <1>1, PTL

----------------------------------------------------------------------------
(* What is stored.                                                         *)

\* The int fields hold whole units.
Whole == \A f \in IntFields : obs[f] % 10 = 0

\* A conversion to int and back leaves a whole number of units as it is.
LEMMA WholeUnits ==
    ASSUME NEW x \in Int
    PROVE  /\ ToInt(x) \in Int /\ (10 * ToInt(x)) % 10 = 0
           /\ x % 10 = 0 => 10 * ToInt(x) = x
  <1>1. CASE x < 0
    <2>1. ToInt(x) = -((-x) \div 10) /\ (-x) \div 10 \in Int
      BY <1>1 DEF ToInt
    <2> QED BY <1>1, <2>1
  <1>2. CASE ~(x < 0)
    <2>1. ToInt(x) = x \div 10 /\ x \div 10 \in Int
      BY <1>2 DEF ToInt
    <2> QED BY <1>2, <2>1
  <1> QED BY <1>1, <1>2

\* Reduced to the compass, a direction is whole and turned by whole circles
\* (parse.c:305-308).
LEMMA OnCompassTurns ==
    ASSUME NEW x \in Int
    PROVE  /\ OnCompass(x) \in Int /\ OnCompass(x) % 10 = 0
           /\ (OnCompass(x) - 10 * ToInt(x)) % 3600 = 0
  <1>1. ToInt(x) \in Int /\ (x < 0 => ToInt(x) <= 0) /\ (~(x < 0) => ToInt(x) >= 0)
    BY DEF ToInt
  <1>2. PICK t \in Int : t = ToInt(x)
    BY <1>1
  <1>3. \E k \in Int : CRem(t, 360) = t + 360 * k
    <2>1. CASE t < 0
      <3>1. CRem(t, 360) = -((-t) % 360)
        BY <2>1 DEF CRem
      <3>2. (-t) % 360 = (-t) - 360 * ((-t) \div 360) /\ (-t) \div 360 \in Int
        BY <1>2
      <3> QED BY <3>1, <3>2
    <2>2. CASE ~(t < 0)
      <3>1. CRem(t, 360) = t % 360
        BY <2>2 DEF CRem
      <3>2. t % 360 = t + 360 * (-(t \div 360)) /\ -(t \div 360) \in Int
        BY <1>2
      <3> QED BY <3>1, <3>2
    <2> QED BY <2>1, <2>2
  <1>4. PICK k \in Int : CRem(t, 360) = t + 360 * k
    BY <1>3
  <1>5. PICK j \in Int : OnCompass(x) = 10 * (t + 360 * j)
    <2>1. OnCompass(x) = 10 * (t + 360 * (k + 1)) \/ OnCompass(x) = 10 * (t + 360 * k)
      BY <1>2, <1>4 DEF OnCompass
    <2>2. k \in Int /\ k + 1 \in Int
      OBVIOUS
    <2> QED BY <2>1, <2>2
  <1>6. 10 * (t + 360 * j) - 10 * t = 3600 * j
    OBVIOUS
  <1> QED BY <1>2, <1>5, <1>6

\* What Update stores in a field, and when it leaves the field alone.
LEMMA UpdateStores ==
    ASSUME NEW r, DOMAIN r \subseteq Fields, Update(r), NEW f \in DOMAIN r
    PROVE  LET x == Reported(f, r[f], cal)
           IN /\ f \in flagged' <=> obs[f] # x
              /\ obs'[f] = IF obs[f] # x THEN Kept(f, x) ELSE obs[f]
  BY DEF Update

\* The value that Update stores is what StoredAsRead says, whether it was there
\* before or not.
LEMMA UpdateKeeps ==
    ASSUME TypeOK, Whole, NEW r, DOMAIN r \subseteq Fields, Update(r),
           NEW f \in DOMAIN r, r[f] \in Int
    PROVE  LET x == Calibrated(f, r[f])
           IN IF f \in Directions THEN (obs'[f] - 10 * ToInt(x)) % 3600 = 0
              ELSE obs'[f] = Shown(f, x)
  <1>1. f \in Fields /\ (f \in Directions => f \in IntFields)
    BY DEF Directions, IntFields
  <1>2. cal[f].mul \in Int /\ cal[f].offs \in Int /\ obs[f] \in Int
    BY <1>1 DEF TypeOK
  <1>3. correct(r[f], cal[f]) = Calibrated(f, r[f]) /\ Calibrated(f, r[f]) \in Int
    BY <1>2 DEF correct, Calibrated
  <1>4. PICK x \in Int : x = Calibrated(f, r[f])
    BY <1>3
  <1>5. CASE f \in Directions
    <2>1. Reported(f, r[f], cal) = OnCompass(x)
      BY <1>3, <1>4, <1>5 DEF Reported
    <2>2. Kept(f, OnCompass(x)) = OnCompass(x)
      BY <1>1, <1>5, OnCompassTurns, WholeUnits DEF Kept
    <2>3. obs'[f] = OnCompass(x)
      BY <2>1, <2>2, UpdateStores
    <2> QED BY <1>4, <1>5, <2>3, OnCompassTurns
  <1>6. CASE f \notin Directions
    <2>1. Reported(f, r[f], cal) = x
      BY <1>3, <1>4, <1>6 DEF Reported
    <2>2. obs[f] = x => Shown(f, x) = obs[f]
      BY <1>2, WholeUnits DEF Shown, Whole
    <2>3. Kept(f, x) = Shown(f, x)
      BY DEF Kept, Shown
    <2>4. obs'[f] = Shown(f, x)
      BY <2>1, <2>2, <2>3, UpdateStores
    <2> QED BY <1>4, <1>6, <2>4
  <1> QED BY <1>5, <1>6

\* Whatever Update reads, an int field stays whole.
LEMMA UpdateWhole ==
    ASSUME TypeOK, Whole, NEW r, DOMAIN r \subseteq Fields, Update(r),
           \A f \in DOMAIN r : r[f] \in Int
    PROVE  Whole'
  <1> SUFFICES ASSUME NEW f \in IntFields PROVE obs'[f] % 10 = 0
    BY DEF Whole
  <1>1. f \in Fields /\ obs[f] % 10 = 0
    BY DEF Whole, Fields
  <1>2. CASE f \in flagged'
    <2>1. f \in DOMAIN r /\ obs'[f] = Kept(f, Reported(f, r[f], cal))
      BY <1>1, <1>2 DEF Update
    <2>2. Reported(f, r[f], cal) \in Int
      <3>1. correct(r[f], cal[f]) \in Int
        BY <1>1, <2>1 DEF TypeOK, correct
      <3> QED BY <3>1, OnCompassTurns DEF Reported
    <2> QED BY <2>1, <2>2, WholeUnits DEF Kept
  <1>3. CASE f \notin flagged'
    BY <1>1, <1>3 DEF Update
  <1> QED BY <1>2, <1>3

\* The step of the parser that completes a block, and what it reads.
LEMMA ParsesBlock ==
    ASSUME TypeOK, NEW c \in Byte, Parse(c)
    PROVE  LET r == Decode(Append(buf, c))
           IN DOMAIN r \subseteq Fields /\ \A f \in DOMAIN r : r[f] \in Int
  <1> DEFINE b == Append(buf, c)
  <1>1. buf \in Seq(Byte) /\ buf # <<>> /\ buf[1] \in Headers
    BY DEF Parse, TypeOK
  <1>2. Len(buf) \in Nat \ {0}
    BY <1>1, EmptySeq
  <1>3. b \in Seq(Byte) /\ b[1] = buf[1]
    BY <1>1, <1>2, AppendProperties
  <1>4. Len(b) = SIZE[b[1]]
    BY <1>3 DEF Parse
  <1> QED BY <1>1, <1>3, <1>4, DecodeType

\* A step of the parser keeps the int fields whole, and stores a block that is
\* one the station sends as StoredAsRead says.
LEMMA ArriveStores ==
    ASSUME TypeOK, Whole, NEW c \in Byte, Arrive(c), cal' = cal, sending' \in Measured
    PROVE  Whole' /\ StoredAsRead'
  <1>1. CASE obs' = obs /\ (got' = <<>> \/ BadData(Decode(got')))
    <2>1. ~Arrived'
      <3>1. got' # <<>> \/ got' # Bytes[sending']
        BY BlockLength, LenProperties, EmptySeq
      <3> QED BY <1>1, <3>1 DEF Arrived
    <2> QED BY <1>1, <2>1 DEF Whole, StoredAsRead
  <1>2. CASE ~(obs' = obs /\ (got' = <<>> \/ BadData(Decode(got'))))
    <2> DEFINE b == Append(buf, c)
               r == Decode(b)
    <2>1. Parse(c) /\ got' = b /\ Update(r)
      BY <1>2 DEF Arrive, Hunt, Take, Parse, Nothing
    <2>2. DOMAIN r \subseteq Fields /\ \A f \in DOMAIN r : r[f] \in Int
      BY <2>1, ParsesBlock
    <2> HIDE DEF r
    <2>3. Whole'
      BY <2>1, <2>2, UpdateWhole
    <2>4. StoredAsRead'
      <3> SUFFICES ASSUME Arrived', NEW f \in DOMAIN sending'.v
                   PROVE  LET x == Truncated(f, sending'.v[f]) * cal'[f].mul + cal'[f].offs
                          IN IF f \in Directions THEN (obs'[f] - 10 * ToInt(x)) % 3600 = 0
                             ELSE obs'[f] = Shown(f, x)
        BY DEF StoredAsRead, Calibrated
      <3>1. Sound(sending')
        BY ParserAssumption
      <3>2. r = [g \in DOMAIN sending'.v |-> Truncated(g, sending'.v[g])]
        BY <2>1, <3>1, ReadsBack DEF r, Bytes, Arrived
      <3>3. f \in DOMAIN r /\ r[f] = Truncated(f, sending'.v[f])
        BY <3>2
      <3>4. Truncated(f, sending'.v[f]) * cal'[f].mul + cal'[f].offs = Calibrated(f, r[f])
        BY <3>3 DEF Calibrated
      <3> QED BY <2>1, <2>2, <3>3, <3>4, UpdateKeeps
    <2> QED BY <2>3, <2>4
  <1> QED BY <1>1, <1>2

LEMMA StoredStep == TypeOK /\ Whole /\ StoredAsRead /\ [Next]_vars => Whole' /\ StoredAsRead'
  <1> SUFFICES ASSUME TypeOK, Whole, StoredAsRead, [Next]_vars
               PROVE  Whole' /\ StoredAsRead'
    OBVIOUS
  <1>1. TypeOK'
    BY TypesStep
  <1>2. sending' \in Measured
    BY <1>1 DEF TypeOK
  <1>3. CASE Send
    BY <1>2, <1>3, AdvanceType, ArriveStores DEF Send
  <1>4. CASE Change \/ Insert
    <2>1. PICK c \in Noise : Arrive(c)
      BY <1>4 DEF Change, Insert
    <2>2. c \in Byte /\ cal' = cal
      BY <1>4, <2>1, ParserAssumption DEF Change, Insert, Fault
    <2> QED BY <1>2, <2>1, <2>2, ArriveStores
  <1>5. CASE Drop \/ Start
    <2>1. obs' = obs /\ got' = <<>>
      BY <1>5 DEF Drop, Start, Nothing
    <2>2. <<>> # Bytes[sending']
      BY <1>2, BlockLength, EmptySeq
    <2> QED BY <2>1, <2>2 DEF Whole, StoredAsRead, Arrived
  <1>6. CASE UNCHANGED vars
    BY <1>6 DEF vars, line, stored, Whole, StoredAsRead, Arrived, Calibrated
  <1> QED BY <1>3, <1>4, <1>5, <1>6 DEF Next

\* Of a block that arrives as it was sent, every field is stored as measured,
\* in its own place and with its own calibration, so far as the handler can
\* tell (parse.c:152-320): for every measurement, calibration and noise.
THEOREM MeasurementsAreStored == Spec => []StoredAsRead
  <1>1. Init => TypeOK /\ Whole /\ StoredAsRead
    BY TypesInit DEF Init, Whole, StoredAsRead, Arrived, IntFields, Fields
  <1>2. TypeOK /\ Whole /\ StoredAsRead /\ [Next]_vars => (TypeOK /\ Whole /\ StoredAsRead)'
    BY TypesStep, StoredStep
  <1> QED BY <1>1, <1>2, PTL DEF Spec

----------------------------------------------------------------------------
(* What is flagged.                                                        *)

\* The handlers read the int fields in whole units, of any bytes; a direction
\* is made whole after its calibration.
LEMMA ReadsWholeUnits ==
    ASSUME NEW b \in Seq(Byte), b[1] \in Headers, Len(b) = SIZE[b[1]],
           NEW f \in DOMAIN Decode(b), f \in IntFields \ Directions
    PROVE  \E n \in Int : Decode(b)[f] = 10 * n
  <1>0. \A i \in 1 .. Len(b) : b[i] \in Byte
    BY ElementOfSeq
  <1>1. f \in {"HUMIN", "HUMOUT", "RAINRATE", "RAINTOT"}
    BY DEF IntFields, Directions
  <1>2. CASE b[1] = H8F
    <2>1. Decode(b) = parse8f(b)
      BY <1>2 DEF Decode
    <2>2. At(b, 8) \in Byte /\ At(b, 20) \in Byte
      BY <1>0, <1>2, GroupNumbers DEF At
    <2>3. DDtoint(At(b, 8)) \in Int /\ DDtoint(At(b, 20)) \in Int
      BY <2>2, DigitsType
    <2> QED BY <1>1, <2>1, <2>3 DEF parse8f
  <1>3. CASE b[1] = HBF
    <2>1. Decode(b) = parsebf(b)
      BY <1>3, GroupNumbers DEF Decode
    <2>2. At(b, 1) \in Byte /\ At(b, 2) \in Byte /\ At(b, 5) \in Byte /\ At(b, 6) \in Byte
      BY <1>0, <1>3, GroupNumbers DEF At
    <2>3. /\ 100 * xDtoint(At(b, 2)) + DDtoint(At(b, 1)) \in Int
          /\ 100 * xDtoint(At(b, 6)) + DDtoint(At(b, 5)) \in Int
      <3>1. /\ DDtoint(At(b, 1)) \in Int /\ xDtoint(At(b, 2)) \in Int
            /\ DDtoint(At(b, 5)) \in Int /\ xDtoint(At(b, 6)) \in Int
        BY <2>2, DigitsType
      <3> QED BY <3>1
    <2> QED BY <1>1, <2>1, <2>3 DEF parsebf
  <1>4. CASE b[1] \in {H9F, HAF, HCF}
    <2>1. CASE b[1] = H9F
      BY <1>1, <2>1, GroupNumbers DEF Decode, parse9f
    <2>2. CASE b[1] = HAF
      BY <1>1, <2>2, GroupNumbers DEF Decode, parseaf
    <2>3. CASE b[1] = HCF
      BY <1>1, <2>3, GroupNumbers DEF Decode, parsecf
    <2> QED BY <1>4, <2>1, <2>2, <2>3
  <1> QED BY <1>2, <1>3, <1>4 DEF Headers

\* A block flags a field only if it changes what is stored of it.
LEMMA UpdateFlags ==
    ASSUME TypeOK, NEW c \in Byte, Parse(c), Update(Decode(Append(buf, c))),
           NEW f \in flagged', f \in IntFields => cal[f].offs % 10 = 0
    PROVE  obs'[f] # obs[f]
  <1> DEFINE b == Append(buf, c)
             r == Decode(b)
  <1>1. DOMAIN r \subseteq Fields /\ \A g \in DOMAIN r : r[g] \in Int
    BY ParsesBlock
  <1>2. f \in DOMAIN r /\ f \in Fields
    BY <1>1 DEF Update
  <1>3. obs[f] # Reported(f, r[f], cal) /\ obs'[f] = Kept(f, Reported(f, r[f], cal))
    BY <1>2 DEF Update
  <1>4. /\ cal[f].mul \in Int /\ cal[f].offs \in Int /\ r[f] \in Int
        /\ correct(r[f], cal[f]) = r[f] * cal[f].mul + cal[f].offs
    BY <1>1, <1>2 DEF TypeOK, correct
  <1>5. CASE f \notin IntFields
    BY <1>3, <1>5 DEF Kept
  <1>6. CASE f \in Directions
    <2>1. PICK x \in Int : x = correct(r[f], cal[f])
      BY <1>4
    <2>2. Reported(f, r[f], cal) = OnCompass(x)
      BY <1>6, <2>1 DEF Reported
    <2>3. Kept(f, OnCompass(x)) = OnCompass(x)
      BY <2>1, OnCompassTurns, WholeUnits DEF Kept
    <2> QED BY <1>3, <2>2, <2>3
  <1>7. CASE f \in IntFields \ Directions
    <2>1. b \in Seq(Byte) /\ b[1] \in Headers /\ Len(b) = SIZE[b[1]]
      <3>1. buf \in Seq(Byte) /\ buf # <<>> /\ buf[1] \in Headers
        BY DEF Parse, TypeOK
      <3>2. Len(buf) \in Nat \ {0}
        BY <3>1, EmptySeq
      <3>3. b \in Seq(Byte) /\ b[1] = buf[1]
        BY <3>1, <3>2, AppendProperties
      <3> QED BY <3>1, <3>3 DEF Parse
    <2>2. PICK n \in Int : r[f] = 10 * n
      BY <1>2, <1>7, <2>1, ReadsWholeUnits
    <2>3. PICK o \in Int : cal[f].offs = 10 * o
      <3>1. cal[f].offs = 10 * (cal[f].offs \div 10) /\ cal[f].offs \div 10 \in Int
        BY <1>4, <1>7
      <3> QED BY <3>1
    <2>4. PICK k \in Int : k = n * cal[f].mul
      BY <1>4
    <2>5. r[f] * cal[f].mul = 10 * k
      <3>1. \A a, u \in Int : (10 * a) * u = 10 * (a * u)
        OBVIOUS
      <3> QED BY <1>4, <2>2, <2>4, <3>1
    <2>6. Reported(f, r[f], cal) = 10 * (k + o)
      BY <1>4, <1>7, <2>3, <2>5 DEF Reported
    <2>7. 10 * (k + o) \in Int /\ (10 * (k + o)) % 10 = 0
      OBVIOUS
    <2>8. Kept(f, 10 * (k + o)) = 10 * (k + o)
      BY <1>7, <2>7, WholeUnits DEF Kept
    <2> QED BY <1>3, <2>6, <2>8
  <1> QED BY <1>5, <1>6, <1>7

\* Nothing is flagged but by a block that changes it (wxd.h:111-116): for every
\* measurement and every noise, the calibration of an int field being whole.
THEOREM FlagsMeanChange == Spec => FlaggedIfChanged
  <1> DEFINE Honest == \A f \in flagged' :
                          (f \in IntFields => cal[f].offs % 10 = 0) => obs'[f] # obs[f]
  <1>1. TypeOK /\ [Next]_vars => [Honest]_vars
    <2> SUFFICES ASSUME TypeOK, Next PROVE Honest
      OBVIOUS
    <2>1. ASSUME NEW c \in Byte, Arrive(c) PROVE Honest
      <3>1. CASE flagged' = {}
        BY <3>1
      <3>2. CASE flagged' # {}
        <4>1. Parse(c) /\ Update(Decode(Append(buf, c)))
          BY <2>1, <3>2 DEF Arrive, Hunt, Take, Parse, Nothing
        <4> QED BY <4>1, UpdateFlags
      <3> QED BY <3>1, <3>2
    <2>2. CASE Send
      BY <2>1, <2>2, AdvanceType DEF Send
    <2>3. CASE Change \/ Insert
      <3>1. PICK c \in Noise : Arrive(c)
        BY <2>3 DEF Change, Insert
      <3> QED BY <2>1, <3>1, ParserAssumption
    <2>4. CASE Drop \/ Start
      BY <2>4 DEF Drop, Start, Nothing
    <2> QED BY <2>2, <2>3, <2>4 DEF Next
  <1>2. Spec => []TypeOK
    BY TypeCorrect
  <1> QED BY <1>1, <1>2, PTL DEF Spec, FlaggedIfChanged

----------------------------------------------------------------------------
(* The checksum.                                                           *)

\* A block is taken only if its checksum is right.
Checked == got # <<>> => sumcheck(got)

LEMMA CheckedStep == Checked /\ [Next]_vars => Checked'
  <1> SUFFICES ASSUME Checked, [Next]_vars PROVE Checked'
    OBVIOUS
  <1>1. ASSUME NEW c, Arrive(c) PROVE Checked'
    BY <1>1 DEF Arrive, Hunt, Take, Parse, Nothing, Checked
  <1>2. CASE Send \/ Change \/ Insert
    <2>1. \E c : Arrive(c)
      BY <1>2 DEF Send, Change, Insert
    <2> QED BY <1>1, <2>1
  <1>3. CASE Drop \/ Start
    BY <1>3 DEF Drop, Start, Nothing, Checked
  <1>4. CASE UNCHANGED vars
    BY <1>4 DEF vars, stored, Checked
  <1> QED BY <1>2, <1>3, <1>4 DEF Next

LEMMA CheckedCatches == TypeOK /\ Checked => OneChangeIsCaught
  <1> SUFFICES ASSUME TypeOK, Checked, got # <<>>, NEW m \in Measured,
                      Len(Bytes[m]) = Len(got),
                      NEW i \in DOMAIN Bytes[m], Bytes[m][i] # got[i],
                      \A k \in DOMAIN Bytes[m] \ {i} : Bytes[m][k] = got[k]
               PROVE  FALSE
    BY DEF OneChangeIsCaught
  <1>1. Bytes[m] \in Seq(Byte) /\ sumcheck(Bytes[m])
    BY BlockFacts
  <1>2. got \in Seq(Byte) /\ sumcheck(got)
    BY DEF TypeOK, Checked
  <1> QED BY <1>1, <1>2, ChecksumSees

\* A block with one byte changed on the way is never stored for the one sent
\* (parse.c:323-332): for every set of blocks and every noise.
THEOREM ChangesAreCaught == Spec => []OneChangeIsCaught
  <1>1. Init => TypeOK /\ Checked
    BY TypesInit DEF Init, Checked
  <1>2. TypeOK /\ Checked /\ [Next]_vars => (TypeOK /\ Checked)'
    BY TypesStep, CheckedStep
  <1> QED BY <1>1, <1>2, CheckedCatches, PTL DEF Spec
=============================================================================
