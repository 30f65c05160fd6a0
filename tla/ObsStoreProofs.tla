--------------------------- MODULE ObsStoreProofs ---------------------------
(***************************************************************************)
(* What is proved about ObsStore: its types, that wxd never makes up rain, *)
(* and that what is not yet saved is flagged.                              *)
(*                                                                         *)
(* A pair of total and offset, in memory, in the database or about to be   *)
(* stored, is sound when it says no more than has fallen, and still will   *)
(* after the station's counter is taken over it, be that as a further rise *)
(* or as the count after a reset.                                          *)
(***************************************************************************)
EXTENDS ObsStore, SequenceTheorems, TLAPS

Within(total, offset) ==
    /\ offset + total <= fallen
    /\ counter < total => offset + total + counter <= fallen
    /\ total <= counter => offset + counter <= fallen

\* The rain total that the block under way brings, if it brings one.
Pending  == todo # <<>> /\ todo[Len(todo)].field = "RAINTOT"
NewTotal == todo[Len(todo)].value

\* What is left to do of a block: only its last update can be the total.
TodoOK ==
    /\ ppc \in {"idle", "signal"} => todo = <<>>
    /\ ppc = "offset" => Pending
    /\ ppc = "update" => todo # <<>>
    /\ \A i \in 1 .. Len(todo) - 1 : todo[i].field # "RAINTOT"

\* The pair in memory, before, during and after a block of rain.
MemoryOK ==
    /\ ppc = "offset" =>
        /\ Within(rain_tot, rtot_offset)
        /\ NewTotal < rain_tot => Within(NewTotal, rtot_offset + rain_tot)
        /\ rain_tot <= NewTotal => Within(NewTotal, rtot_offset)
    /\ ppc = "update" /\ Pending =>
        /\ Within(NewTotal, rtot_offset)
        /\ rain_tot <= NewTotal => Within(rain_tot, rtot_offset)
    /\ ~Pending => Within(rain_tot, rtot_offset)

SavedOK ==
    /\ row # NoRow => Within(row.rain_tot, row.rtot_offset)
    /\ wpc = "insert" => rain <= fallen
    /\ logged <= fallen

RainOK == counter <= fallen /\ (~torn => MemoryOK /\ SavedOK)

----------------------------------------------------------------------------
(* Types.                                                                  *)

Todos == [field : Bits, value : Nat]
Rows  == [obs : [Fields -> Nat], rain_tot : Nat, rtot_offset : Nat]

\* The table of blocks: each has updates, of fields that have bits, and the
\* total is the last of the rain block.
LEMMA BlockShape ==
    ASSUME NEW b \in Blocks
    PROVE  /\ BlockFields[b] \in Seq(Bits)
           /\ Len(BlockFields[b]) \in Nat \ {0}
           /\ \A i \in 1 .. Len(BlockFields[b]) - 1 : BlockFields[b][i] # "RAINTOT"
           /\ (b = "bbf" <=> BlockFields[b][Len(BlockFields[b])] = "RAINTOT")
<1>1. b \in {"b8f", "b9f", "baf", "bbf", "bcf"}
  BY ObsAssumption DEF BlockFields
<1>2. /\ BlockFields["b8f"] = <<"HUMIN", "HUMOUT">>
      /\ BlockFields["b9f"] = <<"TEMPIN", "TEMPOUT">>
      /\ BlockFields["baf"] = <<"DEWIN", "DEWOUT", "BARO">>
      /\ BlockFields["bbf"] = <<"RAINRATE", "RAINTOT">>
      /\ BlockFields["bcf"] = <<"GUST", "WAVG", "GUSTDIR", "WAVGDIR", "WCHILL">>
  BY DEF BlockFields
<1>3. \A i \in DOMAIN BlockFields[b] : BlockFields[b][i] \in Bits
  BY DEF Bits, FieldsOf
<1>4. CASE b = "b8f"
  <2> DEFINE q == <<"HUMIN", "HUMOUT">>
  <2>1. BlockFields[b] = q
    BY <1>2, <1>4
  <2>2. DOMAIN q = 1 .. 2 /\ Len(q) = 2 /\ q[2] = "HUMOUT"
    OBVIOUS
  <2>3. \A i \in 1 .. 1 : q[i] # "RAINTOT"
    OBVIOUS
  <2>4. q[1] \in Bits /\ q[2] \in Bits
    BY <1>3, <2>1, <2>2
  <2>5. q \in Seq(Bits)
    BY <2>4
  <2> HIDE DEF q
  <2> QED
    BY <1>4, <2>1, <2>2, <2>3, <2>5
<1>5. CASE b = "b9f"
  <2> DEFINE q == <<"TEMPIN", "TEMPOUT">>
  <2>1. BlockFields[b] = q
    BY <1>2, <1>5
  <2>2. DOMAIN q = 1 .. 2 /\ Len(q) = 2 /\ q[2] = "TEMPOUT"
    OBVIOUS
  <2>3. \A i \in 1 .. 1 : q[i] # "RAINTOT"
    OBVIOUS
  <2>4. q[1] \in Bits /\ q[2] \in Bits
    BY <1>3, <2>1, <2>2
  <2>5. q \in Seq(Bits)
    BY <2>4
  <2> HIDE DEF q
  <2> QED
    BY <1>5, <2>1, <2>2, <2>3, <2>5
<1>6. CASE b = "baf"
  <2> DEFINE q == <<"DEWIN", "DEWOUT", "BARO">>
  <2>1. BlockFields[b] = q
    BY <1>2, <1>6
  <2>2. DOMAIN q = 1 .. 3 /\ Len(q) = 3 /\ q[3] = "BARO"
    OBVIOUS
  <2>3. \A i \in 1 .. 2 : q[i] # "RAINTOT"
    OBVIOUS
  <2>4. q[1] \in Bits /\ q[2] \in Bits /\ q[3] \in Bits
    BY <1>3, <2>1, <2>2
  <2>5. q \in Seq(Bits)
    BY <2>4
  <2> HIDE DEF q
  <2> QED
    BY <1>6, <2>1, <2>2, <2>3, <2>5
<1>7. CASE b = "bbf"
  <2> DEFINE q == <<"RAINRATE", "RAINTOT">>
  <2>1. BlockFields[b] = q
    BY <1>2, <1>7
  <2>2. DOMAIN q = 1 .. 2 /\ Len(q) = 2 /\ q[2] = "RAINTOT"
    OBVIOUS
  <2>3. \A i \in 1 .. 1 : q[i] # "RAINTOT"
    OBVIOUS
  <2>4. q[1] \in Bits /\ q[2] \in Bits
    BY <1>3, <2>1, <2>2
  <2>5. q \in Seq(Bits)
    BY <2>4
  <2> HIDE DEF q
  <2> QED
    BY <1>7, <2>1, <2>2, <2>3, <2>5
<1>8. CASE b = "bcf"
  <2> DEFINE q == <<"GUST", "WAVG", "GUSTDIR", "WAVGDIR", "WCHILL">>
  <2>1. BlockFields[b] = q
    BY <1>2, <1>8
  <2>2. DOMAIN q = 1 .. 5 /\ Len(q) = 5 /\ q[5] = "WCHILL"
    OBVIOUS
  <2>3. \A i \in 1 .. 4 : q[i] # "RAINTOT"
    OBVIOUS
  <2>4. q[1] \in Bits /\ q[2] \in Bits /\ q[3] \in Bits /\ q[4] \in Bits /\ q[5] \in Bits
    BY <1>3, <2>1, <2>2
  <2>5. q \in Seq(Bits)
    BY <2>4
  <2> HIDE DEF q
  <2> QED
    BY <1>8, <2>1, <2>2, <2>3, <2>5
<1> QED
  BY <1>1, <1>4, <1>5, <1>6, <1>7, <1>8

\* Both dew points come in the same block.
LEMMA DewPoints == "DEWOUT" \in Fields => "DEWIN" \in Fields
<1>1. SUFFICES ASSUME NEW b \in Blocks, "DEWOUT" \in FieldsOf(b)
               PROVE  "DEWIN" \in FieldsOf(b)
  BY DEF Fields, Bits
<1>2. b \in {"b8f", "b9f", "baf", "bbf", "bcf"}
  BY ObsAssumption DEF BlockFields
<1>3. ~\E i \in 1 .. 2 : <<"HUMIN", "HUMOUT">>[i] = "DEWOUT"
  OBVIOUS
<1>4. ~\E i \in 1 .. 2 : <<"TEMPIN", "TEMPOUT">>[i] = "DEWOUT"
  OBVIOUS
<1>5. ~\E i \in 1 .. 2 : <<"RAINRATE", "RAINTOT">>[i] = "DEWOUT"
  OBVIOUS
<1>6. ~\E i \in 1 .. 5 : <<"GUST", "WAVG", "GUSTDIR", "WAVGDIR", "WCHILL">>[i] = "DEWOUT"
  OBVIOUS
<1>7. b # "b8f" /\ b # "b9f" /\ b # "bbf" /\ b # "bcf"
  BY <1>1, <1>3, <1>4, <1>5, <1>6 DEF FieldsOf, BlockFields
<1>8. BlockFields[b] = <<"DEWIN", "DEWOUT", "BARO">>
  BY <1>2, <1>7 DEF BlockFields
<1>9. 1 \in DOMAIN BlockFields[b] /\ BlockFields[b][1] = "DEWIN"
  BY <1>8
<1> QED
  BY <1>9 DEF FieldsOf

\* The updates left to do, when there are some.
LEMMA TodoParts ==
    ASSUME NEW q \in Seq(Todos), q # <<>>
    PROVE  /\ Len(q) \in Nat \ {0}
           /\ \A i \in 1 .. Len(q) : q[i] \in Todos
           /\ Head(q) = q[1]
           /\ Tail(q) \in Seq(Todos)
           /\ Len(Tail(q)) = Len(q) - 1
           /\ \A i \in 1 .. Len(q) - 1 : Tail(q)[i] = q[i + 1]
           /\ Len(q) = 1 <=> Tail(q) = <<>>
<1>1. Len(q) \in Nat \ {0} /\ \A i \in 1 .. Len(q) : q[i] \in Todos
  BY EmptySeq, LenProperties, ElementOfSeq
<1>2. Tail(q) \in Seq(Todos) /\ Len(Tail(q)) = Len(q) - 1
      /\ \A i \in 1 .. Len(q) - 1 : Tail(q)[i] = q[i + 1]
  BY HeadTailProperties
<1>3. Tail(q) = <<>> <=> Len(Tail(q)) = 0
  BY <1>2, EmptySeq
<1>4. Head(q) = q[1]
  BY <1>1
<1> QED
  BY <1>1, <1>2, <1>3, <1>4

\* What a block of kind b asks for.
LEMMA NewBlock ==
    ASSUME TypeOK, NEW b \in Blocks, NEW r \in Readings,
           todo' = [i \in DOMAIN BlockFields[b] |->
                       LET f == BlockFields[b][i]
                       IN [field |-> f, value |-> IF f = "RAINTOT" THEN counter ELSE r[f]]]
    PROVE  /\ todo' \in Seq(Todos)
           /\ Len(todo') = Len(BlockFields[b])
           /\ \A i \in 1 .. Len(BlockFields[b]) :
                 /\ todo'[i].field = BlockFields[b][i]
                 /\ BlockFields[b][i] = "RAINTOT" => todo'[i].value = counter
<1> DEFINE q == BlockFields[b]
           n == Len(q)
<1>1. q \in Seq(Bits) /\ n \in Nat \ {0}
  BY BlockShape
<1>2. DOMAIN q = 1 .. n /\ \A i \in 1 .. n : q[i] \in Bits
  BY <1>1
<1>3. r \in [Fields -> Nat] /\ counter \in Nat
  BY ObsAssumption DEF TypeOK
<1> HIDE DEF q, n
<1>4. todo' = [i \in 1 .. n |-> [field |-> q[i],
                                 value |-> IF q[i] = "RAINTOT" THEN counter ELSE r[q[i]]]]
  BY <1>2 DEF q
<1>5. \A i \in 1 .. n :
         [field |-> q[i], value |-> IF q[i] = "RAINTOT" THEN counter ELSE r[q[i]]] \in Todos
  BY <1>2, <1>3 DEF Todos, Fields
<1>6. todo' \in [1 .. n -> Todos]
  BY <1>4, <1>5
<1>7. todo' \in Seq(Todos) /\ Len(todo') = n
  BY <1>1, <1>6
<1>8. \A i \in 1 .. n : /\ todo'[i].field = q[i]
                        /\ q[i] = "RAINTOT" => todo'[i].value = counter
  <2> TAKE i \in 1 .. n
  <2>1. todo'[i] = [field |-> q[i], value |-> IF q[i] = "RAINTOT" THEN counter ELSE r[q[i]]]
    BY <1>4
  <2> QED
    BY <2>1
<1> QED
  BY <1>7, <1>8 DEF q, n

\* The observation that a restart loads, whether its commands work or not.
LEMMA LoadTypes ==
    ASSUME TypeOK, Load
    PROVE  obs' \in [Fields -> Nat] /\ rain_tot' \in Nat /\ rtot_offset' \in Nat
           /\ lost' \subseteq Fields \cup {"RAINTOT"}
<1>1. CASE LoadZero
  BY <1>1 DEF LoadZero, Zero
<1>2. CASE LoadRow
  <2>1. row \in Rows
    BY <1>2 DEF LoadRow, TypeOK, Rows
  <2>2. row.obs \in [Fields -> Nat] /\ row.rain_tot \in Nat /\ row.rtot_offset \in Nat
    BY <2>1 DEF Rows
  <2>3. \A f \in Fields : (IF f = "DEWOUT" THEN row.obs["DEWIN"] ELSE row.obs[f]) \in Nat
    BY <2>2, DewPoints
  <2> QED
    BY <1>2, <2>2, <2>3 DEF LoadRow
<1> QED
  BY <1>1, <1>2 DEF Load

\* The row after an UPDATE.
LEMMA UpdatedTypes ==
    ASSUME TypeOK, row # NoRow
    PROVE  /\ row \in Rows /\ Updated \in Rows
           /\ Updated.rain_tot = IF "RAINTOT" \in Sent THEN rain_tot ELSE row.rain_tot
           /\ Updated.rtot_offset = IF "RAINTOT" \in Sent THEN rtot_offset ELSE row.rtot_offset
<1>1. row \in Rows
  BY DEF TypeOK, Rows
<1>2. row.obs \in [Fields -> Nat] /\ row.rain_tot \in Nat /\ row.rtot_offset \in Nat
  BY <1>1 DEF Rows
<1>3. [f \in Fields |-> IF f \in Sent THEN obs[f] ELSE row.obs[f]] \in [Fields -> Nat]
  BY <1>2 DEF TypeOK
<1> QED
  BY <1>1, <1>2, <1>3 DEF Updated, Rows, TypeOK

LEMMA SentBits == Sent \subseteq ch_flag
  BY DEF Sent

\* Both hold at the start, and every step keeps them.
LEMMA TypesInit == Init => TypeOK /\ TodoOK
<1> SUFFICES ASSUME Init PROVE TypeOK /\ TodoOK
  OBVIOUS
<1>1. Zero \in [Fields -> Nat]
  BY DEF Zero
<1>2. row = NoRow \/ row \in Rows
  BY <1>1 DEF Init, Rows
<1>3. todo = <<>> /\ todo \in Seq(Todos) /\ Len(todo) = 0
  BY DEF Init
<1>4. TypeOK
  BY <1>1, <1>2, <1>3 DEF Init, TypeOK, Rows, Todos
<1> QED
  BY <1>3, <1>4 DEF Init, TodoOK

LEMMA TypesStep == TypeOK /\ TodoOK /\ [Next]_vars => TypeOK' /\ TodoOK'
<1> SUFFICES ASSUME TypeOK, TodoOK, [Next]_vars
             PROVE  TypeOK' /\ TodoOK'
  OBVIOUS
<1> USE DEF station, memory, saved, parser, writer
<1>1. todo \in Seq(Todos) /\ Len(todo) \in Nat
  BY DEF TypeOK, Todos
<1>2. <<>> \in Seq(Todos) /\ Len(<<>>) = 0
  OBVIOUS
<1>3. CASE Fall
  BY <1>3 DEF Fall, TypeOK, TodoOK, Pending
<1>4. CASE ResetCounter
  BY <1>4 DEF ResetCounter, TypeOK, TodoOK, Pending
<1>5. CASE Receive
  <2>1. PICK b \in Blocks, r \in Readings :
            /\ todo' = [i \in DOMAIN BlockFields[b] |->
                           LET f == BlockFields[b][i]
                           IN [field |-> f, value |-> IF f = "RAINTOT" THEN counter ELSE r[f]]]
            /\ ppc' = IF b = "bbf" THEN "offset" ELSE "update"
    BY <1>5 DEF Receive
  <2>2. /\ todo' \in Seq(Todos)
        /\ Len(todo') = Len(BlockFields[b])
        /\ \A i \in 1 .. Len(BlockFields[b]) : todo'[i].field = BlockFields[b][i]
    BY <2>1, NewBlock
  <2>3. TypeOK'
    BY <1>5, <2>1, <2>2 DEF Receive, TypeOK, Todos
  <2>4. Len(todo') \in Nat \ {0}
    BY <2>2, BlockShape
  <2>5. \A i \in 1 .. Len(todo') - 1 : todo'[i].field # "RAINTOT"
    BY <2>2, <2>4, BlockShape
  <2>6. b = "bbf" => Pending'
    BY <2>2, <2>4, BlockShape DEF Pending
  <2>7. todo' # <<>>
    BY <2>4
  <2> QED
    BY <2>1, <2>3, <2>5, <2>6, <2>7 DEF TodoOK
<1>6. CASE ReceiveOther
  BY <1>6 DEF ReceiveOther, TypeOK, TodoOK, Pending
<1>7. CASE OffsetRain
  <2>1. todo # <<>> /\ todo[Len(todo)] \in Todos
    BY <1>1, <1>7, TodoParts DEF OffsetRain, TodoOK, Pending
  <2>2. rtot_offset' \in Nat
    BY <1>7, <2>1 DEF OffsetRain, TypeOK
  <2> QED
    BY <1>7, <2>1, <2>2 DEF OffsetRain, TypeOK, TodoOK, Pending
<1>8. CASE UpdateField
  <2> DEFINE f == Head(todo).field
             v == Head(todo).value
  <2>1. todo # <<>>
    BY <1>8 DEF UpdateField, TodoOK
  <2>2. Head(todo) \in Todos /\ Tail(todo) \in Seq(Todos)
    BY <1>1, <2>1, TodoParts
  <2>3. f \in Bits /\ v \in Nat /\ (f # "RAINTOT" => f \in Fields)
    BY <2>2 DEF Todos, Fields
  <2> HIDE DEF f, v
  <2>4. obs' \in [Fields -> Nat] /\ rain_tot' \in Nat
    BY <1>8, <2>3 DEF UpdateField, TypeOK, f, v
  <2>5. ch_flag' \subseteq Bits
    BY <1>8, <2>3 DEF UpdateField, TypeOK, f, v
  <2>6. todo' \in Seq(Todos) /\ ppc' \in {"signal", "update"}
    BY <1>8, <2>2 DEF UpdateField
  <2>7. TypeOK'
    BY <1>8, <2>4, <2>5, <2>6 DEF UpdateField, TypeOK, Todos
  <2>8. ppc' = "signal" <=> todo' = <<>>
    BY <1>1, <1>8, <2>1, TodoParts DEF UpdateField
  <2>9. Len(todo') = Len(todo) - 1
        /\ \A i \in 1 .. Len(todo) - 1 : todo'[i] = todo[i + 1]
    BY <1>1, <1>8, <2>1, TodoParts DEF UpdateField
  <2>10. \A i \in 1 .. Len(todo') - 1 : todo'[i].field # "RAINTOT"
    BY <1>1, <2>9 DEF TodoOK
  <2> QED
    BY <2>6, <2>7, <2>8, <2>10 DEF TodoOK
<1>9. CASE Signal
  BY <1>9 DEF Signal, TypeOK, TodoOK, Pending
<1>10. CASE WaitForUpdate
  BY <1>10 DEF WaitForUpdate, TypeOK, TodoOK, Pending
<1>11. CASE SpuriousWakeup
  BY <1>11 DEF SpuriousWakeup, TypeOK, TodoOK, Pending
<1>12. CASE Update
  <2>1. row' = NoRow \/ row' \in Rows
    <3>1. CASE row = NoRow
      BY <1>12, <3>1 DEF Update, Updated
    <3>2. CASE row # NoRow
      BY <1>12, <3>2, UpdatedTypes DEF Update
    <3> QED
      BY <3>1, <3>2
  <2>2. ch_flag' \subseteq Bits /\ need_write' \in BOOLEAN
        /\ lost' \subseteq Fields \cup {"RAINTOT"} /\ torn' \in BOOLEAN
    BY <1>12, SentBits DEF Update, TypeOK, Fields
  <2> QED
    BY <1>12, <2>1, <2>2 DEF Update, TypeOK, TodoOK, Pending, Rows
<1>13. CASE WriteObs
  <2>1. rain' \in Nat /\ torn' \in BOOLEAN
    BY <1>13 DEF WriteObs, TypeOK
  <2> QED
    BY <1>13, <2>1 DEF WriteObs, TypeOK, TodoOK, Pending
<1>14. CASE NoWriteObs
  BY <1>14 DEF NoWriteObs, TypeOK, TodoOK, Pending
<1>15. CASE Insert
  BY <1>15 DEF Insert, TypeOK, TodoOK, Pending
<1>16. CASE Crash
  <2>1. TypeOK'
    BY <1>2, <1>16, LoadTypes DEF Crash, TypeOK, Todos
  <2>2. ppc' = "idle" /\ todo' = <<>>
    BY <1>16 DEF Crash
  <2>3. TodoOK'
    BY <1>2, <2>2 DEF TodoOK
  <2> QED
    BY <2>1, <2>3
<1>17. CASE Reload
  BY <1>17, LoadTypes DEF Reload, TypeOK, TodoOK, Pending
<1>18. CASE UNCHANGED vars
  BY <1>18 DEF vars, TypeOK, TodoOK, Pending
<1> QED
  BY <1>3, <1>4, <1>5, <1>6, <1>7, <1>8, <1>9, <1>10, <1>11, <1>12, <1>13,
     <1>14, <1>15, <1>16, <1>17, <1>18 DEF Next, Parse, Write

\* Every variable has its type (the structs of wxd.h:37-58 and 78).
THEOREM ObsTypes == Spec => []TypeOK
<1>1. Spec => [](TypeOK /\ TodoOK)
  BY TypesInit, TypesStep, PTL DEF Spec
<1> QED
  BY <1>1, PTL

----------------------------------------------------------------------------
(* Rain.                                                                   *)

IInv == TypeOK /\ TodoOK /\ RainOK

\* The rain of a block is a number.
LEMMA NewTotalType ==
    ASSUME TypeOK, Pending
    PROVE  NewTotal \in Nat
<1>1. todo \in Seq(Todos) /\ todo # <<>>
  BY DEF TypeOK, Pending, Todos
<1>2. todo[Len(todo)] \in Todos
  BY <1>1, TodoParts
<1> QED
  BY <1>2 DEF NewTotal, Todos

\* Outside the halves of a reset the pair in memory is sound.
LEMMA MemorySound ==
    ASSUME IInv, ~torn, ~Resetting
    PROVE  Within(rain_tot, rtot_offset)
<1>1. MemoryOK
  BY DEF IInv, RainOK
<1>2. CASE ppc = "update" /\ Pending
  <2>1. NewTotal \in Nat
    BY <1>2, NewTotalType DEF IInv
  <2>2. rain_tot <= NewTotal
    BY <1>2, <2>1 DEF Resetting, Pending, NewTotal, IInv, TypeOK
  <2> QED
    BY <1>1, <1>2, <2>2 DEF MemoryOK
<1>3. CASE ppc = "offset"
  BY <1>1, <1>3 DEF MemoryOK
<1>4. CASE ~Pending
  BY <1>1, <1>4 DEF MemoryOK
<1>5. ppc \in {"idle", "signal"} => ~Pending
  BY DEF IInv, TodoOK, Pending
<1> QED
  BY <1>2, <1>3, <1>4, <1>5 DEF IInv, TypeOK

\* The row's pair is one of numbers.
LEMMA RowTypes ==
    ASSUME TypeOK, row # NoRow
    PROVE  row.rain_tot \in Nat /\ row.rtot_offset \in Nat
  BY DEF TypeOK

\* Rain, and a reset of the counter, keep every sound pair sound.
LEMMA StationKeeps ==
    ASSUME TypeOK, Fall \/ ResetCounter,
           NEW total \in Nat, NEW offset \in Nat, Within(total, offset)
    PROVE  Within(total, offset)'
<1>1. counter \in Nat /\ fallen \in Nat
  BY DEF TypeOK
<1>2. CASE Fall
  BY <1>1, <1>2 DEF Fall, Within
<1>3. CASE ResetCounter
  BY <1>1, <1>3 DEF ResetCounter, Within
<1> QED
  BY <1>2, <1>3

LEMMA RainInit == Init => RainOK
<1> SUFFICES ASSUME Init PROVE RainOK
  OBVIOUS
<1>1. Within(0, 0)
  BY DEF Init, Within
<1>2. ~Pending /\ rain_tot = 0 /\ rtot_offset = 0
  BY DEF Init, Pending
<1>3. MemoryOK
  BY <1>1, <1>2 DEF MemoryOK, Init
<1>4. SavedOK
  BY <1>1 DEF SavedOK, Init
<1> QED
  BY <1>3, <1>4 DEF RainOK, Init

LEMMA RainStep == IInv /\ [Next]_vars => RainOK'
<1> SUFFICES ASSUME IInv, [Next]_vars
             PROVE  RainOK'
  OBVIOUS
<1> USE DEF station, memory, saved, parser, writer
<1>1. TypeOK /\ TodoOK /\ counter \in Nat /\ fallen \in Nat /\ counter <= fallen
      /\ rain_tot \in Nat /\ rtot_offset \in Nat
  BY DEF IInv, TypeOK, RainOK
<1>2. ~torn => MemoryOK /\ SavedOK
  BY DEF IInv, RainOK
<1>3. CASE Fall \/ ResetCounter
  <2>1. counter' <= fallen' /\ fallen <= fallen' /\ fallen' \in Nat
    BY <1>1, <1>3 DEF Fall, ResetCounter
  <2>2. UNCHANGED <<memory, saved, parser, writer, torn>>
    BY <1>3 DEF Fall, ResetCounter
  <2>3. SUFFICES ASSUME ~torn PROVE MemoryOK' /\ SavedOK'
    BY <2>1, <2>2 DEF RainOK
  <2>4. ASSUME NEW total \in Nat, NEW offset \in Nat, Within(total, offset)
        PROVE  Within(total, offset)'
    BY <1>1, <1>3, <2>4, StationKeeps
  <2>5. MemoryOK'
    <3>1. Pending => NewTotal \in Nat
      BY <1>1, NewTotalType
    <3>2. (Pending' <=> Pending) /\ NewTotal' = NewTotal
      BY <2>2 DEF Pending, NewTotal
    <3>3. Within(rain_tot, rtot_offset) => Within(rain_tot, rtot_offset)'
      BY <1>1, <2>2, <2>4 DEF Within
    <3>4. Pending /\ Within(NewTotal, rtot_offset) => Within(NewTotal, rtot_offset)'
      BY <1>1, <2>2, <2>4, <3>1, <3>2 DEF Within
    <3>5. Pending /\ Within(NewTotal, rtot_offset + rain_tot)
             => Within(NewTotal, rtot_offset + rain_tot)'
      <4>1. rtot_offset + rain_tot \in Nat
        BY <1>1
      <4> QED
        BY <1>1, <2>2, <2>4, <3>1, <3>2, <4>1 DEF Within
    <3>6. ppc = "offset" => Pending
      BY <1>1 DEF TodoOK
    <3> QED
      BY <1>2, <2>2, <2>3, <3>2, <3>3, <3>4, <3>5, <3>6 DEF MemoryOK
  <2>6. SavedOK'
    <3>1. row # NoRow => Within(row.rain_tot, row.rtot_offset)'
      BY <1>1, <1>2, <2>2, <2>3, <2>4, RowTypes DEF Within, SavedOK
    <3>2. rain \in Nat /\ logged \in Nat
      BY <1>1 DEF TypeOK
    <3> QED
      BY <1>1, <1>2, <2>1, <2>2, <2>3, <3>1, <3>2 DEF SavedOK
  <2> QED
    BY <2>5, <2>6
<1>4. CASE Receive
  <2>1. PICK b \in Blocks, r \in Readings :
            /\ todo' = [i \in DOMAIN BlockFields[b] |->
                           LET f == BlockFields[b][i]
                           IN [field |-> f, value |-> IF f = "RAINTOT" THEN counter ELSE r[f]]]
            /\ ppc' = IF b = "bbf" THEN "offset" ELSE "update"
    BY <1>4 DEF Receive
  <2>2. /\ Len(todo') = Len(BlockFields[b])
        /\ \A i \in 1 .. Len(BlockFields[b]) :
              /\ todo'[i].field = BlockFields[b][i]
              /\ BlockFields[b][i] = "RAINTOT" => todo'[i].value = counter
    BY <1>1, <2>1, NewBlock
  <2>3. Len(todo') \in 1 .. Len(BlockFields[b])
    BY <2>2, BlockShape
  <2>4. b = "bbf" => NewTotal' = counter
    BY <2>2, <2>3, BlockShape DEF NewTotal
  <2>5. b # "bbf" => ~Pending'
    BY <2>2, <2>3, BlockShape DEF Pending
  <2>6. UNCHANGED <<station, memory, saved, writer, torn>>
    BY <1>4 DEF Receive
  <2>7. SUFFICES ASSUME ~torn PROVE MemoryOK' /\ SavedOK'
    BY <1>1, <2>6 DEF RainOK
  <2>8. SavedOK'
    BY <1>2, <2>6, <2>7 DEF SavedOK, Within
  <2>9. Within(rain_tot, rtot_offset)
    BY <1>1, <1>2, <1>4, <2>7 DEF Receive, TodoOK, Pending, MemoryOK
  <2>10. CASE b = "bbf"
    <3>1. ppc' = "offset" /\ NewTotal' = counter
      BY <2>1, <2>4, <2>10
    <3>2. Pending'
      BY <1>4, <3>1, TypesStep DEF IInv, TodoOK
    <3> QED
      BY <1>1, <2>6, <2>8, <2>9, <3>1, <3>2 DEF MemoryOK, Within
  <2>11. CASE b # "bbf"
    BY <2>1, <2>5, <2>6, <2>8, <2>9, <2>11 DEF MemoryOK, Within
  <2> QED
    BY <2>10, <2>11
<1>5. CASE OffsetRain
  <2>1. UNCHANGED <<station, rain_tot, saved, todo, writer, torn>>
        /\ ppc = "offset" /\ ppc' = "update"
    BY <1>5 DEF OffsetRain
  <2>2. Pending /\ NewTotal \in Nat
    BY <1>1, <2>1, NewTotalType DEF TodoOK
  <2>3. rtot_offset' = IF NewTotal < rain_tot THEN rtot_offset + rain_tot ELSE rtot_offset
    BY <1>5 DEF OffsetRain, NewTotal
  <2>4. (Pending' <=> Pending) /\ NewTotal' = NewTotal
    BY <2>1 DEF Pending, NewTotal
  <2>5. SUFFICES ASSUME ~torn PROVE MemoryOK' /\ SavedOK'
    BY <1>1, <2>1 DEF RainOK
  <2>6. SavedOK'
    BY <1>2, <2>1, <2>5 DEF SavedOK, Within
  <2>7. MemoryOK
    BY <1>2, <2>5
  <2>8. CASE NewTotal < rain_tot
    BY <1>1, <2>1, <2>2, <2>3, <2>4, <2>6, <2>7, <2>8 DEF MemoryOK, Within
  <2>9. CASE rain_tot <= NewTotal
    BY <1>1, <2>1, <2>2, <2>3, <2>4, <2>6, <2>7, <2>9 DEF MemoryOK, Within
  <2> QED
    BY <1>1, <2>2, <2>8, <2>9
<1>6. CASE UpdateField
  <2>1. UNCHANGED <<station, rtot_offset, saved, writer, torn>>
        /\ ppc = "update" /\ ppc' \in {"update", "signal"}
        /\ todo # <<>> /\ todo' = Tail(todo) /\ todo \in Seq(Todos)
    BY <1>1, <1>6 DEF UpdateField, TodoOK, TypeOK, Todos
  <2>2. /\ Len(todo) \in Nat \ {0}
        /\ Head(todo) = todo[1]
        /\ Len(todo') = Len(todo) - 1
        /\ \A i \in 1 .. Len(todo) - 1 : todo'[i] = todo[i + 1]
        /\ Len(todo) = 1 <=> todo' = <<>>
    BY <2>1, TodoParts
  <2>3. SUFFICES ASSUME ~torn PROVE MemoryOK' /\ SavedOK'
    BY <1>1, <2>1 DEF RainOK
  <2>4. SavedOK'
    BY <1>2, <2>1, <2>3 DEF SavedOK, Within
  <2>5. MemoryOK
    BY <1>2, <2>3
  <2>6. CASE Len(todo) = 1
    <3>1. ~Pending' /\ ppc' = "signal"
      BY <1>6, <2>2, <2>6 DEF Pending, UpdateField
    <3>2. CASE Pending
      <4>1. rain_tot' = NewTotal
        BY <1>6, <2>2, <2>6, <3>2 DEF UpdateField, Pending, NewTotal
      <4>2. Within(NewTotal, rtot_offset)
        BY <2>1, <2>5, <3>2 DEF MemoryOK
      <4> QED
        BY <2>1, <2>4, <3>1, <4>1, <4>2 DEF MemoryOK, Within
    <3>3. CASE ~Pending
      <4>1. rain_tot' = rain_tot
        BY <1>6, <2>1, <2>2, <2>6, <3>3 DEF UpdateField, Pending
      <4>2. Within(rain_tot, rtot_offset)
        BY <2>5, <3>3 DEF MemoryOK
      <4> QED
        BY <2>1, <2>4, <3>1, <4>1, <4>2 DEF MemoryOK, Within
    <3> QED
      BY <3>2, <3>3
  <2>7. CASE Len(todo) # 1
    <3>1. Head(todo).field # "RAINTOT"
      BY <1>1, <2>2, <2>7 DEF TodoOK
    <3>2. rain_tot' = rain_tot /\ ppc' = "update"
      BY <1>6, <2>7, <3>1 DEF UpdateField
    <3>3. todo'[Len(todo')] = todo[Len(todo)] /\ todo' # <<>>
      BY <2>2, <2>7
    <3>4. (Pending' <=> Pending) /\ NewTotal' = NewTotal
      BY <2>1, <3>3 DEF Pending, NewTotal
    <3> QED
      BY <2>1, <2>4, <2>5, <3>2, <3>4 DEF MemoryOK, Within
  <2> QED
    BY <2>6, <2>7
<1>7. CASE ReceiveOther
  <2>1. UNCHANGED <<station, memory, saved, todo, writer, torn>>
        /\ ppc = "idle" /\ ppc' = "signal"
    BY <1>7 DEF ReceiveOther
  <2> QED
    BY <1>1, <1>2, <2>1 DEF RainOK, TodoOK, MemoryOK, SavedOK, Within, Pending, NewTotal
<1>8. CASE Signal
  <2>1. UNCHANGED <<station, memory, saved, todo, rain, torn>>
        /\ ppc = "signal" /\ ppc' = "idle" /\ (wpc' = "insert" => wpc = "insert")
    BY <1>8 DEF Signal
  <2> QED
    BY <1>1, <1>2, <2>1 DEF RainOK, TodoOK, MemoryOK, SavedOK, Within, Pending, NewTotal
<1>9. CASE WaitForUpdate \/ SpuriousWakeup \/ NoWriteObs
  <2>1. UNCHANGED <<station, memory, saved, parser, rain, torn>> /\ wpc' # "insert"
    BY <1>9 DEF WaitForUpdate, SpuriousWakeup, NoWriteObs
  <2> QED
    BY <1>1, <1>2, <2>1 DEF RainOK, MemoryOK, SavedOK, Within, Pending, NewTotal
<1>10. CASE Update
  <2>1. UNCHANGED <<station, rain_tot, rtot_offset, logged, parser>> /\ wpc' # "insert"
        /\ (torn' <=> torn \/ ("RAINTOT" \in Sent /\ Resetting))
        /\ (row' = Updated \/ row' = row)
    BY <1>10 DEF Update
  <2>2. SUFFICES ASSUME ~torn, "RAINTOT" \in Sent => ~Resetting
                 PROVE  MemoryOK' /\ SavedOK'
    BY <1>1, <2>1 DEF RainOK
  <2>3. MemoryOK'
    BY <1>2, <2>1, <2>2 DEF MemoryOK, Within, Pending, NewTotal
  <2>4. row' # NoRow => Within(row.rain_tot, row.rtot_offset) /\ row # NoRow
    BY <1>2, <2>1, <2>2 DEF SavedOK, Updated
  <2>5. "RAINTOT" \in Sent => Within(rain_tot, rtot_offset)
    BY <2>2, MemorySound
  <2>6. ASSUME row' # NoRow
        PROVE  Within(row'.rain_tot, row'.rtot_offset)
    <3>1. CASE row' = row
      BY <2>4, <2>6, <3>1
    <3>2. CASE row' = Updated
      BY <1>1, <2>4, <2>5, <2>6, <3>2, UpdatedTypes
    <3> QED
      BY <2>1, <3>1, <3>2
  <2>7. row' # NoRow => Within(row.rain_tot, row.rtot_offset)'
    BY <2>1, <2>6 DEF Within
  <2>8. SavedOK'
    BY <1>2, <2>1, <2>2, <2>7 DEF SavedOK
  <2> QED
    BY <2>3, <2>8
<1>11. CASE WriteObs
  <2>1. UNCHANGED <<station, memory, saved, parser>>
        /\ rain' = rain_tot + rtot_offset /\ (torn' <=> torn \/ Resetting)
    BY <1>11 DEF WriteObs
  <2>2. SUFFICES ASSUME ~torn, ~Resetting PROVE MemoryOK' /\ SavedOK'
    BY <1>1, <2>1 DEF RainOK
  <2>3. MemoryOK'
    BY <1>2, <2>1, <2>2 DEF MemoryOK, Within, Pending, NewTotal
  <2>4. rain' <= fallen'
    BY <1>1, <2>1, <2>2, MemorySound DEF Within
  <2>5. SavedOK'
    BY <1>2, <2>1, <2>2, <2>4 DEF SavedOK, Within
  <2> QED
    BY <2>3, <2>5
<1>12. CASE Insert
  <2>1. UNCHANGED <<station, memory, row, parser, torn>> /\ wpc = "insert" /\ wpc' = "top"
        /\ (logged' = rain \/ logged' = logged)
    BY <1>12 DEF Insert
  <2> QED
    BY <1>1, <1>2, <2>1 DEF RainOK, MemoryOK, SavedOK, Within, Pending, NewTotal
<1>13. CASE Crash \/ Reload
  <2>1. UNCHANGED <<station, saved, torn>> /\ Load /\ wpc' # "insert"
        /\ todo' = <<>> /\ ppc' = "idle"
    BY <1>1, <1>13 DEF Crash, Reload, TodoOK
  <2>2. ~Pending'
    BY <2>1 DEF Pending
  <2>3. SUFFICES ASSUME ~torn PROVE MemoryOK' /\ SavedOK'
    BY <1>1, <2>1 DEF RainOK
  <2>4. SavedOK'
    BY <1>2, <2>1, <2>3 DEF SavedOK, Within
  <2>5. Within(rain_tot', rtot_offset')
    <3>1. CASE LoadZero
      BY <1>1, <2>1, <3>1 DEF LoadZero, Within
    <3>2. CASE LoadRow
      BY <1>2, <2>1, <2>3, <3>2 DEF LoadRow, SavedOK
    <3> QED
      BY <2>1, <3>1, <3>2 DEF Load
  <2>6. Within(rain_tot, rtot_offset)'
    BY <2>1, <2>5 DEF Within
  <2> QED
    BY <2>1, <2>2, <2>4, <2>6 DEF MemoryOK
<1>14. CASE UNCHANGED vars
  BY <1>1, <1>2, <1>14 DEF vars, RainOK, MemoryOK, SavedOK, Within, Pending, NewTotal
<1> QED
  BY <1>3, <1>4, <1>5, <1>6, <1>7, <1>8, <1>9, <1>10, <1>11, <1>12, <1>13,
     <1>14 DEF Next, Parse, Write

LEMMA RainBounded == IInv => NeverOverReports
<1> SUFFICES ASSUME IInv, ~torn
             PROVE  /\ ~Resetting => rain_tot + rtot_offset <= fallen
                    /\ row # NoRow => row.rain_tot + row.rtot_offset <= fallen
                    /\ wpc = "insert" => rain <= fallen
                    /\ logged <= fallen
  BY DEF NeverOverReports
<1>1. TypeOK /\ SavedOK
  BY DEF IInv, RainOK
<1>2. ~Resetting => rain_tot + rtot_offset <= fallen
  BY <1>1, MemorySound DEF Within, TypeOK
<1>3. row # NoRow => row.rain_tot + row.rtot_offset <= fallen
  BY <1>1, RowTypes DEF SavedOK, Within
<1> QED
  BY <1>1, <1>2, <1>3 DEF SavedOK

\* Through resets of the station, restarts of the daemon and failed commands
\* wxd never makes up rain, in memory, in the database or in a row on its way
\* there (parse.c:258-265, dbif_pg.c:104-273 and 343-402), whatever blocks
\* and readings there are; a total used between the halves of a reset apart.
THEOREM RainNotMadeUp == Spec => []NeverOverReports
<1>1. Init => IInv
  BY TypesInit, RainInit DEF IInv
<1>2. IInv /\ [Next]_vars => IInv'
  BY TypesStep, RainStep DEF IInv
<1>3. Spec => []IInv
  BY <1>1, <1>2, PTL DEF Spec
<1> QED
  BY <1>3, RainBounded, PTL

----------------------------------------------------------------------------
(* Changes and their bits.                                                 *)

LEMMA FlagsInit == Init => ChangesAreFlagged
<1> SUFFICES ASSUME Init, row # NoRow PROVE ChangesAreFlagged
  BY DEF ChangesAreFlagged
<1>1. row = [obs |-> Zero, rain_tot |-> 0, rtot_offset |-> 0]
  BY DEF Init
<1> QED
  BY <1>1 DEF Init, ChangesAreFlagged

\* What a restart leaves different from the row is lost: the outdoor dew point
\* if it read the row, everything if it could not.
LEMMA LoadAgrees ==
    ASSUME Load, row # NoRow, row' = row
    PROVE  ChangesAreFlagged'
<1>1. CASE LoadRow
  <2>1. \A f \in Fields : row'.obs[f] # obs'[f] => f = "DEWOUT"
    BY <1>1 DEF LoadRow
  <2>2. \A f \in Fields : row'.obs[f] # obs'[f] => f \in lost'
    BY <1>1, <2>1 DEF LoadRow
  <2>3. rain_tot' = row'.rain_tot /\ rtot_offset' = row'.rtot_offset
    BY <1>1 DEF LoadRow
  <2> QED
    BY <2>2, <2>3 DEF ChangesAreFlagged
<1>2. CASE LoadZero
  <2>1. lost' = Fields \cup {"RAINTOT"}
    BY <1>2 DEF LoadZero
  <2> QED
    BY <2>1 DEF ChangesAreFlagged
<1> QED
  BY <1>1, <1>2 DEF Load

LEMMA FlagsStep ==
    TypeOK /\ TodoOK /\ ChangesAreFlagged /\ [Next]_vars => ChangesAreFlagged'
<1> SUFFICES ASSUME TypeOK, TodoOK, ChangesAreFlagged, [Next]_vars,
                    row' # NoRow
             PROVE  ChangesAreFlagged'
  BY DEF ChangesAreFlagged
<1> USE DEF station, memory, saved, parser, writer
<1>1. todo \in Seq(Todos) /\ Len(todo) \in Nat /\ rain_tot \in Nat
  BY DEF TypeOK, Todos
<1>2. CASE Fall \/ ResetCounter \/ ReceiveOther \/ Signal \/ WaitForUpdate
           \/ SpuriousWakeup \/ WriteObs \/ NoWriteObs \/ Insert \/ UNCHANGED vars
  <2>1. UNCHANGED <<obs, rain_tot, rtot_offset, ch_flag, row, lost>>
    BY <1>2 DEF Fall, ResetCounter, ReceiveOther, Signal, WaitForUpdate, SpuriousWakeup,
                WriteObs, NoWriteObs, Insert, vars
  <2>2. Resetting => Resetting'
    BY <1>2 DEF Fall, ResetCounter, ReceiveOther, Signal, WaitForUpdate, SpuriousWakeup,
                WriteObs, NoWriteObs, Insert, vars, Resetting
  <2> QED
    BY <2>1, <2>2 DEF ChangesAreFlagged
<1>3. CASE Receive
  <2>1. ~Resetting /\ UNCHANGED <<obs, rain_tot, rtot_offset, ch_flag, row, lost>>
    BY <1>3 DEF Receive, Resetting
  <2> QED
    BY <2>1 DEF ChangesAreFlagged
<1>4. CASE OffsetRain
  <2>1. ~Resetting /\ UNCHANGED <<obs, rain_tot, ch_flag, row, lost, todo>> /\ ppc' = "update"
    BY <1>4 DEF OffsetRain, Resetting
  <2>2. Pending
    BY <1>4 DEF OffsetRain, TodoOK
  <2>3. CASE NewTotal < rain_tot
    <3>1. Resetting'
      BY <2>1, <2>2, <2>3 DEF Resetting, Pending, NewTotal
    <3> QED
      BY <2>1, <3>1 DEF ChangesAreFlagged
  <2>4. CASE ~(NewTotal < rain_tot)
    <3>1. rtot_offset' = rtot_offset
      BY <1>4, <2>4 DEF OffsetRain, NewTotal
    <3> QED
      BY <2>1, <3>1 DEF ChangesAreFlagged
  <2> QED
    BY <2>3, <2>4
<1>5. CASE UpdateField
  <2> DEFINE f == Head(todo).field
             v == Head(todo).value
  <2>1. todo # <<>> /\ Head(todo) = todo[1] /\ todo' = Tail(todo)
    BY <1>1, <1>5, TodoParts DEF UpdateField, TodoOK
  <2>2. UNCHANGED <<rtot_offset, row, lost>> /\ ch_flag \subseteq ch_flag'
    BY <1>5 DEF UpdateField
  <2>3. \A g \in Fields : obs'[g] # obs[g] => g = f /\ f \in ch_flag'
    <3>1. CASE f = "RAINTOT"
      BY <1>5, <3>1 DEF UpdateField
    <3>2. CASE f # "RAINTOT"
      <4>1. obs' = [obs EXCEPT ![f] = v] /\ (v # obs[f] => f \in ch_flag')
        BY <1>5, <3>2 DEF UpdateField
      <4>2. obs \in [Fields -> Nat]
        BY DEF TypeOK
      <4> HIDE DEF f, v
      <4> QED
        BY <4>1, <4>2
    <3> QED
      BY <3>1, <3>2
  <2>4. rain_tot' # rain_tot => "RAINTOT" \in ch_flag'
    BY <1>5 DEF UpdateField
  <2>5. Resetting => Resetting' \/ "RAINTOT" \in ch_flag'
    <3> SUFFICES ASSUME Resetting PROVE Resetting' \/ "RAINTOT" \in ch_flag'
      OBVIOUS
    <3>1. CASE Len(todo) = 1
      <4>1. f = "RAINTOT" /\ v < rain_tot
        BY <2>1, <3>1 DEF Resetting
      <4>2. v # rain_tot
        <5>1. Head(todo) \in Todos
          BY <1>1, <2>1, TodoParts
        <5>2. v \in Nat
          BY <5>1 DEF Todos
        <5> QED
          BY <1>1, <4>1, <5>2
      <4> QED
        BY <1>5, <4>1, <4>2 DEF UpdateField
    <3>2. CASE Len(todo) # 1
      <4>1. Len(todo) \in Nat \ {0} /\ Tail(todo) # <<>> /\ Len(Tail(todo)) = Len(todo) - 1
            /\ \A i \in 1 .. Len(todo) - 1 : Tail(todo)[i] = todo[i + 1]
        BY <1>1, <2>1, <3>2, TodoParts
      <4>2. Tail(todo)[Len(Tail(todo))] = todo[Len(todo)]
        BY <3>2, <4>1
      <4>3. f # "RAINTOT"
        BY <2>1, <3>2, <4>1 DEF TodoOK
      <4>4. ppc' = "update" /\ rain_tot' = rain_tot
        BY <1>5, <3>2, <4>3 DEF UpdateField
      <4> QED
        BY <2>1, <4>1, <4>2, <4>4 DEF Resetting
    <3> QED
      BY <3>1, <3>2
  <2> HIDE DEF f, v
  <2> QED
    BY <2>2, <2>3, <2>4, <2>5 DEF ChangesAreFlagged
<1>6. CASE Update
  <2>1. UNCHANGED <<obs, rain_tot, rtot_offset, ppc, todo>> /\ ch_flag' = ch_flag \ Sent
    BY <1>6 DEF Update
  <2>2. Resetting' = Resetting
    BY <2>1 DEF Resetting
  <2>3. CASE row' = row /\ lost' = lost \cup Sent
    BY <2>1, <2>2, <2>3 DEF ChangesAreFlagged
  <2>4. CASE row' = Updated /\ lost' = lost \ Sent
    <3>1. row # NoRow
      BY <2>4 DEF Updated
    <3>2. /\ \A f \in Fields : row'.obs[f] = IF f \in Sent THEN obs[f] ELSE row.obs[f]
          /\ row'.rain_tot = IF "RAINTOT" \in Sent THEN rain_tot ELSE row.rain_tot
          /\ row'.rtot_offset = IF "RAINTOT" \in Sent THEN rtot_offset ELSE row.rtot_offset
      BY <2>4, <3>1 DEF Updated
    <3> QED
      BY <2>1, <2>2, <2>4, <3>1, <3>2 DEF ChangesAreFlagged
  <2> QED
    BY <1>6, <2>3, <2>4 DEF Update
<1>7. CASE Crash \/ Reload
  <2>1. Load /\ row' = row /\ row # NoRow
    BY <1>7 DEF Crash, Reload
  <2> QED
    BY <2>1, LoadAgrees
<1> QED
  BY <1>2, <1>3, <1>4, <1>5, <1>6, <1>7 DEF Next, Parse, Write

\* What memory has and the row has not is flagged to be saved, through every
\* interleaving of parser and writer, and across restarts and failing commands
\* (wxd.h:111-116, dbif_pg.c:104-226, 343-402); but for the halves of a reset,
\* and for what is lost: the fields of an UPDATE that failed, all of them after a
\* load that failed, the outdoor dew point after one that did not, each until
\* it is saved again.
THEOREM NoChangeForgotten == Spec => []ChangesAreFlagged
<1>1. Init => TypeOK /\ TodoOK /\ ChangesAreFlagged
  BY TypesInit, FlagsInit
<1>2. TypeOK /\ TodoOK /\ ChangesAreFlagged /\ [Next]_vars
        => (TypeOK /\ TodoOK /\ ChangesAreFlagged)'
  BY TypesStep, FlagsStep
<1>3. Spec => [](TypeOK /\ TodoOK /\ ChangesAreFlagged)
  BY <1>1, <1>2, PTL DEF Spec
<1> QED
  BY <1>3, PTL
=============================================================================
