--------------------------- MODULE CbufCallProofs ---------------------------
(***************************************************************************)
(* Theorems about what single calls of Cbuf may rely on: that a reader told *)
(* of end of file has had everything, that a lookahead sees what comes     *)
(* next, that a character given back comes next, and that the two mutexes  *)
(* taken in opposite orders are never asked for in a cycle.                *)
(***************************************************************************)
EXTENDS CbufProofs

USE CbufAssumption

----------------------------------------------------------------------------
(* Where a step takes the thread that makes it.                            *)

ReaderStep(r) == Call(r) \/ Remove(r) \/ Lookahead(r) \/ UngetTest(r) \/ UngetFlag(r) \/ UngetChar(r)

\* The steps of the program, one kind of thread at a time.
LEMMA StepIs ==
    ASSUME [Next]_vars
    PROVE  \/ \E w \in Writers : EnterLock(w) \/ Enter(w) \/ EofLoad(w) \/ EofStore(w)
           \/ \E r \in Readers : ReaderStep(r)
           \/ \E t \in Threads : SpuriousWakeup(t)
           \/ UNCHANGED vars
  BY DEF Next, Step, ReaderStep

\* A step of enter_cbuf moves its own thread, within the call or out of it,
\* and leaves to the readers what is theirs.
LEMMA WriterGoes ==
    ASSUME TypeOK, NEW w \in Writers, EnterLock(w) \/ Enter(w)
    PROVE  /\ \E l \in InEnter \cup {"w_idle"} : pc' = [pc EXCEPT ![w] = l]
           /\ pc[w] \in InEnter \cup {"w_idle"}
           /\ UNCHANGED <<refcnt, seen, head, removed, have_unget, ungetc, op, bytes, limit>>
<1> USE DEF Goto, InEnter, ring, unget, history
<1>1. CASE EnterLock(w)
  <2>1. PICK l \in {"w_done", "w_check"} : pc' = [pc EXCEPT ![w] = l]
    BY <1>1 DEF EnterLock
  <2> QED
    BY <1>1, <2>1 DEF EnterLock
<1>2. CASE EnterTail(w)
  <2>1. PICK l \in {"w_done", "w_check"} : pc' = [pc EXCEPT ![w] = l]
    BY <1>2 DEF EnterTail
  <2> QED
    BY <1>2, <2>1 DEF EnterTail
<1>3. CASE EnterCheck(w) \/ EnterWait(w) \/ EnterWake(w) \/ EnterPut(w) \/ EnterDone(w)
  <2>1. PICK l \in {"w_put", "w_full", "w_wait", "w_tail", "w_idle"} : pc' = [pc EXCEPT ![w] = l]
    <3>1. \/ Goto(w, "w_put") \/ Goto(w, "w_full") \/ Goto(w, "w_wait") \/ Goto(w, "w_tail")
          \/ Goto(w, "w_idle")
      BY <1>3 DEF EnterCheck, EnterWait, EnterWake, EnterPut, EnterDone
    <3> QED
      BY <3>1
  <2> QED
    BY <1>3, <2>1 DEF EnterCheck, EnterWait, EnterWake, EnterPut, EnterDone
<1> QED
  BY <1>1, <1>2, <1>3 DEF Enter

\* A reader's step moves its own thread, and leaves to the writers what is
\* theirs.
LEMMA ReaderGoes ==
    ASSUME NEW r \in Readers, ReaderStep(r)
    PROVE  /\ \E l \in ReaderPcs : pc' = [pc EXCEPT ![r] = l]
           /\ UNCHANGED <<refcnt, seen, tail, buf, entered, actual>>
<1> USE DEF Goto, ReaderPcs, ring, unget, history
<1>1. CASE Call(r) \/ UngetTest(r) \/ UngetFlag(r) \/ UngetChar(r)
  BY <1>1 DEF Call, UngetTest, UngetFlag, UngetChar
<1>2. CASE Lookahead(r)
  <2>1. PICK l \in {"l_out", "l_get", "l_empty", "l_check", "r_idle"} : pc' = [pc EXCEPT ![r] = l]
    BY <1>2 DEF Lookahead, LookCheck, LookRefcnt, LookGet, LookOut
  <2> QED
    BY <1>2, <2>1 DEF Lookahead, LookCheck, LookRefcnt, LookGet, LookOut
<1>3. CASE Remove(r)
  <2>1. PICK l \in ReaderPcs : pc' = [pc EXCEPT ![r] = l]
    <3>1. CASE CallLock(r)
      <4>1. PICK l \in {"l_check", "r_ungot", "r_check"} : pc' = [pc EXCEPT ![r] = l]
        <5>1. Goto(r, "l_check") \/ Goto(r, "r_ungot") \/ Goto(r, "r_check")
          BY <3>1 DEF CallLock
        <5> QED
          BY <5>1
      <4> QED
        BY <4>1
    <3>2. CASE \/ CallUngot(r) \/ RemoveCheck(r) \/ RemoveRefcnt(r) \/ RemoveWait(r) \/ RemoveWake(r)
               \/ ReadFirst(r) \/ ReadScan(r) \/ RemoveGet(r) \/ RemoveHead(r) \/ RemoveOut(r)
      <4>1. PICK l \in InRemove \cup {"r_idle"} : pc' = [pc EXCEPT ![r] = l]
        <5>1. \/ Goto(r, "r_get") \/ Goto(r, "r_first") \/ Goto(r, "r_empty")
              \/ Goto(r, "r_signal") \/ Goto(r, "r_out") \/ Goto(r, "r_wait")
              \/ Goto(r, "r_head") \/ Goto(r, "r_check") \/ Goto(r, "r_scan") \/ Goto(r, "r_idle")
          BY <3>2 DEF CallUngot, RemoveCheck, RemoveRefcnt, RemoveWait, RemoveWake, ReadFirst, ReadScan,
             RemoveGet, RemoveHead, RemoveOut, ToCopy
        <5> QED
          BY <5>1 DEF InRemove
      <4> QED
        BY <4>1 DEF InRemove
    <3> QED
      BY <1>3, <3>1, <3>2 DEF Remove
  <2>2. UNCHANGED <<refcnt, seen, tail, buf, entered, actual>>
    BY <1>3 DEF Remove, CallLock, CallUngot, RemoveCheck, RemoveRefcnt, RemoveWait, RemoveWake, ReadFirst,
       ReadScan, RemoveGet, RemoveHead, RemoveOut
  <2> QED
    BY <2>1, <2>2
<1> QED
  BY <1>1, <1>2, <1>3 DEF ReaderStep

----------------------------------------------------------------------------
(* End of file.                                                            *)

\* The writers that have not stored their refcnt-- yet.
Live == {w \in Writers : pc[w] # "w_ended"}

\* A decrement that is lost leaves refcnt too high, never too low: what it
\* holds, and what each writer has loaded, covers the writers still live.
RefcntOK == /\ Cardinality(Live) <= refcnt
            /\ \A w \in Writers : pc[w] = "w_eof" => Cardinality(Live) <= seen[w]

\* The number of live writers, before and after one of them ends.
LEMMA LiveCounts ==
    /\ IsFiniteSet(Live) /\ Cardinality(Live) \in Nat
    /\ \A w \in Live : /\ IsFiniteSet(Live \ {w})
                       /\ Cardinality(Live \ {w}) = Cardinality(Live) - 1
    /\ Cardinality(Live) = 0 => Live = {}
<1>1. IsFiniteSet(Live)
  <2>1. Live \subseteq Writers /\ IsFiniteSet(Writers)
    BY DEF Live
  <2> QED
    BY <2>1, FS_Subset
<1>2. Cardinality(Live) \in Nat /\ (Cardinality(Live) = 0 => Live = {})
  BY <1>1, FS_CardinalityType, FS_EmptySet
<1> HIDE DEF Live
<1>3. \A w \in Live : /\ IsFiniteSet(Live \ {w})
                      /\ Cardinality(Live \ {w}) = Cardinality(Live) - 1
  BY <1>1, FS_RemoveElement
<1> QED
  BY <1>1, <1>2, <1>3

\* Nobody has ended when make_cbuf returns.
LEMMA InitRefcnt == Init => RefcntOK
<1> SUFFICES ASSUME Init PROVE RefcntOK
  OBVIOUS
<1>1. \A w \in Writers : pc[w] = "w_idle"
  BY DEF Init, Threads
<1>2. Live = Writers
  BY <1>1 DEF Live
<1>3. refcnt = Cardinality(Writers) /\ Cardinality(Writers) \in Nat
  BY FS_CardinalityType DEF Init
<1> QED
  BY <1>1, <1>2, <1>3 DEF RefcntOK

\* Every step keeps refcnt no lower than the writers that are left.
LEMMA NextRefcnt == TypeOK /\ RefcntOK /\ [Next]_vars => RefcntOK'
<1> SUFFICES ASSUME TypeOK, RefcntOK, [Next]_vars PROVE RefcntOK'
  OBVIOUS
<1> USE DEF Goto
<1>1. /\ pc \in [Threads -> WriterPcs \cup ReaderPcs]
      /\ refcnt \in Int /\ seen \in [Writers -> Int]
  BY DEF TypeOK
<1>2. /\ \A w \in Writers : w \in Threads /\ w \notin Readers
      /\ \A r \in Readers : r \in Threads /\ r \notin Writers
  BY DEF Threads
<1>3. Cardinality(Live) \in Nat
  BY LiveCounts
\* A step that no writer ends or loads refcnt with.
<1>4. ASSUME UNCHANGED <<refcnt, seen>>,
             \A w \in Writers : /\ pc'[w] = "w_ended" <=> pc[w] = "w_ended"
                                /\ pc'[w] = "w_eof" <=> pc[w] = "w_eof"
      PROVE  RefcntOK'
  <2>1. Live' = Live
    BY <1>4 DEF Live
  <2> QED
    BY <1>4, <2>1 DEF RefcntOK
<1>5. ASSUME NEW w \in Writers, EofLoad(w) PROVE RefcntOK'
  <2>1. /\ pc[w] = "w_idle" /\ pc' = [pc EXCEPT ![w] = "w_eof"] /\ refcnt' = refcnt
        /\ seen' = [seen EXCEPT ![w] = refcnt]
    BY <1>5 DEF EofLoad
  <2>2. Live' = Live
    BY <1>1, <1>2, <2>1 DEF Live
  <2> QED
    BY <1>1, <1>2, <2>1, <2>2 DEF RefcntOK
<1>6. ASSUME NEW w \in Writers, EofStore(w) PROVE RefcntOK'
  <2>1. /\ pc[w] = "w_eof" /\ pc' = [pc EXCEPT ![w] = "w_ended"] /\ seen' = seen
        /\ refcnt' = seen[w] - 1
    BY <1>6 DEF EofStore
  <2>2. w \in Live /\ Live' = Live \ {w}
    BY <1>1, <1>2, <2>1 DEF Live
  <2>3. Cardinality(Live') = Cardinality(Live) - 1
    BY <2>2, LiveCounts
  <2>4. \A v \in Writers : pc[v] = "w_eof" => Cardinality(Live) <= seen[v] /\ seen[v] \in Int
    BY <1>1 DEF RefcntOK
  <2>5. \A v \in Writers : pc'[v] = "w_eof" => pc[v] = "w_eof"
    BY <1>1, <1>2, <2>1
  <2>6. Cardinality(Live)' = Cardinality(Live) - 1
    BY <2>3
  <2>7. Cardinality(Live)' <= refcnt'
    BY <1>3, <2>1, <2>4, <2>6
  <2>8. ASSUME NEW v \in Writers, pc'[v] = "w_eof" PROVE Cardinality(Live)' <= seen'[v]
    BY <1>3, <2>1, <2>4, <2>5, <2>6, <2>8
  <2> QED
    BY <2>7, <2>8 DEF RefcntOK
<1>7. ASSUME NEW w \in Writers, EnterLock(w) \/ Enter(w) PROVE RefcntOK'
  <2>1. PICK l \in InEnter \cup {"w_idle"} : pc' = [pc EXCEPT ![w] = l]
    BY <1>7, WriterGoes
  <2>2. UNCHANGED <<refcnt, seen>> /\ pc[w] \in InEnter \cup {"w_idle"}
    BY <1>7, WriterGoes
  <2> QED
    BY <1>1, <1>2, <1>4, <2>1, <2>2 DEF InEnter
<1>8. ASSUME NEW r \in Readers, ReaderStep(r) PROVE RefcntOK'
  <2>1. PICK l \in ReaderPcs : pc' = [pc EXCEPT ![r] = l]
    BY <1>8, ReaderGoes
  <2>2. UNCHANGED <<refcnt, seen>>
    BY <1>8, ReaderGoes
  <2> QED
    BY <1>1, <1>2, <1>4, <2>1, <2>2
<1>9. ASSUME NEW t \in Threads, SpuriousWakeup(t) PROVE RefcntOK'
  BY <1>4, <1>9 DEF SpuriousWakeup
<1>10. CASE UNCHANGED vars
  BY <1>4, <1>10 DEF vars
<1> QED
  BY <1>5, <1>6, <1>7, <1>8, <1>9, <1>10, StepIs

\* A remove or a read that gives up because refcnt is zero leaves nothing
\* behind: no writer is left that could still owe it an item.
THEOREM EofIsDrained == Spec => EofOnlyWhenDrained
<1>1. ASSUME IInv, RefcntOK, [Next]_vars, NEW r \in Readers,
             pc[r] = "r_empty", pc'[r] = "r_out"
      PROVE  Empty
  <2>1. /\ pc \in [Threads -> WriterPcs \cup ReaderPcs] /\ r \in Threads /\ r \notin Writers
        /\ \A w \in Writers : w \in Threads
    BY <1>1 DEF IInv, TypeOK, Threads
  <2>2. RemoveRefcnt(r)
    <3>1. ASSUME NEW w \in Writers, EnterLock(w) \/ Enter(w) \/ EofLoad(w) \/ EofStore(w)
          PROVE  pc'[r] = pc[r]
      <4>1. PICK l : pc' = [pc EXCEPT ![w] = l]
        BY <1>1, <3>1, WriterGoes DEF IInv, EofLoad, EofStore, Goto
      <4> QED
        BY <2>1, <4>1
    <3>2. ASSUME NEW q \in Readers, ReaderStep(q), q # r PROVE pc'[r] = pc[r]
      BY <2>1, <3>2, ReaderGoes
    <3>3. ASSUME NEW t \in Threads, SpuriousWakeup(t) PROVE pc'[r] = pc[r]
      BY <3>3 DEF SpuriousWakeup
    <3>4. ASSUME UNCHANGED vars PROVE pc'[r] = pc[r]
      BY <3>4 DEF vars
    <3>5. ReaderStep(r)
      BY <1>1, <3>1, <3>2, <3>3, <3>4, StepIs
    <3> QED
      BY <1>1, <3>5 DEF ReaderStep, Remove, Lookahead, Call, CallLock, CallUngot, RemoveCheck, RemoveWait,
         RemoveWake, ReadFirst, ReadScan, RemoveGet, RemoveHead, RemoveOut, LookCheck,
         LookRefcnt, LookGet, LookOut, UngetTest, UngetFlag, UngetChar
  <2>3. refcnt = 0
    BY <1>1, <2>1, <2>2 DEF RemoveRefcnt, Goto
  <2>4. Live = {}
    <3>1. Cardinality(Live) \in Nat /\ Cardinality(Live) <= 0
      BY <1>1, <2>3, LiveCounts DEF RefcntOK
    <3> QED
      BY <3>1, LiveCounts
  <2>5. \A w \in Writers : ~OwesReaders(w)
    BY <2>4 DEF Live, OwesReaders
  <2> QED
    BY <1>1, <2>5 DEF IInv, FlagsOK, OwedOK, ReadersOwed
<1>2. IInv /\ RefcntOK /\ [Next]_vars
        => [\A r \in Readers : pc[r] = "r_empty" /\ pc'[r] = "r_out" => Empty]_vars
  BY <1>1
<1>3. Spec => []RefcntOK
  <2>1. Init => IInv /\ RefcntOK
    BY InitIInv, InitRefcnt
  <2>2. TypeOK /\ RefcntOK /\ [Next]_vars => RefcntOK'
    BY NextRefcnt
  <2>3. IInv => TypeOK
    BY DEF IInv
  <2> QED
    BY <2>1, <2>2, <2>3, Inductive, PTL DEF Spec
<1> QED
  BY <1>2, <1>3, Inductive, PTL DEF Spec, EofOnlyWhenDrained

----------------------------------------------------------------------------
(* Looking ahead.                                                          *)

\* Where a lookahead stands: past the items it has stored, which are the next
\* to be removed, and never past the last one entered.
LookAt(r) ==
    /\ pc[r] = "r_lock" => bytes[r] = <<>>
    /\ ~stale /\ pc[r] \in InLook =>
        /\ Len(bytes[r]) <= entered - Taken
        /\ pc[r] = "l_get" => Len(bytes[r]) < entered - Taken
        /\ j[r] = (Taken + Len(bytes[r]) + 1) % N
        /\ \A i \in DOMAIN bytes[r] : bytes[r][i] = Taken + i

LookOK == \A r \in Readers : LookAt(r)

\* What others do meanwhile: they only enter items.
LEMMA LookKept ==
    ASSUME NEW r \in Readers, LookAt(r),
           pc'[r] = pc[r], bytes'[r] = bytes[r], j'[r] = j[r], stale => stale',
           bytes[r] \in Seq(Values), entered \in Nat, Taken \in Nat,
           pc[r] \in InLook => removed' = removed /\ entered' \in {entered, entered + 1}
    PROVE  LookAt(r)'
<1>1. CASE pc[r] \in InLook /\ ~stale'
  <2>1. /\ Taken' = Taken /\ ~stale /\ entered' \in Nat /\ entered <= entered'
    BY <1>1 DEF Taken
  <2>2. Len(bytes[r]) \in Nat
    OBVIOUS
  <2>3. /\ Len(bytes[r]) <= entered' - Taken
        /\ pc[r] = "l_get" => Len(bytes[r]) < entered' - Taken
    <3>1. /\ Len(bytes[r]) <= entered - Taken
          /\ pc[r] = "l_get" => Len(bytes[r]) < entered - Taken
      BY <1>1, <2>1 DEF LookAt
    <3> QED
      BY <2>1, <2>2, <3>1
  <2>4. /\ j[r] = (Taken + Len(bytes[r]) + 1) % N
        /\ \A i \in DOMAIN bytes[r] : bytes[r][i] = Taken + i
    BY <1>1, <2>1 DEF LookAt
  <2> QED
    BY <2>1, <2>3, <2>4 DEF LookAt
<1>2. CASE ~(pc[r] \in InLook /\ ~stale')
  BY <1>2 DEF LookAt
<1> QED
  BY <1>1, <1>2

\* lookahead_cbuf's own steps.
LEMMA LookSteps ==
    ASSUME IInv, RingOK, NEW r \in Readers, LookAt(r), Lookahead(r)
    PROVE  LookAt(r)'
<1> USE DEF Goto, Lookahead
<1>1. /\ pc \in [Threads -> WriterPcs \cup ReaderPcs] /\ r \in Threads /\ TypeOK
      /\ bytes \in [Readers -> Seq(Values)] /\ j \in [Threads -> Slots]
      /\ entered \in Nat /\ Taken \in Nat /\ Len(bytes[r]) \in Nat
  BY DEF IInv, TypeOK, Threads, Taken
<1>2. UNCHANGED <<entered, removed, stale, tail, head, buf>> /\ Taken' = Taken /\ pc[r] \in InLook
  BY DEF LookCheck, LookRefcnt, LookGet, LookOut, ring, history, Taken, InLook
<1>3. PICK l \in InLook \cup {"r_idle"} : pc' = [pc EXCEPT ![r] = l]
  BY DEF LookCheck, LookRefcnt, LookGet, LookOut, InLook
<1>4. pc'[r] # "r_lock"
  BY <1>1, <1>3 DEF InLook
<1>5. SUFFICES ASSUME ~stale PROVE LookAt(r)'
  BY <1>2, <1>4 DEF LookAt
<1>6. /\ Len(bytes[r]) <= entered - Taken /\ j[r] = (Taken + Len(bytes[r]) + 1) % N
      /\ \A i \in DOMAIN bytes[r] : bytes[r][i] = Taken + i
      /\ RingHoldsTheRest
  BY <1>2, <1>5 DEF LookAt, RingOK
<1>7. CASE LookCheck(r)
  <2>1. /\ UNCHANGED <<bytes, j>>
        /\ pc'[r] = "l_get" => Len(bytes[r]) # count[r] /\ j[r] # circ(tail + 1)
    BY <1>1, <1>7 DEF LookCheck
  <2>2. circ(tail + 1) = (entered + 1) % N
    BY <1>1, <1>5, <1>6, TestsMean
  <2>3. ASSUME Len(bytes[r]) = entered - Taken PROVE j[r] = circ(tail + 1)
    <3>1. Taken + Len(bytes[r]) + 1 = entered + 1
      BY <1>1, <2>3
    <3> QED
      BY <1>6, <2>2, <3>1
  <2>4. pc'[r] = "l_get" => Len(bytes[r]) < entered - Taken
    <3>1. pc'[r] = "l_get" => Len(bytes[r]) # entered - Taken
      BY <2>1, <2>3
    <3>2. Len(bytes[r]) <= entered - Taken /\ entered - Taken \in Int /\ Len(bytes[r]) \in Int
      BY <1>1, <1>6
    <3> QED
      BY <3>1, <3>2
  <2> QED
    BY <1>2, <1>4, <1>6, <2>1, <2>4 DEF LookAt
<1>8. CASE LookRefcnt(r) \/ LookOut(r)
  <2>1. UNCHANGED <<bytes, j>> /\ pc'[r] # "l_get"
    BY <1>1, <1>8 DEF LookRefcnt, LookOut
  <2> QED
    BY <1>2, <1>4, <1>6, <2>1 DEF LookAt
<1>9. CASE LookGet(r)
  <2>1. /\ pc[r] = "l_get" /\ pc'[r] # "l_get" /\ j'[r] = circ(j[r] + 1)
        /\ bytes'[r] = Append(bytes[r], buf[j[r]])
    BY <1>1, <1>9 DEF LookGet
  <2> DEFINE n == Len(bytes[r])
             k == Taken + n + 1
  <2>2. n \in Nat /\ k \in Int /\ n < entered - Taken
    BY <1>1, <1>5, <2>1 DEF LookAt, InLook
  <2>3. buf[j[r]] = k
    <3>1. k \in Taken + 1 .. entered
      BY <1>1, <2>2
    <3> QED
      BY <1>5, <1>6, <3>1 DEF RingHoldsTheRest, Taken
  <2>4. j'[r] = (k + 1) % N
    BY <1>6, <2>1, <2>2, CircStep
  <2>5. Len(bytes'[r]) = n + 1 /\ DOMAIN bytes'[r] = 1 .. n + 1
    BY <1>1, <2>1
  <2>6. ASSUME NEW i \in DOMAIN bytes'[r] PROVE bytes'[r][i] = Taken + i
    <3>1. CASE i = n + 1
      BY <1>1, <2>1, <2>3, <3>1
    <3>2. CASE i # n + 1
      <4>1. i \in 1 .. n /\ DOMAIN bytes[r] = 1 .. n
        BY <1>1, <2>2, <2>5, <3>2
      <4>2. bytes'[r][i] = bytes[r][i]
        BY <1>1, <2>1, <4>1
      <4> QED
        BY <1>6, <4>1, <4>2
    <3> QED
      BY <3>1, <3>2
  <2>7. Taken + Len(bytes'[r]) + 1 = k + 1 /\ Len(bytes'[r]) <= entered - Taken
    BY <1>1, <2>2, <2>5
  <2> QED
    BY <1>2, <1>4, <2>1, <2>4, <2>6, <2>7 DEF LookAt
<1> QED
  BY <1>7, <1>8, <1>9

\* Every step keeps the lookaheads where they stand.
LEMMA NextLook == IInv /\ RingOK /\ LookOK /\ [Next]_vars => LookOK'
<1> SUFFICES ASSUME IInv, RingOK, LookOK, [Next]_vars, NEW r \in Readers PROVE LookAt(r)'
  BY DEF LookOK
<1> USE DEF Goto
<1>1. /\ pc \in [Threads -> WriterPcs \cup ReaderPcs] /\ TypeOK /\ LocksOK /\ LookAt(r)
      /\ bytes \in [Readers -> Seq(Values)] /\ j \in [Threads -> Slots]
      /\ bytes[r] \in Seq(Values) /\ entered \in Nat /\ Taken \in Nat
  BY DEF IInv, TypeOK, Taken, LookOK
<1>2. /\ \A w \in Writers : w \in Threads /\ w \notin Readers
      /\ \A q \in Readers : q \in Threads /\ q \notin Writers
  BY DEF Threads
<1>3. ASSUME NEW w \in Writers, EnterLock(w) \/ Enter(w) \/ EofLoad(w) \/ EofStore(w)
      PROVE  LookAt(r)'
  <2>1. PICK l : pc' = [pc EXCEPT ![w] = l]
    BY <1>1, <1>3, WriterGoes DEF EofLoad, EofStore
  <2>2. /\ UNCHANGED <<bytes, removed>> /\ j'[r] = j[r] /\ (stale => stale')
        /\ entered' \in {entered, entered + 1}
    <3>1. UNCHANGED <<bytes, removed>>
      BY <1>3 DEF EofLoad, EofStore, EnterLock, Enter, EnterCheck, EnterWait, EnterWake,
         EnterPut, EnterTail, EnterDone, history
    <3>2. j'[r] = j[r]
      BY <1>1, <1>2, <1>3 DEF EofLoad, EofStore, EnterLock, Enter, EnterCheck, EnterWait,
         EnterWake, EnterPut, EnterTail, EnterDone
    <3>3. stale => stale'
      BY <1>3 DEF EofLoad, EofStore, EnterLock, Enter, EnterCheck, EnterWait, EnterWake,
         EnterPut, EnterTail, EnterDone, history
    <3>4. entered' = entered \/ entered' = entered + 1
      BY <1>3 DEF EofLoad, EofStore, EnterLock, Enter, EnterCheck, EnterWait, EnterWake,
         EnterPut, EnterTail, EnterDone, history
    <3> QED
      BY <3>1, <3>2, <3>3, <3>4
  <2> QED
    BY <1>1, <1>2, <2>1, <2>2, LookKept
<1>4. ASSUME NEW q \in Readers, ReaderStep(q), q # r PROVE LookAt(r)'
  <2>1. PICK l : pc' = [pc EXCEPT ![q] = l]
    BY <1>4, ReaderGoes
  <2>2. /\ bytes'[r] = bytes[r] /\ j'[r] = j[r] /\ (stale => stale') /\ entered' = entered
        /\ removed' # removed => pc[q] \in InRemove
    <3> USE DEF ReaderStep, Call, Lookahead, LookCheck, LookRefcnt, LookGet, LookOut,
       UngetTest, UngetFlag, UngetChar, Remove, CallLock, CallUngot, RemoveCheck, RemoveRefcnt, RemoveWait,
       RemoveWake, ReadFirst, ReadScan, RemoveGet, RemoveHead, RemoveOut, InRemove, history
    <3>1. bytes'[r] = bytes[r]
      BY <1>1, <1>4
    <3>2. j'[r] = j[r]
      BY <1>1, <1>2, <1>4
    <3>3. stale => stale'
      BY <1>4
    <3>4. entered' = entered
      BY <1>4
    <3>5. removed' # removed => pc[q] \in InRemove
      BY <1>4
    <3> QED
      BY <3>1, <3>2, <3>3, <3>4, <3>5
  <2>3. pc[r] \in InLook => removed' = removed
    BY <1>1, <1>4, <2>2 DEF LocksOK
  <2> QED
    BY <1>1, <1>2, <1>4, <2>1, <2>2, <2>3, LookKept
<1>5. CASE Call(r) \/ UngetTest(r) \/ UngetFlag(r) \/ UngetChar(r)
  BY <1>1, <1>2, <1>5 DEF Call, UngetTest, UngetFlag, UngetChar, LookAt, InLook
<1>6. CASE CallLock(r)
  <2>1. CASE op[r] = "lookahead"
    <3>1. /\ pc'[r] = "l_check" /\ bytes' = bytes /\ j'[r] = head
          /\ UNCHANGED <<entered, removed, stale>> /\ Taken' = Taken /\ bytes[r] = <<>>
      BY <1>1, <1>2, <1>6, <2>1 DEF CallLock, history, Taken, LookAt
    <3>2. ~stale => head = (Taken + 1) % N /\ Taken <= entered
      BY DEF RingOK, RingHoldsTheRest, Taken
    <3>3. Len(bytes[r]) = 0 /\ Taken + 0 + 1 = Taken + 1 /\ DOMAIN bytes[r] = {}
      BY <1>1, <3>1
    <3>4. ~stale => 0 <= entered - Taken
      BY <1>1, <3>2
    <3> QED
      BY <3>1, <3>2, <3>3, <3>4 DEF LookAt
  <2>2. CASE op[r] # "lookahead"
    <3>1. pc'[r] \in {"r_ungot", "r_check"}
      BY <1>1, <1>2, <1>6, <2>2 DEF CallLock
    <3> QED
      BY <3>1 DEF LookAt, InLook
  <2> QED
    BY <2>1, <2>2
<1>7. CASE Lookahead(r)
  BY <1>1, <1>7, LookSteps
<1>8. CASE \/ CallUngot(r) \/ RemoveCheck(r) \/ RemoveRefcnt(r) \/ RemoveWait(r)
           \/ RemoveWake(r) \/ ReadFirst(r) \/ ReadScan(r) \/ RemoveGet(r) \/ RemoveHead(r) \/ RemoveOut(r)
  <2>1. pc'[r] \in InRemove \cup {"r_idle"}
    BY <1>1, <1>2, <1>8 DEF CallUngot, RemoveCheck, RemoveRefcnt, RemoveWait, RemoveWake,
       ReadFirst, ReadScan, RemoveGet, RemoveHead, RemoveOut, ToCopy, InRemove
  <2> QED
    BY <2>1 DEF LookAt, InLook, InRemove
<1>9. ASSUME NEW t \in Threads, SpuriousWakeup(t) PROVE LookAt(r)'
  BY <1>1, <1>9, LookKept DEF SpuriousWakeup, history
<1>10. CASE UNCHANGED vars
  BY <1>1, <1>10, LookKept DEF vars
<1> QED
  BY <1>3, <1>4, <1>5, <1>6, <1>7, <1>8, <1>9, <1>10, StepIs DEF ReaderStep, Remove

\* Until a wake-up is stale, what a lookahead stores is what the next removes
\* will deliver, however many writers enter meanwhile.
THEOREM LookaheadIsRight == Spec => []LookaheadSeesNext
<1>1. Init => LookOK
  BY DEF Init, LookOK, LookAt, InLook, Threads
<1>2. IInv /\ RingOK /\ LookOK => LookaheadSeesNext
  BY DEF LookOK, LookAt, LookaheadSeesNext, InLook, Taken
<1> QED
  BY <1>1, <1>2, NextLook, RingInductive, PTL DEF Spec

----------------------------------------------------------------------------
(* Giving a character back.                                                *)

\* With a single reader: the ring holds no character that was given back, a
\* remove or a read has taken the one there was before it moves on, and so
\* the byte it keeps at its end replaces nothing.
UngotOK ==
    \A r \in Readers : Readers = {r} =>
        /\ have_unget /\ pc[r] # "u_char" => ungetc = Ungot
        /\ pc[r] \in InRemove \ {"r_ungot"} => ~have_unget
        /\ \A i \in DOMAIN bytes[r] : i # 1 => bytes[r][i] # Ungot

RingHasNoUngot == \A k \in Slots : buf[k] # Ungot

\* One item more, and not the one given back.
LEMMA AppendNotUngot ==
    ASSUME NEW s \in Seq(Values), NEW x \in Values, x # Ungot,
           \A i \in DOMAIN s : i # 1 => s[i] # Ungot
    PROVE  \A i \in DOMAIN Append(s, x) : i # 1 => Append(s, x)[i] # Ungot
<1> SUFFICES ASSUME NEW i \in DOMAIN Append(s, x), i # 1 PROVE Append(s, x)[i] # Ungot
  OBVIOUS
<1>1. CASE i = Len(s) + 1
  BY <1>1
<1>2. CASE i # Len(s) + 1
  <2>1. i \in 1 .. Len(s) /\ i \in DOMAIN s
    BY <1>2
  <2> QED
    BY <2>1
<1> QED
  BY <1>1, <1>2

\* Every step keeps the character given back where the next call finds it.
LEMMA NextUngot ==
    IInv /\ UngotOK /\ RingHasNoUngot /\ [Next]_vars => (UngotOK /\ RingHasNoUngot)'
<1> SUFFICES ASSUME IInv, UngotOK, RingHasNoUngot, [Next]_vars
             PROVE  UngotOK' /\ RingHasNoUngot'
  OBVIOUS
<1> USE DEF Goto
<1>1. /\ pc \in [Threads -> WriterPcs \cup ReaderPcs] /\ TypeOK
      /\ bytes \in [Readers -> Seq(Values)] /\ j \in [Threads -> Slots]
      /\ buf \in [Slots -> Values] /\ entered \in Nat /\ PositionsOK
      /\ have_unget \in BOOLEAN
  BY DEF IInv, TypeOK
<1>2. /\ \A w \in Writers : w \in Threads /\ w \notin Readers
      /\ \A q \in Readers : q \in Threads /\ q \notin Writers
  BY DEF Threads
<1>3. RingHasNoUngot'
  <2>1. ASSUME NEW w \in Writers, EnterPut(w) PROVE RingHasNoUngot'
    <3>1. buf' = [buf EXCEPT ![j[w]] = entered + 1] /\ entered + 1 # Ungot
      BY <1>1, <2>1 DEF EnterPut
    <3> QED
      BY <1>1, <3>1 DEF RingHasNoUngot
  <2>2. ASSUME buf' = buf PROVE RingHasNoUngot'
    BY <2>2 DEF RingHasNoUngot
  <2>3. ASSUME NEW w \in Writers, EnterLock(w) \/ Enter(w) \/ EofLoad(w) \/ EofStore(w)
        PROVE  EnterPut(w) \/ buf' = buf
    BY <2>3 DEF EnterLock, Enter, EofLoad, EofStore, EnterCheck, EnterWait, EnterWake,
       EnterTail, EnterDone, ring
  <2>4. ASSUME NEW r \in Readers, ReaderStep(r) PROVE buf' = buf
    BY <2>4, ReaderGoes
  <2>5. ASSUME NEW t \in Threads, SpuriousWakeup(t) PROVE buf' = buf
    BY <2>5 DEF SpuriousWakeup, ring
  <2>6. UNCHANGED vars => buf' = buf
    BY DEF vars
  <2> QED
    BY <2>1, <2>2, <2>3, <2>4, <2>5, <2>6, StepIs
<1>4. UngotOK'
  <2> SUFFICES ASSUME NEW r \in Readers, Readers = {r}
               PROVE  /\ have_unget' /\ pc'[r] # "u_char" => ungetc' = Ungot
                      /\ pc'[r] \in InRemove \ {"r_ungot"} => ~have_unget'
                      /\ \A i \in DOMAIN bytes'[r] : i # 1 => bytes'[r][i] # Ungot
    BY DEF UngotOK
  <2> DEFINE Goal == /\ have_unget' /\ pc'[r] # "u_char" => ungetc' = Ungot
                     /\ pc'[r] \in InRemove \ {"r_ungot"} => ~have_unget'
                     /\ \A i \in DOMAIN bytes'[r] : i # 1 => bytes'[r][i] # Ungot
  <2>1. /\ have_unget /\ pc[r] # "u_char" => ungetc = Ungot
        /\ pc[r] \in InRemove \ {"r_ungot"} => ~have_unget
        /\ \A i \in DOMAIN bytes[r] : i # 1 => bytes[r][i] # Ungot
        /\ bytes[r] \in Seq(Values) /\ r \in Threads /\ r \notin Writers
    BY <1>1, <1>2 DEF UngotOK
  <2>2. buf[j[r]] # Ungot /\ buf[j[r]] \in Values
    BY <1>1, <2>1 DEF RingHasNoUngot
  \* A step that takes, gives and keeps nothing.
  <2>3. ASSUME UNCHANGED <<have_unget, ungetc>>, bytes'[r] = bytes[r],
               pc'[r] \in InRemove \ {"r_ungot"} => pc[r] \in InRemove \ {"r_ungot"},
               pc[r] = "u_char" => pc'[r] = "u_char"
        PROVE  Goal
    BY <2>1, <2>3
  <2>4. ASSUME NEW w \in Writers, EnterLock(w) \/ Enter(w) \/ EofLoad(w) \/ EofStore(w)
        PROVE  Goal
    <3>1. PICK l : pc' = [pc EXCEPT ![w] = l]
      BY <1>1, <2>4, WriterGoes DEF EofLoad, EofStore
    <3>2. pc'[r] = pc[r]
      BY <1>1, <2>1, <3>1
    <3>3. UNCHANGED <<have_unget, ungetc, bytes>>
      BY <1>1, <2>4, WriterGoes DEF EofLoad, EofStore, unget
    <3> QED
      BY <2>3, <3>2, <3>3
  <2>5. CASE Call(r)
    <3>1. pc'[r] = "r_lock" /\ bytes'[r] = <<>> /\ UNCHANGED <<have_unget, ungetc>>
          /\ pc[r] = "r_idle"
      BY <1>1, <2>1, <2>5 DEF Call, unget
    <3> QED
      BY <2>1, <3>1 DEF InRemove
  <2>6. CASE CallLock(r)
    <3>1. UNCHANGED <<bytes, have_unget, ungetc>> /\ pc[r] = "r_lock"
      BY <2>6 DEF CallLock, unget
    <3>2. pc'[r] \in {"l_check", "r_ungot"} \/ ~have_unget
      BY <1>1, <2>1, <2>6 DEF CallLock
    <3> QED
      BY <2>1, <3>1, <3>2 DEF InRemove
  <2>16. CASE CallUngot(r)
    <3>1. bytes'[r] = <<ungetc>> /\ have_unget' = FALSE
      BY <1>1, <2>16 DEF CallUngot
    <3> QED
      BY <3>1
  <2>7. CASE RemoveGet(r) \/ LookGet(r)
    <3>1. /\ bytes'[r] = Append(bytes[r], buf[j[r]]) /\ UNCHANGED <<have_unget, ungetc>>
          /\ pc[r] # "u_char" /\ (pc'[r] \in InRemove => pc[r] \in InRemove \ {"r_ungot"})
      BY <1>1, <2>1, <2>7 DEF RemoveGet, LookGet, unget, InRemove
    <3>2. \A i \in DOMAIN bytes'[r] : i # 1 => bytes'[r][i] # Ungot
      BY <2>1, <2>2, <3>1, AppendNotUngot
    <3> QED
      BY <2>1, <3>1, <3>2
  <2>8. CASE RemoveOut(r)
    <3>1. pc[r] \in InRemove \ {"r_ungot"} /\ pc'[r] = "r_idle" /\ have_unget' = have_unget /\ bytes' = bytes
      BY <1>1, <2>1, <2>8 DEF RemoveOut, InRemove
    <3> QED
      BY <2>1, <3>1 DEF InRemove
  <2>9. CASE UngetTest(r) \/ UngetFlag(r) \/ UngetChar(r)
    <3>1. /\ \/ pc'[r] = "u_flag" /\ UNCHANGED <<have_unget, ungetc>> /\ ~have_unget
             \/ pc'[r] = "u_char"
             \/ pc'[r] = "r_idle" /\ ungetc' = Ungot
          /\ bytes' = bytes
      BY <1>1, <2>1, <2>9 DEF UngetTest, UngetFlag, UngetChar, unget
    <3> QED
      BY <2>1, <3>1 DEF InRemove
  <2>10. CASE \/ RemoveCheck(r) \/ RemoveRefcnt(r) \/ RemoveWait(r) \/ RemoveWake(r)
              \/ ReadFirst(r) \/ ReadScan(r) \/ RemoveHead(r)
    <3>1. UNCHANGED <<have_unget, ungetc, bytes>> /\ pc[r] \in InRemove \ {"r_ungot"}
      BY <2>10 DEF RemoveCheck, RemoveRefcnt, RemoveWait, RemoveWake, ReadFirst, ReadScan,
         RemoveHead, unget, InRemove
    <3> QED
      BY <2>3, <3>1 DEF InRemove
  <2>11. CASE LookCheck(r) \/ LookRefcnt(r) \/ LookOut(r)
    <3>1. /\ UNCHANGED <<have_unget, ungetc, bytes>> /\ pc[r] \in InLook
          /\ pc'[r] \in InLook \cup {"r_idle"}
      BY <1>1, <2>1, <2>11 DEF LookCheck, LookRefcnt, LookOut, unget, InLook
    <3> QED
      BY <2>3, <3>1 DEF InLook, InRemove
  <2>12. ASSUME NEW t \in Threads, SpuriousWakeup(t) PROVE Goal
    BY <2>3, <2>12 DEF SpuriousWakeup, unget
  <2>13. CASE UNCHANGED vars
    BY <2>3, <2>13 DEF vars
  <2>14. ASSUME NEW q \in Readers, ReaderStep(q) PROVE ReaderStep(r)
    BY <2>14
  <2>15. Goal
    BY <2>4, <2>5, <2>6, <2>7, <2>8, <2>9, <2>10, <2>11, <2>12, <2>13, <2>14, <2>16, StepIs
       DEF ReaderStep, Remove, Lookahead
  <2> QED
    BY <2>15
<1> QED
  BY <1>3, <1>4

\* With a single reader, a character given back is what the next remove or
\* read begins with, is delivered once, and is not overwritten before.
THEOREM UngotIsNext == Spec => []UngotComesNext
<1>1. Init => UngotOK /\ RingHasNoUngot
  <2>1. Init => RingHasNoUngot
    BY DEF Init, RingHasNoUngot
  <2>2. Init => UngotOK
    BY DEF Init, UngotOK, InRemove, Threads
  <2> QED
    BY <2>1, <2>2
<1>2. UngotOK => UngotComesNext
  BY DEF UngotOK, UngotComesNext
<1> QED
  BY <1>1, <1>2, NextUngot, Inductive, PTL DEF Spec

----------------------------------------------------------------------------
(* The mutexes taken in opposite orders.                                   *)

\* No call asks for as many items as the ring has slots.  Nothing in cbuf.c
\* checks it, and each half is needed: with a count of N on either side the two
\* mutexes can be asked for in a cycle (the run cbuf_whole_ring has one).
CountsFit == /\ \A c \in EnterCounts : c < N
             /\ "remove" \in ReaderOps => \A c \in RemoveCounts : c < N

\* How many items the indices say the ring holds.
Held == circ(tail + 1 - head)

\* circ() on the numbers it is given here.
LEMMA CircIs ==
    ASSUME NEW a \in Int, a >= -N, a <= N
    PROVE  circ(a) = IF a < 0 THEN a + N ELSE IF a = N THEN 0 ELSE a
<1>1. N % N = 0
  BY ModRound, ModRange
<1>2. a \in 0 .. N - 1 => a % N = a
  BY ModRange
<1>3. CASE a = N
  BY <1>1, <1>3 DEF circ
<1>4. CASE a # N
  BY <1>2, <1>4 DEF circ
<1> QED
  BY <1>3, <1>4

\* The code's tests in these terms, and its steps: tail++ adds one item at
\* most, head++ takes one at most.  It is so in every state, also after a
\* stale wake-up.
LEMMA HeldIs ==
    ASSUME TypeOK
    PROVE  /\ Held \in 0 .. N - 1
           /\ Empty <=> Held = 0
           /\ Full <=> Held = N - 1
           /\ tail' = circ(tail + 1) /\ head' = head => Held' \in Nat /\ Held' <= Held + 1
           /\ head' = circ(head + 1) /\ tail' = tail => Held' \in Nat /\ Held' >= Held - 1
<1>1. /\ head \in Int /\ 0 <= head /\ head < N
      /\ tail \in Int /\ 0 <= tail /\ tail < N
  BY DEF TypeOK, Slots
<1>2. /\ Held = IF tail + 1 - head < 0 THEN tail + 1 - head + N
                ELSE IF tail + 1 - head = N THEN 0 ELSE tail + 1 - head
      /\ circ(tail + 1) = IF tail + 1 = N THEN 0 ELSE tail + 1
      /\ circ(head + 1) = IF head + 1 = N THEN 0 ELSE head + 1
      /\ circ(head - 1) = IF head = 0 THEN N - 1 ELSE head - 1
  BY <1>1, CircIs DEF Held
<1>3. /\ Held \in 0 .. N - 1
      /\ Empty <=> Held = 0
      /\ Full <=> Held = N - 1
  BY <1>1, <1>2 DEF Empty, Full
<1>4. ASSUME tail' = circ(tail + 1), head' = head PROVE Held' \in Nat /\ Held' <= Held + 1
  <2>1. tail' \in Int /\ 0 <= tail' /\ tail' < N
    BY <1>1, <1>2, <1>4
  <2>2. Held' = IF tail' + 1 - head < 0 THEN tail' + 1 - head + N
                ELSE IF tail' + 1 - head = N THEN 0 ELSE tail' + 1 - head
    BY <1>1, <1>4, <2>1, CircIs DEF Held
  <2> QED
    BY <1>1, <1>2, <1>4, <2>1, <2>2
<1>5. ASSUME head' = circ(head + 1), tail' = tail PROVE Held' \in Nat /\ Held' >= Held - 1
  <2>1. head' \in Int /\ 0 <= head' /\ head' < N
    BY <1>1, <1>2, <1>5
  <2>2. Held' = IF tail + 1 - head' < 0 THEN tail + 1 - head' + N
                ELSE IF tail + 1 - head' = N THEN 0 ELSE tail + 1 - head'
    BY <1>1, <1>5, <2>1, CircIs DEF Held
  <2> QED
    BY <1>1, <1>2, <1>5, <2>1, <2>2
<1> QED
  BY <1>3, <1>4, <1>5

\* A loop that goes on has not had its count yet, and the counts are those
\* the operations are called with.
LoopsOK ==
    /\ \A w \in Writers :
        /\ pc[w] \in InEnter => count[w] \in EnterCounts
        /\ pc[w] \in {"w_check", "w_full", "w_wait", "w_put"} => actual[w] < count[w]
    /\ \A r \in Readers :
        /\ pc[r] \in {"r_lock", "r_ungot"} => bytes[r] = <<>>
        /\ pc[r] \notin {"r_idle", "u_flag", "u_char"} =>
             count[r] \in RemoveCounts /\ op[r] \in ReaderOps
        /\ Removing(r) =>
             /\ pc[r] \in {"r_check", "r_empty", "r_signal", "r_wait", "r_get"} =>
                  Len(bytes[r]) < count[r]
             /\ pc[r] = "r_head" => Len(bytes[r]) <= count[r]

\* Every step keeps the loops within their counts.
LEMMA NextLoops == TypeOK /\ LocalsOK /\ PositionsOK /\ LoopsOK /\ [Next]_vars => LoopsOK'
<1> SUFFICES ASSUME TypeOK, LocalsOK, PositionsOK, LoopsOK, [Next]_vars PROVE LoopsOK'
  OBVIOUS
<1> USE DEF Goto
<1>1. /\ pc \in [Threads -> WriterPcs \cup ReaderPcs]
      /\ count \in [Threads -> Nat] /\ actual \in [Writers -> Nat]
      /\ bytes \in [Readers -> Seq(Values)]
      /\ op \in [Readers -> {"remove", "read", "lookahead"}]
  BY DEF TypeOK
<1>2. /\ \A w \in Writers : w \in Threads /\ w \notin Readers
      /\ \A q \in Readers : q \in Threads /\ q \notin Writers
  BY DEF Threads
<1> DEFINE WriterLoop(w) ==
             /\ pc[w] \in InEnter => count[w] \in EnterCounts
             /\ pc[w] \in {"w_check", "w_full", "w_wait", "w_put"} => actual[w] < count[w]
           ReaderLoop(r) ==
             /\ pc[r] \in {"r_lock", "r_ungot"} => bytes[r] = <<>>
             /\ pc[r] \notin {"r_idle", "u_flag", "u_char"} =>
                  count[r] \in RemoveCounts /\ op[r] \in ReaderOps
             /\ Removing(r) =>
                  /\ pc[r] \in {"r_check", "r_empty", "r_signal", "r_wait", "r_get"} =>
                       Len(bytes[r]) < count[r]
                  /\ pc[r] = "r_head" => Len(bytes[r]) <= count[r]
<1>3. (\A w \in Writers : WriterLoop(w)) /\ (\A r \in Readers : ReaderLoop(r))
  BY DEF LoopsOK
<1>4. SUFFICES (\A w \in Writers : WriterLoop(w)') /\ (\A r \in Readers : ReaderLoop(r)')
  BY DEF LoopsOK
\* What a step leaves alone.
<1>5. ASSUME NEW w \in Writers, pc'[w] = pc[w], count'[w] = count[w], actual'[w] = actual[w]
      PROVE  WriterLoop(w)'
  BY <1>3, <1>5
<1>6. ASSUME NEW r \in Readers, pc'[r] = pc[r], count'[r] = count[r], bytes'[r] = bytes[r],
             op'[r] = op[r]
      PROVE  ReaderLoop(r)'
  BY <1>3, <1>6 DEF Removing
<1>7. ASSUME NEW w \in Writers, EnterLock(w) \/ Enter(w) \/ EofLoad(w) \/ EofStore(w)
      PROVE  \A r \in Readers : ReaderLoop(r)'
  <2>1. PICK l : pc' = [pc EXCEPT ![w] = l]
    BY <1>7, WriterGoes DEF EofLoad, EofStore
  <2>2. UNCHANGED <<bytes, op>>
    BY <1>7, WriterGoes DEF EofLoad, EofStore
  <2>3. \A t \in Threads : t # w => count'[t] = count[t]
    BY <1>1, <1>7 DEF EnterLock, Enter, EofLoad, EofStore, EnterCheck, EnterWait, EnterWake,
       EnterPut, EnterTail, EnterDone
  <2> QED
    BY <1>1, <1>2, <1>6, <2>1, <2>2, <2>3
<1>8. ASSUME NEW w \in Writers, EnterLock(w) \/ Enter(w) \/ EofLoad(w) \/ EofStore(w),
             NEW v \in Writers, v # w
      PROVE  WriterLoop(v)'
  <2>1. PICK l : pc' = [pc EXCEPT ![w] = l]
    BY <1>8, WriterGoes DEF EofLoad, EofStore
  <2>2. count'[v] = count[v] /\ actual'[v] = actual[v]
    BY <1>1, <1>2, <1>8 DEF EnterLock, Enter, EofLoad, EofStore, EnterCheck, EnterWait, EnterWake,
       EnterPut, EnterTail, EnterDone
  <2> QED
    BY <1>1, <1>2, <1>5, <1>8, <2>1, <2>2
<1>9. ASSUME NEW w \in Writers, EnterLock(w) \/ Enter(w) \/ EofLoad(w) \/ EofStore(w)
      PROVE  WriterLoop(w)'
  <2>1. CASE EnterLock(w)
    <3>1. PICK c \in EnterCounts : /\ count' = [count EXCEPT ![w] = c]
                                   /\ pc' = [pc EXCEPT ![w] = IF c = 0 THEN "w_done" ELSE "w_check"]
      BY <2>1 DEF EnterLock
    <3>2. actual'[w] = 0 /\ count'[w] = c /\ c \in Nat
      BY <1>1, <1>2, <2>1, <3>1 DEF EnterLock
    <3>3. pc'[w] = IF c = 0 THEN "w_done" ELSE "w_check"
      BY <1>1, <1>2, <3>1
    <3>4. c # 0 => 0 < c
      BY <3>2
    <3> QED
      BY <3>2, <3>3, <3>4
  <2>2. CASE EnterTail(w)
    <3>1. /\ UNCHANGED <<count, actual>> /\ pc[w] \in InEnter
          /\ pc'[w] = IF actual[w] < count[w] THEN "w_check" ELSE "w_done"
      BY <1>1, <1>2, <2>2 DEF EnterTail, InEnter
    <3> QED
      BY <1>3, <3>1
  <2>3. CASE EnterCheck(w) \/ EnterWait(w) \/ EnterWake(w)
    <3>1. /\ UNCHANGED <<count, actual>>
          /\ pc[w] \in {"w_check", "w_full", "w_wait"}
      BY <2>3 DEF EnterCheck, EnterWait, EnterWake
    <3> QED
      BY <1>3, <3>1 DEF InEnter
  <2>4. CASE EnterPut(w)
    <3>1. count' = count /\ pc[w] = "w_put" /\ pc'[w] = "w_tail"
      BY <1>1, <1>2, <2>4 DEF EnterPut
    <3> QED
      BY <1>3, <3>1 DEF InEnter
  <2>5. CASE EnterDone(w) \/ EofLoad(w) \/ EofStore(w)
    <3>1. pc'[w] \in {"w_idle", "w_eof", "w_ended"}
      BY <1>1, <1>2, <2>5 DEF EnterDone, EofLoad, EofStore
    <3> QED
      BY <3>1 DEF InEnter
  <2> QED
    BY <1>9, <2>1, <2>2, <2>3, <2>4, <2>5 DEF Enter
<1>10. ASSUME NEW r \in Readers, ReaderStep(r)
       PROVE  /\ \A w \in Writers : WriterLoop(w)'
              /\ \A q \in Readers : q # r => ReaderLoop(q)'
  <2>1. PICK l : pc' = [pc EXCEPT ![r] = l]
    BY <1>10, ReaderGoes
  <2>2. actual' = actual
    BY <1>10, ReaderGoes
  <2>3. /\ \A t \in Threads : t # r => count'[t] = count[t]
        /\ \A q \in Readers : q # r => bytes'[q] = bytes[q] /\ op'[q] = op[q]
    <3> USE DEF ReaderStep, Call, Lookahead, LookCheck, LookRefcnt, LookGet, LookOut,
       UngetTest, UngetFlag, UngetChar, Remove, CallLock, CallUngot, RemoveCheck, RemoveRefcnt, RemoveWait,
       RemoveWake, ReadFirst, ReadScan, RemoveGet, RemoveHead, RemoveOut
    <3>1. \A t \in Threads : t # r => count'[t] = count[t]
      BY <1>1, <1>10
    <3>2. \A q \in Readers : q # r => bytes'[q] = bytes[q]
      BY <1>1, <1>10
    <3>3. \A q \in Readers : q # r => op'[q] = op[q]
      BY <1>1, <1>10
    <3> QED
      BY <3>1, <3>2, <3>3
  <2> QED
    BY <1>1, <1>2, <1>5, <1>6, <2>1, <2>2, <2>3
<1>11. ASSUME NEW r \in Readers, ReaderStep(r) PROVE ReaderLoop(r)'
  <2>1. r \in Threads /\ ReaderLoop(r) /\ count[r] \in Nat /\ Len(bytes[r]) \in Nat
    BY <1>1, <1>2, <1>3
  <2>2. CASE Call(r)
    <3>1. PICK o \in ReaderOps \ {"unget"}, c \in RemoveCounts :
            op' = [op EXCEPT ![r] = o] /\ count' = [count EXCEPT ![r] = c]
      BY <2>2 DEF Call
    <3>2. pc'[r] = "r_lock" /\ bytes'[r] = <<>>
      BY <1>1, <2>1, <2>2 DEF Call
    <3> QED
      BY <1>1, <2>1, <3>1, <3>2
  <2>3. CASE CallLock(r) \/ CallUngot(r)
    <3>1. /\ UNCHANGED <<op, count>> /\ pc[r] \in {"r_lock", "r_ungot"} /\ count[r] > 0
          /\ pc'[r] \in {"l_check", "r_ungot", "r_out", "r_check"}
      BY <1>1, <2>1, <2>3 DEF CallLock, CallUngot, LocalsOK
    <3>2. Removing(r) /\ pc'[r] = "r_check" => Len(bytes'[r]) < count[r]
      <4>1. CASE CallLock(r)
        <5>1. bytes'[r] = <<>> /\ Len(<<>>) = 0
          BY <2>1, <4>1 DEF CallLock
        <5> QED
          BY <2>1, <3>1, <5>1
      <4>2. CASE CallUngot(r)
        <5>1. bytes'[r] = <<ungetc>> /\ Len(<<ungetc>>) = 1
          BY <1>1, <4>2 DEF CallUngot
        <5>2. Removing(r) /\ pc'[r] = "r_check" => count[r] # 1
          BY <1>1, <2>1, <4>2 DEF CallUngot
        <5> QED
          BY <2>1, <3>1, <5>1, <5>2
      <4> QED
        BY <2>3, <4>1, <4>2
    <3>3. pc'[r] = "r_ungot" => bytes'[r] = <<>>
      BY <1>1, <2>1, <2>3 DEF CallLock, CallUngot
    <3> QED
      BY <2>1, <3>1, <3>2, <3>3 DEF Removing
  <2>4. CASE RemoveGet(r)
    <3>1. /\ UNCHANGED <<op, count>> /\ pc[r] = "r_get" /\ pc'[r] = "r_head"
          /\ bytes'[r] = Append(bytes[r], buf[j[r]])
      BY <1>1, <2>1, <2>4 DEF RemoveGet
    <3>2. Len(bytes'[r]) = Len(bytes[r]) + 1
      BY <1>1, <3>1
    <3>3. Removing(r) => Len(bytes'[r]) <= count[r]
      BY <2>1, <3>1, <3>2
    <3> QED
      BY <2>1, <3>1, <3>3 DEF Removing
  <2>5. CASE RemoveHead(r)
    <3>1. /\ UNCHANGED <<op, count, bytes>> /\ pc[r] = "r_head"
          /\ pc'[r] \in {"r_out", "r_check", "r_scan"}
          /\ Removing(r) /\ pc'[r] = "r_check" => Len(bytes[r]) # count[r]
      BY <1>1, <2>1, <2>5 DEF RemoveHead
    <3>2. Removing(r) /\ pc'[r] = "r_check" => Len(bytes[r]) < count[r]
      BY <2>1, <3>1
    <3> QED
      BY <2>1, <3>1, <3>2 DEF Removing
  <2>6. CASE RemoveCheck(r) \/ RemoveRefcnt(r) \/ RemoveWait(r) \/ RemoveWake(r)
    <3>1. /\ UNCHANGED <<op, count, bytes>>
          /\ pc[r] \in {"r_check", "r_empty", "r_signal", "r_wait"}
          /\ pc'[r] \in {"r_get", "r_first", "r_empty", "r_signal", "r_out", "r_wait"}
      BY <1>1, <2>1, <2>6 DEF RemoveCheck, RemoveRefcnt, RemoveWait, RemoveWake, ToCopy
    <3> QED
      BY <2>1, <3>1 DEF Removing
  <2>7. CASE ReadFirst(r) \/ ReadScan(r)
    <3>1. UNCHANGED <<op, count, bytes>> /\ pc[r] \in {"r_first", "r_scan"} /\ ~Removing(r)
      BY <2>7 DEF ReadFirst, ReadScan, PositionsOK
    <3>2. pc'[r] \in {"r_get", "r_out"}
      BY <1>1, <2>1, <2>7 DEF ReadFirst, ReadScan
    <3> QED
      BY <2>1, <3>1, <3>2 DEF Removing
  <2>8. CASE RemoveOut(r) \/ Lookahead(r) \/ UngetTest(r) \/ UngetFlag(r) \/ UngetChar(r)
    <3>1. /\ UNCHANGED <<op, count>> /\ pc'[r] \in InLook \cup {"r_idle", "u_flag", "u_char"}
          /\ pc'[r] \in InLook => pc[r] \in InLook
      BY <1>1, <2>1, <2>8 DEF RemoveOut, Lookahead, LookCheck, LookRefcnt, LookGet, LookOut,
         UngetTest, UngetFlag, UngetChar, InLook
    <3> QED
      BY <2>1, <3>1 DEF Removing, InLook
  <2> QED
    BY <1>11, <2>2, <2>3, <2>4, <2>5, <2>6, <2>7, <2>8 DEF ReaderStep, Remove
<1>12. ASSUME UNCHANGED <<pc, count, actual, bytes, op>>
       PROVE  (\A w \in Writers : WriterLoop(w)') /\ (\A r \in Readers : ReaderLoop(r)')
  BY <1>3, <1>12 DEF Removing
<1>13. ASSUME NEW t \in Threads, SpuriousWakeup(t)
       PROVE  (\A w \in Writers : WriterLoop(w)') /\ (\A r \in Readers : ReaderLoop(r)')
  BY <1>12, <1>13 DEF SpuriousWakeup
<1>14. CASE UNCHANGED vars
  BY <1>12, <1>14 DEF vars
<1> HIDE DEF WriterLoop, ReaderLoop
<1> QED
  BY <1>7, <1>8, <1>9, <1>10, <1>11, <1>13, <1>14, StepIs

\* How much of what a call brings or takes the indices show.
Brought(w) == IF pc[w] = "w_tail" THEN actual[w] - 1 ELSE actual[w]
Gone(r)    == IF ~Removing(r) /\ pc[r] \in {"r_check", "r_empty", "r_signal", "r_wait"} THEN 0
              ELSE IF pc[r] = "r_head" THEN Len(bytes[r]) - 1 ELSE Len(bytes[r])

\* Beside a flag that is down there is no more than one call in progress can
\* have brought, or no less room than one can have made: so, with calls that
\* are smaller than the ring, both flags are never down.
FewHeld   == ~readable => \/ Held = 0
                          \/ \E w \in Writers : pc[w] \in InEnter /\ Held <= Brought(w)
MuchHeld  == ~writeable => \/ Held = N - 1
                           \/ \E r \in Readers : pc[r] \in InRemove /\ Held + Gone(r) >= N - 1
OneFlagUp == readable \/ writeable
CycleOK   == FewHeld /\ MuchHeld /\ OneFlagUp

\* Every step keeps this, if the calls fit.
LEMMA NextCycle ==
    ASSUME CountsFit
    PROVE  IInv /\ LoopsOK /\ CycleOK /\ [Next]_vars => CycleOK'
<1> SUFFICES ASSUME IInv, LoopsOK, CycleOK, [Next]_vars PROVE CycleOK'
  OBVIOUS
<1> USE DEF Goto
<1>1. /\ pc \in [Threads -> WriterPcs \cup ReaderPcs] /\ TypeOK /\ LocksOK /\ PositionsOK
      /\ LocalsOK /\ FlagsOK /\ OwedOK
      /\ count \in [Threads -> Nat] /\ actual \in [Writers -> Nat]
      /\ bytes \in [Readers -> Seq(Values)]
      /\ readable \in BOOLEAN /\ writeable \in BOOLEAN
      /\ op \in [Readers -> {"remove", "read", "lookahead"}]
  BY DEF IInv, TypeOK
<1>2. /\ \A w \in Writers : w \in Threads /\ w \notin Readers
      /\ \A q \in Readers : q \in Threads /\ q \notin Writers
  BY DEF Threads
<1>3. /\ Held \in Nat /\ Held <= N - 1 /\ (Empty <=> Held = 0) /\ (Full <=> Held = N - 1)
      /\ UNCHANGED <<head, tail>> => Held' = Held
  <2>1. Held \in 0 .. N - 1 /\ (Empty <=> Held = 0) /\ (Full <=> Held = N - 1)
    BY <1>1, HeldIs
  <2> QED
    BY <2>1 DEF Held
<1>4. /\ \A v, w \in Writers : pc[v] \in InEnter /\ pc[w] \in InEnter => v = w
      /\ \A q, r \in Readers : pc[q] \in InRemove /\ pc[r] \in InRemove => q = r
  BY <1>1 DEF LocksOK
<1>5. FewHeld /\ MuchHeld /\ OneFlagUp
  BY DEF CycleOK
\* What a writer's step leaves to the readers, and a reader's to the writers.
<1>6. ASSUME NEW w \in Writers, NEW l, pc' = [pc EXCEPT ![w] = l], UNCHANGED <<bytes, op>>,
             Held' = Held, writeable' = writeable
      PROVE  MuchHeld'
  <2>1. \A r \in Readers : pc'[r] = pc[r] /\ Gone(r)' = Gone(r)
    BY <1>1, <1>2, <1>6 DEF Gone, Removing
  <2> QED
    BY <1>5, <1>6, <2>1 DEF MuchHeld
<1>7. ASSUME NEW r \in Readers, NEW l, pc' = [pc EXCEPT ![r] = l], actual' = actual,
             Held' = Held, readable' = readable
      PROVE  FewHeld'
  <2>1. \A w \in Writers : pc'[w] = pc[w] /\ Brought(w)' = Brought(w)
    BY <1>1, <1>2, <1>7 DEF Brought
  <2> QED
    BY <1>5, <1>7, <2>1 DEF FewHeld
<1>8. ASSUME NEW w \in Writers, EnterLock(w) PROVE CycleOK'
  <2>1. PICK l \in InEnter \cup {"w_idle"} : pc' = [pc EXCEPT ![w] = l]
    BY <1>1, <1>8, WriterGoes
  <2>2. /\ UNCHANGED <<bytes, op, readable, writeable, head, tail>>
        /\ owner["writelock"] = NoOne
    BY <1>8 DEF EnterLock, ring, Free
  <2>3. \A v \in Writers : pc[v] \notin InEnter
    BY <1>1, <1>2, <2>2 DEF LocksOK
  <2>4. FewHeld'
    BY <1>3, <1>5, <2>2, <2>3 DEF FewHeld
  <2> QED
    BY <1>3, <1>5, <1>6, <2>1, <2>2, <2>4 DEF CycleOK, OneFlagUp
<1>9. ASSUME NEW w \in Writers, EnterCheck(w) PROVE CycleOK'
  <2>1. PICK l \in {"w_put", "w_full"} : pc' = [pc EXCEPT ![w] = l]
    BY <1>9 DEF EnterCheck
  <2>2. /\ UNCHANGED <<bytes, op, readable, actual, head, tail>> /\ pc[w] = "w_check"
        /\ writeable' = (j[w] # circ(head - 1))
    BY <1>9 DEF EnterCheck, ring
  <2>3. Held' = Held /\ pc[w] \in InEnter
    BY <1>3, <2>2 DEF InEnter
  <2>4. ~writeable' => Held = N - 1
    BY <1>1, <1>3, <2>2, <2>3 DEF PositionsOK, Full
  <2>5. FewHeld'
    <3>1. Brought(w)' = Brought(w) /\ pc'[w] \in InEnter
      BY <1>1, <1>2, <2>1, <2>2 DEF Brought, InEnter
    <3> QED
      BY <1>4, <1>5, <2>2, <2>3, <3>1 DEF FewHeld
  <2>6. ASSUME ~readable, Held = N - 1 PROVE FALSE
    <3>1. Held <= Brought(w)
      BY <1>3, <1>4, <1>5, <2>3, <2>6 DEF FewHeld
    <3>2. Brought(w) = actual[w] /\ actual[w] < count[w] /\ count[w] < N
      BY <2>2, <2>3 DEF Brought, LoopsOK, CountsFit
    <3>3. actual[w] \in Nat /\ count[w] \in Nat
      BY <1>1, <1>2
    <3> QED
      BY <2>6, <3>1, <3>2, <3>3
  <2> QED
    BY <2>2, <2>3, <2>4, <2>5, <2>6 DEF CycleOK, MuchHeld, OneFlagUp
<1>10. ASSUME NEW w \in Writers, EnterWait(w) PROVE CycleOK'
  <2>1. /\ pc' = [pc EXCEPT ![w] = "w_wait"]
        /\ UNCHANGED <<bytes, op, writeable, head, tail>> /\ readable' = TRUE
    BY <1>10 DEF EnterWait, ring
  <2> QED
    BY <1>3, <1>6, <2>1 DEF CycleOK, FewHeld, OneFlagUp
<1>11. ASSUME NEW w \in Writers, EnterWake(w) \/ EnterPut(w) PROVE CycleOK'
  <2>1. PICK l \in InEnter : pc' = [pc EXCEPT ![w] = l]
    BY <1>11 DEF EnterWake, EnterPut, InEnter
  <2>2. UNCHANGED <<bytes, op, readable, writeable, head, tail>> /\ pc[w] \in InEnter
    BY <1>11 DEF EnterWake, EnterPut, ring, InEnter
  <2>3. Brought(w)' = Brought(w)
    <3>1. CASE EnterWake(w)
      BY <1>1, <1>2, <3>1 DEF EnterWake, Brought
    <3>2. CASE EnterPut(w)
      BY <1>1, <1>2, <3>2 DEF EnterPut, Brought
    <3> QED
      BY <1>11, <3>1, <3>2
  <2>4. pc'[w] \in InEnter
    BY <1>1, <1>2, <2>1
  <2>5. FewHeld'
    BY <1>3, <1>4, <1>5, <2>2, <2>3, <2>4 DEF FewHeld
  <2> QED
    BY <1>3, <1>5, <1>6, <2>1, <2>2, <2>5 DEF CycleOK, OneFlagUp
<1>12. ASSUME NEW w \in Writers, EnterTail(w) PROVE CycleOK'
  <2>1. PICK l \in {"w_check", "w_done"} : pc' = [pc EXCEPT ![w] = l]
    BY <1>12 DEF EnterTail
  <2>2. /\ UNCHANGED <<readable, writeable, actual, head>> /\ pc[w] = "w_tail"
        /\ tail' = circ(tail + 1)
    BY <1>12 DEF EnterTail
  <2>3. writeable
    BY <1>1, <2>2 DEF FlagsOK
  <2>4. Held' \in Nat /\ Held' <= Held + 1
    BY <1>1, <2>2, HeldIs
  <2>5. Brought(w) = actual[w] - 1 /\ Brought(w)' = actual[w] /\ pc'[w] \in InEnter
    BY <1>1, <1>2, <2>1, <2>2 DEF Brought, InEnter
  <2>6. actual[w] \in Nat /\ actual[w] > 0
    BY <1>1, <2>2 DEF OwedOK, TailOwes
  <2>7. ~readable => Held <= actual[w] - 1
    BY <1>3, <1>4, <1>5, <2>2, <2>5, <2>6 DEF FewHeld, InEnter
  <2>8. ~readable => Held' <= Brought(w)'
    BY <1>3, <2>4, <2>5, <2>6, <2>7
  <2> QED
    BY <2>2, <2>3, <2>5, <2>8 DEF CycleOK, FewHeld, MuchHeld, OneFlagUp
<1>13. ASSUME NEW w \in Writers, EnterDone(w) PROVE CycleOK'
  <2>1. /\ pc' = [pc EXCEPT ![w] = "w_idle"] /\ pc[w] = "w_done"
        /\ UNCHANGED <<bytes, op, writeable, head, tail>>
        /\ readable' = TRUE \/ (readable' = readable /\ ~(actual[w] > 0))
    BY <1>13 DEF EnterDone, SignalReadable, ring
  <2>2. ASSUME readable' = readable, ~(actual[w] > 0), ~readable PROVE Held = 0
    <3>1. Held = 0 \/ Held <= Brought(w)
      BY <1>4, <1>5, <2>1, <2>2 DEF FewHeld, InEnter
    <3>2. Brought(w) = actual[w] /\ actual[w] \in Nat
      BY <1>1, <2>1 DEF Brought
    <3> QED
      BY <1>3, <2>2, <3>1, <3>2
  <2>3. FewHeld' /\ OneFlagUp'
    BY <1>3, <1>5, <2>1, <2>2 DEF FewHeld, OneFlagUp
  <2> QED
    BY <1>3, <1>6, <2>1, <2>3 DEF CycleOK
<1>14. ASSUME NEW w \in Writers, EofLoad(w) \/ EofStore(w) PROVE CycleOK'
  <2>1. PICK l \in {"w_eof", "w_ended"} : pc' = [pc EXCEPT ![w] = l]
    BY <1>14 DEF EofLoad, EofStore
  <2>2. /\ UNCHANGED <<bytes, op, readable, writeable, head, tail, actual>>
        /\ pc[w] \in {"w_idle", "w_eof"}
    BY <1>14 DEF EofLoad, EofStore, ring
  <2>3. \A v \in Writers : pc[v] \in InEnter => pc'[v] \in InEnter /\ Brought(v)' = Brought(v)
    BY <1>1, <1>2, <2>1, <2>2 DEF Brought, InEnter
  <2>4. FewHeld'
    BY <1>3, <1>5, <2>2, <2>3 DEF FewHeld
  <2> QED
    BY <1>3, <1>5, <1>6, <2>1, <2>2, <2>4 DEF CycleOK, OneFlagUp
\* A reader's step that leaves ring and flags alone, and has no less gone.
<1>15. ASSUME NEW r \in Readers, NEW l, pc' = [pc EXCEPT ![r] = l],
              UNCHANGED <<head, tail, readable, writeable, actual>>,
              \A q \in Readers : q # r => bytes'[q] = bytes[q] /\ op'[q] = op[q],
              pc[r] \in InRemove /\ ~writeable /\ Held + Gone(r) >= N - 1 =>
                 Held = N - 1 \/ (pc'[r] \in InRemove /\ Held + Gone(r)' >= N - 1)
       PROVE  CycleOK'
  <2>1. \A q \in Readers : q # r => pc'[q] = pc[q] /\ Gone(q)' = Gone(q)
    BY <1>1, <1>2, <1>15 DEF Gone, Removing
  <2>2. MuchHeld'
    BY <1>3, <1>5, <1>15, <2>1 DEF MuchHeld
  <2> QED
    BY <1>3, <1>5, <1>7, <1>15, <2>2 DEF CycleOK, OneFlagUp
<1>16. ASSUME NEW r \in Readers,
              \/ Call(r) \/ CallLock(r) \/ Lookahead(r)
              \/ UngetTest(r) \/ UngetFlag(r) \/ UngetChar(r)
       PROVE  CycleOK'
  <2>1. PICK l \in ReaderPcs : pc' = [pc EXCEPT ![r] = l]
    BY <1>16, ReaderGoes DEF ReaderStep, Remove
  <2>2. /\ UNCHANGED <<head, tail, readable, writeable, actual>> /\ pc[r] \notin InRemove
        /\ \A q \in Readers : q # r => bytes'[q] = bytes[q] /\ op'[q] = op[q]
    <3> USE DEF Call, CallLock, Lookahead, LookCheck, LookRefcnt, LookGet, LookOut, UngetTest,
       UngetFlag, UngetChar, ring, InRemove
    <3>1. UNCHANGED <<head, tail, readable, writeable, actual>> /\ pc[r] \notin InRemove
      BY <1>16
    <3>2. \A q \in Readers : q # r => bytes'[q] = bytes[q] /\ op'[q] = op[q]
      BY <1>1, <1>16
    <3> QED
      BY <3>1, <3>2
  <2> QED
    BY <1>15, <2>1, <2>2
<1>30. ASSUME NEW r \in Readers, CallUngot(r) PROVE CycleOK'
  <2>1. PICK l \in ReaderPcs : pc' = [pc EXCEPT ![r] = l]
    BY <1>30, ReaderGoes DEF ReaderStep, Remove
  <2>2. /\ UNCHANGED <<head, tail, readable, writeable, actual, op>> /\ pc[r] = "r_ungot"
        /\ \A q \in Readers : q # r => bytes'[q] = bytes[q]
    BY <1>1, <1>30 DEF CallUngot, ring
  <2>3. Gone(r) = 0
    <3>1. bytes[r] = <<>> /\ Len(<<>>) = 0
      BY <2>2 DEF LoopsOK
    <3> QED
      BY <2>2, <3>1 DEF Gone
  <2>4. Held + Gone(r) >= N - 1 => Held = N - 1
    BY <1>3, <2>3
  <2> QED
    BY <1>15, <2>1, <2>2, <2>4
<1>17. ASSUME NEW r \in Readers,
              \/ RemoveRefcnt(r) \/ RemoveWake(r) \/ ReadFirst(r) \/ ReadScan(r) \/ RemoveGet(r)
       PROVE  CycleOK'
  <2>1. PICK l \in ReaderPcs : pc' = [pc EXCEPT ![r] = l]
    BY <1>17, ReaderGoes DEF ReaderStep, Remove
  <2>2. UNCHANGED <<head, tail, readable, writeable, actual, op>>
    BY <1>17 DEF RemoveRefcnt, RemoveWake, ReadFirst, ReadScan, RemoveGet, ring
  <2>3. \A q \in Readers : q # r => bytes'[q] = bytes[q]
    BY <1>1, <1>17 DEF RemoveRefcnt, RemoveWake, ReadFirst, ReadScan, RemoveGet
  <2>4. pc'[r] \in InRemove /\ Gone(r) \in Nat /\ Gone(r)' \in Nat /\ Gone(r) <= Gone(r)'
    <3>1. Len(bytes[r]) \in Nat /\ r \in Threads
      BY <1>1, <1>2
    <3>2. CASE RemoveGet(r)
      <4>1. /\ pc[r] = "r_get" /\ pc'[r] = "r_head"
            /\ bytes'[r] = Append(bytes[r], buf[j[r]])
        BY <1>1, <3>1, <3>2 DEF RemoveGet
      <4>2. Len(bytes'[r]) = Len(bytes[r]) + 1
        BY <1>1, <4>1
      <4> QED
        BY <3>1, <4>1, <4>2 DEF Gone, InRemove
    <3>3. CASE RemoveRefcnt(r) \/ RemoveWake(r)
      <4>1. /\ bytes' = bytes /\ pc[r] \in {"r_empty", "r_wait"}
            /\ pc'[r] \in {"r_signal", "r_out", "r_get", "r_first", "r_empty"}
        BY <1>1, <3>1, <3>3 DEF RemoveRefcnt, RemoveWake, ToCopy
      <4> QED
        BY <2>2, <3>1, <4>1 DEF Gone, InRemove, Removing
    <3>4. CASE ReadFirst(r) \/ ReadScan(r)
      <4>1. /\ bytes' = bytes /\ pc[r] \in {"r_first", "r_scan"} /\ pc'[r] \in {"r_get", "r_out"}
        BY <1>1, <3>1, <3>4 DEF ReadFirst, ReadScan
      <4> QED
        BY <2>2, <3>1, <4>1 DEF Gone, InRemove, Removing
    <3> QED
      BY <1>17, <3>2, <3>3, <3>4
  <2>5. Held + Gone(r) >= N - 1 => Held + Gone(r)' >= N - 1
    BY <1>3, <2>4
  <2> QED
    BY <1>15, <2>1, <2>2, <2>3, <2>4, <2>5
<1>18. ASSUME NEW r \in Readers, RemoveCheck(r) PROVE CycleOK'
  <2>1. PICK l \in {"r_get", "r_first", "r_empty"} : pc' = [pc EXCEPT ![r] = l]
    BY <1>18 DEF RemoveCheck, ToCopy
  <2>2. /\ UNCHANGED <<head, tail, writeable, actual, bytes, op>> /\ pc[r] = "r_check"
        /\ readable' = (j[r] # circ(tail + 1))
    BY <1>18 DEF RemoveCheck, ring
  <2>3. Held' = Held /\ pc[r] \in InRemove /\ pc'[r] \in InRemove
    BY <1>1, <1>2, <1>3, <2>1, <2>2 DEF InRemove
  <2>4. ~readable' => Held = 0
    BY <1>1, <1>3, <2>2, <2>3 DEF PositionsOK, Empty
  <2>5. Len(bytes[r]) \in Nat /\ count[r] \in Nat
    BY <1>1, <1>2
  <2>6. Gone(r) \in Nat /\ Gone(r)' \in Nat /\ Gone(r) <= Gone(r)'
    BY <1>1, <1>2, <2>1, <2>2, <2>5 DEF Gone, Removing
  <2>7. ASSUME ~writeable, Held = 0 PROVE FALSE
    <3>1. Held + Gone(r) >= N - 1
      BY <1>4, <1>5, <2>3, <2>7 DEF MuchHeld
    <3>2. Removing(r) => Len(bytes[r]) < count[r] /\ count[r] < N
      BY <2>2 DEF LoopsOK, CountsFit, Removing
    <3>3. CASE Removing(r)
      <4>1. Gone(r) = Len(bytes[r])
        BY <2>2, <3>3 DEF Gone
      <4> QED
        BY <2>5, <2>7, <3>1, <3>2, <3>3, <4>1
    <3>4. CASE ~Removing(r)
      <4>1. Gone(r) = 0
        BY <2>2, <3>4 DEF Gone
      <4> QED
        BY <2>7, <3>1, <4>1
    <3> QED
      BY <3>3, <3>4
  <2>8. MuchHeld'
    <3>1. ASSUME ~writeable', Held # N - 1 PROVE pc'[r] \in InRemove /\ Held' + Gone(r)' >= N - 1
      <4>1. Held + Gone(r) >= N - 1
        BY <1>4, <1>5, <2>2, <2>3, <3>1 DEF MuchHeld
      <4> QED
        BY <1>3, <2>3, <2>6, <4>1
    <3> QED
      BY <2>3, <3>1 DEF MuchHeld
  <2> QED
    BY <2>2, <2>3, <2>4, <2>7, <2>8 DEF CycleOK, FewHeld, OneFlagUp
<1>19. ASSUME NEW r \in Readers, RemoveWait(r) PROVE CycleOK'
  <2>1. /\ UNCHANGED <<head, tail, readable, actual>> /\ writeable' = TRUE
        /\ pc' = [pc EXCEPT ![r] = "r_wait"]
    BY <1>19 DEF RemoveWait, ring
  <2> QED
    BY <1>3, <1>7, <2>1 DEF CycleOK, MuchHeld, OneFlagUp
<1>20. ASSUME NEW r \in Readers, RemoveHead(r) PROVE CycleOK'
  <2>1. PICK l \in {"r_out", "r_check", "r_scan"} : pc' = [pc EXCEPT ![r] = l]
    BY <1>20 DEF RemoveHead
  <2>2. /\ UNCHANGED <<tail, readable, writeable, actual, bytes, op>> /\ pc[r] = "r_head"
        /\ head' = circ(head + 1) /\ (Removing(r) \/ l # "r_check")
    BY <1>1, <1>2, <1>20, <2>1 DEF RemoveHead
  <2>3. readable /\ bytes[r] # <<>>
    BY <1>1, <2>2 DEF FlagsOK, LocalsOK
  <2>4. Held' \in Nat /\ Held' >= Held - 1
    BY <1>1, <2>2, HeldIs
  <2>5. Len(bytes[r]) \in Nat /\ Len(bytes[r]) > 0
    BY <1>1, <2>3
  <2>6. Gone(r) = Len(bytes[r]) - 1 /\ Gone(r)' = Len(bytes[r])
    BY <1>1, <1>2, <2>1, <2>2 DEF Gone, Removing
  <2>7. pc[r] \in InRemove /\ pc'[r] \in InRemove
    BY <1>1, <1>2, <2>1, <2>2 DEF InRemove
  <2>8. ASSUME ~writeable PROVE Held' + Gone(r)' >= N - 1
    <3>1. Held = N - 1 \/ Held + Gone(r) >= N - 1
      BY <1>4, <1>5, <2>7, <2>8 DEF MuchHeld
    <3> QED
      BY <1>3, <2>4, <2>5, <2>6, <3>1
  <2> QED
    BY <2>2, <2>3, <2>7, <2>8 DEF CycleOK, FewHeld, MuchHeld, OneFlagUp
<1>21. ASSUME NEW r \in Readers, RemoveOut(r) PROVE CycleOK'
  <2>1. /\ UNCHANGED <<head, tail, readable, actual, bytes, op>> /\ pc[r] = "r_out"
        /\ pc' = [pc EXCEPT ![r] = "r_idle"]
        /\ writeable' = TRUE \/ (writeable' = writeable /\ bytes[r] = <<>>)
    BY <1>21 DEF RemoveOut, SignalWriteable, ring
  <2>2. CASE writeable' = TRUE
    BY <1>3, <1>7, <2>1, <2>2 DEF CycleOK, MuchHeld, OneFlagUp
  <2>3. CASE writeable' = writeable /\ bytes[r] = <<>>
    <3>1. Gone(r) = 0
      BY <2>1, <2>3 DEF Gone
    <3>2. Held + Gone(r) >= N - 1 => Held = N - 1
      BY <1>3, <3>1
    <3> QED
      BY <1>15, <2>1, <2>3, <3>2
  <2> QED
    BY <2>1, <2>2, <2>3
<1>22. ASSUME UNCHANGED <<head, tail, readable, writeable, pc, actual, bytes, op>> PROVE CycleOK'
  BY <1>5, <1>22 DEF CycleOK, FewHeld, MuchHeld, OneFlagUp, Held, Brought, Gone, Removing
<1>23. ASSUME NEW t \in Threads, SpuriousWakeup(t) PROVE CycleOK'
  BY <1>22, <1>23 DEF SpuriousWakeup, ring
<1>24. CASE UNCHANGED vars
  BY <1>22, <1>24 DEF vars
<1> QED
  BY <1>8, <1>9, <1>10, <1>11, <1>12, <1>13, <1>14, <1>16, <1>17, <1>30, <1>18, <1>19, <1>20, <1>21,
     <1>23, <1>24, StepIs DEF Enter, Remove, ReaderStep

\* So both hold always, if the calls fit.
LEMMA CycleInductive ==
    ASSUME CountsFit
    PROVE  Spec => [](IInv /\ LoopsOK /\ CycleOK)
<1>1. Init => LoopsOK /\ CycleOK
  <2> SUFFICES ASSUME Init PROVE LoopsOK /\ CycleOK
    OBVIOUS
  <2>1. /\ \A w \in Writers : pc[w] = "w_idle"
        /\ \A r \in Readers : pc[r] = "r_idle"
    BY DEF Init, Threads
  <2>2. LoopsOK
    BY <2>1 DEF LoopsOK, InEnter
  <2>3. TypeOK /\ Empty
    <3>1. circ(0 + 1) = 1
      BY ModRange DEF circ
    <3> QED
      BY <3>1, InitType DEF Init, Empty
  <2>4. Held = 0
    BY <2>3, HeldIs
  <2> QED
    BY <2>2, <2>4 DEF Init, CycleOK, FewHeld, MuchHeld, OneFlagUp
<1>2. IInv /\ LoopsOK /\ [Next]_vars => LoopsOK'
  BY NextLoops DEF IInv
<1>3. IInv /\ LoopsOK /\ CycleOK /\ [Next]_vars => CycleOK'
  BY NextCycle
<1> QED
  BY <1>1, <1>2, <1>3, Inductive, PTL DEF Spec

\* If no call asks for a whole ring or more, the mutex of the full buffer and
\* that of the empty one are never asked for in a cycle.  In wxd the parser's
\* reads of a block always fit; those of serial_reader do unless read() fills
\* its whole buffer of BSIZE bytes.
THEOREM NoCycle == CountsFit => (Spec => []NoLockCycle)
<1> SUFFICES ASSUME CountsFit PROVE Spec => []NoLockCycle
  OBVIOUS
<1>1. IInv /\ CycleOK => NoLockCycle
  BY DEF IInv, FlagsOK, CycleOK, OneFlagUp, NoLockCycle
<1> QED
  BY <1>1, CycleInductive, PTL

\* Nor, then, do the two sides ever sleep at the same time, however many
\* threads there are and whatever wakes them.
THEOREM OneSideAwake == CountsFit => (Spec => []NeverBothAsleep)
<1> SUFFICES ASSUME CountsFit PROVE Spec => []NeverBothAsleep
  OBVIOUS
<1>1. IInv /\ CycleOK => NeverBothAsleep
  BY DEF IInv, FlagsOK, CycleOK, OneFlagUp, NeverBothAsleep
<1> QED
  BY <1>1, CycleInductive, PTL
=============================================================================
