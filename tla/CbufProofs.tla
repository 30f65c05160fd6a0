----------------------------- MODULE CbufProofs -----------------------------
(***************************************************************************)
(* Theorems about Cbuf, for any number of threads, any size of the ring    *)
(* and any counts.                                                         *)
(***************************************************************************)
EXTENDS Cbuf, RingArith, FiniteSetTheorems, TLAPS

USE CbufAssumption

----------------------------------------------------------------------------
(* The ring's indices.                                                     *)

\* circ() brings every index the code computes back into the ring.
LEMMA CircSlot == \A a \in -1 .. N : circ(a) \in Slots
  BY ModRange DEF circ, Slots

\* So the slot after a slot, and the slot before it, are slots.
LEMMA CircSucc == \A k \in Slots : circ(k + 1) \in Slots /\ circ(k - 1) \in Slots
  BY CircSlot DEF Slots

----------------------------------------------------------------------------
(* Types.                                                                  *)

\* A reader's call asks for something, and stores a byte before it moves head.
LocalsOK ==
    \A r \in Readers : /\ pc[r] \notin {"r_idle", "u_flag", "u_char"} => count[r] > 0
                       /\ pc[r] = "r_head" => bytes[r] # <<>>

\* make_cbuf leaves every variable with its type.
LEMMA InitType == Init => TypeOK
<1> SUFFICES ASSUME Init PROVE TypeOK
  OBVIOUS
<1>1. Cardinality(Writers) \in Nat
  BY FS_CardinalityType
<1>2. 0 \in Slots /\ 1 \in Slots
  BY DEF Slots
<1> QED
  BY <1>1, <1>2 DEF Init, TypeOK, Threads, Values, WriterPcs, ReaderPcs

\* Where a thread goes is one of its program counters.
LEMMA WriterGoto ==
    ASSUME TypeOK, NEW w \in Writers, NEW l \in WriterPcs, Goto(w, l)
    PROVE  /\ pc' \in [Threads -> WriterPcs \cup ReaderPcs]
           /\ \A v \in Writers : pc'[v] \in WriterPcs
           /\ \A v \in Readers : pc'[v] \in ReaderPcs
<1>1. w \in Threads /\ w \notin Readers
  BY DEF Threads
<1>2. pc' = [pc EXCEPT ![w] = l]
  BY DEF Goto
<1> QED
  BY <1>1, <1>2 DEF TypeOK, Threads

\* The same for a reader.
LEMMA ReaderGoto ==
    ASSUME TypeOK, NEW r \in Readers, NEW l \in ReaderPcs, Goto(r, l)
    PROVE  /\ pc' \in [Threads -> WriterPcs \cup ReaderPcs]
           /\ \A v \in Writers : pc'[v] \in WriterPcs
           /\ \A v \in Readers : pc'[v] \in ReaderPcs
<1>1. r \in Threads /\ r \notin Writers
  BY DEF Threads
<1>2. pc' = [pc EXCEPT ![r] = l]
  BY DEF Goto
<1> QED
  BY <1>1, <1>2 DEF TypeOK, Threads

\* A mutex taken or released by a thread has a thread, or nobody, as owner.
LEMMA OwnerType ==
    ASSUME TypeOK, NEW l \in Locks, NEW t \in Threads \cup {NoOne},
           owner' = [owner EXCEPT ![l] = t] \/ owner' = owner
    PROVE  owner' \in [Locks -> Threads \cup {NoOne}]
  BY DEF TypeOK

\* A signal wakes threads that were waiting.
LEMMA WokenType ==
    ASSUME TypeOK, NEW T, NEW set \in Woken(T)
    PROVE  set \in SUBSET Threads
  BY DEF TypeOK, Woken

\* Where tail++, head++ and the calls' own index go is a slot.
LEMMA IndexType ==
    ASSUME TypeOK
    PROVE  /\ circ(tail + 1) \in Slots /\ circ(head + 1) \in Slots
           /\ \A t \in Threads : circ(j[t] + 1) \in Slots
  BY CircSucc DEF TypeOK

\* What every step leaves as it is keeps its type; each action is looked at
\* for what it changes.
LEMMA NextType == TypeOK /\ LocalsOK /\ [Next]_vars => TypeOK'
<1> SUFFICES ASSUME TypeOK, LocalsOK, [Next]_vars PROVE TypeOK'
  OBVIOUS
<1> USE DEF ring, unget, history
<1>w. \A w \in Writers : w \in Threads
  BY DEF Threads
<1>r. \A r \in Readers : r \in Threads
  BY DEF Threads
<1>l. /\ "writelock" \in Locks /\ "readlock" \in Locks
      /\ "readable_lock" \in Locks /\ "writeable_lock" \in Locks
  BY DEF Locks
<1>1. ASSUME NEW w \in Writers, EnterLock(w) PROVE TypeOK'
  <2>1. PICK c \in EnterCounts :
          /\ count' = [count EXCEPT ![w] = c]
          /\ Goto(w, IF c = 0 THEN "w_done" ELSE "w_check")
    BY <1>1 DEF EnterLock
  <2>2. owner' \in [Locks -> Threads \cup {NoOne}]
    BY <1>w, <1>l, <1>1, OwnerType DEF EnterLock
  <2>3. count' \in [Threads -> Nat] /\ j' \in [Threads -> Slots]
    BY <1>1, <1>w, <2>1, IndexType DEF EnterLock, TypeOK
  <2> QED
    BY <1>1, <2>1, <2>2, <2>3, WriterGoto DEF EnterLock, TypeOK, WriterPcs
<1>2. ASSUME NEW w \in Writers, EnterCheck(w) PROVE TypeOK'
  <2>1. owner' \in [Locks -> Threads \cup {NoOne}]
    BY <1>w, <1>l, <1>2, OwnerType DEF EnterCheck
  <2>2. Goto(w, "w_put") \/ Goto(w, "w_full")
    BY <1>2 DEF EnterCheck
  <2> QED
    BY <1>2, <2>1, <2>2, WriterGoto DEF EnterCheck, TypeOK, WriterPcs
<1>3. ASSUME NEW w \in Writers, EnterWait(w) PROVE TypeOK'
  <2>1. owner' \in [Locks -> Threads \cup {NoOne}]
    BY <1>l, <1>3, OwnerType DEF EnterWait
  <2>2. waiting' \in SUBSET Threads
    BY <1>3, <1>w, WokenType DEF EnterWait
  <2> QED
    BY <1>3, <2>1, <2>2, WriterGoto DEF EnterWait, TypeOK, WriterPcs
<1>4. ASSUME NEW w \in Writers, EnterWake(w) PROVE TypeOK'
  <2>1. owner' \in [Locks -> Threads \cup {NoOne}]
    BY <1>w, <1>l, <1>4, OwnerType DEF EnterWake
  <2>2. Goto(w, "w_put") \/ Goto(w, "w_full")
    BY <1>4 DEF EnterWake
  <2>3. stale' \in BOOLEAN
    BY <1>4 DEF EnterWake, TypeOK
  <2> QED
    BY <1>4, <2>1, <2>2, <2>3, WriterGoto DEF EnterWake, TypeOK, WriterPcs
<1>5. ASSUME NEW w \in Writers, EnterPut(w) PROVE TypeOK'
  <2>1. buf' \in [Slots -> Values] /\ actual' \in [Writers -> Nat]
    BY <1>5, <1>w DEF EnterPut, TypeOK, Values
  <2> QED
    BY <1>5, <2>1, WriterGoto DEF EnterPut, TypeOK, WriterPcs
<1>6. ASSUME NEW w \in Writers, EnterTail(w) PROVE TypeOK'
  <2>1. j' \in [Threads -> Slots] /\ tail' \in Slots /\ entered' \in Nat
    BY <1>6, <1>w, IndexType DEF EnterTail, TypeOK
  <2>2. Goto(w, "w_check") \/ Goto(w, "w_done")
    BY <1>6 DEF EnterTail
  <2> QED
    BY <1>6, <2>1, <2>2, WriterGoto DEF EnterTail, TypeOK, WriterPcs
<1>7. ASSUME NEW w \in Writers, EnterDone(w) PROVE TypeOK'
  <2>1. owner' \in [Locks -> Threads \cup {NoOne}]
    BY <1>l, <1>7, OwnerType DEF EnterDone
  <2>2. waiting' \in SUBSET Threads /\ readable' \in BOOLEAN
    BY <1>7, WokenType DEF EnterDone, SignalReadable, TypeOK
  <2> QED
    BY <1>7, <2>1, <2>2, WriterGoto DEF EnterDone, TypeOK, WriterPcs
<1>8. ASSUME NEW w \in Writers, EofLoad(w) PROVE TypeOK'
  BY <1>8, WriterGoto DEF EofLoad, TypeOK, WriterPcs
<1>9. ASSUME NEW w \in Writers, EofStore(w) PROVE TypeOK'
  BY <1>9, WriterGoto DEF EofStore, TypeOK, WriterPcs
<1>10. ASSUME NEW r \in Readers, Call(r) PROVE TypeOK'
  <2>1. PICK o \in {"remove", "read", "lookahead"}, c \in RemoveCounts :
          /\ op' = [op EXCEPT ![r] = o]
          /\ count' = [count EXCEPT ![r] = c]
          /\ reason' = IF o = "lookahead" THEN reason ELSE "NOTERM"
    BY <1>10 DEF Call
  <2>2. op' \in [Readers -> {"remove", "read", "lookahead"}]
    BY <2>1 DEF TypeOK
  <2>3. count' \in [Threads -> Nat] /\ reason' \in {"NOTERM", "TERM"}
    BY <2>1, <1>r DEF TypeOK
  <2>4. bytes' \in [Readers -> Seq(Values)] /\ limit' \in [Readers -> 0 .. N]
    BY <1>10 DEF Call, TypeOK
  <2> QED
    BY <1>10, <2>2, <2>3, <2>4, ReaderGoto DEF Call, TypeOK, ReaderPcs
<1>11. ASSUME NEW r \in Readers, CallLock(r) PROVE TypeOK'
  <2>1. owner' \in [Locks -> Threads \cup {NoOne}]
    BY <1>r, <1>l, <1>11, OwnerType DEF CallLock
  <2>2. j' \in [Threads -> Slots]
    BY <1>11, <1>r DEF CallLock, TypeOK
  <2>3. Goto(r, "l_check") \/ Goto(r, "r_ungot") \/ Goto(r, "r_check")
    BY <1>11 DEF CallLock
  <2> QED
    BY <1>11, <2>1, <2>2, <2>3, ReaderGoto DEF CallLock, TypeOK, ReaderPcs
<1>28. ASSUME NEW r \in Readers, CallUngot(r) PROVE TypeOK'
  <2>1. <<ungetc>> \in Seq(Values)
    BY DEF TypeOK
  <2>2. bytes' \in [Readers -> Seq(Values)] /\ have_unget' \in BOOLEAN
    BY <1>28, <2>1 DEF CallUngot, TypeOK
  <2>3. Goto(r, "r_out") \/ Goto(r, "r_check")
    BY <1>28 DEF CallUngot
  <2> QED
    BY <1>28, <2>2, <2>3, ReaderGoto DEF CallUngot, TypeOK, ReaderPcs
<1>12. ASSUME NEW r \in Readers, RemoveCheck(r) PROVE TypeOK'
  <2>1. owner' \in [Locks -> Threads \cup {NoOne}]
    BY <1>r, <1>l, <1>12, OwnerType DEF RemoveCheck
  <2>2. Goto(r, "r_get") \/ Goto(r, "r_first") \/ Goto(r, "r_empty")
    BY <1>12 DEF RemoveCheck, ToCopy
  <2> QED
    BY <1>12, <2>1, <2>2, ReaderGoto DEF RemoveCheck, TypeOK, ReaderPcs
<1>13. ASSUME NEW r \in Readers, RemoveRefcnt(r) PROVE TypeOK'
  <2>1. owner' \in [Locks -> Threads \cup {NoOne}]
    BY <1>l, <1>13, OwnerType DEF RemoveRefcnt
  <2> QED
    BY <1>13, <2>1, ReaderGoto DEF RemoveRefcnt, TypeOK, ReaderPcs
<1>14. ASSUME NEW r \in Readers, RemoveWait(r) PROVE TypeOK'
  <2>1. owner' \in [Locks -> Threads \cup {NoOne}]
    BY <1>l, <1>14, OwnerType DEF RemoveWait
  <2>2. waiting' \in SUBSET Threads
    BY <1>14, <1>r, WokenType DEF RemoveWait
  <2> QED
    BY <1>14, <2>1, <2>2, ReaderGoto DEF RemoveWait, TypeOK, ReaderPcs
<1>15. ASSUME NEW r \in Readers, RemoveWake(r) PROVE TypeOK'
  <2>1. owner' \in [Locks -> Threads \cup {NoOne}]
    BY <1>r, <1>l, <1>15, OwnerType DEF RemoveWake
  <2>2. Goto(r, "r_get") \/ Goto(r, "r_first") \/ Goto(r, "r_empty")
    BY <1>15 DEF RemoveWake, ToCopy
  <2>3. stale' \in BOOLEAN
    BY <1>15 DEF RemoveWake, TypeOK
  <2> QED
    BY <1>15, <2>1, <2>2, <2>3, ReaderGoto DEF RemoveWake, TypeOK, ReaderPcs
<1>16. ASSUME NEW r \in Readers, ReadFirst(r) PROVE TypeOK'
  <2>1. limit' \in [Readers -> 0 .. N]
    <3>1. PICK b \in {circ(tail + 1), N} : limit' = [limit EXCEPT ![r] = b]
      BY <1>16 DEF ReadFirst
    <3>2. b \in 0 .. N
      BY <3>1, IndexType DEF Slots
    <3> QED
      BY <3>1, <3>2 DEF TypeOK
  <2>2. Goto(r, "r_get") \/ Goto(r, "r_out")
    BY <1>16 DEF ReadFirst
  <2> QED
    BY <1>16, <2>1, <2>2, ReaderGoto DEF ReadFirst, TypeOK, ReaderPcs
<1>17. ASSUME NEW r \in Readers, ReadScan(r) PROVE TypeOK'
  <2>1. Goto(r, "r_get") \/ Goto(r, "r_out")
    BY <1>17 DEF ReadScan
  <2> QED
    BY <1>17, <2>1, ReaderGoto DEF ReadScan, TypeOK, ReaderPcs
<1>18. ASSUME NEW r \in Readers, RemoveGet(r) PROVE TypeOK'
  <2>1. bytes' \in [Readers -> Seq(Values)]
    BY <1>18, <1>r DEF RemoveGet, TypeOK
  <2> QED
    BY <1>18, <2>1, ReaderGoto DEF RemoveGet, TypeOK, ReaderPcs
<1>19. ASSUME NEW r \in Readers, RemoveHead(r) PROVE TypeOK'
  <2>1. bytes[r] \in Seq(Values) /\ bytes[r] # <<>>
    BY <1>19 DEF RemoveHead, LocalsOK, TypeOK
  <2>2. bytes[r][Len(bytes[r])] \in Values
    BY <2>1
  <2>3. removed' \in Seq(Values)
    BY <1>19, <2>2 DEF RemoveHead, TypeOK
  <2>4. j' \in [Threads -> Slots] /\ head' \in Slots
    BY <1>19, <1>r, IndexType DEF RemoveHead, TypeOK
  <2>5. Goto(r, "r_out") \/ Goto(r, "r_check") \/ Goto(r, "r_scan")
    BY <1>19 DEF RemoveHead
  <2>6. reason' \in {"NOTERM", "TERM"}
    BY <1>19 DEF RemoveHead, TypeOK
  <2> QED
    BY <1>19, <2>3, <2>4, <2>5, <2>6, ReaderGoto DEF RemoveHead, TypeOK, ReaderPcs
<1>20. ASSUME NEW r \in Readers, RemoveOut(r) PROVE TypeOK'
  <2>1. owner' \in [Locks -> Threads \cup {NoOne}]
    BY <1>l, <1>20, OwnerType DEF RemoveOut
  <2>2. waiting' \in SUBSET Threads /\ writeable' \in BOOLEAN
    BY <1>20, WokenType DEF RemoveOut, SignalWriteable, TypeOK
  <2>3. ungetc' \in Values
    <3>1. count[r] \in Nat \ {0}
      <4>1. count[r] \in Nat
        BY <1>r DEF TypeOK
      <4>2. pc[r] = "r_out"
        BY <1>20 DEF RemoveOut
      <4> QED
        BY <4>1, <4>2 DEF LocalsOK
    <3>2. bytes[r] \in Seq(Values) /\ Junk \in Values
      BY DEF TypeOK, Values
    <3>3. Len(bytes[r]) = count[r] => bytes[r][count[r]] \in Values
      BY <3>1, <3>2
    <3> QED
      BY <1>20, <3>2, <3>3 DEF RemoveOut
  <2> QED
    BY <1>20, <2>1, <2>2, <2>3, ReaderGoto DEF RemoveOut, TypeOK, ReaderPcs
<1>21. ASSUME NEW r \in Readers, LookCheck(r) \/ LookRefcnt(r) PROVE TypeOK'
  <2>1. Goto(r, "l_out") \/ Goto(r, "l_get") \/ Goto(r, "l_empty") \/ Goto(r, "l_check")
    BY <1>21 DEF LookCheck, LookRefcnt
  <2> QED
    BY <1>21, <2>1, ReaderGoto DEF LookCheck, LookRefcnt, TypeOK, ReaderPcs
<1>22. ASSUME NEW r \in Readers, LookGet(r) PROVE TypeOK'
  <2>1. bytes' \in [Readers -> Seq(Values)] /\ j' \in [Threads -> Slots]
    BY <1>22, <1>r, IndexType DEF LookGet, TypeOK
  <2> QED
    BY <1>22, <2>1, ReaderGoto DEF LookGet, TypeOK, ReaderPcs
<1>23. ASSUME NEW r \in Readers, LookOut(r) PROVE TypeOK'
  <2>1. owner' \in [Locks -> Threads \cup {NoOne}]
    BY <1>l, <1>23, OwnerType DEF LookOut
  <2> QED
    BY <1>23, <2>1, ReaderGoto DEF LookOut, TypeOK, ReaderPcs
<1>29. ASSUME NEW r \in Readers, UngetTest(r) PROVE TypeOK'
  BY <1>29, ReaderGoto DEF UngetTest, TypeOK, ReaderPcs
<1>24. ASSUME NEW r \in Readers, UngetFlag(r) PROVE TypeOK'
  BY <1>24, ReaderGoto DEF UngetFlag, TypeOK, ReaderPcs
<1>25. ASSUME NEW r \in Readers, UngetChar(r) PROVE TypeOK'
  BY <1>25, ReaderGoto DEF UngetChar, TypeOK, ReaderPcs, Values
<1>26. ASSUME NEW t \in Threads, SpuriousWakeup(t) PROVE TypeOK'
  BY <1>26 DEF SpuriousWakeup, TypeOK
<1>27. CASE UNCHANGED vars
  BY <1>27 DEF vars, TypeOK
<1> QED
  BY <1>1, <1>2, <1>3, <1>4, <1>5, <1>6, <1>7, <1>8, <1>9, <1>10, <1>11, <1>12,
     <1>13, <1>14, <1>15, <1>16, <1>17, <1>18, <1>19, <1>20, <1>21, <1>22,
     <1>23, <1>24, <1>25, <1>26, <1>27, <1>28, <1>29 DEF Next, Step, Enter, Remove, Lookahead

\* Only Call sets a reader's count, only Call, CallUngot, RemoveGet and LookGet
\* its bytes.
LEMMA NextLocals == TypeOK /\ LocalsOK /\ [Next]_vars => LocalsOK'
<1> SUFFICES ASSUME TypeOK, LocalsOK, [Next]_vars, NEW r \in Readers
             PROVE  /\ pc'[r] \notin {"r_idle", "u_flag", "u_char"} => count'[r] > 0
                    /\ pc'[r] = "r_head" => bytes'[r] # <<>>
  BY DEF LocalsOK
<1> USE DEF Goto
<1>1. r \in Threads /\ pc \in [Threads -> WriterPcs \cup ReaderPcs]
  BY DEF Threads, TypeOK
<1>2. count \in [Threads -> Nat] /\ bytes \in [Readers -> Seq(Values)]
  BY DEF TypeOK
<1>3. CASE UNCHANGED <<pc, count, bytes>>
  BY <1>3 DEF LocalsOK
<1>4. ASSUME NEW w \in Writers, EnterLock(w) \/ Enter(w) \/ EofLoad(w) \/ EofStore(w)
      PROVE  pc'[r] = pc[r] /\ count'[r] = count[r] /\ bytes' = bytes
  <2>1. w # r
    OBVIOUS
  <2> QED
    BY <1>1, <1>2, <1>4, <2>1 DEF EnterLock, Enter, EofLoad, EofStore,
       EnterCheck, EnterWait, EnterWake, EnterPut, EnterTail, EnterDone
<1>5. ASSUME NEW s \in Readers, Call(s) \/ Remove(s) \/ Lookahead(s) \/ UngetTest(s)
                                \/ UngetFlag(s) \/ UngetChar(s), s # r
      PROVE  pc'[r] = pc[r] /\ count'[r] = count[r] /\ bytes'[r] = bytes[r]
  BY <1>1, <1>2, <1>5 DEF Call, Remove, Lookahead, UngetTest, UngetFlag, UngetChar, CallLock, CallUngot,
     RemoveCheck, RemoveRefcnt, RemoveWait, RemoveWake, ReadFirst, ReadScan,
     RemoveGet, RemoveHead, RemoveOut, LookCheck, LookRefcnt, LookGet, LookOut
<1>6. CASE Call(r)
  <2>1. PICK c \in RemoveCounts : count' = [count EXCEPT ![r] = c]
    BY <1>6 DEF Call
  <2> QED
    BY <1>1, <1>2, <1>6, <2>1 DEF Call
<1>7. CASE RemoveGet(r)
  <2>1. bytes'[r] = Append(bytes[r], buf[j[r]])
    BY <1>2, <1>7 DEF RemoveGet
  <2>2. bytes'[r] # <<>>
    BY <1>2, <2>1
  <2> QED
    BY <1>1, <1>2, <1>7, <2>2 DEF RemoveGet, LocalsOK
<1>8. CASE \/ CallLock(r) \/ CallUngot(r) \/ RemoveCheck(r) \/ RemoveRefcnt(r) \/ RemoveWait(r)
           \/ RemoveWake(r) \/ ReadFirst(r) \/ ReadScan(r) \/ RemoveHead(r)
           \/ RemoveOut(r) \/ Lookahead(r) \/ UngetTest(r) \/ UngetFlag(r) \/ UngetChar(r)
  <2>1. count' = count /\ pc'[r] # "r_head"
    BY <1>1, <1>8 DEF Lookahead, UngetTest, UngetFlag, UngetChar, CallLock, CallUngot, RemoveCheck,
       RemoveRefcnt, RemoveWait, RemoveWake, ReadFirst, ReadScan, RemoveHead,
       RemoveOut, LookCheck, LookRefcnt, LookGet, LookOut, ToCopy
  <2>2. pc[r] \in {"r_idle", "u_flag", "u_char"} => pc'[r] \in {"r_idle", "u_flag", "u_char"}
    BY <1>1, <1>8 DEF Lookahead, UngetTest, UngetFlag, UngetChar, CallLock, CallUngot, RemoveCheck,
       RemoveRefcnt, RemoveWait, RemoveWake, ReadFirst, ReadScan, RemoveHead,
       RemoveOut, LookCheck, LookRefcnt, LookGet, LookOut
  <2> QED
    BY <2>1, <2>2 DEF LocalsOK
<1>9. ASSUME NEW t \in Threads, SpuriousWakeup(t) PROVE UNCHANGED <<pc, count, bytes>>
  BY <1>9 DEF SpuriousWakeup
<1>10. CASE UNCHANGED vars
  BY <1>3, <1>10 DEF vars
<1> QED
  BY <1>3, <1>4, <1>5, <1>6, <1>7, <1>8, <1>9, <1>10 DEF Next, Step, Remove, LocalsOK

\* The variables keep their types: no index of the code leaves the ring, and
\* each thread stays within its own operations.
THEOREM TypeCorrect == Spec => []TypeOK
<1>1. Init => TypeOK /\ LocalsOK
  <2>1. Init => LocalsOK
    BY DEF Init, LocalsOK, Threads
  <2> QED
    BY <2>1, InitType
<1>2. TypeOK /\ LocalsOK /\ [Next]_vars => (TypeOK /\ LocalsOK)'
  BY NextType, NextLocals
<1> QED
  BY <1>1, <1>2, PTL DEF Spec

----------------------------------------------------------------------------
(* Who holds which mutex.                                                  *)

InEnter == {"w_check", "w_full", "w_wait", "w_put", "w_tail", "w_done"}
InRemove == {"r_ungot", "r_check", "r_empty", "r_signal", "r_wait", "r_first", "r_scan",
             "r_get", "r_head", "r_out"}
InLook == {"l_check", "l_empty", "l_get", "l_out"}

\* A thread's program counter tells the mutexes it holds, and a thread that
\* sleeps is at one of the two waits.
LocksOK ==
    /\ owner["writelock"] \in Writers \cup {NoOne}
    /\ owner["readlock"] \in Readers \cup {NoOne}
    /\ \A w \in Writers : owner["writelock"] = w <=> pc[w] \in InEnter
    /\ \A r \in Readers : owner["readlock"] = r <=> pc[r] \in InRemove \cup InLook
    /\ \A t \in Threads : owner["writeable_lock"] = t <=> pc[t] = "w_full"
    /\ \A t \in Threads : owner["readable_lock"] = t <=> pc[t] \in {"r_empty", "r_signal"}
    /\ \A t \in waiting : pc[t] \in {"w_wait", "r_wait"}

\* Every step keeps program counters and mutexes in agreement: a mutex is only
\* taken when free, and given up where the call says.
LEMMA NextLocks == TypeOK /\ LocksOK /\ [Next]_vars => LocksOK'
<1> SUFFICES ASSUME TypeOK, LocksOK, [Next]_vars PROVE LocksOK'
  OBVIOUS
<1> USE DEF Goto, Free, InEnter, InRemove, InLook, LocksOK
<1>1. /\ pc \in [Threads -> WriterPcs \cup ReaderPcs]
      /\ \A w \in Writers : pc[w] \in WriterPcs
      /\ \A r \in Readers : pc[r] \in ReaderPcs
      /\ owner \in [Locks -> Threads \cup {NoOne}]
      /\ waiting \in SUBSET Threads
  BY DEF TypeOK
<1>2. /\ \A w \in Writers : w \in Threads /\ w \notin Readers /\ w # NoOne
      /\ \A r \in Readers : r \in Threads /\ r \notin Writers /\ r # NoOne
      /\ \A t \in Threads : t \in Writers \/ t \in Readers
  BY DEF Threads
<1>3. /\ "writelock" \in Locks /\ "readlock" \in Locks
      /\ "readable_lock" \in Locks /\ "writeable_lock" \in Locks
  BY DEF Locks
<1>4. ASSUME NEW w \in Writers, EnterLock(w) PROVE LocksOK'
  <2>1. PICK l \in {"w_done", "w_check"} : Goto(w, l)
    BY <1>4 DEF EnterLock
  <2> QED
    BY <1>1, <1>2, <1>3, <1>4, <2>1 DEF EnterLock
<1>5. ASSUME NEW w \in Writers, EnterCheck(w) PROVE LocksOK'
  BY <1>1, <1>2, <1>3, <1>5 DEF EnterCheck
<1>6. ASSUME NEW w \in Writers, EnterWait(w) PROVE LocksOK'
  BY <1>1, <1>2, <1>3, <1>6 DEF EnterWait, Woken
<1>7. ASSUME NEW w \in Writers, EnterWake(w) PROVE LocksOK'
  BY <1>1, <1>2, <1>3, <1>7 DEF EnterWake
<1>8. ASSUME NEW w \in Writers, EnterPut(w) \/ EnterTail(w) PROVE LocksOK'
  BY <1>1, <1>2, <1>3, <1>8 DEF EnterPut, EnterTail
<1>9. ASSUME NEW w \in Writers, EnterDone(w) PROVE LocksOK'
  BY <1>1, <1>2, <1>3, <1>9 DEF EnterDone, SignalReadable, Woken
<1>10. ASSUME NEW r \in Readers, CallLock(r) PROVE LocksOK'
  <2>1. PICK l \in {"l_check", "r_ungot", "r_check"} : pc' = [pc EXCEPT ![r] = l]
    <3>1. \/ pc' = [pc EXCEPT ![r] = "l_check"]
          \/ pc' = [pc EXCEPT ![r] = "r_ungot"]
          \/ pc' = [pc EXCEPT ![r] = "r_check"]
      BY <1>10 DEF CallLock
    <3> QED
      BY <3>1
  <2> QED
    BY <1>1, <1>2, <1>3, <1>10, <2>1 DEF CallLock
<1>11. ASSUME NEW r \in Readers, RemoveCheck(r) PROVE LocksOK'
  <2>1. PICK l \in {"r_get", "r_first", "r_empty"} :
          /\ Goto(r, l)
          /\ l # "r_empty" => owner' = owner
          /\ l = "r_empty" => owner' = [owner EXCEPT !["readable_lock"] = r]
    BY <1>11 DEF RemoveCheck, ToCopy
  <2> QED
    BY <1>1, <1>2, <1>3, <1>11, <2>1 DEF RemoveCheck
<1>12. ASSUME NEW r \in Readers, RemoveRefcnt(r) PROVE LocksOK'
  BY <1>1, <1>2, <1>3, <1>12 DEF RemoveRefcnt
<1>13. ASSUME NEW r \in Readers, RemoveWait(r) PROVE LocksOK'
  BY <1>1, <1>2, <1>3, <1>13 DEF RemoveWait, Woken
<1>14. ASSUME NEW r \in Readers, RemoveWake(r) PROVE LocksOK'
  <2>1. PICK l \in {"r_get", "r_first", "r_empty"} :
          /\ Goto(r, l)
          /\ l # "r_empty" => owner' = owner
          /\ l = "r_empty" => owner' = [owner EXCEPT !["readable_lock"] = r]
    BY <1>14 DEF RemoveWake, ToCopy
  <2> QED
    BY <1>1, <1>2, <1>3, <1>14, <2>1 DEF RemoveWake
<1>15. ASSUME NEW r \in Readers, RemoveOut(r) PROVE LocksOK'
  BY <1>1, <1>2, <1>3, <1>15 DEF RemoveOut, SignalWriteable, Woken
<1>16. ASSUME NEW r \in Readers,
              CallUngot(r) \/ ReadFirst(r) \/ ReadScan(r) \/ RemoveGet(r) \/ RemoveHead(r)
       PROVE  LocksOK'
  <2>1. PICK l \in {"r_get", "r_head", "r_scan", "r_check", "r_out"} : Goto(r, l)
    BY <1>16 DEF CallUngot, ReadFirst, ReadScan, RemoveGet, RemoveHead
  <2>2. /\ UNCHANGED <<owner, waiting>>
        /\ pc[r] \in {"r_ungot", "r_first", "r_scan", "r_get", "r_head"}
    BY <1>16 DEF CallUngot, ReadFirst, ReadScan, RemoveGet, RemoveHead
  <2> QED
    BY <1>1, <1>2, <1>3, <2>1, <2>2
<1>17. ASSUME NEW r \in Readers, LookCheck(r) \/ LookRefcnt(r) \/ LookGet(r)
       PROVE  LocksOK'
  <2>1. PICK l \in InLook : Goto(r, l)
    BY <1>17 DEF LookCheck, LookRefcnt, LookGet
  <2>2. UNCHANGED <<owner, waiting>> /\ pc[r] \in InLook
    BY <1>17 DEF LookCheck, LookRefcnt, LookGet
  <2> QED
    BY <1>1, <1>2, <1>3, <2>1, <2>2
<1>18. ASSUME NEW r \in Readers, LookOut(r) PROVE LocksOK'
  BY <1>1, <1>2, <1>3, <1>18 DEF LookOut
<1>19. ASSUME NEW t \in Threads, NEW l \in {"w_eof", "w_ended", "r_lock", "r_idle", "u_flag", "u_char"},
              pc[t] \in {"w_idle", "w_eof", "r_idle", "u_flag", "u_char"}, Goto(t, l),
              UNCHANGED <<owner, waiting>>
       PROVE  LocksOK'
  BY <1>1, <1>2, <1>3, <1>19
<1>20. ASSUME NEW w \in Writers, EofLoad(w) \/ EofStore(w) PROVE LocksOK'
  BY <1>2, <1>19, <1>20 DEF EofLoad, EofStore
<1>21. ASSUME NEW r \in Readers, Call(r) \/ UngetTest(r) \/ UngetFlag(r) \/ UngetChar(r)
       PROVE  LocksOK'
  BY <1>2, <1>19, <1>21 DEF Call, UngetTest, UngetFlag, UngetChar
<1>22. ASSUME NEW t \in Threads, SpuriousWakeup(t) PROVE LocksOK'
  BY <1>22 DEF SpuriousWakeup
<1>23. CASE UNCHANGED vars
  BY <1>23 DEF vars
<1> QED
  BY <1>4, <1>5, <1>6, <1>7, <1>8, <1>9, <1>10, <1>11, <1>12, <1>13, <1>14, <1>15,
     <1>16, <1>17, <1>18, <1>20, <1>21, <1>22, <1>23
     DEF Next, Step, Enter, Remove, Lookahead

----------------------------------------------------------------------------
(* Where a call stands in the ring.                                        *)

\* A writer inside enter_cbuf is at the slot after tail, a reader that removes
\* is at head.
PositionsOK ==
    /\ \A w \in Writers : pc[w] \in InEnter => j[w] = circ(tail + 1)
    /\ \A r \in Readers : /\ pc[r] \in InRemove => Moving(r) /\ j[r] = head
                          /\ pc[r] \in InLook => ~Moving(r)
                          /\ pc[r] \in {"r_first", "r_scan"} => ~Removing(r)

\* Every step keeps the calls where they stand: head and tail only move under
\* the mutex of the one call that moves them.
LEMMA NextPositions ==
    TypeOK /\ LocksOK /\ PositionsOK /\ [Next]_vars => PositionsOK'
<1> SUFFICES ASSUME TypeOK, LocksOK, PositionsOK, [Next]_vars PROVE PositionsOK'
  OBVIOUS
<1> USE DEF Goto, InEnter, InRemove, InLook, PositionsOK, Moving, Removing
<1>1. /\ pc \in [Threads -> WriterPcs \cup ReaderPcs]
      /\ j \in [Threads -> Slots]
      /\ op \in [Readers -> {"remove", "read", "lookahead"}]
  BY DEF TypeOK
<1>2. /\ \A w \in Writers : w \in Threads /\ w \notin Readers
      /\ \A r \in Readers : r \in Threads /\ r \notin Writers
  BY DEF Threads
\* With one thread at most inside each kind of call.
<1>3. \A v, w \in Writers : pc[v] \in InEnter /\ pc[w] \in InEnter => v = w
  BY DEF LocksOK
<1>4. \A q, r \in Readers : pc[q] \in InRemove /\ pc[r] \in InRemove => q = r
  BY DEF LocksOK
<1>5. ASSUME NEW w \in Writers, EnterLock(w) PROVE PositionsOK'
  <2>1. PICK l \in {"w_done", "w_check"} : Goto(w, l)
    BY <1>5 DEF EnterLock
  <2> QED
    BY <1>1, <1>2, <1>5, <2>1 DEF EnterLock, ring
<1>6. ASSUME NEW w \in Writers, EnterTail(w) PROVE PositionsOK'
  BY <1>1, <1>2, <1>3, <1>6 DEF EnterTail
<1>7. ASSUME NEW w \in Writers,
             \/ EnterCheck(w) \/ EnterWait(w) \/ EnterWake(w) \/ EnterPut(w)
             \/ EnterDone(w) \/ EofLoad(w) \/ EofStore(w)
      PROVE  PositionsOK'
  <2>1. UNCHANGED <<head, tail, j, op>>
    BY <1>7 DEF EnterCheck, EnterWait, EnterWake, EnterPut, EnterDone, EofLoad,
       EofStore, ring
  <2>2. PICK l \in WriterPcs : pc' = [pc EXCEPT ![w] = l] /\ (l \in InEnter => pc[w] \in InEnter)
    <3>1. \/ Goto(w, "w_put") /\ pc[w] \in InEnter
          \/ Goto(w, "w_full") /\ pc[w] \in InEnter
          \/ Goto(w, "w_wait") /\ pc[w] \in InEnter
          \/ Goto(w, "w_tail") /\ pc[w] \in InEnter
          \/ Goto(w, "w_idle") \/ Goto(w, "w_eof") \/ Goto(w, "w_ended")
      BY <1>7 DEF EnterCheck, EnterWait, EnterWake, EnterPut, EnterDone, EofLoad,
         EofStore
    <3> QED
      BY <3>1 DEF WriterPcs
  <2> QED
    BY <1>1, <1>2, <2>1, <2>2
<1>8. ASSUME NEW r \in Readers, Call(r) PROVE PositionsOK'
  <2>1. PICK o \in {"remove", "read", "lookahead"} : op' = [op EXCEPT ![r] = o]
    BY <1>8, CbufAssumption DEF Call
  <2>2. UNCHANGED <<head, tail, j>> /\ pc' = [pc EXCEPT ![r] = "r_lock"]
    BY <1>8 DEF Call, ring
  <2> QED
    BY <1>1, <1>2, <2>1, <2>2
<1>9. ASSUME NEW r \in Readers, CallLock(r) PROVE PositionsOK'
  <2>1. \/ pc' = [pc EXCEPT ![r] = "l_check"] /\ op[r] = "lookahead"
        \/ pc' = [pc EXCEPT ![r] = "r_ungot"] /\ op[r] # "lookahead"
        \/ pc' = [pc EXCEPT ![r] = "r_check"] /\ op[r] # "lookahead"
    BY <1>9 DEF CallLock
  <2>2. UNCHANGED <<head, tail, op>> /\ j' = [j EXCEPT ![r] = head]
    BY <1>9 DEF CallLock, ring
  <2> QED
    BY <1>1, <1>2, <2>1, <2>2
<1>10. ASSUME NEW r \in Readers, RemoveHead(r) PROVE PositionsOK'
  <2>1. PICK l \in InRemove : /\ pc' = [pc EXCEPT ![r] = l]
                              /\ l \in {"r_first", "r_scan"} => ~Removing(r)
    BY <1>10 DEF RemoveHead
  <2>2. /\ head' = circ(head + 1) /\ j' = [j EXCEPT ![r] = circ(@ + 1)]
        /\ UNCHANGED <<tail, op>> /\ pc[r] \in InRemove
    BY <1>10 DEF RemoveHead
  <2> QED
    BY <1>1, <1>2, <1>4, <2>1, <2>2
<1>11. ASSUME NEW r \in Readers,
              \/ CallUngot(r) \/ RemoveCheck(r) \/ RemoveRefcnt(r) \/ RemoveWait(r) \/ RemoveWake(r)
              \/ ReadFirst(r) \/ ReadScan(r) \/ RemoveGet(r) \/ RemoveOut(r)
       PROVE  PositionsOK'
  <2>1. UNCHANGED <<head, tail, j, op>> /\ pc[r] \in InRemove
    BY <1>11 DEF CallUngot, RemoveCheck, RemoveRefcnt, RemoveWait, RemoveWake, ReadFirst,
       ReadScan, RemoveGet, RemoveOut, ring
  <2>2. PICK l \in InRemove \cup {"r_idle"} : /\ pc' = [pc EXCEPT ![r] = l]
                                              /\ l \in {"r_first", "r_scan"} => ~Removing(r)
    BY <1>11 DEF CallUngot, RemoveCheck, RemoveRefcnt, RemoveWait, RemoveWake, ReadFirst,
       ReadScan, RemoveGet, RemoveOut, ToCopy
  <2> QED
    BY <1>1, <1>2, <2>1, <2>2
<1>12. ASSUME NEW r \in Readers, Lookahead(r) PROVE PositionsOK'
  <2>1. UNCHANGED <<head, tail, op>> /\ pc[r] \in InLook
    BY <1>12 DEF Lookahead, LookCheck, LookRefcnt, LookGet, LookOut, ring
  <2>2. PICK l \in InLook \cup {"r_idle"} : pc' = [pc EXCEPT ![r] = l]
    BY <1>12 DEF Lookahead, LookCheck, LookRefcnt, LookGet, LookOut
  <2>3. j' = j \/ j' = [j EXCEPT ![r] = circ(@ + 1)]
    BY <1>12 DEF Lookahead, LookCheck, LookRefcnt, LookGet, LookOut
  <2> QED
    BY <1>1, <1>2, <2>1, <2>2, <2>3
<1>13. ASSUME NEW r \in Readers, UngetTest(r) \/ UngetFlag(r) \/ UngetChar(r) PROVE PositionsOK'
  BY <1>1, <1>2, <1>13 DEF UngetTest, UngetFlag, UngetChar, ring
<1>14. ASSUME NEW t \in Threads, SpuriousWakeup(t) PROVE PositionsOK'
  BY <1>14 DEF SpuriousWakeup, ring
<1>15. CASE UNCHANGED vars
  BY <1>15 DEF vars
<1> QED
  BY <1>5, <1>6, <1>7, <1>8, <1>9, <1>10, <1>11, <1>12, <1>13, <1>14, <1>15
     DEF Next, Step, Enter, Remove

----------------------------------------------------------------------------
(* Wake-ups.                                                               *)

\* What the flags say while a call relies on them, and that nobody sleeps
\* beside a flag that is up.
FlagsOK ==
    /\ \A r \in Readers :
        /\ pc[r] \in {"r_first", "r_scan", "r_get", "r_head"} => readable
        /\ pc[r] \in {"r_empty", "r_signal"} => ~readable
        /\ r \in waiting => ~readable
    /\ \A w \in Writers :
        /\ pc[w] \in {"w_put", "w_tail"} => writeable
        /\ pc[w] = "w_full" => ~writeable
        /\ w \in waiting => ~writeable

\* One reader at most sleeps, and one writer: a signal wakes it.
LEMMA OneSleeps ==
    ASSUME TypeOK, LocksOK
    PROVE  /\ \A r \in Readers : r \in waiting => pc[r] = "r_wait"
           /\ \A w \in Writers : w \in waiting => pc[w] = "w_wait"
           /\ \A set \in Woken(Readers) : set = waiting \ Readers
           /\ \A set \in Woken(Writers) : set = waiting \ Writers
<1>1. ASSUME NEW r \in Readers, r \in waiting
      PROVE  pc[r] = "r_wait" /\ owner["readlock"] = r
  <2>1. pc[r] \in {"w_wait", "r_wait"} /\ pc[r] \in ReaderPcs
    BY <1>1 DEF LocksOK, TypeOK
  <2> QED
    BY <2>1 DEF LocksOK, InRemove, ReaderPcs
<1>2. ASSUME NEW w \in Writers, w \in waiting
      PROVE  pc[w] = "w_wait" /\ owner["writelock"] = w
  <2>1. pc[w] \in {"w_wait", "r_wait"} /\ pc[w] \in WriterPcs
    BY <1>2 DEF LocksOK, TypeOK
  <2> QED
    BY <2>1 DEF LocksOK, InEnter, WriterPcs
<1> QED
  BY <1>1, <1>2 DEF Woken

\* Every step keeps the flags true to the calls that rely on them: only the
\* holder of readlock clears readable, only the holder of writelock writeable.
LEMMA NextFlags ==
    TypeOK /\ LocksOK /\ FlagsOK /\ [Next]_vars => FlagsOK'
<1> SUFFICES ASSUME TypeOK, LocksOK, FlagsOK, [Next]_vars PROVE FlagsOK'
  OBVIOUS
<1> USE DEF Goto, FlagsOK
<1>1. /\ pc \in [Threads -> WriterPcs \cup ReaderPcs]
      /\ readable \in BOOLEAN /\ writeable \in BOOLEAN
      /\ waiting \in SUBSET Threads
  BY DEF TypeOK
<1>2. /\ \A w \in Writers : w \in Threads /\ w \notin Readers /\ w # NoOne
      /\ \A r \in Readers : r \in Threads /\ r \notin Writers /\ r # NoOne
  BY DEF Threads
\* The mutexes a thread needs at the steps that use the flags.
<1>3. /\ \A v, w \in Writers : pc[v] \in InEnter /\ pc[w] \in InEnter => v = w
      /\ \A q, r \in Readers : pc[q] \in InRemove /\ pc[r] \in InRemove => q = r
  BY DEF LocksOK
<1>4. /\ Free("writeable_lock") => \A w \in Writers : pc[w] # "w_full"
      /\ Free("readable_lock") => \A r \in Readers : pc[r] \notin {"r_empty", "r_signal"}
  BY <1>2 DEF LocksOK, Free
<1>5. /\ \A r \in Readers : r \in waiting => pc[r] = "r_wait"
      /\ \A w \in Writers : w \in waiting => pc[w] = "w_wait"
  BY OneSleeps
<1>6. ASSUME NEW w \in Writers, EnterLock(w) PROVE FlagsOK'
  <2>1. PICK l \in {"w_done", "w_check"} : pc' = [pc EXCEPT ![w] = l]
    BY <1>6 DEF EnterLock
  <2> QED
    BY <1>1, <1>2, <1>6, <2>1 DEF EnterLock
<1>7. ASSUME NEW w \in Writers, EnterCheck(w) PROVE FlagsOK'
  <2>1. \/ writeable' /\ pc' = [pc EXCEPT ![w] = "w_put"]
        \/ ~writeable' /\ pc' = [pc EXCEPT ![w] = "w_full"]
    BY <1>7 DEF EnterCheck
  <2>2. /\ UNCHANGED <<readable, waiting>> /\ pc[w] = "w_check"
        /\ Free("writeable_lock") /\ writeable' \in BOOLEAN
    BY <1>7 DEF EnterCheck
  <2>3. \A v \in Writers : v # w => pc[v] \notin InEnter
    BY <1>3, <2>2 DEF InEnter
  <2>4. \A v \in Writers : v \notin waiting
    BY <1>5, <2>2, <2>3 DEF InEnter
  <2> QED
    BY <1>1, <1>2, <1>4, <2>1, <2>2, <2>3, <2>4 DEF InEnter
<1>8. ASSUME NEW w \in Writers, EnterWait(w) PROVE FlagsOK'
  <2>1. waiting' = (waiting \ Readers) \cup {w}
    BY <1>8, OneSleeps DEF EnterWait
  <2>2. /\ readable' = TRUE /\ writeable' = writeable /\ Free("readable_lock")
        /\ pc' = [pc EXCEPT ![w] = "w_wait"] /\ pc[w] = "w_full"
    BY <1>8 DEF EnterWait
  <2> QED
    BY <1>1, <1>2, <1>4, <2>1, <2>2
<1>9. ASSUME NEW w \in Writers, EnterWake(w) PROVE FlagsOK'
  <2>1. \/ writeable /\ pc' = [pc EXCEPT ![w] = "w_put"]
        \/ ~writeable /\ pc' = [pc EXCEPT ![w] = "w_full"]
    BY <1>9 DEF EnterWake
  <2> QED
    BY <1>1, <1>2, <1>9, <2>1 DEF EnterWake
<1>10. ASSUME NEW w \in Writers, EnterPut(w) \/ EnterTail(w) PROVE FlagsOK'
  <2>1. PICK l \in {"w_tail", "w_check", "w_done"} : pc' = [pc EXCEPT ![w] = l]
    BY <1>10 DEF EnterPut, EnterTail
  <2>2. UNCHANGED <<readable, writeable, waiting>> /\ pc[w] \in {"w_put", "w_tail"}
    BY <1>10 DEF EnterPut, EnterTail
  <2> QED
    BY <1>1, <1>2, <2>1, <2>2
<1>11. ASSUME NEW w \in Writers, EnterDone(w) PROVE FlagsOK'
  <2>1. \/ readable' = TRUE /\ waiting' = waiting \ Readers /\ Free("readable_lock")
        \/ UNCHANGED <<readable, waiting>>
    BY <1>11, OneSleeps DEF EnterDone, SignalReadable
  <2>2. pc' = [pc EXCEPT ![w] = "w_idle"] /\ writeable' = writeable
    BY <1>11 DEF EnterDone
  <2> QED
    BY <1>1, <1>2, <1>4, <2>1, <2>2
<1>12. ASSUME NEW r \in Readers, Call(r) PROVE FlagsOK'
  <2>1. /\ UNCHANGED <<readable, writeable, waiting>>
        /\ pc' = [pc EXCEPT ![r] = "r_lock"]
    BY <1>12 DEF Call
  <2> QED
    BY <1>1, <1>2, <2>1
<1>13. ASSUME NEW r \in Readers, CallLock(r) PROVE FlagsOK'
  <2>1. PICK l \in {"l_check", "r_ungot", "r_check"} : pc' = [pc EXCEPT ![r] = l]
    <3>1. \/ pc' = [pc EXCEPT ![r] = "l_check"]
          \/ pc' = [pc EXCEPT ![r] = "r_ungot"]
          \/ pc' = [pc EXCEPT ![r] = "r_check"]
      BY <1>13 DEF CallLock
    <3> QED
      BY <3>1
  <2>2. UNCHANGED <<readable, writeable, waiting>>
    BY <1>13 DEF CallLock
  <2> QED
    BY <1>1, <1>2, <2>1, <2>2
<1>14. ASSUME NEW r \in Readers, RemoveCheck(r) PROVE FlagsOK'
  <2>1. \/ readable' /\ pc' = [pc EXCEPT ![r] = "r_get"]
        \/ readable' /\ pc' = [pc EXCEPT ![r] = "r_first"]
        \/ ~readable' /\ pc' = [pc EXCEPT ![r] = "r_empty"]
    BY <1>14 DEF RemoveCheck, ToCopy
  <2>2. /\ UNCHANGED <<writeable, waiting>> /\ pc[r] = "r_check"
        /\ Free("readable_lock") /\ readable' \in BOOLEAN
    BY <1>14 DEF RemoveCheck
  <2>3. \A q \in Readers : q # r => pc[q] \notin InRemove
    BY <1>3, <2>2 DEF InRemove
  <2>4. \A q \in Readers : q \notin waiting
    BY <1>5, <2>2, <2>3 DEF InRemove
  <2> QED
    BY <1>1, <1>2, <1>4, <2>1, <2>2, <2>3, <2>4 DEF InRemove
<1>15. ASSUME NEW r \in Readers, RemoveRefcnt(r) PROVE FlagsOK'
  <2>1. PICK l \in {"r_signal", "r_out"} : pc' = [pc EXCEPT ![r] = l]
    BY <1>15 DEF RemoveRefcnt
  <2> QED
    BY <1>1, <1>2, <1>15, <2>1 DEF RemoveRefcnt
<1>16. ASSUME NEW r \in Readers, RemoveWait(r) PROVE FlagsOK'
  <2>1. waiting' = (waiting \ Writers) \cup {r}
    BY <1>16, OneSleeps DEF RemoveWait
  <2>2. /\ writeable' = TRUE /\ readable' = readable /\ Free("writeable_lock")
        /\ pc' = [pc EXCEPT ![r] = "r_wait"] /\ pc[r] = "r_signal"
    BY <1>16 DEF RemoveWait
  <2> QED
    BY <1>1, <1>2, <1>4, <2>1, <2>2
<1>17. ASSUME NEW r \in Readers, RemoveWake(r) PROVE FlagsOK'
  <2>1. \/ readable /\ pc' = [pc EXCEPT ![r] = "r_get"]
        \/ readable /\ pc' = [pc EXCEPT ![r] = "r_first"]
        \/ ~readable /\ pc' = [pc EXCEPT ![r] = "r_empty"]
    BY <1>17 DEF RemoveWake, ToCopy
  <2>2. UNCHANGED <<readable, writeable, waiting>> /\ pc[r] = "r_wait" /\ r \notin waiting
    BY <1>17 DEF RemoveWake
  <2> QED
    BY <1>1, <1>2, <2>1, <2>2
<1>18. ASSUME NEW r \in Readers,
              ReadFirst(r) \/ ReadScan(r) \/ RemoveGet(r) \/ RemoveHead(r)
       PROVE  FlagsOK'
  <2>1. PICK l \in {"r_get", "r_head", "r_scan", "r_check", "r_out"} : pc' = [pc EXCEPT ![r] = l]
    BY <1>18 DEF ReadFirst, ReadScan, RemoveGet, RemoveHead
  <2>2. /\ UNCHANGED <<readable, writeable, waiting>>
        /\ pc[r] \in {"r_first", "r_scan", "r_get", "r_head"}
    BY <1>18 DEF ReadFirst, ReadScan, RemoveGet, RemoveHead
  <2> QED
    BY <1>1, <1>2, <2>1, <2>2
<1>26. ASSUME NEW r \in Readers, CallUngot(r) PROVE FlagsOK'
  <2>1. PICK l \in {"r_check", "r_out"} : pc' = [pc EXCEPT ![r] = l]
    <3>1. \/ pc' = [pc EXCEPT ![r] = "r_check"]
          \/ pc' = [pc EXCEPT ![r] = "r_out"]
      BY <1>26 DEF CallUngot
    <3> QED
      BY <3>1
  <2>2. UNCHANGED <<readable, writeable, waiting>>
    BY <1>26 DEF CallUngot
  <2> QED
    BY <1>1, <1>2, <2>1, <2>2
<1>19. ASSUME NEW r \in Readers, RemoveOut(r) PROVE FlagsOK'
  <2>1. \/ writeable' = TRUE /\ waiting' = waiting \ Writers /\ Free("writeable_lock")
        \/ UNCHANGED <<writeable, waiting>>
    BY <1>19, OneSleeps DEF RemoveOut, SignalWriteable
  <2>2. pc' = [pc EXCEPT ![r] = "r_idle"] /\ UNCHANGED <<readable>>
    BY <1>19 DEF RemoveOut
  <2> QED
    BY <1>1, <1>2, <1>4, <2>1, <2>2
<1>20. ASSUME NEW t \in Threads, NEW l \in {"l_check", "l_empty", "l_get", "l_out", "w_eof",
                                            "w_ended", "r_idle", "u_flag", "u_char"},
              UNCHANGED <<readable, writeable, waiting>>, pc' = [pc EXCEPT ![t] = l]
       PROVE  FlagsOK'
  <2>1. pc'[t] = l /\ \A s \in Threads : s # t => pc'[s] = pc[s]
    BY <1>1, <1>20
  <2> QED
    BY <1>1, <1>2, <1>20, <2>1
<1>21. ASSUME NEW r \in Readers, Lookahead(r) PROVE FlagsOK'
  <2>1. PICK l \in InLook \cup {"r_idle"} : pc' = [pc EXCEPT ![r] = l]
    BY <1>21 DEF Lookahead, LookCheck, LookRefcnt, LookGet, LookOut, InLook
  <2>2. UNCHANGED <<readable, writeable, waiting>>
    BY <1>21 DEF Lookahead, LookCheck, LookRefcnt, LookGet, LookOut
  <2> QED
    BY <1>2, <1>20, <2>1, <2>2 DEF InLook
<1>22. ASSUME NEW r \in Readers, UngetTest(r) \/ UngetFlag(r) \/ UngetChar(r) PROVE FlagsOK'
  BY <1>2, <1>20, <1>22 DEF UngetTest, UngetFlag, UngetChar
<1>23. ASSUME NEW w \in Writers, EofLoad(w) \/ EofStore(w) PROVE FlagsOK'
  BY <1>2, <1>20, <1>23 DEF EofLoad, EofStore
<1>24. ASSUME NEW t \in Threads, SpuriousWakeup(t) PROVE FlagsOK'
  BY <1>24 DEF SpuriousWakeup
<1>25. CASE UNCHANGED vars
  BY <1>25 DEF vars
<1> QED
  BY <1>6, <1>7, <1>8, <1>9, <1>10, <1>11, <1>12, <1>13, <1>14, <1>15, <1>16, <1>17,
     <1>18, <1>19, <1>21, <1>22, <1>23, <1>24, <1>25, <1>26 DEF Next, Step, Enter, Remove

\* A flag that is down beside a buffer that could have it up: some call has
\* still to raise it.
ReadersOwed == ~readable /\ ~Empty => \E w \in Writers : OwesReaders(w)
WritersOwed == ~writeable /\ ~Full => \E r \in Readers : OwesWriters(r)
TailOwes    == \A w \in Writers : pc[w] = "w_tail" => actual[w] > 0
OwedOK      == ReadersOwed /\ WritersOwed /\ TailOwes

\* A step of one writer leaves what readers owe alone, and the other way round.
LEMMA OwedKept ==
    ASSUME TypeOK, OwedOK
    PROVE  /\ /\ UNCHANGED <<head, tail, readable>>
              /\ \A w \in Writers : OwesReaders(w) => OwesReaders(w)'
              => ReadersOwed'
           /\ /\ UNCHANGED <<head, tail, writeable>>
              /\ \A r \in Readers : OwesWriters(r) => OwesWriters(r)'
              => WritersOwed'
  BY DEF OwedOK, ReadersOwed, WritersOwed, Empty, Full

\* Every step keeps the debts: an item put beside a flag that is down is owed
\* by the writer that put it, and the check under the mutex settles the rest.
LEMMA NextOwed ==
    TypeOK /\ LocalsOK /\ LocksOK /\ PositionsOK /\ FlagsOK /\ OwedOK /\ [Next]_vars
        => OwedOK'
<1> SUFFICES ASSUME TypeOK, LocalsOK, LocksOK, PositionsOK, FlagsOK, OwedOK, [Next]_vars
             PROVE  OwedOK'
  OBVIOUS
<1> USE DEF Goto
<1>1. /\ pc \in [Threads -> WriterPcs \cup ReaderPcs]
      /\ actual \in [Writers -> Nat] /\ bytes \in [Readers -> Seq(Values)]
      /\ readable \in BOOLEAN /\ writeable \in BOOLEAN
  BY DEF TypeOK
<1>2. /\ \A w \in Writers : w \in Threads /\ w \notin Readers
      /\ \A r \in Readers : r \in Threads /\ r \notin Writers
  BY DEF Threads
\* What a writer's step leaves alone.
<1>3. ASSUME NEW w \in Writers, NEW l, pc' = [pc EXCEPT ![w] = l], bytes' = bytes
      PROVE  \A r \in Readers : OwesWriters(r) => OwesWriters(r)'
  BY <1>1, <1>2, <1>3 DEF OwesWriters
\* What a reader's step leaves alone.
<1>4. ASSUME NEW r \in Readers, NEW l, pc' = [pc EXCEPT ![r] = l], actual' = actual
      PROVE  (\A w \in Writers : OwesReaders(w) => OwesReaders(w)') /\ TailOwes'
  BY <1>1, <1>2, <1>4 DEF OwesReaders, OwedOK, TailOwes
<1>5. ASSUME NEW w \in Writers, EnterLock(w) PROVE OwedOK'
  <2>1. PICK l \in {"w_done", "w_check"} : pc' = [pc EXCEPT ![w] = l]
    BY <1>5 DEF EnterLock
  <2>2. /\ UNCHANGED <<head, tail, readable, writeable, bytes>> /\ pc[w] = "w_idle"
        /\ actual' = [actual EXCEPT ![w] = 0]
    BY <1>5 DEF EnterLock, ring
  <2>3. \A v \in Writers : OwesReaders(v) => OwesReaders(v)'
    BY <1>1, <1>2, <2>1, <2>2 DEF OwesReaders
  <2>4. TailOwes'
    BY <1>1, <1>2, <2>1, <2>2 DEF OwedOK, TailOwes
  <2> QED
    BY <1>3, <2>1, <2>2, <2>3, <2>4, OwedKept DEF OwedOK
<1>6. ASSUME NEW w \in Writers, EnterCheck(w) PROVE OwedOK'
  <2>1. PICK l \in {"w_put", "w_full"} : pc' = [pc EXCEPT ![w] = l]
    BY <1>6 DEF EnterCheck
  <2>2. /\ UNCHANGED <<head, tail, readable, bytes, actual>> /\ pc[w] = "w_check"
        /\ writeable' = (j[w] # circ(head - 1))
    BY <1>6 DEF EnterCheck, ring
  <2>3. ReadersOwed' /\ TailOwes'
    BY <1>1, <1>2, <2>1, <2>2, OwedKept DEF OwesReaders, OwedOK, TailOwes
  <2>4. j[w] = circ(tail + 1)
    BY <2>2 DEF PositionsOK, InEnter
  <2>5. ~writeable' => Full'
    BY <2>2, <2>4 DEF Full
  <2> QED
    BY <2>3, <2>5 DEF OwedOK, WritersOwed
<1>7. ASSUME NEW w \in Writers, EnterWait(w) PROVE OwedOK'
  <2>1. /\ UNCHANGED <<head, tail, writeable, bytes, actual>> /\ readable' = TRUE
        /\ pc' = [pc EXCEPT ![w] = "w_wait"]
    BY <1>7 DEF EnterWait, ring
  <2>2. TailOwes'
    BY <1>1, <1>2, <2>1 DEF OwedOK, TailOwes
  <2> QED
    BY <1>3, <2>1, <2>2, OwedKept DEF OwedOK, ReadersOwed
<1>8. ASSUME NEW w \in Writers, EnterWake(w) \/ EnterPut(w) PROVE OwedOK'
  <2>1. PICK l \in {"w_put", "w_full", "w_tail"} : pc' = [pc EXCEPT ![w] = l]
    BY <1>8 DEF EnterWake, EnterPut
  <2>2. /\ UNCHANGED <<head, tail, readable, writeable, bytes>>
        /\ pc[w] \in {"w_wait", "w_put"}
    BY <1>8 DEF EnterWake, EnterPut, ring
  <2>3. \/ actual' = actual /\ l # "w_tail"
        \/ actual' = [actual EXCEPT ![w] = @ + 1]
    <3>1. CASE EnterWake(w)
      <4>1. pc'[w] # "w_tail" /\ actual' = actual
        BY <1>1, <1>2, <3>1 DEF EnterWake
      <4> QED
        BY <1>1, <1>2, <2>1, <4>1
    <3> QED
      BY <1>8, <3>1 DEF EnterPut
  <2>4. \A v \in Writers : OwesReaders(v) => OwesReaders(v)'
    BY <1>1, <1>2, <2>1, <2>2, <2>3 DEF OwesReaders
  <2>5. TailOwes'
    BY <1>1, <1>2, <2>1, <2>2, <2>3 DEF OwedOK, TailOwes
  <2> QED
    BY <1>3, <2>1, <2>2, <2>4, <2>5, OwedKept DEF OwedOK
<1>9. ASSUME NEW w \in Writers, EnterTail(w) PROVE OwedOK'
  <2>1. PICK l \in {"w_check", "w_done"} : pc' = [pc EXCEPT ![w] = l]
    BY <1>9 DEF EnterTail
  <2>2. /\ UNCHANGED <<readable, writeable, actual>> /\ pc[w] = "w_tail"
    BY <1>9 DEF EnterTail
  <2>3. OwesReaders(w)' /\ TailOwes'
    BY <1>1, <1>2, <2>1, <2>2 DEF OwedOK, TailOwes, OwesReaders
  <2>4. writeable'
    BY <2>2 DEF FlagsOK
  <2> QED
    BY <2>3, <2>4 DEF OwedOK, ReadersOwed, WritersOwed
<1>10. ASSUME NEW w \in Writers, EnterDone(w) PROVE OwedOK'
  <2>1. /\ UNCHANGED <<head, tail, writeable, bytes, actual>> /\ pc[w] = "w_done"
        /\ pc' = [pc EXCEPT ![w] = "w_idle"]
        /\ readable' = TRUE \/ (readable' = readable /\ ~(actual[w] > 0))
    BY <1>10 DEF EnterDone, SignalReadable, ring
  <2>2. CASE readable' = TRUE
    BY <1>1, <1>2, <1>3, <2>1, <2>2, OwedKept DEF OwedOK, ReadersOwed, TailOwes
  <2>3. CASE readable' = readable /\ ~(actual[w] > 0)
    <3>1. \A v \in Writers : OwesReaders(v) => OwesReaders(v)'
      BY <1>1, <1>2, <2>1, <2>3 DEF OwesReaders
    <3>2. TailOwes'
      BY <1>1, <1>2, <2>1 DEF OwedOK, TailOwes
    <3> QED
      BY <1>3, <2>1, <2>3, <3>1, <3>2, OwedKept DEF OwedOK
  <2> QED
    BY <2>1, <2>2, <2>3
<1>11. ASSUME NEW w \in Writers, EofLoad(w) \/ EofStore(w) PROVE OwedOK'
  <2>1. PICK l \in {"w_eof", "w_ended"} : pc' = [pc EXCEPT ![w] = l]
    BY <1>11 DEF EofLoad, EofStore
  <2>2. /\ UNCHANGED <<head, tail, readable, writeable, bytes, actual>>
        /\ pc[w] \in {"w_idle", "w_eof"}
    BY <1>11 DEF EofLoad, EofStore, ring
  <2>3. (\A v \in Writers : OwesReaders(v) => OwesReaders(v)') /\ TailOwes'
    BY <1>1, <1>2, <2>1, <2>2 DEF OwesReaders, OwedOK, TailOwes
  <2> QED
    BY <1>3, <2>1, <2>2, <2>3, OwedKept DEF OwedOK
\* A reader's step that leaves the ring and the flags alone.
<1>12. ASSUME NEW r \in Readers, NEW l, pc' = [pc EXCEPT ![r] = l],
              UNCHANGED <<head, tail, readable, writeable, actual>>,
              OwesWriters(r) => OwesWriters(r)',
              \A q \in Readers : q # r => bytes'[q] = bytes[q]
       PROVE  OwedOK'
  <2>1. \A q \in Readers : OwesWriters(q) => OwesWriters(q)'
    BY <1>1, <1>2, <1>12 DEF OwesWriters
  <2> QED
    BY <1>4, <1>12, <2>1, OwedKept DEF OwedOK
<1>13. ASSUME NEW r \in Readers,
              \/ Call(r) \/ Lookahead(r) \/ UngetTest(r) \/ UngetFlag(r) \/ UngetChar(r)
              \/ CallLock(r) \/ CallUngot(r)
       PROVE  OwedOK'
  <2>1. PICK l : pc' = [pc EXCEPT ![r] = l]
    BY <1>13 DEF Call, Lookahead, LookCheck, LookRefcnt, LookGet, LookOut, UngetTest,
       UngetFlag, UngetChar, CallLock, CallUngot
  <2>2. /\ UNCHANGED <<head, tail, readable, writeable, actual>>
        /\ pc[r] \in InLook \cup {"r_idle", "u_flag", "u_char", "r_lock", "r_ungot"}
        /\ \A q \in Readers : q # r => bytes'[q] = bytes[q]
    BY <1>1, <1>13 DEF Call, Lookahead, LookCheck, LookRefcnt, LookGet, LookOut, UngetTest,
       UngetFlag, UngetChar, CallLock, CallUngot, ring, InLook
  <2>3. ~OwesWriters(r)
    BY <2>2 DEF OwesWriters, InLook
  <2> QED
    BY <1>12, <2>1, <2>2, <2>3
<1>14. ASSUME NEW r \in Readers,
              \/ RemoveRefcnt(r) \/ RemoveWake(r) \/ ReadFirst(r) \/ ReadScan(r) \/ RemoveGet(r)
       PROVE  OwedOK'
  <2>1. PICK l \in {"r_signal", "r_out", "r_get", "r_first", "r_empty", "r_head"} :
            pc' = [pc EXCEPT ![r] = l]
    <3>1. \/ Goto(r, "r_signal") \/ Goto(r, "r_out") \/ Goto(r, "r_get") \/ Goto(r, "r_first")
          \/ Goto(r, "r_empty") \/ Goto(r, "r_head")
      BY <1>14 DEF RemoveRefcnt, RemoveWake, ReadFirst, ReadScan, RemoveGet, ToCopy
    <3> QED
      BY <3>1
  <2>2. /\ UNCHANGED <<head, tail, readable, writeable, actual>>
        /\ bytes' = bytes \/ bytes' = [bytes EXCEPT ![r] = Append(@, buf[j[r]])]
    BY <1>14 DEF RemoveRefcnt, RemoveWake, ReadFirst, ReadScan, RemoveGet, ring
  <2>3. bytes[r] # <<>> => bytes'[r] # <<>>
    BY <1>1, <2>2
  <2>4. OwesWriters(r) => OwesWriters(r)'
    BY <1>1, <1>2, <2>1, <2>3 DEF OwesWriters
  <2> QED
    BY <1>1, <1>12, <2>1, <2>2, <2>4
<1>15. ASSUME NEW r \in Readers, RemoveCheck(r) PROVE OwedOK'
  <2>1. PICK l \in {"r_get", "r_first", "r_empty"} : pc' = [pc EXCEPT ![r] = l]
    BY <1>15 DEF RemoveCheck, ToCopy
  <2>2. /\ UNCHANGED <<head, tail, writeable, bytes, actual>> /\ pc[r] = "r_check"
        /\ readable' = (j[r] # circ(tail + 1))
    BY <1>15 DEF RemoveCheck, ring
  <2>3. \A q \in Readers : OwesWriters(q) => OwesWriters(q)'
    BY <1>1, <1>2, <2>1, <2>2 DEF OwesWriters
  <2>4. ~readable' => Empty'
    BY <2>2 DEF PositionsOK, InRemove, Empty
  <2> QED
    BY <1>4, <2>1, <2>2, <2>3, <2>4, OwedKept DEF OwedOK, ReadersOwed
<1>16. ASSUME NEW r \in Readers, RemoveWait(r) PROVE OwedOK'
  <2>1. /\ UNCHANGED <<head, tail, readable, bytes, actual>> /\ writeable' = TRUE
        /\ pc' = [pc EXCEPT ![r] = "r_wait"]
    BY <1>16 DEF RemoveWait, ring
  <2> QED
    BY <1>4, <2>1, OwedKept DEF OwedOK, WritersOwed
<1>17. ASSUME NEW r \in Readers, RemoveHead(r) PROVE OwedOK'
  <2>1. PICK l \in {"r_out", "r_check", "r_scan"} : pc' = [pc EXCEPT ![r] = l]
    BY <1>17 DEF RemoveHead
  <2>2. UNCHANGED <<readable, writeable, bytes, actual>> /\ pc[r] = "r_head"
    BY <1>17 DEF RemoveHead
  <2>3. OwesWriters(r)'
    BY <1>1, <1>2, <2>1, <2>2 DEF OwesWriters, LocalsOK
  <2>4. readable'
    BY <2>2 DEF FlagsOK
  <2> QED
    BY <1>4, <2>1, <2>2, <2>3, <2>4 DEF OwedOK, ReadersOwed, WritersOwed
<1>18. ASSUME NEW r \in Readers, RemoveOut(r) PROVE OwedOK'
  <2>1. /\ UNCHANGED <<head, tail, readable, bytes, actual>>
        /\ pc' = [pc EXCEPT ![r] = "r_idle"]
        /\ writeable' = TRUE \/ (writeable' = writeable /\ bytes[r] = <<>>)
    BY <1>18 DEF RemoveOut, SignalWriteable, ring
  <2>2. CASE writeable' = TRUE
    BY <1>4, <2>1, <2>2, OwedKept DEF OwedOK, WritersOwed
  <2>3. CASE writeable' = writeable /\ bytes[r] = <<>>
    BY <1>12, <2>1, <2>3 DEF OwesWriters
  <2> QED
    BY <2>1, <2>2, <2>3
<1>19. ASSUME NEW t \in Threads, SpuriousWakeup(t) PROVE OwedOK'
  BY <1>19 DEF SpuriousWakeup, OwedOK, ReadersOwed, WritersOwed, TailOwes, Empty, Full,
     OwesReaders, OwesWriters, ring
<1>20. CASE UNCHANGED vars
  BY <1>20 DEF vars, OwedOK, ReadersOwed, WritersOwed, TailOwes, Empty, Full,
     OwesReaders, OwesWriters
<1> QED
  BY <1>5, <1>6, <1>7, <1>8, <1>9, <1>10, <1>11, <1>13, <1>14, <1>15, <1>16, <1>17, <1>18,
     <1>19, <1>20 DEF Next, Step, Enter, Remove

----------------------------------------------------------------------------
(* The inductive invariant, and what follows from it.                      *)

IInv == TypeOK /\ LocalsOK /\ LocksOK /\ PositionsOK /\ FlagsOK /\ OwedOK

\* It holds when make_cbuf returns.
LEMMA InitIInv == Init => IInv
<1> SUFFICES ASSUME Init PROVE IInv
  OBVIOUS
<1>1. TypeOK
  BY InitType
<1>2. \A t \in Threads : pc[t] \in {"w_idle", "r_idle"}
  BY DEF Init
<1>3. \A w \in Writers : w \in Threads /\ pc[w] = "w_idle"
  BY DEF Init, Threads
<1>4. \A r \in Readers : r \in Threads /\ pc[r] = "r_idle"
  BY DEF Init, Threads
<1>5. \A t \in Threads : t # NoOne
  BY DEF Threads
<1>6. LocksOK
  BY <1>2, <1>3, <1>4, <1>5 DEF Init, LocksOK, Locks, InEnter, InRemove, InLook, Threads
<1>7. circ(0 + 1) = 1
  BY ModRange DEF circ
<1> QED
  BY <1>1, <1>3, <1>4, <1>6, <1>7 DEF Init, IInv, LocalsOK, PositionsOK, FlagsOK, OwedOK,
     ReadersOwed, WritersOwed, TailOwes, Empty, InEnter, InRemove, InLook

\* It holds always: the mutexes, positions, flags and debts of every state the
\* threads can reach.
THEOREM Inductive == Spec => []IInv
<1>1. IInv /\ [Next]_vars => IInv'
  BY NextType, NextLocals, NextLocks, NextPositions, NextFlags, NextOwed DEF IInv
<1> QED
  BY InitIInv, <1>1, PTL DEF Spec

\* However many threads there are and whatever they ask for, a reader that
\* sleeps beside items has a writer on the way to signal it.
THEOREM ReaderWakeupSafe == Spec => []ReaderWakeupNotLost
<1>1. IInv => ReaderWakeupNotLost
  BY DEF IInv, FlagsOK, OwedOK, ReadersOwed, ReaderWakeupNotLost
<1> QED
  BY <1>1, Inductive, PTL

\* And a writer that sleeps beside free room has a reader on the way to it.
THEOREM WriterWakeupSafe == Spec => []WriterWakeupNotLost
<1>1. IInv => WriterWakeupNotLost
  BY DEF IInv, FlagsOK, OwedOK, WritersOwed, WriterWakeupNotLost
<1> QED
  BY <1>1, Inductive, PTL

----------------------------------------------------------------------------
(* The ring as a queue.                                                    *)

Taken == Len(removed)

\* What a writer past its test relies on.
WritersRing ==
    \A w \in Writers :
        /\ pc[w] \in {"w_put", "w_tail"} => entered - Taken < N - 1
        /\ pc[w] = "w_tail" => buf[j[w]] = entered + 1

\* What a reader past its test relies on.  A limit kept in a register is the
\* slot after some item e that had been entered when it was loaded.
ReadersRing ==
    \A r \in Readers :
        /\ pc[r] \in {"r_get", "r_head"} => Taken < entered
        /\ pc[r] = "r_head" => bytes[r][Len(bytes[r])] = Taken + 1
        /\ pc[r] \in {"r_get", "r_head", "r_scan"} /\ op[r] = "read" /\ limit[r] # N =>
             \E e \in Taken .. entered :
                /\ limit[r] = (e + 1) % N
                /\ pc[r] # "r_scan" => Taken < e

RingOK == RingHoldsTheRest /\ (~stale => RemovedInOrder /\ WritersRing /\ ReadersRing)

\* Stepping an index is stepping the number it stands for.
LEMMA CircStep ==
    ASSUME NEW x \in Int
    PROVE  circ((x % N) + 1) = (x + 1) % N /\ circ(((x + 1) % N) - 1) = x % N
<1> N \in Nat \ {0}
  OBVIOUS
<1>1. x % N \in 0 .. N - 1 /\ (x + 1) % N = IF x % N = N - 1 THEN 0 ELSE (x % N) + 1
  <2>1. x % N \in 0 .. N - 1
    BY ModRange
  <2>2. (x + 1) % N = IF x % N = N - 1 THEN 0 ELSE (x % N) + 1
    BY ModSucc
  <2> QED
    BY <2>1, <2>2
<1>2. N % N = 0 /\ \A a \in 0 .. N - 1 : a % N = a
  BY ModRange
<1>3. CASE x % N = N - 1
  BY <1>1, <1>2, <1>3 DEF circ
<1>4. CASE x % N # N - 1
  BY <1>1, <1>2, <1>4 DEF circ
<1> QED
  BY <1>3, <1>4

\* The code's two tests, said of the items.
LEMMA TestsMean ==
    ASSUME TypeOK, RingHoldsTheRest, ~stale
    PROVE  /\ Taken \in Nat /\ entered \in Nat
           /\ circ(tail + 1) = (entered + 1) % N
           /\ circ(head + 1) = (Taken + 2) % N
           /\ circ(head - 1) = Taken % N
           /\ head # circ(tail + 1) => Taken < entered
           /\ circ(tail + 1) # circ(head - 1) => entered - Taken < N - 1
<1>1. Taken \in Nat /\ entered \in Nat
  BY DEF TypeOK, Taken
<1>2. /\ tail = entered % N /\ head = (Taken + 1) % N
      /\ Taken <= entered /\ entered - Taken <= N - 1
  BY DEF RingHoldsTheRest, Taken
<1>3. circ(tail + 1) = (entered + 1) % N
  <2>1. circ((entered % N) + 1) = (entered + 1) % N
    <3>1. entered \in Int /\ Taken \in Int
      BY <1>1
    <3> QED
      BY <3>1, CircStep
  <2> QED
    BY <1>2, <2>1
<1>4. circ(head - 1) = Taken % N
  <2>1. circ(((Taken + 1) % N) - 1) = Taken % N
    <3>1. entered \in Int /\ Taken \in Int
      BY <1>1
    <3> QED
      BY <3>1, CircStep
  <2> QED
    BY <1>2, <2>1
<1>5. circ(head + 1) = (Taken + 2) % N
  <2>1. Taken + 1 \in Int /\ (Taken + 1) + 1 = Taken + 2
    BY <1>1
  <2>2. circ(((Taken + 1) % N) + 1) = ((Taken + 1) + 1) % N
    BY <2>1, CircStep
  <2> QED
    BY <1>2, <2>1, <2>2
<1>6. ASSUME head # circ(tail + 1) PROVE Taken < entered
  BY <1>1, <1>2, <1>3, <1>6
<1>7. ASSUME circ(tail + 1) # circ(head - 1) PROVE entered - Taken < N - 1
  <2>1. SUFFICES ASSUME entered - Taken = N - 1 PROVE FALSE
    BY <1>1, <1>2
  <2>2. entered + 1 = Taken + N
    BY <1>1, <2>1
  <2>3. (Taken + N) % N = Taken % N
    <3>1. N \in Nat \ {0} /\ Taken \in Int
      BY <1>1
    <3> QED
      BY <3>1, ModRound
  <2> QED
    BY <1>3, <1>4, <1>7, <2>2, <2>3
<1> QED
  BY <1>1, <1>3, <1>4, <1>5, <1>6, <1>7

\* Steps that leave the ring and the history as they are keep the first part.
LEMMA RingKept ==
    ASSUME UNCHANGED <<head, tail, buf, entered, removed>>, stale => stale',
           RingHoldsTheRest, ~stale => RemovedInOrder
    PROVE  RingHoldsTheRest' /\ (~stale' => RemovedInOrder')
  BY DEF RingHoldsTheRest, RemovedInOrder

\* A step of one thread that relies on nothing afterwards.
LEMMA ReliesOnNothing ==
    ASSUME TypeOK, RingOK, NEW t \in Threads,
           NEW l \in (WriterPcs \cup ReaderPcs) \ {"w_put", "w_tail", "r_get", "r_head", "r_scan"},
           pc' = [pc EXCEPT ![t] = l], UNCHANGED <<head, tail, buf, entered, removed>>,
           stale => stale',
           \A s \in Threads : s # t => j'[s] = j[s],
           \A s \in Readers : s # t => /\ bytes'[s] = bytes[s] /\ limit'[s] = limit[s]
                                       /\ op'[s] = op[s]
    PROVE  RingOK'
<1>1. RingHoldsTheRest' /\ (~stale' => RemovedInOrder')
  BY RingKept DEF RingOK
<1>2. pc'[t] = l /\ \A s \in Threads : s # t => pc'[s] = pc[s]
  BY DEF TypeOK
<1>3. \A s \in Writers \cup Readers : s \in Threads
  BY DEF Threads
<1>4. ASSUME ~stale' PROVE WritersRing'
  <2>1. WritersRing
    BY <1>4 DEF RingOK
  <2> QED
    BY <1>2, <1>3, <2>1 DEF WritersRing, Taken
<1>5. ASSUME ~stale' PROVE ReadersRing'
  <2>1. ReadersRing
    BY <1>5 DEF RingOK
  <2> QED
    BY <1>2, <1>3, <2>1 DEF ReadersRing, Taken
<1> QED
  BY <1>1, <1>4, <1>5 DEF RingOK

\* enter_cbuf: the put lands in a slot no item still needs, and tail++ makes
\* it the next item.
LEMMA EnterRing ==
    ASSUME IInv, RingOK, NEW w \in Writers, Enter(w)
    PROVE  RingOK'
<1> USE DEF Goto
<1>1. /\ TypeOK /\ LocksOK /\ PositionsOK /\ w \in Threads
      /\ pc \in [Threads -> WriterPcs \cup ReaderPcs]
      /\ buf \in [Slots -> Values] /\ j \in [Threads -> Slots]
  BY DEF IInv, TypeOK, Threads
<1>2. /\ \A v \in Writers : v \in Threads /\ v \notin Readers
      /\ \A r \in Readers : r \in Threads /\ r \notin Writers
  BY DEF Threads
<1>3. \A v \in Writers : pc[v] \in {"w_put", "w_tail"} /\ pc[w] \in InEnter => v = w
  BY <1>1 DEF LocksOK, InEnter
<1>4. pc[w] \in InEnter => j[w] = circ(tail + 1)
  BY <1>1 DEF PositionsOK
\* The tests: on to the put with room in the ring.
<1>5. ASSUME NEW l \in {"w_put", "w_full"}, pc' = [pc EXCEPT ![w] = l],
             UNCHANGED <<head, tail, buf, entered, removed, j, bytes, limit, op>>,
             stale => stale', pc[w] \in InEnter,
             ~stale' /\ l = "w_put" => j[w] # circ(head - 1)
      PROVE  RingOK'
  <2>1. RingHoldsTheRest' /\ (~stale' => RemovedInOrder')
    BY <1>5, RingKept DEF RingOK
  <2>2. pc'[w] = l /\ \A t \in Threads : t # w => pc'[t] = pc[t]
    BY <1>1, <1>5
  <2>3. ASSUME ~stale' PROVE WritersRing' /\ ReadersRing'
    <3>1. WritersRing /\ ReadersRing /\ RingHoldsTheRest /\ ~stale
      BY <1>5, <2>3 DEF RingOK
    <3>2. l = "w_put" => entered - Taken < N - 1
      BY <1>1, <1>4, <1>5, <2>3, <3>1, TestsMean
    <3>3. WritersRing'
      BY <1>2, <1>5, <2>2, <3>1, <3>2 DEF WritersRing, Taken
    <3>4. ReadersRing'
      BY <1>2, <1>5, <2>2, <3>1 DEF ReadersRing, Taken
    <3> QED
      BY <3>3, <3>4
  <2> QED
    BY <2>1, <2>3 DEF RingOK
<1>6. CASE EnterCheck(w)
  <2>1. PICK l \in {"w_put", "w_full"} : pc' = [pc EXCEPT ![w] = l] /\ (l = "w_put" => writeable')
    BY <1>6 DEF EnterCheck
  <2>2. /\ UNCHANGED <<head, tail, buf, entered, removed, stale, j, bytes, limit, op>>
        /\ pc[w] \in InEnter /\ writeable' = (j[w] # circ(head - 1))
    BY <1>6 DEF EnterCheck, ring, history, InEnter
  <2> QED
    BY <1>5, <2>1, <2>2
<1>7. CASE EnterWake(w)
  <2>1. /\ UNCHANGED <<head, tail, buf, entered, removed, j, bytes, limit, op>>
        /\ pc[w] \in InEnter
    BY <1>7 DEF EnterWake, ring, InEnter
  <2>2. \/ /\ pc' = [pc EXCEPT ![w] = "w_put"]
           /\ stale' = (stale \/ j[w] = circ(head - 1))
        \/ pc' = [pc EXCEPT ![w] = "w_full"] /\ stale' = stale
    BY <1>7 DEF EnterWake
  <2>3. CASE /\ pc' = [pc EXCEPT ![w] = "w_put"]
             /\ stale' = (stale \/ j[w] = circ(head - 1))
    BY <1>5, <2>1, <2>3
  <2>4. CASE pc' = [pc EXCEPT ![w] = "w_full"] /\ stale' = stale
    BY <1>5, <2>1, <2>4
  <2> QED
    BY <2>2, <2>3, <2>4
<1>8. CASE EnterPut(w)
  <2>1. /\ UNCHANGED <<head, tail, entered, removed, stale, j, bytes, limit, op>>
        /\ pc[w] = "w_put" /\ pc' = [pc EXCEPT ![w] = "w_tail"]
        /\ buf' = [buf EXCEPT ![j[w]] = entered + 1]
    BY <1>8 DEF EnterPut, history
  <2>2. pc'[w] = "w_tail" /\ \A t \in Threads : t # w => pc'[t] = pc[t]
    BY <1>1, <2>1
  <2>3. ASSUME ~stale' PROVE RingHoldsTheRest' /\ WritersRing' /\ ReadersRing' /\ RemovedInOrder'
    <3>1. WritersRing /\ ReadersRing /\ RingHoldsTheRest /\ ~stale /\ RemovedInOrder
      BY <2>1, <2>3 DEF RingOK
    <3>2. /\ Taken \in Nat /\ entered \in Nat /\ entered - Taken < N - 1
          /\ j[w] = (entered + 1) % N
      BY <1>1, <1>4, <2>1, <3>1, TestsMean DEF WritersRing, InEnter
    <3>3. ASSUME NEW k \in Taken + 1 .. entered PROVE buf'[k % N] = k
      <4>1. k \in Int /\ entered + 1 \in Int /\ k < entered + 1 /\ (entered + 1) - k < N
        BY <3>2
      <4>2. k % N # (entered + 1) % N
        BY <4>1, ModApart
      <4>3. k % N \in Slots
        BY <4>1, ModRange DEF Slots
      <4>4. buf[k % N] = k
        BY <3>1 DEF RingHoldsTheRest, Taken
      <4> QED
        BY <1>1, <2>1, <3>2, <4>2, <4>3, <4>4
    <3>4. RingHoldsTheRest'
      BY <2>1, <3>1, <3>3 DEF RingHoldsTheRest, Taken
    <3>5. buf'[j[w]] = entered + 1
      BY <1>1, <2>1
    <3>6. WritersRing'
      BY <1>2, <1>3, <2>1, <2>2, <3>2, <3>5 DEF WritersRing, Taken, InEnter
    <3>7. ReadersRing'
      BY <1>2, <2>1, <2>2, <3>1 DEF ReadersRing, Taken
    <3> QED
      BY <2>1, <3>1, <3>4, <3>6, <3>7 DEF RemovedInOrder
  <2>4. stale => RingHoldsTheRest'
    BY <2>1 DEF RingHoldsTheRest
  <2> QED
    BY <2>1, <2>3, <2>4 DEF RingOK
<1>9. CASE EnterTail(w)
  <2>1. PICK l \in {"w_check", "w_done"} : pc' = [pc EXCEPT ![w] = l]
    BY <1>9 DEF EnterTail
  <2>2. /\ UNCHANGED <<head, buf, removed, stale, bytes, limit, op>>
        /\ pc[w] = "w_tail" /\ entered' = entered + 1 /\ tail' = circ(tail + 1)
    BY <1>9 DEF EnterTail
  <2>3. pc'[w] = l /\ \A t \in Threads : t # w => pc'[t] = pc[t]
    BY <1>1, <2>1
  <2>4. ASSUME ~stale' PROVE RingHoldsTheRest' /\ WritersRing' /\ ReadersRing' /\ RemovedInOrder'
    <3>1. WritersRing /\ ReadersRing /\ RingHoldsTheRest /\ ~stale /\ RemovedInOrder
      BY <2>2, <2>4 DEF RingOK
    <3>2. /\ Taken \in Nat /\ entered \in Nat /\ entered - Taken < N - 1
          /\ j[w] = (entered + 1) % N /\ tail' = (entered + 1) % N
          /\ buf[j[w]] = entered + 1
      BY <1>1, <1>4, <2>2, <3>1, TestsMean DEF WritersRing, InEnter
    <3>3. RingHoldsTheRest'
      <4>1. ASSUME NEW k \in Taken + 1 .. entered + 1 PROVE buf[k % N] = k
        <5>1. k = entered + 1 \/ k \in Taken + 1 .. entered
          BY <3>2
        <5>2. k \in Taken + 1 .. entered => buf[k % N] = k
          BY <3>1 DEF RingHoldsTheRest, Taken
        <5> QED
          BY <3>2, <5>1, <5>2
      <4>2. Taken <= entered + 1 /\ (entered + 1) - Taken <= N - 1
        BY <3>1, <3>2 DEF RingHoldsTheRest, Taken
      <4>3. head = (Taken + 1) % N
        BY <3>1 DEF RingHoldsTheRest, Taken
      <4> QED
        BY <2>2, <3>2, <4>1, <4>2, <4>3 DEF RingHoldsTheRest, Taken
    <3>4. WritersRing'
      BY <1>2, <1>3, <2>2, <2>1, <2>3 DEF WritersRing, InEnter
    <3>5. ReadersRing'
      <4>1. Taken' = Taken /\ Taken .. entered \subseteq Taken' .. entered'
        BY <2>2, <3>2 DEF Taken
      <4>2. ASSUME NEW r \in Readers
            PROVE  /\ pc'[r] = pc[r]
                   /\ pc[r] \in {"r_get", "r_head"} => Taken' < entered'
        BY <1>2, <2>2, <2>3, <3>1, <3>2, <4>1 DEF ReadersRing
      <4> QED
        BY <2>2, <3>1, <4>1, <4>2 DEF ReadersRing
    <3> QED
      BY <2>2, <3>1, <3>3, <3>4, <3>5 DEF RemovedInOrder
  <2>5. stale => RingHoldsTheRest'
    BY <2>2 DEF RingHoldsTheRest
  <2> QED
    BY <2>2, <2>4, <2>5 DEF RingOK
<1>10. CASE EnterWait(w) \/ EnterDone(w)
  <2>1. PICK l \in {"w_wait", "w_idle"} : pc' = [pc EXCEPT ![w] = l]
    BY <1>10 DEF EnterWait, EnterDone
  <2>2. UNCHANGED <<head, tail, buf, entered, removed, stale, j, bytes, limit, op>>
    BY <1>10 DEF EnterWait, EnterDone, ring, history
  <2> QED
    BY <1>1, <2>1, <2>2, ReliesOnNothing DEF WriterPcs
<1> QED
  BY <1>6, <1>7, <1>8, <1>9, <1>10 DEF Enter

\* remove_cbuf and read_cbuf: the item at head is the next one, and head++
\* takes it.
LEMMA RemoveRing ==
    ASSUME IInv, RingOK, NEW r \in Readers, Remove(r)
    PROVE  RingOK'
<1> USE DEF Goto
<1>1. /\ TypeOK /\ LocksOK /\ PositionsOK /\ LocalsOK /\ r \in Threads
      /\ pc \in [Threads -> WriterPcs \cup ReaderPcs]
      /\ bytes \in [Readers -> Seq(Values)] /\ limit \in [Readers -> 0 .. N]
      /\ removed \in Seq(Values) /\ Taken \in Nat /\ entered \in Nat
  BY DEF IInv, TypeOK, Threads, Taken
<1>2. /\ \A v \in Writers : v \in Threads /\ v \notin Readers
      /\ \A q \in Readers : q \in Threads /\ q \notin Writers
  BY DEF Threads
<1>3. \A q \in Readers : pc[q] \in InRemove /\ pc[r] \in InRemove => q = r
  BY <1>1 DEF LocksOK
<1>4. pc[r] \in InRemove => j[r] = head
  BY <1>1 DEF PositionsOK
\* Steps that take nothing: what r relies on afterwards has to be shown.
<1>5. ASSUME NEW l \in ReaderPcs, pc' = [pc EXCEPT ![r] = l],
             UNCHANGED <<head, tail, buf, entered, removed, j, op>>,
             \A q \in Readers : q # r => bytes'[q] = bytes[q] /\ limit'[q] = limit[q],
             stale => stale',
             ~stale' /\ l \in {"r_get", "r_head"} => Taken < entered,
             ~stale' /\ l = "r_head" => bytes'[r][Len(bytes'[r])] = Taken + 1,
             ~stale' /\ l \in {"r_get", "r_head", "r_scan"} /\ op[r] = "read" /\ limit'[r] # N =>
               \E e \in Taken .. entered :
                  /\ limit'[r] = (e + 1) % N
                  /\ l # "r_scan" => Taken < e
      PROVE  RingOK'
  <2>1. RingHoldsTheRest' /\ (~stale' => RemovedInOrder')
    BY <1>5, RingKept DEF RingOK
  <2>2. pc'[r] = l /\ \A t \in Threads : t # r => pc'[t] = pc[t]
    BY <1>1, <1>5
  <2>3. ASSUME ~stale' PROVE WritersRing' /\ ReadersRing'
    <3>1. WritersRing /\ ReadersRing /\ ~stale
      BY <1>5, <2>3 DEF RingOK
    <3>2. WritersRing'
      BY <1>2, <1>5, <2>2, <3>1 DEF WritersRing, Taken
    <3>3. Taken' = Taken /\ entered' = entered
      BY <1>5 DEF Taken
    <3>4. ReadersRing'
      <4>1. SUFFICES ASSUME NEW q \in Readers
                     PROVE  /\ pc'[q] \in {"r_get", "r_head"} => Taken < entered
                            /\ pc'[q] = "r_head" => bytes'[q][Len(bytes'[q])] = Taken + 1
                            /\ pc'[q] \in {"r_get", "r_head", "r_scan"} /\ op'[q] = "read" /\ limit'[q] # N =>
                                 \E e \in Taken .. entered :
                                    /\ limit'[q] = (e + 1) % N
                                    /\ pc'[q] # "r_scan" => Taken < e
        BY <3>3 DEF ReadersRing
      <4>2. CASE q = r
        BY <1>5, <2>2, <2>3, <4>2
      <4>3. CASE q # r
        BY <1>2, <1>5, <2>2, <3>1, <4>3 DEF ReadersRing
      <4> QED
        BY <4>2, <4>3
    <3> QED
      BY <3>2, <3>4
  <2> QED
    BY <2>1, <2>3 DEF RingOK
<1>6. ASSUME ~stale, head # circ(tail + 1) PROVE Taken < entered
  BY <1>1, <1>6, TestsMean DEF RingOK
\* Steps after which r relies on nothing.
<1>7. ASSUME NEW l \in ReaderPcs \ {"r_get", "r_head", "r_scan"}, pc' = [pc EXCEPT ![r] = l],
             UNCHANGED <<head, tail, buf, entered, removed, op>>, stale => stale',
             \A s \in Threads : s # r => j'[s] = j[s],
             \A q \in Readers : q # r => bytes'[q] = bytes[q] /\ limit'[q] = limit[q]
      PROVE  RingOK'
  BY <1>1, <1>2, <1>7, ReliesOnNothing DEF ReaderPcs
<1>8. CASE CallLock(r) \/ CallUngot(r)
  <2>1. \/ pc' = [pc EXCEPT ![r] = "l_check"]
        \/ pc' = [pc EXCEPT ![r] = "r_ungot"]
        \/ pc' = [pc EXCEPT ![r] = "r_out"]
        \/ pc' = [pc EXCEPT ![r] = "r_check"]
    BY <1>8 DEF CallLock, CallUngot
  <2>2. /\ UNCHANGED <<head, tail, buf, entered, removed, stale, op, limit>>
        /\ j' = j \/ j' = [j EXCEPT ![r] = head]
        /\ bytes' = bytes \/ bytes' = [bytes EXCEPT ![r] = <<ungetc>>]
    BY <1>8 DEF CallLock, CallUngot, ring, history
  <2>3. /\ \A s \in Threads : s # r => j'[s] = j[s]
        /\ \A q \in Readers : q # r => bytes'[q] = bytes[q] /\ limit'[q] = limit[q]
    BY <1>1, <2>2 DEF TypeOK
  <2> QED
    BY <1>7, <2>1, <2>2, <2>3 DEF ReaderPcs
<1>9. CASE RemoveCheck(r)
  <2>1. \/ pc' = [pc EXCEPT ![r] = "r_get"] /\ readable' /\ op[r] = "remove"
        \/ pc' = [pc EXCEPT ![r] = "r_first"]
        \/ pc' = [pc EXCEPT ![r] = "r_empty"]
    BY <1>9 DEF RemoveCheck, ToCopy, Removing
  <2>2. /\ UNCHANGED <<head, tail, buf, entered, removed, stale, op, limit, j, bytes>>
        /\ readable' = (j[r] # circ(tail + 1)) /\ pc[r] \in InRemove
    BY <1>9 DEF RemoveCheck, ring, history, InRemove
  <2>3. CASE pc' = [pc EXCEPT ![r] = "r_get"] /\ readable' /\ op[r] = "remove"
    BY <1>4, <1>5, <1>6, <2>2, <2>3 DEF ReaderPcs
  <2>4. CASE pc' = [pc EXCEPT ![r] = "r_first"] \/ pc' = [pc EXCEPT ![r] = "r_empty"]
    BY <1>7, <2>2, <2>4 DEF ReaderPcs
  <2> QED
    BY <2>1, <2>3, <2>4
<1>10. CASE RemoveWake(r)
  <2>1. \/ /\ pc' = [pc EXCEPT ![r] = "r_get"] /\ op[r] = "remove"
           /\ stale' = (stale \/ j[r] = circ(tail + 1))
        \/ pc' = [pc EXCEPT ![r] = "r_first"] /\ (stale => stale')
        \/ pc' = [pc EXCEPT ![r] = "r_empty"] /\ stale' = stale
    BY <1>10 DEF RemoveWake, ToCopy, Removing
  <2>2. /\ UNCHANGED <<head, tail, buf, entered, removed, op, limit, j, bytes>>
        /\ pc[r] \in InRemove
    BY <1>10 DEF RemoveWake, ring, InRemove
  <2>3. CASE /\ pc' = [pc EXCEPT ![r] = "r_get"] /\ op[r] = "remove"
             /\ stale' = (stale \/ j[r] = circ(tail + 1))
    BY <1>4, <1>5, <1>6, <2>2, <2>3 DEF ReaderPcs
  <2>4. CASE \/ pc' = [pc EXCEPT ![r] = "r_first"] /\ (stale => stale')
             \/ pc' = [pc EXCEPT ![r] = "r_empty"] /\ stale' = stale
    BY <1>7, <2>2, <2>4 DEF ReaderPcs
  <2> QED
    BY <2>1, <2>3, <2>4
<1>11. CASE ReadFirst(r)
  <2>1. /\ UNCHANGED <<head, tail, buf, entered, removed, stale, op, j, bytes>>
        /\ pc[r] \in InRemove
        /\ \/ pc' = [pc EXCEPT ![r] = "r_get"] /\ j[r] # circ(tail + 1)
           \/ pc' = [pc EXCEPT ![r] = "r_out"]
    BY <1>11 DEF ReadFirst, ring, history, InRemove
  <2>2. PICK b \in {circ(tail + 1), N} : limit' = [limit EXCEPT ![r] = b]
    BY <1>11 DEF ReadFirst
  <2>3. limit'[r] = b /\ \A q \in Readers : q # r => limit'[q] = limit[q]
    BY <1>1, <2>2
  <2>4. CASE pc' = [pc EXCEPT ![r] = "r_get"] /\ j[r] # circ(tail + 1)
    <3>1. ASSUME ~stale'
          PROVE  /\ Taken < entered
                 /\ b # N => \E e \in Taken .. entered : b = (e + 1) % N /\ Taken < e
      <4>1. Taken < entered /\ circ(tail + 1) = (entered + 1) % N
        BY <1>1, <1>4, <2>1, <2>4, <3>1, TestsMean DEF RingOK
      <4>2. entered \in Taken .. entered
        BY <1>1, <4>1
      <4> QED
        BY <2>2, <4>1, <4>2
    <3> QED
      BY <1>5, <2>1, <2>3, <2>4, <3>1 DEF ReaderPcs
  <2>5. CASE pc' = [pc EXCEPT ![r] = "r_out"]
    BY <1>7, <2>1, <2>3, <2>5 DEF ReaderPcs
  <2> QED
    BY <2>1, <2>4, <2>5
<1>12. CASE ReadScan(r)
  <2>1. /\ UNCHANGED <<head, tail, buf, entered, removed, stale, op, j, bytes, limit>>
        /\ pc[r] = "r_scan"
        /\ \/ /\ pc' = [pc EXCEPT ![r] = "r_get"]
              /\ j[r] # IF limit[r] = N THEN circ(tail + 1) ELSE limit[r]
           \/ pc' = [pc EXCEPT ![r] = "r_out"]
    BY <1>12 DEF ReadScan, ring, history
  <2>2. CASE /\ pc' = [pc EXCEPT ![r] = "r_get"]
             /\ j[r] # IF limit[r] = N THEN circ(tail + 1) ELSE limit[r]
    <3>1. ASSUME ~stale'
          PROVE  /\ Taken < entered
                 /\ limit[r] # N => \E e \in Taken .. entered : limit[r] = (e + 1) % N /\ Taken < e
      <4>1. head = (Taken + 1) % N /\ j[r] = head /\ op[r] = "read"
        BY <1>1, <1>4, <2>1, <3>1 DEF RingOK, RingHoldsTheRest, Taken, InRemove, PositionsOK, Moving,
           Removing
      <4>2. CASE limit[r] = N
        BY <1>6, <2>1, <2>2, <3>1, <4>1, <4>2
      <4>3. CASE limit[r] # N
        <5>1. PICK e \in Taken .. entered : limit[r] = (e + 1) % N
          BY <2>1, <3>1, <4>1, <4>3 DEF RingOK, ReadersRing
        <5>2. e # Taken
          BY <2>2, <4>1, <4>3, <5>1
        <5>3. Taken < e
          BY <1>1, <5>1, <5>2
        <5> QED
          BY <1>1, <4>3, <5>1, <5>3
      <4> QED
        BY <4>2, <4>3
    <3> QED
      BY <1>5, <2>1, <2>2, <3>1 DEF ReaderPcs
  <2>3. CASE pc' = [pc EXCEPT ![r] = "r_out"]
    BY <1>7, <2>1, <2>3 DEF ReaderPcs
  <2> QED
    BY <2>1, <2>2, <2>3
<1>13. CASE RemoveGet(r)
  <2>1. /\ UNCHANGED <<head, tail, buf, entered, removed, stale, op, j, limit>>
        /\ pc[r] = "r_get" /\ pc' = [pc EXCEPT ![r] = "r_head"]
        /\ bytes' = [bytes EXCEPT ![r] = Append(@, buf[j[r]])]
    BY <1>13 DEF RemoveGet, ring, history
  <2>2. ASSUME ~stale'
        PROVE  /\ Taken < entered /\ bytes'[r][Len(bytes'[r])] = Taken + 1
               /\ op[r] = "read" /\ limit[r] # N =>
                    \E e \in Taken .. entered : limit[r] = (e + 1) % N /\ Taken < e
    <3>1. RingHoldsTheRest /\ ReadersRing /\ ~stale
      BY <2>1, <2>2 DEF RingOK
    <3>2. Taken < entered
      BY <2>1, <3>1 DEF ReadersRing
    <3>3. Taken + 1 \in Taken + 1 .. entered
      BY <1>1, <3>2
    <3>4. buf[j[r]] = Taken + 1
      BY <1>4, <2>1, <3>1, <3>3 DEF RingHoldsTheRest, Taken, InRemove
    <3>5. bytes'[r] = Append(bytes[r], buf[j[r]]) /\ bytes[r] \in Seq(Values)
      BY <1>1, <2>1
    <3>6. bytes'[r][Len(bytes'[r])] = buf[j[r]]
      BY <3>5
    <3> QED
      BY <2>1, <3>1, <3>2, <3>4, <3>6 DEF ReadersRing
  <2>3. \A q \in Readers : q # r => bytes'[q] = bytes[q]
    BY <1>1, <2>1
  <2> QED
    BY <1>5, <2>1, <2>2, <2>3 DEF ReaderPcs
<1>14. CASE RemoveHead(r)
  <2>1. PICK l \in {"r_out", "r_check", "r_scan"} : pc' = [pc EXCEPT ![r] = l]
    BY <1>14 DEF RemoveHead
  <2>2. /\ UNCHANGED <<tail, buf, entered, stale, op, limit, bytes>>
        /\ pc[r] = "r_head" /\ head' = circ(head + 1)
        /\ removed' = Append(removed, bytes[r][Len(bytes[r])])
        /\ \A v \in Writers : j'[v] = j[v]
    BY <1>1, <1>2, <1>14 DEF RemoveHead, TypeOK
  <2>3. pc'[r] = l /\ \A t \in Threads : t # r => pc'[t] = pc[t]
    BY <1>1, <2>1
  <2>4. ASSUME ~stale' PROVE RingHoldsTheRest' /\ WritersRing' /\ ReadersRing' /\ RemovedInOrder'
    <3>1. WritersRing /\ ReadersRing /\ RingHoldsTheRest /\ ~stale /\ RemovedInOrder
      BY <2>2, <2>4 DEF RingOK
    <3>2. /\ Taken < entered /\ head' = (Taken + 2) % N
          /\ removed' = Append(removed, Taken + 1)
      BY <1>1, <2>2, <3>1, TestsMean DEF ReadersRing
    <3>3. Taken' = Taken + 1
      BY <1>1, <3>2 DEF Taken
    <3>4. RingHoldsTheRest'
      <4>1. (Taken + 1) + 1 = Taken + 2
        BY <1>1
      <4>2. /\ Taken + 1 <= entered /\ entered - (Taken + 1) <= N - 1
            /\ tail = entered % N
        BY <1>1, <3>1, <3>2 DEF RingHoldsTheRest, Taken
      <4>3. \A k \in (Taken + 1) + 1 .. entered : buf[k % N] = k
        BY <1>1, <3>1 DEF RingHoldsTheRest, Taken
      <4>4. /\ Taken' <= entered' /\ entered' - Taken' <= N - 1
            /\ tail' = entered' % N /\ head' = (Taken' + 1) % N
            /\ \A k \in Taken' + 1 .. entered' : buf'[k % N] = k
        BY <2>2, <3>2, <3>3, <4>1, <4>2, <4>3
      <4> QED
        BY <4>4 DEF RingHoldsTheRest, Taken
    <3>5. WritersRing'
      <4>1. \A v \in Writers : pc'[v] = pc[v] /\ j'[v] = j[v]
        BY <1>2, <2>2, <2>3
      <4>2. entered - Taken < N - 1 => entered - (Taken + 1) < N - 1
        BY <1>1
      <4> QED
        BY <2>2, <3>1, <3>3, <4>1, <4>2 DEF WritersRing
    <3>6. ReadersRing'
      <4>1. \A q \in Readers : q # r => pc'[q] \notin {"r_get", "r_head", "r_scan"}
        BY <1>2, <1>3, <2>2, <2>3 DEF InRemove
      <4>2. ASSUME op[r] = "read", limit[r] # N
            PROVE  \E e \in Taken + 1 .. entered : limit[r] = (e + 1) % N
        <5>1. PICK e \in Taken .. entered : limit[r] = (e + 1) % N /\ Taken < e
          BY <2>2, <3>1, <4>2 DEF ReadersRing
        <5> QED
          BY <1>1, <5>1
      <4> QED
        BY <2>2, <2>3, <3>3, <4>1, <4>2 DEF ReadersRing
    <3>7. RemovedInOrder'
      BY <1>1, <3>1, <3>2 DEF RemovedInOrder, Taken
    <3> QED
      BY <3>4, <3>5, <3>6, <3>7
  <2>5. stale => RingHoldsTheRest'
    BY <2>2 DEF RingHoldsTheRest
  <2> QED
    BY <2>2, <2>4, <2>5 DEF RingOK
<1>15. CASE RemoveRefcnt(r) \/ RemoveWait(r) \/ RemoveOut(r)
  <2>1. PICK l \in {"r_signal", "r_out", "r_wait", "r_idle"} : pc' = [pc EXCEPT ![r] = l]
    BY <1>15 DEF RemoveRefcnt, RemoveWait, RemoveOut
  <2>2. UNCHANGED <<head, tail, buf, entered, removed, stale, j, bytes, limit, op>>
    BY <1>15 DEF RemoveRefcnt, RemoveWait, RemoveOut, ring, history
  <2> QED
    BY <1>7, <2>1, <2>2 DEF ReaderPcs
<1> QED
  BY <1>8, <1>9, <1>10, <1>11, <1>12, <1>13, <1>14, <1>15 DEF Remove

\* Every step keeps the ring a queue, as long as no wake-up was stale.
LEMMA NextRing == IInv /\ RingOK /\ [Next]_vars => RingOK'
<1> SUFFICES ASSUME IInv, RingOK, [Next]_vars PROVE RingOK'
  OBVIOUS
<1> USE DEF Goto
<1>1. /\ TypeOK
      /\ bytes \in [Readers -> Seq(Values)] /\ limit \in [Readers -> 0 .. N]
      /\ j \in [Threads -> Slots] /\ op \in [Readers -> {"remove", "read", "lookahead"}]
  BY DEF IInv, TypeOK
<1>2. /\ \A v \in Writers : v \in Threads /\ v \notin Readers
      /\ \A q \in Readers : q \in Threads /\ q \notin Writers
  BY DEF Threads
<1>3. ASSUME NEW w \in Writers, EnterLock(w) \/ EofLoad(w) \/ EofStore(w) PROVE RingOK'
  <2>1. PICK l \in {"w_done", "w_check", "w_eof", "w_ended"} : pc' = [pc EXCEPT ![w] = l]
    BY <1>3 DEF EnterLock, EofLoad, EofStore
  <2>2. UNCHANGED <<head, tail, buf, entered, removed, stale, bytes, limit, op>>
    BY <1>3 DEF EnterLock, EofLoad, EofStore, ring, history
  <2>3. \A s \in Threads : s # w => j'[s] = j[s]
    BY <1>1, <1>3 DEF EnterLock, EofLoad, EofStore
  <2> QED
    BY <1>1, <1>2, <2>1, <2>2, <2>3, ReliesOnNothing DEF WriterPcs
<1>4. ASSUME NEW r \in Readers,
             Call(r) \/ Lookahead(r) \/ UngetTest(r) \/ UngetFlag(r) \/ UngetChar(r)
      PROVE  RingOK'
  <2>1. PICK l \in InLook \cup {"r_lock", "r_idle", "u_flag", "u_char"} : pc' = [pc EXCEPT ![r] = l]
    BY <1>4 DEF Call, Lookahead, LookCheck, LookRefcnt, LookGet, LookOut, UngetTest,
       UngetFlag, UngetChar, InLook
  <2>2. UNCHANGED <<head, tail, buf, entered, removed, stale>>
    BY <1>4 DEF Call, Lookahead, LookCheck, LookRefcnt, LookGet, LookOut, UngetTest,
       UngetFlag, UngetChar, ring, history
  <2>3. \A s \in Threads : s # r => j'[s] = j[s]
    BY <1>1, <1>4 DEF Call, Lookahead, LookCheck, LookRefcnt, LookGet, LookOut, UngetTest,
       UngetFlag, UngetChar
  <2>4. \A q \in Readers : q # r => /\ bytes'[q] = bytes[q] /\ limit'[q] = limit[q]
                                    /\ op'[q] = op[q]
    BY <1>1, <1>4 DEF Call, Lookahead, LookCheck, LookRefcnt, LookGet, LookOut, UngetTest,
       UngetFlag, UngetChar
  <2> QED
    BY <1>1, <1>2, <2>1, <2>2, <2>3, <2>4, ReliesOnNothing DEF ReaderPcs, InLook
<1>5. ASSUME UNCHANGED <<head, tail, buf, entered, removed, stale, pc, j, bytes, limit, op>>
      PROVE  RingOK'
  BY <1>5 DEF RingOK, RingHoldsTheRest, RemovedInOrder, WritersRing, ReadersRing, Taken
<1>6. ASSUME NEW t \in Threads, SpuriousWakeup(t) PROVE RingOK'
  BY <1>5, <1>6 DEF SpuriousWakeup, ring, history
<1>7. CASE UNCHANGED vars
  BY <1>5, <1>7 DEF vars
<1> QED
  BY <1>3, <1>4, <1>6, <1>7, EnterRing, RemoveRing DEF Next, Step

\* An empty ring is the empty queue.
LEMMA InitRing == Init => RingOK
<1> SUFFICES ASSUME Init PROVE RingOK
  OBVIOUS
<1>1. 0 % N = 0 /\ 1 % N = 1
  BY ModRange
<1>2. Len(removed) = 0 /\ entered = 0
  BY DEF Init
<1>3. \A t \in Writers \cup Readers : pc[t] \in {"w_idle", "r_idle"}
  BY DEF Init, Threads
<1> QED
  BY <1>1, <1>2, <1>3 DEF Init, RingOK, RingHoldsTheRest, RemovedInOrder, WritersRing,
     ReadersRing, Taken

\* So both hold always.
THEOREM RingInductive == Spec => [](IInv /\ RingOK)
<1>1. Init => IInv /\ RingOK
  BY InitIInv, InitRing
<1>2. IInv /\ RingOK /\ [Next]_vars => (IInv /\ RingOK)'
  BY NextType, NextLocals, NextLocks, NextPositions, NextFlags, NextOwed, NextRing DEF IInv
<1> QED
  BY <1>1, <1>2, PTL DEF Spec

\* Until a woken thread goes on with a false condition, the ring holds exactly
\* the items entered and not removed, in order.
THEOREM RingSafe == Spec => []RingHoldsTheRest
<1>1. IInv /\ RingOK => RingHoldsTheRest
  BY DEF RingOK
<1> QED
  BY <1>1, RingInductive, PTL

\* Until then the buffer is a bounded queue: every step of the code is a put,
\* a take, or none of the queue's business.
THEOREM Refinement == Spec => ImplementsFifo
<1>1. Init => Fifo!Init
  BY DEF Init, Fifo!Init
<1>2. IInv /\ RingOK /\ [Next]_vars => [Fifo!Next]_(Fifo!vars)
  <2> SUFFICES ASSUME IInv, RingOK, [Next]_vars
               PROVE  Fifo!Next \/ UNCHANGED <<entered, removed, stale>>
    BY DEF Fifo!vars
  <2>1. /\ removed \in Seq(Values) /\ entered \in Nat /\ stale \in BOOLEAN
        /\ bytes \in [Readers -> Seq(Values)]
    BY DEF IInv, TypeOK
  <2>2. ASSUME stale, stale' PROVE Fifo!Next
    BY <2>2 DEF Fifo!Next, Fifo!Lapsed
  <2>3. ASSUME NEW w \in Writers, EnterTail(w) PROVE Fifo!Next
    <3>1. /\ entered' = entered + 1 /\ removed' = removed /\ stale' = stale
          /\ pc[w] = "w_tail"
      BY <2>3 DEF EnterTail
    <3>2. ~stale => entered - Len(removed) < N - 1
      BY <3>1 DEF RingOK, WritersRing, Taken
    <3> QED
      BY <2>1, <2>2, <3>1, <3>2 DEF Fifo!Next, Fifo!Put
  <2>4. ASSUME NEW r \in Readers, RemoveHead(r) PROVE Fifo!Next
    <3>1. /\ entered' = entered /\ stale' = stale /\ pc[r] = "r_head"
          /\ removed' = Append(removed, bytes[r][Len(bytes[r])])
      BY <2>4 DEF RemoveHead
    <3>2. ~stale => /\ Len(removed) < entered
                    /\ bytes[r][Len(bytes[r])] = Len(removed) + 1
      BY <3>1 DEF RingOK, ReadersRing, Taken
    <3> QED
      BY <2>1, <2>2, <3>1, <3>2 DEF Fifo!Next, Fifo!Take
  <2>5. ASSUME entered' = entered, removed' = removed, stale' \in BOOLEAN, stale => stale'
        PROVE  Fifo!Next \/ UNCHANGED <<entered, removed, stale>>
    BY <2>1, <2>5 DEF Fifo!Next, Fifo!Break
  <2>6. ASSUME NEW w \in Writers,
               \/ EnterLock(w) \/ EofLoad(w) \/ EofStore(w) \/ EnterCheck(w) \/ EnterWait(w)
               \/ EnterPut(w) \/ EnterDone(w)
        PROVE  UNCHANGED <<entered, removed, stale>>
    BY <2>6 DEF EnterLock, EofLoad, EofStore, EnterCheck, EnterWait, EnterPut, EnterDone, history
  <2>7. ASSUME NEW w \in Writers, EnterWake(w)
        PROVE  Fifo!Next \/ UNCHANGED <<entered, removed, stale>>
    <3>1. entered' = entered /\ removed' = removed
      BY <2>7 DEF EnterWake
    <3>2. stale' = (stale \/ j[w] = circ(head - 1)) \/ stale' = stale
      BY <2>7 DEF EnterWake
    <3>3. stale' \in BOOLEAN /\ (stale => stale')
      BY <2>1, <3>2, Zenon
    <3> QED
      BY <2>5, <3>1, <3>3
  <2>8. ASSUME NEW r \in Readers, RemoveWake(r)
        PROVE  Fifo!Next \/ UNCHANGED <<entered, removed, stale>>
    <3>1. entered' = entered /\ removed' = removed
      BY <2>8 DEF RemoveWake
    <3>2. \/ stale' = (stale \/ (Removing(r) /\ j[r] = circ(tail + 1)))
          \/ stale' = stale
      BY <2>8 DEF RemoveWake
    <3>3. stale' \in BOOLEAN /\ (stale => stale')
      BY <2>1, <3>2, Zenon
    <3> QED
      BY <2>5, <3>1, <3>3
  <2>9. ASSUME NEW r \in Readers,
               \/ Call(r) \/ CallLock(r) \/ CallUngot(r) \/ RemoveCheck(r) \/ RemoveRefcnt(r) \/ RemoveWait(r)
               \/ ReadFirst(r) \/ ReadScan(r) \/ RemoveGet(r) \/ RemoveOut(r) \/ Lookahead(r)
               \/ UngetTest(r) \/ UngetFlag(r) \/ UngetChar(r)
        PROVE  UNCHANGED <<entered, removed, stale>>
    BY <2>9 DEF Call, CallLock, CallUngot, RemoveCheck, RemoveRefcnt, RemoveWait, ReadFirst, ReadScan,
       RemoveGet, RemoveOut, Lookahead, LookCheck, LookRefcnt, LookGet, LookOut, UngetTest,
       UngetFlag, UngetChar, history
  <2>10. ASSUME NEW t \in Threads, SpuriousWakeup(t) PROVE UNCHANGED <<entered, removed, stale>>
    BY <2>10 DEF SpuriousWakeup, history
  <2>11. CASE UNCHANGED vars
    BY <2>11 DEF vars
  <2> QED
    BY <2>3, <2>4, <2>6, <2>7, <2>8, <2>9, <2>10, <2>11 DEF Next, Step, Enter, Remove
<1> QED
  BY <1>1, <1>2, RingInductive, PTL DEF Spec, ImplementsFifo, Fifo!Spec
=============================================================================
