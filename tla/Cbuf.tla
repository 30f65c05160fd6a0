-------------------------------- MODULE Cbuf --------------------------------
(***************************************************************************)
(* The circular buffer of buffer/cbuf.c: the threads that enter, remove,   *)
(* read, look ahead and unget, their four mutexes, the two condition       *)
(* variables and the two flags they wait on.                               *)
(*                                                                         *)
(* One step of the model is one access to memory the other threads see, or *)
(* a stretch of code whose other accesses are protected by a mutex held    *)
(* throughout.  A critical section that only releases the mutex at its end *)
(* is one step; where a thread keeps one mutex and asks for another, the   *)
(* two acquisitions are two steps.                                         *)
(*                                                                         *)
(* Data: an item is the number of its place in the order of entry, Ungot a *)
(* character given to unget_cbuf, Junk whatever memory held before.        *)
(***************************************************************************)
EXTENDS Integers, Sequences, FiniteSets

CONSTANTS Writers,       \* threads that call enter_cbuf
          Readers,       \* threads that call the other operations
          N,             \* bufsize; N - 1 items fit
          MaxItems,      \* bound: items entered in a behaviour
          EnterCounts,   \* the counts enter_cbuf is called with
          RemoveCounts,  \* the counts the reading operations are called with
          ReaderOps,     \* the operations the readers call
          TermItems,     \* items that match termchr, or carry the 0x100 bit
          Ungot, Junk, NoOne

ASSUME CbufAssumption ==
    /\ N \in Nat /\ N >= 2
    /\ MaxItems \in Nat
    /\ EnterCounts \subseteq Nat
    /\ RemoveCounts \subseteq Nat \ {0}
    /\ ReaderOps \subseteq {"remove", "read", "lookahead", "unget"}
    /\ TermItems \subseteq Nat
    /\ IsFiniteSet(Writers)
    /\ Writers \cap Readers = {}
    /\ NoOne \notin Writers \cup Readers
    /\ Junk \notin Nat /\ Ungot \notin Nat /\ Junk # Ungot

VARIABLES head,       \* index of the first valid item
          tail,       \* index of the last valid item
          buf,
          readable, writeable,      \* the flags of the two conditions
          refcnt,                   \* writers that have not reached eof
          have_unget, ungetc, reason,
          owner,      \* which thread holds each mutex
          waiting,    \* threads blocked in pthread_cond_wait
          pc, op, count, actual, j, \* the locals of the call in progress
          bytes,      \* what the reader's call has stored so far
          limit,      \* tail+1 as read_cbuf's copy loop keeps it; N: it keeps none
          seen,       \* refcnt as a writer's refcnt-- loaded it
          entered,    \* history: how many items have been entered
          removed,    \* history: the items taken, in order
          stale       \* history: a woken thread found its condition false

ring    == <<head, tail, buf>>
unget   == <<have_unget, ungetc>>
history == <<entered, removed, stale>>
vars    == <<head, tail, buf, readable, writeable, refcnt, have_unget, ungetc,
             reason, owner, waiting, pc, op, count, actual, j, bytes, limit,
             seen, entered, removed, stale>>

Threads == Writers \cup Readers
Locks   == {"writelock", "readlock", "readable_lock", "writeable_lock"}
Slots   == 0 .. N - 1
Values  == Nat \cup {Junk, Ungot}

\* Bug: circ() wraps one index too late.
circLate(a) == IF a < 0 THEN a + N ELSE IF a > N THEN a % N ELSE a

\* C's circ(): an index that may have gone one below zero, brought back.
circ(a) == IF a < 0 THEN a + N ELSE a % N

Empty == head = circ(tail + 1)          \* the remover's test, negated
Full  == circ(tail + 1) = circ(head - 1) \* the writer's test, negated

----------------------------------------------------------------------------
(* Mutexes, condition variables and program counters.                      *)

\* Bug: enter_cbuf does not take writelock.
FreeOrWritelock(l) == owner[l] = NoOne \/ l = "writelock"

Free(l)       == owner[l] = NoOne
Holds(t, l)   == owner[l] = t
Goto(t, l)    == pc' = [pc EXCEPT ![t] = l]

\* Bug: whoever waits is not signalled.
WokenNone(T) == {waiting}

\* pthread_cond_signal: one of the threads of T that wait, if any, is woken.
\* The wait sets it may leave.
Woken(T) == IF waiting \cap T = {} THEN {waiting}
            ELSE {waiting \ {t} : t \in waiting \cap T}

\* Bugs: the flag is set with no signal; or with no mutex held.
SignalReadableSilent    == Free("readable_lock") /\ readable' = TRUE /\ UNCHANGED waiting
SignalReadableUnlocked  == readable' = TRUE /\ waiting' \in Woken(Readers)
SignalWriteableUnlocked == writeable' = TRUE /\ waiting' \in Woken(Writers)

\* The signalling sections of the code: lock, set the flag, signal, unlock.
SignalReadable == /\ Free("readable_lock")
                  /\ readable' = TRUE
                  /\ waiting' \in Woken(Readers)
SignalWriteable == /\ Free("writeable_lock")
                   /\ writeable' = TRUE
                   /\ waiting' \in Woken(Writers)

Init ==
    /\ head = 1 /\ tail = 0 /\ buf = [k \in Slots |-> Junk]
    /\ readable = FALSE /\ writeable = TRUE
    /\ refcnt = Cardinality(Writers)
    /\ have_unget = FALSE /\ ungetc = Junk /\ reason = "NOTERM"
    /\ owner = [l \in Locks |-> NoOne] /\ waiting = {}
    /\ pc = [t \in Threads |-> IF t \in Writers THEN "w_idle" ELSE "r_idle"]
    /\ op = [r \in Readers |-> "remove"]
    /\ count = [t \in Threads |-> 0]
    /\ actual = [w \in Writers |-> 0]
    /\ j = [t \in Threads |-> 0]
    /\ bytes = [r \in Readers |-> <<>>]
    /\ limit = [r \in Readers |-> N]
    /\ seen = [w \in Writers |-> 0]
    /\ entered = 0 /\ removed = <<>> /\ stale = FALSE

----------------------------------------------------------------------------
(* enter_cbuf                                                              *)

\* The call, up to the first evaluation of the loop's bounds.
EnterLock(w) ==
    /\ pc[w] = "w_idle" /\ Free("writelock")
    /\ \E c \in EnterCounts :
        /\ entered + c <= MaxItems
        /\ count' = [count EXCEPT ![w] = c]
        /\ Goto(w, IF c = 0 THEN "w_done" ELSE "w_check")
    /\ owner' = [owner EXCEPT !["writelock"] = w]
    /\ actual' = [actual EXCEPT ![w] = 0]
    /\ j' = [j EXCEPT ![w] = circ(tail + 1)]
    /\ UNCHANGED <<ring, readable, writeable, refcnt, unget, reason, waiting,
                   op, bytes, limit, seen, history>>

\* Bug: the writer fills the slot that tells a full ring from an empty one.
EnterCheckLastSlot(w) ==
    /\ pc[w] = "w_check" /\ Free("writeable_lock")
    /\ writeable' = (j[w] # head)
    /\ \/ writeable' /\ Goto(w, "w_put") /\ UNCHANGED owner
       \/ /\ ~writeable' /\ Goto(w, "w_full")
          /\ owner' = [owner EXCEPT !["writeable_lock"] = w]
    /\ UNCHANGED <<ring, readable, refcnt, unget, reason, waiting, op, count,
                   actual, j, bytes, limit, seen, history>>

\* Under writeable_lock: recompute the flag; keep the lock if it is false.
EnterCheck(w) ==
    /\ pc[w] = "w_check" /\ Free("writeable_lock")
    /\ writeable' = (j[w] # circ(head - 1))
    /\ \/ writeable' /\ Goto(w, "w_put") /\ UNCHANGED owner
       \/ /\ ~writeable' /\ Goto(w, "w_full")
          /\ owner' = [owner EXCEPT !["writeable_lock"] = w]
    /\ UNCHANGED <<ring, readable, refcnt, unget, reason, waiting, op, count,
                   actual, j, bytes, limit, seen, history>>

\* The buffer looked full: tell the reader, then release writeable_lock and
\* wait, which pthread_cond_wait does in one step.
EnterWait(w) ==
    /\ pc[w] = "w_full" /\ Free("readable_lock")
    /\ readable' = TRUE
    /\ \E set \in Woken(Readers) : waiting' = set \cup {w}
    /\ owner' = [owner EXCEPT !["writeable_lock"] = NoOne]
    /\ Goto(w, "w_wait")
    /\ UNCHANGED <<ring, writeable, refcnt, unget, reason, op, count, actual,
                   j, bytes, limit, seen, history>>

\* pthread_cond_wait returns; the loop tests the flag and nothing else.
EnterWake(w) ==
    /\ pc[w] = "w_wait" /\ w \notin waiting /\ Free("writeable_lock")
    /\ \/ /\ writeable /\ Goto(w, "w_put") /\ UNCHANGED owner
          /\ stale' = (stale \/ j[w] = circ(head - 1))
       \/ /\ ~writeable /\ Goto(w, "w_full") /\ UNCHANGED stale
          /\ owner' = [owner EXCEPT !["writeable_lock"] = w]
    /\ UNCHANGED <<ring, readable, writeable, refcnt, unget, reason, waiting,
                   op, count, actual, j, bytes, limit, seen, entered, removed>>

EnterPut(w) ==
    /\ pc[w] = "w_put"
    /\ buf' = [buf EXCEPT ![j[w]] = entered + 1]
    /\ actual' = [actual EXCEPT ![w] = @ + 1]
    /\ Goto(w, "w_tail")
    /\ UNCHANGED <<head, tail, readable, writeable, refcnt, unget, reason,
                   owner, waiting, op, count, j, bytes, limit, seen, history>>

\* The item becomes visible to the readers, and the loop goes round.
EnterTail(w) ==
    /\ pc[w] = "w_tail"
    /\ tail' = circ(tail + 1)
    /\ j' = [j EXCEPT ![w] = circ(@ + 1)]
    /\ entered' = entered + 1
    /\ Goto(w, IF actual[w] < count[w] THEN "w_check" ELSE "w_done")
    /\ UNCHANGED <<head, buf, readable, writeable, refcnt, unget, reason, owner,
                   waiting, op, count, actual, bytes, limit, seen, removed,
                   stale>>

\* Tell the readers if anything was entered, release writelock, return.
EnterDone(w) ==
    /\ pc[w] = "w_done"
    /\ IF actual[w] > 0 THEN SignalReadable ELSE UNCHANGED <<readable, waiting>>
    /\ owner' = [owner EXCEPT !["writelock"] = NoOne]
    /\ Goto(w, "w_idle")
    /\ UNCHANGED <<ring, writeable, refcnt, unget, reason, op, count, actual,
                   j, bytes, limit, seen, history>>

\* A writer at end of file: buffer->refcnt-- in the client, with no mutex and
\* no signal.  It is a load and a store.
EofLoad(w) ==
    /\ pc[w] = "w_idle"
    /\ seen' = [seen EXCEPT ![w] = refcnt]
    /\ Goto(w, "w_eof")
    /\ UNCHANGED <<ring, readable, writeable, refcnt, unget, reason, owner,
                   waiting, op, count, actual, j, bytes, limit, history>>

EofStore(w) ==
    /\ pc[w] = "w_eof"
    /\ refcnt' = seen[w] - 1
    /\ Goto(w, "w_ended")
    /\ UNCHANGED <<ring, readable, writeable, unget, reason, owner, waiting,
                   op, count, actual, j, bytes, limit, seen, history>>
----------------------------------------------------------------------------
(* remove_cbuf and read_cbuf                                               *)

Removing(r) == op[r] = "remove"
Moving(r)   == op[r] \in {"remove", "read"}   \* the operations that move head
ToCopy(r)   == IF Removing(r) THEN "r_get" ELSE "r_first"

\* The call: reason is cleared before readlock is taken; lookahead_cbuf has
\* neither a reason nor an unget.
Call(r) ==
    /\ pc[r] = "r_idle"
    /\ \E o \in ReaderOps \ {"unget"}, c \in RemoveCounts :
        /\ op' = [op EXCEPT ![r] = o]
        /\ count' = [count EXCEPT ![r] = c]
        /\ reason' = IF o = "lookahead" THEN reason ELSE "NOTERM"
    /\ bytes' = [bytes EXCEPT ![r] = <<>>]
    /\ limit' = [limit EXCEPT ![r] = N]
    /\ Goto(r, "r_lock")
    /\ UNCHANGED <<ring, readable, writeable, refcnt, unget, owner, waiting,
                   actual, j, seen, history>>

\* Take readlock, start at head, and see whether a character was given back.
CallLock(r) ==
    /\ pc[r] = "r_lock" /\ Free("readlock")
    /\ owner' = [owner EXCEPT !["readlock"] = r]
    /\ j' = [j EXCEPT ![r] = head]
    /\ Goto(r, IF op[r] = "lookahead" THEN "l_check"
               ELSE IF have_unget THEN "r_ungot" ELSE "r_check")
    /\ UNCHANGED <<ring, readable, writeable, refcnt, unget, reason, waiting, op,
                   count, actual, bytes, limit, seen, history>>

\* Bug: the character given back is not forgotten.
CallUngotKept(r) ==
    /\ pc[r] = "r_ungot"
    /\ bytes' = [bytes EXCEPT ![r] = <<ungetc>>]
    /\ Goto(r, IF Removing(r) /\ count[r] = 1 THEN "r_out" ELSE "r_check")
    /\ UNCHANGED <<ring, readable, writeable, refcnt, unget, reason, owner, waiting,
                   op, count, actual, j, limit, seen, history>>

\* Deliver it first.
CallUngot(r) ==
    /\ pc[r] = "r_ungot"
    /\ bytes' = [bytes EXCEPT ![r] = <<ungetc>>]
    /\ have_unget' = FALSE
    /\ Goto(r, IF Removing(r) /\ count[r] = 1 THEN "r_out" ELSE "r_check")
    /\ UNCHANGED <<ring, readable, writeable, refcnt, ungetc, reason, owner, waiting,
                   op, count, actual, j, limit, seen, history>>

\* Bug: the remover takes the last item for an empty buffer.
RemoveCheckLastItem(r) ==
    /\ pc[r] = "r_check" /\ Free("readable_lock")
    /\ readable' = (j[r] # tail)
    /\ \/ readable' /\ Goto(r, ToCopy(r)) /\ UNCHANGED owner
       \/ /\ ~readable' /\ Goto(r, "r_empty")
          /\ owner' = [owner EXCEPT !["readable_lock"] = r]
    /\ UNCHANGED <<ring, writeable, refcnt, unget, reason, waiting, op, count,
                   actual, j, bytes, limit, seen, history>>

\* Under readable_lock: recompute the flag; keep the lock if it is false.
RemoveCheck(r) ==
    /\ pc[r] = "r_check" /\ Free("readable_lock")
    /\ readable' = (j[r] # circ(tail + 1))
    /\ \/ readable' /\ Goto(r, ToCopy(r)) /\ UNCHANGED owner
       \/ /\ ~readable' /\ Goto(r, "r_empty")
          /\ owner' = [owner EXCEPT !["readable_lock"] = r]
    /\ UNCHANGED <<ring, writeable, refcnt, unget, reason, waiting, op, count,
                   actual, j, bytes, limit, seen, history>>

\* With no writer left the call ends short.
RemoveRefcnt(r) ==
    /\ pc[r] = "r_empty"
    /\ \/ /\ refcnt # 0 /\ Goto(r, "r_signal") /\ UNCHANGED owner
       \/ /\ refcnt = 0 /\ Goto(r, "r_out")
          /\ owner' = [owner EXCEPT !["readable_lock"] = NoOne]
    /\ UNCHANGED <<ring, readable, writeable, refcnt, unget, reason, waiting,
                   op, count, actual, j, bytes, limit, seen, history>>

\* Tell a writer there is room, then release readable_lock and wait.
RemoveWait(r) ==
    /\ pc[r] = "r_signal" /\ Free("writeable_lock")
    /\ writeable' = TRUE
    /\ \E set \in Woken(Writers) : waiting' = set \cup {r}
    /\ owner' = [owner EXCEPT !["readable_lock"] = NoOne]
    /\ Goto(r, "r_wait")
    /\ UNCHANGED <<ring, readable, refcnt, unget, reason, op, count, actual, j,
                   bytes, limit, seen, history>>

\* pthread_cond_wait returns; the loop tests the flag and nothing else.
RemoveWake(r) ==
    /\ pc[r] = "r_wait" /\ r \notin waiting /\ Free("readable_lock")
    /\ \/ /\ readable /\ Goto(r, ToCopy(r)) /\ UNCHANGED owner
          /\ stale' = (stale \/ (Removing(r) /\ j[r] = circ(tail + 1)))
       \/ /\ ~readable /\ Goto(r, "r_empty") /\ UNCHANGED stale
          /\ owner' = [owner EXCEPT !["readable_lock"] = r]
    /\ UNCHANGED <<ring, readable, writeable, refcnt, unget, reason, waiting,
                   op, count, actual, j, bytes, limit, seen, entered, removed>>

\* read_cbuf's copy loop tests tail without a lock.  A build may load tail
\* once for the whole loop (gcc -O3 does) or each time round (without -O).
ReadFirst(r) ==
    /\ pc[r] = "r_first"
    /\ limit' \in {[limit EXCEPT ![r] = b] : b \in {circ(tail + 1), N}}
    /\ Goto(r, IF Len(bytes[r]) < count[r] /\ j[r] # circ(tail + 1)
                 THEN "r_get" ELSE "r_out")
    /\ UNCHANGED <<ring, readable, writeable, refcnt, unget, reason, owner,
                   waiting, op, count, actual, j, bytes, seen, history>>

ReadScan(r) ==
    LET bound == IF limit[r] = N THEN circ(tail + 1) ELSE limit[r]
    IN /\ pc[r] = "r_scan"
       /\ Goto(r, IF Len(bytes[r]) < count[r] /\ j[r] # bound
                    THEN "r_get" ELSE "r_out")
       /\ UNCHANGED <<ring, readable, writeable, refcnt, unget, reason, owner,
                      waiting, op, count, actual, j, bytes, limit, seen,
                      history>>

RemoveGet(r) ==
    /\ pc[r] = "r_get"
    /\ bytes' = [bytes EXCEPT ![r] = Append(@, buf[j[r]])]
    /\ Goto(r, "r_head")
    /\ UNCHANGED <<ring, readable, writeable, refcnt, unget, reason, owner,
                   waiting, op, count, actual, j, limit, seen, history>>

\* head moves on; a terminator or the count ends the loop.
RemoveHead(r) ==
    LET item  == bytes[r][Len(bytes[r])]
        found == item \in TermItems
    IN /\ pc[r] = "r_head"
       /\ head' = circ(head + 1)
       /\ j' = [j EXCEPT ![r] = circ(@ + 1)]
       /\ reason' = IF found THEN "TERM" ELSE reason
       /\ removed' = Append(removed, item)
       /\ Goto(r, IF found \/ (Removing(r) /\ Len(bytes[r]) = count[r])
                    THEN "r_out"
                    ELSE IF Removing(r) THEN "r_check" ELSE "r_scan")
       /\ UNCHANGED <<tail, buf, readable, writeable, refcnt, unget, owner,
                      waiting, op, count, actual, bytes, limit, seen, entered,
                      stale>>

\* GET_OUT: the last byte asked for, stored or not, is kept for an unget; the
\* writers are told if anything was delivered; readlock is released.
RemoveOut(r) ==
    /\ pc[r] = "r_out"
    /\ ungetc' = IF Len(bytes[r]) = count[r] THEN bytes[r][count[r]] ELSE Junk
    /\ IF bytes[r] # <<>> THEN SignalWriteable
                          ELSE UNCHANGED <<writeable, waiting>>
    /\ owner' = [owner EXCEPT !["readlock"] = NoOne]
    /\ Goto(r, "r_idle")
    /\ UNCHANGED <<ring, readable, refcnt, have_unget, reason, op, count,
                   actual, j, bytes, limit, seen, history>>

----------------------------------------------------------------------------
(* lookahead_cbuf and unget_cbuf                                           *)

\* Spins with sched_yield while the buffer is empty: no step until the test
\* fails or refcnt is loaded.
LookCheck(r) ==
    /\ pc[r] = "l_check"
    /\ Goto(r, IF Len(bytes[r]) = count[r] THEN "l_out"
               ELSE IF j[r] # circ(tail + 1) THEN "l_get" ELSE "l_empty")
    /\ UNCHANGED <<ring, readable, writeable, refcnt, unget, reason, owner,
                   waiting, op, count, actual, j, bytes, limit, seen, history>>

LookRefcnt(r) ==
    /\ pc[r] = "l_empty"
    /\ Goto(r, IF refcnt = 0 THEN "l_out" ELSE "l_check")
    /\ UNCHANGED <<ring, readable, writeable, refcnt, unget, reason, owner,
                   waiting, op, count, actual, j, bytes, limit, seen, history>>

\* Bug: the lookahead does not move on.
LookGetAgain(r) ==
    /\ pc[r] = "l_get"
    /\ bytes' = [bytes EXCEPT ![r] = Append(@, buf[j[r]])]
    /\ Goto(r, "l_check")
    /\ UNCHANGED <<ring, readable, writeable, refcnt, unget, reason, owner,
                   waiting, op, count, actual, j, limit, seen, history>>

LookGet(r) ==
    /\ pc[r] = "l_get"
    /\ bytes' = [bytes EXCEPT ![r] = Append(@, buf[j[r]])]
    /\ j' = [j EXCEPT ![r] = circ(@ + 1)]
    /\ Goto(r, "l_check")
    /\ UNCHANGED <<ring, readable, writeable, refcnt, unget, reason, owner,
                   waiting, op, count, actual, limit, seen, history>>

LookOut(r) ==
    /\ pc[r] = "l_out"
    /\ owner' = [owner EXCEPT !["readlock"] = NoOne]
    /\ Goto(r, "r_idle")
    /\ UNCHANGED <<ring, readable, writeable, refcnt, unget, reason, waiting,
                   op, count, actual, j, bytes, limit, seen, history>>

\* unget_cbuf takes no lock: it tests the flag, sets it, and stores the
\* character, each in a step of its own.
UngetTest(r) ==
    /\ pc[r] = "r_idle" /\ "unget" \in ReaderOps
    /\ ~have_unget
    /\ Goto(r, "u_flag")
    /\ UNCHANGED <<ring, readable, writeable, refcnt, unget, reason, owner, waiting,
                   op, count, actual, j, bytes, limit, seen, history>>

UngetFlag(r) ==
    /\ pc[r] = "u_flag"
    /\ have_unget' = TRUE
    /\ Goto(r, "u_char")
    /\ UNCHANGED <<ring, readable, writeable, refcnt, ungetc, reason, owner,
                   waiting, op, count, actual, j, bytes, limit, seen, history>>

UngetChar(r) ==
    /\ pc[r] = "u_char"
    /\ ungetc' = Ungot
    /\ Goto(r, "r_idle")
    /\ UNCHANGED <<ring, readable, writeable, refcnt, have_unget, reason, owner,
                   waiting, op, count, actual, j, bytes, limit, seen, history>>

\* pthread_cond_wait may return without a signal.
SpuriousWakeup(t) ==
    /\ t \in waiting
    /\ waiting' = waiting \ {t}
    /\ UNCHANGED <<ring, readable, writeable, refcnt, unget, reason, owner, pc,
                   op, count, actual, j, bytes, limit, seen, history>>

----------------------------------------------------------------------------

Enter(w) == \/ EnterCheck(w) \/ EnterWait(w) \/ EnterWake(w)
            \/ EnterPut(w) \/ EnterTail(w) \/ EnterDone(w)

Remove(r) == \/ CallLock(r) \/ CallUngot(r) \/ RemoveCheck(r) \/ RemoveRefcnt(r)
             \/ RemoveWait(r) \/ RemoveWake(r) \/ ReadFirst(r)
             \/ ReadScan(r) \/ RemoveGet(r) \/ RemoveHead(r) \/ RemoveOut(r)

Lookahead(r) == LookCheck(r) \/ LookRefcnt(r) \/ LookGet(r) \/ LookOut(r)

Step == \/ \E w \in Writers : EnterLock(w) \/ Enter(w) \/ EofLoad(w) \/ EofStore(w)
        \/ \E r \in Readers : \/ Call(r) \/ Remove(r) \/ Lookahead(r)
                              \/ UngetTest(r) \/ UngetFlag(r) \/ UngetChar(r)

Next == Step \/ \E t \in Threads : SpuriousWakeup(t)

Spec == Init /\ [][Next]_vars

\* A call in progress is always continued, the mutex it asks for being free
\* for good; a reader always calls again, as the loops of parse_input and of
\* the test's empty_buf do; a writer may never have anything more to enter,
\* and may never reach end of file.  Spurious wake-ups only ever help, unless
\* they go on forever and keep the mutexes busy, which is left out here.
Fairness == /\ \A w \in Writers : WF_vars(Enter(w)) /\ WF_vars(EofStore(w))
            /\ \A r \in Readers : /\ WF_vars(Call(r)) /\ WF_vars(Remove(r))
                                  /\ WF_vars(Lookahead(r))
                                  /\ WF_vars(UngetFlag(r)) /\ WF_vars(UngetChar(r))

FairSpec == Init /\ [][Step]_vars /\ Fairness

----------------------------------------------------------------------------
(* What the program counters and locals range over.                        *)

WriterPcs == {"w_idle", "w_check", "w_full", "w_wait", "w_put", "w_tail",
              "w_done", "w_eof", "w_ended"}
ReaderPcs == {"r_idle", "r_lock", "r_ungot", "r_check", "r_empty", "r_signal", "r_wait",
              "r_first", "r_scan", "r_get", "r_head", "r_out", "l_check", "l_empty",
              "l_get", "l_out", "u_flag", "u_char"}

\* Every variable has its type; in particular no index leaves the ring and
\* no thread waits on the other kind's condition (cbuf.c, whole file).
TypeOK ==
    /\ head \in Slots /\ tail \in Slots
    /\ buf \in [Slots -> Values]
    /\ readable \in BOOLEAN /\ writeable \in BOOLEAN
    /\ refcnt \in Int
    /\ have_unget \in BOOLEAN /\ ungetc \in Values
    /\ reason \in {"NOTERM", "TERM"}
    /\ owner \in [Locks -> Threads \cup {NoOne}]
    /\ waiting \in SUBSET Threads
    /\ pc \in [Threads -> WriterPcs \cup ReaderPcs]
    /\ \A w \in Writers : pc[w] \in WriterPcs
    /\ \A r \in Readers : pc[r] \in ReaderPcs
    /\ op \in [Readers -> {"remove", "read", "lookahead"}]
    /\ count \in [Threads -> Nat]
    /\ actual \in [Writers -> Nat]
    /\ j \in [Threads -> Slots]
    /\ bytes \in [Readers -> Seq(Values)]
    /\ limit \in [Readers -> 0 .. N]
    /\ seen \in [Writers -> Int]
    /\ entered \in Nat /\ removed \in Seq(Values) /\ stale \in BOOLEAN

----------------------------------------------------------------------------
(* Safety.                                                                 *)

\* The abstract buffer; its promise lapses at the first stale wake-up.
Fifo == INSTANCE BoundedFifo WITH Capacity <- N - 1, broken <- stale

\* As long as no woken thread has gone on with a false condition, the buffer
\* is a bounded queue: the code's ring, flags and locks implement it.
ImplementsFifo == Fifo!Spec

\* Until then the ring holds exactly the items entered and not yet removed,
\* in order, in the slots from head to tail (make_cbuf's comments on the two
\* indices, cbuf.c:54-55).
RingHoldsTheRest ==
    ~stale =>
        /\ Len(removed) <= entered /\ entered - Len(removed) <= N - 1
        /\ tail = entered % N /\ head = (Len(removed) + 1) % N
        /\ \A k \in Len(removed) + 1 .. entered : buf[k % N] = k

\* The writer's call is past a tail++ whose signal is still to come.
OwesReaders(w) == /\ pc[w] \in {"w_check", "w_full", "w_put", "w_tail", "w_done",
                                "w_wait"}
                  /\ actual[w] > 0

\* The reader's call is past a head++ whose signal is still to come.
OwesWriters(r) == /\ pc[r] \in {"r_check", "r_empty", "r_signal", "r_first",
                                "r_scan", "r_get", "r_head", "r_out"}
                  /\ bytes[r] # <<>>

\* No wake-up of a reader is lost: one that sleeps beside a buffer with items
\* in it has a writer on the way to signal it (cbuf.c:92-98, 104-109).
ReaderWakeupNotLost ==
    \A r \in Readers : r \in waiting /\ ~Empty => \E w \in Writers : OwesReaders(w)

\* Nor of a writer: one that sleeps beside a buffer with room in it has a
\* reader on the way to signal it (cbuf.c:137-148, 164-169).
WriterWakeupNotLost ==
    \A w \in Writers : w \in waiting /\ ~Full => \E r \in Readers : OwesWriters(r)

\* enter_cbuf asks for readable_lock while it holds writeable_lock (90, 93)
\* and remove_cbuf the other way round (135, 139); they never do so at once.
NoLockCycle == \A w \in Writers, r \in Readers :
                   ~(pc[w] = "w_full" /\ pc[r] = "r_signal")

\* Nor does a writer ever sleep beside a sleeping reader, each in wait for the
\* other (97, 143): whoever goes to sleep has raised the other's flag.
NeverBothAsleep == \A w \in Writers, r \in Readers : ~(w \in waiting /\ r \in waiting)

\* A remove or a read that gives up because no writer is left leaves nothing
\* behind in the buffer (cbuf.c:114-116).
EofOnlyWhenDrained ==
    [][\A r \in Readers : pc[r] = "r_empty" /\ pc'[r] = "r_out" => Empty]_vars

\* A lookahead stores the items that the next removes will deliver.
LookaheadSeesNext ==
    \A r \in Readers :
        ~stale /\ pc[r] \in {"l_check", "l_empty", "l_get", "l_out"} =>
            \A i \in DOMAIN bytes[r] : bytes[r][i] = Len(removed) + i

----------------------------------------------------------------------------
(* Liveness.                                                               *)

\* enter_cbuf returns once readers keep asking (cbuf.c:78-82).
EnterReturns == \A w \in Writers : (pc[w] = "w_check") ~> (pc[w] = "w_idle")

\* A reader asleep beside items (cbuf.c:143) is woken, by the signal at
\* lines 93-96 or 105-108, and goes on to take one.
ReaderGetsItems ==
    \A r \in Readers : (r \in waiting /\ ~Empty) ~> (pc[r] = "r_get" \/ Empty)

\* A character given back is what the next remove or read begins with, and
\* nothing delivers it twice: until then no call overwrites it, although a
\* remove that ends leaves its own last byte in the same place (cbuf.c:129-134,
\* 163, 188-192, 285-286).  With a single reader, as unget_cbuf takes no lock.
UngotComesNext ==
    \A r \in Readers : Readers = {r} =>
        /\ have_unget /\ pc[r] # "u_char" => ungetc = Ungot
        /\ \A i \in DOMAIN bytes[r] \ {1} : bytes[r][i] # Ungot

----------------------------------------------------------------------------
(* Stated by the repository's texts; the run that checks it fails.         *)

\* Output equals input, as the test target of buffer/Makefile has it.
RemovedInOrder == \A i \in DOMAIN removed : removed[i] = i
=============================================================================
