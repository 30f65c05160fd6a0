---------------------------- MODULE WxdLifecycle ----------------------------
(***************************************************************************)
(* How wxd starts, runs its three threads, and is told to restart (HUP) or *)
(* to stop (TERM): main, the loops of serial_reader, parse_input and       *)
(* db_writer, and the two signal handlers (wxd.c, serial.c:112-146,        *)
(* parse.c:35-149, dbif_pg.c:84-241).                                      *)
(*                                                                         *)
(* The circular buffer between reader and parser is Cbuf's, for the one    *)
(* thread on each side that wxd has, with the number of bytes it holds in  *)
(* place of the bytes: counted modulo the ring's size, as a thread that is *)
(* woken by a stale flag may go past either end.  Where a thread keeps one *)
(* of the two mutexes of the flags and asks for the other the two are two  *)
(* steps, as in Cbuf.  The test of refcnt is part of the step that finds   *)
(* the buffer empty: readable_lock is kept, and the one change to refcnt   *)
(* comes after the last byte.  What the parser does with a block, and the  *)
(* writer with the observation, is ObsStore's; here there may be something *)
(* to tell the writer of whenever the parser looks.                        *)
(*                                                                         *)
(* A signal is handled by any thread of the process, which does nothing    *)
(* else meanwhile; both handlers lock terminate_lock.  While one is        *)
(* handled the thread takes no other of its kind, but may take the other   *)
(* kind on top: the handlers' masks are empty.  A handler may come between *)
(* any two steps of its thread, and the other one before it has the mutex  *)
(* and while it holds it.                                                  *)
(***************************************************************************)
EXTENDS Integers, Sequences

CONSTANTS Capacity,     \* how many bytes fit in the ring, whose size is one more
          MaxRead,      \* the most bytes one read() of the port returns
          BlockLen,     \* how many bytes follow the first byte of a block
          MaxSignals,   \* bound: how many signals are sent
          NoOne

Workers == {"reader", "parser", "writer"}
Threads == Workers \cup {"main"}

ASSUME LifecycleAssumption ==
    /\ Capacity \in Nat \ {0} /\ MaxRead \in Nat \ {0} /\ BlockLen \in Nat \ {0}
    /\ MaxSignals \in Nat
    /\ NoOne \notin Threads

VARIABLES pc,          \* where each thread is
          go,          \* main's flag
          left,        \* bytes read that the reader has still to enter
          queued,      \* bytes in the circular buffer
          readable, writeable,   \* the flags of its two conditions
          refcnt,      \* of the circular buffer
          waiting,     \* which of reader and parser sleep in pthread_cond_wait
          part,        \* what the parser's remove_cbuf is for
          need,        \* bytes that it is still to deliver
          terminate,
          holder,      \* who holds terminate_lock
          handling,    \* the handlers each thread is in, the last one running
          sent,        \* how many signals were sent
          hup          \* history: a HUP was handled since main's loop began

ring    == <<queued, readable, writeable, refcnt, waiting>>
call    == <<part, need>>
signals == <<handling, sent, hup>>
vars    == <<pc, go, left, ring, call, terminate, holder, signals>>

Goto(t, l) == pc' = [pc EXCEPT ![t] = l]

\* A thread at a place of its own code, not in a signal handler.
At(t, l)   == pc[t] = l /\ handling[t] = <<>>

\* The mutexes of the buffer that are kept from one step to the next.
HoldsReadable  == pc["parser"] = "r_signal"
HoldsWriteable == pc["reader"] = "w_full"

Init ==
    /\ pc = [t \in Threads |-> IF t = "main" THEN "test" ELSE "none"]
    /\ go = TRUE
    /\ left = 0 /\ queued = 0 /\ readable = FALSE /\ writeable = TRUE
    /\ refcnt = 0 /\ waiting = {}
    /\ part = "first" /\ need = 1
    /\ terminate = "NOTERM" /\ holder = NoOne
    /\ handling = [t \in Threads |-> <<>>] /\ sent = 0 /\ hup = FALSE

----------------------------------------------------------------------------
(* main                                                                    *)

\* A TERM may have come since the handlers were set up.
MainTest ==
    /\ At("main", "test")
    /\ Goto("main", IF terminate = "TERM" THEN "exited" ELSE "top")
    /\ UNCHANGED <<go, left, ring, call, terminate, holder, signals>>

\* The top of the restart loop forgets what was asked, without the mutex.
MainTop ==
    /\ At("main", "top")
    /\ terminate' = "NOTERM" /\ hup' = FALSE
    /\ Goto("main", "setup")
    /\ UNCHANGED <<go, left, ring, call, holder, handling, sent>>

\* Bug: the buffer starts without a reference.
MainSetupNoRef ==
    /\ At("main", "setup")
    /\ pc' = [t \in Threads |-> IF t = "main" THEN "join" ELSE "check"]
    /\ left' = 0 /\ queued' = 0 /\ readable' = FALSE /\ writeable' = TRUE
    /\ refcnt' = 0 /\ waiting' = {}
    /\ part' = "first" /\ need' = 1
    /\ UNCHANGED <<go, terminate, holder, signals>>

\* Options, serial port, database, buffer and mutexes; then the threads.
MainSetup ==
    /\ At("main", "setup")
    /\ pc' = [t \in Threads |-> IF t = "main" THEN "join" ELSE "check"]
    /\ left' = 0 /\ queued' = 0 /\ readable' = FALSE /\ writeable' = TRUE
    /\ refcnt' = 1 /\ waiting' = {}
    /\ part' = "first" /\ need' = 1
    /\ UNCHANGED <<go, terminate, holder, signals>>

\* An option that getopt does not know ends the process on the spot, and so
\* does a fork that fails.
MainRefuses ==
    /\ At("main", "setup")
    /\ Goto("main", "exited")
    /\ UNCHANGED <<go, left, ring, call, terminate, holder, signals>>

\* The serial port cannot be opened.
MainNoPort ==
    /\ At("main", "setup")
    /\ Goto("main", "exited")
    /\ go' = FALSE
    /\ UNCHANGED <<left, ring, call, terminate, holder, signals>>

\* The three joins; the buffer is released and the port closed.
MainJoin ==
    /\ At("main", "join")
    /\ \A t \in Workers : pc[t] = "done"
    /\ Goto("main", "term")
    /\ UNCHANGED <<go, left, ring, call, terminate, holder, signals>>

\* Bug: main goes on after a TERM.
MainTermForgets ==
    /\ At("main", "term")
    /\ Goto("main", "restart")
    /\ UNCHANGED <<go, left, ring, call, terminate, holder, signals>>

\* main reads terminate twice, without the mutex.
MainTerm ==
    /\ At("main", "term")
    /\ go' = (go /\ terminate # "TERM")
    /\ Goto("main", "restart")
    /\ UNCHANGED <<left, ring, call, terminate, holder, signals>>

MainRestart ==
    /\ At("main", "restart")
    /\ go' = (go \/ terminate = "RESTART")
    /\ Goto("main", IF go' THEN "top" ELSE "exited")
    /\ UNCHANGED <<left, ring, call, terminate, holder, signals>>

----------------------------------------------------------------------------
(* The signal handlers, and the threads' look at what they store.          *)

Live(t) == pc[t] \notin {"none", "done", "exited"}

Deliver ==
    /\ sent < MaxSignals
    /\ \E t \in Threads, s \in {"TERM", "RESTART"} :
        /\ Live(t) /\ \A i \in DOMAIN handling[t] : handling[t][i].sig # s
        /\ handling' = [handling EXCEPT ![t] = Append(@, [sig |-> s, at |-> "lock"])]
    /\ sent' = sent + 1
    /\ UNCHANGED <<pc, go, left, ring, call, terminate, holder, hup>>

\* hupcatch and termcatch: the handler that runs in t asks for the mutex and
\* stores, then gives it back.
Handler(t)    == handling[t][Len(handling[t])]
Handles(t, l) == handling[t] # <<>> /\ Handler(t).at = l

HandleStore(t) ==
    /\ Handles(t, "lock") /\ holder = NoOne
    /\ holder' = t
    /\ terminate' = Handler(t).sig
    /\ hup' = (hup \/ Handler(t).sig = "RESTART")
    /\ handling' = [handling EXCEPT ![t][Len(handling[t])].at = "unlock"]
    /\ UNCHANGED <<pc, go, left, ring, call, sent>>

\* Bug: a handler returns with the mutex locked.
HandleKeepsLock(t) ==
    /\ Handles(t, "unlock")
    /\ handling' = [handling EXCEPT ![t] = SubSeq(@, 1, Len(@) - 1)]
    /\ UNCHANGED <<pc, go, left, ring, call, terminate, holder, sent, hup>>

HandleUnlock(t) ==
    /\ Handles(t, "unlock")
    /\ holder' = NoOne
    /\ handling' = [handling EXCEPT ![t] = SubSeq(@, 1, Len(@) - 1)]
    /\ UNCHANGED <<pc, go, left, ring, call, terminate, sent, hup>>

Handle(t) == HandleStore(t) \/ HandleUnlock(t)

\* The loops' look at terminate, under the mutex.
CheckLock(t) ==
    /\ At(t, "check") /\ holder = NoOne
    /\ holder' = t
    /\ Goto(t, "held")
    /\ UNCHANGED <<go, left, ring, call, terminate, signals>>

LoopTop(t) == CASE t = "reader" -> "read"
                [] t = "parser" -> "r_check"
                [] OTHER -> "top"
LoopEnd(t) == IF t = "reader" THEN "eof" ELSE "done"

CheckDone(t) ==
    /\ At(t, "held")
    /\ holder' = NoOne
    /\ Goto(t, IF terminate # "NOTERM" THEN LoopEnd(t) ELSE LoopTop(t))
    /\ UNCHANGED <<go, left, ring, call, terminate, signals>>

----------------------------------------------------------------------------
(* serial_reader                                                           *)

\* Bug: the reader leaves its loop when read() returns nothing.
ReadQuits ==
    /\ At("reader", "read")
    /\ left' \in 0 .. MaxRead
    /\ Goto("reader", IF left' = 0 THEN "eof" ELSE "w_check")
    /\ UNCHANGED <<go, ring, call, terminate, holder, signals>>

\* read() blocks until the station sends something, or fails and gives nothing
\* to enter.
Read ==
    /\ At("reader", "read")
    /\ left' \in 0 .. MaxRead
    /\ Goto("reader", IF left' = 0 THEN "check" ELSE "w_check")
    /\ UNCHANGED <<go, ring, call, terminate, holder, signals>>

\* enter_cbuf: under writeable_lock it looks for room, and keeps the mutex if
\* there is none;
EnterCheck ==
    /\ At("reader", "w_check")
    /\ writeable' = (queued # Capacity)
    /\ Goto("reader", IF writeable' THEN "w_put" ELSE "w_full")
    /\ UNCHANGED <<go, left, queued, readable, refcnt, waiting, call, terminate,
                   holder, signals>>

\* the parser, which may hold readable_lock, is told that there is something;
\* the reader sleeps, which gives writeable_lock back;
EnterWait ==
    /\ At("reader", "w_full") /\ ~HoldsReadable
    /\ readable' = TRUE
    /\ waiting' = (waiting \ {"parser"}) \cup {"reader"}
    /\ Goto("reader", "w_wait")
    /\ UNCHANGED <<go, left, queued, writeable, refcnt, call, terminate, holder,
                   signals>>

\* woken, it looks at the flag and nothing else.
EnterWake ==
    /\ At("reader", "w_wait") /\ "reader" \notin waiting
    /\ Goto("reader", IF writeable THEN "w_put" ELSE "w_full")
    /\ UNCHANGED <<go, left, ring, call, terminate, holder, signals>>

EnterPut ==
    /\ At("reader", "w_put")
    /\ queued' = (queued + 1) % (Capacity + 1)
    /\ left' = left - 1
    /\ Goto("reader", IF left' > 0 THEN "w_check" ELSE "w_done")
    /\ UNCHANGED <<go, readable, writeable, refcnt, waiting, call, terminate,
                   holder, signals>>

\* At the end the parser is told.
EnterDone ==
    /\ At("reader", "w_done") /\ ~HoldsReadable
    /\ readable' = TRUE
    /\ waiting' = waiting \ {"parser"}
    /\ Goto("reader", "check")
    /\ UNCHANGED <<go, left, queued, writeable, refcnt, call, terminate, holder,
                   signals>>

\* The reference count goes down, and nobody is told.
ReaderEnds ==
    /\ At("reader", "eof")
    /\ refcnt' = refcnt - 1
    /\ Goto("reader", "done")
    /\ UNCHANGED <<go, left, queued, readable, writeable, waiting, call, terminate,
                   holder, signals>>

----------------------------------------------------------------------------
(* parse_input, and remove_cbuf, which is enter_cbuf's mirror image.        *)

\* How many bytes the parser's call asks for.
Asked == IF part = "first" THEN 1 ELSE BlockLen

\* Under readable_lock, and keeping it: with nothing to take the parser tells
\* the reader to go on, or ends short if there is no writer left.
Empty == IF refcnt # 0 THEN "r_signal" ELSE "r_out"

RemoveCheck ==
    /\ At("parser", "r_check")
    /\ readable' = (queued # 0)
    /\ Goto("parser", IF readable' THEN "r_get" ELSE Empty)
    /\ UNCHANGED <<go, left, queued, writeable, refcnt, waiting, call, terminate, holder,
                   signals>>

RemoveWait ==
    /\ At("parser", "r_signal") /\ ~HoldsWriteable
    /\ writeable' = TRUE
    /\ waiting' = (waiting \ {"reader"}) \cup {"parser"}
    /\ Goto("parser", "r_wait")
    /\ UNCHANGED <<go, left, queued, readable, refcnt, call, terminate, holder,
                   signals>>

RemoveWake ==
    /\ At("parser", "r_wait") /\ "parser" \notin waiting
    /\ Goto("parser", IF readable THEN "r_get" ELSE Empty)
    /\ UNCHANGED <<go, left, ring, call, terminate, holder, signals>>

RemoveGet ==
    /\ At("parser", "r_get")
    /\ queued' = (queued + Capacity) % (Capacity + 1)
    /\ need' = need - 1
    /\ Goto("parser", IF need' > 0 THEN "r_check" ELSE "r_out")
    /\ UNCHANGED <<go, left, readable, writeable, refcnt, waiting, part, terminate,
                   holder, signals>>

\* After the first byte a block follows, or the loop's end does.
BlockFollows == /\ part = "first"
                /\ part' = "block" /\ need' = BlockLen
                /\ Goto("parser", "r_check")
LoopFollows  == /\ part' = "first" /\ need' = 1
                /\ Goto("parser", "signal")

\* The reader is told if anything was taken.  parse_input does not look at how
\* much it got, and goes on with the bytes that its array held before.
RemoveOut ==
    /\ At("parser", "r_out")
    /\ IF need < Asked
       THEN /\ ~HoldsWriteable
            /\ writeable' = TRUE
            /\ waiting' = waiting \ {"reader"}
       ELSE UNCHANGED <<writeable, waiting>>
    /\ BlockFollows \/ LoopFollows
    /\ UNCHANGED <<go, left, queued, readable, refcnt, terminate, holder, signals>>

\* If something is flagged the writer is told, which helps if it waits.
ParserSignals ==
    /\ At("parser", "signal")
    /\ \E told \in BOOLEAN :
        pc' = [pc EXCEPT !["parser"] = "check",
                         !["writer"] = IF told /\ @ = "wait" THEN "update" ELSE @]
    /\ UNCHANGED <<go, left, ring, call, terminate, holder, signals>>

----------------------------------------------------------------------------
(* db_writer                                                               *)

WriterWaits ==
    /\ At("writer", "top")
    /\ Goto("writer", "wait")
    /\ UNCHANGED <<go, left, ring, call, terminate, holder, signals>>

WriterUpdates ==
    /\ At("writer", "update")
    /\ Goto("writer", "check")
    /\ UNCHANGED <<go, left, ring, call, terminate, holder, signals>>

\* All three waits may end without a signal.
SpuriousWakeup ==
    /\ \/ \E t \in waiting : waiting' = waiting \ {t} /\ UNCHANGED pc
       \/ At("writer", "wait") /\ Goto("writer", "update") /\ UNCHANGED waiting
    /\ UNCHANGED <<go, left, queued, readable, writeable, refcnt, call, terminate,
                   holder, signals>>

----------------------------------------------------------------------------

Main   == MainTest \/ MainTop \/ MainSetup \/ MainRefuses \/ MainNoPort \/ MainJoin
          \/ MainTerm \/ MainRestart
Reader == Read \/ EnterCheck \/ EnterWait \/ EnterWake \/ EnterPut \/ EnterDone
          \/ ReaderEnds
Parser == RemoveCheck \/ RemoveWait \/ RemoveWake \/ RemoveGet \/ RemoveOut \/ ParserSignals
Writer == WriterWaits \/ WriterUpdates
Check(t) == CheckLock(t) \/ CheckDone(t)

\* What a thread does: for Fairness.
Thread(t) == \/ Handle(t)
             \/ t \in Workers /\ Check(t)
             \/ CASE t = "main"   -> Main
                  [] t = "reader" -> Reader
                  [] t = "parser" -> Parser
                  [] t = "writer" -> Writer

Next == \/ Main \/ Reader \/ Parser \/ Writer
        \/ \E t \in Threads : Handle(t)
        \/ \E t \in Workers : CheckLock(t) \/ CheckDone(t)
        \/ Deliver \/ SpuriousWakeup

Spec == Init /\ [][Next]_vars

\* Every thread goes on, the station goes on sending, and whoever asks for
\* a mutex gets it at last, however busy the others keep it (the one
\* thing that is possible now and then but not all the time); wake-ups without
\* a signal may happen, and are not relied on.
Fairness == \A t \in Threads : SF_vars(Thread(t))

FairSpec == Spec /\ Fairness

----------------------------------------------------------------------------
(* Properties.                                                             *)

\* Every variable has its type (wxd.c, the loops of the threads).
TypeOK ==
    /\ pc \in [Threads -> {"test", "top", "setup", "join", "term", "restart", "exited",
                           "none", "check", "held", "done", "read", "eof", "w_check",
                           "w_full", "w_wait", "w_put", "w_done", "r_check",
                           "r_signal", "r_wait", "r_get", "r_out", "signal", "wait",
                           "update"}]
    /\ go \in BOOLEAN
    /\ left \in 0 .. MaxRead /\ queued \in 0 .. Capacity /\ refcnt \in 0 .. 1
    /\ readable \in BOOLEAN /\ writeable \in BOOLEAN
    /\ waiting \subseteq {"reader", "parser"}
    /\ part \in {"first", "block"} /\ need \in 0 .. Asked
    /\ terminate \in {"NOTERM", "TERM", "RESTART"}
    /\ holder \in Threads \cup {NoOne}
    /\ handling \in [Threads -> Seq([sig : {"TERM", "RESTART"},
                                     at : {"lock", "unlock"}])]
    /\ sent \in 0 .. MaxSignals /\ hup \in BOOLEAN

\* A thread that leaves its loop was told to, and what told it stays until
\* main has joined them all: no thread runs into the next round, or leaves a
\* round in which nobody asked for it (wxd.c:69-128).
StopsWhenTold ==
    \A t \in Workers : pc[t] \in {"eof", "done"} /\ pc["main"] = "join" => terminate # "NOTERM"

\* main goes round again only if a HUP was handled in this round, although it
\* looks at terminate twice, without the mutex, and signals keep changing it
\* (wxd.c:118-125).
RestartsWhenTold ==
    [][pc["main"] = "restart" /\ pc'["main"] = "top" => hup]_vars

\* The ways in which a round never ends.  The writer waits for a signal that
\* the parser, gone, does not give; the parser waits for bytes that the
\* reader, gone, does not enter; the reader waits for room that the parser,
\* gone, does not make; each of these two waits for a mutex that the other
\* keeps, after a read as large as the ring; a handler waits for the mutex
\* that its own thread, or the handler it interrupted, holds.
WriterForsaken == pc["writer"] = "wait" /\ pc["parser"] = "done"
ParserForsaken == "parser" \in waiting /\ pc["reader"] = "done"
ReaderForsaken == "reader" \in waiting /\ pc["parser"] = "done"
LockCycle      == pc["reader"] = "w_full" /\ pc["parser"] = "r_signal"
SelfDeadlock   == \E t \in Threads : Handles(t, "lock") /\ holder = t
Hangs == WriterForsaken \/ ParserForsaken \/ ReaderForsaken \/ LockCycle \/ SelfDeadlock

\* Told to stop or restart, the daemon ends its round, or comes to wait in one
\* of these five ways and in no other (wxd.c:108-110, with the three loops and
\* both handlers).
EndsOrHangs ==
    (terminate # "NOTERM" /\ pc["main"] = "join") ~> (pc["main"] # "join" \/ Hangs)

----------------------------------------------------------------------------
(* Stated by the repository's texts; the run that checks it fails.         *)

\* terminate signals the threads to quit and exit (wxd.h:27), so a TERM that
\* has been handled ends the daemon.
StopsOnTerm == (terminate = "TERM") ~> (pc["main"] = "exited")
=============================================================================
