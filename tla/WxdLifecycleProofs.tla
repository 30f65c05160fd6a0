------------------------- MODULE WxdLifecycleProofs -------------------------
(***************************************************************************)
(* Theorems about WxdLifecycle, for every size of the buffer, every length *)
(* of a read and of a block, and any number of signals.                    *)
(***************************************************************************)
EXTENDS WxdLifecycle, TLAPS

Places == {"test", "top", "setup", "join", "term", "restart", "exited", "none", "check",
           "held", "done", "read", "eof", "w_check", "w_full", "w_wait", "w_put", "w_done",
           "r_check", "r_signal", "r_wait", "r_get", "r_out", "signal", "wait", "update"}

Handlings == [sig : {"TERM", "RESTART"}, at : {"lock", "unlock"}]

----------------------------------------------------------------------------
(* Types.                                                                  *)

\* The buffer has its reference as long as the reader has not given it back.
ReaderCounted ==
    pc["reader"] \in {"check", "held", "read", "eof", "w_check", "w_full", "w_wait",
                     "w_put", "w_done"} => refcnt = 1

\* The reader is in enter_cbuf's loop, and the parser in remove_cbuf's, only
\* with bytes left.
BytesLeft == /\ pc["reader"] \in {"w_check", "w_full", "w_wait", "w_put"} => left > 0
             /\ pc["parser"] # "r_out" => need > 0

TypeInv == TypeOK /\ ReaderCounted /\ BytesLeft

\* A loop goes on, or ends, at a place of its own thread.
LEMMA LoopPlaces ==
    ASSUME NEW t \in Workers
    PROVE  /\ LoopTop(t) \in {"read", "r_check", "top"} /\ LoopEnd(t) \in {"eof", "done"}
           /\ t = "reader" => LoopTop(t) = "read"
  <1>1. /\ LoopTop("reader") = "read" /\ LoopTop("parser") = "r_check"
        /\ LoopTop("writer") = "top"
    BY Zenon DEF LoopTop
  <1> QED BY <1>1 DEF Workers, LoopEnd

\* A thread that goes somewhere leaves the others where they are.
LEMMA GotoMoves ==
    ASSUME TypeOK, NEW t \in Threads, NEW l \in Places, Goto(t, l)
    PROVE  /\ pc' \in [Threads -> Places]
           /\ pc'[t] = l /\ \A u \in Threads \ {t} : pc'[u] = pc[u]
  BY DEF TypeOK, Goto, Places

LEMMA ThreadFacts ==
    /\ "main" \in Threads /\ "reader" \in Threads /\ "parser" \in Threads
    /\ "writer" \in Threads /\ Workers \subseteq Threads /\ "main" \notin Workers
    /\ "reader" \in Workers /\ "parser" \in Workers /\ "writer" \in Workers
  BY DEF Threads, Workers

LEMMA Bounds ==
    /\ 0 \in 0 .. MaxRead /\ 0 \in 0 .. Capacity /\ 0 \in 0 .. MaxSignals
    /\ 0 \in 0 .. 1 /\ 1 \in 0 .. 1
    /\ BlockLen \in 0 .. BlockLen /\ BlockLen > 0 /\ 1 \in 0 .. 1
  BY LifecycleAssumption

\* What the buffer holds is counted modulo its size.
LEMMA Wraps ==
    ASSUME NEW q \in 0 .. Capacity
    PROVE  /\ (q + 1) % (Capacity + 1) \in 0 .. Capacity
           /\ (q + Capacity) % (Capacity + 1) \in 0 .. Capacity
  <1>1. Capacity + 1 \in Nat \ {0} /\ q + 1 \in Int /\ q + Capacity \in Int
    BY LifecycleAssumption
  <1>2. \A m \in Int : \A n \in Nat \ {0} : m % n \in 0 .. n - 1
    OBVIOUS
  <1>3. (Capacity + 1) - 1 = Capacity
    BY LifecycleAssumption
  <1> QED BY <1>1, <1>2, <1>3

\* main's steps but one leave reader, parser and buffer alone.
LEMMA TypesMain ==
    ASSUME TypeInv, Main
    PROVE  TypeInv'
  <1> USE LifecycleAssumption, ThreadFacts DEF TypeInv, TypeOK, ring, call, signals
  <1>1. CASE \/ MainTest \/ MainTop \/ MainRefuses \/ MainNoPort \/ MainJoin \/ MainTerm
             \/ MainRestart
    <2>1. PICK l \in Places : Goto("main", l)
      BY <1>1 DEF MainTest, MainTop, MainRefuses, MainNoPort, MainJoin, MainTerm, MainRestart,
                  Places
    <2>2. /\ pc' \in [Threads -> Places] /\ pc'["reader"] = pc["reader"]
          /\ pc'["parser"] = pc["parser"]
      BY <2>1, GotoMoves
    <2>3. /\ UNCHANGED <<left, queued, readable, writeable, refcnt, waiting, part, need,
                         holder, handling, sent>>
          /\ go' \in BOOLEAN /\ hup' \in BOOLEAN /\ terminate' \in {"NOTERM", "TERM", "RESTART"}
      BY <1>1 DEF MainTest, MainTop, MainRefuses, MainNoPort, MainJoin, MainTerm, MainRestart
    <2>4. TypeOK'
      BY <2>2, <2>3 DEF Places, Asked
    <2> QED BY <2>2, <2>3, <2>4 DEF ReaderCounted, BytesLeft
  <1>2. CASE MainSetup
    <2>1. /\ pc' \in [Threads -> Places] /\ pc'["reader"] = "check" /\ pc'["parser"] = "check"
          /\ refcnt' = 1 /\ left' = 0 /\ queued' = 0 /\ readable' = FALSE /\ writeable' = TRUE
          /\ waiting' = {} /\ part' = "first" /\ need' = 1
          /\ UNCHANGED <<go, terminate, holder, handling, sent, hup>>
      BY <1>2 DEF MainSetup, Places
    <2>2. ReaderCounted' /\ BytesLeft'
      BY <2>1 DEF ReaderCounted, BytesLeft
    <2> QED BY <2>1, <2>2, Bounds DEF Places, Asked
  <1> QED BY <1>1, <1>2 DEF Main

LEMMA TypesCheck ==
    ASSUME TypeInv, NEW t \in Workers, CheckLock(t) \/ CheckDone(t)
    PROVE  TypeInv'
  <1> USE LifecycleAssumption, ThreadFacts DEF TypeInv, ring, call, signals
  <1>1. CASE CheckLock(t)
    <2>1. Goto(t, "held") /\ pc[t] = "check"
      BY <1>1 DEF CheckLock, At
    <2>2. /\ pc' \in [Threads -> Places]
          /\ pc'[t] = "held" /\ \A u \in Threads \ {t} : pc'[u] = pc[u]
      BY <2>1, GotoMoves DEF Places
    <2>3. TypeOK'
      BY <1>1, <2>2 DEF CheckLock, TypeOK, Places, Asked
    <2>4. ReaderCounted' /\ BytesLeft'
      BY <1>1, <2>1, <2>2 DEF CheckLock, ReaderCounted, BytesLeft
    <2> QED BY <2>3, <2>4
  <1>2. CASE CheckDone(t)
    <2>1. PICK l \in {"read", "r_check", "top", "eof", "done"} : Goto(t, l)
      BY <1>2, LoopPlaces DEF CheckDone
    <2>2. pc[t] = "held"
      BY <1>2 DEF CheckDone, At
    <2>3. /\ pc' \in [Threads -> Places]
          /\ pc'[t] = l /\ \A u \in Threads \ {t} : pc'[u] = pc[u]
      BY <2>1, GotoMoves DEF Places
    <2>4. ReaderCounted' /\ BytesLeft'
      BY <1>2, <2>2, <2>3 DEF CheckDone, ReaderCounted, BytesLeft
    <2>5. TypeOK'
      BY <1>2, <2>3 DEF CheckDone, TypeOK, Places, Asked
    <2> QED BY <2>4, <2>5
  <1> QED BY <1>1, <1>2

LEMMA TypesReader ==
    ASSUME TypeInv, Reader
    PROVE  TypeInv'
  <1> USE LifecycleAssumption, ThreadFacts DEF TypeInv, TypeOK, ring, call, signals, At
  <1> DEFINE Going == {"check", "w_check", "w_full", "w_wait", "w_put", "w_done", "done"}
  <1>1. PICK l \in Going : Goto("reader", l)
    BY DEF Reader, Read, EnterCheck, EnterWait, EnterWake, EnterPut, EnterDone, ReaderEnds
  <1>2. /\ pc' \in [Threads -> Places] /\ pc'["reader"] = l /\ pc'["parser"] = pc["parser"]
    BY <1>1, GotoMoves DEF Places
  <1>3. UNCHANGED <<go, part, need, terminate, holder, handling, sent, hup>>
    BY DEF Reader, Read, EnterCheck, EnterWait, EnterWake, EnterPut, EnterDone, ReaderEnds
  <1>4. refcnt = 1
    BY DEF Reader, Read, EnterCheck, EnterWait, EnterWake, EnterPut, EnterDone, ReaderEnds,
           ReaderCounted
  <1>5. refcnt' = IF l = "done" THEN 0 ELSE 1
    BY <1>2, <1>4 DEF Reader, Read, EnterCheck, EnterWait, EnterWake, EnterPut, EnterDone,
                      ReaderEnds, Goto
  <1>6. /\ readable' \in BOOLEAN /\ writeable' \in BOOLEAN
        /\ waiting' \subseteq {"reader", "parser"} /\ queued' \in 0 .. Capacity
    <2>1. CASE EnterPut
      <3>1. queued' = (queued + 1) % (Capacity + 1)
        BY <2>1 DEF EnterPut
      <3>2. queued' \in 0 .. Capacity
        BY <3>1, TypeInv, Wraps
      <3>3. UNCHANGED <<readable, writeable, waiting>>
        BY <2>1 DEF EnterPut
      <3> QED BY <3>2, <3>3
    <2> QED BY <2>1 DEF Reader, Read, EnterCheck, EnterWait, EnterWake, EnterDone, ReaderEnds
  <1>7. left' \in 0 .. MaxRead /\ (l \in {"w_check", "w_full", "w_wait", "w_put"} => left' > 0)
    <2>1. CASE EnterPut
      <3>1. left' = left - 1 /\ left > 0 /\ l = IF left' > 0 THEN "w_check" ELSE "w_done"
        BY <2>1, <1>2 DEF EnterPut, Goto, BytesLeft
      <3> QED BY <3>1
    <2>2. CASE Read
      <3>1. left' \in 0 .. MaxRead /\ l = IF left' = 0 THEN "check" ELSE "w_check"
        BY <2>2, <1>2 DEF Read, Goto
      <3> QED BY <3>1
    <2>3. CASE EnterCheck \/ EnterWait \/ EnterWake
      BY <2>3 DEF EnterCheck, EnterWait, EnterWake, BytesLeft
    <2>4. CASE EnterDone \/ ReaderEnds
      <3>1. left' = left /\ l \in {"check", "done"}
        BY <2>4, <1>2 DEF EnterDone, ReaderEnds, Goto
      <3> QED BY <3>1
    <2> QED BY <2>1, <2>2, <2>3, <2>4 DEF Reader
  <1>8. ReaderCounted' /\ BytesLeft'
    BY <1>2, <1>3, <1>5, <1>7 DEF ReaderCounted, BytesLeft
  <1>9. TypeOK'
    BY <1>2, <1>3, <1>5, <1>6, <1>7 DEF Places, Asked
  <1> QED BY <1>8, <1>9

LEMMA TypesParser ==
    ASSUME TypeInv, Parser
    PROVE  TypeInv'
  <1> USE LifecycleAssumption, ThreadFacts DEF TypeInv, TypeOK, ring, call, signals, At
  <1>1. /\ UNCHANGED <<go, left, refcnt, terminate, holder, handling, sent, hup>>
        /\ readable' \in BOOLEAN /\ writeable' \in BOOLEAN
        /\ waiting' \subseteq {"reader", "parser"} /\ queued' \in 0 .. Capacity
    <2>1. CASE RemoveGet
      <3>1. UNCHANGED <<go, left, refcnt, terminate, holder, handling, sent, hup>>
        BY <2>1 DEF RemoveGet
      <3>2. UNCHANGED <<readable, writeable, waiting>>
        BY <2>1 DEF RemoveGet
      <3>3. queued' = (queued + Capacity) % (Capacity + 1)
        BY <2>1 DEF RemoveGet
      <3>4. queued' \in 0 .. Capacity
        BY <3>3, TypeInv, Wraps
      <3> QED BY <3>1, <3>2, <3>4
    <2>2. CASE RemoveCheck \/ RemoveWake \/ ParserSignals
      <3>1. UNCHANGED <<go, left, refcnt, terminate, holder, handling, sent, hup>>
        BY <2>2 DEF RemoveCheck, RemoveWake, ParserSignals
      <3>2. UNCHANGED <<writeable, waiting, queued>> /\ readable' \in BOOLEAN
        BY <2>2 DEF RemoveCheck, RemoveWake, ParserSignals
      <3> QED BY <3>1, <3>2
    <2>3. CASE RemoveWait
      BY <2>3 DEF RemoveWait
    <2>4. CASE RemoveOut
      <3>1. UNCHANGED <<go, left, refcnt, terminate, holder, handling, sent, hup>>
        BY <2>4 DEF RemoveOut
      <3>2. UNCHANGED <<readable, queued>>
        BY <2>4 DEF RemoveOut
      <3>3. \/ writeable' = TRUE /\ waiting' = waiting \ {"reader"}
            \/ writeable' = writeable /\ waiting' = waiting
        BY <2>4 DEF RemoveOut
      <3> QED BY <3>1, <3>2, <3>3
    <2> QED BY <2>1, <2>2, <2>3, <2>4 DEF Parser
  <1>2. /\ pc' \in [Threads -> Places] /\ pc'["reader"] = pc["reader"]
    <2>1. CASE ParserSignals
      BY <2>1 DEF ParserSignals, Places
    <2>2. CASE RemoveCheck \/ RemoveWait \/ RemoveWake \/ RemoveGet \/ RemoveOut
      <3>1. PICK l \in Places : Goto("parser", l)
        BY <2>2 DEF RemoveCheck, RemoveWait, RemoveWake, RemoveGet, RemoveOut, BlockFollows,
                    LoopFollows, Empty, Places
      <3> QED BY <3>1, GotoMoves
    <2> QED BY <2>1, <2>2 DEF Parser
  <1>3. /\ part' \in {"first", "block"} /\ need' \in 0 .. Asked'
        /\ pc'["parser"] # "r_out" => need' > 0
    <2>1. CASE RemoveCheck \/ RemoveWait \/ RemoveWake \/ ParserSignals
      BY <2>1 DEF RemoveCheck, RemoveWait, RemoveWake, ParserSignals, Asked, BytesLeft
    <2>2. CASE RemoveGet
      <3>1. need' = need - 1 /\ need > 0 /\ part' = part
        BY <2>2 DEF RemoveGet, BytesLeft
      <3>2. pc'["parser"] = IF need' > 0 THEN "r_check" ELSE "r_out"
        BY <2>2, <1>2 DEF RemoveGet, Goto
      <3>3. Asked' = Asked /\ Asked \in Nat
        BY <3>1 DEF Asked
      <3>4. need \in 0 .. Asked
        OBVIOUS
      <3>5. need' \in 0 .. Asked
        BY <3>1, <3>3, <3>4
      <3> QED BY <3>1, <3>2, <3>3, <3>5
    <2>3. CASE RemoveOut
      <3>1. \/ part' = "block" /\ need' = BlockLen
            \/ part' = "first" /\ need' = 1
        BY <2>3 DEF RemoveOut, BlockFollows, LoopFollows
      <3> QED BY <3>1, Bounds DEF Asked
    <2> QED BY <2>1, <2>2, <2>3 DEF Parser
  <1>4. ReaderCounted' /\ BytesLeft'
    BY <1>1, <1>2, <1>3 DEF ReaderCounted, BytesLeft
  <1>5. TypeOK'
    BY <1>1, <1>2, <1>3 DEF Places
  <1> QED BY <1>4, <1>5

\* A signal adds a handler to its thread's, and a handler's steps change or
\* remove the last one.
LEMMA TypesSignals ==
    ASSUME TypeInv, Deliver \/ \E t \in Threads : Handle(t)
    PROVE  TypeInv'
  <1> USE LifecycleAssumption, ThreadFacts DEF TypeInv, TypeOK
  <1>1. handling \in [Threads -> Seq(Handlings)]
    BY DEF Handlings
  <1>2. UNCHANGED <<pc, go, left, ring, call>>
    BY DEF Deliver, Handle, HandleStore, HandleUnlock
  <1>3. /\ handling' \in [Threads -> Seq(Handlings)] /\ sent' \in 0 .. MaxSignals
        /\ hup' \in BOOLEAN /\ terminate' \in {"NOTERM", "TERM", "RESTART"}
        /\ holder' \in Threads \cup {NoOne}
    <2>1. CASE Deliver
      <3>1. PICK t \in Threads, s \in {"TERM", "RESTART"} :
              handling' = [handling EXCEPT ![t] = Append(@, [sig |-> s, at |-> "lock"])]
        BY <2>1 DEF Deliver
      <3>2. [sig |-> s, at |-> "lock"] \in Handlings
        BY DEF Handlings
      <3>3. Append(handling[t], [sig |-> s, at |-> "lock"]) \in Seq(Handlings)
        BY <1>1, <3>2
      <3>4. handling' \in [Threads -> Seq(Handlings)]
        BY <1>1, <3>1, <3>3
      <3> QED BY <2>1, <3>4 DEF Deliver
    <2>2. ASSUME NEW t \in Threads, HandleStore(t)
          PROVE  <1>3
      <3> DEFINE k == Len(handling[t])
      <3>1. handling[t] \in Seq(Handlings) /\ handling[t] # <<>>
        BY <1>1, <2>2 DEF HandleStore, Handles
      <3>2. k \in 1 .. Len(handling[t]) /\ handling[t][k] \in Handlings
        BY <3>1
      <3>3. [handling[t][k] EXCEPT !.at = "unlock"] \in Handlings
        BY <3>2 DEF Handlings
      <3>4. [handling[t] EXCEPT ![k] = [@ EXCEPT !.at = "unlock"]] \in Seq(Handlings)
        BY <3>1, <3>2, <3>3
      <3>5. handling' = [handling EXCEPT ![t] =
                            [handling[t] EXCEPT ![k] = [@ EXCEPT !.at = "unlock"]]]
        BY <2>2 DEF HandleStore
      <3>6. handling' \in [Threads -> Seq(Handlings)]
        BY <1>1, <3>4, <3>5
      <3>7. terminate' \in {"TERM", "RESTART"}
        BY <2>2, <3>2 DEF HandleStore, Handler, Handlings
      <3> QED BY <2>2, <3>6, <3>7 DEF HandleStore
    <2>3. ASSUME NEW t \in Threads, HandleUnlock(t)
          PROVE  <1>3
      <3>1. handling[t] \in Seq(Handlings) /\ handling[t] # <<>>
        BY <1>1, <2>3 DEF HandleUnlock, Handles
      <3>2. SubSeq(handling[t], 1, Len(handling[t]) - 1) \in Seq(Handlings)
        BY <3>1
      <3>3. handling' \in [Threads -> Seq(Handlings)]
        BY <1>1, <2>3, <3>2 DEF HandleUnlock
      <3> QED BY <2>3, <3>3 DEF HandleUnlock
    <2> QED BY <2>1, <2>2, <2>3 DEF Handle
  <1>4. TypeOK'
    BY <1>2, <1>3 DEF ring, call, Asked, Handlings
  <1> QED BY <1>2, <1>4 DEF ring, call, ReaderCounted, BytesLeft

LEMMA TypesOther ==
    ASSUME TypeInv, Writer \/ SpuriousWakeup
    PROVE  TypeInv'
  <1> USE LifecycleAssumption, ThreadFacts DEF TypeInv, TypeOK, signals, ring, call, At
  <1>1. PICK l \in {"wait", "check", "update"} : pc' = pc \/ Goto("writer", l)
    BY DEF Writer, WriterWaits, WriterUpdates, SpuriousWakeup
  <1>2. /\ pc' \in [Threads -> Places]
        /\ pc'["reader"] = pc["reader"] /\ pc'["parser"] = pc["parser"]
    BY <1>1, GotoMoves DEF Places
  <1>3. /\ UNCHANGED <<go, left, queued, readable, writeable, refcnt, part, need, terminate,
                       holder, handling, sent, hup>>
        /\ waiting' \subseteq {"reader", "parser"}
    BY DEF Writer, WriterWaits, WriterUpdates, SpuriousWakeup
  <1>4. TypeOK'
    BY <1>2, <1>3 DEF Places, Asked
  <1> QED BY <1>2, <1>3, <1>4 DEF ReaderCounted, BytesLeft

LEMMA TypesStep == TypeInv /\ [Next]_vars => TypeInv'
  <1> SUFFICES ASSUME TypeInv, [Next]_vars PROVE TypeInv'
    OBVIOUS
  <1>1. CASE UNCHANGED vars
    BY <1>1 DEF vars, ring, call, signals, TypeInv, TypeOK, ReaderCounted, BytesLeft, Asked
  <1> QED
    BY <1>1, TypesMain, TypesCheck, TypesReader, TypesParser, TypesSignals, TypesOther DEF Next

LEMMA TypesInit == Init => TypeInv
  <1> SUFFICES ASSUME Init PROVE TypeInv
    OBVIOUS
  <1>1. pc \in [Threads -> {"test", "none"}] /\ pc["reader"] = "none"
    BY ThreadFacts DEF Init
  <1>2. pc \in [Threads -> Places]
    BY <1>1 DEF Places
  <1>3. handling \in [Threads -> Seq(Handlings)]
    BY DEF Init
  <1>4. ReaderCounted /\ BytesLeft
    BY <1>1 DEF Init, ReaderCounted, BytesLeft
  <1>5. TypeOK
    BY <1>2, <1>3, Bounds DEF Init, TypeOK, Places, Handlings, Asked
  <1> QED BY <1>4, <1>5 DEF TypeInv

\* In every interleaving of main, the three threads and the handlers, through
\* every restart, the calls of the buffer enter and deliver no more than they
\* were asked to, and its reference is given back once (wxd.c:69-128,
\* serial.c:112-146).
THEOREM TypeCorrect == Spec => []TypeOK
  <1>1. TypeInv => TypeOK
    BY DEF TypeInv
  <1> QED BY <1>1, TypesInit, TypesStep, PTL DEF Spec

----------------------------------------------------------------------------
(* The end of a round.                                                     *)

\* What main remembers of the round when it decides: its threads were told to
\* end it, and if a HUP told them, the history has it.
AskedFor ==
    /\ terminate = "RESTART" => hup
    /\ pc["main"] = "term" => terminate # "NOTERM"
    /\ pc["main"] = "restart" /\ go => hup

RoundInv == StopsWhenTold /\ AskedFor

\* A step of main.  The threads have all left their loops when main leaves
\* join, and terminate is reset only when they do not run.
LEMMA RoundMain ==
    ASSUME TypeOK, RoundInv, Main
    PROVE  RoundInv' /\ (pc["main"] = "restart" /\ pc'["main"] = "top" => hup)
  <1> USE ThreadFacts DEF RoundInv, StopsWhenTold, AskedFor, At
  <1>1. CASE MainSetup
    <2>1. /\ pc'["main"] = "join" /\ \A t \in Workers : pc'[t] = "check"
          /\ pc["main"] = "setup"
      BY <1>1 DEF MainSetup
    <2> QED BY <1>1, <2>1 DEF MainSetup, signals
  <1>2. CASE MainJoin
    <2>1. pc["main"] = "join" /\ pc'["main"] = "term" /\ \A t \in Workers : pc[t] = "done"
      BY <1>2, GotoMoves DEF MainJoin, Places
    <2>2. terminate # "NOTERM"
      BY <2>1
    <2> QED BY <1>2, <2>1, <2>2 DEF MainJoin, signals
  <1>3. CASE MainTerm
    <2>1. pc["main"] = "term" /\ pc'["main"] = "restart"
      BY <1>3, GotoMoves DEF MainTerm, Places
    <2>2. go' => terminate # "TERM"
      BY <1>3 DEF MainTerm
    <2>3. go' => hup
      BY <2>1, <2>2 DEF TypeOK
    <2> QED BY <1>3, <2>1, <2>3 DEF MainTerm, signals
  <1>4. CASE MainRestart
    <2>1. pc["main"] = "restart" /\ pc'["main"] \in {"top", "exited"}
      BY <1>4, GotoMoves DEF MainRestart, Places
    <2>2. pc'["main"] = "top" => go'
      BY <1>4, GotoMoves DEF MainRestart, Places
    <2>3. go' => hup
      BY <1>4, <2>1 DEF MainRestart
    <2> QED BY <1>4, <2>1, <2>2, <2>3 DEF MainRestart, signals
  <1>5. CASE MainTest \/ MainTop \/ MainRefuses \/ MainNoPort
    <2>1. pc["main"] # "restart" /\ pc'["main"] \in {"exited", "top", "setup"}
      BY <1>5, GotoMoves DEF MainTest, MainTop, MainRefuses, MainNoPort, Places
    <2>2. terminate' = "RESTART" => hup'
      BY <1>5 DEF MainTest, MainTop, MainRefuses, MainNoPort, signals
    <2> QED BY <2>1, <2>2
  <1> QED BY <1>1, <1>2, <1>3, <1>4, <1>5 DEF Main

\* A handler stores TERM or RESTART, never NOTERM.
LEMMA RoundHandle ==
    ASSUME TypeOK, RoundInv, NEW t \in Threads, Handle(t)
    PROVE  RoundInv' /\ pc' = pc
  <1>1. CASE HandleStore(t)
    <2>1. handling[t] \in Seq(Handlings) /\ handling[t] # <<>>
      BY <1>1 DEF HandleStore, Handles, TypeOK, Handlings
    <2>2. handling[t][Len(handling[t])] \in Handlings
      BY <2>1
    <2>3. terminate' \in {"TERM", "RESTART"} /\ pc' = pc /\ go' = go
      BY <1>1, <2>2 DEF HandleStore, Handler, Handlings
    <2>4. hup' = (hup \/ terminate' = "RESTART")
      BY <1>1 DEF HandleStore
    <2> QED BY <2>3, <2>4 DEF RoundInv, StopsWhenTold, AskedFor
  <1>2. CASE HandleUnlock(t)
    BY <1>2 DEF HandleUnlock, RoundInv, StopsWhenTold, AskedFor
  <1> QED BY <1>1, <1>2 DEF Handle

\* A thread leaves its loop only where it has seen that it should.
LEMMA RoundThread ==
    ASSUME TypeOK, RoundInv,
           \/ Reader \/ Parser \/ Writer \/ Deliver \/ SpuriousWakeup
           \/ \E t \in Workers : CheckLock(t) \/ CheckDone(t)
    PROVE  RoundInv' /\ pc'["main"] = pc["main"]
  <1> USE ThreadFacts DEF At
  <1>1. terminate' = terminate /\ hup' = hup /\ go' = go
    <2>1. CASE Reader
      BY <2>1 DEF Reader, Read, EnterCheck, EnterWait, EnterWake, EnterPut, EnterDone,
                  ReaderEnds, signals
    <2>2. CASE Parser
      BY <2>2 DEF Parser, RemoveCheck, RemoveWait, RemoveWake, RemoveGet, RemoveOut,
                  ParserSignals, signals
    <2>3. CASE Writer \/ Deliver \/ SpuriousWakeup
      BY <2>3 DEF Writer, WriterWaits, WriterUpdates, Deliver, SpuriousWakeup, signals
    <2>4. CASE \E t \in Workers : CheckLock(t) \/ CheckDone(t)
      BY <2>4 DEF CheckLock, CheckDone, signals
    <2> QED BY <2>1, <2>2, <2>3, <2>4
  <1>2. /\ pc'["main"] = pc["main"]
        /\ \A t \in Workers : pc'[t] \in {"eof", "done"} =>
              pc[t] \in {"eof", "done"} \/ terminate # "NOTERM"
    <2>1. CASE pc' = pc
      BY <2>1
    <2>2. ASSUME NEW t \in Workers, NEW l \in Places, Goto(t, l),
                 l \in {"eof", "done"} => pc[t] = "eof" \/ terminate # "NOTERM"
          PROVE  <1>2
      <3>1. t \in Threads /\ t # "main" /\ \A u \in Workers : u \in Threads
        OBVIOUS
      <3>2. pc'[t] = l /\ \A u \in Threads \ {t} : pc'[u] = pc[u]
        BY <2>2, <3>1, GotoMoves
      <3> QED BY <2>2, <3>1, <3>2
    <2>3. CASE Reader
      <3>1. CASE ReaderEnds
        BY <2>2, <3>1 DEF ReaderEnds, Places
      <3>2. CASE Read \/ EnterCheck \/ EnterWait \/ EnterWake \/ EnterPut \/ EnterDone
        <4>1. PICK l \in {"check", "w_check", "w_full", "w_wait", "w_put", "w_done"} :
                Goto("reader", l)
          BY <3>2 DEF Read, EnterCheck, EnterWait, EnterWake, EnterPut, EnterDone
        <4> QED BY <2>2, <4>1 DEF Places
      <3> QED BY <2>3, <3>1, <3>2 DEF Reader
    <2>4. CASE RemoveCheck \/ RemoveWait \/ RemoveWake \/ RemoveGet \/ RemoveOut
      <3>1. PICK l \in {"r_check", "r_signal", "r_wait", "r_get", "r_out", "signal"} :
              Goto("parser", l)
        BY <2>4 DEF RemoveCheck, RemoveWait, RemoveWake, RemoveGet, RemoveOut, BlockFollows,
                    LoopFollows, Empty
      <3> QED BY <2>2, <3>1 DEF Places
    <2>5. CASE ParserSignals
      <3>1. /\ pc'["main"] = pc["main"] /\ pc'["reader"] = pc["reader"]
            /\ pc'["parser"] = "check" /\ pc'["writer"] \in {pc["writer"], "update"}
        BY <2>5 DEF ParserSignals, TypeOK
      <3> QED BY <3>1 DEF Workers
    <2>6. CASE Writer \/ Deliver \/ SpuriousWakeup
      <3>1. \/ pc' = pc \/ Goto("writer", "wait") \/ Goto("writer", "check")
            \/ Goto("writer", "update")
        BY <2>6 DEF Writer, WriterWaits, WriterUpdates, Deliver, SpuriousWakeup
      <3> QED BY <2>1, <2>2, <3>1 DEF Places
    <2>7. CASE \E t \in Workers : CheckLock(t) \/ CheckDone(t)
      <3>1. PICK t \in Workers : CheckLock(t) \/ CheckDone(t)
        BY <2>7
      <3>2. CASE CheckLock(t)
        BY <2>2, <3>1, <3>2 DEF CheckLock, Places
      <3>3. CASE CheckDone(t)
        <4>1. CASE terminate # "NOTERM"
          BY <2>2, <3>1, <3>3, <4>1, LoopPlaces DEF CheckDone, Places
        <4>2. CASE terminate = "NOTERM"
          BY <2>2, <3>1, <3>3, <4>2, LoopPlaces DEF CheckDone, Places
        <4> QED BY <4>1, <4>2
      <3> QED BY <3>1, <3>2, <3>3
    <2> QED BY <2>3, <2>4, <2>5, <2>6, <2>7 DEF Parser
  <1> QED BY <1>1, <1>2 DEF RoundInv, StopsWhenTold, AskedFor

LEMMA RoundStep ==
    TypeOK /\ RoundInv /\ [Next]_vars
        => RoundInv' /\ (pc["main"] = "restart" /\ pc'["main"] = "top" => hup)
  <1> SUFFICES ASSUME TypeOK, RoundInv, [Next]_vars
               PROVE  RoundInv' /\ (pc["main"] = "restart" /\ pc'["main"] = "top" => hup)
    OBVIOUS
  <1>1. CASE UNCHANGED vars
    BY <1>1 DEF vars, signals, RoundInv, StopsWhenTold, AskedFor
  <1>2. CASE Main
    BY <1>2, RoundMain
  <1>3. CASE \E t \in Threads : Handle(t)
    BY <1>3, RoundHandle
  <1>4. CASE \/ Reader \/ Parser \/ Writer \/ Deliver \/ SpuriousWakeup
             \/ \E t \in Workers : CheckLock(t) \/ CheckDone(t)
    BY <1>4, RoundThread
  <1> QED BY <1>1, <1>2, <1>3, <1>4 DEF Next

LEMMA RoundInit == Init => RoundInv
  BY ThreadFacts DEF Init, RoundInv, StopsWhenTold, AskedFor

\* A thread that has left its loop was told to, and the reason is still there
\* until main has joined them all: however the signals fall, no thread ends a
\* round that the others go on with (wxd.c:69-128).
THEOREM ThreadsStopWhenTold == Spec => []StopsWhenTold
  <1>1. Init => TypeInv /\ RoundInv
    BY TypesInit, RoundInit
  <1>2. TypeInv /\ RoundInv /\ [Next]_vars
            => (TypeInv /\ RoundInv)'
    BY TypesStep, RoundStep DEF TypeInv
  <1>3. RoundInv => StopsWhenTold
    BY DEF RoundInv
  <1> QED BY <1>1, <1>2, <1>3, PTL DEF Spec

\* main's two looks at terminate, with signals in between, send it round again
\* only if a HUP was handled in the round (wxd.c:118-125).
THEOREM RestartNeedsHup == Spec => RestartsWhenTold
  <1>1. Init => TypeInv /\ RoundInv
    BY TypesInit, RoundInit
  <1>2. TypeInv /\ RoundInv /\ [Next]_vars
            => (TypeInv /\ RoundInv)'
    BY TypesStep, RoundStep DEF TypeInv
  <1>3. TypeInv /\ RoundInv /\ [Next]_vars
            => [pc["main"] = "restart" /\ pc'["main"] = "top" => hup]_vars
    BY RoundStep DEF TypeInv
  <1> QED BY <1>1, <1>2, <1>3, PTL DEF Spec, RestartsWhenTold
=============================================================================
