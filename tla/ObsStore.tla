------------------------------ MODULE ObsStore ------------------------------
(***************************************************************************)
(* The observation that wxd keeps in memory and in the database: the       *)
(* parser's block handlers (parse.c), the database writer (dbif_pg.c), the *)
(* restarts that load the saved observation back, and the rain counter of  *)
(* the station, which falls back to zero now and then.                     *)
(*                                                                         *)
(* current_obs_lock protects every access to the observation that both     *)
(* threads make, and no other lock is asked for under it but               *)
(* cond_update_lock, for one signal.  So each stretch of code that holds   *)
(* it is one step.  Only the parser changes the observation while the      *)
(* threads run, so the test of update() may precede the lock.              *)
(*                                                                         *)
(* Data: a reading is what the station sent after decoding and             *)
(* calibration; a field's value is a number.                               *)
(***************************************************************************)
EXTENDS Integers, Sequences, FiniteSets

CONSTANTS Blocks,      \* the kinds of blocks the station sends
          Readings,    \* what they may say of the fields, rain total apart
          MaxRain,     \* bound: how much rain falls
          Restarts,    \* whether the daemon is killed or told to restart
          Faults,      \* whether a database command may fail
          NoRow        \* current_obs has no row with selector 1

\* The fields of each kind of block, in the order its handler updates them.
BlockFields ==
    [b8f |-> <<"HUMIN", "HUMOUT">>,
     b9f |-> <<"TEMPIN", "TEMPOUT">>,
     baf |-> <<"DEWIN", "DEWOUT", "BARO">>,
     bbf |-> <<"RAINRATE", "RAINTOT">>,
     bcf |-> <<"GUST", "WAVG", "GUSTDIR", "WAVGDIR", "WCHILL">>]

FieldsOf(b) == {BlockFields[b][i] : i \in DOMAIN BlockFields[b]}
Bits        == UNION {FieldsOf(b) : b \in Blocks}
Fields      == Bits \ {"RAINTOT"}

\* A direction is only saved together with its speed.
Directions  == {"GUSTDIR", "WAVGDIR"}
SpeedOf(d)  == IF d = "GUSTDIR" THEN "GUST" ELSE "WAVG"

\* The changes that are also logged at once.
LoggedAtOnce == {"RAINTOT", "RAINRATE", "GUST", "WAVG"}

ASSUME ObsAssumption ==
    /\ Blocks \subseteq DOMAIN BlockFields
    /\ \A r \in Readings : r \in [Fields -> Nat]
    /\ MaxRain \in Nat
    /\ Restarts \in BOOLEAN /\ Faults \in BOOLEAN
    /\ NoRow \notin [obs : [Fields -> Nat], rain_tot : Nat, rtot_offset : Nat]

VARIABLES counter,       \* the station: its rain total, which may reset
          fallen,        \* history: all the rain there was
          obs, rain_tot, rtot_offset,   \* current_obs in memory
          ch_flag,       \* the fields changed and not yet saved
          row,           \* current_obs in the database
          logged,        \* history: the rain of the last row added to wxobs
          ppc,           \* the parser: where it is,
          todo,          \* and the updates its block still asks for
          wpc,           \* the database writer: where it is,
          need_write, rain,             \* and its locals
          torn,          \* history: the rain total was used halfway through a reset
          lost           \* history: fields that a failed command, or a restart,
                         \* has left different from the row, unflagged

station == <<counter, fallen>>
memory  == <<obs, rain_tot, rtot_offset, ch_flag>>
saved   == <<row, logged>>
parser  == <<ppc, todo>>
writer  == <<wpc, need_write, rain>>
vars    == <<station, memory, saved, parser, writer, torn, lost>>

Zero == [f \in Fields |-> 0]

Init ==
    /\ counter = 0 /\ fallen = 0
    /\ obs = Zero /\ rain_tot = 0 /\ rtot_offset = 0 /\ ch_flag = {}
    /\ row \in {NoRow, [obs |-> Zero, rain_tot |-> 0, rtot_offset |-> 0]}
    /\ logged = 0
    /\ ppc = "idle" /\ todo = <<>>
    /\ wpc = "top" /\ need_write = FALSE /\ rain = 0
    /\ torn = FALSE /\ lost = {}

----------------------------------------------------------------------------
(* The station.                                                            *)

Fall == /\ fallen < MaxRain
        /\ counter' = counter + 1 /\ fallen' = fallen + 1
        /\ UNCHANGED <<memory, saved, parser, writer, torn, lost>>

\* One of the random resets that rtot_offset is there to compensate.
ResetCounter == /\ counter > 0
                /\ counter' = 0
                /\ UNCHANGED <<fallen, memory, saved, parser, writer, torn, lost>>

----------------------------------------------------------------------------
(* The parser.                                                             *)

\* A block with a good checksum.
Receive ==
    /\ ppc = "idle"
    /\ \E b \in Blocks, r \in Readings :
        /\ todo' = [i \in DOMAIN BlockFields[b] |->
                       LET f == BlockFields[b][i]
                       IN [field |-> f, value |-> IF f = "RAINTOT" THEN counter ELSE r[f]]]
        /\ ppc' = IF b = "bbf" THEN "offset" ELSE "update"
    /\ UNCHANGED <<station, memory, saved, writer, torn, lost>>

\* A byte that starts no block, or a block that its handler drops.
ReceiveOther ==
    /\ ppc = "idle"
    /\ ppc' = "signal"
    /\ UNCHANGED <<station, memory, saved, todo, writer, torn, lost>>

\* Bugs: any change of the total counts as a reset; the difference is taken
\* the wrong way round.
OffsetRainAnyChange ==
    /\ ppc = "offset"
    /\ rtot_offset' = IF todo[Len(todo)].value # rain_tot THEN rtot_offset + rain_tot ELSE rtot_offset
    /\ ppc' = "update"
    /\ UNCHANGED <<station, obs, rain_tot, ch_flag, saved, todo, writer, torn, lost>>

OffsetRainBackwards ==
    /\ ppc = "offset"
    /\ rtot_offset' = IF todo[Len(todo)].value < rain_tot
                         THEN rtot_offset + todo[Len(todo)].value - rain_tot ELSE rtot_offset
    /\ ppc' = "update"
    /\ UNCHANGED <<station, obs, rain_tot, ch_flag, saved, todo, writer, torn, lost>>

\* parsebf: the total went down, so the station was reset.
OffsetRain ==
    /\ ppc = "offset"
    /\ rtot_offset' = IF todo[Len(todo)].value < rain_tot THEN rtot_offset + rain_tot ELSE rtot_offset
    /\ ppc' = "update"
    /\ UNCHANGED <<station, obs, rain_tot, ch_flag, saved, todo, writer, torn, lost>>

\* One update(): a value that differs is stored, and its bit set.
UpdateField ==
    LET f == Head(todo).field
        v == Head(todo).value
    IN /\ ppc = "update"
       /\ IF f = "RAINTOT"
            THEN rain_tot' = v /\ UNCHANGED obs
            ELSE obs' = [obs EXCEPT ![f] = v] /\ UNCHANGED rain_tot
       /\ ch_flag' = IF v # (IF f = "RAINTOT" THEN rain_tot ELSE obs[f])
                      THEN ch_flag \cup {f} ELSE ch_flag
       /\ todo' = Tail(todo)
       /\ ppc' = IF Len(todo) = 1 THEN "signal" ELSE "update"
       /\ UNCHANGED <<station, rtot_offset, saved, writer, torn, lost>>

\* The end of parse_input's loop.  The writer misses a signal it is not
\* waiting for.
Signal ==
    /\ ppc = "signal"
    /\ ppc' = "idle"
    /\ wpc' = IF ch_flag # {} /\ wpc = "wait" THEN "update" ELSE wpc
    /\ UNCHANGED <<station, memory, saved, todo, need_write, rain, torn, lost>>

\* Between the two halves of a reset: the offset has the old total already,
\* the total is still the old one.
Resetting == /\ ppc = "update" /\ todo # <<>>
             /\ todo[Len(todo)].field = "RAINTOT" /\ todo[Len(todo)].value < rain_tot
----------------------------------------------------------------------------
(* The database writer.                                                    *)

\* It waits for a signal, whatever there may be to save already.
WaitForUpdate ==
    /\ wpc = "top"
    /\ wpc' = "wait"
    /\ UNCHANGED <<station, memory, saved, parser, need_write, rain, torn, lost>>

SpuriousWakeup ==
    /\ wpc = "wait"
    /\ wpc' = "update"
    /\ UNCHANGED <<station, memory, saved, parser, need_write, rain, torn, lost>>

\* Bug: a speed, too, waits for a change of its direction.
SentInPairs ==
    {b \in ch_flag : \A d \in Directions \cap Bits :
                         b \in {d, SpeedOf(d)} => {d, SpeedOf(d)} \subseteq ch_flag}

\* What an UPDATE saves now.
Sent == {b \in ch_flag : b \in Directions => SpeedOf(b) \in ch_flag}

\* Bug: the offset is not saved with the total.
UpdatedTotalOnly ==
    IF row = NoRow THEN NoRow
    ELSE [obs |-> [f \in Fields |-> IF f \in Sent THEN obs[f] ELSE row.obs[f]],
          rain_tot |-> IF "RAINTOT" \in Sent THEN rain_tot ELSE row.rain_tot,
          rtot_offset |-> row.rtot_offset]

\* The row after it.
Updated ==
    IF row = NoRow THEN NoRow
    ELSE [obs |-> [f \in Fields |-> IF f \in Sent THEN obs[f] ELSE row.obs[f]],
          rain_tot |-> IF "RAINTOT" \in Sent THEN rain_tot ELSE row.rain_tot,
          rtot_offset |-> IF "RAINTOT" \in Sent THEN rtot_offset ELSE row.rtot_offset]

\* One UPDATE for all of them, sent with current_obs_lock held.  The bits are
\* cleared while the command is put together, before it can fail.
Update ==
    /\ wpc = "update"
    /\ ch_flag' = ch_flag \ Sent
    /\ need_write' = (need_write \/ Sent \cap LoggedAtOnce # {})
    /\ \/ row' = Updated /\ lost' = lost \ Sent
       \/ /\ Faults /\ Sent # {}
          /\ lost' = lost \cup Sent /\ UNCHANGED row
    /\ torn' = (torn \/ ("RAINTOT" \in Sent /\ Resetting))
    /\ wpc' = "time"
    /\ UNCHANGED <<station, obs, rain_tot, rtot_offset, logged, parser, rain>>

\* write_obs, up to the command: when the interval is over, or at once after
\* some changes.
WriteObs ==
    /\ wpc = "time"
    /\ rain' = rain_tot + rtot_offset
    /\ torn' = (torn \/ Resetting)
    /\ wpc' = "insert"
    /\ UNCHANGED <<station, memory, saved, parser, need_write, lost>>

NoWriteObs ==
    /\ wpc = "time" /\ ~need_write
    /\ wpc' = "top"
    /\ UNCHANGED <<station, memory, saved, parser, need_write, rain, torn, lost>>

Insert ==
    /\ wpc = "insert"
    /\ logged' = rain \/ (Faults /\ UNCHANGED logged)
    /\ need_write' = FALSE /\ rain' = 0
    /\ wpc' = "top"
    /\ UNCHANGED <<station, memory, row, parser, torn, lost>>

----------------------------------------------------------------------------
(* Restarts.                                                               *)

\* Once rain has been made up, restarts could make up more without end: they
\* stop when the offset has passed all the rain there can be.
MayRestart == Restarts /\ rtot_offset <= MaxRain

\* sane_defaults and init_db: the observation as the database has it, with
\* the indoor dew point for both;
LoadRow ==
    /\ row # NoRow
    /\ obs' = [f \in Fields |-> IF f = "DEWOUT" THEN row.obs["DEWIN"] ELSE row.obs[f]]
    /\ rain_tot' = row.rain_tot /\ rtot_offset' = row.rtot_offset
    /\ lost' = Fields \cap {"DEWOUT"}

\* zeros when there is no row, but also when the connection or the SELECT
\* fails, which nobody looks at.  (Commands on a connection that was refused
\* are among those that fail.)
LoadZero ==
    /\ row = NoRow \/ Faults
    /\ obs' = Zero /\ rain_tot' = 0 /\ rtot_offset' = 0
    /\ lost' = Fields \cup {"RAINTOT"}

Load == LoadRow \/ LoadZero

\* The daemon is killed, at any point, and started again.  (One way of being
\* killed is its own: the result of a failed command is cleared twice,
\* dbif_pg.c:220-222 and 270-272.)
Crash ==
    /\ MayRestart
    /\ Load
    /\ ch_flag' = {}
    /\ ppc' = "idle" /\ todo' = <<>>
    /\ wpc' = "top" /\ need_write' = FALSE /\ rain' = 0
    /\ UNCHANGED <<station, saved, torn>>

\* main goes round its restart loop, both threads having left theirs.
Reload ==
    /\ MayRestart
    /\ ppc = "idle" /\ wpc = "top"
    /\ Load
    /\ UNCHANGED <<station, ch_flag, saved, parser, writer, torn>>

----------------------------------------------------------------------------

Parse == Receive \/ ReceiveOther \/ OffsetRain \/ UpdateField \/ Signal
Write == WaitForUpdate \/ Update \/ WriteObs \/ NoWriteObs \/ Insert

Next == Fall \/ ResetCounter \/ Parse \/ Write \/ SpuriousWakeup \/ Crash \/ Reload

Spec == Init /\ [][Next]_vars

\* The station goes on sending, and both threads go on; there are no wake-ups
\* without a signal to rely on, and nobody kills the daemon forever.
FairSpec == /\ Init /\ [][Fall \/ ResetCounter \/ Parse \/ Write]_vars
            /\ WF_vars(Parse) /\ WF_vars(Write)

----------------------------------------------------------------------------
(* Properties.                                                             *)

\* Every variable has its type (the structs of wxd.h:37-58 and 78).
TypeOK ==
    /\ counter \in Nat /\ fallen \in Nat
    /\ obs \in [Fields -> Nat] /\ rain_tot \in Nat /\ rtot_offset \in Nat
    /\ ch_flag \subseteq Bits
    /\ \/ row = NoRow
       \/ row \in [obs : [Fields -> Nat], rain_tot : Nat, rtot_offset : Nat]
    /\ logged \in Nat
    /\ ppc \in {"idle", "offset", "update", "signal"}
    /\ todo \in Seq([field : Bits, value : Nat])
    /\ wpc \in {"top", "wait", "update", "time", "insert"}
    /\ need_write \in BOOLEAN /\ rain \in Nat
    /\ torn \in BOOLEAN /\ lost \subseteq Fields \cup {"RAINTOT"}

\* Through resets of the station, restarts of the daemon and failed commands,
\* wxd never makes up rain: the total it keeps, saves and logs is no more than
\* has fallen.  Only a total read between the halves of a reset
\* (parse.c:258-265) can be more.
NeverOverReports ==
    ~torn =>
        /\ ~Resetting => rain_tot + rtot_offset <= fallen
        /\ row # NoRow => row.rain_tot + row.rtot_offset <= fallen
        /\ wpc = "insert" => rain <= fallen
        /\ logged <= fallen

\* A value in memory that is not the one in the database has its bit set, so
\* that a later UPDATE saves it (the update macro, wxd.h:111-116, and the bits
\* db_writer clears).  Only what was lost does not, and that is no more than
\* the fields of a failed UPDATE (dbif_pg.c:218-223), all of them after a load
\* that failed (353-360, 383-399), and the outdoor dew point after one that did
\* not (373), each until an UPDATE of that field succeeds.  The halves of a
\* reset apart.
ChangesAreFlagged ==
    row # NoRow =>
        /\ \A f \in Fields : row.obs[f] # obs[f] => f \in ch_flag \cup lost
        /\ rain_tot # row.rain_tot => "RAINTOT" \in ch_flag \cup lost
        /\ rtot_offset # row.rtot_offset => "RAINTOT" \in ch_flag \cup lost \/ Resetting

\* The row, if there is one, has the field as memory has it.
Agrees(b) ==
    row # NoRow => IF b = "RAINTOT"
                     THEN row.rain_tot = rain_tot /\ row.rtot_offset = rtot_offset
                     ELSE row.obs[b] = obs[b]

\* A change flagged is in the row sooner or later, although the writer waits
\* without looking at the flags and misses the signals given while it writes
\* (dbif_pg.c:101-103, parse.c:134-140); or it is lost to a command or a load
\* that failed, and only to these.
ChangesAreSaved ==
    \A b \in Bits \ Directions :
        (b \in ch_flag) ~> (b \notin ch_flag /\ (Agrees(b) \/ b \in lost))

----------------------------------------------------------------------------
(* Stated by the repository's texts; the run that checks it fails.         *)

\* The offset compensates for resets, so the rain logged never goes down
\* (wxd.h:52).
RainNeverFalls == [][logged' >= logged]_vars
=============================================================================
