------------------------------- MODULE Parser -------------------------------
(***************************************************************************)
(* parse_input (parse.c) at the end of a noisy line: bytes arrive, a group *)
(* number starts a block, the next SIZE - 1 bytes are taken for the rest   *)
(* of it, and a block whose checksum is right is decoded, calibrated and   *)
(* stored.  There is no other framing: a byte lost or made up shifts all   *)
(* that follows.                                                           *)
(*                                                                         *)
(* The line and the circular buffer keep the order of bytes (Cbuf), so a   *)
(* byte is parsed when it is sent.  A block is stored in one step: the     *)
(* locks, the database writer and the rain offset are in ObsStore.  The    *)
(* date and time of an 8F block are stored too, and used by nothing.       *)
(*                                                                         *)
(* Every remove_cbuf delivers what it is asked for here.  One that ends    *)
(* short, because the reader has left, makes parse_input go on with bytes  *)
(* that its array held before; that happens once, at the end of a round,   *)
(* and is left to WxdLifecycle.                                            *)
(***************************************************************************)
EXTENDS Blocks

CONSTANTS Measured,    \* what the station measures: the blocks it sends
          Noise,       \* the bytes a fault may put on the line
          CalTables,   \* what the table cal_fact may contain
          MaxFaults    \* bound: faults on the line and restarts

\* The bytes of each block, and the ones that never occur inside it.
Bytes == [m \in Measured |-> Encode(m)]
NoLookalikes == \A m \in Measured : \A i \in 2 .. Len(Bytes[m]) : Bytes[m][i] \notin Headers

ASSUME ParserAssumption ==
    /\ \A m \in Measured : Sound(m)
    /\ Noise \subseteq Byte
    /\ \A t \in CalTables : t \in Seq([Fields -> [mul : Int, offs : Int]]) /\ t # <<>>
    /\ MaxFaults \in Nat

VARIABLES sending,     \* the station: its block,
          at,          \* and how much of it is sent; 0 before the daemon starts
          buf,         \* the parser: the block so far, none while it looks for one
          obs, cal,    \* current_obs and current_cal
          got,         \* the block that the last byte completed, if it was good,
          flagged,     \* and the bits it set in ch_flag
          calm,        \* history: bytes sent since the last fault, up to Calm
          faults

line   == <<sending, at>>
stored == <<obs, got, flagged>>
vars   == <<line, buf, stored, cal, calm, faults>>

Calm == 2 * MaxSize

\* sane_defaults
SaneCal == [f \in Fields |-> [mul |-> 1, offs |-> 0]]

Init ==
    /\ sending \in Measured /\ at = 0
    /\ buf = <<>> /\ obs = [f \in Fields |-> 0] /\ cal = SaneCal
    /\ got = <<>> /\ flagged = {}
    /\ calm = 0 /\ faults = 0

----------------------------------------------------------------------------
(* What the parser does with a byte.                                       *)

Nothing == got' = <<>> /\ flagged' = {} /\ UNCHANGED obs

\* Any byte that is no group number is passed over.
Hunt(c) ==
    /\ buf = <<>>
    /\ buf' = IF c \in Headers THEN <<c>> ELSE <<>>
    /\ Nothing

\* Bug: SIZE bytes are taken after the group number.
TakeOneMore(c) ==
    /\ buf # <<>> /\ Len(buf) < SIZE[buf[1]]
    /\ buf' = Append(buf, c)
    /\ Nothing

Take(c) ==
    /\ buf # <<>> /\ Len(buf) + 1 < SIZE[buf[1]]
    /\ buf' = Append(buf, c)
    /\ Nothing

\* Bug: the value is compared before it is calibrated.
UpdateRaw(r) ==
    LET new(f) == Reported(f, r[f], cal)
    IN /\ flagged' = {f \in DOMAIN r : obs[f] # r[f]}
       /\ obs' = [f \in Fields |-> IF f \in flagged' THEN Kept(f, new(f)) ELSE obs[f]]

\* One call of update() per field.
Update(r) ==
    LET new(f) == Reported(f, r[f], cal)
    IN /\ flagged' = {f \in DOMAIN r : obs[f] # new(f)}
       /\ obs' = [f \in Fields |-> IF f \in flagged' THEN Kept(f, new(f)) ELSE obs[f]]

\* Bug: after a bad checksum the next block is taken to begin at once.
ParseGoesOn(c) ==
    LET b == Append(buf, c)
    IN /\ buf # <<>> /\ Len(b) = SIZE[buf[1]]
       /\ IF ~sumcheck(b) THEN Nothing /\ buf' = <<buf[1]>>
          ELSE /\ got' = b /\ buf' = <<>>
               /\ IF BadData(Decode(b)) THEN flagged' = {} /\ UNCHANGED obs
                  ELSE Update(Decode(b))

\* The last byte of what is taken for a block.
Parse(c) ==
    LET b == Append(buf, c)
    IN /\ buf # <<>> /\ Len(b) = SIZE[buf[1]]
       /\ buf' = <<>>
       /\ IF ~sumcheck(b) THEN Nothing
          ELSE /\ got' = b
               /\ IF BadData(Decode(b)) THEN flagged' = {} /\ UNCHANGED obs
                  ELSE Update(Decode(b))

Arrive(c) == Hunt(c) \/ Take(c) \/ Parse(c)

----------------------------------------------------------------------------
(* The line.                                                               *)

Advance ==
    /\ at > 0
    /\ IF at < Len(Bytes[sending]) THEN at' = at + 1 /\ UNCHANGED sending
       ELSE at' = 1 /\ sending' \in Measured

Byte1 == Bytes[sending'][at']

Send ==
    /\ Advance /\ Arrive(Byte1)
    /\ calm' = IF calm < Calm THEN calm + 1 ELSE calm
    /\ UNCHANGED <<cal, faults>>

Fault == /\ at > 0 /\ faults < MaxFaults
         /\ faults' = faults + 1 /\ calm' = 0
         /\ UNCHANGED cal

Drop == Fault /\ Advance /\ Nothing /\ UNCHANGED buf

Change == Fault /\ Advance /\ \E c \in Noise \ {Byte1} : Arrive(c)

Insert == Fault /\ UNCHANGED line /\ \E c \in Noise : Arrive(c)

\* The daemon starts, or starts again, anywhere in a block; init_db reads the
\* last row of cal_fact.  (What becomes of the observation is in ObsStore.)
Start ==
    /\ at > 0 => faults < MaxFaults
    /\ faults' = IF at > 0 THEN faults + 1 ELSE faults
    /\ \E t \in CalTables : cal' = t[Len(t)]
    /\ sending' \in Measured /\ at' \in 1 .. Len(Bytes[sending'])
    /\ buf' = <<>> /\ calm' = 0
    /\ Nothing

Next == Send \/ Drop \/ Change \/ Insert \/ Start

Spec == Init /\ [][Next]_vars

----------------------------------------------------------------------------
(* Properties.                                                             *)

\* Every variable has its type; a block in progress starts with a group number
\* and is shorter than it says (parse.c:38-41, wxd.h:37-79).
TypeOK ==
    /\ sending \in Measured /\ at \in 0 .. Len(Bytes[sending])
    /\ buf \in Seq(Byte) /\ (buf # <<>> => buf[1] \in Headers /\ Len(buf) < SIZE[buf[1]])
    /\ obs \in [Fields -> Int] /\ cal \in [Fields -> [mul : Int, offs : Int]]
    /\ got \in Seq(Byte) /\ flagged \subseteq Fields
    /\ calm \in 0 .. Calm /\ faults \in 0 .. MaxFaults

\* The parser finds its way back: whatever the line did, a block is received
\* if it and the MaxSize - 1 bytes before it arrive as sent, as long as no byte
\* inside a block looks like a group number (parse.c:47-132).
LaterBlocksArrive ==
    (NoLookalikes /\ at > 0 /\ at = Len(Bytes[sending]) /\ calm >= at + MaxSize - 1)
        => got = Bytes[sending]

\* A block with one byte changed on the way is never stored for the one sent
\* (parse.c:323-332).
OneChangeIsCaught ==
    got # <<>> => \A m \in Measured :
        LET b == Bytes[m]
        IN ~ /\ Len(b) = Len(got)
             /\ \E i \in DOMAIN b : /\ b[i] # got[i]
                                    /\ \A k \in DOMAIN b \ {i} : b[k] = got[k]

\* How finely a handler tells a field's values apart, in tenths: integer
\* division takes the tenths of temperatures and wind speeds, Dxtoint the last
\* digit of a direction; every other digit is kept (parse.c:194-198, 280-284,
\* parse.h:16).
Grain(f) == IF f \in {"TEMPIN", "TEMPOUT", "GUST", "WAVG"} THEN 10
            ELSE IF f \in Directions THEN 100 ELSE 1

\* The values r and x have one sign, and r is less than a grain nearer to zero.
WithinGrain(f, r, x) == /\ Magnitude(r) <= Magnitude(x)
                        /\ Magnitude(x) - Magnitude(r) < Grain(f)
                        /\ r < 0 => x < 0
                        /\ r > 0 => x > 0

\* Whatever digits the station sends of a field, the handler of the field's
\* block reads the value they say: humidity, dew points, pressure, rain and
\* wind chill exactly, the others less the digits that Grain names, although
\* wx200/protocol:40-44 and 61-68 gives those too.  Of the other fields of the
\* block it reads nothing (parse.c:152-320, parse.h:14-16).
ReadsWithinGrain ==
    at = 0 => \A f \in Fields : \A x \in ReadingsOf(f) :
        LET m == [h |-> BlockOf(f), v |-> [g \in FieldsIn(BlockOf(f)) |-> IF g = f THEN x ELSE 0]]
            r == Decode(Encode(m))
        IN /\ DOMAIN r = FieldsIn(BlockOf(f))
           /\ WithinGrain(f, r[f], x)
           /\ \A g \in DOMAIN r \ {f} : r[g] = 0

\* What the handlers make of a reading.
Truncated(f, x) ==
    IF f \in {"TEMPIN", "TEMPOUT", "GUST", "WAVG"} THEN 10 * ToInt(x)
    ELSE IF f \in Directions THEN 100 * (x \div 100) ELSE x

Calibrated(f, x) == x * cal[f].mul + cal[f].offs
Shown(f, v) == IF f \in IntFields THEN 10 * ToInt(v) ELSE v

Arrived == at > 0 /\ got = Bytes[sending] /\ ~BadData(Decode(got))

\* Of a block that arrives as it was sent, every field is stored as measured,
\* in its own place and with its own calibration, so far as the handler can
\* tell; a direction is turned by whole circles (parse.c:152-320).
StoredAsRead ==
    Arrived => \A f \in DOMAIN sending.v :
        LET x == Calibrated(f, Truncated(f, sending.v[f]))
        IN IF f \in Directions THEN (obs[f] - 10 * ToInt(x)) % 3600 = 0
           ELSE obs[f] = Shown(f, x)

OnDial(x) == 0 <= x /\ x <= 3600

\* A direction is on the compass at all times, whatever its calibration and
\* whatever noise passed for a block (parse.c:302-308).
DirectionsOnCompass == \A f \in Directions : OnDial(obs[f])

\* A field is flagged only if what is stored of it changes, the calibration of
\* an int field being whole (wxd.h:111-116).
FlaggedIfChanged ==
    [][\A f \in flagged' : (f \in IntFields => cal[f].offs % 10 = 0) => obs'[f] # obs[f]]_vars
=============================================================================
