# WeatherStation: models, checks and proofs

`wxd` logs a Radio Shack WX-200 weather station to PostgreSQL. It is a small
pthreads program with a hand-made circular buffer between its threads, state
that lives both in memory and in a database row, signal handlers, and a restart
loop. This directory holds TLA+ modules of those parts, their TLC
configurations, and TLAPS proofs about each of them. Paths below are relative to the
repository's root; `wxd/` stands for `wx200/wxd/src/`.

## Inventory

| Component | State | Operations | Interacts through |
|---|---|---|---|
| circular buffer, `buffer/cbuf.c` (older copy in `cbuf/`) | head, tail, buf, flags readable and writeable, refcnt, ungetc, reason; mutexes readlock, writelock, readable_lock, writeable_lock | make, release, enter, remove, read, lookahead, unget | `serial_reader` enters, `parse_input` removes |
| serial reader, `wxd/serial.c` | bytes read | read, enter, refcnt-- | buffer, `terminate` |
| parser, `wxd/parse.c`, `parse.h` | the block being read, `current_cal` | framing, checksum, five block handlers with decoding and calibration, rain offset, signal | buffer, `current_obs`, `ch_flag`, `cond_update` |
| observation and database writer, `wxd/dbif_pg.c`, `wxd.h` | `current_obs`, `ch_flag`, row `current_obs`, table `wxobs`, `last_write_time` | UPDATE of the changed fields, INSERT of a row, loading at a start | `current_obs_lock`, `cond_update`, PostgreSQL |
| main and signals, `wxd/wxd.c` | `terminate`, `go` | start, join, restart, stop, HUP and TERM handlers | `terminate_lock` |
| configuration, `options/options.c`, `wxd/cfg_read.c`, `do_opts` | `opts`, getopt's position | read the file, read the command line, again at each restart | main |
| screen writer, debug log, tty set-up, `daemon()`, CGI pages, scripts, dumps | | | not modelled, see below |

### What is hard here

* Two threads exchange items through indices that no common mutex protects; the
  condition variables are guarded by flags that are not the condition.
* Two mutexes are taken in opposite orders by the two sides.
* A fall of the station's rain total is a reset, and memory, database row and
  station can each be at a different point when the daemon dies.
* The bits of `ch_flag` are cleared before the command that saves them can fail;
  the writer waits without looking at them.
* Signals arrive in any thread, one handler on top of the other, the handlers take
  a mutex, and main reads and clears what they write without one. Threads can wait
  for each other after they have been told to end.
* Blocks have no framing but their first byte and their length, so one byte lost
  shifts the rest; a checksum of eight bits is all that tells noise from a block.
* Readings pass through nibbles, integer divisions, `double`s and `int`s.
* A restart reads the file and the command line a second time, in state that the
  first time left behind.

`PROJECT.json` lists each hazard at its line with the properties about it.

## Modules

| Module | Models | Extends |
|---|---|---|
| `BoundedFifo` | what a buffer promises: a bounded queue | |
| `Cbuf` | `buffer/cbuf.c`, access by access; refined to `BoundedFifo` | |
| `RingArith` | lemmas on remainders, for indices modulo N and checksums | `TLAPS` |
| `CbufProofs` | theorems about `Cbuf`: wake-ups, order, refinement | `Cbuf`, `RingArith` |
| `CbufCallProofs` | theorems about what its calls rely on, and about lock cycles | `CbufProofs` |
| `ObsStore` | parser, database writer, database row, station, restarts | |
| `ObsStoreProofs` | theorems about `ObsStore` | `ObsStore`, `TLAPS` |
| `Blocks` | what the bytes of a block say: macros, checksum, handlers, calibration; the station's encoding | |
| `Parser` | `parse_input` byte by byte, on a line that loses, changes and makes up bytes | `Blocks` |
| `BlocksProofs` | lemmas on `Blocks`: digits, sums, the checksum | `Blocks`, `RingArith` |
| `ParserProofs` | theorems about `Parser` | `Parser`, `BlocksProofs` |
| `WxdLifecycle` | main, the three loops, signals | |
| `WxdLifecycleProofs` | theorems about `WxdLifecycle` | `WxdLifecycle`, `TLAPS` |
| `Settings` | configuration file, command line, restart | |
| `SettingsProofs` | theorems about `Settings` | `Settings`, `TLAPS` |
| `MCCbuf`, `MCObsStore`, `MCParser`, `MCWxdLifecycle`, `MCSettings` | values for TLC | one each |

**Cbuf.** A step is one access to shared memory, or a critical section that only
releases its mutex at the end. Where a thread holds one mutex and asks for
another the two are two steps (`EnterCheck`/`EnterWait`,
`RemoveRefcnt`/`RemoveWait`), so lock cycles can occur. `unget_cbuf` holds none: its
test of `have_unget`, its store of it and its store of the character are three steps
(`UngetTest`, `UngetFlag`, `UngetChar`), and `remove_cbuf`
finds the flag set in one (`CallLock`) and delivers the character and clears the flag in
another (`CallUngot`), so that another reader can come between any two. An item is the number of
its place in the order of entry: loss, duplication and reordering all show as a
wrong number. `Junk` is memory never stored, `Ungot` a character given to unget.
The compiled code was looked at for the order of the stores to `buf`, `tail` and
`head` (program order) and for `read_cbuf`'s copy loop, whose test of `tail` a
build may load once (`limit`). `stale` is a history variable: a woken thread
went on although its condition was false. The flags `readable` and `writeable`
say that there was something, not that there is; that is the library's one
weakness in this model, and everything promised about the order of items holds until
then.

**ObsStore.** `current_obs_lock` makes each section that holds it one step. The
rain total is a counter of the station that rises and now and then falls to
zero; `fallen` is all the rain there was. A block's values wait in `todo` and are
stored one `update()` at a time, so the writer may run in between.
`Update` is the whole critical section of `db_writer`, with the bits cleared
whether or not the command works; `WriteObs` and `Insert` are `write_obs` before
and after it releases the mutex. `Crash` is a kill at any point, `Reload` the
restart loop. Both load the row (`LoadRow`), or zeros when there is none or when the
connection or the SELECT fails (`LoadZero`): `init_db` cannot tell these cases apart
(`dbif_pg.c:353-360`), though its comment (`365-366`) speaks of the first use only.
`torn` (the total was used halfway through a reset) and `lost` (the fields whose value in memory
the row may miss without a bit to say so) are history variables. `lost` is written at three
places, each at a line that loses something: a failed UPDATE adds the
fields it sent, a load of zeros sets all, a load of the row the outdoor dew point alone; an
UPDATE that works takes away what it sent.

**Blocks, Parser.** A quantity is a number of tenths of its unit, so the `int`
and `double` fields of `obs_t` can be compared as C compares them. A handler is
a function from the bytes to the values it reads; `Reported` adds the
calibration and the compass, `Kept` the conversion to the field's type. The
station's side (`Payload`, `Encode`) has its digits where `wx200/protocol` has them, so
decoding is checked against something else than itself; the sign bits are not in that text and
are the handlers' own (`SignBit`, `parse.c:195`, `199`, `287`), so of these the checks
show only that they disturb no digit.
The handlers do not read all digits that the protocol gives: tenths of
temperatures and of wind speeds are lost to integer division, the last digit of a
direction to `Dxtoint`, which masks before it shifts. `ReadsWithinGrain` names this loss
and bounds it: what is read has the sign of what was sent and is less than one `Grain` (ten
tenths, a hundred for directions, one for all else: nothing lost) nearer to zero. `Truncated`
is the exact value read, for `StoredAsRead`. `Parser` has one byte per step: one that is passed over
(`Hunt`), the rest of a block (`Take`), and its last, with which it is checked
and stored (`Parse`). The line can drop a byte, change it or insert one, and the
daemon can start anywhere in a block. `calm` is a history variable: bytes since the
last fault. Every remove delivers what it is asked for; the one that ends short, once
the reader has left, is in `WxdLifecycle`.

**WxdLifecycle.** The buffer is `Cbuf`'s for one reader and one writer, with a number of
bytes in place of the bytes, counted modulo the ring because a stale wake-up may pass either
end. Its mutexes are taken as in `Cbuf`: a thread that found the ring full or
empty keeps one flag's mutex (`w_full`, `r_signal`) and asks for the other's in a step of its own
(`EnterWait`, `RemoveWait`), sleeps, wakes and looks at its flag again. Merged are
what one thread on each side cannot tell apart: the two accesses that take an item or put it, and
the test of `refcnt` with the finding that the ring is empty, as `readable_lock` is kept and
`refcnt` changes only after the last byte is in. The block is a number of bytes after its first.
A delivered signal stops its thread while it is handled. Locking and storing, and unlocking, are
two steps (`HandleStore`, `HandleUnlock`), and `handling` is a stack: the other signal may come on top
of a handler, before it has `terminate_lock` or while it holds it, in any thread and in main
(`wxd.c:41-44` masks nothing). The set-up can end the program: an option
that `do_opts` refuses, a fork that fails (`MainRefuses`), a port that cannot be opened
(`MainNoPort`). `hup` is a history variable.

**Settings.** A line of the file is what `MOptionsRead` takes it for. `do_opts` takes one
option of the command line at a time (`TakeOption`, `RefuseOption`) from where `optind` stands,
which belongs to getopt and stays where it is at a restart. The module has a
declarative reading of sections and classes (`Says`) beside the loop with its two
flags, and the README's rule on precision (`MorePreciseWins`) beside the code's,
which is that the last assignment wins.

### How they fit

`WxdLifecycle` has the buffer's own sleeping and waking, of which `Cbuf` has the proofs:
its threads call it as `serial_reader` and `parse_input` do, with reads that may
be as large as the ring, which is outside `CountsFit`, and so the cycle that `cbuf_whole_ring`
finds is one of the five ways in which `EndsOrHangs` lets a round hang.
`Parser` takes bytes in the order they were sent, which is what the buffer gives
it; the blocks it accepts are what `ObsStore` receives
(`Receive`), which adds what happens between the handlers' critical sections. `ObsStore`'s
`Crash` and `Reload` are the ways `WxdLifecycle` starts over, `Parser`'s `Start` the way it sees both. `Settings` is
the set-up step of `WxdLifecycle`.

## Runs

| Run | Checks | Shows |
|---|---|---|
| `cbuf_safety` | `TypeOK RingHoldsTheRest ReaderWakeupNotLost WriterWakeupNotLost NoLockCycle NeverBothAsleep LookaheadSeesNext ImplementsFifo EofOnlyWhenDrained UngotComesNext` | one writer, one reader, all operations, spurious wake-ups |
| `cbuf_threads` | `RingHoldsTheRest ReaderWakeupNotLost EnterReturns ReaderGetsItems` | two writers, liveness |
| `cbuf_in_order` | `RemovedInOrder`, fails | stale wake-ups deliver wrong items (`cbuf.c:137`) |
| `cbuf_whole_ring` | `EnterReturns`, fails | lock cycle once a writer's count is a whole ring (`cbuf.c:93`, `139`) |
| `obs_store` | `TypeOK NeverOverReports ChangesAreFlagged` | rain is never made up; differences are flagged, but for what failed commands and loads lose |
| `obs_live` | `ChangesAreSaved` | flagged changes reach the row, though signals are lost |
| `obs_spike` | `RainNeverFalls`, fails | a row between the halves of a reset (`parse.c:258-265`) |
| `wxd_threads` | `TypeOK StopsWhenTold RestartsWhenTold EndsOrHangs` | rounds end because they were told to; the five ways they hang |
| `wxd_stop` | `StopsOnTerm`, fails | a parser asleep in the buffer after the reader left (`serial.c:143`) |
| `settings` | `TypeOK ReadsWhatFileSays MorePreciseWins StartsAsTold` | the reader loop against the declarative reading, when the more precise assignment wins, and what the daemon starts with |
| `parser` | `TypeOK LaterBlocksArrive OneChangeIsCaught StoredAsRead ReadsWithinGrain DirectionsOnCompass FlaggedIfChanged` | one fault anywhere in a stream of blocks; what is stored of them |
| `settings_restart` | `CommandLineWins`, fails | getopt has nothing left after a HUP (`wxd.c:74`) |

### Bounds, and why they are enough

* `Cbuf`: a ring of three slots, two usable, is the smallest that is neither
  empty nor full at times; four items go round it once and wrap both indices.
  Counts of 1 and 2 make calls that fit, fill the ring, and block halfway;
  a count of 0 is an empty `fread`. A count of N or more is the case of
  `cbuf_whole_ring`; the passing runs keep below it, which is the usage
  `NoLockCycle`, `NeverBothAsleep` and `EnterReturns` depend on. The theorems need
  none of these bounds, but for the first two of those three, which assume
  `CountsFit`.
* `ObsStore`: two units of rain allow a reset that is noticed, one that goes
  unnoticed because the counter came up to the old total again, and rain after the first. `obs_spike`
  has three. `obs_live` has one, and a reset of the counter after it.
  Restarts stop once the offset exceeds all the rain there can be (`MayRestart`),
  since a pair saved inside the window is counted again at each restart.
  Readings differ in a speed, a direction, or both.
  `obs_store` has the rain block alone, with kills and failing commands; a second
  block multiplies the states beyond use, so for the other fields `ChangesAreFlagged`
  (and the dew point's exception) rests on its theorem. `obs_live` has wind and rain, no kills,
  and no failing commands: what these lose is saved when its field changes again, which the
  weather need not bring about.
* `WxdLifecycle`: a ring of one byte and reads of two: a read may be larger than
  the ring, as in `wxd`, where both are BSIZE and one slot stays free; two signals give
  every order of HUP and TERM, one handler on top of the other, and a round that begins
  after a HUP. For `wxd_stop` one signal and reads of one byte are enough: what it finds is not the lock
  cycle, which such reads cannot meet.
* `Parser`: one measurement of each kind (two temperatures, one of them
  impossible), after each of which any other may follow. One fault, of any kind, at any byte of
  any block: `LaterBlocksArrive` is about what comes after the last fault, in whatever state it
  left the parser, and its theorem has no bound on faults. Noise
  is a byte no block starts with, the number of the longest block and that
  of the shortest. `calm` is counted up to two blocks, more than the property asks for.
  `ReadsWithinGrain` goes through every value of every field, the others
  being zero.
* `Settings`: all files of three lines, and up to three titles followed by a line, which covers
  every combination of section and class before an assignment; files of two titles
  with an assignment before, between and after them; and an edited
  file of up to one line at the restart. Six command lines: empty, an option once, the same
  option twice, two options, and an option that is refused before or after one that is not.

### Fairness

`Cbuf`: weak fairness of each thread's steps inside a call; a reader calls
again, as the loops of `parse_input` and `empty_buf` do; no writer has to call.
Liveness is stated without spurious wake-ups, which only help unless they occur
for ever. `ObsStore`: weak fairness of the parser (the station keeps sending)
and of the writer. `WxdLifecycle`: strong fairness of each thread, because
`terminate_lock` and the buffer's mutexes are free now and then rather than always; spurious wake-ups may
happen and are not relied on. No run checks for deadlock, since calls may stop
coming (`EnterLock` is bounded), the daemon exits, and hanging is stated as a
property where it matters.

## Proofs

Every safety property that a passing run checks, invariant or action property, is
a theorem. None is about a bounded instance: the sets and numbers a module is
parameterised by are arbitrary within its named assumption.

**CbufProofs**, for every ring size N >= 2, every set of readers and every finite
set of writers, every set of counts and operations (`CbufAssumption`):

* `TypeCorrect`: `TypeOK`.
* `ReaderWakeupSafe`, `WriterWakeupSafe`: no wake-up is lost.
* `RingSafe`: `RingHoldsTheRest`.
* `Refinement`: `Cbuf` implements `BoundedFifo` under the mapping of `Fifo`.

None of these is inductive. `IInv` adds who holds which mutex at which program
counter, where each thread's index `j` stands with respect to `head` and `tail`,
what a flag that is false says about the buffer, and what a thread past its
store still owes the other side. The wake-up theorems follow from the last two: a thread
sleeps only if the flag was false when it looked, so the other side has stored
since, and has yet to signal. `RingOK` adds the contents: the indices are the
numbers of items entered and removed modulo N (`RingArith` has the arithmetic),
each slot in between has its item, and the local index of the thread holding
`writelock` or `readlock` is the slot it is about to use; all of it until
`stale`. The refinement is then one case per action: `EnterTail` is a put,
`RemoveHead` a take, a stale wake-up breaks the promise, the rest stutter.

**CbufCallProofs**, under the same assumption and on top of `IInv`:

* `EofIsDrained`: `EofOnlyWhenDrained`. The decrement of `refcnt` is a load and a store
  without a mutex, so two writers that end together can lose one. `RefcntOK`
  says on which side the error falls: the count, and what any writer has loaded of it,
  is at least the number of writers still to store. A reader that sees zero
  therefore sees all of them gone, and a writer that is gone owes nothing.
* `LookaheadIsRight`: `LookaheadSeesNext`. `LookAt` places the lookahead: it
  has stored the items after the last removed, in order, and its index is
  the slot of the next. Entering moves only the far end, and `readlock` keeps the near one.
* `UngotIsNext`: `UngotComesNext`, for a single reader (two would race for `have_unget`).
  `UngotOK` needs `RingHasNoUngot` beside it: what is given back never enters the ring.
* `NoCycle`: `CountsFit => (Spec => []NoLockCycle)`, and `OneSideAwake`: the same of
  `NeverBothAsleep`. `CountsFit` says that no call asks for N items or more, of
  `remove_cbuf` only where that is called. The invariant is `CycleOK`. A lowered
  `readable` says that the ring was empty, and what it holds now can only come from one
  enter in progress, since an enter that ends raises the flag (`FewHeld`); a lowered
  `writeable` says the mirror image of room and removes (`MuchHeld`). With counts
  below N neither can bridge the whole ring, so one of the flags is always up
  (`OneFlagUp`), and the side that it belongs to does not wait. Stale wake-ups change nothing
  of this. Each half of `CountsFit` is needed: TLC finds a cycle with a
  count of N on either side alone. In `wxd` the parser's reads fit; those of
  `serial_reader` fit unless one `read()` fills its buffer, which is as
  large as the ring (`serial.c:127`, `wxd.c:86`).

**ObsStoreProofs**, for every set of blocks out of the station's five, every set of
readings, any amount of rain, with and without restarts and failing commands
(`ObsAssumption`):

* `ObsTypes`: `TypeOK`. It needs `TodoOK` beside it: the updates a block still
  asks for exist where the parser is about to use them, and only the last can
  be the total.
* `RainNotMadeUp`: `NeverOverReports`. That total plus offset stays below
  the rain fallen is not inductive, because the station's counter, not the rain,
  is what the next block adds. `Within` says what is: the sum stays below the
  rain fallen now, with the counter on top of it when the counter has fallen
  behind the total (the next block will take that for a reset), and with the
  counter in place of the total when it has not. Rain and a reset of the counter keep
  `Within` for any pair; a block only exchanges one pair for the other. `RainOK`
  asks it of the pair in memory (of the pair it is about to become, between the
  halves of a reset) and of the row, so a restart with the row finds it again. The
  hypothesis `~torn` is needed where the halves are visible to the writer.
* `NoChangeForgotten`: `ChangesAreFlagged`. It is inductive beside the two
  type invariants: each `update()` sets the bit of what it changes in the same critical section,
  the `UPDATE` clears exactly the bits of what it sends, which are either in the row or
  `lost`, and a restart loads what the
  row has or loses all of it (`LoadAgrees`). It was writing this proof that
  named the outdoor dew point: `LoadAgrees` fails for it (`dbif_pg.c:373`).

**BlocksProofs** has the lemmas about what bytes say, the handlers being pure
functions. One half is digits: for each handler, the nibbles that the station
writes of a reading are read back as that reading, as far as the handler can tell
(`ReadsTemperature`, `ReadsRain`, ...). The other half is the checksum. It is a
fold, and induction over data is out of reach here; so the lemmas on sums (`SumTakes`: the sum over a
set is that over the set without any one of its elements, plus that element) are
proved from a smallest set that would break them (`SmallestSet`).
`ChecksumSees` follows: two blocks with good checksums that agree in all bytes
but one agree in that one, because a sum modulo 256 tells any two bytes apart.

**ParserProofs**, for every set of sound measurements, noise and calibration
tables and any number of faults (`ParserAssumption`; a measurement is sound if its
values are what the digits of a block can say):

* `TypeCorrect`: `TypeOK`, with a block in progress below the size `buf` is read for.
* `Resynchronises`: `LaterBlocksArrive`. The inductive part is `Sync`: a block in
  progress is either in step with the station (`InStep`) or was begun before
  the last fault, so it is longer than the line has been quiet. No block is longer than
  `MaxSize`, so once the line has been quiet for that long only the first remains; until
  then the parser's false block ends inside a true one, and `NoLookalikes` keeps it
  waiting for the next group number.
* `CompassSafe`: `DirectionsOnCompass`, from bounds on C's remainder; it is inductive by itself
  once the types are known.
* `EveryReadingDecodes`: `ReadsWithinGrain`. `BlocksProofs` says that each handler reads the
  `Truncated` value, `TruncatedIsNear` how far that is from the value sent.
* `MeasurementsAreStored`: `StoredAsRead`. It needs `Whole`: the `int` fields hold whole units.
  Without it the `update()` that finds a field equal to the value it was given, and so
  leaves it alone, could leave something other than what the conversion would store.
* `FlagsMeanChange`: `FlaggedIfChanged`, an action property. `update()` compares
  the stored field with the value before its conversion; a whole calibration of a
  whole reading makes the two comparisons the same.
* `ChangesAreCaught`: `OneChangeIsCaught`, from `Checked` (a block that was taken has a
  good checksum) and `ChecksumSees`.

**WxdLifecycleProofs**, for every size of the ring, of a read and of a block and any
number of signals (`LifecycleAssumption`):

* `TypeCorrect`: `TypeOK`, beside `ReaderCounted`: the buffer's reference is
  there until the reader gives it back, so it never goes below zero; and `BytesLeft`: inside the
  buffer's loops there are bytes left to put or take, so neither count does.
* `ThreadsStopWhenTold`: `StopsWhenTold`, and `RestartNeedsHup`: `RestartsWhenTold`.
  `RoundInv` carries across the joins what the code forgets: between main's reads of
  `terminate` and its reset, signals may still arrive and change what it read, but no worker
  runs, and only a HUP writes RESTART (`AskedFor`).

**SettingsProofs**, for every set of files and command lines of any length and every
set of options (`SettingsAssumption`):

* `TypeCorrect`: `TypeOK`, with `FileIsOpen`.
* `FileIsUnderstood`: `ReadsWhatFileSays`. `Scanning` says what the two flags of the loop stand
  for at every line: the flags are the declarative `InSection` and `InScope` of that
  line, and the options are what the lines behind it say (`SaysBefore`). The lemmas move
  the last assignment, the last title and the scope on by one line.
* `PreciseWins`: `MorePreciseWins`, from the theorem before it: in a file that
  is `WellTitled` the precision in scope only grows with the lines.
* `DaemonStartsAsTold`: `StartsAsTold`. `Parsed` follows `optind` through the restart loop: it is
  at the start until `do_opts` first runs and at the end ever after, and `errflg` is set when it has
  passed an option that is refused. `Started` says what the options are when the first `optind - 1`
  arguments have been taken over what the file left (`Told`); `ToldNext` takes one argument more. It rests on `Scanning` for the
  file's part. Later rounds, which find `optind` at the end, are the failing run `settings_restart`.

Only model-checked is liveness, which is out of the prover's reach with the
fairness it needs: `EnterReturns` and `ReaderGetsItems` of `Cbuf`, `ChangesAreSaved` of
`ObsStore`, `EndsOrHangs` of `WxdLifecycle`. The failing runs are TLC's too: each is a
counterexample, and the history variables (`stale`, `torn`, `lost`) and hypotheses (`CountsFit`,
`NoLookalikes`, `WellTitled`) of the theorems say what they leave out.

## Findings

The five failing runs each show one: see the table and `PROJECT.json`. In short:
the buffer's flags are tested without the indices they stand for; the two flag
mutexes can be taken in a cycle; a rain reset is stored in two halves; TERM can
leave the daemon waiting for a sleeping thread; a restart ignores the command line.

Others are written into properties that hold, as their exceptions: the outdoor
dew point is loaded from the indoor column, a connection or SELECT that fails at a start leaves
zeros in memory, and a failed UPDATE has cleared its bits (all three are `lost` in
`ChangesAreFlagged`, `dbif_pg.c:373`, `353-360`, `218`);
a handler that interrupts the other may wait for ever for the mutex of its own thread
(`SelfDeadlock` in `EndsOrHangs`, `wxd.c:41-44`, `247`, `256`);
tenths of temperatures and wind speeds and the last digit of directions are lost
(`Grain` in `ReadsWithinGrain`, `parse.c:194-198`, `280-284`, `parse.h:16`; `wx200/protocol:40-44`,
`61-68` gives them); a calibration that is not whole makes every block
flag an `int` field again (`FlaggedIfChanged`, `wxd.h:111`); a second title of a
section lets its defaults override its classes (`WellTitled`, `options.c:419`);
the result of a failed command is cleared twice, which `Crash` stands for
(`dbif_pg.c:220-222`, `270-272`).

## Not modelled, and why

* The date and time of an 8F block: stored, printed, and used by nothing
  else. (Month and day are read from bytes 5 and 4; `wx200/protocol:33-36` has them in
  4 and 5.) Unit selections: the handlers do not read them either.
* `finite()` in `update()`: no operation on these readings gives an infinity unless a
  calibration does; calibrations are whole factors and offsets in tenths here.
* A `remove_cbuf` that ends short, in `Parser`: `parse_input` goes on with bytes its array
  held before, once, at the end of a round; `WxdLifecycle` has it, without the bytes.
* A station whose readings repeat a group number inside a block: then
  nothing says when the parser is back in step, and `LaterBlocksArrive` says nothing.
* Characters of the configuration file: a line is what `MOptionsRead` makes of it.
* Serial port attributes, `daemon()`'s forks, logging: I/O without state the
  threads share. `errorlog` clears `UseSyslog` on each call, so that option has no effect.
* `screen_writer`: compiled out; it clears flags as `db_writer` does.
* The CGI pages: SQL and HTML over the database. The interval rain of
  `split-query.cgi` is planned as a pure operator.
* An empty `cal_fact`, PostgreSQL itself.

## Plan

1. Done: `Cbuf` with its abstraction, `ObsStore`, `Parser`, `WxdLifecycle` and
   `Settings`, and the proofs of every safety property a run checks of them.
2. Next theorems: that the buffer's calls are atomic appends and takes for a
   caller that stays within `CountsFit`; what a restart keeps of the settings.
3. Next modules: interval rain of the queries. `WxdLifecycle` has the buffer's sleeping
   and waking; that it is what `Cbuf` does for one thread on each side, as a refinement, is left.
