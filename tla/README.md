# Presence node: TLA+ models and proofs

The firmware in `src/` runs on an nRF5340. It configures an IWRL6432 radar over
one UART, reassembles its binary frames, reads an SEN5x air quality sensor over
I2C, writes one record per period (30 s) into a ring in flash, and streams
stored records to a phone over BLE when asked. These modules model the parts
that keep state, TLC checks them on small instances, and TLAPS proves the
invariants that matter most for every size.

Paths below are relative to the repository: `src/store.c` is the C file,
`PROJECT.json` maps every definition to its lines.

## 1. Inventory

| Part | State | Operations | Runs on |
|---|---|---|---|
| Record store, `src/store.c` | flash: META, FORMAT, FLOOR, one id per slot; RAM: `meta`, `boot_offset`, `floor_seq` | `store_init`, `store_append`, `store_get`, range queries | main loop appends, dump thread reads, one mutex |
| Wire format, `src/frame.c` | none | range of a dump, sizes, encoding, CRC, command parsing | callers |
| BLE dump, `src/ble.c` | `current_conn`, `notify_enabled`, `dump_req`, `dump_first_seq`, locals of `dump_run` | callbacks; `dump_run`; `notify_chunk` | Bluetooth RX (cooperative), dump thread (prio 7) |
| Advertising window, `src/ble.c`, button in `src/main.c` | `adv_window_open`, two work items, a delay | `ble_advertise_window`, `adv_on_fn`, `adv_off_fn`, connection callbacks | button ISR, timer, system work queue, Bluetooth RX |
| Frame reassembler, `src/tlv.c` | `buf`, `len`, `want`, `match` | `tlv_reset`, `tlv_push` | radar thread |
| TLV decoders, `src/tlv.c` | none | `tlv_find`, `tlv_targets`, `tlv_presence` | radar thread |
| Occupancy window, `src/radar.c` | `acc` | `on_frame`, `radar_window_take` | radar thread adds, main loop takes, one mutex |
| Radar link, `src/radar.c` | UART ring, CLI buffer, stall clock | ISR, `cli_*`, `radar_reset`, `radar_configure`, `radar_thread` | ISR, radar thread (prio 6) |
| Air quality sensor, `src/sen5x.c` | `running`, `acc` | `sen5x_start`, `sen5x_poll`, `sen5x_window_take` | main loop |
| Main loop, `src/main.c` | `sec`, `next_tick` | `main`, `window_flush` | main thread (prio 0) |
| Probe mode, `src/main.c` | none | reads one pin for ever | instead of the application |

How they interact: the radar thread feeds the occupancy window, the main loop
polls the sensor, takes both windows and appends a record; the dump thread reads
the store while that goes on; the button and the connection callbacks drive
advertising.

What is hard, and what makes each part correct:

* **Store.** Two flash writes per append and four changes of flash per format
  change, with power cuts and failures between any two; unlocked reads next to
  locked writes. Correct when no number is issued twice, the counter never goes
  back, and the ring never claims what it does not hold.
* **Dump.** The ring moves under a dump whose length is already announced; the
  link, the subscription and the command can change at any step; the
  controller's buffers run out. Correct when the central receives well-formed
  frames of honest records and every dump ends.
* **Advertising.** Four contexts share one flag and a work item that can be
  queued, delayed or running. Correct when the node is visible exactly while a
  window is open.
* **Reassembler and walk.** Any bytes may arrive. Correct when nothing is read
  or written outside the frame and no frame is missed or invented.
* **Radar link.** One UART for the CLI and the frames; a radar that rejects
  lines, hangs, or answers after the deadline. Correct when each line is credited
  with its own answer, a started radar is never configured in place, and the node
  finds its way back to streaming.
* **Main loop.** Two sensors that fail independently and a cadence that slow
  writes disturb. Correct when each record tells which sensor to trust and no
  second is lost.
* **Windows.** Snapshot and reset against concurrent updates; clocks that run
  across windows; sensors that die. Correct when a record says what happened in
  exactly its own window and a fault is never silent.

The hazards are listed line by line in `PROJECT.json`.

## 2. Modules

| Module | Models | Notes |
|---|---|---|
| `RecordLog` | the promise of the store | `Publish`, `AgeOut`, `DropAll` on a set of held records |
| `Store` | `src/store.c` | instantiates `RecordLog` with what flash alone says |
| `Frame` | sizes, record and command bytes, `sntl_dump_range` of `src/frame.c` | operators only |
| `BleDump` | `src/ble.c` dump, composed with `Store` and `Frame` | the main loop appends while the dump runs |
| `BleAdv` | the advertising window | ISR steps fall between any two steps of a handler |
| `Tlv` | `tlv_push`, `tlv_reset` and the caller's resets | history variable `seen` holds the bytes since the last reset |
| `RadarRx` | the receive loop of `radar_thread`: `Tlv` composed with `tlv_find` and the list of types, as `on_frame` calls them | offsets modulo a width |
| `RadarLink` | `uart_isr`, `cli_*`, `radar_reset`, `radar_configure`, the loops of `radar_thread` | the demo on the radar is external |
| `RadarWindow` | `on_frame`, `radar_window_take`, `tlv_targets`, `tlv_presence` | history variable `rlog` of frames and takes |
| `Sen5x` | `src/sen5x.c` | 16-bit words, two's complement |
| `Node` | `main`, `window_flush`: composes `RadarWindow`, `Sen5x` and the encoding of `Frame` | |
| `StoreProofs`, `StoreLogProofs` | theorems about `Store`, the refinement of `RecordLog` | section 5 |
| `DumpProofs` | theorems about `BleDump` | extends `StoreLogProofs` |
| `AdvProofs`, `LinkProofs` | theorems about `BleAdv`, `RadarLink` | |
| `TlvProofs`, `RadarRxProofs` | theorems about `Tlv`, `RadarRx` | the second extends the first |
| `NodeProofs` | theorems about `Node` with `RadarWindow` and `Sen5x` | |
| `MC*` | instances for TLC | the constants' values are in the `.cfg` files |

Conventions. One action per operation, or one per step where another actor or a
power cut can fall in between. `pc` and `npc`, `dpc`,
`lpc` and `handler` say where the main thread, the dump thread, the radar thread
and the work queue thread are. Operators named `Bug_...`
are plausible defects of the operator that follows them; no specification uses
them, and each is put in the place of the operator it varies to see that the
property it is paired with notices.

### Store

Every `nvs_write`, and `nvs_clear`, is a step; NVS promises that a single write
happens or does not, so a step is atomic. `nvs_clear` works sector by sector and
is the exception: interrupted, it may have lost any of the entries
(`PartlyErased`). `Faults` says which failures may happen: a failed mount, a
failed or cut erase, a failed write or a cut in the format change, a failed
record write, a failed META write, and a failed read of META, FORMAT, FLOOR or a
record. `store_init` checks none of its three reads, so one that fails looks like
an id that was never written (`Mount`); `store_get` turns a failed one into
"no such record" (`GetReadFails`). Power cuts everywhere else are always
possible. `PowerOn(f)` boots a firmware whose record has size `f`, so a change of
`NVS_FORMAT` and a change back are both ordinary steps. `store_get` is two steps,
the unlocked range check and the locked read. When `store_init` returns an
error, `init_ok` stays false and the main loop runs all the same, as `main` does.
`seq` is a natural number: at one record in 30 s, 2^32 records take 4000 years.

### BleDump

The Bluetooth callbacks run at a cooperative priority and are one step each. The
dump thread is preemptible: it is split at each read of shared state. Taking up a
request is four such reads, `current_conn`, `notify_enabled`, `current_conn` again
and `dump_first_seq`, and the callbacks fall between any two. `current_conn` is not
volatile, so the second read may find the tested value or NULL; with NULL, as with
a connection that is gone, `bt_gatt_get_mtu` answers 0 and nothing can be sent.
`bt_gatt_notify` belongs to the Bluetooth stack and is modelled from how
`notify_chunk` uses it: an error if the link is gone or not subscribed; `-ENOMEM`
if there is no buffer or the value is longer than the MTU less 3; otherwise the
bytes go to the central. An item on the wire is a header, a record or a CRC with
its size; a CRC stands for what it was computed over. A command is the bytes a
central writes, parsed by `sntl_parse_cmd`; `wanted` remembers what it meant. The MTU of a session is the
negotiated one, fixed when the session begins. A connection that fails
(`connected` with an error) returns before it changes anything, here and in
`BleAdv`.

### BleAdv

`k_work_submit` does not queue an item twice; `k_work_reschedule` restarts the
delay and cannot recall an item whose delay has already expired.
`bt_le_adv_start` fails while a central is connected, because
`CONFIG_BT_MAX_CONN=1` leaves no connection object. `WindowExpires` waits until
the work queue has run the press's `adv_on_work`: 20 s is far longer than that
takes.

### Tlv, RadarRx

`totalPacketLen` is one symbol in `Tlv` and four bytes in the code; the order of
its bytes does not matter to the reassembler. `Delivered` is `on_frame` followed
by the `tlv_reset` in `radar_thread`. `RadarRx` starts a walk on each frame
delivered, for a target list and then for presence zones, then goes over it once
more for the list of types that `on_frame` prints, and takes no byte meanwhile, as
it is one thread. Type and length of each TLV are arbitrary values, which covers
every content of a frame. The list of types adds up lengths unchecked, so its
offset may be anything; that it ends is claimed, that it stays inside is not.

### RadarLink

A line is one step for `cli_drain`, one for `cli_write` and one for each byte that
`cli_wait` takes out of the ring; the interrupt puts bytes in between. Bytes are
reduced to the two tokens the code looks for (two symbols each, so that they can
be cut in two), other text, and frames. Frames contain NUL bytes, which end the
string that `strstr` searches (`CString`). `Script` is `radar_reset`'s lines, the
pulse on NRST and the profile; only the outcome of `sensorStart`, the last line,
decides anything. The demo is modelled from what the comments of `src/radar.c` say
of it: a line may be rejected; a failed `sensorStart` leaves it deaf; one that was
started before takes every line and never streams; it can stop dead while
streaming; only NRST revives it. The wire to NRST is optional (`wired`, either way
and for good): without it the pulse goes nowhere and only the warm reset over the
CLI reaches the demo, if it listens. A stall is ten seconds without a complete
frame: the demo has stopped, or it streams and the framing is lost (`NoFrames`). An
answer or a boot that comes after the thread's deadline is a slip; `slipped` holds
from one, or from a `radar_reset` that did not reach the demo, until the next that
does. At the start the radar may be in any state, as the node alone may have been
reset.

### RadarWindow, Sen5x, Node

`acc_lock` makes `on_frame`'s update and `radar_window_take` one step each. A
frame is a target list of some length, presence zones of some bytes, or neither.
The two frame counters are `uint16_t` and wrap (`Incremented`). `MaxFrames`, what
one window can bring, is assumed to be at most `U16_MAX`: at 4 frames a second a
window of 30 s has 120.
`Sen5x` runs on the main loop alone; its environment is the bus and the device. A
transfer succeeds or fails as a whole, the CRC-8 of `read_words` included.

`Node` is the main thread: start, poll, take the radar window, take the air
window, append, sleep. Between these steps frames arrive and time passes; an
append takes as long as it likes. `w` and `aq` are `window_flush`'s locals, and `rec`
is the record it builds from them. `Apart` and the guard of `Device` are a
reduction, not a restriction: a frame or a tick commutes with the steps that touch
neither, and the status register is read in one place only. When a record is done
the history is cut down to what later windows can refer to (`Relevant`).

## 3. Runs

| Run | Module | Result | Question |
|---|---|---|---|
| `store` | `MCStore` | holds | ring, numbering, clock and refinement of `RecordLog` under power cuts, format changes, failed mounts, failed record writes and reads, and an unreadable format |
| `store_faults` | `MCStore` | holds | what is left when everything may fail: `BootHeld`, `FlashNotAhead` |
| `dump` | `MCDump` | holds | framing, completeness, honest records and chunk sizes within a session; dumps end and commands are answered |
| `adv` | `MCAdv` | holds | an open window has its end coming, is visible, and closes |
| `radar_rx` | `MCRadarRx` | holds | bounds, hunting, contiguity and length of frames; `tlv_find` stays inside, and all walks end |
| `radar_link` | `MCRadarLink` | holds | outcomes belong to their lines, no configuration in place, the node settles at streaming, with and without the NRST wire |
| `node` | `MCNode` | holds | headcount, dwell, peaks and faults of exactly one window; honest flags; no drift; records survive the wire |
| `store_meta_fail` | `MCStore` | violated | a failed META write and a reset reuse a number |
| `store_migrate_cut` | `MCStore` | violated | a power cut in a format change restarts `seq` |
| `dump_small_mtu` | `MCDump` | violated | MTU below 27: the dump never ends |
| `adv_forever` | `MCAdv` | violated | a disconnect at the wrong moment: advertising without end |
| `sen5x_status` | `MCNode` | violated | a failed status read hides a dead fan |

Each violated run checks one sentence of a comment or a configuration file
against the code; the finding in `PROJECT.json` quotes it. The same property on
both sides: `NoSeqReuse` and `SeqSurvives` hold in `store` and fail in
`store_meta_fail` and `store_migrate_cut`, which allow one failure more;
`DumpEnds` holds at MTU 44 and fails at 26; `FaultNeverSilent` holds when the
status register can be read.

Smaller disagreements, which need no run of their own but show up when a
constant is changed or a formula is added:

* `MaxSession = 2` in `dump.cfg`: TLC reports `StreamFramed`, and it holds again if
  centrals connect only between frames (`ConnectsBetweenFrames`, the hypothesis of
  `StreamFramedAlways`). `notify_chunk` looks
  only whether *some* connection is there (`src/ble.c:115`), and the single
  connection object is used again. It takes a dump thread that is kept off the
  CPU, or waits for the store's mutex behind a flash erase, while one central
  leaves and another connects and subscribes.
* `[][~init_ok /\ pc = "append_rec" => UNCHANGED nvs_rec]_storeVars` with
  `Faults = {"mig_write"}`: `store_init` returns `-EIO` with NVS mounted and
  records are written, against "nothing will be recorded" (`src/main.c:197`).
* `Settled /\ armed /\ ~conn => advertising` in `BleAdv`: a press between the expiry
  and the first line of `adv_off_fn` opens a window whose flag is cleared at once
  (`src/ble.c:239`), so a disconnect in it restarts nothing.
* A window may hold a frame with an empty target list and one with an occupied
  presence zone: `tracker` is then true and `headcount` 1, although the count did
  not come from the tracker (`src/radar.h:16`). `RecordTells` is stated so that it
  claims nothing there.
* `"meta_read"` in `Faults`: one failed read of META restarts `seq` at 0 while flash
  is ahead, so `NoSeqReuse`, `SeqSurvives` and `RingHeld` fail, and `FlashNotAhead`
  would without its exception for that entry. `"floor_read"`: the ring claims records
  that a format change erased, so `RingHeld` fails. `"format_read"` erases the ring,
  which is what the abstract log allows.
* `"rec_read"` in `dump.cfg`: the central gets a fault record in place of a record
  that is still there, so `RecordsHonest` and `FrameComplete` fail; the framing holds.
* `ret.step = Len(Script) /\ ret.ok => ret.verdict = "done"` in `RadarLink`: one answer
  that misses its deadline, or a banner that comes late, is credited to the next
  line and shifts all that follow, so `radar_configure` can return 0 although
  `sensorStart` was rejected ("Returns 0 once sensorStart is accepted",
  `src/radar.c:389`). The stall ten seconds later starts over; `Settles` holds.
* The list of types in `on_frame` (`src/radar.c:487`) relies on true lengths where
  `tlv_find` checks them: with a lying one it reads outside the frame, and with one
  near 2^32 outside its buffer.

### Bounds

* Store: a ring of 2 with 3 records wraps, so a slot is recycled, and with two
  formats a change and a change back fit before and after the wrap. Two contents
  suffice to tell records apart; they are symmetric. One device second is enough
  for a clock that goes back. `store_faults` allows every fault at once; there the
  formats are symmetric too, since nothing tells one from the other.
* Dump: at MTU 44 header and one record fill a chunk that the CRC then overflows,
  and a second record goes into a chunk that has room for the CRC; two commands
  in a session let the second fall anywhere into the first's dump; the ring wraps
  during a dump. `COUNT_MAX = 2` stands for 65535 against a ring of 2880: the
  count is cut when the two ends of the ring are read with an append in between.
* Advertising: three presses and two connections let a press and a disconnect
  each fall before, into and behind `adv_off_fn`.
* Receive loop: three magic symbols, a header of five, frames of up to eight,
  lengths below, at and above each limit. There is no bound on the length of the
  stream. Offsets modulo 20 keep the ratio that matters: two frames and a TLV head do
  not wrap, a lying length does.
* Radar link: a profile of a stop, a setting and the start; a ring of 8 and a buffer
  of 6 with a tail of 3 against answers of up to 8 symbols, so the ring overruns
  and either token can straddle the slide; two slips, so that a late answer can
  meet a late boot, and one break of the stream, a death or a lost framing. Slips and
  breaks are finite because `Settles` speaks of what happens after the last of them.
  Both with and without the wire. The run checks for deadlock.
* Node: a second of one tick, records every two seconds, three windows, up to two
  frames in each; a dwell that saturates at three. Words have their real width
  and samples sit at the ends of their ranges: no value, -2, the highest
  temperature and PM. Inputs are drawn from one of three `Scenes`: every frame
  beside a dead air sensor, every sample and status bit beside a dead radar, and
  both at work. The sensors share nothing before `window_flush`, and the third
  scene is for what it does with both.

`CHECK_DEADLOCK FALSE` is set where the bounds, or a node that nobody uses, let a
behaviour stop; `radar_rx` and `radar_link` have no such state and check for
deadlock.

### Fairness

* `FairDumpSpec`: weak fairness of the dump thread (it has a priority of its own
  and the others sleep), weak fairness of what the main thread has begun (it
  finishes `store_append` and releases the mutex), strong fairness of
  `NotifySent` (the controller keeps sending, so a value that fits is not refused
  for ever). Nothing is assumed of the central, the button, or power.
* `AdvSpec`: weak fairness of the timer and of the work queue thread.
* `RxSpec`: weak fairness of the walks; nothing about what arrives.
* `LinkSpec`: weak fairness of the radar thread and of its deadlines, which come
  however much there is to read; weak fairness of the demo's sending and booting;
  strong fairness of an accepted `sensorStart`, since the profile is one the demo
  is known to take. Nothing is assumed of rejected settings, overruns or frames.

## 4. Abstraction

Left out everywhere: log output, text formatting, sleeping times, and the
contents of records beyond identity, number, stamp and size.

Not modelled, and why: the device id, advertising data and `bt_enable` (run once,
format text); probe mode (the application never runs in it); CRC-16 and the text
fields of the frame header (pure encodings with host tests); CRC-8 of the sensor
bus (part of a transfer's outcome); what is printed by `on_frame`, `cli_wait` and
`window_flush`.

## 5. Theorems

All for every value of the constants within the named assumptions: ring
capacities, buffer sizes, MTUs, numbers of records, presses, sessions and frames,
words on the buses. Each invariant below was run through TLC before it was proved.
Where a theorem has a hypothesis beyond the assumptions it is named, and a run
shows that the property fails without it, unless said otherwise.

**Store** (`StoreProofs`, `StoreLogProofs`), from `StoreAssumption` (the capacity
is positive; `None` is not a value).

* `StoreTypeCorrect`: inductive as it stands.
* `BootHeldAlways` and `FlashNotAheadAlways`, both from `BootInv`, with no fault
  excluded. Flash may be ahead in one case, which `FlashNotAhead` names (`MetaMissed`):
  the META entry this boot failed to read is still there. `BootHeld` alone is not inductive: the step that bumps `next_seq`
  needs to know that the slot already holds the record, and the step that
  overwrites a slot needs that two numbers less than a ring apart share a slot
  only if they are exactly one ring apart (`SlotShared`, from `DivMod` and
  `OneApart`). `FlashNotAhead` needs what `store_init` leaves behind on each of
  its error paths, which is why `BootInv` also speaks of the format change.
* `StoreRefinesLog`, `SeqSurvivesAlways`, `NoSeqReuseAlways`, `TsFollowsSeqAlways`,
  `RingHeldAlways`, all under `Benign`: mounts, record writes, record reads and reads
  of the format may fail and power may go anywhere, but META writes and the reads of
  META and FLOOR succeed and a format change neither fails nor is cut.
  `store_meta_fail` and `store_migrate_cut` show what happens otherwise; for the two
  reads see section 3.
  One invariant, `LogInv`, serves all five. It speaks of the numbers that flash
  stands for, not of those in RAM: `MigrateInv` carries them over the erased flash
  of a format change, `RunInv` ties RAM to flash at each step of an append,
  `EntryInv` and `WindowInv` say what a slot can hold when the last append may have
  been torn, and `KnownInv` compares everything handed out so far with everything
  that could be handed out next. The last is what `NoSeqReuse` needs: a torn
  record has a number that will be issued again, and nobody has seen it.

**Dump** (`DumpProofs`), from `DumpAssumption` and `FrameAssumption`.

* `DumpImplementsStore`: a dump beside the main loop takes only steps of `Store`, so
  the theorems above hold during dumps.
* `DumpTypeCorrect` and `NotifyFitsAlways`, from `DumpInv`: where in its range the
  dump is at each label, and that the buffer is within the chunk or holds a single
  record that no chunk of that size could hold. The latter is the case of an MTU
  below 27; `NotifyFits` is claimed for chunks that can hold a record
  (`dump_small_mtu` is about the others), the bound of the buffer for all.
* `StreamFramedAlways`, for centrals that connect between frames
  (`ConnectsBetweenFrames`; without it see section 3). `StreamFramed` speaks of
  what was sent; `Stream` speaks of it together with the buffer (`Out`), which no
  flush changes, and says that it ends with the frame being built and that this
  has as many items as `seq` has advanced. The CRC then closes a whole frame because
  the loop ends at `start + count`.
* `RecordsHonestAlways`, under `Benign` and record reads that succeed
  (`"rec_read" \notin Faults`), and `FrameCompleteAlways`, under these and
  `Announceable` (the ring is no longer than a count can say: 2880 against
  65535), both from `HonestInv`. What a dump has copied is compared with a ring that
  moves on, so the invariant is about what cannot be undone: a slot that a newer
  record has taken stays `Recycled` (`RingMoves`), and both ends of the ring only
  move up while a dump runs. `Passed`, an invariant of the store beside `LogInv`,
  says that every slot the ring once claimed holds its record or a newer one;
  hence a number that the unlocked range check refuses (`RefusedIsRecycled`) or
  that the locked read turns down (`UnreadIsRecycled`) has been overwritten, and a
  number above the oldest has not (`HeldIsNotRecycled`). `EndsRead` says how far
  the two ends can be apart that `dump_run` reads in either order with appends in
  between, `RangeKept` what the range made of them leaves out, and `GetHonest`
  carries the answer of `store_get` over the flush and the retries that may come
  before it is put into the buffer.
  All hypotheses are needed. For record reads see section 3. TLC finds a fault record in place of one that
  nothing overwrote when a format change clears the flash and the mount after it
  fails, since the counters in RAM then still claim the erased records; and with a
  count shorter than the ring it finds a frame that ends too early. No run is kept
  for any: the first of these two is a consequence of what the store's runs show, the second
  cannot happen to the code.

**Advertising** (`AdvProofs`), from `AdvAssumption`.

* `EndPendingAlways`, `OpenMeansVisibleAlways`, from `AdvInv`. `EndPending` needs only
  the types beside it; `WindowServed` says who will make an open window visible: the
  radio already, the queue, or the handler that is running.

**Receive loop** (`TlvProofs`, `RadarRxProofs`), from `TlvAssumption` (a magic word
shorter than the header; a header no longer than the buffer), `MagicDistinct` (it
never repeats a symbol) and `RxAssumption` (two frames and a TLV head do not wrap).

* `TlvTypeCorrect` and `PushAlwaysInBounds`, from `PushInv`: until the header is
  in, `buf` is shorter than a header; afterwards it is shorter than `want`, and
  `want` has passed the plausibility check.
* `HuntMissesNothingAlways`, `ContiguousAlways`, `FrameLengthAlways`, from `WireInv`,
  which relates the matcher and the buffer to the history of the wire.
* `RxImplementsTlv`: the loop is `Tlv` with walks in between.
* `WalkAlwaysInside`, from `RxInv`. The sums in `tlv_find`
  wrap; the proof shows that its two tests, in their order, leave no length for
  which that matters.

**Radar link** (`LinkProofs`), from `LinkAssumption`.

* `LinkTypeCorrect` and `NeverInPlaceAlways`, from `Sound`: of the two resets the warm
  one reaches every demo that listens and the pulse, where there is a wire, every
  other, so from there until `sensorStart` is written nothing is started but a deaf
  demo, which takes no line, whatever answers the thread believes it has.
* `DoneCreditedAlways`, for a ring that holds the longest answer (`Roomy`; 4096
  bytes in the code. A smaller one loses the end of an answer). `CreditInv` says
  that, with nothing late, the UART is quiet when a line begins and that the answer
  is spread over CLI buffer, ring and wire in order (`Reading`), so that the slide
  can cut it anywhere without losing a token.

**Main loop, windows, sensor** (`NodeProofs`), from `WindowAssumption` and
`SenAssumption`.

* `NoDriftAlways`, from `CadenceInv`: `next_tick` is one second per poll after the
  loop began, and the clock is at most a second short of it.
* `SenTypeCorrect`, `PeakOfWindowAlways`, `TempOfWindowAlways`, from `AirInv`, and
  `FaultNeverSilentAlways` for a status register that can be read
  (`"status" \notin BusFaults`; `sen5x_status` is about one that cannot).
* `WinTypeCorrect`, `HeadcountOfWindowAlways`, `DwellUnbrokenAlways`, from `WinInv`:
  the accumulators against the history since the last take, `occ_since` against
  the occupancy that is going on, and `window_flush`'s copy against the window
  before. That the frame counters do not wrap rests on `MaxFrames \in 0 .. U16_MAX`.
  `RelevantKeeps` shows that cutting the history down loses nothing the
  properties speak of.
* `RecordTellsAlways`, from both. It says when each flag must be set and what a
  headcount above 1 comes from; it does not say that an untagged 1 came from the
  tracker, nor that `AQ_FAULT` is set over a dead fan whose status cannot be read.
* `WireRoundTripAlways`, from both and `WireFits`, the widths of the C types (words
  of 16 bits, `dwell_s` of at most 16, `seq` and `ts` of 32). It also says that all
  24 items are bytes, which TLC's run does not look at: the windows' type
  invariants are what makes each field fit its place. `Le2Is` gives what two bytes
  are worth, signed and unsigned; `EncodedIs` where in the concatenation each field
  lies.

Only model-checked: liveness (`DumpEnds`, `RequestAnswered`, `WindowCloses`,
`WalkEnds`, `Settles`), which is out of the prover's reach. Every invariant and
action property that a passing run checks has its theorem.

## 6. Plan

Every part that keeps state has its module, and every safety property its theorem.
What could be added:

1. Connections in the middle of a frame: `bt_gatt_notify` sends the rest of a frame
   to whoever is connected by then (section 3). If `dump_run` came to remember the
   connection it began with, `ConnectsBetweenFrames` could be dropped from
   `StreamFramedAlways`.
2. META writes that fail and format changes that are cut, once `store_init` and
   `store_append` recover from them: `Benign` is the list of what they do not
   recover from.
3. CRC-16 and the header fields of the frame, as operators against a reference
   definition.
