# Verification of AUSP (Tang Nano 20K SoC + ESP32 + dashboard, and the ESP32 boards)

TLA+ models of the acoustic master and of the ESP32 boards it grew out of: what their
parts do, checked with TLC on small instances and, for most of them, proved with TLAPS for
every size (section 6). Definitions
keep the source's names where they can; `PROJECT.json` gives, for each of them, the lines
it stands for, and for each property a *faulty variant* of the code (a definition marked
so in the modules) that TLC shows to violate it.

    tlc -config MasterLink.cfg MCMasterLink.tla
    tlc -config NorLog.cfg     MCNorLog.tla
    tlc -config SdramPort.cfg  SdramPort.tla
    tlc -config BusUart.cfg    BusUart.tla
    tlc -config HalfDuplex.cfg HalfDuplex.tla
    tlc -config Dashboard.cfg  MCDashboard.tla
    tlc -config AuspCodec.cfg  MCAuspCodec.tla
    tlc -config AuspNet.cfg    MCAuspNet.tla
    tlc -config DisplayManager.cfg MCDisplayManager.tla
    tlapm MasterLinkProofs.tla
    tlapm AuspNetProofs.tla
    tlapm DisplayManagerProofs.tla
    tlapm BusUartProofs.tla
    tlapm SdramPortProofs.tla
    tlapm HalfDuplexProofs.tla
    tlapm NorLogProofs.tla
    tlapm DashboardProofs.tla

The configurations with an underscore (`MasterLink_phantom.cfg`, ...) end with a
counterexample: section 4.

## 1. Inventory

A slave and the master talk over ultrasound, half duplex, in frames of tones. The
master is an FPGA (capture, FFT, SDRAM, soft core) with an ESP32 that runs the protocol;
browsers see it through a relay.

    slave ~~air~~ mic/ADC -> dma.vhd -> FFT -> SDRAM -> fetch -> snapshot -> soft core (decoder)
    slave ~~air~~ speaker <- pwm <- soft core (emit_tone)        |S6 UART   |S7 UART: NOR server
                                                             ESP32 protocol, flash client
                                                                 |WebSocket
                                                               relay -- browsers

The soft core also draws a TFT display and checks the bus's slaves every 15 s.
`codice_copiare/` holds a second, older system that still builds as a program of its own:
ESP32 boards, one of them the hotspot, that exchange texts over the same kind of tones
and register sensors by id.

    text -> bits -> codes -> two tones ~~air~~ window -> peaks -> code per channel -> bits -> text
    hotspot (ids, commands, user)                               sensors (movement)

| part (source) | state | operations | what is hard | correct when |
|---|---|---|---|---|
| link and protocol (`fpga_uart_link.cpp`, `protocol.cpp`, ESP32 `main.cpp`) | pattern under reception, registration, presence request, C call stack | tick, send, message handlers, timers, commands | blocking sends call the receiver again: handlers run inside sends inside handlers | one registration at a time; messages sent and heard are the real ones; requests end; recursion is bounded |
| NOR log and settings (`norflash.c`, `flash_link.cpp`) | flash contents, head, serial FIFOs, client call and attempt | append, clear, save, reads, boot scan | chip too slow or faulty, lost answers, retries of what was done, restarts of either side | what is reported stored is stored; clear empties; the ring keeps the recent half; calls return |
| SDRAM controller, drain, fetch (`sdram_controller_fsm.vhd`, `dma.vhd`, `top.vhd`) | controller, refresh timer, delay lines, two port users | refresh, write bursts, read bursts | users count cycles instead of waiting for an acknowledge; refresh at any moment | a snapshot is the frame; command spacing; refresh in time |
| bus (`wb_interconnect.vhd`, `uart_generic.vhd`, `spi_master.vhd`, capture loop of `dma.vhd`, snapshot read of `top.vhd`) | two masters, watchdog, UART FIFO, ADC ready flag | CPU accesses, capture loop, UART | the capture machine cuts a CPU access at any cycle; acknowledges lag | a sample is stored once, a character sent once, nothing popped unaccounted; every access ends |
| tone player and channel gate (`emit_tone.c`, `main.c`) | tone queue, player, hold on a 32 bit cycle counter | capture, play, decode | frames are old when read; the loop stalls; the counter wraps | tones in order; hold respected; own tone not taken for the slave's; queue drains |
| dashboard (`server.js`, `worker.js`, `app.js`, `web_link.cpp`) | relay sets and cache, connections, what a page shows | hello, forward, close, commands, reconnection | two ends notice a loss at different times; restarts lose caches | pages show the master's state and end up connected |
| FFT stages, snapshot copy (`dma.vhd`, `read_sdram.c`) | windows, frame counters | trigger, feed, read out, copy | dropped triggers, a copy that overlaps the next fetch | a decoded frame is one frame |
| tone generator (`pwm_generic_master.vhd`) | start, envelope | start, stop | start while releasing | a stopped tone fades out, a started one sounds |
| NOR SPI (`spi_master_generic.vhd`, `nor_xfer`) | shifter, done flag | transfer | writes while busy are ignored, 2 ms timeout | a byte read is the byte of this transfer |
| display (`display_manager.c`, `spi_display.vhd`) | job queue, executor, dirty zones, colours and settings drawn | emit jobs, execute a chunk, redraw, rotate | settings change during a redraw; a full queue drops a job | no zone mixes two contents; a finished drawing is whole; the screen catches up |
| health (`health.c`) | previous mask and counters | tick | wrong readings, the bus watchdog answers for silent slaves | a report of a failed slave is true, a dead slave is reported |
| tone codec of the boards (`bit_output_packer.c`, `bit_freq_codec.c`, `emit_tones.c`, `reader.c`, `decoder.c`, `bit_input_packer.c`, router) | codes to play, two windows of samples, per channel noise flag, bits, time-out | send a text, record, decode a window, flush | channels share their data tones; the loop is late or deaf; windows are not aligned with tones | an undisturbed text arrives whole and once, on its own channel |
| protocol of the boards (`protocol.c`, `movement_sensor.c`, `main.cpp`) | ids, known devices, one slot for the command that waits, abort flag | register, command, measure, answer, retry | texts collide, boards restart, provisional ids coincide, the slot is overwritten | an id goes to one provisional id; answers reach the user; retries end |
| GPIO, ESP32 UART registers | one register / hardware FIFO | read, write | - | - |

Vendor or third party: the PicoRV32, the PLL, the FFT and the SDRAM IP. Not in the
build: `memory_arbiter.vhd`, `flash_ctrl.vhd`, `flash_spi.vhd`, `audio_decoder.vhd`,
`uart_*_char.vhd`, `gpio.vhd`, `sdram_test.vhd` (not instantiated by `top.vhd`), the
firmware files missing from the Makefile's `SRCS` (cut down copies of files of
`codice_copiare/`). In `codice_copiare/` nothing calls `sync_controller.c`,
`reading_queue.c`, `reader_test.c` and `gtzl.c`.

The hazards, each at its line with the properties aimed at it, are in `PROJECT.json`.

## 2. What is modelled, and how it corresponds to the code

**MasterLink** (checked through MCMasterLink, proofs in MasterLinkProofs). The ESP32 has
one thread, but `fpga_uart_send_pattern` calls `fpga_uart_tick` while it waits, so the
variable `stack` is the C call stack: one frame per suspended send. `EmitSymbol` is one
byte written, `SendReturns` the return (through `rx_finish_pattern` and its `rx_reset`
when a handler was the caller), `RxBit`/`OnReq`/`OnOk`/`OnPresence`/`OnIgnored` a symbol
read and everything its handler does up to its own send, `RetrySet`, `RetryPresence`,
`GiveUpPresence`, `AutoPresence` `protocol_tick`, the rest commands. Timers may be found
expired whenever the code looks at them. The two of the carrier sense are variables:
`busy`, a symbol was read less than CHANNEL_GUARD_MS ago (`ChannelQuiet` ends it, every
symbol read, repeated ones included, begins it again), and `overdue`, the wait has lasted
CSMA_MAX_WAIT_MS (`WaitExpires`); a byte is written when the channel is quiet or the wait
overdue. The slave's receiver and what was really sent are
history (`air`, `owed`, `meant`, ...). Left out: the log records a handler appends
(NorLog), the texts it prints.

**NorLog** (through MCNorLog, proofs in NorLogProofs). `BeginLong`, `BeginCut`,
`MorePayload`, `Erase`, `Program`, `ClearFirst`, ...
are the steps of `nor_poll`; `ask`, `GetAck`, `GetHead`, `Verify`, `retry` those of the
client's blocking call. A slot holds a record as sent, spoilt with or without a valid
type, or blank; programming over anything but blank spoils. A command is an item that says
how many of its bytes came in: all, or what the 16-byte FIFO has room for while the
firmware is busy (`capacity`). A cut payload takes the next bytes, whatever they were meant
to be, and what is left of the command they come from would be read as commands (`rest`).
`late` is the one timeout that may expire before an
answer. Abstracted: which bytes of a cut command were lost (when completed it
stores a spoilt record), sequence numbers from
0xFF00 up (their first byte reads as erased). The client retries at least once
(`MaxRetries`, 5 in the code). As in the code, `C` is acknowledged on a
write protected chip although nothing is erased. Left out too: the bytes `nor_init` puts on
the line at boot (`norflash.c:183`: the client flushes what it has read before each
command), and a spoilt record whose first byte still reads 0xFF, which the firmware takes
for an erased slot.

**SdramPort** (proofs in SdramPortProofs). One step is one clock cycle: controller, chip (external), drain, fetch and
all registers at once. The FFT machine before the drain is one state of any duration, so
is the settling time: a drain can meet the refresh timer in every phase. It includes the
two delay lines, the board's skewed clock (`Skew`, `WrAlign`: sdram_controller_fsm.vhd
23-25) and the clamped tail of the last burst. The model starts after reset. `unrefreshed`, the cycles
since the chip was last refreshed, is history, counted up to `AgeCap`.

**BusUart** (proofs in BusUartProofs). One step is one clock cycle of interconnect, watchdog, capture machine, ADC
SPI, character UART and the snapshot's read port. The CPU is external: it holds its strobe
until the acknowledge and leaves a cycle between accesses; it may read or write the UART,
read the ADC, a bin or an unmapped address. The state starts after the firmware has set
the UART up and with the capture machine about to open the ADC.

**HalfDuplex** (proofs in HalfDuplexProofs). One step is a turn of the firmware's main loop (`Loop`: capture a
character, player, decode, gate) or a turn's time lost in a NOR operation (`Stall`). The
slave speaks when it wants, frames reach the loop `Latency` turns late, the ESP32 sends
characters with its pauses and its carrier sense.

**Dashboard** (through MCDashboard, proofs in DashboardProofs). A connection is a pair of FIFO queues and a state that
says which ends know it is over. Relay actions are the handlers of `server.js`
(`worker.js` has the same); `Connect`, `on_command`, `WifiRetry` the master's
`web_link.cpp`; `Receive`, `Save` the page's `app.js`. The remaining bytes of a broken
connection arrive before its client connects again (it waits 2 or 3 s), its end may be
noticed much later. What the memory holds is not what the master reads: `reads` is
`flash_get_settings`, which refuses some contents (`Unreadable`) and returns the defaults
with success; a save that fails may leave any contents. `Get` stands for the three requests a page makes; the traffic log,
drawing and static files are left out.

**AuspCodec** (through MCAuspCodec). One step is one window of 512 samples at a listening
board. A frequency is a number of steps of TONE_STEP above MASTER_BASE, so the three roles'
carriers are 18, 20 and 19, and a board's sound in a window is two such numbers.
`BitsOf`/`compress`/`Script` are `bit_output_packer`; `Sounding`/`Advance` `emit_tones`;
`Recorded` the two buffers of `reader.c`, whose swap may come while the loop decodes in
place, and windows that straddle two tones; `Peaks`, `row`, `interpret_bits` the decoder;
`Channel`, `add_bit`, `flush`, `CharsOf` `bit_input_packer` with its arrays, time-out and
character filter; `Turn` a turn of `loop()`. A turn may be late (`MaxLate` windows) or deaf
while it sends or measures (`DeafWin`). History: `said`, `handed`, `hurt`, `rest`. Left out:
samples, FFT and thresholds, `sync_controller`, and the router's ring of texts, which
nothing reads.

**AuspNet**, **IdRegistry** (through MCAuspNet, proofs in AuspNetProofs). Texts are records; their fate on
the air is what AuspCodec shows. `protocol_init`, `assign_new_id`, `handle_set`,
`handle_ok`, `handle_abort`, `handle_movement`, `handle_answer`, `Ignore` are the branches
of `protocol_handle_message`; `protocol_tick` the retry; `protocol_send_*` the user's
commands; `Measured` the end of `movement_sensor_detect` with its answer; `Stop` a power
cut or reset of any board. Everything blocks in `loop()`: a board that sends or measures
hears nothing.

A text that is not heard to its end leaves its beginning with the listener (`part`):
where two boards send at once, the sender stops, noise spoils it, or the listener itself
begins to send or measure. After a second of silence (`bit_input_packer.c:224-239`, a tick
here) it comes out as if it were a text (`Flush`), and `protocol.c:318-357` acts on it, for
it does not look for the '}'. `Beginnings(m)` are the ones that do something: `m` without its
last brace, or with its last field cut (of a SET and an answer, also with the field before
that cut; an answer then has no value, "PART"). A field that came cut is a member of `Cuts`,
ids and provisional ids no board was given; any of them may be left of any. So an id
may be adopted or listed short, a short provisional id be given an id (a cut REQ: the number
is used up), a sensor with a short id answer with it and be told OK by it.
Left out: what noise or two voices turn into letters nobody sent; a kept beginning with the
text that follows it within the second run into one (`Unmixed`: both are lost); what
`protocol.c:337` reads behind the end of a text cut before its '}'.

IdRegistry is the abstract specification: ids are given, adopted and listed, whole or cut,
with no messages and no time; AuspNet is
shown to implement it under `pid <- provisional_id`, `held <- my_id`, `known <- known_ids`.
`shown` is history: per sensor that repeats an answer, the ids whose answers the user was
shown since it was measured (or sent an OK to). An answer counts as shown when its OK begins
to be sent; the code logs the text before (`protocol.c:303`) and tells it again after (`:500`).

**DisplayManager** with **HealthReport** (through MCDisplayManager, proofs in
DisplayManagerProofs). `display_tick` in the
order in which it looks: panel initialisation, the job under execution, the queue, new
settings (`redraw`), dirty frames, dirty contents, rotation. A job carries the value and
the colours of the moment it was emitted; `drawn` is what its pixels overwrite. What the
rest of the firmware changes comes in anywhere. `health_tick` is a round: which slaves look
well, the debounce, the mask shown and the report. Left out: fonts, layout, palette,
wording, `dm_log`'s ring and the uptime (written, never shown), the previous interrupt count.

## 3. The passing runs

| run | what it shows | bounds, and why they are enough |
|---|---|---|
| link (MasterLink.cfg, 428,820 states) | `OnePendingRegistration`, `NestingBoundedByOks`, `CleanReception`, `FramesHeard` (a frame sent whole is heard, a cut one forges nothing unless it is an ABORT), `PresenceResolved`, `SendsReturn` (unless registrations are begun inside for ever) | the slave may send any symbols, for ever, and is silent when it likes: no bound on them. Two of: registration, user's command, retry of the SET, change of settings, delimiter of a diagnostic line; automatic presence and the presence timer without bound. The run also starts in `Nested`, a SET nested in an ABORT, with one more event, which reaches a third level. EOF bursts of 1, patterns of up to 4. The safety part holds for all sizes (section 6) |
| nor (NorLog.cfg, 617,058) | `ReportsHold` (an append, a save, a clear reported done is done), `NothingMisread` (a cut payload swallows whole commands only), `RecentKept`, `CallsReturn` | 4 slots in 2 sectors and 5 appends: the ring wraps and erases ahead; 2 extras out of fault, late answer, lost answer, restart, clear, save meet each other at every point |
| sdram (SdramPort.cfg, 31,763) | `FrameKept` (the snapshot is the frame, strobes are missed only on a refresh's first cycle), `ChipServed` (legal commands, refreshes in time), `FrameIsSignalled` | 2 bursts of 3 words, 5 bins (a clamped tail), refresh interval 29, the chip's timings as in the code, an initialisation longer than the refresh interval, as the code's 8192 cycles are. `TimingAssumption` and `AlignAssumption` state what the scaled numbers share with the real ones |
| bus (BusUart.cfg, 419,586) | `SampleOnce`, `AccessesAnswered` (characters sent once, pops accounted for, the bin asked for, the watchdog only for silent slaves), `AccessEnds` | times are scaled (sample period 12, watchdog 26) so that CPU accesses start in every phase of the capture loop; FIFO of 2; characters and samples are numbered modulo 4 and 2, more than can be outstanding |
| channel (HalfDuplex.cfg, 245,760) | `PlayedFaithfully` (in order, once, lost only if a slave is heard), `SelfNotHeard`, `QueueDrains` | two frames of 2 characters, queue and FIFO of 2, counter modulo 8 with a hold of 4: it wraps during the hold and more than once in a behaviour; one stall. `PaceAssumption` is the relation of EMIT_PACE_MS, WARMUP_PACE_MS to TONE_MS, SIL_MS, WARMUP_MS |
| dashboard (Dashboard.cfg, 326,127) | `PagesAgree` (online, state, and settings as the master reads them), `Settles` | two pages and the master, from the start and from a settled state; three contents of the settings: one refused when read, the defaults, another; one break (connection at either end, radio, restart of relay or master, NOR failure) with one event (news, save, radio failure) at any point. Two connections per client suffice to have an old one end after the new one began |
| codec (AuspCodec.cfg, 554,135) | `CleanTextHanded`, `SilentHandsNothing`, `CodesCarryText` | two texts of one character and a brace, or a brace, one of them with nine ones in a row, over three channels of different loudness at every offset: a second text follows a disturbed one, or sounds over it; one turn late or deaf anywhere. `TimesAssumption` is the relation of tones, silences, time-out and lateness. `CodesCarryText` tries every legal character between each of three and a brace |
| net (AuspNet.cfg, 343,007) | `ImplementsRegistry`, `AnswersAreShown`, `SetGetsThrough` | two sensors that may draw the same provisional id; one upset (`MaxUpsets`: a text lost or cut by noise, a board stopped, a command) at any point, besides all the collisions, half heard texts and losses on the master's channel that the boards' own timing brings, which leave beginnings too: ids are adopted, listed and confirmed short within these bounds, by both sensors at once as well. Ids below 5, one of them unreadable (written with a '5'), one id or provisional id cut short, room for one listed device. Sending takes 2 ticks, the retry comes 3 later: retries meet other texts at every offset |
| display (DisplayManager.cfg, 383,573) | `ToldIsTrue`, `NeverMixed`, `WholeWhenQuiet`, `ScreenCatchesUp` | two events (save, record, clear, news, breakdown, wrong reading) at every point, three settings that show every content between them, a queue of 4 for contents of up to 4 jobs (48 for 41 in the code), health rounds for ever |

Each run also checks its module's `TypeOK`, with the relations between variables that the
code relies on.

Fairness, always weak except where said, on what the code's scheduling guarantees:
- link: `loop()` never stops: a symbol that may be written is written, a finished send
  returns; the clock runs, so a wait becomes overdue after CSMA_MAX_WAIT_MS whatever is heard
  (`cs_pace` is bounded too). `PresenceTimer` has strong fairness: other
  sends make it wait, but `protocol_tick` looks at it on every turn. Nothing is assumed of
  the slave, which need never be silent; one that registers for ever can nest sends for ever,
  which is why `SendsReturn` excepts it.
- nor: `nor_poll` runs on every turn of the firmware's loop, the client's waits are
  bounded. Faults are never forced.
- sdram, bus: the clock runs.
- channel: the main loop goes on (`WF(Loop)`).
- dashboard: event loops and timers go on (`WF(Progress)`); faults are never forced.
- codec: none, safety only.
- net: boards go on and time passes (`WF(Boards)`); nothing is assumed of the user, of
  faults, or that a text is ever heard alone.
- display: the main loop calls `display_tick` on every pass (`WF(display_tick)`) and a
  health round is due every 15 s (`WF(Round)`). A round waits for a turn of the rotation
  (`turned`): turns are 150 ms apart, rounds 15 s.

## 4. Where the code disagrees with what it says

| run | property | what happens |
|---|---|---|
| link_phantom | `NoPhantomMessage` | the pattern is cleared after the handler returns, and the handler's send lets new symbols in: fragments are acted upon as messages |
| nor_newest | `NewestKept` | after the ring has wrapped, a restart of the FPGA takes the last slot for the newest: the next append erases the newest sector |
| sdram_strobe | `StrobeNeverOnRefresh` | refresh requested in the one cycle between `busy_n` and the strobe: the strobe is lost and a row keeps the previous frame |

The passing properties say how far each goes: `CleanReception` (only while a handler is
suspended), `RecentKept` (only after a wrap), `MissedOnlyAtRefresh` in `FrameKept`,
`ReadsAccounted` in `AccessesAnswered` (at most one character, none unless cut),
`LostOnlyIfHeard` in `PlayedFaithfully`.

Seen while modelling, without a run of their own. In the master:
- `web_link.cpp:164-166`: a record of the cache is hidden by one in the flash of equal
  number. `flash_link.cpp:139` counts `seq` from 0 at every ESP32 boot, so a new record whose
  append failed is hidden by an old one.
- `periphs.h:23-24` has a read of the UART pop one character. When the capture machine takes
  the bus in the cycle of the acknowledge (`wb_interconnect.vhd:217`) the read is begun again
  and pops a second one: the case `ReadsAccounted` allows for.
- `main.c:205-207`: the 32 bit cycle counter wraps every 106 s, so a slave heard a multiple
  of that ago closes the channel again for 3 s. `QueueDrains` holds all the same.
- `README.md:122`, `periphs.h:124`: a stop register of the capture; `dma.vhd` looks at
  `start_r` only in DS_IDLE, which it never enters again, so the stop does nothing.
- `emit_tone.h:21`: the player "si interrompe" when the slave is heard; `emit_tone.c:91-95`
  plays a tone to its end on purpose.
- `protocol.h:8-15` lists an older codebook than `protocol.cpp:19-44`.
- `protocol.cpp:164`: a presence answer to an earlier request closes the one now open; the
  code has no number to tell them apart. `protocol.cpp:223`: ABORT leaves a pending SET or
  presence request, which keep being retried.
- `read_sdram.c:26`: "niente race"; a copy that begins late overlaps the next fetch. The dump
  of a frame to the serial line (`dma.vhd:442`) holds the port that the fetch wants;
  SdramPort gives it any length.
- `norflash.c:304`: `C` answers `K` on a write protected chip (hence `~locked` in
  `ClearedIsEmpty`). `norflash.c:273`: a restart between the erase and the program of the
  settings loses both. `norflash.c:255`: a payload that was cut takes the bytes of the next
  command. What is left of that one would be read as commands, and the code has nothing
  against it; what the client sends next, and when, is why it never happens
  (`NothingMisread`). `norflash.c:240`: a slot with a sequence number from 0xFF00 on reads as erased.
- `flash_link.cpp:276`: `flash_get_settings` refuses a name with a byte outside 0x20..0x7E and
  returns the defaults, with success. `app.js:47` lets such a name through, it is written and
  verified, the page says "✓ salvato" (`app.js:35`) and shows the defaults of every setting.
  `SettingsShown` says what the pages show in that case: what the master reads.
- `web_link.cpp:242`: the result of a save is ignored; the page reports a save as done on the
  first settings message that arrives, whoever asked for it.
- `server.js:90`: the last presence of a master that has restarted stays in the relay's cache
  (nothing is published while it is unknown): `StateShown` speaks of known presences.
- `health.c:10-11`: "la CPU resta appesa" on a slave that does not acknowledge; the
  interconnect's watchdog (`wb_interconnect.vhd:221-240`) ends the access with what the
  slave's data lines hold. A silent slave whose lines read as a good value is never reported.
- `health.c`: the first round has no sample count to compare with, so S1 is shown as failed
  until the second, and its first report is not debounced (the exception in `ToldIsTrue`).
- `display_manager.c:363`: a log that gets shorter, or empty, leaves its old rows on the panel
  below "VUOTA". `UpToDate` does not look at them.

In the boards of `codice_copiare/`:
- `bit_freq_codec.c:134-142` sends the master's carrier at 8200 Hz, `:54` and `:67` look for
  MASTER_BASE, 1000 Hz: no text on the master's channel (commands, ABORT, OK) is ever
  decoded. AuspNet therefore lets any of them be lost, besides its counted faults, and still
  models what the boards do when one arrives.
- `bit_freq_codec.c:47-48`: codes 17 and 18 are said to be 14 and 21 ones; the packer uses
  them for 8 and 9. Code 18 is the carrier of the master's channel, so a text with nine
  ones in a row ("NO}") never arrives (`NineOnes`).
- `bit_output_packer.c:92`: a last run of one bit is not written; every text ends in '}'
  (1111101) and loses it, which the parsers tolerate (`Front` in `Expected`).
- `bit_input_packer.c:136-144`: the number of bits of a full array is taken for a product;
  `CharsOf` follows the code.
- `char_packet_router.c:42-50`: a text with a '5' is printed and not handed on, so ids,
  provisional ids with a '5' never arrive (`Fives`).
- `main.cpp:226` looks for the duration's '_' behind position 18, where it is: a duration is
  never found, and the hotspot never sends one.
- `protocol.c:326-350` takes the beginning of a text for the text: a sensor adopts a cut id
  and the hotspot lists it. Two sensors may so hold the same short id although the hotspot has
  not restarted: `OneIdOnePid` speaks of whole ones.
- The first code after power on is lost if no silent window came before it (`Init` has the
  flag down; a text that begins at once is counted as disturbed).
- A sensor asks for an id once (`protocol.c:198-211`); if the REQ or the SET is lost and the
  slot overwritten, it stays without. A REQ or a command overwrites whatever waits in the one
  slot (`protocol.c:184`): hence "unless another request takes the only slot".
- `protocol_send_command` waits for an OK that no board sends and is repeated every 20 s; a
  movement request to everybody is never closed; a user's "OK->ID" ends a sensor's retries
  although its answer was not shown.
- An ABORT that reaches an idle sensor ends its next measurement at its first look; during a
  measurement the sensor is deaf, so it does not end that one (`main.cpp:213` promises it).
- A restarted hotspot counts ids from 1 again: `OneIdOnePid` speaks of one that has not.
- A SET that is repeated and an answer that is repeated have the same period and can fall on
  each other for ever: `SetGetsThrough` excludes it.

## 5. What only TLC shows

At the bounds above, and not for every size:
- All liveness (`SendsReturn`, `PresenceResolved`, `CallsReturn`, `FrameIsSignalled`,
  `AccessEnds`, `QueueDrains`, `Settles`, `SetGetsThrough`, `ScreenCatchesUp`): fairness and
  ENABLED are out of the prover's reach.
- AuspCodec (`TypeOK`, `CleanTextHanded`, `CodesCarryText`). What a text becomes, code by
  code, is recursion over data: an induction the installed provers cannot do.
  `CodesCarryText` is checked for every legal short text.
- The counterexamples of section 4.

## 6. What is proved

`MasterLinkProofs` proves, for every `EofBurst`, `RxMax > 3`, `DefaultTries` (assumption
`LinkAssumption`, which the code's 4, 16 and 6 satisfy), any depth of nesting and any
number of symbols, `Spec => []P` for each safety property the run checks:

- `TypeCorrect` (`TypeOK`), inductive as it stands together with the facts that a frame
  never writes past its end and that only the outermost frame can come from `loop()`.
- `OneRegistration`: `regs = oks + 1` exactly while `awaiting_ack`. Inductive.
- `BoundedNesting`: a frame is pushed by `loop()` only on an empty stack and by a handler
  only for a registration it begins. The bound is not inductive by itself: it follows from
  the invariant `StackWithinRegs` (the stack holds at most one frame more than the
  registrations begun), and from `OneRegistration`.
- `ReceptionClean`: inductive together with `HandlerTaints`, that a handler suspended in
  a send implies `tainted`; without one `rx` and `meant` evolve together.
- `SlaveHearsFrames` (`FramesHeard`): inductive together with `AirInv`, which says
  what the air holds while the innermost send is before its first symbol, in its preamble
  or tail, in bits nobody disturbed (the air is exactly the bits sent so far), or in
  bits after another frame was nested (a fragment, shorter than the frame unless the
  frame is an ABORT), and that a suspended send that was in its bits is marked `cut`.
  A proper prefix or a fragment of a two bit frame is no codeword, so what the slave may
  decode without its having been sent comes from an ABORT interrupted in its bits.

Each has the usual three facts (Init, one step per action, implication) as lemmas. They
rest on lemmas about `AddBit`, `FrameSym` and the stack. The stronger claim that
the slave never decodes anything but a whole frame (`NoForgedMessage` in MasterLink) is
false for a cut ABORT and is kept as the statement the last theorem delimits.

`AuspNetProofs` proves, for every set of boards, ids and cut ids, any durations and times, any losses, cuts and restarts:

- `RegistryTypeCorrect` and `OneIdOneSensor`, of the registry alone: while the hotspot has not restarted, sensors with the
  same whole id drew the same provisional id (`OneIdOnePid`). It is not inductive by itself: the invariant adds
  that an id names one SET of a life of the hotspot (`GivenOnce`), that SETs belong to the
  lives so far (`GivenInLife`) and that whoever holds a whole id holds it from a SET to the
  provisional id it still has (`HeldIsGiven`).
- `TypeCorrect` (`TypeOK`).
- `IdsAreRegistered` (`ImplementsRegistry`): every step of AuspNet is one of IdRegistry's or none.
  The invariant says where a text can be (in a slot, on the air, in an inbox, kept in part),
  that what a board has got is a text of another board or the beginning of one (`Said`), and
  what that leaves of the text (`PieceFields`): whom it is for, and the id it is from or
  gives, unless cut.
- `OneIdOneBoard`: hence what `OneIdOneSensor` says of the registry holds of the boards.
- `AnswersShown` (`AnswersAreShown`), without further assumptions. An OK a sensor has, hears or
  has heard the beginning of was shown since the sensor began to repeat (`OksAreShown`); a
  sensor that begins to repeat must then not have an old OK. It has none in its inbox, for it
  measured, and none in part: that is `Apart`, which keeps what a board has got, kept and is hearing
  on different channels, the sensor's command having come on the master's.

`DisplayManagerProofs`, for every panel, queue, log and set of slaves:

- `TypeCorrect` (`TypeOK`), `ZonesNeverMix` (`NeverMixed`) and `WholePanel` (`WholeWhenQuiet`),
  assuming `QueueFits`: no content emits more jobs at once than the queue holds (the code's
  contents emit at most 41, the queue holds 48). The invariant (`Drawing`) follows one
  drawing: what is done, what is under execution and what is queued make up its zone, in one
  value and one set of colours.
- `ReportsAreTrue` (`ToldIsTrue`), without any assumption.

`BusUartProofs`, for every sample period, watchdog time, FIFO length and character time:

- `TypeCorrect` (`TypeOK`), `EverySampleOnce` (`SampleOnce`), `AccessesHaveTheirAnswers`
  (`AccessesAnswered`). The capture machine has the bus only in cycles 2 to 5 after a sample is
  latched, so an access is cut at most once and ends within ten cycles (a read of the ADC
  within a period), which is why the watchdog ends only what a slave does not answer.

`SdramPortProofs`, for every burst, row, refresh interval and delay:

- `TypeCorrect` (`TypeOK`), `ChipIsServed` (`ChipServed`), `FramesArrive` (`FrameKept`). Four counters
  run in step from a strobe on: the controller's timer, the chip's age, the drain's time-out
  and the fetch's. The invariant expresses each by `Pos`, the cycles since the strobe, and
  each delay line by what was on the port one to three cycles before. A serial dump lasts
  longer than a fetch (`Left`, `Budget`), so the port is free in time.
- `TimingAssumption`, `AlignAssumption` are what the code's numbers satisfy and the proof needs.
  `RefreshServed` speaks of the chip once it is initialised: the 8192 cycles of the
  initialisation are longer than a refresh interval, and nothing is stored yet.

`NorLogProofs`, for every ring, cache and number of retries, and any calls, faults and restarts:

- `TypeCorrect` (`TypeOK`) and `HalfIsKept` (`RecentKept`). The invariant (`Ring`): the last writes are
  the slots just behind head, in order, and the rest of head's sector is blank unless head is
  at its start; so what is erased ahead is the other half of the ring.
- `ReportsAreTrue` (`ReportsHold`) and `NothingIsMisread` (`NothingMisread`), from one invariant,
  `Honest`, in two parts. `Line` says what can be on the line. As long as the client has
  waited for every answer, the FIFO holds at most the command it waits for (`Fresh`) or its
  payload is cut or being written (`Cut`, `Writing`, `Clearing`). Once it has not
  (`Outpaced`, for good), its ack may be an earlier command's, and it goes on while its own
  command is still in the FIFO (`Stale`): then there are at most two commands, of fixed
  lengths, because after the 15 or 16 bytes of a cut one there is room for one more byte;
  and a cut command is completed by one-byte ones. `Meaning` says what follows for the
  client: once it reads back (`verify`, with an answer) nothing is under way any more, so
  what it has read is there, and stays until its next call. `ReportsHold` alone is not
  inductive: that no command of its own is still to be executed when an append or a save
  returns true is what `Line` is needed for. A clear may return before its own command is
  served; hence `chip = "prompt"` in `ClearedIsEmpty`.
- `ClearEmpties`: the part of `ReportsHold` that speaks of a clear.

`DashboardProofs`, for every number of pages, set of settings, and any losses and restarts:

- `TypeCorrect` (`TypeOK`).
- `PagesAlwaysAgree` (`PagesAgree`). A value goes from the master through a queue to the
  relay's cache and through another to a page. `Shows(q, k, shown, v)` says that whoever
  shows `shown` will show v once it has read q, and the invariant states it of each queue:
  the master's with the relay's cache (`CacheTrue`), each page's with what the relay knows
  (`RelayShown`). What the master said on a connection it has left must not come after what
  it says on its new one: nothing does (`OldQuiet`). The relay does not keep the settings:
  `SettingsTrue` says that, of a page and a master the relay knows, a request for them is
  under way or will be made (`Asked`), the master has just sent them (`Answered`), or the
  page gets them as the master reads them, from what is in the two queues (`Coming`).

`HalfDuplexProofs`, for every tone, silence, hold, queue, FIFO and width of the counter that
`ChannelAssumption` and `PaceAssumption` allow:

- `TypeCorrect` (`TypeOK`); `SelfIsNotHeard` (`SelfNotHeard`): a frame with the master's own tone is
  still on its way only while the player is in the tone or in the silence after it, when
  the loop is deaf. `InOrder` (`PlayedInOrder`): what was played, the queue and the FIFO
  are the characters sent, rising.
- `NothingLost` (`PlayedFaithfully`), assuming `StallsFit`: in all, the loop is held up for less time
  than the tone queue takes to fill at the ESP32's pace, which is 16 characters at 550 ms, 8.8 s, in
  the code. The invariant (`KeepsUp`) compares what the player still has to do with what is
  left of the ESP32's pause and the time lost. A single NOR operation takes at most 1.4 s;
  the assumption does say that not more than six fall within one transmission.

## 7. Plan

Done: the modules above, in the order of what matters most (protocol, storage, sampling
path, bus, channel, dashboard; then the boards' codec and network, display and health),
the refinement of the registry of ids, and the proofs of section 6.

Next, in this order:
1. Sampling path: ping-pong windows, trigger while busy, `fill_cnt` (16 bits) and the CPU's
   copy, on top of SdramPort's drain and fetch.
2. `spi_master_generic` with `nor_xfer` under NorLog's chip; the tone generator under
   HalfDuplex's player.
3. Abstract specifications: a reliable ring and a settings cell that NorLog implements; a queue of tones that HalfDuplex implements.

Not modelled, and not planned: signal processing (peak search, FFT arithmetic, sine table), drawing, static
files, vendor IP, sources outside the build.
