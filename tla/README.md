# Verification of the ESP8266 firework controller

TLA+ modules of the firmware under `src/source` (application, HTTP server, front
panel, bootloader) and of the way it gets into the flash (`src/tools/esptool`), TLC
runs that check them on small instances, and TLAPS proofs for every value of the
constants about each of them: the firmware update, the main loop, the HTTP server, the
front panel, the web socket parser, the firework effect, the status LEDs and the
flashing. Paths below are under `src/source/` unless they say otherwise.

The device drives LED strips ("column" and "rays" of a firework) and a
loudspeaker. It is set up with three keys and a web page, keeps its settings in
two files, joins a wifi network, runs a daily alarm and updates its firmware over
a web socket. The program is cooperative: `loop()` posts itself as a task, and
lwIP callbacks, software timers and `loop()` run one after the other, each to its
end. Its concurrency is therefore in the order of the callbacks, in what happens
between two passes of a long activity (a hold of a key, an answer under way, a
volley), in the power supply and the radio, and, for the status LEDs alone, in a
timer interrupt.

## Inventory

| Component | State | Operations | What is hard | What makes it correct |
|---|---|---|---|---|
| Firmware upload (`main.c:1500-1640`) | `upload_state`, the partitions APP_NEW and boot parameter, the restart timer | handshake, header, data piece, announcement, restart | TCP cuts frames anywhere in a sector; each flash operation can fail or be cut | what is announced is what was received, complete; it gets installed |
| Bootloader (`bboot/source/bboot.c`) | the copy's address, APP_MAIN, boot parameter | read the parameter, create it, copy, withdraw, choose | power loss between any two flash operations, torn parameter | only whole images run; at every instant the flash can bring one up |
| Front panel (`ezform/ezform.c`, `main.c:660-1000`) | three debounced keys, running and next form, two software timers, parameters in RAM and file | press, release, timer callbacks, form switch, save, wipe | keys share one timer; forms change under a running timer; uploads stop the passes; web requests set the same parameters | setup needs a hold, a wipe needs a hold, what setup set is saved |
| Wifi link (`main.c` `setup`, `loop`, POST `wifi`) | operating mode, credentials in RAM and `/wifi.txt`, two timers | boot, five-second poll, close the access point, connect, wipe | timers armed for a situation that has passed | the device can always be reached; it tries what it saved |
| Alarm and settings (`main.c:545-600`, POST `alarm`, `cled`, `csound`) | alarm, what is switched on, `/param.txt` | half-second poll, requests, restart | three writers of one file at different offsets; the clock jumps | restarts keep, the alarm runs daily |
| HTTP server (`http_server/http_server.c`) | sessions and their count, the buffer, file and constant each is sending, retries | accept, receive, sent, poll, error, close | partial writes, any order of callbacks, failing closes, limits | answers lose nothing and end; slots are given back once |
| Websocket frames (`websocket_parser/websocket_parser.c`) | parser position, mask, offset in the mask | segment | a segment ends anywhere | the bodies handed on are the payload |
| Firework effect (`firework/firework.c`) | column and ray indices, bursts, flashes | a step of the column, a step of the rays, a size change | two independent counters compared for equality, a byte that counts down in two ways, sizes changed between steps | each rocket bursts at the top, the show goes on |
| Status LEDs (`ezform.c`, hardware timer interrupt) | members of `Led_t`, ends of the phases, duty counter | configure, tick | the firmware's only true interleaving; a counter that wraps | the pin shows what is configured, to the tick |
| Flashing (`src/tools/esptool`: `write_flash`, `flasher_stub`) | esptool's place in its list of commands; the stub's two buffers, inflator, erase and write positions | connect, upload the stub, begin, block, hash, leave; interrupt, inflate, erase, write | a serial line that loses and makes up bytes, answers without numbers, acknowledgements before the work, a stub left by a run before | what is called written is written; nothing else is touched |
| File system layer (`spiffs/fs.c`) | ten descriptors | fopen, fread, fwrite, fclose | limit, shared with the web pages | no descriptor leaks |
| Clock (`realtime/realtime.c`), sound, LED drivers, loader, radio tables, web binaries, vendored libraries, other tools | | | | |

How they interact: the HTTP server calls the web socket parser and the routes of
`main.c`; the routes change the parameters of the panel, the alarm, the wifi
credentials and the upload; an upload in progress stops `Application_Run`, hence
keys, forms and the effect (`main.c:520`); the upload's restart timer hands over to
the bootloader through the boot parameter; every restart makes the application
read both settings files again; `loop()` looks at the alarm only while the wifi's
poll has seen a link; a setting that cannot be saved for want of a descriptor
restarts the device in the middle of the server's pages. `PROJECT.json` lists each component with its
sources and status, and each hazard at its line.

## Modules

| Module | Models | Composed of |
|---|---|---|
| `NorFlash` | the flash chip: erase sets a sector, programming clears bits, a cut operation leaves any mixture | |
| `FwUpdate` | upload handler, restart, bootloader, power supply | extends `NorFlash` |
| `FirmwareStore` | abstract: what firmware update promises | refined by `FwUpdate` (`StoreSpec`) |
| `FwUpdateProofs` | theorems about `FwUpdate`, and the refinement of `FirmwareStore` | extends `FwUpdate` |
| `PanelUi` | `Application_Run`, keys, timers, forms, parameters | |
| `WifiLink` | access point, station, credentials | |
| `DayTime` | the day: hours of minutes | |
| `Schedule` | alarm, switches, `/param.txt` bytes 7 to 13 | extends `DayTime` |
| `MainLoop` | wifi and alarm as `loop()` runs them | extends `WifiLink` and `DayTime`, instantiates `Schedule` |
| `MainLoopProofs` | theorems about `WifiLink`, `Schedule` and their composition | extends `MainLoop` |
| `HttpServer` | sessions between lwIP and the request parser | |
| `WsParser` | the web socket frame parser | |
| `Firework` | the column and the rays | |
| `StatusLed` | the LED interrupt between the stores of a configuration | |
| `FlasherStub` | esptool's stub on the chip | extends `NorFlash` |
| `FlashTool` | `write_flash`, the serial line, the ROM's loader, reruns | extends `FlasherStub` |
| `PanelUiProofs`, `HttpServerProofs`, `WsParserProofs`, `FireworkProofs`, `StatusLedProofs`, `FlashToolProofs` | theorems about the module each is named after | extend it and the library's theorems |

`MCxxx` modules give the constants their values for TLC. An operator marked
`Fault:` is a plausible bug of the definition that follows it (a dropped guard, an
off-by-one, a missing reset); no specification uses it. Each checked property has
one that violates it under the configuration of its run, listed in `PROJECT.json`.
An inductive invariant `IInv` that a run checks has the module's type invariant as a
conjunct; type invariants that are proved are not run again on their own.

### FwUpdate, FirmwareStore, NorFlash

*Data.* A partition is a row of units, a unit being a fraction of a sector; each
holds a datum of a ROM file, `Erased`, or `Garbage`. The boot parameter is `blank`
(no magic), `idle`, `new`, or `torn`: the magic is there and `new_rom` is still all
ones. `new_rom` is a bool compared with 1, so what a build makes of any other byte
is its own choice: `TornAnnounces`.

*Steps.* No callback comes between two flash operations of a handler, but a power
loss does, so each flash operation is a step: success, an error where the code
looks at it (`main.c:1566`, `1618`, `1622`, the bootloader's) or does not (the
`spi_write_align_byte` of `main.c:1583`), and, in `PowerLoss`, a cut, which leaves
any mixture of before, after and garbage in the range of the operation. The
application has a page that always sends the address 0x82000 and then a file, a
piece after the other; another header (address below 0x82000, size 0 or too large)
leaves the state as the code does. `told` is the last message sent to the page.

*History.* `staged` is the last completed upload, `installed` what the bootloader
last put into APP_MAIN. `tainted` marks two situations in which the code promises
nothing: a silent flash failure (its results are ignored), and a data piece written
while the boot parameter is not idle. The second is reachable: an announcement
whose write failed leaves the sector blank or torn and no restart armed, and in the
three seconds before the restart (`main.c:1628`; the comment above it says five)
another upload can begin. In both cases APP_NEW changes under an announcement.

*Bounds.* `MaxPiece` units to a TCP piece, `MaxFaults` faults in a behaviour.

*Refinement.* `FirmwareStore` says: an upload completes, is announced, the device
goes down at any time, only then an announced image is installed, and it stays
announced until it is; only the installed image runs. `CleanSpec`, the behaviours
without a taint, implements it. The mapping makes an image that is not wholly in
its partition an image of size 0, so that a partial image that runs, or is
announced, is visible as a violation.

### PanelUi

A pass of `Application_Run` is six steps (two timers, three keys, the form) and the
pins may change between any two, and between the two readings `ezform.c` makes of
one. Time passes at the end of a pass or while an upload stops passes; ages are
capped at the longest time anything waits for, and the debounce count runs only
while a press is pending, where it is read. The times keep the order
debounce, repetition, hold, confirmation, setup, wipe (20 ms to 5 s) and not their
ratio. Left out: what the LEDs show, a failing `fopen` or `malloc`, and the wrap of
the millisecond counter after 49 days (differences wrap with it).

`SetupIsSaved` allows `SpeedTia` a difference of one: UP or DOWN released in the very
pass in which SET saved and before the form is switched still changes the last
parameter. `SetHeldEntersSetup` speaks of SET held alone while no wipe is under way: the
wipe's timer is a second one, and in the pass in which both expire the wipe's switch to
`form_run` replaces the one to setup that SET has just asked for (below).
Without it only `stimer1` matters to SET: a timer that has the hold's callback belongs to
a press as long ago as its age says, whatever the times are (`HoldCounted`, proved), and no
other callback switches forms in `form_run`. That the run's wipe is shorter than the way
through setup therefore hides nothing. `setHeld` and `downHeld`
are how long ago the press was that a hold is
measured from; `unsaved` marks parameters set by a request or left by a wipe.

### WifiLink

The SDK's connection status changes as it likes; the five-second poll, the timers
and the requests are the code's. `CloseDelay` is the minute after which the access
point closes, in polls. The page always sends SSID and password together.

### Schedule

`/param.txt` is seven bytes of LED parameters (`PanelUi`) and seven of alarm and
switches; `fopen(.., "w")` does not truncate, so a write replaces its bytes. A minute
lasts at least one half-second poll; the clock is anything at a boot or at a
synchronisation. Left out: failing `malloc` and `fopen`. The switch over the event
has no `break` (`main.c:554-590`), and the model does as it does: events 1 and 2 switch
sound and effect. `Meant` is what an event is named for (`main.c:38-43`).

### MainLoop

The steps of `WifiLink` and `Schedule`, with `wifi_status` written by the one and read
by the other; a restart is one of both. One network, a closing delay of one poll and
a day of two minutes are enough here, because the safety properties are proved for
all of them: what the run adds is `LinkRunsAlarm`, that a lasting link alone, through
the poll that sees it, makes the alarm switch every output its event is named for, day
after day. That an alarm switches nothing else is `AlarmSwitchesMeant`, which is false
(`alarm_events`). `LinkRunsAlarm` asks that the device is
left alone in the end, since every request, wipe and restart changes what is on.

### HttpServer

lwIP calls back in any order; `tcp_write` takes anything between nothing and all.
A session sends what is in its buffer, then the next chunk of its file, then its
constant. Requests are a page (file), a constant, an API answer, a POST whose body
comes in one or two segments, a web socket upgrade and its frames, and an unknown
path. A close that fails leaves the session to nobody; a close in the middle of a
file or constant frees twice, or frees flash, which the model takes as a crash with
a reset. A POST body, the alarm and the front panel may have a setting to save:
with no descriptor free that restarts the device (`main.c:728`), at any point of any
answer. Left out: allocation failures; members that `session_new` does not set are
taken as zero; `tcp_sent` reads a session it has just freed, which is taken as
harmless. Histories: `out`, what was handed to TCP, `expected`, the answers due, and
`lost`, sessions nothing refers to. A body that ends with its segment is handled twice,
and what was left of the first answer gives way to the second; `expected` is then made
anew from what has gone out, so `NothingLost` says nothing of the part replaced. `FilesReturn`: a page's descriptor comes back,
whether its client reads on or not (a session lost by a failing close has it until a
restart, and is no longer in its connection's place). One connection after another
is run, with slots for two, so that lost sessions hold a slot and a descriptor; the
invariants are proved for any number of connections at once.

### WsParser

Each round of the parser's loop is a step; a frame has a body length, a form of
length field and a mask or none, and is cut into segments anywhere. The update page
sends a frame when the answer to the last has come, so no segment spans two frames.
At a frame's end the parser is freed and made anew under the loop that uses it, and
the function called returns no value: with the segment at its end, both outcomes
are the same. Bodies are of less than 65536 bytes, so that at most two bytes of the
extended length are not zero (`FramesAssumption`; the page sends chunks of 2048);
bytes are told apart by their index.

### Firework

The column and the rays step when their own period is over; periods are settings,
so the two interleave in any way, except that a burst resets the rays' clock and
they step in the same pass (`due`). Pixels and sound are left out, so indices count
only what the control compares; an index that has missed its comparison counts up
to `Beyond`, above everything it is compared with. `FireworkAssumption` excludes the
sizes at which the code writes outside `DataPut[50]` or never bursts (below).

### StatusLed

One LED: they share nothing. A configuration is stored member by member
(`ezform.c:160-166`), the members are not volatile, so in any order, and the interrupt
comes between any two. The counter wraps at `Wrap` (2^32 ms in the code);
`LedAssumption` says that an on time and an off time together are shorter than that.
`fresh`, `whole` and `age` are history: a tick has come since a member changed, a round
has begun since, and how long the pin has been as it is. `Shown` speaks of half-stored
configurations too. The round in which a configuration comes may be longer than
configured, which `whole` leaves out of `ExactBlink`.

### FlasherStub, FlashTool

`make flash` and `make uploadfs` run `src/tools/esptool` (third-party code kept in the
repository), and it runs its stub on the chip (`flasher_stub/`, kept as source beside
the binary in `esptool.py`).

*Data.* A file is its units in order; a compressed block is how many units of the file
are inflated at its end, one at least. A frame is an operation, a file and a block; it is
`good`, or damaged so that its checksum or length shows it (`caught`), or not (`missed`:
a data block with other bytes, or a begin or hash that names another place, one of
`Misplaced`). The hash of a region is its contents.

*esptool.* One command at a time, the next answer to the same operation taken for its
own; `After` is the order of `write_flash`. Commands that only read or set registers are
one `READ`, the stub's upload is one `MEM`. A failing answer to `MEM_END` does not stop it
(`esptool.py:762-775`). `change_baud` ends in `flush_input` when a
speed is given, so it may come or not before the first file. What the chip's ROM loader
does is external: it answers `SYNC` with values other than 0, and starts the stub.

*The stub.* The interrupt (`ub`) is beside the main loop (`job`): between reading
`ub.command` and clearing it, and between two rounds of inflating. A round inflates as
much as `out_buf` has room for, may erase ahead, and writes when `out_buf` is full or the
file ends. A block that does not continue the stream is an error at once or inflates to
garbage.

*Faults*, `MaxFaults` in a behaviour: a delimiter or a frame is lost, a delimiter comes out
of noise before a frame or in the middle of it (the stub then executes a frame whose rest
is what its buffer held before, and takes the delimiter at its end for a beginning), bits
of a frame change, an answer is lost or its status or value changes, a write to the
flash fails, a timeout comes before a late answer. A reset that does not reach the chip
is no fault: it may happen in every run, and the stub of an earlier run, wherever it was
between two rounds, then answers; taken for a loader, as after an answer with a
damaged value, it has another stub loaded over itself and started (`StubLoads`,
`StubJumps`). Runs follow each other without end. Excluded:

* an operation that changes into another one's, which nothing in the protocol could tell
  (any other is refused), or an `END` whose changed parameter restarts the chip;
* a place that reaches beyond the flash;
* a frame cut in the middle when the stub is already out of step, or whose second part
  is a command by chance; the main loop taking the first of two commands that one frame's
  delimiters make, before the second is there;
* code of the stub that changes on its way, when it is loaded;
* a stub whose speed was changed and cannot be reached at the ROM's (it behaves as a chip
  that does not answer), and a last block that inflates to nothing.

*Properties.* `DoneIsWritten`: that a file got written rests on its hash, since answers
carry no number and the last block's error is cleared by the `FLASH_BEGIN(0, 0)` that
follows, and that it stays so on the order of the commands (under Proofs). It is not true
of every run that ends as done: nothing checks the place a
begin names, and the hash is taken of the place that esptool meant. One changed bit is
enough on a device that holds the files already: the second file goes over the first,
which has been hashed, and the hash of the second finds the copy of the run before.
`DoneIsWritten` therefore leaves out, by the history `deceived`, the runs in which the
stub executed a begin or a hash of a changed place, and those in which a begin that failed
was reported as a success (the data of this file then go to the place of the file before,
if its last block was not written). `OthersKept` leaves out, by `strayed`, the devices on
which a begin or the closing `FLASH_BEGIN(0, 0)` of a changed place was ever executed.
`BlocksStay`, `OneAtATime` and `CleanSucceeds` speak of runs whose reset worked and in
which nothing goes wrong, after whatever came before. With faults blocks do not stay: a
frame that is only a delimiter repeats the old command, and the block that it begins to
inflate again lies in the buffer the next one is read into; the `SYNC` of a later run,
which waits for nothing, does the same. `InStep` is what holds instead of a number in the
answers: one command is with the loader, or the stub is greeting, or one is with the stub.

## Runs

| Run | Question | Bounds |
|---|---|---|
| `fw_update` | What was received is stored, only whole images run, a whole image can always be brought up, an announcement is of a complete upload, and `FirmwareStore` is implemented | two sectors of two units and one, pieces of up to two units, two faults anywhere |
| `fw_live` | An announced image is installed in the end; the inductive invariant of the proofs | one sector of two units (an erase is skipped inside it), one fault |
| `panel` | What setup set is what the next boot loads; setup and wipe only after their holds; SET held leads to setup when no wipe is under way; the inductive invariant of the proofs | two LED types, one value for each other parameter, a wipe longer than the other holds |
| `ui_wipe` | Violated: a wipe while DOWN is not held | the same, setup 2, wipe 3 |
| `main_loop` | The access point stays open until a link, links use what is saved, a lasting link closes it; a restart keeps alarm and switches; a lasting link makes the alarm switch daily what it is named for | one network, one poll until closing, a day of two minutes, every alarm |
| `alarm_events` | Violated: an alarm switches only what its event is named for | the same |
| `wifi_wipe` | Violated: after a wipe the access point is on | `WifiLink` alone, two networks, a minute of two polls |
| `http` | Answers lose nothing, end, and end their connections; slots are given back once, descriptors come back | one connection after another, three requests of every kind on each, two-chunk pages, two slots, one descriptor, two retries, failing closes, failing saves |
| `ws_frames` | The bodies handed on are the payload, whatever the cuts; the inductive invariant of the proofs | bodies 0, 3, 6 and, masked with two bytes of length, 258; each length form; masked or not |
| `firework` | Each rocket bursts at the top, nothing else does, the show goes on; the inductive invariant of the proofs | columns 3 and 12, rays 4 and 5, all 14 types, volleys of two |
| `status_led` | The pin shows the members, each phase is exact, a blink goes on | five configurations, times 0 to 3, a counter modulo 8, two levels of brightness |
| `flash_tool` | What esptool calls written is written and nothing else is touched, but for changed places; every run ends; in a clean one there is one command at a time, buffers do not collide, and it succeeds; the inductive invariant of the proofs | files of one unit and of six in three blocks, sectors and `out_buf` of two units, two sectors to a block erase, two attempts of two `SYNC`s with two answers each, two faults, one changed place |

Why the bounds are enough: two sectors show an erase that is needed and one that is
not, and two faults show a cut recovery that is cut again. Two-unit sectors let a
piece end inside one and run over the end of one. The LED type is
the panel's parameter that moves and must be saved; a numeric one starts at 0 in the file
and stands at both its limits, and what moves between them is the proofs', for all
limits (`SetupSaved`, `PanelInvariance`). A minute of two polls is longer than
one. A page of two chunks and a buffer that goes in parts reach each state of the
sender, and three requests on a connection reach a request during an answer and one
after it. Bodies of 3 and 6 end before and after the mask wraps. A column of
12 with rays of 4 has two rockets of one volley on their way at once, one of 3 none;
14 types are all there are. A volley of two has a rocket that is the last one and
one that is not. The LED configurations are a blink, a short and a long lit one and a short and
a long dark one; eight ticks hold a round of the longest and wrap in it. The second
file of `flash_tool` begins at a sector that does not begin a block and ends at one that
does: it has single and block erases, fills `out_buf` three times and carries it over a
block's end; two faults are one that brings the two sides out of step and one that could
hide it. The changed place takes in the first file and
sectors of neither. Symmetry is not used.

No run turns the deadlock check off.

### Fairness

`FwUpdate`: a handler or the bootloader runs on, the armed timer fires, and a device
that is down or stuck is switched on again. Nothing is asked of the page; faults are
bounded by `MaxFaults` only. `PanelUi`: `loop()` posts itself, so a pass goes on; a
pass in which time moves happens again and again if uploads come to an end
(strong, because an upload can begin between any two passes). `MainLoop`: both polls
go on (`loop()` posts itself), SDK timers fire, time goes on; nothing is asked of the
radio or the page. `HttpServer`: lwIP
polls, clients acknowledge what was written, and a poll is not refused for ever by a
full send buffer (strong, since a poll that sends nothing is a step too). `WsParser`:
the stream of segments goes on. `Firework`: passes go on and periods end. `StatusLed`:
the hardware timer, armed once, goes on. `FlashTool`: esptool reads what has come, its
timeouts end a wait for an answer that nobody will give, the chip works on and receives
what was sent; faults are bounded, and nothing is asked of resets or of the user.

### Violations

* `ui_wipe`: DOWN's release stops the wipe timer only while `form_run` runs
  (`main.c:976`). DOWN pressed, SET held until setup begins, DOWN released: the
  credentials are wiped with no key held, against the comment at `main.c:970`.
* `wifi_wipe`: the wipe brings the access point back and does not disarm the timer
  an earlier link armed (`main.c:895`): a link less than a minute old, then a wipe,
  and the device has neither credentials nor access point until a power cycle.
* `alarm_events`: the cases of the alarm's switch run through (`main.c:558`, `579`), so
  sound alone and effect alone, which `main.c:38-43` names and
  `data/webpanel/alarm.html:52-54` (under `src/`) offers, switch both.

### Other disagreements met while modelling

The models do what the code does in each case; no run is spent on them.

* An announcement that fails after STOP_UPLOAD leaves the device running without a
  restart while the page reports success (`main.c:1618`, `data/webpanel/update.html:110`).
* A second upload in the seconds before the restart overwrites the announced ROM
  (`main.c:1566`): `tainted`.
* What the alarm's Off minute switches is not saved, so a reboot switches back on
  (`main.c:580`).
* SET held may not lead to setup: when the wipe's timer expires in the same pass as SET's,
  its switch to `form_run` (`main.c:905`) comes after the switch to setup that SET's has asked
  for (`main.c:864`), and SET's timer is used up. DOWN need not be down: pressed in
  `form_run` and released in setup it leaves the wipe's timer running (`main.c:976`, as in
  `ui_wipe`), and five presses of SET and another hold can meet its end.
* `write_flash` "always verifies the MD5 hash of data which is written"
  (`src/tools/esptool/docs/en/esptool/advanced-commands.rst:19`), but hashes the place it
  meant: with one bit of a begin changed (`stub_flasher.c:203`) another file is gone and the
  run is done (under FlashTool): `deceived`.
* Above the limit the accept callback returns 0, which is ERR_OK
  (`http_server.c:53`): the connection stays open, unserved.
* A close that fails loses the session and its descriptor; the poll asked for finds
  no session (`http_server.c:799-803`).
* A session freed in mid-page frees its buffer twice; in mid-constant, frees flash
  (`http_server.c:866`, `880`, `638`).
* A poll between head and body of a POST drops it (`http_server.c:198`); a POST is
  handled twice (`http_server.c:405`).
* A keep-alive connection that asked for an unknown path is never closed
  (`http_server.c:282`).
* With all ten descriptors in use, saving a setting restarts the device (`main.c:728`);
  a session whose `tcp_close` failed keeps its descriptor until then.
* `ezform.h:76` has `Repeat` as a number of rounds: with a finite one the interrupt stops
  looking at the LED when the last round begins, and it stays lit (`ezform.c:124-132`).
  `main.c` asks for none.
* The esptool stub reports ESP_TOO_MUCH_DATA when a file's length is a multiple of
  `out_buf` and its last block holds only the end of the deflate stream
  (`stub_write_flash.c:393`, `430`); the next begin clears it. Its `next_out` is not reset by
  a begin (`:390`): on a stub that was not reset, the first file after a broken run is
  written behind what was left over, and fails at its hash.
* A size lowered during a volley can make an index miss the value it is compared
  with: the column never goes off, the show stops until a restart (`firework.c:483`).
  With one ray `No1DiemDienDay` never ends; a column of one never bursts; up to 128
  rays are allowed and `DataPut` has room for 50 (`firework.c:269`).
* Opcodes of frames are not looked at: a close frame's body is taken as data.
* The fourth byte of a constant's length is shifted by 32, the width of the word
  (`http_server.c:642`); no constant of the program is that long.

## Proofs

| Theorem | Module | Says |
|---|---|---|
| `TypeCorrect` | `FwUpdateProofs` | `Spec => []TypeOK` |
| `Invariance` | | `Spec => []IInv` |
| `UploadStored` | | `Spec => []StreamStored` |
| `RunsWhole` | | `Spec => []RunsWholeImage` |
| `AlwaysRecoverable` | | `Spec => []Recoverable` |
| `AnnouncedComplete` | | `Spec => []AnnouncedIsComplete` |
| `Implements` | | `CleanSpec => StoreSpec` |
| `PanelTypeCorrect`, `PanelInvariance`, `SetupSaved` | `PanelUiProofs` | `Spec => []` of `TypeOK`, `IInv`, `SetupIsSaved` |
| `HoldForMode`, `HoldForWipe` | | `Spec => ModeNeedsHold`, `Spec => WipeNotEarly` |
| `LinkTypeCorrect`, `ApStays`, `LinkSaved` | `MainLoopProofs` | `Spec => []` of `TypeOK`, `ApUntilLinked`, `LinkIsSaved`, of `WifiLink` |
| `RestartReads` | | `S!Spec => []S!RestartKeeps`, of `Schedule` |
| `LoopTypeCorrect`, `LoopApStays`, `LoopLinkSaved`, `LoopRestartReads` | | `LoopSpec => []` of `TypeOK`, `ApUntilLinked`, `LinkIsSaved`, `RestartKeeps` |
| `HttpTypeCorrect`, `SlotsCounted`, `AnswersWhole` | `HttpServerProofs` | `Spec => []` of `TypeOK`, `CountIsSessions`, `NothingLost` |
| `ClosedWhole` | | `Spec => ClosesWhole` |
| `WsInvariance`, `StaysInStep`, `BodiesHandedOn` | `WsParserProofs` | `Spec => []` of `IInv`, `InStep`, `BodyDelivered` |
| `FireworkInvariance`, `RocketsBurst` | `FireworkProofs` | `Spec => []` of `IInv`, `EachBursts` |
| `NothingElseBursts` | | `Spec => BurstsAtTop` |
| `LedTypeCorrect`, `LedShown` | `StatusLedProofs` | `Spec => []` of `TypeOK`, `Shown` |
| `LedBlinksExactly` | | `Spec => ExactBlink` |
| `FlashToolInvariance`, `DoneIsTrue` | `FlashToolProofs` | `Spec => []` of `IInv`, `DoneIsWritten` |
| `OthersAreKept`, `OneAtOnce` | | `Spec => []` of `OthersKept`, `OneAtATime` |
| `BlocksStayInPlace` | | `Spec => BlocksStay` |

**Firmware update.** For every partition length, division into sectors, set of contents,
number of faults, and both values of `TornAnnounces`, under `FlashAssumption` and
`UpdateAssumption`: unit 0 begins a sector; erased and garbage are not data; there is
a ROM magic. None of the four safety properties is inductive. `RunsWholeImage` says
nothing of a half-copied APP_MAIN; the invariant adds that one exists only while the
parameter announces a complete image with a magic (`MainOrCopy`, `Copying`), that a
parameter that is not idle, whatever a cut made of it, stands for APP_NEW as it was
uploaded (`ParamStandsForStaged`), that APP_NEW is therefore written only under an
idle parameter (`QuietUpload`), and that the rest of the sector being written is
erased, so that programming yields what was wanted (`RestErased`). A power loss
leaves a mixture that these parts are closed under: a cut copy has the announcement
beside it, and a cut erasure of the parameter leaves blank, torn or the old one, all
with a whole APP_NEW. The proof has a lemma for each action (`...Clean`), `NextTyped`
for types and control, and lemmas about the flash operators and cuts.

*Refinement.* `Withdrawn` adds that an announcement is erased only when its image is
installed, and that the parameter's sector is written only when it is blank. Under it
the mapping is simply the staged and the installed image (`Whole`), and each action
maps to a step of `FirmwareStore` or to a stutter: an end of a piece to `Complete`, a
parameter write or a cut that leaves it torn to `Announce` (the device may go down in
the same step), the last sector's copy to `Install`, an erased parameter to
`Withdraw`, the start of the application to `Start`, a restart or power loss to `Stop`.

**Front panel.** For every order of the times below `HoldClear`, every set of LED types
and upper limits. `SetupIsSaved` relates the parameters to the file at the next boot, and
is not inductive: between the save in the setup's last form and the switch to `run` there
is the rest of a pass, in which UP and DOWN may each move one parameter once
(`SavePending`, with `NextTaken`: a pass begins in the form that the one before switched
to). `HoldForMode` and `HoldForWipe` rest on `HoldCounted` and `ClearCounted`: a running
timer with one of the two callbacks belongs to a key pressed as long ago as its age says.

**Wifi link.** For every set of networks and closing delay. `ApUntilLinked` is inductive
with the types; `LinkIsSaved` needs that the credentials in RAM are those in the file.

**Schedule.** For every division of the day, in `MainLoopProofs`, which has `Schedule` as
the instance `S` with its own variables. Lemmas say what each writer of the file changes
and leaves (`SavedState`, `SavedAlarm`, `StartedFile`).

**Main loop.** For every set of networks, closing delay and division of the day. Each step
of `MainLoop` is a step of `WifiLink` or leaves its variables (`WifiSteps`), and a step of
`Schedule` or leaves its (`ScheduleSteps`): a poll of the wifi is `Schedule`'s
`WifiChanges`. So what is proved of the two modules holds of the composition, in which
both restart at once.

**HTTP server.** For any number of connections, slots, retries, requests and descriptors,
any length of a page, and writes cut anywhere. The invariant adds to `NothingLost` which
of buffer, file and constant a session can have at all (`Coherent`): one without a
request has none, only a page a file, only a constant a context, and a borrowed buffer
is that constant. Each call of the sender gives out a part and leaves the rest, which
together are what was there (`WriteKeeps`, `ReadKeeps`, `TakeKeeps`, `RespondKeeps`); the
lemmas about handlers (`...IInv`) add what they put into the session and into
`expected`. `Coherence` also says that a connection whose
callbacks refer to no session has a fresh one, and `CountIsSessions` is inductive beside
it with the limits on descriptors.

**Status LEDs.** For every set of configurations under `LedAssumption`, number of
brightness levels and width of the counter. `LedInv` adds that the times are those of two
configurations at most, however a store was cut (`Mixed`), so that a round is shorter
than the counter; `RoundInv` says where in the round pin and age are.

**Websocket frames.** For every set of frames under `FramesAssumption` and every way to
cut them. `InStep` and `BodyDelivered` say where the parser is; the invariant adds what it
has by then: the length as far as its bytes have come, the bytes of the mask read
(`KeptHead`), and that the body handed on is what has come of it, the mask's offset that
of the next byte (`KeptBody`). The length is read byte by byte; `ShiftSome` says what some
of them make of it, by induction over the number of bytes.

**Firework.** For every set of sizes, periods, types and volleys under
`FireworkAssumption` and `TypesAssumption`: columns of two LEDs at least, rays of four to
fifty, types that the code has a case for. Until the sizes change in a volley (`changed`)
the rockets under way are a period apart, and the two indices that the code compares are
those of the oldest and the youngest (`Spaced`), so each is compared at the top once and
the column goes off when the last one is through; `BurstsLeft`: a burst that counts
before it compares has something left to count.

**Flashing.** For every set of files in disjoint sectors (`FilesAssumption`: each block
inflates to a unit at least, files lie inside the flash), every size of sector, erase
block and `out_buf`, number of answers to `SYNC`, of attempts and of faults
(`ToolAssumption`); `None` is no frame and no buffer (`NoneAssumption`).

* `OthersKept` needs that what is still to be erased and to be written is a file's
  (`InFiles`), for whatever the line makes of the commands, blocks of another file
  included, as long as no changed place has been executed (`strayed`). The arithmetic is in
  `SectorsCounted` (the sectors counted at a begin are those of the file), and
  `EraseUpToStops`, an induction over the sectors left: the loop of single and block erasures
  goes no further than the count.
* `OneAtATime` and `BlocksStay` come from `InStep`, one phase at a time: the ROM's loader,
  the greeting, the stub. A reset puts a run into the first (`ResetTyped`,
  `ConnectInStep`); every step that is no fault stays in its phase or goes to the next,
  and a timeout is none only if nothing is left to come (`NeverQuiet`: there always is).
  A whole frame goes into the buffer that is being read and flips it (`WholeFrame`), so
  with one command at a time the block at work keeps its own. `StubInOrder`, which holds
  through faults too, says that a command taken up is the latest.
* `DoneIsWritten` holds through any number of faults, resets that fail and whatever earlier
  runs left, but for the runs marked by `deceived`, in which the code does fail.
  The last hash speaks of the last file alone. That the files before it are still there
  needs that no `BEGIN` but the one asked for is executed from the first file on, though
  answers have no number and an empty frame repeats what is in a buffer. `DoneInv` says
  why. On its way to the chip is only what esptool waits for (`Sent`). A run begins with
  `SYNC`, the request for a register and perhaps a new stub; the answers to these come
  after what was left to execute, so by then a `BEGIN` of an earlier run is in no buffer,
  or only in the one that the next empty frame does not repeat, or is answered before the
  first file's is asked for (`AfterSync`, `AfterRead`, `AfterGreeting`); and the first `BEGIN`
  that is answered is the last thing the stub had to do (`AfterBegin`).
  From then on there is one thing at a time even with faults (`OneThing`), and the two
  buffers hold the command at hand and the kind of command before it, so a repeated
  command is that one (`InBuffers`, for as long as the command may still be answered,
  `MayAnswer`). So what is erased and written lies in the file at hand, and the files
  before it stay as they were hashed (`InPlace`); after the last hash the stub has
  nothing left to do (`Finished`). `DoneInv` is inductive beside `StepInv`, the
  invariant of the other theorems; `IInv` is both, and the run checks it. In the proof
  the actions are sorted into eight kinds of step (`QuietStep`, `Executes`, `Idles`,
  `Receives`, `Greets`, `Moves`, `LeavesChip`, and a run that starts or fails), each
  with a lemma that `DoneInv` is kept (`QuietKeeps`, `ExecutesKeeps`, ...); what noise
  can make of a frame is in `Reception`: nothing, a part of it, the frame, whole or cut, in
  one of the two buffers, or the old command of the buffer being read. The exception,
  `deceived`, is the one described under *Properties*.

Only model-checked: the liveness properties (out of the prover's reach):
`AnnouncedGetsInstalled`, `SetHeldEntersSetup`, `LinkClosesAp`, `LinkRunsAlarm`,
`AnswerEnds`, `IdleEnds`, `FilesReturn`, `FramesEnd`, `ShowGoesOn`, `BlinkGoesOn`,
`CleanSucceeds` and `ToolEnds`. Every safety and action property of a passing run is
the statement of a theorem.

## Not modelled

The bootloader's loader, LED drivers, sound (its library is not in the repository),
radio tables: sequential, without state that anything interleaves with.
`firework_new.c`: not compiled. Generated web binaries, vendored parsers and SPIFFS: not
this program's logic; of the file system, the limit of descriptors and that a write does
not truncate are in the modules that use them. Of esptool, what `make flash` does not
run: other chips, encrypted and uncompressed writes, reading back, image building.
`src/tools/python2` is a bundled Python interpreter and library, by far the largest part of
the repository's lines; `idf_monitor` a terminal. JSON texts: layout.

## Plan

Done, in this order: `NorFlash`, `FwUpdate`, its proofs, `FirmwareStore`; `PanelUi`;
`WifiLink`; `Schedule`; `HttpServer`; `WsParser`; `Firework`; `StatusLed` and its proofs;
`HttpServer`'s descriptors and failing saves, and its proofs; `MainLoop` and its proofs;
`FlasherStub`, `FlashTool`; the proofs about `PanelUi`, `Firework`, `WsParser` and
`FlashTool`.

Next, models: a composition of `WsParser` with the upload's pieces; the parameters'
buffers of `Firework` (`DataPut`) at their limit.

Next, proofs: what those models promise.

Induction is done over sets of numbers (`NatSetInduction`, from the library's `WFMin`),
since the library's own induction theorems take an operator as a parameter.
