# Verification of CanAnalyzer

TLA+ models of the programs in this repository, the configurations that
model-check them with TLC, and theorems about them that TLAPS checks.

The repository holds three programs: **QtCanAnalyzer**, which talks to a CAN
adapter over a serial port; **CANdevStudio**, a graph editor whose nodes
simulate a CAN network; and **qtSerialCanBus**, a Qt CAN plugin through which
CANdevStudio reaches the same kind of adapter.

Paths below are relative to `src/`. *Analyzer* is `QtCanAnalyzer/`, *Studio* is
`CANdevStudio/src/`.

## 1. Inventory

### QtCanAnalyzer

One thread: the GUI thread. Everything is a slot called by its event loop.

| Component | State | Operations | Hard about it | What makes it correct |
|---|---|---|---|---|
| **SerialCan** (`src/SerialCan.cpp`, `canframe.cpp`, `include/commoncan.h`) | the open port, `mRecvData` (bytes not yet cut into frames), the connections of `readyRead` | `serialOpen`, `serialClose`, `readData`, `calPacket`, `writePacket`, `canDeviceInit` | bytes arrive in chunks that end anywhere; the buffer outlives the port; every opening connects the slot once more; lengths are built from signed chars; a head that is no packet is never skipped | frames come out once, whole and in order for as long as no byte is lost; what happens after a loss is understood |
| **Main window and settings dialog** (`mainwindow.cpp`, `settingsdialog.cpp`, `CanDeviceInfo.cpp`) | enabled actions, the dialog's boxes, `m_currentSettings`, `mCanDeviceInfo`, `Setting.json` | Connect, Disconnect, Configure, Apply, Save, closing a window, starting the program | three copies of the settings (boxes, program, file) that different buttons copy; the dialog is not modal; the file is truncated before it is written | devices are told one consistent configuration; an interrupted save does no harm |
| **SendFrameBox** (`sendframebox.cpp`) | its boxes | the toggles, Send | what of a frame reaches the wire (no frame type, payload cut?) and what the log says | planned |
| **Console** (`console.cpp`) | - | - | no file creates one | not modelled |

Interactions: `SettingsDialog` hands the port's settings to `MainWindow`, which
opens `SerialCan` and has it send one initialisation packet per channel of
`mCanDeviceInfo`. `SerialCan` emits `recvCanFrame`, which the main window logs.
`SendFrameBox` calls `SerialCan::writePacket` directly. All of these are direct
calls in the one thread.

### CANdevStudio

Every node of the graph is a model (GUI thread) and a component. Components of
the kind `CanDevice` and others that ask for it run in a thread of their own
(`Studio/common/componentmodel.h`); signals between the two are queued. Items
travel between nodes through a `ReaderWriterQueue` of 127 places and a
`dataUpdated` signal that makes the graph fetch one item.

| Component | State | Operations | Hard about it | What makes it correct |
|---|---|---|---|---|
| **CanDevice** (`components/candevice`) | `_initialized`, the `QCanBusDevice`, `_simStarted`, `_sendQueue`, the model's `_rxQueue` | `init`, `startSimulation`, `stopSimulation`, `sendFrame`, `framesWritten`, `errorOccurred`, `framesReceived`, `configChanged`, the model's `setInData`/`outData` | two threads; `framesWritten` carries only a count; reconnecting a device that never leaves ClosingState; `configChanged` comes from the other thread; a full queue | reports name the frames that were written, once, in order; nothing waits in a queue without a signal; connected only while started |
| **CAN plugins** (`qtSerialCanBus`, `CANdevStudio/3rdParty/qtCannelloniCanBus`) | the outgoing queue, a timer | `open`, `close`, `writeFrame`, `timerEvent` | a byte budget per tick; invalid frames, which are noticed only when they leave the queue; whether and what they report | every frame taken is reported as what it became, which these do not keep |
| **ComponentModel, Node, FlowScene** | queues, connections | `initModel`, `onDataUpdated`, `createConnection` | drawing a connection fetches an item nobody announced | inside CanDevice's module |
| **ProjectConfig, main window** (`gui/`) | started or stopped, the scene | Start, Stop, open properties, create, delete, load, save | a node made while the simulation runs is not told of it; broadcasts reach the nodes there are at that moment | inside CanDevice's, SignalDb's and Trace's modules, as far as those nodes see it |
| **CanRawSender** (`components/canrawsender`) | `_lines`: per line the widgets, a timer, the frame; `_simulationState` | add, remove, edit, toggle Loop and Remote, press and release Send, the timer, start, stop, save, restore | a press acts before its release checks the button; widgets enable and disable each other; rows restored before signals are connected | timers run only for lines set up for it, send what is shown, stop with the simulation; what is saved is restored |
| **CanSignalData, CanDbHandler** (`components/cansignaldata`, `common/candbhandler`) | the file, its messages, `_msgSettings`, the table; per user a copy of every database, the current one, the property | load a file, edit a cell, `setMsgSettings`, broadcasts, restore | three places for one cycle (table, settings, messages); copies follow broadcasts while nodes come, go and are restored in any order | every copy is the database as it is; the table is what is sent and what is restored |
| **CanSignalEncoder, CanSignalDecoder, CanSignalViewer** (`components/cansignalencoder`, `cansignaldecoder`, `cansignalviewer`) | `_rawCache`, a timer per periodic message; `_signalCache`; rows | a signal in, timers, a frame in, start, stop, Clear, a database changes | bit layouts in two byte orders, sign extension, rounding; signals that share a frame; timers that know the database of the start; caches that outlive a stop and Clear | a value that is given is decoded; a row shows what was decoded last; no signal disturbs another |
| **CanSignalSender** (`components/cansignalsender`) | a table of signals to send | add, remove, Send, save, restore | it does not restore its database; a Send button remembers its row's number | its database handler is one of SignalDb's users; the rest is planned |
| **CanRawFilter** (`components/canrawfilter`) | two tables of rules with a current row each, two boxes, the lists made from them | add, remove, up, down, edit, the boxes; a frame in; save, restore | what is applied is a copy of the table that connected signals keep up to date | the copy is the table as it shows, after every edit and after a restore |
| **CanRawView** (`components/canrawview`) | a ring of rows, a second table with a row per id, maps of pointers into it | a frame in, Clear, start, stop | rows are reused in one table and pointed to in the other | the latest frames, in order, and the latest of each id |
| **Logger and player** (`components/canrawlogger`, `canrawplayer`) | `_file` and its clock; `_frames`, `_frameNdx`, `_ticks`, `_msgQueue` | a frame in, load, tick, start, stop, `configChanged` | several loggers started in one second; late ticks, restarts, a burst larger than the queue; start and stop that wait for the player's thread | no log is overwritten; what is due is sent once, in order; what is played is logged |
| **CanLoad** (`components/canload`) | a bit counter | a frame in, tick | counters at their limit | planned |
| **QmlExecutor** | a QML engine | runs the user's script | the script decides | not modelled |
| **Property fields, sorting, painting, visitors** | none of their own | - | - | not modelled |
| **Vendored libraries** | - | - | third party; the lock-free queue is taken as the bounded FIFO it promises | not modelled |

`PROJECT.json` lists the same components with their files and, under `hazards`,
what is hard to test in each of them, at its line, with the property that
watches it or the reason none does yet.

## 2. Plan

In the order of importance; the first eight are done.

1. `FrameChannel`, `SerialCan`: every frame the Analyzer shows passes through
   `calPacket`. *Done; safety and the refinement proved.* `FrameChannel` is the
   abstract promise, `SerialCan` is shown to implement it.
2. `Session`: settings over starts, crashes, Connect and Save. *Done, proved.*
3. `CanDevice` with the plugins and the node graph around it. *Done; safety
   proved.*
4. `RawSender`. *Done; all its properties proved.*
5. `RawFilter`, `RawView` and `Monitor`, which composes them behind a device.
   *Done; all its properties proved.*
6. `SignalDb`: the databases and their copies. *Done; all its properties
   proved.*
7. `SignalCodec` and `Signals`: the bit layouts, and a value's way from the
   encoder to the viewer. *Done; safety proved.*
8. `Logger`, `Player` and `Trace`, which composes them around a device. *Done;
   safety proved.*
9. `CanLoad`: the bit counter between two ticks.
10. The table of `CanSignalSender`, whose rows keep their numbers.
11. `Project`: nodes created and deleted while the simulation runs; composes a
    node's life with `CanDevice`'s.
12. `SendFrameBox`: its toggles, and what of a frame reaches the wire. It will
    INSTANCE the writer of `SerialCan`, with the COMMAND packet that
    `canDeviceInit` writes, and relate the log to what was written.

Every safety property that a passing run checks is proved. Theorems worth
adding: the refinement of a report channel by `CanDevice` for as long as the
plugin drops nothing, and safety of 9 to 12 as they come.

## 3. The models and the code

### FrameChannel and SerialCan

`SerialCan` is byte for byte. A device at the far end (or the PC's own output
looped back: `SEND_CAN2` frames are accepted) sends frames; `GenerateWriteData`
makes their packets. `toSend` and `offset` are the stretch of bytes that is on
the wire. `ReadData(n)` is one `readyRead` with any number `n` of bytes: bytes
are appended to `mRecvData`, and the slot runs once for every connection made
so far. `RunSlot` is `readData` (nothing if there are fewer than six bytes, else
`while (calPacket(...))`, whose later rounds no longer ask for the size), `CutPackets` the loop, `Complete`, `DataLength`,
`EndPacket`, `FrameOf` the parts of `calPacket`. Signed chars, the `int16_t`
length and Qt's index rules are modelled: a negative length makes `calPacket`
read in front of the array. What lies there is undefined, so `ReadData` chooses:
either it is not `P_EOF` and nothing happens, or it is, a frame is emitted and
the loop never ends (`hung`), because `remove` with a negative length removes
nothing. As the size is tested before the loop only, this can also happen on the
four or five bytes that are left behind a packet.

`SerialClose` keeps `mRecvData`, `Clear` is the main window's Clear, `Lose` is
what passes while the port is closed. Loss happens between bytes, so what
remains of a packet can look like another packet.

`FrameChannel` promises: as long as both ends agree where a packet starts,
frames come out once, whole, in order; only a loss or Clear ends the
agreement; without it nothing is promised. `Synced` in the mapping is derived
from the code's state: the buffer is exactly what has left of the packet under
way.

Exclusive or of two bytes is the constant `XorOf`, of which only is assumed that
it gives a byte: as `calPacket` computes no CRC, nothing depends on which one
`MakeCRC` finds. MCSerialCan gives it the real one. Recursion (`MakeCRC`,
`CutPackets`) is written as recursive functions on the number of bytes.

Left out: `getPortsInfo`, `DecodeData` (never called), `writePacket` as an
action of its own, the wording of the log.

### Session

One run of the program after another. `boxes` is what the dialog shows, `name`
the port Connect will use, `mCanDeviceInfo` what the devices will be told,
`file` is `Setting.json`, and each button copies the part the code copies:
Apply the port only, Save the boxes to the file, the constructor the file to
everything. `Crash` may leave the file truncated (`torn`); every value read
from such a file is 0 or empty. `Close` ends the program with its last visible
window; as Apply hides the dialog, the process can go on with no window at all.

A configuration is the four box indices of one channel. The serial parameters
(baud rate, data bits, parity, flow control) take the same way as the port's
name and are left out, as is the text log.

### CanDevice

`inbox` is the event queue of the device's thread, `updates` the number of
`dataUpdated` signals queued for the GUI thread, `rxQueue` the lock-free queue.
Handlers run one at a time per thread; the loop of `framesWritten` is one step
per frame, so the GUI thread interleaves with it. `dev` is the plugin's object:
its state, its outgoing queue and, as history, how many frames it took off that
queue without writing or announcing them (`dropped`). Three plugins: `cannelloni` and `serialbus` from
the repository, `direct` for a Qt plugin that writes while `writeFrame` runs
and may fail to. `AfterInit`, `AfterStart`, `AfterStop` give the results those
calls may have; `createDevice` and `open` may fail if `MayFail`.

Nothing asks whether a frame is valid before the plugin's timer takes it off the
queue: `CanRawSender` takes up to 128 hex digits, and nine bytes make an FD frame
of a length that CAN FD does not have. `CannelloniTick` writes frames until the queue is
empty, `MaxBatch` are written (the byte budget) or one is invalid, and in the
last two cases drops one; `SerialBusTick` discards an invalid one. Which frames are
invalid is chosen at that step, the only one that asks it of each frame, if `MayBeInvalid`.

`ChangeProperties` is `configChanged`, called by the GUI thread while start and
stop events may still wait. It is not modelled in the middle of a handler: that
is a data race on `_canDevice` with no defined outcome, listed as a hazard.
`FlowScene::createConnection` fetches an item without a signal
(`CreateConnection`).

Left out: restoring the properties from a project, Cannelloni's packet format,
the timer's period.

### RawSender

A line of the table is a record: its fields, its widgets' enabledness, its
button (`down`: up, held by the mouse, or animated by `animateClick`), whether
it is checked, its timer and the frame the timer sends. The handlers of
`NewLineManager` are operators from line to line and each action is a whole
slot, including the widgets Qt changes with it (a disabled button is let go,
`setCheckable` unchecks). Pressing acts at once; only the release toggles
`checked`, and anything may come in between. `Init` is an empty table or one
restored from a project: rows are adopted in order, one without `send` gets its
predecessor's, a refused row makes no line, a malformed one ends the restoring.

Left out: the padding and clamping of ids, presses during the 100 ms of
`animateClick`, sorting, columns, docking.

### RawFilter, RawView and Monitor

`RawFilter` has for each direction the table as it shows (`rows`), its current
row, the box's default (`policy`) and the list that `acceptFrame` reads
(`acceptList`). Each action is a slot of the GUI with the `listUpdated` that the
constructor connects to it: the RX box updates both lists, the TX box neither.
A rule's two regular expressions are the set of frames they match. A table's
view may have no current row (0) until it is clicked; Remove then removes
nothing and Down inserts a row without items, after which the program ends
(`crashed`). After Remove, Qt makes some remaining row current; which one is
left open. A save stores `acceptList`, not the table; `Restored` is what
`setListRx` and `setListTx` make of it in a new node.

`RawView` has the ring of rows (`tvModel`), the table of unique rows and the
two maps as one map from direction and id to a row. `seen` is history: the
frames shown since a clear, against which the two tables are judged.

`Monitor` is a filter behind a device and a view behind the filter, all in the
GUI thread: `SetInData` is the device's `dataUpdated`, which reaches the
filter's `setInData` and, through its queue and its own `dataUpdated`, the
view's, in one call. The queue thus holds an item only within that step and is
never full. Start and Stop reach every node within one signal.

Left out: the node's name, the text of the view's rows, sorting, which of its
two tables is shown, its saved columns, docking.

### SignalDb

`data` is `CanSignalDataPrivate` of each node: the file, `_messages`,
`_msgSettings` and the table; `users` is each `CanDbHandler`: `_candb`, the
current database and the property that names it. A node is created, deleted or
changed in one step of the GUI thread, with all the broadcasts it causes, as Qt
delivers these within the `emit`. `LoadDbc` is `loadDbc` with the settings given
to what was parsed, `SetMsgSettings` is `setMsgSettings` (whose first loop clears
copies and so nothing), `GetMsgSettings` the rows that say something.
`CanDbUpdated`, `DbsRequested` and `NodeDeleted` are the branches of
`processBcast`. `ReloadProject` saves, closes and loads: each node comes back
from its properties and the handlers find their databases again, in any order of
the nodes (`first`, `heir` are whatever the hash's order makes them).

A message's cycle and initial value are members of small sets with the empty
text among them; what a file contains is the constant `MessagesOf`; a file
outside its domain fails to load. Left out: names and colours, the table of
signals, searching, the parser (`CANdb`), the title bar.

### SignalCodec and Signals

`SignalCodec` is the arithmetic of encoder and decoder: a payload is its length
and the set of its bits that are 1, `BitOf(sig, i)` is where `signalToRaw` and
`rawToSignal` put bit `i` in either byte order, through `beTransTable` twice for
big endian; `SignalToRaw` replaces the bits of a signal, `Decoded` reads them
(`RawToSignal`) and scales, `Shifted[n]` is `1ULL << n`. Factors and offsets are
whole numbers. Raw values are those of the code for every size: `rawToSignal`
returns an `int64_t`, so an unsigned value of 64 bits comes back negative from 2^63
on, and its `1ULL << 64`, which C++ leaves undefined, is 0 or 1 (`WideShift`; on
x86 it is 1, and every negative value of a signed signal of 64 bits becomes -1). Values are
scaled with `double`s, which are exact on whole numbers up to `MaxExact` only:
`ExactSignals` are the signals of up to 52 bits that stay within it, and the databases of
`Signals` are made of these. Rounding of the quotient is modelled (`RawOf`).
Payloads have up to 8 bytes, for which the table has entries.

`Signals` is the way of a value. `RcvSignal` is `encodeSignal`: it enlarges the
cache of a message that became longer, refuses what does not fit or has a factor
of 0, and sends at once unless the database *as it is now* gives the message a
cycle. `Timeout` is the lambda that `initCacheAndTimers` gave to the timer, with
the message as it was at the start (`dbAtStart`). `wire` is what the device has
between being given a frame and reporting it, and what the bus adds
(`ReceiveForeign`). `DecodeFrame` is `decodeFrame`, which does not ask whether
the simulation runs, followed by the viewer's `addSignal`, which does. `Clear` is
the viewer's button: it removes the rows and tells nobody, so the decoder goes on
leaving out what has not changed. Encoder
and decoder use the same database; `ChangeDb` changes it at any time. `given`,
`unshown`, `steady` and `cleared` (the rows that Clear removed and that no other
followed) are history.

Left out: the viewer's two tables and its direction column; frames of
more than 8 bytes; factors that are no whole numbers; databases of different kinds in encoder and decoder.

### Logger, Player and Trace

`Logger` is every `CanRawLogger` of the project, all with the same name: `files`
is the directory, `StartLoggers` gives each the first free of `name.log`,
`name(1).log` ... of the second it is started in, one after the other (`turn`, any
order of the loggers). A line has a time since the start, a direction and a
frame. Deleting logs, and a file that cannot be opened, are left out.

`Player` is `CanRawPlayerPrivate` and its model: `calls` is the event queue of
its thread, `Timeout` the tick, which sends every frame that is due and advances
`frameNdx`; `Enqueued` is the model's bounded queue, one place per frame and the
rest dropped. `ChangeConfig` is `configChanged`, called from the GUI thread; here
it comes between the handlers of the player's thread and not inside one, which
would be a race on `_frames`. `Loaded` is what the regular expression makes of a
line: lengths of two digits do not match, and an identifier counts as extended
when it is large. `Picked` is the part of a sequence at given places, of which
`Loaded` is one instance and the frames of TX in a log another.

`Trace` composes them around a device that is abstracted to a queue (`bus`): the
player reads a log, its frames go to the device, and what the device reports is
logged. `disturbed` is history: a frame was dropped, failed or left from an
earlier run, so that log and player need not agree.

## 4. What is checked

TLC, exhaustively within the bounds. "States" are distinct states.

| Run | Module | Checks | Bounds |
|---|---|---|---|
| `serial` (429 k states) | MCSerialCan | `TypeOK`, `HangNeedsFault`, `FramedLink` (refinement), `WedgedUntilCleared`, `EverythingArrives` (liveness) | two frames sent, one stretch lost, one Clear, two openings |
| `session` (417 k) | MCSession | `TypeOK`, `ToldWhatWasLoaded`, `TornFileNeedsUser` | two ports, three starts |
| `candevice` (2.52 M) | MCCanDevice | `TypeOK`, `InOrder`, `UpdatesCoverQueue`, `ConnectedOnlyWhileStarted`, `TrueUntilDropped` (action property) | four frames, two in a batch, queue of two, two starts, two changes, one received, one connection; failures and invalid frames allowed |
| `candevice_live` (122 k) | MCCanDevice | `StartedMeansConnected`, `ReportedInTime` (liveness) | no failures, but invalid frames; three frames, two in a batch, queue of two |
| `candevice_budget` | MCCanDevice | `Truthful`, **violated** | Cannelloni with one frame per tick; all frames valid |
| `rawsender` (1.15 M) | MCRawSender | `TypeOK`, `LinesFollow`, `RunsAsSetUp`, `SendsWhatItShows`, `SavedIsRestored`, `SilentWhenStopped` | two lines, one id, one payload, two frames sent, four saved tables |
| `monitor` (360 k) | MCMonitor | `TypeOK`, `AppliedAsShown`, `SavedIsRestored`, `ShowsLatest`, `UniqueShowsLatest`, `ShowsAccepted` (action property) | two frames, two rules, a ring of two rows, three frames shown |
| `filter_policy` | MCMonitor | `DefaultPolicyApplied`, **violated** | two frames, one rule |
| `signaldb` (209 k) | MCSignalDb | `TypeOK`, `InStep`, `WorksWithOne`, `ShownIsSent`, `ShownIsRestored` | two databases, two users of which one is a sender, three files with two messages, one cycle, one initial value |
| `signals` (976 k) | MCSignals | `CacheHoldsGiven`, `RowsAreDecoded`, `GivenIsDecoded` (liveness) | one message, two signals across two bytes, three databases, three values, two frames on the wire |
| `signals_cycle` | MCSignals | `PeriodicIsUpdated` (liveness), **violated** | two databases, one frame on the wire |
| `trace` (588 k) | MCTrace | `TypeOK`, `PlayedIsDue`, `PlayedIsLogged`, `NothingOverwritten` (action property), `PlayedToTheEnd` (liveness) | two loggers, four files of two lines, two seconds, two ticks, queues of one |

**Why the bounds suffice.**
*serial*: a packet boundary is missed by one loss or one Clear, and a second
frame is what shows whether the ends are in step; the tail of `Negative` reads as
a packet of length -2, which ends within its header and is cut, and then as one of
length -33, which ends in front of the array: four bytes of it can be what is left
behind the first. Two openings run the slot twice per chunk. *session*: two
starts relate a save to the load that sees it, the third a torn file to the
start after it. *candevice*: four frames let a batch of two be written, one be
dropped at its end and one be sent meanwhile; two starts with a change of plugin between them are the
shortest way to mix the frames of two connections, and a queue of two fills with
three reports. *rawsender*: lines are independent but for add, remove and
restore, which two lines and a table with a row that inherits, one that is
refused and one that is malformed cover. *monitor*: order matters between two
rules, one matching one frame and one matching both; with a ring of two the third frame
reuses a row, and it may have the id of the first, whose row is gone from the
ring and still is in the other table. *signaldb*: two databases are the least
where one is deleted and another is left; the two files that load share one
message, so settings survive a change of file for one message and not for the
other, and a third file fails. *signals*: the two signals are interleaved in the
same two bytes, one in each byte order, and one is signed; the databases differ
in everything `encodeSignal` asks about a message: its cycle, its initial value,
its length (longer and shorter) and a factor of 0; one of the values does not fit
into its signal. Two frames on the wire let another's come between our own.
*trace*: two loggers compete for one name, four files allow two starts of both,
within one second or two; a queue of one is overrun by a log of two lines with
the same time, and a tick of 0 is a timer that makes no progress.

Deadlock is checked in `rawsender`, `signaldb`, `signals` and `trace`. In the other
runs the system may really stop (bounds used up, the user leaves the program
closed, or the slot never returns); their cfg files say so.

**Fairness.** `SerialCan` assumes that bytes on the wire are delivered while the
port is open, as Qt's event loop does; nobody has to open the port or send.
`EverythingArrives` therefore has the port left open and no fault as its
premise. `CanDevice` assumes that both event loops go on handling what is queued
(`OnDataUpdated`, `HandleEvent`), that the loop in `framesWritten` is not
abandoned, and that the plugin's periodic timer goes on firing (`Tick`). Users
and the bus need never act. Weak fairness is enough: none of these is disabled
by another step except by the stop, or the change of plugin, that the property
excepts. `Signals` assumes that what is queued for the decoder is delivered
(`Delivered`) and that a running `QTimer` goes off again and again (`Timeout`).
The latter is strong fairness: in the code nothing disables a running timer,
whereas in the model the bound on the wire does, each time it is full. `Trace`
assumes that the player's thread handles its events and its timer (`PlayerStarts`,
`PlayerStops`, `PlayerTicks`); the device and the user need not act.

Every property of a passing run has a mutant: a definition of the model changed
the way a bug in the code would change it (the operators commented "a mutant"),
under which TLC finds that property violated.

### Where the code departs from what it says

- **Cannelloni loses a frame and shifts the reports** (`candevice_budget`). At
  its byte limit `timerEvent` has dequeued one frame more than it writes and
  counts, so each later report names the frame before the one it is about. An invalid
  frame does the same below the limit (`CannelloniCanBackend.cpp:154`). As many of the
  last frames as were dropped wait in `_sendQueue` until the next start
  (`ReportedInTime` counts them); `TrueUntilDropped` is the correlation that is kept.
- **The TX default is not applied** (`filter_policy`). `canrawfilterguiimpl.h:54`
  connects the list of TX rules to the RX box. A change of the TX box has no
  effect, not even on what is saved, until another edit of TX or the RX box
  updates the list; `CANdevStudio/README.md:323` says that the default "is
  applied to frames unmatched by any filter".

- **A cycle given to a message while the simulation runs** (`signals_cycle`).
  Timers are made at the start only, while `encodeSignal` asks the database as
  it is now: from then on a value for the message is neither sent at once nor
  with a cycle. `CANdevStudio/README.md:293` says "if signal is a part of
  periodic message its value will be updated in a next cycle".

Behaviour worth knowing that is modelled but is no finding, because it only
contradicts a remark or nothing in the repository:

- *Analyzer.* After one lost byte it receives nothing until Clear, across
  closing and opening (`WedgedUntilCleared`), or takes the tail of a packet for a
  frame: the comment at `SerialCan.cpp:43` lists a check of the CRC, and
  `calPacket` computes none. The mode comes before the type in the
  initialisation packet, other than the comment at `mainwindow.cpp:66` lists
  them. Save changes what devices are told only after a restart
  (`ToldWhatWasLoaded`).
- *Device and sender.* The SerialBus plugin never emits `framesWritten`, so with it
  `_sendQueue` only grows. Toggling Remote of a line does not change the frame
  its timer will send (`SendsWhatItShows` excepts it).
- *Filter.* Down in a table that has rows but no current one ends the program
  (`HandleListDownOfNone`).
- *Databases.* What was removed from a row goes on being sent until the file is
  loaded again, and then is gone (`ShownIsSent` excepts blank rows,
  `ShownIsRestored` does not). A file that could not be loaded is not tried again
  until another one was named. A database that a user adopted by itself is not
  in its property, and a CanSignalSender does not read its property back: after
  loading a project it works with the first database it hears of.
- *Signals.* After Clear the viewer shows no row for a signal until its value
  changes, as the decoder sends it not again (`RowsAreDecoded`). A signal of 64 bits
  is signed whatever its description says, and on x86 loses its negative
  values if it is (`WideRaw`). A message that becomes longer while the simulation runs has its
  cache begun anew, with all values 0. An initial value shorter than the message
  is lost the same way with the first timer or signal. The decoder's cache has
  one value per signal, for frames of both directions.
- *Player.* A burst larger than its queue is dropped without a word. Frames of
  ten bytes and more are not read back from a log, and an extended frame with a
  small identifier comes back as a standard one.

## 5. What is proved

For every value of the constants that meets the ASSUMEs of the modules, checked
by TLAPS.

| Module | Theorem | Statement |
|---|---|---|
| SerialCan_proof | `TypeCorrect` | `Spec => []TypeOK` |
| | `HangHasCause` | `Spec => []HangNeedsFault` |
| | `WedgedStays` | `Spec => WedgedUntilCleared` |
| | `LinkIsChannel` | `Spec => FramedLink`: it implements FrameChannel |
| Session_proof | `TypeCorrect` | `Spec => []TypeOK` |
| | `DevicesToldWhatWasLoaded` | `Spec => []ToldWhatWasLoaded` |
| | `TornFileIsHarmless` | `Spec => []TornFileNeedsUser` |
| CanDevice_proof | `TypeCorrect` | `Spec => []TypeOK` |
| | `UpdatesCover` | `Spec => []UpdatesCoverQueue` |
| | `OnlyWhileStarted` | `Spec => []ConnectedOnlyWhileStarted` |
| | `ConnectedWhenStarted` | `Spec => []StartedMeansConnected` |
| | `ReportsInOrder` | `Spec => []InOrder` |
| | `ReportsAreTrue` | `Spec => TrueUntilDropped` |
| RawSender_proof | `TypeCorrect`, `EveryLineFollows`, `TimersRunAsSetUp`, `TimersSendWhatIsShown`, `TablesAreRestored`, `SilentUnlessStarted` | `Spec =>` each of RawSender's properties |
| Monitor_proof | `TypeCorrect` | `Spec => []TypeOK` |
| | `AppliesWhatItShows` | `Spec => []AppliedAsShown` |
| | `SavedListsAreRestored` | `Spec => []SavedIsRestored` |
| | `ViewShowsLatest` | `Spec => []ShowsLatest` |
| | `UniqueRowsShowLatest` | `Spec => []UniqueShowsLatest` |
| | `OnlyAcceptedShown` | `Spec => ShowsAccepted` |
| SignalDb_proof | `TypeCorrect` | `Spec => []TypeOK` |
| | `CopiesInStep` | `Spec => []InStep` |
| | `DatabaseExists` | `Spec => []WorksWithOne` |
| | `TableIsSent` | `Spec => []ShownIsSent` |
| | `TableIsRestored` | `Spec => []ShownIsRestored` |
| Signals_proof | `TypeCorrect` | `Spec => []TypeOK` |
| | `ViewerShowsDecoded` | `Spec => []RowsAreDecoded` |
| | `CacheIsGiven` | `NoneOverlap` implies `Spec => []CacheHoldsGiven` |
| | `ApartIsGiven` | `Spec => []ApartHoldGiven` |
| | `RawIsWrapped` | up to 63 bits: the raw value read is the one written, modulo the range of the signal's bits |
| | `WideRaw` | 64 bits: it is the one written, or -1 for a negative one of a signed signal if `WideShift` is 1 |
| | `DecodedIsEncoded` | for `ExactSignals`: a value that is given is decoded, modulo that range |
| | `BitsDiffer` | no two bits of a signal share a bit of the payload |
| | `EncodingDisturbsNoOther` | `Spec => [][OthersUndisturbed]_vars` |
| Trace_proof | `TypeCorrect` | `Spec => []TypeOK` |
| | `DueIsPlayed` | `Spec => []PlayedIsDue` |
| | `PlayedReachesLogs` | `Spec => []PlayedIsLogged` |
| | `LogsOnlyGrow` | `Spec => NothingOverwritten` |

**Assumptions.** SerialCan's `FramesAssumption` (a frame is one of the three
commands, four bytes of id of which the first is that of 29 bits, and at most 64
bytes of payload), `BoundsAssumption` (its bounds are natural numbers) and
`XorAssumption` (two bytes make a byte), `ConfigsAssumption` (configurations are within the boxes'
entries, no port has the empty name, `MaxStarts` is a natural number),
`ConstantsAssumption` (the plugins are among the three, the bounds are natural
numbers, a batch holds at least one frame), `SavedAssumption` (saved rows are
rows), RawFilter's `PatternsAssumption` (patterns are sets of frames), RawView's
`RowCountAssumption` (the ring has a row), Monitor's `KeysAssumption` (the
view has a key for every direction and frame), SignalDb's `NodesAssumption`, `FilesAssumption` and `TextsAssumption` (nodes of the
two kinds are different, files contain messages, a cell may be empty),
Signals' `DatabasesAssumption` and `ConstantsAssumption` (databases are made of messages
of up to 8 bytes with signals of `ExactSignals`, none of which need fit; values are
whole numbers a `double` holds), `CodecAssumption` (`WideShift` is 0 or 1), `LoggerAssumption`, `PlayerAssumption` and `TraceAssumption`
(there are finitely many loggers, times and ticks are natural numbers and a tick
may be 0, the queue has a place). The bounds on counters are constants like any other: the theorems hold
however large they are.

Proofs by induction over a natural number rest on `Least` (a set of natural
numbers that is not empty has a least element), which follows from
`NatLessThanWellFounded` and `WFMin` of the library. Each states what it shows as
a set of numbers, since the library's induction theorems take a predicate as
parameter. That the recursive functions exist is a lemma for each of them.

**SerialCan.** `HangNeedsFault` is not inductive: the slot begins to spin in what
the buffer holds. `IInv` adds that without a fault both ends are in step
(`Synced`): the buffer is the front of the packet that is under way, as far as it
has left. The work is in what the loop makes of the buffer and the bytes that
come. `CutDefined` says that `CutPackets` takes one packet off the front if there
is one and else stops, by induction over the number of bytes. `WholePacket`
and `PartialPacket` say what `calPacket` finds in a packet with anything behind
it, and in a part of one: a length byte has no sign as a payload of 64 bytes makes
68. From these follow that packets, one behind the other, are cut into their frames and
leave the rest (`CutsPackets`), and that running the slot again, once for every
connection, finds nothing more (`SlotAgain`). `ReadInStep` puts them together with
the bytes on the wire: what comes out is what has left in full, and
the buffer is in step again. The refinement is then one step of FrameChannel for
each action (`ChannelStep`); for `ReadData` it delivers as many frames as were cut,
and out of step the channel promises nothing, so nothing is to be shown.
`WedgedStays` uses no fault at all: a buffer whose front is complete and is no
packet is left as it is by the slot, and bytes behind it change nothing of the front.

**Session.** Neither property is inductive: what is sent at Connect comes from
`mCanDeviceInfo`, so `Remembered` adds that while the program runs
`mCanDeviceInfo` is what the file held at the start, that a torn file has no
port's name in it, and that after loading one the name stays empty until Apply.
An empty name is no port's name, so Connect cannot succeed.

**CanDevice.** `UpdatesCoverQueue` is inductive with the types, as every item is
queued together with its signal and every signal takes at most one item.
`ReportsInOrder` needs all that frames pass through: `OrderInv` says that
`reported`, `_sendQueue` and the send events in the inbox are each increasing,
that every frame of one is older than every frame of the next, and that none is
newer than the last number given out.
`TrueUntilDropped` needs the correlation the code relies on, and `TruthInv` says it for
each kind of plugin: nothing waits in `_sendQueue` with one that writes at once;
with Cannelloni, as long as nothing was dropped, what waits is still in the plugin, or, while
`framesWritten` loops, has been written and is no more than the loop has to report.
A restart re-establishes it because `startSimulation` clears `_sendQueue`, and so
does a change of plugin while started: hence the property asks about the drops of the
present object only. That a drop breaks it is shown by `candevice_budget`.

**RawSender.** The invariant is per line: `GoodLine` adds to the properties
that a checked button has Loop checked, and strengthens `LineShows` to
`FrameShows`, which says what the frame's data are for both values of Remote and
so survives toggling it twice. One lemma per handler of `NewLineManager` says
that it keeps good lines good; the actions then follow from the lemmas.

**Monitor.** Of the filter, `AppliedAsShown` is inductive with the types. Every
slot that edits a table puts one table in the place of another, makes a row of it
the current one and has the list of that direction made anew (`EditedTable`); only
the two boxes differ. A list is its table and a rule for the rest
(`ListMade`), so that taking it apart and making it again gives the same
(`ListRestored`). Of the view, `Numbered` adds that rows are numbered as frames are
counted, for frames in both tables: from it follows that a row taken from the top of
the full ring is the oldest one (`TableShows`), and that the latest frame of a
key is the one with the largest number (`UniqueShows`). `ShowsAccepted` follows
step by step from the filter's half: among the list's rules that match, the
first is the table's first or, if the table has none, the box's (`FirstDecides`).

**SignalDb.** The invariant has two halves. `Good` is about one CanSignalData
node whose file was loaded: table and messages have the file's messages, a row
that says something is its message, and `_msgSettings` says the same as the rows
(`RowIsSaved`). The last part is in none of the checked properties and is what
makes `ShownIsSent` survive a change of file and what `ShownIsRestored` follows
from. `UserGood` says of one handler that its copies are the databases
(`Content`) and its current one is among them. Every action that changes a
database is an instance of one lemma, `Broadcast`.

**Signals.** `BeTransTwice` says that `beTransTable` is its own inverse on the bits
of a payload, from which `BitsDiffer` follows for big endian; `OthersKept` then
says that writing a signal keeps what another with disjoint bits decodes to, for
every layout, overhanging ones included, as `Fits` keeps them within the payload.
`OthersUndisturbed` is stated in the proof module: no signal that is given changes
another's value in the cache.
`RowsAreDecoded` is inductive: the rows, over those that Clear removed, are the decoder's
cache, and the changed values alone, laid over rows that equal the cache, give the
new cache (`ClearedAndSent`).

`NumberOfBits` says that the bits of a whole number, read from the lowest to the
highest, are the number modulo the range they have: one bit more is the next
remainder (`TwiceMod`), of negative numbers too. `SignExtended` is the same with
a sign. `BitsWritten` says that a signal's bits are those that were written, so that
`RawRead` gives what `rawToSignal` makes of them for every size;
`RawIsWrapped` and `WideRaw` follow for up to 63 and for 64 bits, and
`DecodedIsEncoded` adds the scaling, for the signals of which it is exact. `CacheHoldsGiven` says
nothing of a cache that is shorter than its message and does not relate the
timers' database to the current one: `CacheInv` adds that until it is filled a cache is the
initial one and no value was given (`Untouched`), and that `dbAtStart` is `db`. A
signal that shares a bit with another of its message cannot keep its value. The
code does not ask for that, so it is no assumption: `ApartIsGiven` is about the
signals that share none, for all databases, and `CacheIsGiven` states the property for
databases without overlaps (`NoneOverlap`), as the run's are.

**Trace.** `TraceInv` adds to the properties that the lines of a log, and so the
frames loaded from it, are in the order of their times (`Sorted`): this is what
allows `timeout` to stop at the first frame that is not due. `PlayedSoFar` says
that what was played are the frames before `frameNdx`. `StartAhead` says that a
player which has yet to hear of the start is silent, so the logs of
the new run have nothing of the last one. A file of one's own for each logger
(`OwnFiles`) follows from `FreeNameIsFree`: if every number up to the bound were
taken in a second there would be more files than the bound. `PlayedIsLogged`
compares sequences that are picked from others. `Picked` is defined by counting
places, and its lemmas (`PickedAppend`, `PickedFirst`) say that what is appended is
picked last or not at all.

**Only model-checked.** Liveness (`ReportedInTime`, `EverythingArrives`,
`GivenIsDecoded`, `PlayedToTheEnd`) is beyond the prover, and the properties that
are violated are TLC's: a counterexample is their proof.

## 6. Not modelled

`Console` is created by no file. `SendFrameBox`, `CanLoad` and the tables of
`CanSignalSender` and `CanSignalViewer` are small and planned (section 2). What
`QmlExecutor` does is up to the user's script. Property fields, painting, sorting,
docking, visitors and the loading of plugins keep no state the properties speak
of. Most lines of the repository are vendored libraries (Qt-facing ones such as
nodeeditor, test libraries, code generators, and the CAN database parser): they
are taken as what the code that calls them relies on, and the definitions that
stand for them are marked external in `PROJECT.json`.
