# A TLA+ model of AGCORE

AGCORE (`src/`) is the core of an ESP32 firmware: a data path between a BLE
peer and callbacks of the application, statistics about boots kept in flash, an
asynchronous log, a shell and drivers for displays and LEDs. It runs on
FreeRTOS tasks that share memory. This directory models the parts in which
tasks, events, failures and power cuts interleave, checks them with TLC and
proves the most important results with TLAPS.

Contents: [the system](#the-system), [modules](#modules-and-the-code-they-model),
[runs](#runs), [disagreements](#where-the-code-and-its-documentation-disagree),
[proofs](#proofs), [what is not modelled](#what-is-not-modelled),
[plan](#plan).

## The system

| Part | State | Operations | Interacts with |
|---|---|---|---|
| Receive queue and data task, `pipe/data/agcore_data.c` | queue of `{link, len, buf}`, per link a send lock, a send callback and the protocol state | `agcore_data_push`, `agcore_data_send`, `agcore_data_task`, `agcore_data_queue_init` | called by the transports and by any task; calls the protocol, the route and the link's send callback |
| Protocol, `pipe/data/protocol/agcore_data_protocol.c` | per link `tx_sn`, `rx_sn` and the reassembly state | frame encode and decode, fragment encode, decode and reset, `agcore_data_link_reset` | the sender's task, the data task and the NimBLE host task |
| Route and core commands, `agcore_data_route.c`, `agcore_data_core_cmd.c` | a list of callbacks | register, dispatch, answer | the data task dispatches, any task registers; answers go through `agcore_data_send` |
| BLE pipe, `pipe/transport/ble/agcore_ble_pipe.c` | session counter, reassembly callout, tick of the last fragment | `agcore_ble_rx_data_handle`, `fragment_timeout_cb`, `agcore_ble_notify`, `agcore_ble_pipe_reset` | host task (receive, timeout, reset), senders (notify), data queue |
| BLE stack, GAP, GATT, advertising, `agcore_ble*.c` | connection handle, MTU, ready flag, MTU callout | connect, disconnect, MTU, sync and reset handlers, write callback | the NimBLE host task calls them one at a time |
| Life cycle, `common/lifecycle` | boot statistics in memory and in NVS, boot reason | init, mark stable, save, getters | boot, the stable task, the application, the flash through `common/persist` |
| Log and console, `common/console/log`, `agcore_console_adapter.c` | ring buffer, its notice, output lock | output, output task | every task logs |
| Shell, `agcore_console_shell.c` and letter_shell | the line and its cursor, a key's bytes, the history, the commands' variables | one handler per key, `shellExec`, `shellWriteEndLine` | the shell's task; the log's task redraws the line |
| Display drivers, `driver/display` | `g_runtime`: initialised, rotation, size, callback, test task | init, rotate, back light, test, flush | the application's tasks, the test task, the SPI bus |
| Pixel driver, `driver/pixel` | colours, length, the converted frame | init, `pixel_drv_sendata`, `pixel_drv_set_led_len`, the driver's task | the application, the RMT or the SPI peripheral |
| Persistence, version, utilities, boot strap, platform, tools | none of their own (flash, constants) | | |

Three tasks meet on the data path: the **NimBLE host task** runs all stack
callbacks and the timeout event, one after the other; the **data task** takes
messages from the queue, decodes and dispatches; **any task** may send. The
FreeRTOS timer task moves an expired callout to the host's event queue. Only the
queue and the send lock synchronise them. `session` and the sequence numbers
are atomics; the connection handle and the MTU are plain variables.

What is hard, and what makes each part correct:

- **Receive.** A buffer passes from the reassembly to the queue to the data
  task, with failures at every hand-over: it must have one owner at any time and
  be freed once. A reassembly must belong to one connection and one session, be
  complete before it is queued and be released when the peer falls silent, but
  not sooner; a timeout event may be old, and the clock wraps around.
- **Link as a channel.** Callbacks get whole messages in order, none twice.
- **Send.** One frame at a time per link, in the order of its numbers, in
  fragments that fit the MTU and follow each other, never on a connection the
  send does not belong to; every call returns.
- **Life cycle.** A factory boot is begun after enough unstable boots, whenever
  the power fails and whichever read or write does, and again until the boot is
  stable. It is begun sooner only without a record: on the first boot, and when
  the record could not be read, since the code takes the two for the same.
- **Log.** A line is composed, put and printed undisturbed by other tasks; the
  ring keeps what it accepted in order across its end, tells full from empty,
  and cuts only what does not fit; no line stays for want of a notice.
- **Connection.** The handlers leave the device findable whenever it has no
  connection and the stack did not refuse, and a connection does not stay at
  the smallest MTU untried, though the one callout serves all connections,
  unless the callout could not be armed.
- **Shell.** The console shows the line that is edited, after every key and
  every log; the history is a ring of the last lines, until an argument runs on
  into it; a command gets the words that were typed, and a function what they
  mean.
- **Drivers.** A panel that counts as initialised is, though the initialisation
  failed before; the colours of a flush that no other call overlaps get to their
  place, in every rotation that the configured offsets serve; the strip comes to
  show the last colours though they are written while they are read.
- **Route.** Callbacks are added while the list is walked; a message goes once
  to each callback that was there, in order.

`PROJECT.json` lists the hazards line by line, with the properties that cover
each.

## Modules and the code they model

| Module | Models |
|---|---|
| `Fragment` | `agcore_fragment_reset` and `agcore_fragment_decode` as operators on a reassembly state and a heap |
| `BleReceive` | the receive path: connection handlers, write callback, callout and timeout event, queue and data task |
| `MessageChannel` | abstract: what a link promises to the callbacks |
| `BleChannel` | `BleReceive` with a peer that follows the fragment protocol; implements `MessageChannel` |
| `BleRepeats` | `BleReceive` with a history variable for the repetition check |
| `BleLink` | the NimBLE host task's side of a connection: handlers, advertising, the MTU callout, and its writes to what senders read |
| `BleSend` | the send path: senders under the lock against the host task of `BleLink` |
| `Lifecycle` | boot statistics, flash and power |
| `LogStream` | abstract: what the asynchronous log promises |
| `AsyncLog` | loggers, the ring, the output task, the shell's output and the lock they share; implements `LogStream` |
| `DataRoute` | the list of callbacks and its walk, the start of the data task |
| `ShellArgs` | splitting a line into words and parsing them into arguments (`shellSplit`, `shell_ext.c`) |
| `ShellSyntax` | reference definitions, independent of the code: the words of a line, and what a word plainly means |
| `Shell` | the editor, its keys, history, completion, commands, and the redrawing by the log's task |
| `Display` | the display driver with an ST7735 or an ST7789, step by step |
| `Pixel` | the driver of an LED strip with RMT or with SPI, LED by LED |
| `Drivers` | the two drivers as configured |
| `BleReceive_proofs`, `BleChannel_proofs`, `BleSend_proofs`, `Lifecycle_proofs`, `DataRoute_proofs`, `AsyncLog_proofs`, `Shell_proofs`, `Drivers_proofs` | theorems about the modules they are named after; the second cites the first's |
| `MC...` | instances for TLC |

### Fragment and BleReceive

The heap maps each block to `Free` or to its bytes. A byte is a record of the
kind of data and, as history, of the connection and session that wrote it, or
`Junk` between `malloc` and `memcpy`. A fragment is its decoded header and the
number of bytes behind it; the same operator gives every outcome of the
decoder (`Decoded`) and says when it may reset instead (`DecodeMayFail`), which
includes `malloc` failing for a first fragment.

A handler of the host task is one action, since the host task runs them one at
a time and nothing it shares with the data task is read twice in a handler:
the queue is locked by FreeRTOS, the heap hands out free blocks, `rx_sn` is
only reset. The data task takes one action per access to something shared;
in particular it compares `rx_sn` in `TaskCompare` and stores it in
`TaskStore`. Time is a clock of `ClockModulus` ticks, the callout counts down,
and its event waits in the host's queue for at most `HostLatency` ticks while
further fragments arrive. `ble_npl_callout_stop` does not withdraw an event
that is already queued.

What a message decodes to is a constant (`FrameSn`): its sequence number or
`Invalid`. A buffer that mixes messages may decode to anything, since an
8-bit checksum may fit by chance.

### BleChannel and MessageChannel

The peer numbers its messages, cuts each into consecutive fragments of any
size and may give one up; it does not learn of dropped writes; connections come
and go and the timeout strikes.
`MessageChannel` is a bounded queue that may lose messages and otherwise
delivers them in order. The mapping (`pending`) is the message the data task
holds, followed by those in the queue, a buffer standing for the message whose
fragment completed it; a message that gets into neither was never accepted.
`QueuedIntact` adds that the buffer is that message and nothing else, unless its
first fragment was dropped.

### BleLink and BleSend

The host task runs one handler after the other. The stack has changed the
connection (`up`, `linkMtu`) before it calls one; the handler's writes to
`session`, `conn`, `mtu` and `tx_sn`, which the senders read without a lock,
are kept in `host` in the order of the code and done one by one. Any of the
calls by which `agcore_ble_adv.c` advertises may fail, which is only logged;
`silenced` remembers that, or that a connection failed while it was being made
(`agcore_ble_gap.c:42` returns without advertising again; whether the stack does
is its own business). The MTU callout is armed by a connection and stopped by
the MTU and the disconnect handlers; an event that is queued cannot be stopped.
Arming it may fail, which `agcore_ble_gap.c:61` does not look at; `unarmed`
remembers that the connection then had neither callout nor event.

`agcore_ble_notify` copies session, handle and MTU, then checks the session
before each fragment. Lengths are counted in units of the smallest payload, so
`mtu` is the number of units in a fragment. The stack accepts a fragment for
the open connection or returns an error; `air` is the fragment it took last.
A frame is its number `sn`, an unsigned char, and as history how many resets of
the link and how many frames came before it (`reset`, `nth`); `encoded` counts
the frames. `Follows` says that a frame was encoded after another and, unless
`tx_sn` was reset in between, that their numbers are as far apart, modulo 256,
as they are themselves.

### Lifecycle

`flash` is the record in NVS, or `Blank` for none or an invalid one. A power cut
may come between any two steps. A failed write may have reached the flash or
not, a failed read ends like a missing record, as in the code. `opens`, `kept`,
`factory` and `defaulted` are history: boots since a stable mark got into flash,
those whose record did, whether what flash held made one a factory boot, and
whether one began with the default record. They are what the properties compare
the code's own counters with.

### AsyncLog and LogStream

A logger takes the lock, composes its line in the buffer all share (`logBuf`),
puts it into the ring and gives the lock back; each is a step. The output task
waits for the notice, takes a piece, takes the lock again and writes the piece
in one or more writes, any of which may fail; it waits again only when the ring
has nothing. Indices and flags are those of `elog_async.c`, `Cut` is the rule
for the length of a piece with its special case at the end of the ring, and
`held` is history: how many characters are in the ring by count. What the shell
writes, on its own account or around a log, is one holder of the lock.

`LogStream` is a queue of characters: a log is appended, and cut only when at
least `Capacity` characters are waiting; the front is printed or, when the
console fails, lost. The mapping of `pending` is the piece being written
followed by what the ring holds according to its indices and flags.

### DataRoute

`agcore_data_handler_register` has three steps (a filled node, the link, the
tail), since each of its writes is seen by the data task, which reads the tail,
the head and then one link per callback. Registrations come from the main task
or from inside a callback. `Parts` are what `agcore_data_queue_init` creates,
in its order; each creation may fail, and the call may be repeated. Messages
may be pushed as soon as there is a queue, before there is a task.

### ShellArgs, ShellSyntax and Shell

A character is a string of its own or the name of a control character; `Nul`
is what follows a line. `Split` is the loop of `shellSplit` with its flags,
`ParsePara` tells numbers, characters, variables and strings apart as
`shellExtParsePara` does, `size_t` has `Word` values and a float is a fraction.
A text that ends in a backslash makes `shellExtParseString` step over the zero
behind it and go on in what follows the line, which is the entries of the
history (`shellInit` cuts line and history from one buffer). `RunsOn` says of
the words of a line whether the last of them does that, `Overruns` of the line.
What it leaves (`Leavings`) is any of the rings that the loop can make of the
present one: each entry may stay as it is, be cut off by a zero, or be copied
towards its front with quotes and escapes taken out; one that ends in a
backslash itself hands the loop on to the next and may show what lay behind it
(`Stale`). Which of these it is depends on the bytes between the end of the line
and that of its part of the buffer, old lines that the model does not keep.
`recent` begins anew then, and `overrun` remembers it.
`ShellSyntax` says in other terms what a careful user expects: `Words` parts a
line at the spaces that are neither quoted nor escaped, `Plainly` gives the one
meaning of a word that is plainly a text, a character or a variable, and `Number`
that of a number; a word that is none of these has no meaning and nothing is
claimed of it. `ran` keeps the last command called, with its line, its arguments
and the values the variables had; it exists only for
`ArgumentsRight` and `NumbersRight`.

The handler of a key is computed at once, since only the shell's task changes
what it reads, as the list of its writes to the console and of its changes of
the line, the cursor and `isActive`, in the order of the code; `KeyStep` does
one. The log's task, in `shellWriteEndLine`, reads these between any two of its
own writes. `screen` is the last row of the console as a terminal shows it,
or `Garbled` when the two tasks wrote into one another, which the missing lock
allows, until a new row is begun. `recent` (what was entered), `recalled` and
`ran` (the last command and its arguments) are history.

A session fixes the table of commands, the size of the buffer, the characters
and keys the user has, and how many lines are entered. `shellInit` has run.
`ShellAssumption` asks of the commands and sessions what the code's tables and
buffers give: names and the text typed so far fit the buffer, a command has one
of the five types, the name of a key differs in its first character from that of
anything else, and a line fits the console's row. A key's name is formatted into one
static buffer (`shellGetCommandName`), so two of them are compared as if equal
(`Common`).

### Display, Pixel and Drivers

A call of the display driver is the list of its steps (`InitSteps`,
`RotationSteps`, `TestSteps`), each with its effect on the driver's state and
on the bus, the panel and the pins; a step that can fail may end the call. What
an earlier attempt left (a panel IO on the bus, commands in the panel, the back
light) stays. The panel is what it was told: the commands since its last
reset, its scan direction, the window of the last `CASET` and `RASET`. A flush
is one step per transfer, of the application's task and of the test task.

Where a region is for the panel follows from `MADCTL` and not from the driver:
`MX` mirrors the columns of the controller's memory (`RamWidth`), `MY` its rows
(`RamHeight`), `MV` exchanges which of them the commands count (`Glass`). The
drivers count from the same offsets in every rotation. `OffsetsServe` says
when that is right, and `RegionDrawn` claims it then only.

`Pixel` writes colours LED by LED in the application's task (`memcpy`) while the
driver's task converts them (SPI) or the encoder reads them (RMT); `HalfLut` is
the table of the code, and the LEDs read the bits by their duty cycle.

## Runs

Bounds are named constants of the modules; each `.cfg` gives them. In all runs
the initial state is that of a freshly booted program.

| Run | Shows | Instance and why it is enough |
|---|---|---|
| `ble_receive` | `TypeOK`, `SoleOwner`, `ReassemblyOfConnection`, `QueuedWhole`, `TimeoutGuards`, `NoEarlyRelease`, `ReassemblyEnds`, `QueuedFreed` | 2 blocks for a queue of 1, the data task and a reassembly, so that allocation fails when two are taken; messages of 1 and 3 bytes in two kinds, right and wrong continuations and a fragment too long; 2 handles and 3 sessions for a second connection and for reconnection with the same or another handle; timeout 2, latency 1 and a clock modulo 4, the smallest the arithmetic allows, so that it wraps within a message. The callout may fail to be armed by a write (`ArmMayFail`), which releases the message; it is not allowed to fail when the timeout event arms it again (`RearmMayFail = FALSE`), since the code then releases the message early on purpose and `NoEarlyRelease` would say nothing |
| `ble_channel` | `ImplementsChannel`, `QueuedIntact` | 3 messages of 2 bytes, two with the same sequence number and one with number 0, queue of 1 (full while the data task works), failing callouts, 3 sessions, any write dropped |
| `ble_send` | `TypeOK`, `LateAtMostOne`, `Connectable`, `FragmentsContiguous`, `SubmissionOrder`, `FitsMtu`, `SendReturns`, `MtuTried` | 2 senders and 2 sends, frames of 3 units (two fragments after the MTU exchange, three before), 2 attempts per fragment, 2 connections with the same handle, which is the worst case: with another handle the stack refuses late fragments; 3 resets of the pipe, so that a reset of the stack fits between the connections |
| `lifecycle` | `TypeOK`, `FactoryMeansUnstable`, `UnstableMeansFactory` | threshold 3 and 6 boots: twice the way to a factory boot |
| `async_log` | `TypeOK`, `FlagsAgree`, `OneAtATime`, `ImplementsStream`, `Drains` | 2 loggers, lines of 2 and 3 characters, a ring of 4 and pieces of 2: a line that fits exactly, one that is cut, one that passes the end of the ring, a full ring with indices anywhere, a line that takes two pieces, a piece that holds the end of one line and the start of the next |
| `data_route` | `TypeOK`, `MadeOnceInOrder`, `ListIntact`, `CalledOnceInOrder`, `CalledAsRegistered` | 3 callbacks (a first, an inner and a last one), 4 nodes, 2 links, a queue of 2; nothing else is bounded, and callbacks and nodes are symmetric |
| `shell` | `TypeOK`, `LineShown`, `HistoryFaithful`, `ArgumentsRight`, `NumbersRight` | 14 sessions: three edit lines of 2 and 3 characters, so that every position is reached and a character is refused, one with all keys, one with those of the history and 4 lines for a history of 2 that wraps twice, one with a log at any time; two run commands under logs, with and without an argument; two set variables, one of them signed; five type lines of up to 7 characters of spaces, quotes, backslashes, letters, digits, points and signs, one for a main function and four for functions of at most 3 words; one enters and recalls two lines that may end in a backslash, so that an entry is overwritten and recalled; one completes between two keys. The line fits the console's row |
| `drivers` | `TypeOK`, `Ready`, `RegionDrawn`, `StripSettles` | each panel and each build of the strip; a panel of 1 by 2 with offsets 2 and 1 in a memory of 5 by 4, in whose middle it lies, so that upright, sideways and turned differ and the ST7789's offsets serve all four rotations, the ST7735's the two upright ones; regions that fit it either way, 2 painters and 2 panel IOs (a second attempt); a strip of at most 2 LEDs with a default length of 1, every length including those refused, 2 colours whose halves of bytes all differ. Nothing else is bounded |

Deadlock is checked on the receive path, for the log, the route, the shell and
the drivers. `BleSend` and `Lifecycle` may stop when their bounds are used up
(`MaxSends`, `MaxLinks`, `MaxBoots`), so it is not checked there.

The drivers share nothing but an SPI bus, which may have been initialised by
another one before (`bus`, `spiBus`); so each panel and each strip is checked
alone (`Builds`), and their product would show nothing more.

Fairness:

- `BleReceive`: weak fairness of time, of the timer task, of the timeout event
  in the host task and of the data task. These tasks block only on their own
  queues, and a callback that returns is assumed. Nothing is assumed of the
  peer or of connections.
- `BleChannel`: weak fairness of the data task only, which is all that
  `MessageChannel` needs to deliver or lose what it accepted.
- `BleSend`: weak fairness of the host task's running handlers, of the expiry of
  the callout and of its event, which wait for nobody, and of each sender. Mutex grants need no more, because
  the calls in a behaviour are bounded: nobody takes the lock for ever.
- `AsyncLog`: weak fairness of the output task and of whoever holds the lock,
  until it is given back. `Drains` is about behaviours in which the tasks stop
  logging at some time; while they log without end the mutex may pass the
  output task by.
- `Drivers`: weak fairness of the strip's task, which waits for its own
  transfers only. `StripSettles` is about behaviours in which the application
  leaves the colours and the length alone from some time on.

## Where the code and its documentation disagree

Each has a run that TLC refutes; the counterexamples are short.

- `ble_channel_dropped`: a write for which the GATT callback finds no memory
  (`agcore_ble_gatt.c:57`) is dropped before the reassembly sees it. The rest of
  the message and a later one of the same length can then be joined. The
  checksum is the only thing that keeps the mixture from the callbacks, which
  `README.md:120` of the repository does not say.
- `ble_repeats_stale`: the data task stores `rx_sn` of an old session after the
  link was reset; the first frame of the new connection may then be dropped as a
  repetition (`agcore_data_protocol.c:173`).
- `ble_send_crossing`: a fragment that passed the session check goes out on the
  next connection when that has the same handle (`agcore_ble_pipe.c:145-151`).
  `LateAtMostOne` shows that it is never more than one fragment.
- `lifecycle_total`: a failed read is taken for a missing record, the good
  record is overwritten and the cumulative count begins again; the branch for a
  failed read is never reached (`agcore_lifecycle.c:116-122`). The same read
  makes the boot a factory boot at once (`agcore_lifecycle.c:193`), which
  `FactoryMeansUnstable` names as its exception.

Met while modelling, and excluded from a property by name instead of having a
run of their own:

- A log of no characters clears `buf_is_empty` (`elog_async.c:179`); with equal
  indices the empty ring then counts as full and drops the next logs.
  `LogsAssumption` of `AsyncLog` names the exclusion: every log has at least one
  character, as `elog_output` always adds a newline; `elog_raw_output` may be
  called with none.
- `shellDeleteCommandLine` counts in an unsigned char (`shell.c:791`), so of a
  line of 256 characters `shellClearCommandLine` clears nothing, and of a longer
  one 256 too few, when a line is recalled or completed. With the default buffer
  of 512 bytes, a sixth of which is the line's, there is no such line; with one
  of 1542 and more, which `Kconfig:25` allows, there is. `LineRight` is proved
  for lines of at most 255 characters (`ShortLines`).
- The ST7735's flush does not exchange the offsets when the panel lies on its
  side (`display_st7735.c:194`), as the ST7789's does: `RegionDrawn` asks for
  equal offsets there. Both drivers count from the offsets of one end of an axis
  when the rotation mirrors it (`display_st7735.c:110`, `display_st7789.c:102`),
  which is right only if the glass lies in the middle of the controller's
  memory along that axis. 170 by 320 at 35 and 0 in the ST7789's 240 by 320 does.
  The ST7735's default, 128 by 128 at 2 and 1, does not in a memory of 132 by 162,
  and its initialisation already rotates by 180 degrees; it is right if the
  offsets are meant for that rotation, and wrong then for the others. In a memory
  that is not symmetric TLC refutes `RegionDrawn` without `OffsetsServe`.
  The test tasks flush the upright size, and every one of their flushes is
  refused on a panel that lies on its side.
- The RMT encoder sends red, green, blue as they are stored
  (`pixel_driver.c:79`), the SPI driver green first, as the LEDs expect:
  `StripSettles` is stated with the exchange for RMT.
- The SPI strip refuses a bus that is initialised already
  (`pixel_driver.c:295`), so after a first attempt that failed later it is never
  initialised. The display drivers accept such a bus.
- A character that is refused inside the line leaves the console's cursor at
  the end (`shell.c:826`), and a redraw that meets a key's handler may write
  into its text (`agcore_console_shell.c:44`): `LineShown` excludes both until
  a new row is begun.
- A string argument that ends in a backslash makes `shellExtParseString` read
  and write on behind the line (`shell_ext.c:230`), as far as the entries of the
  history if the line is full: the up key then recalls a line that was never
  entered. `HistoryFaithful` speaks of the lines entered since.

## Proofs

Every theorem holds for all values of the constants that satisfy the named
assumptions of the modules; each is checked by TLAPS to the last step.

`BleReceive_proofs`. The theorems `TypeCorrect`, `BuffersOwned`,
`ReassemblySeparate` and `OnlyWholeMessages` rest on one inductive invariant,
`BufferInv`: the four properties and `TaskHolds` (the data task has an item
exactly when it does not wait). None is inductive alone: that a completed
buffer is whole needs that the prefix was written by the present session, which
needs that nobody else writes into the buffer, which is `SoleOwner`. The proof
follows the handlers. `DecodedKept` says what every outcome of the decoder is;
then one lemma per way a buffer may change hands (`ReleasedBuffers`,
`KeptBuffers`, `EnqueuedBuffers`, `DroppedBuffers`, `ReceivedBuffers`,
`TaskFreedBuffers`) shows the invariant of buffers, and the actions cite these.

`TimeoutArmed` and `TimeoutNotEarly` rest on `Window`, which relates the clock,
the tick of the last fragment, the callout and the event: as long as a message
is in reassembly the unsigned difference of the two readings is the true
elapsed time, which needs that the clock's modulus exceeds the timeout and the
host's latency.

`BleChannel_proofs`. `ChannelInv` adds to `BufferInv` how far the peer is
(`PeerInv`), that what is in reassembly is of the peer's present message once
its first fragment arrived (`PrefixInv`), and that what was handed over or waits
was completed before it, in order (`OrderInv`). `MessagesIntact` follows: when
the last byte arrives, `PrefixInv` says what the bytes before it are, and
`Extends` that the decoder only wrote behind them. `ChannelImplemented` is the
refinement of `MessageChannel` without its fairness: the peer's steps enqueue at
the end or change nothing (`PeerImplements`), the data task's take from the
front (`DataTaskImplements`).

`BleSend_proofs`. One invariant, `SendInv`. Of the host task (`LinkInv`) it says
what is left of the running handler and what the variables the senders read
hold meanwhile; that `mtu` is never more than the connection's follows, and
`DeviceFindable`. Of a sender it says who has the lock, that its copies are not
newer than what they were copied from (`Copies`), that a late fragment means a
session that changed behind the last check (`Late`), that while
it has sent on this connection the last fragment on the air is its own
(`Continued`), and that its frame's number is as
far behind `tx_sn`, modulo 256, as it is behind in fact (`Numbered`, `Ordered`).
`LateBounded`, `FragmentsInPlace`, `FramesInOrder` and `WithinMtu` follow.

`Lifecycle_proofs`. `FactoryEarned` and `FactoryReached` rest on
`LifecycleInv`: the streaks in memory and in flash are at most the boots since
the last stable mark (`Earned`) and at least those whose record got into flash
(`Reached`), unless the reason already is a factory one. That a factory boot is
followed by others needs `Begun` too: what flash holds after one leads to another. `TypeCorrect`
is part of the same invariant.

`DataRoute_proofs`. `RouteInv` has three parts: the parts made are the first in
order (`StartInv`); the pointers form the list that was built, but for the one
write that separates linking a node from making it the tail (`ListInv`); and the
walk has called the first nodes of the list, and stops at the node that was the
tail when it began (`WalkInv`). That callbacks are called as registered needs
all of it, since the walk follows pointers that are written meanwhile.
`LinksAssumption` names the parts apart, as the code's array of links does.

`AsyncLog_proofs`. `RingInv` ties indices and flags to the number of characters
held, `LockInv` says where a task is only if it holds the lock, `ContentInv`
what the buffers hold. `FlagsSound` and `Exclusive` follow.
`StreamImplemented` is the whole refinement of `LogStream`, which has no
fairness: `pending` is split into what is being written and what the ring holds
(`Pending`), a put makes it longer by the log or by what fits, and taking a
piece moves its front (`LineSplits`). It assumes that no log is empty
(`LogsAssumption`): with an empty one the theorem is false, and so is the code
(see above).

`Shell_proofs`. All its theorems rest on `ShellInv`. Its first part is what a
handler may be in the middle of: `todo` is a `Program`, a sequence of writes, of
flags, and of lines that fit the buffer with the cursor in them. For each key
there is a lemma that its handler is one (`Inserting`, `DeletingBefore`,
`Completing`, `Executing` ...); that of completion needs that what several names
have in common is a part of the last one (`MaxMatchBounds`), and that of the up
and down keys that what the ring holds fits. `TypeCorrect` follows. The second
part, `Ring`, ties the ring to `recent` for any size: until it is full its next
free entry is the number of entries, and `RingAdds` shows that a line which is
entered moves every entry back by one and drops only the oldest, or, if an
argument runs on, begins `recent` anew (`RingOverrun`); whatever that leaves of
the entries fits theirs (`LeavingsFit`). `HistoryRight` adds `Coming`: while a
recalled line is still being written, every change of the line left in `todo`
makes it the entry that `offset` stands for.

`LineRight` adds what a handler makes of the row. A `Trace` of a handler is what
the console, the line, the cursor and the flag may be after each of its steps,
when the log's task may garble the row at any of them, and write whatever it
likes while a command is active (`Steps`). `Leads(p, D, E)` says that every trace
of `p` from one of `D` ends in one of `E`; it composes (`InTurn`), so that a
handler is taken to pieces that are done once: spelling a text (`Spelled`),
erasing columns (`Erased`), going back (`GoneBack`), clearing the line
(`LineCleared`), writing the prompt (`Prompted`). Each handler then `Brings` the
row of the line it began with to the row of the line it leaves (`ByteShown`,
`DeletedAt`, `DeletedBefore`, `Moved`, `Completed`, `RecalledShown`, `Executed`),
or to a garbled one. The invariant, `RowInv`, says that every trace of what is
left in `todo` ends so (`AllGood`), from a garbled row if the log's task is at
work, and between two keys that the row is what that task's place asks for
(`LogShown`). A step of a handler shortens the traces (`StillGood`), and one of
the log's task allows no new ones (`NoBetter`). `ShortLines`, the hypothesis, is
that no line is longer than 255 characters: the default configuration satisfies
it, and why it is needed is told under the disagreements. `ShellArgs` has no
part in this theorem: what a command is called with makes no difference to the
row.

`CommandsGetTheirArguments` is about `ShellArgs`, for every line, any number of
words (`ParamMax`) and any table of commands.
`SplitRight` says that the words `shellSplit` finds are those of `ShellSyntax`,
`Split(l) = Words(l)`. The invariant of its loop, `SplitInv`, tells the flags
after `i` characters, the starts and the ends by definitions without a loop: an
escape is an odd number of backslashes before a character and a quotation an odd
number of quotes (`FlagsAt`, kept by `BackslashesCounted` and `QuotesNext`); the
starts are the places in `Begins` up to `i`, in order, as many as there is room
for (`StartsRight`); and the end of each word is the first place behind its start
that parts, if one was passed (`EndsRight`). Every character ends a word, begins
one or does neither (`CharacterSplits`), and each of the three keeps the
invariant. The loop is a recursive function: that there is one (`LoopEnds`,
`StringEnds`), and that the invariant holds after every character
(`SplitInvHolds`), is shown by induction over a set of numbers (`UpTo`), which
needs no operator as a parameter. The loop of `shellExtParseString` is reasoned
about in the same way, from the end of the string (`StringTaken`); for a text
without quotes and escapes, and for a quoted one, it gives the text
(`StringIsWord`, `StringIsWithin`), and with that `PlainlyParsed` says of each
kind of word but numbers that its argument is what it plainly means. `RanInv`,
which is inductive with `ShellInv`, says of the last command called that it has
the name of the first word of its line and was called with what
`shellRemoveParamQuotes` or `shellExtRun` made of the words.

`Drivers_proofs`. `StageInv` lists the places a call can be at, with what holds
there: which commands the panel got so far (`AtCommand`), whether the bus and
the callback are set (`Connected`), what of `g_runtime` follows the panel
already (`Rotating`). `PanelReady` is its case of no call. The lists of steps
are concatenations, and `InitOrder`, `CommandOrder` and `RotationOrder` show
that they are the nested form the invariant counts in. `AloneInv` says of a
flush that nothing overlaps what it has loaded and sent so far; with `StageInv`,
and `OffsetsServe` for where the glass is as the panel counts, it gives
`RegionsDrawn`. Neither needs a lock, as the code has none: a flush
that is overlapped is not `alone`. `TypeCorrect` also says that no LED behind
the end of the strip is copied, converted or sent (`PixelInv`).

Only model-checked:

- liveness (`ReassemblyEnds`, `QueuedFreed`, `SendReturns`, `MtuTried`,
  `Drains`, `StripSettles`) and the fairness part of `ImplementsChannel`, which
  need `ENABLED`;
- `NumbersRight`: the weight of a digit in a number is a power of its radix, and
  the meaning of the number their sum over its places, a fold that takes an
  operator as its parameter. `ArgumentsRight` leaves numbers to it.

## What is not modelled

- The layout of frames and the checksum: a message decodes to its number or not.
- The content of advertisements, version numbers, device information.
- `agcore_ble_pipe_init` has run when a behaviour begins, and so has
  `agcore_data_queue_init` outside `DataRoute`, and `agcore_log_init`.
- Two registrations of callbacks at once, which `agcore_data_route.h:9` rules
  out, and writes of one task seen out of order by another core.
- The log's filters and fields, and its modes, which nothing in `src/` switches
  after the start.
- One link: the other values of `agcore_link` have no transport in this
  repository.
- 32-bit overflow of boot counters and of the session counter, which would take
  more events than the device sees.
- Of letter_shell: the password, permissions, function signatures and array
  parameters, which the configuration turns off; `shellRun`, `shellPrint`,
  `shellScan` and companions, which nothing calls; the wording of lists.
- EasyLogger's plugins and buffered output, which are not built; the boot strap
  is prebuilt archives.
- In the shell, the bytes between the end of a line and that of its part of the
  buffer, which are taken to be anything, and the memory behind the last entry of
  the history, which an argument that runs on may reach if every entry ends in a
  backslash too. An entry of which nothing is left is not recalled: its length
  would be zero with the cursor left where it was (`Holds`). Variables of strings
  and nodes.
- The parameters of the panels' commands but `MADCTL`, and the colours of a flush.
- A second call of `pixel_driver_init` with RMT, which nothing in the code
  prevents or calls for, and which would ask for a second channel and task:
  the application is taken to call it once (`StartRmt`). With SPI any number of
  calls is modelled.

## Plan

1. Done: `Fragment`, `BleReceive`, `BleChannel`, `BleRepeats`, `BleLink`,
   `BleSend`, `Lifecycle`, `AsyncLog`, `DataRoute`, `Shell`, `Display`, `Pixel`,
   and the proofs about all of them but `BleRepeats`, whose one property the
   code violates.
2. `BleRequest`: `BleReceive` and `BleSend` composed by a core command that
   answers.
3. The frame layout: search for the header, length and checksum as pure
   operators with encode and decode as inverses.
