# libadb in TLA+

A TLA+ model of libadb, an ADB host library: its connections (flow control,
concurrent readers and writers, channels that either side opens), what has to
happen before there is one (keys, pairing, the handshake), what carries it
(framing, TLS, USB), the service clients on top of it, and the C interface.
Everything is model-checked with TLC on small instances; the flow control of
both directions, device-initiated channels, the key store, pairing and the
handshake are also proved with TLAPS, for every configuration. Paths below are
relative to the repository; `split/x.rs` and `base/x.rs` stand for
`libadb/src/split/x.rs` and `libadb/src/base/x.rs`.

## The system

A connection multiplexes channels over one stream of packets (OPEN, OKAY, WRTE,
CLSE). It is driven by a single task, or *split* into a `Reader` that receives
and dispatches and cheap `Writer` clones used from any task. Its parts, with the
state each keeps:

| Part | State | Operations | Talks to |
| --- | --- | --- | --- |
| Channel slot (`base/slot.rs`, `base/connection/config.rs`) | ids, open/closed, receive buffer, bytes owed an OKAY, bytes set aside for a read, send budget or token | deliver, settle, take, reserve, refund, close, fail | whoever holds the table's lock |
| Send queue (`base/send_queue.rs`) | head and tail tickets, holes, writers sending | enqueue, serve, finish, leave | `Writer::write_channel`, the guards |
| Channel table (`base/channel_table.rs`) | slots by id, next id | allocate, free, dispatch of a packet, close by remote id | both connections |
| Shared state (`split/shared.rs`) | write half and its lock, table, debts (`owed`), device OPENs (`incoming`, `staged`), `desync`, `stopped`, signals | lock_write, owe, pay, take_buffered, queue_or_refuse, withdraw_open, stop | all of the split connection |
| Reader (`split/reader.rs`) | the read half | run, read_channel, dispatch_one, accept_incoming, open_channel | transport, table, signals |
| Writer (`split/writer.rs`) | a handle | read_channel, write_channel, close_channel, open_channel, waits_for_credit, listen_incoming | write half, table, send queue |
| Device-initiated channels (`split/accept.rs`, `base/connection/accept.rs`) | pending, cancelled, reserved slot | accept, reject, drop | table, write half |
| Single-task connection (`base/connection.rs`) | all of it under `&mut self` | the same operations, one at a time | transport |
| Wire (`base/wire.rs`, `base/protocol/packet.rs`) | partial packet, desync flag | send_raw, send_okay_to, recv_pkt_or | transport |
| Handshake (`base/connection/handshake.rs`, `tls.rs`) | the round, keys tried, negotiated terms | CNXN, AUTH, STLS | transport, keys |
| Key store (`keys/store.rs`) | two files in a directory | load, load_or_generate | file system, other processes |
| Pairing (`libadb/src/pairing/`) | one SPAKE2 exchange inside TLS | pair | a device's pairing server |
| TLS and transports (`libadb/src/transport/`) | sockets, USB endpoints, one rustls session for two halves | read, write, split, scan | operating system |
| Service clients (`shell/`, `logcat.rs`, `sync.rs`, `reverse.rs`, `track_app.rs`, …) | a caller's buffer with cursors, a decoder's state | parse, encode, collect, close | one channel each |
| C interface (`libadb-ffi/src`) | reader mutex, staged request, per-shell locks, last error | the blocking calls | split connection |

**What is hard here.** Any future may be dropped at any `await`, including in
the middle of a packet, which leaves the stream out of step (`desync`). The
table's lock is never held across an `await`, so every operation of a channel
is a sequence of short critical sections with others in between. Reads send
OKAYs, so a read may wait for the write half, whose holder may be stalled.
Wakeups go through `event_listener` signals that are raised after the lock is
released. Credit moves between device, slot, writers' hands and the wire, and
may not be lost or doubled by any of this. A request of the device can be
withdrawn while it is queued, handed out, being accepted, or being refused.
In the single-task connection the call that happens to wait receives for every
channel. Decoders work in buffers the caller chose, smaller than a message if
he likes. C threads have no task in the background: one of them receives for
all. Two processes may make a key in one directory, and crash.

**What makes each part correct.** Slot and receive flow: a conforming device
never trips the receive cap, no device makes the buffer outgrow it, every byte
is acknowledged once, nobody waits for good. Send flow: the device's window is
respected, credit is conserved, writers are served in order, and all of them
learn of the end. Device-initiated channels: one verdict per OPEN, none lost,
no slot leaked, a bounded number pending, and a withdrawn one stays withdrawn.
Open, close and end: no slot leaked, an answer that comes late never meets a
later channel, the device is told of every channel the host gave up, and every
open and close returns. The single-task connection: the same, and no call loses
what it received for another. Wire: packets come out whole however the bytes
and the calls are cut. Keys: one identity, whole, and never overwritten.
Pairing and handshake: only with the same code, nothing in the clear after
STLS, terms both sides can keep. TLS and USB: nothing lost or repeated between
two halves, the right device, none left open. Services: what the device sent,
exactly, through any buffer. C interface: no thread waits for what only it
could read, and a status means what the header says.

## Modules

| Module | Models |
| --- | --- |
| `ChannelSlot` | `base/slot.rs`, limits of `ConnectionConfig`: operators on a slot record; payload bytes are counted |
| `RxFlow` | the receive side of one open channel of a split connection: device, `Reader::run`, tasks in `Writer::read_channel`, the write half, debts |
| `SendQueue`, `FifoCredit` | `base/send_queue.rs` as operators, and what `write_channel` promises about order (abstract specification) |
| `SendFlow` | the send side of one open channel: tasks in `write_channel`, guards, the reader's READYs, close |
| `IncomingOpens` | device-initiated channels of a split connection |
| `ChannelLife` | the channel table, host-initiated opens, closes and the end of a split connection |
| `Connection` | the single-task connection, all of its calls and its `Incoming` |
| `KeyStore`, `Pairing`, `Handshake` | `keys/store.rs`; `pairing/client.rs`; `base/connection/handshake.rs` and `tls.rs` |
| `WireRecv`, `WireSend` | receiving and sending packets in `base/wire.rs`, over sockets and USB transfers |
| `TlsStream`, `UsbScan` | `transport/tls`; `transport/any.rs`, `usb.rs`, `rusb.rs`, `nusb.rs`. `Transports` composes these four, `Setup` all that a connection is made from |
| `ServiceStream` | what all service clients have: a channel, a stream of messages, `RecvBuf` |
| `ShellV2`, `Logcat`, `SyncSession`, `OneShot` | the clients of shell protocol v2, logcat, sync; the calls that read a channel to its end and the app tracker |
| `WireFormats`, `TextFormats`, `Formats` | decoders and writers of records and texts, the limits a configuration is built with, and what they should be. `Services` composes clients and formats |
| `FfiCalls`, `FfiArgs` | `libadb-ffi`: the locks and blocking calls of a connection; the checks of the entry points and what a failed one has done |
| `IncomingQueue`, `Sums` | `base/incoming.rs` as operators on a sequence, for both connections; sums of credit |
| `RxFlowProofs`, `SendFlowProofs`, `IncomingOpensProofs`, `ChannelLifeProofs` | theorems about `RxFlow`, `SendFlow`, `IncomingOpens` and `ChannelLife` |
| `ConnectionProofs`, `ConnectionDataProofs` | theorems about `Connection`: its channels, and the data and credit on them |
| `SequenceLemmas` | what these need of sequences and sums |
| `SetupProofs` | theorems about `KeyStore`, `Pairing`, `Handshake` and `UsbScan`, in `Setup` |
| `MC…` | instances for TLC: scenarios, model values and their symmetry |

`RxFlow`, `SendFlow`, `IncomingOpens`, `ChannelLife` and `Connection` extend
`ChannelSlot`. The first four each compose the processes of one concern of a
split connection. The concerns share only the write half, the table's lock and
the flags `desync` and `stopped`; each module therefore has an `other` that
takes the write half, pays debts and may abandon a packet, which stands for
every task of the other concerns. `Setup` and `Services` hold parts that follow
one another or never meet: a behaviour of theirs is one of the parts at work,
except that in `Setup` a pairing is followed by a connection to the device it was
with.

### How the modules correspond to the code

*Atomicity.* A step is what the code does between two points where another task
can run: one critical section of the table's lock, or one wait. Where the code
unlocks and then wakes, the wake is a step of its own (`ReaderWake`,
`RefundWakes`, `CloseWakes`), so that lost wakeups can be seen. Dropping a future is an
action of its own at each wait (`DropRead`, `DropWrite`, `DropIncoming`,
`SendDropped`, …), and what the code's `Drop` implementations do follows as steps.

*`RxFlow`.* Bytes are positions in the device's stream: a WRTE in flight is the
position it ends at, an OKAY the number acknowledged so far. `slot` is the
record of `ChannelSlot`; `task[t]` walks through `select_channel`,
`take_buffered` and `acknowledge_take`: look (`take`), listen, look again,
`park`, or wait for the write half (`lock`), set bytes aside and send the OKAY
(`send`), then take. `reader` is `Reader::run`: `recv`, the channel's failure
in `fail_channel`, the wake, the debt recorded (`owe`) and paid (`pay`).
`acked`, `arrived`, `got` and `taken` are history counters. The device is
external; a conforming one keeps to its credit or to one WRTE per OKAY,
another writes at will.

*`SendFlow`.* `writer[w]` walks through `write_channel` and `acquire_credit`:
take a ticket, listen, `try_reserve`, park or go on, take the write half, send
the chunk, and the drops of `QueueGuard` and `CreditGuard`. A write larger than
a chunk loops back to the queue. `freed` is `close_channel` taking the slot
away. A WRTE in flight is its length, a READY its credit.

*`IncomingOpens`.* A request is the id the device chose. `queue` is
`Shared::incoming`, `incoming[r]` the SplitIncoming of a request with its entry
in `staged`. `reader.call` says which call drives reception; a refusal made by
the reader is a SplitIncoming of its own, which the code also stages. Accepting
reserves a slot, then waits for the write half, then answers; every exit runs
`Drop`, which frees the slot, then unstages and may put the request back.

*`ChannelLife`.* A call is one use of a channel, opened at most once and closed
at most once; its number is the id the device gives its end, so that a handle
bound to the wrong end can be told. `table` and `next_local_id` are
`ChannelTable`. `call[c]` walks through `send_open`, `await_open_ack`, `guard`
(the drop of an armed `SlotGuard`), and `close_channel_via`. `reader` is the
Reader under run, under `dispatch_one` or in its own `open_channel`.
`end_stream` and the three stores of `stop` are steps of their own. A
scenario's `race` is `read_cancel_safe`: over a transport whose reads may not be
dropped (the USB ones) a debt does not interrupt a read that has begun. What the
host writes is with the device at once; what the device sends takes its time,
which is enough for answers to cross.

*`Connection`.* There is one `call` at a time; `call.pc` is `top` of its loop,
`recv` or `send`, the awaits at which it may be dropped. `table`, `stored` and
`handles` are the slots with their bytes and the `ChannelId`s handed out,
`queue` and `incoming` the device's OPENs waiting and the one `Incoming` out.
`Receive` is recv, the dispatch of the packet to whatever channel it belongs to
and what the call does next; `Send` completes a frame, `SendFails` and
`SendDropped` do not, and set `desync`. The code may be in the middle of the
frame there or in the flush behind it, so that the device gets nothing it can act
on, or all of the frame (`Abandoned`).

*`KeyStore`.* Every file operation of `load_or_generate` is a step: open and
read `adbkey`, make a temporary file (its name from the process id and a
counter), write it, link or rename it into place, unlink it, load what won, and
publish `adbkey.pub`. `names` and `files` are apart, as a linked file has two
names. A crash stops a caller between any two steps; its process id may be used
again. *`Pairing`* and *`Handshake`* are exchanges of messages with a server that
answers as adbd does, or, `MaxPairFault` and `MaxOdd` times, does not. The key
of the host may have a name too long for a PeerInfo (`long`), which ends a pairing
half way. SPAKE2,
AES-GCM, signatures and the TLS handshake are external, by what they promise.
Stale packets precede the device's answers; `Came` may bring bytes behind a
packet, which is what the check before the switch to TLS is about.

*`WireRecv`, `WireSend`.* A byte is its position in the stream, or its packet and
offset. `recv_pkt_or` stages a read behind the bytes it holds; the transports
differ in whether a dropped read loses what it got. A packet goes out as header,
payload and flush; USB cuts it into transfers and ends one on a packet boundary
with an empty one. *`TlsStream`.* `tls` is `MaybeTls` with an external engine; the
read and the write half walk through lock, fill, feed, drain. *`UsbScan`.* A
device on the bus is what asking it gives; `usb` is the scan and what it holds
open.

*`ServiceStream` and its clients.* The device's stream is a sequence of messages
with sizes; `at` is how much of it has arrived, in reads of any length; `buf`,
`head`, `tail` the caller's buffer, whose cells hold stream positions. `cl` is
the client: where in its call it is, what it has handed out. Headers, prefixes
and records keep their relative sizes but are a few bytes long.
*`Formats`.* An input is grown symbol by symbol; every prefix of it is parsed by
the operators of `WireFormats` and `TextFormats`, translated from the code, and
compared with a definition of what it should give. The limits of
a configuration are those of the code: it is a preset and a sequence of
setters, its limits those of `ChannelSlot` at the values it ends with.

*`FfiCalls`.* `th[t]` is a C thread in `block_on_read` or `block_on_write`:
waiting for the read lock, holding it and receiving for all (`recv`, then
dispatch), sleeping until its waker is told, with or without a timeout. A tick
polls the future where it stands: a listener that was not notified is pending
still (`waker[t].on`), and only a notified one looks again. Before each receive,
and for each WRTE it dispatched, the thread that reads pays what is owed, and for
that waits for the write half in line with the others (`handle.owed`, `line`,
`next`). `sh` is a shell's parse state and its locks, `handle` the connection and
its staged request. *`FfiArgs`.* An entry point is a list of steps: checks with
the status they return, effects, and `adb_shell_open`'s undo, which closes the
channel it opened and ignores that it may not be able to (`synced`).

Operators named "Faulty form" next to a definition are variants of it with a
plausible mistake, used to see that the properties notice.

## Runs

| Run | Module | Properties | What it shows |
| --- | --- | --- | --- |
| `RxSafe` | `MCRxFlow` | `TypeOK FlowInv NoOverflow HeldWithinCap AcksExact NoLostWakeup NothingAfterGap` | a conforming device never trips the cap and any other is held to it, with nothing handed on behind the hole; each byte is acknowledged once; no parked reader misses data or the end |
| `RxEnds` | `MCRxFlow` | `StaysReadable AllRead` | buffered data stays readable after a failure even if the write half is never released; with a moving transport all data is read |
| `Send` | `MCSendFlow` | `CreditExact TurnsExact GrantedInOrder` | credit is neither lost nor spent twice through drops, refunds and failures, no writer sleeps through its turn, and tickets with holes and a reused tail implement `FifoCredit` |
| `SendEnds` | `MCSendFlow` | `ClosedUnblocks EveryWriteEnds` | close and end release parked writers; with an answering device each write returns |
| `Open` | `MCIncomingOpens` | `OneVerdict NoLostIncoming PendingExact EveryOpenAnswered` | each OPEN is answered at most once and kept until it is, no slot leaks, the listener is told; while nothing is dropped, pending OPENs are bounded, withdrawals stick and every OPEN is answered |
| `Life` | `MCChannelLife` | `SlotsExact IdsExact ClosesEnd CallsEnd` | however an open ends, its slot comes back and the device hears of it; late answers never meet a later channel; opens and closes return |
| `Connection` | `MCConnection` | `DataExact ChannelsExact ConnCallsEnd` | whichever call receives, and wherever it is dropped, bytes and credit of every channel stay exact, neither side forgets a channel or a request alone, and calls return |
| `Setup` | `Setup` | `KeysSafe DeviceKnown KeyUntouched WireSafe TlsSafe UsbSafe CallsReturn` | racing and crashing callers agree on one key and never touch an existing one; pairing only with the same code; nothing plain after STLS, stale packets skipped, terms both sides keep; packets, records and transfers stay whole through partial and dropped reads and writes; both TLS halves learn of a failure; the scan finds the device or tells the first error that hid one, and leaves none open; all of it returns |
| `Services` | `Services` | `BuffersSafe MessagesExact FormatsExact CallsEnd` | clients hand out exactly what the device sent through buffers smaller than a message, and give their channel back; parsers and writers agree with their grammars on every input up to a length; whatever limits are asked for leave room for a full packet |
| `Ffi` | `MCFfi` | `CallsSafe StatusMeansIt FfiCallsEnd` | C threads sleep only for what they need, keep frames whole, answer each request once and all return; a call refused for its arguments did nothing, and one that failed on a connection in step left no channel open |
| `FfiArrived` | `MCFfi` | `ArrivedComesFirst` | violated, see below |
| `TlsSticks` | `Transports` | `FailureSticks` | violated, see below |

Most of these properties are conjunctions of named parts, each with its own
comment in the module.

### Bounds

*Receive runs.* A packet of at most 2 bytes and a cap of 2 or 3: the buffer can
stand below, at and above the watermark, reach the cap exactly, and leave no
room for a second packet. A stream of 4 bytes fills the buffer and goes on after
a read. Two tasks are the least with a race for settled bytes, and two packets
in flight the least with one behind another. `RxSafe` has partial reads and both
kinds of device; the faults left out of one of the two runs are in the other,
and the proofs cover all of them.

*Send runs.* Two writers of 3 bytes each against a window of 2 and a chunk of 2:
a write takes several chunks, loops back behind the other, and can leave credit
for the next. Three writers are the least with a hole in the middle of the
queue. `Crowds` and `Endings` allow between them every fault.

*Open run.* `MaxChannels = 1` with two requests reaches the full table and a
full queue; three are needed to exceed `MaxChannels + 1`. `MaxWire` bounds the
packets in flight; reception is in order, so it only limits how far the device
runs ahead. *Life run.* Two calls on a table of one slot: the second can only
open through the slot the first gave up, while answers to the first are still
on their way. Some scenarios have a transport whose reads may be dropped, some one
whose reads may not. Local ids wrap, in a space of two. Only delayed ACK is checked, as
the classic mode has no READY that cannot be taken. *Connection run.* Two
channels at once, or one after the other through the same slot, streams longer
than the buffer, and up to two requests of the device. In these runs, a
scenario fixes which kinds of faults may happen; they differ because all of
them at once are out of reach.

*Setup.* Two callers and one crash are the least with a half-done writer beside
a working one; `TempTries` of 2 lets a left-over temporary file be in the way.
Two codes, one odd frame, one stale packet, a key that fits its block and one that
does not. *Setup, transports.* Packets shorter and
longer than the least read, a payload over the limit, a bad header and a bad
sum among good ones; payloads that end below, on and above a USB packet
boundary; TLS scripts with each kind of record; all buses of up to two devices
out of eleven. *Services.* Buffers too small for some messages and just large
enough for others, frames and entries cut in several ways, a log that ends in the
middle of an entry, in text or with a status other than 0, and calls dropped in
the message of a FAIL. The inputs of the
formats are all sequences up to the lengths in `Lengths`, over symbols that
include the separators and a value on either side of each limit. *Ffi.* Up to
three threads in ten combinations of calls, and one packet in flight; a plain
write is one chunk, a shell's two (header and payload).

Permutations of tasks and of writers are used as symmetry in runs without
liveness only. The specifications other than `RxFlow`'s may stop for good once
every call has returned or the connection has ended, so deadlock is not checked
there; the liveness properties are what excludes being stuck.

### Fairness

`StepFairness` and `TaskFairness` are weak fairness of steps of tasks that are
not waiting for anybody: an executor polls a task that was woken, and `drop`
runs to its end. `FlowFairness` adds the device, the transport and the holder
of the write half, and strong fairness for taking the write half: it is an
`async_lock::Mutex`, which hands itself to a waiter that has been starved.
Properties that must not depend on the device (`StaysReadable`,
`ClosedUnblocks`) are checked under step fairness alone; `AllRead` and
`EveryWriteEnds` have `FlowFairness` as their hypothesis, and `AllRead` also
that callers eventually stop dropping reads. `EveryOpenAnswered` assumes that
the application keeps accepting and decides what it is given. In `ChannelLife`
tasks that can go on do, the Reader receives what is there, and the device
answers an OPEN; writes move unless `stalled`. `CalledOffCloseEnds` (a part of
`ClosesEnd`) holds with a stalled write half too. `ForgottenIsClosed` (another
part) leaves out a CLSE owed while the Reader is in a read that cannot be
dropped and no packet comes to end it: the device is then told with the next
packet or write, which nothing promises.

In `Connection` the application polls its call, and the device answers OPENs and
acknowledges what it is written; calls that wait for the device to write are
not expected to return. In `Setup` and `Services` a call under way
is polled, and the other side answers, ends the stream or fails: a socket that
stays silent for good is not something these calls claim to survive. In `MCFfi`
every thread goes on with its call and the device with what it has to send;
nobody has to hang up and no timeout has to fire. No fairness is assumed of any
fault, nor of the device's opens, closes and withdrawals.

### Where code and documentation disagree

* `FfiArrived`, a run. `select_channel` takes what is buffered and, finding
  nothing, looks at the state of the connection in a step of its own
  (`split/writer.rs:210`). Another thread may dispatch the channel's data and
  then meet the end of the stream in between; the read then reports the end with
  its data still buffered, where `libadb-ffi/include/libadb.h:434` promises that
  everything that arrived comes back before any error does. A further read does
  return it.
* `TlsSticks`, a run. After the session has failed, a write of the split write
  half first sends a queue that is full (`transport/tls/halves.rs:135`), and
  returns the socket's error if that fails; `transport/tls/maybe_tls.rs:26-29`
  says that every later call returns the session's. `FailureTold` (a part of
  `TlsSafe`) makes this one exception.
* `UsbIds.cfg`, a configuration beside the runs (`tlc -config UsbIds.cfg
  Services`). The ids of a USB address are read with `from_str_radix`
  (`transport/uri.rs:128`), which takes a leading `+`, beyond the four hex digits
  of its doc (`uri.rs:9`). `UriExact` takes a number to be what Rust reads.
* `OpenWithdrawn.cfg`, another (`tlc -config
  OpenWithdrawn.cfg MCIncomingOpens` finds it). `SplitIncoming::accept` reserves
  a slot and waits for the write half. A CLSE from the device closes that slot,
  so `withdraw_open` never marks the request. If the accept is then dropped, or
  its answer fails, `Drop` (`split/accept.rs:150`) puts the withdrawn request
  back to the head of the queue, and it is handed out and answered again. The
  doc of `accept` (`split/accept.rs:48-50`) says a withdrawn request is not
  taken, and a test of the neighbouring case (`split/tests.rs:88`) that it does
  not come back. `PendingExact` therefore asks for this only while nothing is
  dropped.
* A refusal dropped while it waits for the write half goes back to the queue past
  the bound (`split/shared.rs:318`), is handed out from there, and the next one
  can follow: the OPENs waiting for a verdict outgrow the `max_channels` of
  `base/connection/config.rs:164-166`. `PendingExact` has the same condition.
* `end_stream` stores `stream_over` before `stop` records `ended_in_step`
  (`split/shared.rs:346`). A close in the middle of its CLSE that looks in
  between drops the write, which sets the desync flag, and reports
  `Desynchronized`; the docs (`split.rs:74-77`, `split/writer.rs:320-321`)
  promise `Ok` for a close on a stream that is over. No property of
  `ChannelLife` claims it.
* `pair` returns once the device's half of the exchange opens
  (`pairing/client.rs:166`); whether the device could open the host's, and so
  trusts the key, it does not learn. The comment at `pairing/client.rs:112` reads
  as if it did. `PairedMeansSameCode` says what holds.

## Proofs

TLAPS proves the theorems below for every value of the constants that the
named assumptions admit: any number of tasks, writers, requests, callers, any
bounds and all faults at once, where a run has a few of each.

| Module | Theorem | States | Inductive invariant |
| --- | --- | --- | --- |
| `RxFlowProofs` | `TypeCorrect` | `Spec => []TypeOK` | parts of `FlowInv` |
| | `BufferBounded` | `Spec => []HeldWithinCap`, for any device | the same |
| | `ReadersWoken` | `Spec => []NoLostWakeup`, for any device | `WakeInv` |
| | `GapHolds` | `Spec => NothingAfterGap`, an action property, for any device | `WakeInv`, `GapInv` |
| | `FlowHolds` | `Spec => []FlowInv` | `FlowInv` |
| | `ConformingNeverOverflows` | `Spec => []NoOverflow` | `FlowInv` |
| | `AcksHold` | `Spec => []AcksExact` | `ExactInv` |
| `SendFlowProofs` | `TurnsHold` | `Spec => []TurnsExact` | `SendInv` |
| | `CreditInOrder` | `Spec => GrantedInOrder`: `SendFlow` implements `FifoCredit` | `SendInv` |
| | `CreditHolds` | `Spec => []CreditExact` | `SendInv`, `CreditInv` |
| `IncomingOpensProofs` | `VerdictOnce` | `Spec => []OneVerdict` | `OpenInv` |
| | `ListenerTold` | `Spec => []NoLostIncoming` | `OpenInv` |
| | `PendingHolds` | `Spec => []PendingExact` | `OpenInv` |
| `ChannelLifeProofs` | `SlotsHold` | `Spec => []SlotsExact`, given `IdsSuffice` | `LifeInv` |
| | `IdsHold` | `Spec => []IdsExact`, given `IdsSuffice` | `LifeInv` |
| `ConnectionProofs` | `ChannelsHold` | `ConnSpec => []ChannelsExact` | `BaseInv` |
| `ConnectionDataProofs` | `DataHold` | `ConnSpec => []DataExact` | `BaseInv`, `DataInv` |
| `SetupProofs` | `KeyStoreSafe` | `SetupSpec => []KeysSafe` | `KeyInv` |
| | `KeyNeverTouched` | `SetupSpec => KeyUntouched`, an action property | `KeyInv` |
| | `DeviceIsKnown` | `SetupSpec => []DeviceKnown` | `SetupInv` |
| | `UsbHolds` | `SetupSpec => []UsbSafe` | `UsbInv` |

Each proof has one step (or one lemma) per action; lemmas about the operators
of the model come before the actions that use them. The inductive invariants
were checked with TLC on the bounds of the runs before they were proved.

### Assumptions

* `RxFlow`: the payload limit is positive, the other limits are natural
  numbers, the device's packets are no longer than the payload limit (the code
  refuses longer ones before dispatch), and tasks are not named like the other
  holders of the write half.
* `SendFlow`: the window and the number of calls are natural numbers, a write
  has at least one byte, writers are not named like the other holders of the
  write half. The window may be 0.
* `IncomingOpens`: a table of at least one channel, room for a packet on the
  wire, requests not named like the holders of the write half.
* `ChannelLife`: calls are named by the remote ids of their channels, which are
  not 0; a table of at least one channel, an id space of at least one
  id, room for a packet on the wire. The two theorems have a further hypothesis,
  `IdsSuffice`: there are no more opens than local ids, so none is given out
  twice. For the code that is the first 2^32 - 1 opens of a connection; what
  happens beyond them is the unchecked wrap of `base/channel_table.rs:73`, which
  no property covers. The constants of `Life` satisfy it, with every id in use.
* `Connection`: the device's ids are not 0, those it offers are not those it is
  asked for; its grant, the room on the wire and a table's size are positive.
* `KeyStore`: at least one process, one try for a temporary name (the code has
  `TEMP_TRIES`), room for two files. `Pairing`: there is a code. `Handshake`:
  its bounds are natural numbers.
* `UsbScan`: a bus is a sequence, what a device can do is a Boolean, no serial
  number is named like an error, the backends are the two of the code.

### The receive flow

`NoOverflow` is not inductive. Why it holds is `FlowInv`:

* `HolderInv`: only the holder of the write half has an OKAY in hand; what is
  set aside is within the buffer, and what is not is within the cap.
* `WireInv`, `BackInv`: positions on the wire increase, between what arrived and
  what was sent; OKAYs in flight increase, between what the device has seen and
  what was written. Lengths are differences of positions, so this is what makes
  them natural numbers; `TypeOK` needs it.
* `IntactInv`: nothing was dropped, so what arrived is what was buffered.
* `DelayedInv`: with delayed ACK, bytes sent and not seen acknowledged are at
  most the cap, because the device sends only with a byte of credit left, the
  advertised credit is at most the ceiling, and ceiling plus a packet is the
  cap plus one; and acknowledged bytes, the OKAY in hand and the bytes held sum
  to at most what arrived. Together a packet that arrives fits.
* `ClassicInv`: the token (the device may write, its WRTE is in flight, the slot
  holds the OKAY back, or the OKAY is in hand, owed or in flight) exists at most
  once, and while it is anywhere but in the slot, the slot holds less than the
  watermark. A WRTE that arrives has the token, so it fits.

`RxFlowProofs` proves first the parts that hold for any device (`AnyDeviceStep`),
then the rest (`BackStep`, `IntactStep`, `DelayedStep`,
`ClassicWireStep`, `TokenStep`), from lemmas about what `settle_take`,
`take_buffered` and `apply_write` do to a slot.

`WakeInv` strengthens `NoLostWakeup`: not only a read that waits, but one that
listens, has looked and found nothing is told of what came since its look; a
wake between the look and the wait must not be missed. It also says that the
Reader has the write half only while it pays, so that a Reader between a
desynchronizing write and the wake it owes is recognised.

`GapInv` is behind the action property `NothingAfterGap`: a gap is only on a
channel that has failed or that the Reader is about to fail, and between the two
the Reader has nothing to dispatch. The proof needs `WakeInv`: the Reader has
the write half only while it pays.

`ExactInv` turns the inequalities of `FlowInv` into equalities. With delayed ACK
the slot owes an OKAY for exactly what it holds: `settle_take` acknowledges what
it sets aside (`DelayedSettle`), and a take that needs no OKAY returns only what
was set aside (`DelayedTake`); this needs nothing of the device. `Balanced` is
for a conforming device: acknowledged bytes, the one OKAY in some hand (a
task's, the Reader's, or owed) and the slot's debt sum to what arrived, and the
token is somewhere. A WRTE without payload leaves no debt in the slot; it does
not lose the token because the slot is then under its watermark and the OKAY
goes out at once.

### The send flow

`SendInv` adds to the tickets (`TicketsExact`) what makes them inductive: the
queue counts the writers that hold credit (`SendersCounted`), a reservation
never exceeds what its writer still has to send (`Covered`), and a writer that
has tried and failed, not only one already parked, has its wake coming when its
turn comes (`WakesComing`). The last is where `write_channel` is delicate: the
listener is made before the try, so a wake between the try and the wait must
already count. `AdvanceFacts` and `RetreatFacts` say what the two loops of
`SendQueue` that skip tickets of departed writers compute, at both ends of the
queue. The refinement maps a grant to the writer whose ticket is the head;
`EveryStep` proves for every action both that `SendInv` is kept and which step
of `FifoCredit`, if any, it is.

`CreditInv` is the conservation law in three strengths: equality while the
channel is open and in step, an upper bound after a close or a failure, and
after an abandoned packet only that what was sent fits the window, because that
packet may both arrive and be refunded. Sums over packets and writers are
numbers of units, so that they change by the packet that is added or taken, and
no induction over sequences is needed.

### Device-initiated channels

`OpenInv` follows each request through its life: not arrived, queued, in one
`SplitIncoming` with the reader or the application, answered or withdrawn
(`Life`); at each place it says whether a slot is reserved, whether a verdict
is due and which. Around it: the device's packets in order on the wire, no
request twice in the queue, what the reader refuses is what it waits for
(`Refusing`), and the pending count with room for the one under refusal
(`Undropped`). The bound is stated for behaviours in which nothing is dropped,
since a dropped `SplitIncoming` puts its request back whatever has been queued
meanwhile.

### Open, close and the end of the connection

`SlotsExact` and `IdsExact` compare the host's table with the device's ends of
the same channels, between which packets, owed CLSEs and a READY the Reader has
in hand are under way. `LifeInv` accounts for all of them:

* `IdInv`: local ids are given out in order and to one call each. While a call
  has not started, the number of started ones tells `next_local_id`; this is
  where `IdsSuffice` is needed.
* `CallIds`, `PacketIds`: what the host and the device know of each other, and
  that a packet, a debt or the Reader's note carries the ids of one channel. A
  READY for an open that was given up therefore cannot match the slot that has
  since taken its place.
* `SlotInv`: every slot in use has a call that holds it (a `SlotGuard` or a
  handle), and every holder's slot has its local id.
* `EndInv`: a CLSE is owed only for a channel that was let go of or has failed;
  the device sends nothing before it answers and nothing after its CLSE; and an
  end the device holds open is held by a call, has its CLSE owed, or its READY
  is still to come. The last is what rules out a forgotten channel.
* `OnInv`: an open of the Reader's own, and which call it is for.

Most of the steps move no slot, packet or debt: `QuietLife` deals with them once,
and each action shows that it is quiet. `WireLife` is for the steps that move
packets, `SlotMoves` and `FreedLife` for those that change or free a slot;
`OpenStarted` stands alone, as the only step that gives out an id.

### The single-task connection

`BaseInv` is what host and device know of each other's channels while one call
at a time serves them all:

* `IdsInv`: a local id is given out once; the table, the handles and the device
  pair ids alike, and every slot belongs to a handle or to the `Incoming` that
  reserved it. `PacketsInv` says the same of the packets on their way, so that a
  packet can only reach the slot of its own channel.
* `PlacesInv`: a request is on the wire, in the queue, in the application's hands
  or has a slot, and in one of them only.
* `CallInv`: what a call that waits, writes or holds an `Incoming` has reserved,
  and which frame it writes for whom. `DesyncInv`: after a cut frame only what was
  buffered is still handed out.
* `OrphanInv`, `LostInv`: what `NoOrphan` and `NoRequestLost` say, with the CLSE
  that is being written and the READY on its way as the only ways out.

`Quiet` covers the steps that only move the call on, `OneSlot` those that change
one slot and leave its channel alone. The steps that give out or free a slot
(`OpensStep`, `AcceptFree`, `IncomingGoes`, `CloseStart`, `AnswerReady`) and
those in which the device's end moves (`DevicePktStep`, `OpenWritten`) are proved
one by one.

`DataInv` adds the data and the credit on each channel. Every channel with data
has a place its packets go to: its slot, or the open that waits for its READY
(`PlacesData`). For each place:

* what was read, what is buffered and what is in flight follow one another
  (`StreamOK`), and unless the device overruns its window they leave no gap
  (`CoverOK`), so that a WRTE that arrives is the next piece. `WireInv` keeps
  the pieces on the wire in order; `GotInv` is about the bytes read, also
  through a handle whose slot is gone.
* the device's credit, the bytes in flight, what the slot owes and the OKAY being
  written add up (`CreditOK`), and what is in flight fits into the buffer
  (`RoomOK`). The two need each other: credit that adds up is why a new WRTE has
  room, and a WRTE with room is not dropped, so its credit is not lost.
  `DebtOK` says that a slot owes an OKAY for what it holds.
* the host's budget, the READYs in flight and what the device owes add up to the
  grant (`BudgetOK`). `CreditsInv` makes the sum over the queue one that changes by
  the packet that joins or leaves; `SpentInv` says that a WRTE being written is
  still within the budget it will be charged to.

An abandoned frame may have arrived. What credit it moved is then unknown, so
`CreditOK` and `BudgetOK` are stated while the connection is in step; the order of
the bytes is stated always. An abandoned READY of an accept may have opened the
channel at the device while its request goes back to the queue; the slot of a
second answer, which can no longer be written, is left out until it is given
back (`Doubtful`).

`ReadInv` says that a read waits, or fails, only with nothing buffered. A channel
that is opening needs `AwaitData`: its READY comes before its data, so no WRTE
can arrive before there is a slot for it. The equalities are stated for a device
within its limits, as in `DataExact`.

`Calm` covers the channels that a step leaves alone, `Fits` is what a slot must be
after a step that changes it: `TakesTo` (a read from the buffer), `SpentTo`
(a write), `TakesIn` (a WRTE that arrives) and `SameBuffer` (any other packet) say
what the operators of `ChannelSlot` do to a slot, once for all the actions that
call them.

### Keys, pairing, handshake

`KeyInv` says who owns a temporary file (its name is its writer's alone, and so
are its contents but for the moment between `link` and `unlink`, when `adbkey`
is a second name of the same file), and what a caller knows of the directory
from where it is in `load_or_generate`; a crash only removes knowledge.

`SetupInv` describes what is on its way in both directions. For a pairing: who
sealed each message, and, until something goes wrong, that the two sides are at
most a message apart; a host whose own key is too long stops before it sends it. For a handshake: how many AUTH packets are in the stream,
what of it is plain, that a key is offered only at the second AUTH, and, while
the device sends nothing odd, for each state of the host the possible states of
the device and the last packet on its way (`Calm`). Stale packets may be
anywhere before that.

### The scan for a device

`UsbInv` is about the scan alone; the other transports are variables of their own
that a step of the scan does not touch. `SeenInv` says why each device the scan
went past is not the one, and what the checks before this point have told of the
one in hand; `ToldInv`, that the error it remembers is that of the first device
passed that had one, and the one it tells; `EndInv` says that the device of a success fits and is healthy, and
that a scan which tried them all, or found none, went past the whole bus;
`OpenInv` says that only the device in hand is open: for rusb from its serial
number on, else once it is claimed.

### Only model-checked

* All liveness: the prover has no support for `ENABLED` and fairness.
* What the decoders of `Services` and the formats compute (`BuffersSafe`,
  `MessagesExact`, `FormatsExact`): recursion over the input, which would need
  induction over data.
* What the sockets and TLS deliver (`WireSafe`, `TlsSafe`): both compare a
  stream with the concatenation of what was sent, the value of a fold, which
  is induction over data again.
* The C interface (`CallsSafe`, `StatusMeansIt`), no theorem of which has been
  attempted; `ChannelLife` once local ids wrap.

## Not modelled

* Local ids that wrap onto a live or stale holder of the same id, which takes
  2^32 opens during one channel's life (`base/channel_table.rs:73`;
  `base/channel.rs:25` is about this).
* A packet with a wrong checksum in the connections: it fails a receive without
  ending the stream. `WireRecv` has it, and finds the next packet.
* `Reader::read_channel` as the driver of reception for the receive flow: there
  the reading task dispatches for itself. `IncomingOpens` and `FfiCalls` have it
  as a call.
* Cryptography and the encodings of keys and certificates (`keys/`, `tls/`):
  arithmetic and formats TLC has nothing to say about.
* Sockets, libusb, nusb, rustls and the async runtimes: external, modelled by
  how the code uses them where it does.
* Error types and their wording, `base/mock.rs` (used by tests only), feature
  tables and getters, the tables of frame, priority and sync ids, the layout of a
  stat record, the texts of push requests and window sizes, the error strings and out-pointers of the C interface: pure data.

## What is next

1. Theorems about the C interface (`CallsSafe`).
