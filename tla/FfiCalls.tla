------------------------------ MODULE FfiCalls ------------------------------
(***************************************************************************)
(* The C calls on one connection, made from several threads.  Nothing      *)
(* reads the connection in the background: a thread that holds the read    *)
(* lock takes packets off it for everybody.  Channel "c" is a plain one,   *)
(* channel "s" carries a shell session, both without delayed ACK.          *)
(*                                                                         *)
(* A chunk the device writes is its number on the channel, and a shell     *)
(* frame is two chunks in a row: in either direction, header and payload.  *)
(***************************************************************************)
EXTENDS Naturals, Sequences, FiniteSets, SequencesExt

CONSTANTS
    Threads,    \* the C threads
    Scenarios,  \* the calls each thread makes, in order: a set of functions
    MaxWire,    \* bound: packets in flight toward the host
    Timeouts    \* is a read timeout set on the socket?

VARIABLES
    handle,   \* adb_connection_t: the read lock, the staged request and its lock,
              \* what the device is owed, and the write half with its waiters
    chan,     \* the channels of the split connection
    sh,       \* adb_shell_t
    waker,    \* each thread's ThreadWaker, and what wakes it
    th,       \* each thread: its calls, where the running one is
    dev,      \* the device: what it has to send, what is on the wire
    told      \* what the calls gave back and what was put on the wire
fvars == <<handle, chan, sh, waker, th, dev, told>>

Chans == {"c", "s"}
None == "none"
On(call) == IF call \in {"shread", "shwrite", "shclose", "shclosestdin"} THEN "s" ELSE "c"
Times(call, rest) == Cardinality({<<t, i>> \in UNION {{t} \X DOMAIN rest[t]: t \in Threads}:
                                    rest[t][i] = call})

\* A ThreadWaker as run makes it, with no event listened to and no listener
\* made by a read yet.
Unused == [on |-> {}, listener |-> FALSE]

\* The device sends as much as the calls of the scenario wait for.
Started(s) ==
    /\ handle = [lock |-> None, stLock |-> None, staged |-> 0, pend |-> <<>>, live |-> TRUE,
                 owed |-> <<>>, half |-> None, line |-> <<>>, next |-> None]
    /\ chan = [ch \in Chans |-> [st |-> "open", rx |-> <<>>, budget |-> TRUE, queue |-> <<>>,
                                 sending |-> None]]
    /\ sh = [turn |-> None, parse |-> None, closed |-> FALSE, rx |-> <<>>]
    /\ waker = [t \in Threads |-> Unused]
    /\ th = [t \in Threads |-> [rest |-> s[t], call |-> None, pc |-> "idle", has |-> 0,
                                parts |-> 0, then |-> None, ret |-> None]]
    /\ dev = [wire |-> <<>>, owes |-> <<>>, next |-> [ch \in Chans |-> 1], opens |-> 1,
              acked |-> [ch \in Chans |-> TRUE],
              data |-> [ch \in Chans |-> IF ch = "c" THEN Times("read", s) ELSE 2 * Times("shread", s)],
              requests |-> Times("accept", s), over |-> FALSE]
    /\ told = [sent |-> <<>>, frames |-> <<>>, answered |-> <<>>, ends |-> 0,
               failed |-> FALSE, early |-> FALSE]
FfInit == \E s \in Scenarios: Started(s)

------------------------------------------------------------------------------
(* The device (external): it acknowledges each WRTE, answers an OPEN and a *)
(* CLSE, writes its data, a chunk once the one before is acknowledged, and *)
(* opens channels, in any order, or hangs up.                              *)

Pkt(cmd, ch, n) == [cmd |-> cmd, ch |-> ch, n |-> n]
DevRoom == ~dev.over /\ Len(dev.wire) < MaxWire

DevAnswer == /\ DevRoom /\ dev.owes # <<>>
             /\ dev' = [dev EXCEPT !.owes = Tail(@), !.wire = Append(@, Head(dev.owes))]
             /\ UNCHANGED <<handle, chan, sh, waker, th, told>>

DevWrite == \E ch \in Chans:
    /\ DevRoom /\ dev.data[ch] > 0 /\ dev.acked[ch]
    /\ dev' = [dev EXCEPT !.data[ch] = @ - 1, !.next[ch] = @ + 1, !.acked[ch] = FALSE,
                          !.wire = Append(@, Pkt("WRTE", ch, dev.next[ch]))]
    /\ UNCHANGED <<handle, chan, sh, waker, th, told>>

DevOpen == /\ DevRoom /\ dev.requests > 0
           /\ dev' = [dev EXCEPT !.requests = @ - 1, !.opens = @ + 1,
                                 !.wire = Append(@, Pkt("OPEN", "", dev.opens))]
           /\ UNCHANGED <<handle, chan, sh, waker, th, told>>

DevClose == /\ DevRoom /\ dev.data["s"] = 0 /\ chan["s"].st = "open"
            /\ \A i \in DOMAIN dev.wire: dev.wire[i].cmd # "CLSE"
            /\ dev' = [dev EXCEPT !.wire = Append(@, Pkt("CLSE", "s", 0))]
            /\ UNCHANGED <<handle, chan, sh, waker, th, told>>

DevHangsUp == /\ DevRoom
              /\ dev' = [dev EXCEPT !.over = TRUE, !.wire = Append(@, Pkt("EOF", "", 0))]
              /\ UNCHANGED <<handle, chan, sh, waker, th, told>>

Owes(d, p) == IF d.over THEN d ELSE [d EXCEPT !.owes = Append(@, p)]

------------------------------------------------------------------------------
(* The executor: ThreadWaker, run, and the waits of a Pending poll.        *)

\* ThreadWaker::wake_by_ref for the threads that listen to something in
\* `what`.  An event a thread was notified of is no longer in its `on`: a
\* future polled for another reason finds the rest of them still pending.
wake_by_ref(w, what) == [t \in Threads |-> [w[t] EXCEPT !.on = @ \ what]]

To(t, pc) == [th EXCEPT ![t].pc = pc]
\* Shared::pay before what comes `then`: nothing, unless something is owed.
PayThen(t, owed, then) == IF handle.live /\ owed # <<>>
                          THEN [th EXCEPT ![t].pc = "payhalf", ![t].then = then]
                          ELSE To(t, then)

\* ThreadWaker::wait: no time limit, so only a notification ends it.  One
\* that comes between the look at the flag and the park leaves its token.
Wait(t) ==
    /\ th[t].pc = "wait" /\ waker[t].on = {} /\ th' = To(t, "half")
    /\ UNCHANGED <<handle, chan, sh, waker, dev, told>>

\* Where the future goes on when it is polled again: at the await it stands
\* on.  A read looks at the lock first; a write whose listener was not
\* notified is pending still.
Again(t) == IF th[t].call \in {"read", "shread"} THEN "tryread"
            ELSE IF waker[t].on # {} THEN "trywrite"
            ELSE IF chan[On(th[t].call)].sending = t THEN "half" ELSE "poll"

\* Faulty form: the wait of a read or a write has no limit of its own.
WaitForever(t) ==
    /\ th[t].pc = "tick" /\ waker[t].on = {} /\ th' = To(t, Again(t))
    /\ UNCHANGED <<handle, chan, sh, waker, dev, told>>

\* ThreadWaker::wait_at_most: a notification, or TICK, whichever is first.
WaitAtMost(t) ==
    /\ th[t].pc = "tick" /\ th' = To(t, Again(t))
    /\ UNCHANGED <<handle, chan, sh, waker, dev, told>>

------------------------------------------------------------------------------
(* A call returns: with its status, and with every lock it held released.  *)

Freed(t) == [handle EXCEPT !.lock = IF @ = t THEN None ELSE @,
                           !.stLock = IF @ = t THEN None ELSE @]
ShFreed(s, t) == [s EXCEPT !.turn = IF @ = t THEN None ELSE @, !.parse = IF @ = t THEN None ELSE @]
\* A write that gives up leaves the channel's send queue, or sends no more.
Left(c, t) == [ch \in Chans |-> [c[ch] EXCEPT !.queue = SelectSeq(@, LAMBDA u: u # t),
                                              !.sending = IF @ = t THEN None ELSE @]]
Over(t, ret) == [th EXCEPT ![t].pc = "idle", ![t].call = None, ![t].has = 0, ![t].parts = 0,
                           ![t].then = None, ![t].ret = ret]

GivesUp(t, ret, live) ==
    /\ th' = Over(t, ret) /\ handle' = [Freed(t) EXCEPT !.live = live]
    /\ sh' = ShFreed(sh, t) /\ chan' = Left(chan, t)
    /\ waker' = [wake_by_ref(waker, IF live THEN {On(th[t].call)} ELSE Chans) EXCEPT ![t] = Unused]
    /\ told' = [told EXCEPT !.failed = @ \/ th[t].call \in {"shwrite", "shclosestdin"},
                            !.ends = IF ret = "Io" THEN @ + 1 ELSE @,
                            !.early = @ \/ (ret = "Disconnected" /\ th[t].call \in {"read", "shread"}
                                            /\ chan[On(th[t].call)].rx # <<>>)]
Fails(t, ret) == GivesUp(t, ret, handle.live)

\* adb_shell_close_stdin takes a channel the device closed for a success.
Verdict(t, ret) == IF th[t].call = "shclosestdin" /\ ret = "ChannelClosed" /\ ~sh.closed
                   THEN "Ok" ELSE ret

------------------------------------------------------------------------------
(* The calls start: adb_read_channel, adb_write_channel, adb_open_channel, *)
(* adb_close_channel, the adb_incoming_ and the adb_shell_ calls.          *)

First == [read |-> "sel", write |-> "poll", open |-> "lock", accept |-> "stLock",
          inaccept |-> "stLock", inreject |-> "stLock", close |-> "free", shread |-> "parse",
          shwrite |-> "turn", shclosestdin |-> "turn", shclose |-> "flag"]
Begin(t) ==
    /\ th[t].pc = "idle" /\ th[t].rest # <<>>
    /\ LET call == Head(th[t].rest)
           shut == sh.closed /\ call \in {"shread", "shwrite", "shclosestdin"}
       IN th' = [th EXCEPT ![t] = [@ EXCEPT !.rest = Tail(@),
                                            !.call = IF shut THEN None ELSE call,
                                            !.pc = IF shut THEN "idle" ELSE First[call],
                                            !.parts = IF call = "shwrite" THEN 2 ELSE 1,
                                            !.ret = IF shut THEN "ChannelClosed" ELSE None]]
    /\ waker' = [waker EXCEPT ![t] = Unused]
    /\ UNCHANGED <<handle, chan, sh, dev, told>>

\* A std Mutex: the thread sleeps until it is free.  Reader::open_channel
\* and Reader::accept_incoming see to it first that the connection lives.
LockReader(t) ==
    /\ th[t].pc = "lock" /\ handle.lock = None
    /\ IF ~handle.live THEN Fails(t, "Disconnected")
       ELSE /\ handle' = [handle EXCEPT !.lock = t]
            /\ th' = IF th[t].call = "open" THEN To(t, "half")
                     ELSE PayThen(t, handle.owed, "accepting")
            /\ UNCHANGED <<chan, sh, waker, told>>
    /\ UNCHANGED dev

------------------------------------------------------------------------------
(* Reads: block_on_read, with Writer::select_channel in front.             *)

\* Shared::take_buffered, under the channel table's lock.
TakeFrom(t, none) ==
    LET ch == On(th[t].call)  c == chan[ch]
    IN IF c.rx # <<>>
       THEN /\ chan' = [chan EXCEPT ![ch].rx = Tail(@)]
            /\ th' = [th EXCEPT ![t].pc = "got", ![t].has = Head(c.rx)]
            /\ handle' = [handle EXCEPT !.lock = IF @ = t THEN None ELSE @]
            /\ UNCHANGED <<sh, waker, told>>
       ELSE IF c.st # "open" THEN Fails(t, "ChannelClosed")
       ELSE th' = To(t, none) /\ UNCHANGED <<handle, chan, sh, waker, told>>

SelTake(t) == th[t].pc = "sel" /\ TakeFrom(t, "live") /\ UNCHANGED dev

\* check_live, then the listener: the data is looked for once more before
\* the first wait on it.
SelLive(t) ==
    /\ th[t].pc = "live"
    /\ IF ~handle.live THEN Fails(t, "Disconnected")
       ELSE IF waker[t].listener
       THEN th' = To(t, "tryread") /\ UNCHANGED <<handle, chan, sh, waker, told>>
       ELSE /\ th' = To(t, "sel")
            /\ waker' = [waker EXCEPT ![t].listener = TRUE, ![t].on = {On(th[t].call)}]
            /\ UNCHANGED <<handle, chan, sh, told>>
    /\ UNCHANGED dev

\* try_lock on the reader, polled as the interrupt of the select, and then
\* the listener: only one that was notified sends the read back to look.
TryRead(t) ==
    /\ th[t].pc = "tryread"
    /\ IF handle.lock = None
       THEN /\ handle' = [handle EXCEPT !.lock = t]
            /\ th' = PayThen(t, handle.owed, "again")
            /\ waker' = [waker EXCEPT ![t] = Unused]
       ELSE IF waker[t].on # {} THEN th' = To(t, "tick") /\ UNCHANGED <<handle, waker>>
       ELSE /\ th' = To(t, "sel") /\ waker' = [waker EXCEPT ![t].listener = FALSE]
            /\ UNCHANGED handle
    /\ UNCHANGED <<chan, sh, dev, told>>

\* Faulty form: with the lock in hand, straight to the connection.
ReadAgainBlind(t) ==
    /\ th[t].pc = "again" /\ th' = To(t, "receive")
    /\ UNCHANGED <<handle, chan, sh, waker, dev, told>>

\* Reader::read_channel looks at the channel again before it reads.
ReadAgain(t) == th[t].pc = "again" /\ TakeFrom(t, "receive") /\ UNCHANGED dev

\* adb_read_channel returns; adb_shell_read_frame commits to its decoder.
Got(t) ==
    /\ th[t].pc = "got"
    /\ IF th[t].call = "read"
       THEN th' = Over(t, "Ok") /\ UNCHANGED sh
       ELSE /\ sh' = [sh EXCEPT !.rx = Append(@, th[t].has)]
            /\ th' = [th EXCEPT ![t].pc = "decode", ![t].has = 0]
    /\ waker' = [waker EXCEPT ![t] = Unused]
    /\ UNCHANGED <<handle, chan, dev, told>>

\* read_frame: the parse state stays locked until the frame is whole.
ParseLock(t) == /\ th[t].pc = "parse" /\ sh.parse = None
                /\ sh' = [sh EXCEPT !.parse = t]
                /\ th' = To(t, "decode")
                /\ UNCHANGED <<handle, chan, waker, dev, told>>

Decode(t) ==
    /\ th[t].pc = "decode"
    /\ IF Len(sh.rx) < 2
       THEN th' = To(t, "sel") /\ UNCHANGED <<sh, told>>
       ELSE /\ th' = Over(t, "Ok") /\ told' = [told EXCEPT !.frames = Append(@, SubSeq(sh.rx, 1, 2))]
            /\ sh' = [ShFreed(sh, t) EXCEPT !.rx = SubSeq(@, 3, Len(@))]
    /\ UNCHANGED <<handle, chan, waker, dev>>

------------------------------------------------------------------------------
(* Writes: block_on_write over Writer::write_channel, a shell frame's two  *)
(* of them under the session's send lock.                                  *)

\* send_frame_async: a std Mutex, taken inside the poll.
TurnLock(t) == /\ th[t].pc = "turn" /\ sh.turn = None
               /\ sh' = [sh EXCEPT !.turn = t]
               /\ th' = To(t, "poll")
               /\ UNCHANGED <<handle, chan, waker, dev, told>>

\* acquire_credit: a place in the channel's queue, and a listener before
\* each look.
Queued(c, t) == IF Contains(c.queue, t) THEN c ELSE [c EXCEPT !.queue = Append(@, t)]
Poll(t) ==
    /\ th[t].pc = "poll"
    /\ LET ch == On(th[t].call)
       IN IF chan[ch].st # "open" THEN Fails(t, Verdict(t, "ChannelClosed"))
          ELSE /\ chan' = [chan EXCEPT ![ch] = Queued(@, t)]
               /\ th' = To(t, "reserve") /\ waker' = [waker EXCEPT ![t].on = {ch}]
               /\ UNCHANGED <<handle, sh, told>>
    /\ UNCHANGED dev

\* try_reserve: its turn and the budget, which here is the OKAY to the WRTE
\* before; else check_live, and the listener is awaited.
Reserve(t) ==
    /\ th[t].pc = "reserve"
    /\ LET ch == On(th[t].call)  c == chan[ch]
       IN IF c.st # "open" THEN Fails(t, Verdict(t, "ChannelClosed"))
          ELSE IF Head(c.queue) = t /\ c.budget
          THEN /\ chan' = [chan EXCEPT ![ch] = [c EXCEPT !.queue = Tail(@), !.budget = FALSE,
                                                         !.sending = t]]
               /\ th' = To(t, "ids") /\ waker' = [waker EXCEPT ![t].on = {}]
               /\ UNCHANGED <<handle, sh, told>>
          ELSE IF ~handle.live THEN Fails(t, "Disconnected")
          ELSE th' = To(t, Again(t)) /\ UNCHANGED <<handle, chan, sh, waker, told>>
    /\ UNCHANGED dev

\* channel_ids: the slot may be gone by now, its credit with it.
Ids(t) ==
    /\ th[t].pc = "ids"
    /\ IF chan[On(th[t].call)].st = "free" THEN Fails(t, Verdict(t, "ChannelClosed"))
       ELSE th' = To(t, "half") /\ UNCHANGED <<handle, chan, sh, waker, told>>
    /\ UNCHANGED dev

\* A packet was dispatched for the write: the reader's lock is let go, and
\* the write polled where it stands.
Repoll(t) == /\ th[t].pc = "repoll" /\ th' = To(t, Again(t))
             /\ handle' = [handle EXCEPT !.lock = None]
             /\ UNCHANGED <<chan, sh, waker, dev, told>>

waits_for_credit(c) == c.st = "open" /\ ~c.budget /\ c.queue # <<>> /\ c.sending = None

\* The write is pending: try_lock on the reader.
TryWrite(t) ==
    /\ th[t].pc = "trywrite"
    /\ IF handle.lock = None
       THEN handle' = [handle EXCEPT !.lock = t] /\ th' = To(t, "credit")
       ELSE handle' = handle /\ th' = To(t, "tick")
    /\ UNCHANGED <<chan, sh, waker, dev, told>>

\* With the lock held: only a write the device has to answer reads.
Credit(t) ==
    /\ th[t].pc = "credit"
    /\ IF waits_for_credit(chan[On(th[t].call)])
       THEN th' = To(t, "receive") /\ UNCHANGED handle
       ELSE th' = To(t, "tick") /\ handle' = [handle EXCEPT !.lock = None]
    /\ UNCHANGED <<chan, sh, waker, dev, told>>

------------------------------------------------------------------------------
(* The write half, an async mutex (external): whoever finds it taken gets  *)
(* in line, and a release wakes the first there unless one woken earlier   *)
(* has yet to look.                                                        *)

Asks(t, taken, busy) ==
    IF handle.half = None
    THEN /\ handle' = [handle EXCEPT !.half = t, !.next = IF @ = t THEN None ELSE @]
         /\ th' = To(t, taken) /\ UNCHANGED waker
    ELSE /\ handle' = [handle EXCEPT !.line = Append(@, t), !.next = IF @ = t THEN None ELSE @]
         /\ th' = To(t, busy) /\ waker' = [waker EXCEPT ![t].on = @ \cup {"half"}]

\* The half after its release by a call that leaves the waker w behind.
Wakes == handle.next = None /\ handle.line # <<>>
Released == IF Wakes
            THEN [handle EXCEPT !.half = None, !.next = Head(handle.line), !.line = Tail(@)]
            ELSE [handle EXCEPT !.half = None]
HalfWoken(w) == IF ~Wakes THEN w
                ELSE [w EXCEPT ![Head(handle.line)].on = @ \ {"half"}]

Half(t) ==
    /\ th[t].pc = "half"
    /\ Asks(t, "sending", IF th[t].call \in {"write", "shwrite", "shclosestdin"}
                          THEN "trywrite" ELSE "wait")
    /\ UNCHANGED <<chan, sh, dev, told>>

\* lock_write: what the device is owed goes out ahead of anything else.
PaysOne(t) ==
    /\ th[t].pc \in {"sending", "paying"} /\ handle.owed # <<>>
    /\ LET debt == Head(handle.owed)
       IN dev' = IF debt.cmd = "OKAY" THEN [dev EXCEPT !.acked[debt.ch] = TRUE] ELSE Owes(dev, debt)
    /\ handle' = [handle EXCEPT !.owed = Tail(@)]
    /\ UNCHANGED <<chan, sh, waker, th, told>>

\* The packet is on the wire, and the half let go.
Sending(t) ==
    /\ th[t].pc = "sending" /\ handle.owed = <<>>
    /\ LET call == th[t].call  ch == On(call)
           last == th[t].parts = 1
       IN \/ /\ call \in {"write", "shwrite", "shclosestdin"}
             /\ chan' = [chan EXCEPT ![ch].sending = None]
             /\ dev' = Owes(dev, Pkt("OKAY", ch, 0))
             /\ told' = [told EXCEPT !.sent = IF ch = "s" THEN Append(@, <<t, th[t].parts, call>>) ELSE @]
             /\ th' = IF last THEN Over(t, "Ok") ELSE [th EXCEPT ![t].pc = "poll", ![t].parts = @ - 1]
             /\ sh' = IF last THEN ShFreed(sh, t) ELSE sh
          \/ /\ call = "open"
             /\ dev' = Owes(dev, Pkt("READY", "", 0))
             /\ th' = To(t, "receive")
             /\ UNCHANGED <<chan, sh, told>>
          \/ /\ call \in {"close", "shclose"}
             /\ th' = Over(t, "Ok")
             /\ UNCHANGED <<chan, sh, dev, told>>
          \/ /\ call \in {"inaccept", "inreject"}
             /\ told' = [told EXCEPT !.answered = Append(@, th[t].has)]
             /\ th' = Over(t, "Ok")
             /\ UNCHANGED <<chan, sh, dev>>
    /\ handle' = Released /\ waker' = HalfWoken([waker EXCEPT ![t] = Unused])

------------------------------------------------------------------------------
(* Shared::pay with something owed, by the thread that reads: before it    *)
(* receives, and for a WRTE it has dispatched.  The wait has no limit.     *)

PayHalf(t) == th[t].pc = "payhalf" /\ Asks(t, "paying", "paywait") /\ UNCHANGED <<chan, sh, dev, told>>

\* The block_on inside the poll of a write has a waker of its own.
PayWait(t) == /\ th[t].pc = "paywait" /\ "half" \notin waker[t].on /\ th' = To(t, "payhalf")
              /\ UNCHANGED <<handle, chan, sh, waker, dev, told>>

Paid(t) == /\ th[t].pc = "paying" /\ handle.owed = <<>>
           /\ handle' = Released /\ waker' = HalfWoken(waker) /\ th' = To(t, th[t].then)
           /\ UNCHANGED <<chan, sh, dev, told>>

------------------------------------------------------------------------------
(* adb_open_channel, adb_accept_channel and its answers, the closes.       *)

\* adb_accept_channel keeps the staged request locked while it waits; the
\* answers take the request and let the lock go.
StagedLock(t) ==
    /\ th[t].pc = "stLock" /\ handle.stLock = None
    /\ IF th[t].call = "accept"
       THEN IF handle.staged # 0 THEN th' = Over(t, "Ok") /\ UNCHANGED handle
            ELSE th' = To(t, "lock") /\ handle' = [handle EXCEPT !.stLock = t]
       ELSE IF handle.staged = 0 THEN th' = Over(t, "InvalidArg") /\ UNCHANGED handle
       ELSE /\ th' = [th EXCEPT ![t].has = handle.staged, ![t].pc = "half"]
            /\ handle' = [handle EXCEPT !.staged = 0]
    /\ UNCHANGED <<chan, sh, waker, dev, told>>

\* A queued request, else the next packet.
Accepting(t) ==
    /\ th[t].pc = "accepting"
    /\ IF handle.pend = <<>> THEN th' = To(t, "receive") /\ UNCHANGED handle
       ELSE /\ th' = [th EXCEPT ![t].has = Head(handle.pend), ![t].pc = "stage"]
            /\ handle' = [handle EXCEPT !.pend = Tail(@), !.lock = None]
    /\ UNCHANGED <<chan, sh, waker, dev, told>>

Stage(t) == /\ th[t].pc = "stage"
            /\ handle' = [handle EXCEPT !.staged = th[t].has, !.stLock = None]
            /\ th' = Over(t, "Ok")
            /\ UNCHANGED <<chan, sh, waker, dev, told>>

\* adb_shell_close: the first one closes the channel, the others are done.
CloseFlag(t) == /\ th[t].pc = "flag"
                /\ IF sh.closed THEN th' = Over(t, "Ok") /\ UNCHANGED sh
                   ELSE th' = To(t, "free") /\ sh' = [sh EXCEPT !.closed = TRUE]
                /\ UNCHANGED <<handle, chan, waker, dev, told>>

\* close_channel_via: the slot is freed and its waiters woken, then the
\* CLSE is owed, and sent with the write half in hand.
Close(t) ==
    /\ th[t].pc = "free"
    /\ LET ch == On(th[t].call)
       IN IF chan[ch].st = "free" THEN Fails(t, "ChannelClosed")
          ELSE /\ chan' = [chan EXCEPT ![ch].st = "free", ![ch].rx = <<>>]
               /\ waker' = wake_by_ref(waker, {ch})
               /\ handle' = [handle EXCEPT !.owed = Append(@, Pkt("CLSE", ch, 0))]
               /\ th' = IF handle.live THEN To(t, "half") ELSE Over(t, "Ok")
               /\ UNCHANGED <<sh, told>>
    /\ UNCHANGED dev

------------------------------------------------------------------------------
(* The connection is read: Reader::dispatch_one and the loops around it.   *)

Dispatched(p) ==
    IF p.cmd \notin {"WRTE", "OKAY", "CLSE"} THEN chan
    ELSE [chan EXCEPT ![p.ch] = IF @.st # "open" THEN @
                                ELSE IF p.cmd = "WRTE" THEN [@ EXCEPT !.rx = Append(@, p.n)]
                                ELSE IF p.cmd = "OKAY" THEN [@ EXCEPT !.budget = TRUE]
                                ELSE [@ EXCEPT !.st = "closed"]]

\* What a call does once its packet is dispatched.
Next_(call) == IF call = "accept" THEN "accepting"
               ELSE IF call \in {"read", "shread"} THEN "again"
               ELSE IF call = "open" THEN "receive" ELSE "repoll"

\* Reader::recv: check_live, then what is owed, then the connection.
Receive(t) ==
    /\ th[t].pc = "receive"
    /\ IF handle.live
       THEN /\ th' = PayThen(t, handle.owed, "recv")
            /\ UNCHANGED <<handle, chan, sh, waker, told>>
       ELSE Fails(t, "Disconnected")
    /\ UNCHANGED dev

\* A packet is dispatched: the data of an open channel is owed an OKAY.
Recv(t) ==
    /\ th[t].pc = "recv" /\ dev.wire # <<>> /\ Head(dev.wire).cmd # "EOF"
    /\ LET p == Head(dev.wire)
           owed == IF p.cmd = "WRTE" /\ chan[p.ch].st = "open"
                   THEN Append(handle.owed, Pkt("OKAY", p.ch, 0)) ELSE handle.owed
       IN /\ dev' = [dev EXCEPT !.wire = Tail(@)]
          /\ chan' = Dispatched(p)
          /\ waker' = wake_by_ref(waker, {p.ch})
          /\ IF th[t].call = "open" /\ p.cmd = "READY"
             THEN th' = Over(t, "Ok") /\ handle' = Freed(t)
             ELSE /\ th' = IF p.cmd = "WRTE" THEN PayThen(t, owed, Next_(th[t].call))
                           ELSE To(t, Next_(th[t].call))
                  /\ handle' = [handle EXCEPT
                        !.pend = IF p.cmd = "OPEN" THEN Append(@, p.n) ELSE @, !.owed = owed]
    /\ UNCHANGED <<sh, told>>

\* end_stream: the connection is over for everybody, and everybody is woken.
RecvEnds(t) ==
    /\ th[t].pc = "recv" /\ handle.live /\ dev.wire # <<>> /\ Head(dev.wire).cmd = "EOF"
    /\ GivesUp(t, "Io", FALSE) /\ UNCHANGED dev

\* A read timeout is the caller's to retry.
RecvTimeout(t) == /\ Timeouts /\ th[t].pc = "recv" /\ handle.live /\ dev.wire = <<>>
                  /\ Fails(t, "Timeout") /\ UNCHANGED dev

------------------------------------------------------------------------------

Step(t) ==
    \/ Begin(t) \/ LockReader(t) \/ Wait(t) \/ WaitAtMost(t)
    \/ SelTake(t) \/ SelLive(t) \/ TryRead(t) \/ ReadAgain(t) \/ Got(t) \/ ParseLock(t) \/ Decode(t)
    \/ TurnLock(t) \/ Poll(t) \/ Reserve(t) \/ Ids(t) \/ Repoll(t) \/ TryWrite(t) \/ Credit(t)
    \/ Half(t) \/ PaysOne(t) \/ Sending(t) \/ PayHalf(t) \/ PayWait(t) \/ Paid(t)
    \/ StagedLock(t) \/ Accepting(t) \/ Stage(t) \/ CloseFlag(t) \/ Close(t)
    \/ Receive(t) \/ Recv(t) \/ RecvEnds(t)
Device == DevAnswer \/ DevWrite \/ DevOpen
FfNext == \/ \E t \in Threads: Step(t) \/ RecvTimeout(t)
          \/ Device \/ DevClose \/ DevHangsUp

------------------------------------------------------------------------------
(* Properties *)

\* A lock is held by a call that is running, and by nobody between calls.
FfiTypeOK ==
    /\ \A o \in {handle.lock, handle.stLock, handle.half, handle.next, sh.turn, sh.parse,
                  chan["c"].sending, chan["s"].sending} \cup ToSet(handle.line):
         o = None \/ (o \in Threads /\ th[o].pc # "idle")
    /\ handle.staged \in Nat /\ handle.live \in BOOLEAN
    /\ \A t \in Threads: waker[t].on \subseteq Chans \cup {"half"}

\* block_on_read and block_on_write: a thread sleeping in a read of the
\* connection has the read lock and still needs a packet, and owes no OKAY
\* the device could be waiting for in its turn.  A write has no credit, or
\* its channel is gone; a read has no data for its channel.
SleepsForCause == \A t \in Threads: th[t].pc = "recv" =>
    /\ handle.lock = t /\ \A i \in DOMAIN handle.owed: handle.owed[i].cmd = "CLSE"
    /\ th[t].call \in {"write", "shwrite", "shclosestdin"} =>
         ~chan[On(th[t].call)].budget \/ chan[On(th[t].call)].st # "open"
    /\ th[t].call \in {"read", "shread"} => chan[On(th[t].call)].rx = <<>>

\* send_frame_async: a header is followed by its own payload, however many
\* threads send, until a send fails.
FramesUnbroken == \A i \in DOMAIN told.sent:
    told.sent[i][2] = 2 /\ i < Len(told.sent) /\ ~told.failed =>
        told.sent[i + 1] = <<told.sent[i][1], 1, told.sent[i][3]>>

\* read_frame: the frames come out whole and in the device's order, each
\* to one of the threads that read.
FramesOut == \A i \in DOMAIN told.frames: told.frames[i] = <<2 * i - 1, 2 * i>>

\* adb_accept_channel, adb_incoming_accept, adb_incoming_reject: a request
\* of the device is at one place at a time and answered once, and none is
\* lost while the connection lives.
RequestsOnce ==
    LET at == [i \in 1..(dev.opens - 1) |->
                 Cardinality({j \in DOMAIN dev.wire: dev.wire[j] = Pkt("OPEN", "", i)})
                 + Cardinality({j \in DOMAIN handle.pend: handle.pend[j] = i})
                 + (IF handle.staged = i THEN 1 ELSE 0)
                 + Cardinality({t \in Threads: th[t].has = i /\ th[t].call \in
                                                  {"accept", "inaccept", "inreject"}})
                 + Cardinality({j \in DOMAIN told.answered: told.answered[j] = i})]
    IN \A i \in DOMAIN at: at[i] = 1

\* ADB_ERR_DISCONNECTED in libadb.h: one call meets the end of the
\* connection, and every other one is told it is over.
OneMeetsTheEnd == told.ends <= 1 /\ (told.ends = 1 <=> ~handle.live)

\* block_on_read, block_on_write: every call returns while the device goes
\* on answering, whichever thread happens to hold the read lock.
FfiCallsEnd == <>(\A t \in Threads: th[t].pc = "idle" /\ th[t].rest = <<>>)

\* adb_read_channel in libadb.h: everything that arrived comes back before
\* any error does, however the connection failed.
ArrivedComesFirst == ~told.early
=============================================================================
