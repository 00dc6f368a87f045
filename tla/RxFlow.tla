------------------------------- MODULE RxFlow -------------------------------
(***************************************************************************)
(* The receive side of one open channel on a split connection: the device  *)
(* writes under the flow control it was given, Reader::run receives and    *)
(* dispatches, application tasks read through Writer::read_channel, and    *)
(* all of them share the write half the OKAYs go out on.                   *)
(*                                                                         *)
(* Bytes are stream positions.  A WRTE on the wire is the position its     *)
(* payload ends at (its length is the distance to the packet before it),   *)
(* and an OKAY the number of bytes acknowledged once it is applied.        *)
(***************************************************************************)
EXTENDS ChannelSlot, Sequences, FiniteSets

CONSTANTS
    Tasks,       \* application tasks that read the channel
    Wants,       \* sizes of the buffers they read into
    Lens,        \* payload lengths the device writes
    StreamLen,   \* bound: bytes the device has to send
    MaxWire,     \* bound: packets in flight toward the host
    Conforming,  \* may the device keep to its flow control, may it not?
    Faults       \* the faults that may happen, a subset of FaultKinds

FaultKinds == {"drop", "gone", "writeError", "readerDrop", "close"}

ASSUME RxFlowAssumption ==
    /\ Wants \subseteq Nat
    /\ Lens \subseteq 0 .. MaxPayload
    /\ StreamLen \in Nat
    /\ MaxWire \in Nat \ {0}
    /\ Conforming \subseteq BOOLEAN
    /\ Faults \subseteq FaultKinds
    /\ \A t \in Tasks : t \notin {"free", "reader", "other"}

VARIABLES
    slot,     \* the channel's slot, under the lock of the channel table
    device,   \* the device's end: what it sent, saw acknowledged, may send
    wire,     \* packets in flight to the host
    back,     \* packets in flight to the device: OKAYs, or the CLSE of a failed channel
    owed,     \* Shared::owed: OKAYs and CLSEs recorded and not yet written
    reader,   \* Reader::run: where it is, and the debt it is about to record
    task,     \* each task: where its read is, its buffer, its listener
    wh,       \* who holds the write half
    acked,    \* bytes acknowledged by OKAYs written so far
    arrived,  \* bytes of WRTEs received, dropped ones included
    got,      \* bytes ever pushed into rx_buf
    taken,    \* bytes handed to the application
    desync,   \* Shared::desync
    stopped,  \* Shared::stopped
    gone      \* the transport failed: writes fail, reads drain then end

vars == <<slot, device, wire, back, owed, reader, task, wh, acked, arrived,
          got, taken, desync, stopped, gone>>

OweClose == -2    \* Owed::Close of this channel; Owed::Okay is its length

IdleTask == [pc |-> "idle", want |-> 0, listener |-> "none", ack |-> NoAck]

TaskStates == [pc : {"idle", "take", "none", "park", "lock", "send"},
               want : Wants \cup {0}, listener : {"none", "armed", "notified"},
               ack : Nat \cup {NoAck}]

ReaderStates == [pc : {"recv", "fail", "wake", "owe", "pay", "paying", "done"},
                 debt : Nat \cup {NoAck, OweClose}]

DeviceStates == [conforming : BOOLEAN, sent : Nat, acked : Nat, ready : BOOLEAN, closed : BOOLEAN]

Inbound == [cmd : {"WRTE", "CLSE"}, upto : Nat]
Outbound == [cmd : {"OKAY", "CLSE"}, upto : Nat]

TypeOK ==
    /\ slot \in Slots
    /\ device \in DeviceStates
    /\ wire \in Seq(Inbound) /\ back \in Seq(Outbound)
    /\ owed \in Seq(Nat \cup {OweClose})
    /\ reader \in ReaderStates
    /\ task \in [Tasks -> TaskStates]
    /\ wh \in Tasks \cup {"free", "reader", "other"}
    /\ acked \in Nat /\ arrived \in Nat /\ got \in Nat /\ taken \in Nat
    /\ desync \in BOOLEAN /\ stopped \in BOOLEAN /\ gone \in BOOLEAN

(* Shared::check_live fails.                                               *)
has_ended == desync \/ stopped

(* FlowSignal::wake on the channel's signal, from its listeners' side.     *)
wake(ts) ==
    [t \in Tasks |-> IF ts[t].listener = "armed"
                     THEN [ts[t] EXCEPT !.listener = "notified"] ELSE ts[t]]

Init ==
    /\ \E ack \in AckModes : slot = accepted(1, 1, 0, ack)
    /\ \E c \in Conforming : device = [conforming |-> c, sent |-> 0, acked |-> 0, ready |-> TRUE,
                                      closed |-> FALSE]
    /\ wire = <<>> /\ back = <<>> /\ owed = <<>>
    /\ reader = [pc |-> "recv", debt |-> NoAck]
    /\ task = [t \in Tasks |-> IdleTask]
    /\ wh = "free"
    /\ acked = 0 /\ arrived = 0 /\ got = 0 /\ taken = 0
    /\ desync = FALSE /\ stopped = FALSE /\ gone = FALSE

-----------------------------------------------------------------------------
(* The device (external).  With delayed ACK it writes while it has a byte  *)
(* of credit left, a full packet if it likes; without, it waits for an     *)
(* OKAY after each WRTE.                                                   *)

device_may_write ==
    \/ ~device.conforming
    \/ slot.ack = "Delayed" /\ advertised_ack_bytes + device.acked > device.sent
    \/ slot.ack = "Classic" /\ device.ready

DeviceWrite ==
    /\ ~device.closed /\ ~gone /\ device_may_write /\ Len(wire) < MaxWire
    /\ \E len \in Lens :
         /\ device.sent + len <= StreamLen
         /\ wire' = Append(wire, [cmd |-> "WRTE", upto |-> device.sent + len])
         /\ device' = [device EXCEPT !.sent = @ + len, !.ready = FALSE]
    /\ UNCHANGED <<slot, back, owed, reader, task, wh, acked, arrived, got,
                   taken, desync, stopped, gone>>

DeviceReceive ==
    /\ back # <<>>
    /\ back' = Tail(back)
    /\ device' = IF Head(back).cmd = "CLSE" THEN [device EXCEPT !.closed = TRUE]
                 ELSE [device EXCEPT !.acked = Head(back).upto, !.ready = TRUE]
    /\ UNCHANGED <<slot, wire, owed, reader, task, wh, acked, arrived, got,
                   taken, desync, stopped, gone>>

DeviceClose ==
    /\ "close" \in Faults /\ ~device.closed /\ ~gone /\ Len(wire) < MaxWire
    /\ wire' = Append(wire, [cmd |-> "CLSE", upto |-> device.sent])
    /\ device' = [device EXCEPT !.closed = TRUE]
    /\ UNCHANGED <<slot, back, owed, reader, task, wh, acked, arrived, got,
                   taken, desync, stopped, gone>>

TransportFails ==
    /\ "gone" \in Faults /\ ~gone
    /\ gone' = TRUE
    /\ UNCHANGED <<slot, device, wire, back, owed, reader, task, wh, acked,
                   arrived, got, taken, desync, stopped>>

-----------------------------------------------------------------------------
(* Reader::run.                                                            *)

(* act_on for a WRTE of the channel: ChannelTable::dispatch under the      *)
(* table's lock.  A failed channel's packets are dropped, and so is one    *)
(* that overflows: under run that fails the channel.                       *)
ReceiveWrite ==
    /\ reader.pc = "recv" /\ ~has_ended /\ owed = <<>>
    /\ wire # <<>> /\ Head(wire).cmd = "WRTE"
    /\ LET len == Head(wire).upto - arrived
       IN \/ /\ slot.failed
             /\ UNCHANGED <<slot, got, reader>>
          \/ /\ ~slot.failed /\ rx_overflows(slot, len)
             /\ reader' = [pc |-> "fail", debt |-> NoAck]
             /\ UNCHANGED <<slot, got>>
          \/ /\ ~slot.failed /\ ~rx_overflows(slot, len)
             /\ slot' = apply_write(slot, len)
             /\ got' = got + len
             /\ reader' = [pc |-> "wake",
                           debt |-> IF acks_write_now(slot, len) THEN len ELSE NoAck]
    /\ arrived' = Head(wire).upto
    /\ wire' = Tail(wire)
    /\ UNCHANGED <<device, back, owed, task, wh, acked, taken, desync, stopped, gone>>

(* Faulty form: the channel is closed and not marked as failed.            *)
FailChannelOpenly ==
    /\ reader.pc = "fail"
    /\ slot' = apply_close(slot)
    /\ reader' = [pc |-> "wake", debt |-> OweClose]
    /\ UNCHANGED <<device, wire, back, owed, task, wh, acked, arrived, got, taken,
                   desync, stopped, gone>>

(* Shared::fail_channel, which takes the table's lock anew.                *)
FailChannel ==
    /\ reader.pc = "fail"
    /\ slot' = fail(slot)
    /\ reader' = [pc |-> "wake", debt |-> OweClose]
    /\ UNCHANGED <<device, wire, back, owed, task, wh, acked, arrived, got, taken,
                   desync, stopped, gone>>

ReceiveClose ==
    /\ reader.pc = "recv" /\ ~has_ended /\ owed = <<>>
    /\ wire # <<>> /\ Head(wire).cmd = "CLSE"
    /\ slot' = apply_close(slot)
    /\ reader' = [pc |-> "wake", debt |-> NoAck]
    /\ wire' = Tail(wire)
    /\ UNCHANGED <<device, back, owed, task, wh, acked, arrived, got, taken,
                   desync, stopped, gone>>

(* The channel's signal is woken once the table is unlocked.               *)
ReaderWake ==
    /\ reader.pc = "wake"
    /\ task' = wake(task)
    /\ reader' = [reader EXCEPT !.pc = IF reader.debt = NoAck THEN "recv" ELSE "owe"]
    /\ UNCHANGED <<slot, device, wire, back, owed, wh, acked, arrived, got,
                   taken, desync, stopped, gone>>

ReaderOwe ==
    /\ reader.pc = "owe"
    /\ owed' = Append(owed, reader.debt)
    /\ reader' = [pc |-> "pay", debt |-> NoAck]
    /\ UNCHANGED <<slot, device, wire, back, task, wh, acked, arrived, got,
                   taken, desync, stopped, gone>>

(* Shared::pay: nothing to do once the connection ended or somebody else   *)
(* paid; otherwise it waits for the write half.                            *)
ReaderPay ==
    /\ reader.pc = "pay"
    /\ IF has_ended \/ owed = <<>>
       THEN reader' = [reader EXCEPT !.pc = "recv"] /\ wh' = wh
       ELSE wh = "free" /\ wh' = "reader" /\ reader' = [reader EXCEPT !.pc = "paying"]
    /\ UNCHANGED <<slot, device, wire, back, owed, task, acked, arrived, got,
                   taken, desync, stopped, gone>>

(* The reception ends: the connection ended elsewhere, the transport ran   *)
(* dry after failing, or the application dropped the future.  Dropping it  *)
(* in the middle of an OKAY desynchronizes the connection (ArmedWrite).    *)
ReaderEnds ==
    /\ \/ reader.pc = "recv" /\ (has_ended \/ (gone /\ wire = <<>>))
       \/ "readerDrop" \in Faults /\ reader.pc \in {"recv", "pay", "paying"}
    /\ desync' = (desync \/ (reader.pc = "paying" /\ owed # <<>>))
    /\ stopped' = TRUE
    /\ wh' = IF wh = "reader" THEN "free" ELSE wh
    /\ reader' = [pc |-> "done", debt |-> NoAck]
    /\ task' = wake(task)
    /\ UNCHANGED <<slot, device, wire, back, owed, acked, arrived, got, taken, gone>>

-----------------------------------------------------------------------------
(* Shared::lock_write pays every debt, front first, before its caller may  *)
(* write.  "other" is a write, an open or a close on another channel.      *)

OtherLocks ==
    /\ wh = "free"
    /\ wh' = "other"
    /\ UNCHANGED <<slot, device, wire, back, owed, reader, task, acked, arrived,
                   got, taken, desync, stopped, gone>>

Okay(upto) == [cmd |-> "OKAY", upto |-> upto]
Clse == [cmd |-> "CLSE", upto |-> 0]

(* One debt is written.  A device that is gone is owed nothing; any other  *)
(* failure, or a drop in the middle, desynchronizes and keeps the debt.    *)
PayDebt(holder) ==
    /\ wh = holder /\ owed # <<>> /\ ~desync
    /\ \/ /\ ~gone
          /\ acked' = IF Head(owed) = OweClose THEN acked ELSE acked + Head(owed)
          /\ back' = Append(back, IF Head(owed) = OweClose THEN Clse ELSE Okay(acked'))
          /\ owed' = Tail(owed)
          /\ UNCHANGED desync
       \/ /\ gone
          /\ owed' = <<>>
          /\ UNCHANGED <<acked, back, desync>>
       \/ /\ "writeError" \in Faults
          /\ desync' = TRUE
          /\ UNCHANGED <<acked, back, owed>>
    /\ UNCHANGED <<slot, device, wire, reader, task, wh, arrived, got, taken,
                   stopped, gone>>

(* The lock is released with the debts paid, or with the error of a debt   *)
(* that could not be: WriteLock wakes everybody on a desynchronized        *)
(* connection.                                                             *)
ReaderPaid ==
    /\ wh = "reader" /\ (owed = <<>> \/ desync)
    /\ wh' = "free"
    /\ reader' = [reader EXCEPT !.pc = "recv"]
    /\ task' = IF desync THEN wake(task) ELSE task
    /\ UNCHANGED <<slot, device, wire, back, owed, acked, arrived, got, taken,
                   desync, stopped, gone>>

OtherUnlocks ==
    /\ wh = "other" /\ (owed = <<>> \/ desync)
    /\ wh' = "free"
    /\ \/ UNCHANGED desync
       \/ "drop" \in Faults /\ desync' = TRUE
    /\ task' = IF desync' THEN wake(task) ELSE task
    /\ UNCHANGED <<slot, device, wire, back, owed, reader, acked, arrived, got,
                   taken, stopped, gone>>

-----------------------------------------------------------------------------
(* Writer::read_channel, as select_channel and Shared::take_buffered.      *)

StartRead(t) ==
    /\ task[t].pc = "idle"
    /\ \E want \in Wants : task' = [task EXCEPT ![t] = [IdleTask EXCEPT !.pc = "take", !.want = want]]
    /\ UNCHANGED <<slot, device, wire, back, owed, reader, wh, acked, arrived,
                   got, taken, desync, stopped, gone>>

(* One turn of take_buffered's loop, under the table's lock: what is there *)
(* is taken at once when it needs no OKAY or can have none.                *)
Take(t) ==
    /\ task[t].pc = "take"
    /\ IF ~has_ended /\ take_acks(slot, task[t].want)
       THEN /\ task' = [task EXCEPT ![t] = [@ EXCEPT !.pc = "lock"]]
            /\ UNCHANGED <<slot, taken>>
       ELSE IF has_data(slot)
       THEN /\ slot' = take_buffered(slot, task[t].want)
            /\ taken' = taken + take_len(slot, task[t].want)
            /\ task' = [task EXCEPT ![t] = IdleTask]
       ELSE /\ task' = [task EXCEPT ![t] = IF is_closed(slot) \/ desync THEN IdleTask
                                           ELSE [@ EXCEPT !.pc = "none"]]
            /\ UNCHANGED <<slot, taken>>
    /\ UNCHANGED <<device, wire, back, owed, reader, wh, acked, arrived, got,
                   desync, stopped, gone>>

(* Faulty form: no second look before the wait.                            *)
ListenAndPark(t) ==
    /\ task[t].pc = "none"
    /\ task' = [task EXCEPT ![t] = IF has_ended THEN IdleTask
                                   ELSE [@ EXCEPT !.listener = "armed", !.pc = "park"]]
    /\ UNCHANGED <<slot, device, wire, back, owed, reader, wh, acked, arrived,
                   got, taken, desync, stopped, gone>>

(* Nothing there: fail if nothing can come, else listen and look again,    *)
(* and only wait once nothing came in between.                             *)
Listen(t) ==
    /\ task[t].pc = "none"
    /\ task' = [task EXCEPT ![t] =
                  IF has_ended THEN IdleTask
                  ELSE IF @.listener = "none"
                  THEN [@ EXCEPT !.listener = "armed", !.pc = "take"]
                  ELSE [@ EXCEPT !.pc = "park"]]
    /\ UNCHANGED <<slot, device, wire, back, owed, reader, wh, acked, arrived,
                   got, taken, desync, stopped, gone>>

Wakes(t) ==
    /\ task[t].pc = "park" /\ task[t].listener = "notified"
    /\ task' = [task EXCEPT ![t] = [@ EXCEPT !.listener = "none", !.pc = "take"]]
    /\ UNCHANGED <<slot, device, wire, back, owed, reader, wh, acked, arrived,
                   got, taken, desync, stopped, gone>>

(* acknowledge_take: with the write half, set the bytes aside and start    *)
(* the OKAY.  Nothing to acknowledge any more, or an ended connection,     *)
(* gives the write half back.                                              *)
Settle(t) ==
    /\ task[t].pc = "lock" /\ wh = "free"
    /\ LET ack == IF has_ended THEN NoAck ELSE settle_ack(slot, task[t].want)
       IN IF ack = NoAck
          THEN /\ task' = [task EXCEPT ![t] = [@ EXCEPT !.pc = "take"]]
               /\ UNCHANGED <<slot, wh>>
          ELSE /\ slot' = settle_take(slot, task[t].want)
               /\ task' = [task EXCEPT ![t] = [@ EXCEPT !.pc = "send", !.ack = ack]]
               /\ wh' = t
    /\ UNCHANGED <<device, wire, back, owed, reader, acked, arrived, got, taken,
                   desync, stopped, gone>>

(* Faulty form: the wait for the write half is not raced with the end.     *)
SettleWaitsOn(t) ==
    /\ task[t].pc = "lock" /\ has_ended /\ wh = "free"
    /\ task' = [task EXCEPT ![t] = [@ EXCEPT !.pc = "take"]]
    /\ UNCHANGED <<slot, device, wire, back, owed, reader, wh, acked, arrived,
                   got, taken, desync, stopped, gone>>

(* The connection ended while the read waited for the write half.          *)
SettleCalledOff(t) ==
    /\ task[t].pc = "lock" /\ has_ended
    /\ task' = [task EXCEPT ![t] = [@ EXCEPT !.pc = "take"]]
    /\ UNCHANGED <<slot, device, wire, back, owed, reader, wh, acked, arrived,
                   got, taken, desync, stopped, gone>>

(* The OKAY is written, or not: its failure is not the read's.             *)
SendOkay(t) ==
    /\ task[t].pc = "send"
    /\ IF gone THEN UNCHANGED <<acked, back>>
       ELSE /\ acked' = acked + task[t].ack
            /\ back' = Append(back, Okay(acked'))
    /\ task' = [task EXCEPT ![t] = [@ EXCEPT !.pc = "take", !.ack = NoAck]]
    /\ wh' = "free"
    /\ UNCHANGED <<slot, device, wire, owed, reader, arrived, got, taken, desync,
                   stopped, gone>>

(* The OKAY fails halfway, or the call gives it up as the connection ends. *)
SendOkayFails(t) ==
    /\ task[t].pc = "send" /\ ("writeError" \in Faults \/ has_ended)
    /\ desync' = TRUE
    /\ task' = [wake(task) EXCEPT ![t] = [@ EXCEPT !.pc = "take", !.ack = NoAck]]
    /\ wh' = "free"
    /\ UNCHANGED <<slot, device, wire, back, owed, reader, acked, arrived, got,
                   taken, stopped, gone>>

(* The caller drops the read where it waits.  In the middle of the OKAY    *)
(* that abandons a packet.                                                 *)
DropRead(t) ==
    /\ "drop" \in Faults /\ task[t].pc \in {"park", "lock", "send"}
    /\ desync' = (desync \/ task[t].pc = "send")
    /\ wh' = IF wh = t THEN "free" ELSE wh
    /\ task' = [(IF task[t].pc = "send" THEN wake(task) ELSE task) EXCEPT ![t] = IdleTask]
    /\ UNCHANGED <<slot, device, wire, back, owed, reader, acked, arrived, got,
                   taken, stopped, gone>>

-----------------------------------------------------------------------------

DeviceNext == DeviceWrite \/ DeviceReceive \/ DeviceClose \/ TransportFails

ReaderNext == ReceiveWrite \/ FailChannel \/ ReceiveClose \/ ReaderWake \/ ReaderOwe
              \/ ReaderPay \/ PayDebt("reader") \/ ReaderPaid \/ ReaderEnds

OtherNext == OtherLocks \/ PayDebt("other") \/ OtherUnlocks

TaskNext(t) == StartRead(t) \/ Take(t) \/ Listen(t) \/ Wakes(t) \/ Settle(t)
               \/ SettleCalledOff(t) \/ SendOkay(t) \/ SendOkayFails(t) \/ DropRead(t)

Next == DeviceNext \/ ReaderNext \/ OtherNext \/ \E t \in Tasks : TaskNext(t)

Spec == Init /\ [][Next]_vars

(* The tasks are polled by an executor: a task that can move does.  The    *)
(* write half is an async_lock::Mutex, which hands itself to a waiter that *)
(* keeps losing it, so a waiter gets it in the end.  A caller that reads   *)
(* keeps reading.                                                          *)
TaskFairness ==
    \A t \in Tasks :
        /\ WF_vars(StartRead(t)) /\ WF_vars(Take(t)) /\ WF_vars(Listen(t))
        /\ WF_vars(Wakes(t)) /\ WF_vars(SettleCalledOff(t)) /\ WF_vars(SendOkayFails(t))

(* The transport moves packets and the device has data to send.            *)
FlowFairness ==
    /\ WF_vars(DeviceWrite) /\ WF_vars(DeviceReceive)
    /\ WF_vars(ReceiveWrite) /\ WF_vars(FailChannel) /\ WF_vars(ReceiveClose) /\ WF_vars(ReaderWake)
    /\ WF_vars(ReaderOwe) /\ SF_vars(ReaderPay) /\ WF_vars(PayDebt("reader"))
    /\ WF_vars(ReaderPaid) /\ WF_vars(PayDebt("other")) /\ WF_vars(OtherUnlocks)
    /\ \A t \in Tasks : SF_vars(Settle(t)) /\ WF_vars(SendOkay(t))

(* Nothing is assumed of the device, of the transport, or of whoever holds *)
(* the write half.                                                         *)
StalledSpec == Spec /\ TaskFairness

-----------------------------------------------------------------------------
(* Properties.                                                             *)

(* A device that keeps to the credit it was advertised, or to one WRTE per *)
(* OKAY, never trips the receive cap, whatever the application reads and   *)
(* when: config.rs lets it send a full packet on its last byte of credit   *)
(* or right after an OKAY sent one byte under the watermark.               *)
NoOverflow == device.conforming => ~slot.failed

(* The receive cap holds against any device: bytes nobody has acknowledged *)
(* stay within rx_cap (push_rx), and with the bytes set aside for a read   *)
(* under way the buffer never exceeds two caps.                            *)
HeldWithinCap ==
    /\ slot.settled <= slot.rx_buf
    /\ held(slot) <= rx_cap
    /\ slot.rx_buf <= 2 * rx_cap

(* The OKAY on its way out, in a task's hand, in the reader's or owed.     *)
OkayInHand ==
    (IF wh \in Tasks THEN task[wh].ack ELSE 0)
      + (IF reader.debt = NoAck THEN 0 ELSE reader.debt)
      + (IF owed = <<>> THEN 0 ELSE Head(owed))

(* Every byte received is acknowledged exactly once: while the channel is  *)
(* open and the connection lives, the bytes acknowledged, those an OKAY in *)
(* hand covers and those the slot still owes one for add up to what        *)
(* arrived (apply_write, settle_take, take_buffered, owe and pay).         *)
AckConservation ==
    slot.state = "Open" /\ ~has_ended /\ ~gone =>
        acked + OkayInHand + slot.unacked = got

(* The device's window comes back with the reads: with delayed ACK what is *)
(* not yet acknowledged is exactly what the application has not taken or   *)
(* had set aside, so credit is returned for exactly the bytes read.        *)
CreditFollowsReads ==
    slot.ack = "Delayed" /\ slot.state = "Open" /\ ~has_ended =>
        slot.unacked = held(slot)

B2N(b) == IF b THEN 1 ELSE 0

WriteInFlight == \E i \in DOMAIN wire : wire[i].cmd = "WRTE"

(* Without delayed ACK there is one token: the device may write, or its    *)
(* WRTE is in flight, or held back by the slot, or its OKAY is in hand, or *)
(* owed, or in flight.                                                     *)
Token ==
    B2N(device.ready) + B2N(WriteInFlight) + B2N(slot.unacked > 0)
      + B2N(reader.debt # NoAck) + Len(owed) + B2N(wh \in Tasks) + Len(back)

(* The token is never lost, or the device would stall, and never doubled,  *)
(* or it would overrun its window (apply_write, settle_take, owe, pay).    *)
OneToken ==
    slot.ack = "Classic" /\ slot.state = "Open" /\ ~has_ended /\ ~gone => Token = 1

(* Acknowledgements are exact: no byte is acknowledged twice or forgotten, *)
(* credit comes back as the application reads and, from a device that      *)
(* keeps to its flow control, the token is in one place.                   *)
AcksExact == CreditFollowsReads /\ (device.conforming => AckConservation /\ OneToken)

(* No wakeup is lost: a read parked on a listener nobody has notified has  *)
(* nothing to return, unless the one who changed that is about to notify   *)
(* it (select_channel looks again after it starts listening).              *)
NoLostWakeup ==
    \A t \in Tasks :
        task[t].pc = "park" /\ task[t].listener = "armed"
          /\ (has_data(slot) \/ is_closed(slot) \/ has_ended)
        => reader.pc = "wake" \/ (desync /\ wh \in {"reader", "other"})

(* Once a WRTE past the cap was dropped, nothing behind the gap is ever    *)
(* handed on: the channel fails and its later packets are not buffered.    *)
NothingAfterGap == [][arrived # got => got' = got]_vars

(* The inductive invariant behind NoOverflow and HeldWithinCap, in parts.  *)

(* Who holds the write half, and what a slot in use looks like.            *)
HolderInv ==
    /\ \A t \in Tasks : task[t].pc = "send" => wh = t
    /\ wh \in Tasks => task[wh].pc = "send" /\ task[wh].ack # NoAck
    /\ reader.pc = "owe" => reader.debt # NoAck
    /\ has_ids(slot)
    /\ slot.settled <= slot.rx_buf /\ held(slot) <= rx_cap /\ slot.settled <= rx_cap

(* Packets in flight carry increasing positions between those of the ends. *)
WireInv ==
    /\ arrived <= device.sent
    /\ \A i \in DOMAIN wire : arrived <= wire[i].upto /\ wire[i].upto <= device.sent
    /\ \A i, j \in DOMAIN wire : i <= j => wire[i].upto <= wire[j].upto

BackInv ==
    /\ device.acked <= acked
    /\ \A i \in DOMAIN back :
          back[i].cmd = "OKAY" => device.acked <= back[i].upto /\ back[i].upto <= acked
    /\ \A i, j \in DOMAIN back :
          i <= j /\ back[j].cmd = "OKAY" => back[i].upto <= back[j].upto

(* No packet of a conforming device was ever dropped, so none is refused.  *)
IntactInv ==
    /\ ~slot.failed /\ reader.pc # "fail" /\ got = arrived
    /\ reader.debt # OweClose /\ owed \in Seq(Nat)
    /\ \A i \in DOMAIN back : back[i].cmd = "OKAY"

(* Delayed ACK: what is sent and not acknowledged fits the cap, and what   *)
(* is held was never acknowledged.                                         *)
DelayedInv ==
    /\ reader.debt = NoAck /\ owed = <<>>
    /\ device.sent <= rx_cap + device.acked
    /\ acked + (IF wh \in Tasks THEN task[wh].ack ELSE 0) + held(slot) <= got

TokenElsewhere ==
    \/ device.ready \/ WriteInFlight \/ reader.debt # NoAck \/ owed # <<>>
    \/ wh \in Tasks \/ back # <<>>

(* Classic: the token is in one place, and wherever but in the slot it is, *)
(* the slot is under its watermark.                                        *)
ClassicInv ==
    /\ Token <= 1
    /\ TokenElsewhere => held(slot) < rx_watermark
    /\ ~device.closed => /\ \A i \in DOMAIN wire : wire[i].cmd = "WRTE"
                         /\ device.sent = IF wire = <<>> THEN arrived ELSE wire[Len(wire)].upto
    /\ \A i \in DOMAIN wire : wire[i].cmd = "WRTE" => i = 1 /\ wire[i].upto <= arrived + MaxPayload

(* Why a conforming device never overflows the buffer, as one invariant:   *)
(* credit and watermark leave room for one full packet at any time.        *)
FlowInv ==
    /\ HolderInv /\ WireInv
    /\ device.conforming => /\ BackInv /\ IntactInv
                            /\ slot.ack = "Delayed" => DelayedInv
                            /\ slot.ack = "Classic" => ClassicInv

(* Callers drop only so many reads.                                        *)
Patience == <>[][\A t \in Tasks : ~DropRead(t)]_vars

(* Nobody waits for good: with a transport that moves, the device gets all *)
(* of its data out or closes the channel, and every byte it sent is read,  *)
(* though each side's next move may wait for the other's OKAY or data and  *)
(* for the write half, unless the connection ends first.                   *)
AllRead ==
    FlowFairness /\ Patience =>
        <>(\/ (device.sent = StreamLen \/ device.closed) /\ taken = device.sent
           \/ has_ended \/ gone)

(* What arrived stays readable: once the connection failed, however it     *)
(* did, reads hand over everything buffered, even if the holder of the     *)
(* write half or the transport never moves again.                          *)
StaysReadable == has_ended ~> taken = got
=============================================================================
