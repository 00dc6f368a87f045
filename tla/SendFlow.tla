------------------------------ MODULE SendFlow ------------------------------
(***************************************************************************)
(* The send side of one open channel on a split connection: tasks write    *)
(* through clones of the Writer, queue for the credit the device grants,   *)
(* send a chunk under the write half, and may be dropped where they wait.  *)
(* Reader::run applies the device's READYs.  Bytes are counted.            *)
(***************************************************************************)
EXTENDS ChannelSlot, SendQueue, Sums, Sequences

CONSTANTS
    Writers,   \* tasks that write the channel
    MaxCalls,  \* bound: write_channel calls of each task
    Window,    \* the credit the device grants when the channel opens
    Scenarios  \* flow controls, how many tasks write, what they write, what may go wrong

FaultKinds == {"drop", "gone", "writeError", "readerDrop", "close", "shortReady", "free"}

ASSUME SendFlowAssumption ==
    /\ MaxCalls \in Nat
    /\ Window \in Nat
    /\ \A s \in Scenarios : /\ s.acks \subseteq AckModes /\ s.writers \in Nat
                             /\ s.amounts \subseteq Nat \ {0} /\ s.faults \subseteq FaultKinds
    /\ \A w \in Writers : w \notin {"free", "other"}

VARIABLES
    scenario, \* one of Scenarios
    slot,     \* the channel's slot, under the lock of the channel table
    freed,    \* close_channel has freed the slot
    queue,    \* the slot's send_queue
    writer,   \* each task: where its write is
    wh,       \* who holds the write half
    wire,     \* WRTEs in flight to the device, by length
    device,   \* what the device received and has not answered with a READY
    okays,    \* READYs in flight to the host, by credit
    reader,   \* Reader::run: "recv", "fail", "wake" or "done"
    closer,   \* close_channel: "no", "wake" or "done"
    desync,   \* Shared::desync
    stopped,  \* Shared::stopped
    gone      \* the transport failed

sendVars == <<scenario, slot, freed, queue, writer, wh, wire, device, okays, reader, closer,
              desync, stopped, gone>>

IdleWriter == [pc |-> "idle", calls |-> 0, left |-> 0, n |-> 0, place |-> 0,
               listener |-> "none"]

Queued == {"listen", "try", "none", "parked", "leave"}
Holding == {"more", "ids", "lock", "send", "finish", "refund"}
Pcs == {"idle", "enqueue", "leaveWake", "refundWake"} \cup Queued \cup Holding

Clse == -2

WriterStates ==
    [pc : Pcs, calls : 0 .. MaxCalls, left : Nat, n : Nat, place : Nat,
     listener : {"none", "armed", "notified"}]

TypeOK ==
    /\ slot \in Slots /\ freed \in BOOLEAN /\ queue \in Queues
    /\ writer \in [Writers -> WriterStates]
    /\ wh \in Writers \cup {"free", "other"}
    /\ wire \in Seq(Nat) /\ okays \in Seq(Nat \cup {ShortPayload, Clse})
    /\ device \in [bytes : Nat, writes : Nat, closed : BOOLEAN]
    /\ reader \in {"recv", "fail", "wake", "done"} /\ closer \in {"no", "wake", "done"}
    /\ desync \in BOOLEAN /\ stopped \in BOOLEAN /\ gone \in BOOLEAN

has_ended == desync \/ stopped

(* FlowSignal::wake on the channel's signal, from its listeners' side.     *)
wake(ws) ==
    [w \in Writers |-> IF ws[w].listener = "armed"
                       THEN [ws[w] EXCEPT !.listener = "notified"] ELSE ws[w]]

To(w, pc) == [writer EXCEPT ![w] = [@ EXCEPT !.pc = pc]]

Init ==
    /\ scenario \in Scenarios
    /\ \E ack \in scenario.acks : slot = accepted(1, 1, Window, ack)
    /\ freed = FALSE /\ queue = EmptyQueue
    /\ writer = [w \in Writers |-> IdleWriter]
    /\ wh = "free" /\ wire = <<>> /\ okays = <<>>
    /\ device = [bytes |-> 0, writes |-> 0, closed |-> FALSE]
    /\ reader = "recv" /\ closer = "no"
    /\ desync = FALSE /\ stopped = FALSE /\ gone = FALSE

-----------------------------------------------------------------------------
(* The device (external).  It answers a WRTE with a READY, and with        *)
(* delayed ACK it returns the credit of the bytes it consumed, in portions *)
(* of its choice.                                                          *)

DeviceReceive ==
    /\ wire # <<>>
    /\ wire' = Tail(wire)
    /\ device' = [device EXCEPT !.bytes = @ + Head(wire), !.writes = @ + 1]
    /\ UNCHANGED <<scenario, slot, freed, queue, writer, wh, okays, reader, closer, desync, stopped, gone>>

DeviceReady ==
    /\ ~device.closed /\ ~gone /\ device.writes > 0
    /\ \E credit \in IF slot.ack = "Delayed" THEN 1 .. device.bytes ELSE {device.bytes} :
         /\ okays' = Append(okays, credit)
         /\ device' = [device EXCEPT !.bytes = @ - credit,
                                     !.writes = IF device.bytes = credit THEN 0 ELSE @]
    /\ UNCHANGED <<scenario, slot, freed, queue, writer, wh, wire, reader, closer, desync, stopped, gone>>

(* The device closes the channel, or sends a READY with no credit in it,   *)
(* which is a protocol error with delayed ACK.                             *)
DeviceClose ==
    /\ ~device.closed /\ ~gone
    /\ \/ "close" \in scenario.faults /\ okays' = Append(okays, Clse)
       \/ "shortReady" \in scenario.faults /\ slot.ack = "Delayed" /\ okays' = Append(okays, ShortPayload)
    /\ device' = [device EXCEPT !.closed = TRUE]
    /\ UNCHANGED <<scenario, slot, freed, queue, writer, wh, wire, reader, closer, desync, stopped, gone>>

TransportFails ==
    /\ "gone" \in scenario.faults /\ ~gone
    /\ gone' = TRUE
    /\ UNCHANGED <<scenario, slot, freed, queue, writer, wh, wire, device, okays, reader, closer,
                   desync, stopped>>

-----------------------------------------------------------------------------
(* Reader::run: dispatch under the table's lock, then the wake.            *)

Receive ==
    /\ reader = "recv" /\ ~has_ended /\ okays # <<>>
    /\ okays' = Tail(okays)
    /\ \/ /\ freed \/ (slot.failed /\ Head(okays) # Clse)
          /\ UNCHANGED <<slot, reader>>
       \/ /\ ~freed /\ Head(okays) = Clse
          /\ slot' = apply_close(slot) /\ reader' = "wake"
       \/ /\ ~freed /\ ~slot.failed /\ Head(okays) # Clse
          /\ IF ready_is_short(slot, Head(okays))
             THEN reader' = "fail" /\ UNCHANGED slot
             ELSE reader' = "wake" /\ slot' = apply_ready(slot, Head(okays))
    /\ UNCHANGED <<scenario, freed, queue, writer, wh, wire, device, closer, desync, stopped, gone>>

(* Shared::fail_channel.                                                   *)
FailChannel ==
    /\ reader = "fail"
    /\ IF freed THEN reader' = "recv" /\ UNCHANGED slot
                ELSE reader' = "wake" /\ slot' = fail(slot)
    /\ UNCHANGED <<scenario, freed, queue, writer, wh, wire, device, okays, closer, desync, stopped, gone>>

(* Faulty form: credit arrives and nobody is woken.                        *)
ReaderWakesNobody ==
    /\ reader = "wake"
    /\ reader' = "recv"
    /\ UNCHANGED <<scenario, slot, freed, queue, writer, wh, wire, device, okays, closer, desync,
                   stopped, gone>>

ReaderWake ==
    /\ reader = "wake"
    /\ reader' = "recv" /\ writer' = wake(writer)
    /\ UNCHANGED <<scenario, slot, freed, queue, wh, wire, device, okays, closer, desync, stopped, gone>>

ReaderEnds ==
    /\ reader = "recv"
    /\ has_ended \/ (gone /\ okays = <<>>) \/ "readerDrop" \in scenario.faults
    /\ reader' = "done" /\ stopped' = TRUE /\ writer' = wake(writer)
    /\ UNCHANGED <<scenario, slot, freed, queue, wh, wire, device, okays, closer, desync, gone>>

-----------------------------------------------------------------------------
(* close_channel_via frees the slot, with its queue, and then wakes.       *)

Close ==
    /\ "free" \in scenario.faults /\ closer = "no" /\ ~desync
    /\ freed' = TRUE /\ closer' = "wake"
    /\ UNCHANGED <<scenario, slot, queue, writer, wh, wire, device, okays, reader, desync, stopped, gone>>

(* Faulty form: the close wakes nobody.                                    *)
CloseWakesNobody ==
    /\ closer = "wake"
    /\ closer' = "done"
    /\ UNCHANGED <<scenario, slot, freed, queue, writer, wh, wire, device, okays, reader, desync,
                   stopped, gone>>

CloseWakes ==
    /\ closer = "wake"
    /\ closer' = "done" /\ writer' = wake(writer)
    /\ UNCHANGED <<scenario, slot, freed, queue, wh, wire, device, okays, reader, desync, stopped, gone>>

-----------------------------------------------------------------------------
(* Writer::write_channel and acquire_credit.                               *)

Start(w) ==
    /\ writer[w].pc = "idle" /\ writer[w].calls < MaxCalls /\ ~desync
    /\ Cardinality({v \in Writers : writer[v].calls > 0} \cup {w}) <= scenario.writers
    /\ \E len \in scenario.amounts :
         writer' = [writer EXCEPT ![w] = [IdleWriter EXCEPT !.pc = "enqueue", !.left = len,
                                                            !.calls = writer[w].calls + 1]]
    /\ UNCHANGED <<scenario, slot, freed, queue, wh, wire, device, okays, reader, closer, desync,
                   stopped, gone>>

Enqueue(w) ==
    /\ writer[w].pc = "enqueue"
    /\ IF freed \/ is_closed(slot)
       THEN writer' = To(w, "idle") /\ UNCHANGED queue
       ELSE /\ queue' = enqueue(queue)
            /\ writer' = [writer EXCEPT ![w] = [@ EXCEPT !.pc = "listen", !.place = queue.tail]]
    /\ UNCHANGED <<scenario, slot, freed, wh, wire, device, okays, reader, closer, desync, stopped, gone>>

Listen(w) ==
    /\ writer[w].pc = "listen"
    /\ writer' = [writer EXCEPT ![w] = [@ EXCEPT !.pc = "try", !.listener = "armed"]]
    /\ UNCHANGED <<scenario, slot, freed, queue, wh, wire, device, okays, reader, closer, desync,
                   stopped, gone>>

(* try_reserve under the table's lock.                                     *)
TryReserve(w) ==
    /\ writer[w].pc = "try"
    /\ IF freed \/ is_closed(slot)
       THEN writer' = To(w, "leave") /\ UNCHANGED <<slot, queue>>
       ELSE IF turn(queue) # writer[w].place \/ ~has_budget(slot)
       THEN writer' = To(w, "none") /\ UNCHANGED <<slot, queue>>
       ELSE LET n == reserve_len(slot, AtMost(writer[w].left, MaxPayload))
            IN /\ slot' = spend(slot, n)
               /\ queue' = serve(queue)
               /\ writer' = [writer EXCEPT ![w] =
                               [@ EXCEPT !.pc = IF has_budget(slot') THEN "more" ELSE "ids",
                                         !.n = n, !.listener = "none"]]
    /\ UNCHANGED <<scenario, freed, wh, wire, device, okays, reader, closer, desync, stopped, gone>>

(* Credit is left: the writer behind gets its turn.                        *)
WakeNext(w) ==
    /\ writer[w].pc = "more"
    /\ writer' = [wake(writer) EXCEPT ![w] = [@ EXCEPT !.pc = "ids"]]
    /\ UNCHANGED <<scenario, slot, freed, queue, wh, wire, device, okays, reader, closer, desync,
                   stopped, gone>>

(* No credit: fail if none can come, else wait.                            *)
Park(w) ==
    /\ writer[w].pc = "none"
    /\ writer' = To(w, IF has_ended THEN "leave" ELSE "parked")
    /\ UNCHANGED <<scenario, slot, freed, queue, wh, wire, device, okays, reader, closer, desync,
                   stopped, gone>>

Woken(w) ==
    /\ writer[w].pc = "parked" /\ writer[w].listener = "notified"
    /\ writer' = [writer EXCEPT ![w] = [@ EXCEPT !.pc = "listen", !.listener = "none"]]
    /\ UNCHANGED <<scenario, slot, freed, queue, wh, wire, device, okays, reader, closer, desync,
                   stopped, gone>>

(* QueueGuard's drop: the place is given up, and the next writer woken if  *)
(* its turn has come.                                                      *)
Leave(w) ==
    /\ writer[w].pc = "leave"
    /\ queue' = IF freed THEN queue ELSE leave(queue, writer[w].place)
    /\ writer' = [writer EXCEPT ![w] =
                    [@ EXCEPT !.listener = "none",
                              !.pc = IF ~freed /\ leave_moves_head(queue, writer[w].place)
                                     THEN "leaveWake" ELSE "idle"]]
    /\ UNCHANGED <<scenario, slot, freed, wh, wire, device, okays, reader, closer, desync, stopped, gone>>

LeaveWakes(w) ==
    /\ writer[w].pc = "leaveWake"
    /\ writer' = [wake(writer) EXCEPT ![w] = [@ EXCEPT !.pc = "idle"]]
    /\ UNCHANGED <<scenario, slot, freed, queue, wh, wire, device, okays, reader, closer, desync,
                   stopped, gone>>

(* channel_ids: a freed channel fails the write and drops its credit.      *)
GetIds(w) ==
    /\ writer[w].pc = "ids"
    /\ writer' = To(w, IF freed THEN "refund" ELSE "lock")
    /\ UNCHANGED <<scenario, slot, freed, queue, wh, wire, device, okays, reader, closer, desync,
                   stopped, gone>>

LockWrite(w) ==
    /\ writer[w].pc = "lock" /\ wh = "free"
    /\ wh' = w /\ writer' = To(w, "send")
    /\ UNCHANGED <<scenario, slot, freed, queue, wire, device, okays, reader, closer, desync,
                   stopped, gone>>

(* send_raw writes the whole WRTE, or refuses on a desynchronized          *)
(* connection (whose WriteLock wakes everybody), or finds the device gone. *)
SendChunk(w) ==
    /\ writer[w].pc = "send" /\ ~desync /\ ~gone
    /\ wire' = Append(wire, writer[w].n)
    /\ writer' = [writer EXCEPT ![w] = [@ EXCEPT !.pc = "finish", !.left = writer[w].left - writer[w].n]]
    /\ wh' = "free"
    /\ UNCHANGED <<scenario, slot, freed, queue, device, okays, reader, closer, desync, stopped, gone>>

SendRefused(w) ==
    /\ writer[w].pc = "send" /\ (desync \/ gone)
    /\ writer' = [(IF desync THEN wake(writer) ELSE writer) EXCEPT ![w] = [@ EXCEPT !.pc = "refund"]]
    /\ wh' = "free"
    /\ UNCHANGED <<scenario, slot, freed, queue, wire, device, okays, reader, closer, desync, stopped, gone>>

(* The packet is abandoned in the middle, by an error or by a drop; the    *)
(* device may have got all of it.                                          *)
SendAbandoned(w) ==
    /\ writer[w].pc = "send" /\ ~desync /\ scenario.faults \cap {"drop", "writeError"} # {}
    /\ desync' = TRUE
    /\ wire' \in {wire, Append(wire, writer[w].n)}
    /\ writer' = [wake(writer) EXCEPT ![w] = [@ EXCEPT !.pc = "refund"]]
    /\ wh' = "free"
    /\ UNCHANGED <<scenario, slot, freed, queue, device, okays, reader, closer, stopped, gone>>

(* CreditGuard's drop, committed: the writer no longer counts as sending.  *)
Finish(w) ==
    /\ writer[w].pc = "finish"
    /\ queue' = IF freed THEN queue ELSE finish(queue)
    /\ writer' = To(w, IF writer[w].left = 0 THEN "idle" ELSE "enqueue")
    /\ UNCHANGED <<scenario, slot, freed, wh, wire, device, okays, reader, closer, desync, stopped, gone>>

(* Faulty form: the credit is not given back.                              *)
RefundForgets(w) ==
    /\ writer[w].pc = "refund"
    /\ queue' = IF freed THEN queue ELSE finish(queue)
    /\ writer' = To(w, "refundWake")
    /\ UNCHANGED <<scenario, slot, freed, wh, wire, device, okays, reader, closer, desync, stopped, gone>>

(* CreditGuard's drop, not committed: credit goes back, then the wake.     *)
Refund(w) ==
    /\ writer[w].pc = "refund"
    /\ IF freed THEN UNCHANGED <<slot, queue>>
       ELSE queue' = finish(queue) /\ slot' = refund(slot, writer[w].n)
    /\ writer' = To(w, "refundWake")
    /\ UNCHANGED <<scenario, freed, wh, wire, device, okays, reader, closer, desync, stopped, gone>>

RefundWakes(w) ==
    /\ writer[w].pc = "refundWake"
    /\ writer' = [wake(writer) EXCEPT ![w] = [@ EXCEPT !.pc = "idle"]]
    /\ UNCHANGED <<scenario, slot, freed, queue, wh, wire, device, okays, reader, closer, desync,
                   stopped, gone>>

(* The caller drops the write while it waits.                              *)
DropWrite(w) ==
    /\ "drop" \in scenario.faults /\ writer[w].pc \in {"parked", "lock"}
    /\ writer' = To(w, IF writer[w].pc = "parked" THEN "leave" ELSE "refund")
    /\ UNCHANGED <<scenario, slot, freed, queue, wh, wire, device, okays, reader, closer, desync,
                   stopped, gone>>

(* Whoever else writes: an OKAY, an open, another channel.                 *)
OtherLocks ==
    /\ wh = "free"
    /\ wh' = "other"
    /\ UNCHANGED <<scenario, slot, freed, queue, writer, wire, device, okays, reader, closer, desync,
                   stopped, gone>>

OtherUnlocks ==
    /\ wh = "other"
    /\ wh' = "free"
    /\ \/ UNCHANGED desync
       \/ scenario.faults \cap {"drop", "writeError"} # {} /\ desync' = TRUE
    /\ writer' = IF desync' THEN wake(writer) ELSE writer
    /\ UNCHANGED <<scenario, slot, freed, queue, wire, device, okays, reader, closer, stopped, gone>>

-----------------------------------------------------------------------------

DeviceNext == DeviceReceive \/ DeviceReady \/ DeviceClose \/ TransportFails

HostNext == Receive \/ FailChannel \/ ReaderWake \/ ReaderEnds \/ Close \/ CloseWakes
            \/ OtherLocks \/ OtherUnlocks

WriterNext(w) ==
    \/ Start(w) \/ Enqueue(w) \/ Listen(w) \/ TryReserve(w) \/ WakeNext(w) \/ Park(w)
    \/ Woken(w) \/ Leave(w) \/ LeaveWakes(w) \/ GetIds(w) \/ LockWrite(w) \/ SendChunk(w)
    \/ SendRefused(w) \/ SendAbandoned(w) \/ Finish(w) \/ Refund(w) \/ RefundWakes(w)
    \/ DropWrite(w)

Next == DeviceNext \/ HostNext \/ \E w \in Writers : WriterNext(w)

Spec == Init /\ [][Next]_sendVars

(* A task that is not waiting moves on: it is polled by an executor, and   *)
(* the drops run to their end.  Whoever woke it had the same duty.         *)
StepFairness ==
    /\ WF_sendVars(ReaderWake) /\ WF_sendVars(FailChannel) /\ WF_sendVars(CloseWakes)
    /\ \A w \in Writers :
         /\ WF_sendVars(Enqueue(w)) /\ WF_sendVars(Listen(w)) /\ WF_sendVars(TryReserve(w))
         /\ WF_sendVars(WakeNext(w)) /\ WF_sendVars(Park(w)) /\ WF_sendVars(Woken(w))
         /\ WF_sendVars(Leave(w)) /\ WF_sendVars(LeaveWakes(w)) /\ WF_sendVars(GetIds(w))
         /\ WF_sendVars(Finish(w)) /\ WF_sendVars(Refund(w)) /\ WF_sendVars(RefundWakes(w))

(* The device answers, the transport moves, and the write half, an         *)
(* async_lock::Mutex, is handed to a waiter that keeps losing it.          *)
FlowFairness ==
    /\ WF_sendVars(DeviceReceive) /\ WF_sendVars(DeviceReady) /\ WF_sendVars(Receive)
    /\ WF_sendVars(OtherUnlocks)
    /\ \A w \in Writers : SF_sendVars(LockWrite(w)) /\ WF_sendVars(SendChunk(w))
                          /\ WF_sendVars(SendRefused(w))

(* Nothing is assumed of the device or of the holder of the write half.    *)
StalledSpec == Spec /\ StepFairness

-----------------------------------------------------------------------------
(* Properties.                                                             *)

Waiting == IF freed THEN {} ELSE {w \in Writers : writer[w].pc \in Queued}
Senders == {w \in Writers : writer[w].pc \in Holding}
InHand == {w \in Writers : writer[w].pc \in Holding \ {"finish"}}

(* The device is never sent more than it granted, whatever is dropped,     *)
(* refunded or abandoned halfway: the bytes it has not returned credit for *)
(* fit its window, and without delayed ACK at most one WRTE is unanswered  *)
(* ("Concurrent writers on the same channel never consume the same credit").*)
WithinWindow ==
    IF slot.ack = "Delayed" THEN Sum(wire) + device.bytes <= Window
                             ELSE Len(wire) + device.writes <= 1

InHands == [w \in InHand |-> writer[w].n]

(* Credit is neither lost nor doubled: while the channel is open and the   *)
(* connection in step, the budget, the credit in writers' hands, the bytes *)
(* in flight or with the device and the READYs in flight add up to what    *)
(* the device granted (try_reserve_send, CreditGuard, refund, apply_ready).*)
CreditConserved ==
    slot.state = "Open" /\ ~freed /\ ~device.closed /\ ~desync /\ ~gone =>
        IF slot.ack = "Delayed"
        THEN slot.send_budget + Sum(InHands) + Sum(wire) + device.bytes + Sum(okays) = Window
        ELSE (IF slot.wrte_acked THEN 1 ELSE 0) + Cardinality(InHand) + Len(wire)
               + device.writes + Len(okays) = 1

(* The tickets are those of the writers in the queue: no two share one,    *)
(* none is lost when others leave or the tail is reused, and the head is   *)
(* always somebody's turn, so that no credit waits for a ticket nobody has.*)
TicketsExact ==
    ~freed =>
        /\ \A v, w \in Waiting : writer[v].place = writer[w].place => v = w
        /\ {writer[w].place : w \in Waiting} = (queue.head .. queue.tail - 1) \ queue.gone
        /\ queue.gone \subseteq queue.head + 1 .. queue.tail - 1

(* Writer::waits_for_credit under the table's lock.                        *)
waits_for_credit ==
    /\ ~freed /\ ~is_closed(slot) /\ ~has_budget(slot)
    /\ ~is_empty(queue) /\ ~is_sending(queue)

(* waits_for_credit says what its doc says: writers wait for credit the    *)
(* channel does not have and none is still sending.  A caller with no task *)
(* for Reader::run decides on it when to read.                             *)
WaitsExact ==
    ~freed /\ ~is_closed(slot) =>
        (waits_for_credit <=> Waiting # {} /\ Senders = {} /\ ~has_budget(slot))

(* Somebody is about to wake the channel's signal.                         *)
WakePending ==
    \/ reader = "wake" \/ closer = "wake"
    \/ \E w \in Writers : writer[w].pc \in {"more", "leaveWake", "refundWake"}

(* No wakeup is lost: a writer parked on a listener nobody notified has    *)
(* nothing to do, or its wake is under way.  It has something to do when   *)
(* its turn has come and there is credit, and when none can come any more. *)
NoLostTurn ==
    \A w \in Writers :
        writer[w].pc = "parked" /\ writer[w].listener = "armed"
          /\ (freed \/ is_closed(slot) \/ has_ended
               \/ (turn(queue) = writer[w].place /\ has_budget(slot)))
        => WakePending

(* Credit is exact: the window kept, nothing lost or doubled.              *)
CreditExact == WithinWindow /\ CreditConserved

(* The queue is exact: tickets, what waits_for_credit tells, and turns.    *)
TurnsExact == TypeOK /\ TicketsExact /\ WaitsExact /\ NoLostTurn

(* Credit is granted in arrival order.                                     *)
Ahead == {p \in Waiting \X Waiting : writer[p[1]].place < writer[p[2]].place}

Fifo == INSTANCE FifoCredit WITH waiting <- Waiting, before <- Ahead, holding <- Senders

(* "credit is granted in arrival order: a writer looping back for its next *)
(* chunk queues behind the ones already waiting": the tickets implement a  *)
(* first-come first-served queue, though writers give up anywhere in it.   *)
GrantedInOrder == Fifo!FifoSpec

(* Nobody starves: with a device that answers and a transport that moves,  *)
(* every write call returns, whatever the others give up or lose.          *)
EveryWriteEnds ==
    FlowFairness => \A w \in Writers : []<>(writer[w].pc = "idle" \/ gone)

(* "Any cloned Writer parked on this channel observes ChannelClosed and    *)
(* unblocks": once the channel is closed or the connection over, no writer *)
(* stays in the queue, whatever the holder of the write half does.         *)
ClosedUnblocks ==
    \A w \in Writers :
        (freed \/ is_closed(slot) \/ has_ended) /\ writer[w].pc \in Queued
          ~> writer[w].pc \notin Queued
=============================================================================
