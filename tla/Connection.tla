------------------------------ MODULE Connection ------------------------------
(***************************************************************************)
(* A connection driven by a single task (base/connection.rs): every call   *)
(* borrows the whole Connection, so there is at most one at a time, and    *)
(* whichever call is reading handles the packets of every channel.  A call *)
(* stops at each await, where its future may be dropped: waiting for a     *)
(* packet ("recv"), or inside a frame it writes ("send").                  *)
(*                                                                         *)
(* A channel is known by the device's id for it.  What the host writes     *)
(* reaches the device at once: a packet that takes its time there is a     *)
(* device that takes its time to act.  Payload bytes are numbered per      *)
(* channel, <<id, n>>.                                                     *)
(***************************************************************************)
EXTENDS ChannelSlot, IncomingQueue, Sums

CONSTANTS
    Opens,        \* the device's ids for the channels the host opens
    Requests,     \* the device's ids for the channels it opens itself
    Grant,        \* credit the device gives with a READY that opens a channel
    Wants,        \* sizes of the caller's receive buffer
    MaxLocal,     \* bound: local ids handed out
    MaxWire,      \* bound: packets in flight to the host
    Scenarios     \* the faults that may happen together, and bounds: the channels
                  \* there are, config.max_channels, and the bytes the device
                  \* (bytes) and the host (writes) put on one

FaultKinds == {"drop", "gone", "writeError", "shortReady", "overrun", "withdraw"}

ASSUME ConnectionAssumption ==
    /\ Opens \cup Requests \subseteq Nat \ {0} /\ Opens \cap Requests = {}
    /\ {Grant, MaxLocal, MaxWire} \cup Wants \subseteq Nat \ {0}
    /\ Scenarios \subseteq [faults : SUBSET FaultKinds, ids : SUBSET (Opens \cup Requests),
                            channels : Nat \ {0}, bytes : Nat, writes : Nat]

VARIABLES
    ack,       \* the ack mode CNXN negotiated
    scenario,  \* one of Scenarios
    table,     \* the slots of ChannelTable, NoSlot where there is none
    stored,    \* the bytes of each slot's rx_buf
    next_local_id,
    queue,     \* IncomingQueue, by the device's id
    call,      \* the call in progress, or the one that ended last
    incoming,  \* the Incoming the application holds: its request and its slot
    in,        \* packets in flight to the host
    device,    \* the device's end of each channel
    handles,   \* every ChannelId the application was given, with its channel
    got,       \* the bytes read through each handle, by local id
    desync, gone,
    cut,       \* what the frame a write was abandoned in was for, "none" if there is none
    garbled    \* a frame was written after it

hostVars == <<table, stored, next_local_id, queue, call, incoming, handles, got>>
wireVars == <<in, device, desync, gone, cut, garbled>>
connVars == <<ack, scenario, hostVars, wireVars>>

Ids == Opens \cup Requests
Unused == {c \in Opens \cap scenario.ids : device[c].state = "unused"}
Positions == 1 .. scenario.channels
NoSlot == opening(0, "Classic")
NoChannel == [slot |-> 0, local |-> 0]
NoIncoming == [pending |-> 0, reserved |-> NoChannel]
NoFrame == [cmd |-> "none", local |-> 0, remote |-> 0, len |-> 0]
NoCall == [op |-> "none", pc |-> "idle", ch |-> NoChannel, want |-> 0, frame |-> NoFrame,
           after |-> "none", failing |-> FALSE, result |-> "none"]

Frame(cmd, local, remote, len) == [cmd |-> cmd, local |-> local, remote |-> remote, len |-> len]

(* Packet::close and Packet::refuse.                                       *)
close(local, remote) == Frame("CLSE", local, remote, 0)
refuse(remote) == close(0, remote)

(* A packet from the device; len is the credit of a READY.                 *)
Pkt(cmd, remote, local, data, len) ==
    [cmd |-> cmd, remote |-> remote, local |-> local, data |-> data, len |-> len]

credit == IF ack = "Delayed" THEN advertised_ack_bytes ELSE 0

Ops == {"none", "open", "read", "write", "accept", "answer", "close"}
Afters == {"none", "await", "taken", "delivered", "dispatched", "spent", "answered", "refused",
           "closed", "short"}
ChannelIds == [slot : 0 .. scenario.channels, local : 0 .. MaxLocal]
Frames == [cmd : {"none", "OPEN", "READY", "OKAY", "WRTE", "CLSE"}, local : 0 .. MaxLocal,
           remote : Ids \cup {0}, len : Nat]
CallStates ==
    [op : Ops, pc : {"idle", "take", "top", "recv", "send", "held"}, ch : ChannelIds, want : Nat,
     frame : Frames, after : Afters, failing : BOOLEAN, result : {"none", "ok", "err", "dropped"}]
Bytes == Ids \X Nat
Inbound == [cmd : {"OPEN", "READY", "WRTE", "CLSE"}, remote : Ids, local : 0 .. MaxLocal,
            data : Seq(Bytes), len : Int]
DeviceEnds == [state : {"unused", "asked", "offered", "open", "closed"}, local : 0 .. MaxLocal,
               asb : Int, sent : Nat, owes : Nat, has : Nat]

(* Every variable keeps its type.                                          *)
ConnTypeOK ==
    /\ ack \in AckModes /\ scenario \in Scenarios
    /\ table \in [Positions -> Slots] /\ stored \in [Positions -> Seq(Bytes)]
    /\ next_local_id \in 1 .. MaxLocal + 1 /\ queue \in Seq(Requests) /\ call \in CallStates
    /\ incoming \in [pending : Requests \cup {0}, reserved : ChannelIds]
    /\ in \in Seq(Inbound) /\ device \in [Ids -> DeviceEnds]
    /\ handles \subseteq [slot : Positions, local : 1 .. MaxLocal, remote : Ids]
    /\ got \in [1 .. MaxLocal -> Seq(Bytes)]
    /\ desync \in BOOLEAN /\ gone \in BOOLEAN /\ garbled \in BOOLEAN /\ cut \in Afters

Init ==
    /\ ack \in AckModes /\ scenario \in Scenarios
    /\ table = [i \in Positions |-> NoSlot] /\ stored = [i \in Positions |-> <<>>]
    /\ next_local_id = 1 /\ queue = <<>> /\ call = NoCall /\ incoming = NoIncoming
    /\ in = <<>>
    /\ device = [c \in Ids |-> [state |-> "unused", local |-> 0, asb |-> 0, sent |-> 0,
                                owes |-> 0, has |-> 0]]
    /\ handles = {} /\ got = [l \in 1 .. MaxLocal |-> <<>>]
    /\ desync = FALSE /\ gone = FALSE /\ cut = "none" /\ garbled = FALSE

-----------------------------------------------------------------------------
(* ChannelTable.                                                           *)

first(S) == CHOOSE k \in S : \A j \in S : k <= j

get(ch) == IF ch.slot \in Positions /\ table[ch.slot].local = ch.local
           THEN table[ch.slot] ELSE NoSlot

FreePositions == {i \in Positions : table[i] = NoSlot}
allocate == [slot |-> first(FreePositions), local |-> next_local_id]

(* The position of the channel a packet names by our id, or, in a CLSE     *)
(* without one, by the device's.                                           *)
Named(p) == {i \in Positions : /\ table[i] # NoSlot
                               /\ IF p.local = 0 THEN p.cmd = "CLSE" /\ table[i].remote = p.remote
                                                 ELSE table[i].local = p.local}

Outcome(t, b, q, frame, fault) ==
    [table |-> t, stored |-> b, queue |-> q, frame |-> frame, fault |-> fault]

(* dispatch of a packet that names a channel of the table.                 *)
DispatchTo(i, p) ==
    LET s == table[i]
        With(slot) == Outcome([table EXCEPT ![i] = slot], stored, queue, NoFrame, FALSE)
        Fault == Outcome(table, stored, queue, NoFrame, TRUE)
    IN CASE p.cmd = "WRTE" ->
              IF rx_overflows(s, Len(p.data)) THEN Fault
              ELSE Outcome([table EXCEPT ![i] = apply_write(s, Len(p.data))],
                           [stored EXCEPT ![i] = @ \o p.data], queue,
                           IF acks_write_now(s, Len(p.data))
                           THEN Frame("OKAY", s.local, s.remote, Len(p.data)) ELSE NoFrame, FALSE)
         [] p.cmd = "READY" -> IF ready_is_short(s, p.len) THEN Fault ELSE With(apply_ready(s, p.len))
         [] OTHER -> With(apply_close(s))

(* A packet that names none: an OPEN is queued, or refused when the queue  *)
(* is as long as the table; a CLSE withdraws one; a stray READY is a       *)
(* channel given up before its answer, and is closed.                      *)
DispatchOther(p) ==
    LET Same(q, frame) == Outcome(table, stored, q, frame, FALSE)
    IN CASE p.cmd = "OPEN" -> IF Len(queue) >= scenario.channels THEN Same(queue, refuse(p.remote))
                              ELSE Same(Append(queue, p.remote), NoFrame)
         [] p.cmd = "CLSE" /\ p.local = 0 -> Same(withdraw(queue, p.remote), NoFrame)
         [] p.cmd = "READY" -> Same(queue, close(p.local, p.remote))
         [] OTHER -> Same(queue, NoFrame)

dispatch(p) == IF Named(p) # {} THEN DispatchTo(first(Named(p)), p) ELSE DispatchOther(p)

-----------------------------------------------------------------------------
(* How a call moves on.                                                    *)

(* Of the calls that ended, only the last failed read is remembered.       *)
Returns(result) == IF call.op = "read" /\ result = "err"
                   THEN [NoCall EXCEPT !.op = "read", !.ch = call.ch, !.result = "err"] ELSE NoCall
Sends(frame, after) == [call EXCEPT !.pc = "send", !.frame = frame, !.after = after]
Starts(op, ch, want) == [NoCall EXCEPT !.op = op, !.ch = ch, !.want = want]

(* Where each call goes on after a packet that was not for it.             *)
Loop == [call EXCEPT !.pc = CASE call.op = "read" -> "take"
                              [] call.op \in {"write", "accept"} -> "top"
                              [] OTHER -> "recv",
                     !.frame = NoFrame, !.after = "none"]

(* ... and after one whose handling failed: a read still looks for data.   *)
LoopFailing == IF call.op = "read" THEN [Loop EXCEPT !.failing = TRUE] ELSE Returns("err")

Handle(ch, remote) == [slot |-> ch.slot, local |-> ch.local, remote |-> remote]

-----------------------------------------------------------------------------
(* The calls, up to their first await.  One that finds the connection      *)
(* desynchronized, the table full or the channel gone returns an error and *)
(* changes nothing; reads look at their channel first.                     *)

StartOpen ==
    /\ call.pc = "idle" /\ ~desync /\ FreePositions # {} /\ next_local_id <= MaxLocal
    /\ Unused # {}
    /\ call' = [Starts("open", allocate, 0) EXCEPT
                  !.pc = "send", !.after = "await",
                  !.frame = Frame("OPEN", next_local_id, 0, credit)]
    /\ next_local_id' = next_local_id + 1
    /\ UNCHANGED <<ack, scenario, table, stored, queue, incoming, handles, got, wireVars>>

StartRead ==
    /\ call.pc = "idle"
    /\ \E h \in handles, want \in Wants :
         call' = [Starts("read", [slot |-> h.slot, local |-> h.local], want) EXCEPT !.pc = "take"]
    /\ UNCHANGED <<ack, scenario, table, stored, next_local_id, queue, incoming, handles, got, wireVars>>

(* The device's `has` bounds what a channel is written.                    *)
StartWrite ==
    /\ call.pc = "idle" /\ ~desync
    /\ \E h \in handles : \E n \in 1 .. scenario.writes - device[h.remote].has :
         call' = [Starts("write", [slot |-> h.slot, local |-> h.local], n) EXCEPT !.pc = "top"]
    /\ UNCHANGED <<ack, scenario, table, stored, next_local_id, queue, incoming, handles, got, wireVars>>

StartAccept ==
    /\ call.pc = "idle" /\ ~desync
    /\ call' = [Starts("accept", NoChannel, 0) EXCEPT !.pc = "top"]
    /\ UNCHANGED <<ack, scenario, table, stored, next_local_id, queue, incoming, handles, got, wireVars>>

StartClose ==
    /\ call.pc = "idle" /\ ~desync
    /\ \E h \in handles :
         LET ch == [slot |-> h.slot, local |-> h.local]
         IN /\ get(ch) # NoSlot
            /\ table' = [table EXCEPT ![ch.slot] = NoSlot]
            /\ stored' = [stored EXCEPT ![ch.slot] = <<>>]
            /\ call' = [Starts("close", ch, 0) EXCEPT !.pc = "send", !.after = "closed",
                                                     !.frame = close(h.local, get(ch).remote)]
    /\ UNCHANGED <<ack, scenario, next_local_id, queue, incoming, handles, got, wireVars>>

(* try_accept_incoming, and accept_incoming at the top of its loop.        *)
HandOver ==
    /\ (queue # <<>> /\ call.pc = "idle") \/ (call.op = "accept" /\ call.pc = "top")
    /\ IF queue = <<>> THEN /\ call' = [call EXCEPT !.pc = "recv"]
                            /\ UNCHANGED <<queue, incoming>>
       ELSE /\ call' = [Starts("accept", NoChannel, 0) EXCEPT !.pc = "held"]
            /\ incoming' = [NoIncoming EXCEPT !.pending = Head(queue)]
            /\ queue' = Tail(queue)
    /\ UNCHANGED <<ack, scenario, table, stored, next_local_id, handles, got, wireVars>>

-----------------------------------------------------------------------------
(* Incoming.                                                               *)

Accept ==
    /\ call.pc = "held" /\ next_local_id <= MaxLocal
    /\ LET r == incoming.pending IN
       IF FreePositions = {}
       THEN /\ call' = [Starts("answer", NoChannel, 0) EXCEPT !.pc = "send", !.frame = refuse(r),
                                                             !.after = "refused"]
            /\ UNCHANGED <<table, next_local_id, incoming>>
       ELSE /\ table' = [table EXCEPT ![allocate.slot] = accepted(next_local_id, r, Grant, ack)]
            /\ next_local_id' = next_local_id + 1
            /\ incoming' = [incoming EXCEPT !.reserved = allocate]
            /\ call' = [Starts("answer", allocate, 0) EXCEPT
                          !.pc = "send", !.after = "answered",
                          !.frame = Frame("READY", next_local_id, r, credit)]
    /\ UNCHANGED <<ack, scenario, stored, queue, handles, got, wireVars>>

Reject ==
    /\ call.pc = "held"
    /\ call' = [Starts("answer", NoChannel, 0) EXCEPT !.pc = "send", !.after = "answered",
                                                     !.frame = refuse(incoming.pending)]
    /\ UNCHANGED <<ack, scenario, table, stored, next_local_id, queue, incoming, handles, got, wireVars>>

(* Faulty form: the request goes with the object.                          *)
DropIncomingForgets(t, q) ==
    /\ table' = IF incoming.reserved = NoChannel THEN t
                ELSE [t EXCEPT ![incoming.reserved.slot] = NoSlot]
    /\ queue' = q
    /\ incoming' = NoIncoming

(* Incoming's drop: the slot goes, a request not answered goes back first. *)
DropIncoming(t, q) ==
    /\ table' = IF incoming.reserved = NoChannel THEN t
                ELSE [t EXCEPT ![incoming.reserved.slot] = NoSlot]
    /\ queue' = IF incoming.pending = 0 THEN q ELSE <<incoming.pending>> \o q
    /\ incoming' = NoIncoming

Undecided ==
    /\ call.pc = "held"
    /\ DropIncoming(table, queue)
    /\ call' = Returns("ok")
    /\ UNCHANGED <<ack, scenario, stored, next_local_id, handles, got, wireVars>>

-----------------------------------------------------------------------------
(* take_buffered, and write_channel at the top of its loop.                *)

HandsOver(data) == got' = [got EXCEPT ![call.ch.local] = @ \o data]

Taken ==
    LET s == get(call.ch)
        n == take_len(s, call.want)
    IN /\ HandsOver(SubSeq(stored[call.ch.slot], 1, n))
       /\ stored' = [stored EXCEPT ![call.ch.slot] = SubSeq(@, n + 1, Len(@))]
       /\ table' = [table EXCEPT ![call.ch.slot] = take_buffered(s, call.want)]
       /\ call' = Returns("ok")

Take ==
    /\ call.pc = "take"
    /\ LET s == get(call.ch) IN
       \/ /\ ~has_data(s) /\ (desync \/ s = NoSlot \/ is_closed(s) \/ call.failing)
          /\ call' = Returns("err")
          /\ UNCHANGED <<table, stored, got>>
       \/ /\ has_data(s) /\ settle_ack(s, call.want) # NoAck
          /\ table' = [table EXCEPT ![call.ch.slot] = settle_take(s, call.want)]
          /\ call' = Sends(Frame("OKAY", s.local, s.remote, settle_ack(s, call.want)), "taken")
          /\ UNCHANGED <<stored, got>>
       \/ has_data(s) /\ settle_ack(s, call.want) = NoAck /\ Taken
       \/ /\ ~has_data(s) /\ ~desync /\ s # NoSlot /\ ~is_closed(s) /\ ~call.failing
          /\ call' = [call EXCEPT !.pc = "recv"]
          /\ UNCHANGED <<table, stored, got>>
    /\ UNCHANGED <<ack, scenario, next_local_id, queue, incoming, handles, wireVars>>

(* What write_channel sends next: bounded by the payload and the budget.   *)
chunk(s) == AtMost(AtMost(call.want, MaxPayload),
                   IF s.ack = "Delayed" THEN s.send_budget ELSE MaxPayload)

(* Faulty form: a channel known to be closed is waited for.                *)
ChunkWaits ==
    /\ call.pc = "top" /\ call.op = "write"
    /\ LET s == get(call.ch) IN
       call' = IF s = NoSlot THEN Returns("err")
               ELSE IF has_budget(s) THEN Sends(Frame("WRTE", s.local, s.remote, chunk(s)), "spent")
               ELSE [call EXCEPT !.pc = "recv"]
    /\ UNCHANGED <<ack, scenario, table, stored, next_local_id, queue, incoming, handles, got, wireVars>>

(* wait_ack, and the send that follows it.                                 *)
Chunk ==
    /\ call.pc = "top" /\ call.op = "write"
    /\ LET s == get(call.ch) IN
       call' = IF s = NoSlot \/ is_closed(s) THEN Returns("err")
               ELSE IF has_budget(s) THEN Sends(Frame("WRTE", s.local, s.remote, chunk(s)), "spent")
               ELSE [call EXCEPT !.pc = "recv"]
    /\ UNCHANGED <<ack, scenario, table, stored, next_local_id, queue, incoming, handles, got, wireVars>>

-----------------------------------------------------------------------------
(* send_frame: what the write comes to, and how each call goes on.         *)

(* What a frame does to the device's end.                                  *)
DeviceGets(f) ==
    CASE f.cmd = "OPEN" ->
           [device EXCEPT ![first(Unused)] =
              [@ EXCEPT !.state = "asked", !.local = f.local,
                        !.asb = IF ack = "Delayed" THEN f.len ELSE 1]]
      [] f.cmd = "READY" ->
           IF device[f.remote].state # "offered" THEN device
           ELSE [device EXCEPT ![f.remote] = [@ EXCEPT !.state = "open", !.local = f.local,
                                              !.asb = IF ack = "Delayed" THEN f.len ELSE 1]]
      [] f.cmd = "OKAY" -> [device EXCEPT ![f.remote].asb = @ + IF ack = "Delayed" THEN f.len ELSE 1]
      [] f.cmd = "WRTE" -> [device EXCEPT ![f.remote].has = @ + f.len, ![f.remote].owes = @ + f.len]
      [] OTHER -> [device EXCEPT ![f.remote].state = "closed"]

(* The call after its frame, written, lost with the device, or failed.     *)
AfterSend(sent) ==
    CASE call.after = "taken" -> Taken /\ UNCHANGED <<queue, incoming, handles>>
      [] call.after = "delivered" ->
           call' = Returns("ok") /\ UNCHANGED <<table, stored, queue, incoming, handles, got>>
      [] call.after = "dispatched" ->
           /\ call' = IF sent = "failed" THEN LoopFailing ELSE Loop
           /\ UNCHANGED <<table, stored, queue, incoming, handles, got>>
      [] call.after = "await" ->
           /\ call' = IF sent = "ok" THEN [call EXCEPT !.pc = "recv", !.frame = NoFrame, !.after = "none"]
                      ELSE Returns("err")
           /\ UNCHANGED <<table, stored, queue, incoming, handles, got>>
      [] call.after = "spent" ->
           /\ IF sent = "ok"
              THEN /\ table' = [table EXCEPT ![call.ch.slot] = spend(@, call.frame.len)]
                   /\ call' = IF call.frame.len = call.want THEN Returns("ok")
                              ELSE [call EXCEPT !.pc = "top", !.want = @ - call.frame.len,
                                                !.frame = NoFrame, !.after = "none"]
              ELSE call' = Returns("err") /\ UNCHANGED table
           /\ UNCHANGED <<stored, queue, incoming, handles, got>>
      [] call.after \in {"answered", "refused"} ->
           /\ call' = Returns(IF sent = "ok" /\ call.after = "answered" THEN "ok" ELSE "err")
           /\ IF sent = "ok"
              THEN /\ incoming' = NoIncoming
                   /\ handles' = IF incoming.reserved = NoChannel THEN handles
                                 ELSE handles \cup {Handle(incoming.reserved, incoming.pending)}
                   /\ UNCHANGED <<table, queue>>
              ELSE /\ UNCHANGED handles
                   /\ IF sent = "gone"
                      THEN /\ incoming' = NoIncoming /\ UNCHANGED queue
                           /\ table' = IF incoming.reserved = NoChannel THEN table
                                       ELSE [table EXCEPT ![incoming.reserved.slot] = NoSlot]
                      ELSE DropIncoming(table, queue)
           /\ UNCHANGED <<stored, got>>
      [] OTHER ->  \* "closed", and "short": the CLSE of an open that failed
           /\ call' = Returns(IF sent = "ok" /\ call.after = "closed" THEN "ok" ELSE "err")
           /\ UNCHANGED <<table, stored, queue, incoming, handles, got>>

Send ==
    /\ call.pc = "send"
    /\ AfterSend(IF desync THEN "failed" ELSE IF gone THEN "gone" ELSE "ok")
    /\ device' = IF ~gone /\ ~desync THEN DeviceGets(call.frame) ELSE device
    /\ garbled' = (garbled \/ (cut # "none" /\ ~gone /\ ~desync))
    /\ UNCHANGED <<ack, scenario, next_local_id, in, desync, gone, cut>>

(* A write is abandoned in the middle of its frame, or in the flush that   *)
(* follows it: the device gets nothing it can act on, or all of the frame. *)
Abandoned == device' \in {device, DeviceGets(call.frame)}

(* The transport fails a write in the middle and lives on.                 *)
SendFails ==
    /\ "writeError" \in scenario.faults /\ call.pc = "send" /\ ~desync /\ ~gone
    /\ AfterSend("failed") /\ Abandoned
    /\ desync' = TRUE /\ cut' = call.after
    /\ UNCHANGED <<ack, scenario, next_local_id, in, gone, garbled>>

(* Faulty form: the flag is not armed.                                     *)
SendDroppedUnarmed ==
    /\ "drop" \in scenario.faults /\ call.pc = "send" /\ ~desync /\ ~gone
    /\ DropIncoming(table, queue) /\ Abandoned
    /\ call' = Returns("dropped")
    /\ cut' = call.after
    /\ UNCHANGED <<ack, scenario, stored, next_local_id, handles, got, in, desync, gone, garbled>>

(* The future is dropped inside the frame: ArmedWrite's drop, Incoming's.  *)
SendDropped ==
    /\ "drop" \in scenario.faults /\ call.pc = "send" /\ ~desync /\ ~gone
    /\ DropIncoming(table, queue) /\ Abandoned
    /\ call' = Returns("dropped")
    /\ desync' = TRUE /\ cut' = call.after
    /\ UNCHANGED <<ack, scenario, stored, next_local_id, handles, got, in, gone, garbled>>

-----------------------------------------------------------------------------
(* recv_pkt, and what each call does with the packet.                      *)

closed_by(p, s) == p.cmd = "CLSE" /\ (p.local = s.local \/ (p.local = 0 /\ p.remote = s.remote))

(* deliver: the acknowledgement of a packet that goes straight to the      *)
(* caller.                                                                 *)
deliver_ack(s, n) ==
    IF s.ack = "Delayed" THEN IF n > 0 THEN n ELSE NoAck
    ELSE IF s.rx_buf >= rx_watermark THEN NoAck ELSE s.unacked

(* dispatch and act_on.                                                    *)
Dispatches(p) ==
    LET d == dispatch(p)
    IN /\ table' = d.table /\ stored' = d.stored /\ queue' = d.queue
       /\ call' = IF d.fault THEN LoopFailing
                  ELSE IF d.frame # NoFrame THEN Sends(d.frame, "dispatched") ELSE Loop
       /\ UNCHANGED <<handles, got>>

(* await_open_ack's own packets.                                           *)
ReceiveOpen(p) ==
    LET s == opening(call.ch.local, ack)
    IN /\ p.cmd \in {"READY", "CLSE"} /\ p.local = call.ch.local
       /\ IF p.cmd = "READY" /\ ~ready_is_short(s, p.len)
          THEN /\ table' = [table EXCEPT ![call.ch.slot] = accept_open_ready(s, p.remote, p.len)]
               /\ handles' = handles \cup {Handle(call.ch, p.remote)}
               /\ call' = Returns("ok")
          ELSE /\ call' = IF p.cmd = "CLSE" THEN Returns("err")
                          ELSE Sends(close(call.ch.local, p.remote), "short")
               /\ UNCHANGED <<table, handles>>
       /\ UNCHANGED <<stored, queue, got>>

(* recv_data's: a WRTE that fits the caller's buffer, and a CLSE.          *)
ReceiveRead(p) ==
    LET s == get(call.ch)
        i == call.ch.slot
        n == Len(p.data)
    IN \/ /\ p.cmd = "WRTE" /\ p.local = s.local /\ n <= call.want
          /\ HandsOver(p.data)
          /\ table' = [table EXCEPT ![i].unacked = IF s.ack = "Classic" /\ s.rx_buf < rx_watermark
                                                   THEN 0 ELSE @]
          /\ call' = IF deliver_ack(s, n) = NoAck THEN Returns("ok")
                     ELSE Sends(Frame("OKAY", s.local, s.remote, deliver_ack(s, n)), "delivered")
       \/ /\ closed_by(p, s)
          /\ table' = [table EXCEPT ![i] = apply_close(@)]
          /\ call' = Returns("err")
          /\ UNCHANGED got

(* wait_ack's.                                                             *)
ReceiveAck(p) ==
    LET s == get(call.ch)
        i == call.ch.slot
    IN \/ /\ p.cmd = "READY" /\ p.local = s.local
          /\ IF ready_is_short(s, p.len) THEN call' = Returns("err") /\ UNCHANGED table
             ELSE /\ table' = [table EXCEPT ![i] = apply_ready(@, p.len)]
                  /\ call' = [call EXCEPT !.pc = "top"]
       \/ /\ closed_by(p, s)
          /\ table' = [table EXCEPT ![i] = apply_close(@)]
          /\ call' = Returns("err")

IsOwn(p) ==
    CASE call.op = "open" -> p.cmd \in {"READY", "CLSE"} /\ p.local = call.ch.local
      [] call.op = "read" -> \/ p.cmd = "WRTE" /\ p.local = call.ch.local /\ Len(p.data) <= call.want
                             \/ closed_by(p, get(call.ch))
      [] call.op = "write" -> (p.cmd = "READY" /\ p.local = call.ch.local) \/ closed_by(p, get(call.ch))
      [] OTHER -> FALSE

Receive ==
    /\ call.pc = "recv" /\ in # <<>>
    /\ LET p == Head(in)
       IN CASE ~IsOwn(p) -> Dispatches(p)
            [] IsOwn(p) /\ call.op = "open" -> ReceiveOpen(p)
            [] IsOwn(p) /\ call.op = "read" -> ReceiveRead(p) /\ UNCHANGED <<stored, queue, handles>>
            [] OTHER -> ReceiveAck(p) /\ UNCHANGED <<stored, queue, handles, got>>
    /\ in' = Tail(in)
    /\ UNCHANGED <<ack, scenario, next_local_id, incoming, device, desync, gone, cut, garbled>>

ReceiveFails ==
    /\ call.pc = "recv" /\ in = <<>> /\ gone
    /\ call' = Returns("err")
    /\ UNCHANGED <<ack, scenario, table, stored, next_local_id, queue, incoming, handles, got, wireVars>>

(* The future is dropped, or select_channel's interrupt is due.            *)
ReceiveDropped ==
    /\ "drop" \in scenario.faults /\ call.pc = "recv"
    /\ call' = Returns("dropped")
    /\ UNCHANGED <<ack, scenario, table, stored, next_local_id, queue, incoming, handles, got, wireVars>>

-----------------------------------------------------------------------------
(* The device (external).                                                  *)

DeviceSays(c, p) ==
    /\ ~gone /\ Len(in) < MaxWire
    /\ in' = Append(in, p)
    /\ UNCHANGED <<ack, scenario, hostVars, desync, gone, cut, garbled>>

DeviceAnswers(c) ==
    /\ device[c].state = "asked"
    /\ \E opens \in BOOLEAN, given \in {Grant} \cup (IF "shortReady" \in scenario.faults THEN {ShortPayload} ELSE {}) :
         /\ device' = [device EXCEPT ![c].state = IF opens THEN "open" ELSE "closed"]
         /\ DeviceSays(c, Pkt(IF opens THEN "READY" ELSE "CLSE", c, device[c].local, <<>>,
                              IF opens THEN given ELSE 0))

DeviceOffers(r) ==
    /\ r \in Requests \cap scenario.ids /\ device[r].state = "unused"
    /\ device' = [device EXCEPT ![r].state = "offered"]
    /\ DeviceSays(r, Pkt("OPEN", r, 0, <<>>, 0))

DeviceWithdraws(r) ==
    /\ "withdraw" \in scenario.faults /\ device[r].state = "offered"
    /\ device' = [device EXCEPT ![r].state = "closed"]
    /\ DeviceSays(r, Pkt("CLSE", r, 0, <<>>, 0))

DeviceWrites(c) ==
    /\ device[c].state = "open" /\ (device[c].asb > 0 \/ "overrun" \in scenario.faults)
    /\ \E n \in 1 .. AtMost(MaxPayload, scenario.bytes - device[c].sent) :
         /\ device' = [device EXCEPT ![c].sent = @ + n,
                                     ![c].asb = @ - IF ack = "Delayed" THEN n ELSE 1]
         /\ DeviceSays(c, Pkt("WRTE", c, device[c].local,
                              [k \in 1 .. n |-> <<c, device[c].sent + k>>], 0))

DeviceAcks(c) ==
    /\ device[c].state = "open" /\ device[c].owes > 0
    /\ device' = [device EXCEPT ![c].owes = 0]
    /\ DeviceSays(c, Pkt("READY", c, device[c].local, <<>>,
                         IF "shortReady" \in scenario.faults THEN ShortPayload ELSE device[c].owes))

DeviceCloses(c) ==
    /\ device[c].state = "open"
    /\ device' = [device EXCEPT ![c].state = "closed"]
    /\ DeviceSays(c, Pkt("CLSE", c, device[c].local, <<>>, 0))

TransportFails ==
    /\ "gone" \in scenario.faults /\ ~gone
    /\ gone' = TRUE
    /\ UNCHANGED <<ack, scenario, hostVars, in, device, desync, cut, garbled>>

-----------------------------------------------------------------------------
HostStep ==
    \/ Take \/ Chunk \/ Send \/ Receive \/ ReceiveFails
    \/ call.op = "accept" /\ call.pc = "top" /\ HandOver

Next ==
    \/ StartOpen \/ StartRead \/ StartWrite \/ StartAccept \/ StartClose \/ HandOver
    \/ Accept \/ Reject \/ Undecided
    \/ Take \/ Chunk \/ Send \/ SendFails \/ SendDropped
    \/ Receive \/ ReceiveFails \/ ReceiveDropped
    \/ \E c \in Ids : \/ DeviceAnswers(c) \/ DeviceOffers(c) \/ DeviceWithdraws(c)
                      \/ DeviceWrites(c) \/ DeviceAcks(c) \/ DeviceCloses(c)
    \/ TransportFails

(* A call that can go on does: the application polls it.  The device       *)
(* answers an OPEN and acknowledges what it was written.                   *)
ConnSpec ==
    /\ Init /\ [][Next]_connVars
    /\ WF_connVars(HostStep)
    /\ \A c \in Ids : WF_connVars(DeviceAnswers(c)) /\ WF_connVars(DeviceAcks(c))

-----------------------------------------------------------------------------
(* Properties.                                                             *)

Numbered(c, n) == [k \in 1 .. n |-> <<c, k>>]
SlotsOf(c) == {i \in Positions : table[i] # NoSlot /\ table[i].remote = c}
InFlight(c, cmd) == {k \in DOMAIN in : in[k].remote = c /\ in[k].cmd = cmd}
Sending(c, cmd) == call.pc = "send" /\ call.frame.cmd = cmd /\ call.frame.remote = c
Overruns == "overrun" \in scenario.faults

(* The bytes before a WRTE in its channel's stream, and up to its end.     *)
From(p) == p.data[1][2] - 1
To(p) == From(p) + Len(p.data)

(* What is in flight of channel c are its bytes after the first n, in      *)
(* order and each once.                                                    *)
RestInFlight(c, n) ==
    /\ n <= device[c].sent
    /\ \A k \in InFlight(c, "WRTE") :
         /\ in[k].data = [j \in 1 .. Len(in[k].data) |-> <<c, From(in[k]) + j>>]
         /\ n <= From(in[k]) /\ To(in[k]) <= device[c].sent
    /\ \A k, m \in InFlight(c, "WRTE") : k < m => To(in[k]) <= From(in[m])
    /\ \A j \in n + 1 .. device[c].sent :
         \E k \in InFlight(c, "WRTE") : From(in[k]) < j /\ j <= To(in[k])

(* A handle reads the bytes of its own channel, in order and each once,    *)
(* whichever call the packets came in under and whatever was dropped, with *)
(* no gap unless the device overran its window; then none is missing: what *)
(* was read, what is stored and what is in flight are everything the       *)
(* device has written.  A slot's count of its bytes is right.              *)
StreamExact ==
    /\ \A i \in Positions : Len(stored[i]) = table[i].rx_buf
    /\ \A h \in handles :
         /\ \A k \in DOMAIN got[h.local] :
              /\ got[h.local][k][1] = h.remote
              /\ IF Overruns THEN k = 1 \/ got[h.local][k][2] > got[h.local][k - 1][2]
                 ELSE got[h.local][k][2] = k
         /\ (get([slot |-> h.slot, local |-> h.local]) # NoSlot /\ ~Overruns) =>
              LET arrived == got[h.local] \o stored[h.slot]
              IN arrived = Numbered(h.remote, Len(arrived)) /\ RestInFlight(h.remote, Len(arrived))

(* No byte of the device's credit is lost or given twice: what it has      *)
(* left, what it sent and has not arrived, what the slot owes and the OKAY *)
(* being written make up what was advertised; without delayed ACK they are *)
(* one token.                                                              *)
WindowExact ==
    \A c \in Ids : \A i \in SlotsOf(c) :
      (device[c].state = "open" /\ ~desync /\ ~gone /\ ~Overruns) =>
        LET flying == device[c].sent - Len(got[table[i].local]) - table[i].rx_buf
            okay == IF Sending(c, "OKAY") THEN call.frame.len ELSE 0
        IN IF ack = "Delayed"
           THEN device[c].asb + flying + table[i].unacked + okay = advertised_ack_bytes
           ELSE /\ \A k, m \in InFlight(c, "WRTE") : k = m
                /\ device[c].asb + (IF flying > 0 THEN 1 ELSE 0) + (IF table[i].unacked > 0 THEN 1 ELSE 0)
                     + (IF Sending(c, "OKAY") THEN 1 ELSE 0) = 1

(* The credit that the READYs in flight bring; without delayed ACK each    *)
(* brings the one token.                                                   *)
Credits(c) == [k \in DOMAIN in |-> IF in[k].remote = c /\ in[k].cmd = "READY"
                                   THEN IF ack = "Delayed" THEN in[k].len ELSE 1 ELSE 0]

(* The host writes what the device has room for: its budget, the READYs in *)
(* flight and what the device has yet to acknowledge are the grant, until  *)
(* a write is abandoned: what it took from the budget, and whether the     *)
(* device got it, is then unknown.                                         *)
BudgetExact ==
    \A c \in Ids : \A i \in SlotsOf(c) :
      (device[c].state = "open" /\ ~desync /\ ~gone /\ "shortReady" \notin scenario.faults) =>
        IF ack = "Delayed" THEN /\ table[i].send_budget >= 0
                                /\ table[i].send_budget + Sum(Credits(c)) + device[c].owes = Grant
        ELSE (IF table[i].wrte_acked THEN 1 ELSE 0) + Sum(Credits(c))
               + (IF device[c].owes > 0 THEN 1 ELSE 0) = 1

(* A frame whose write was abandoned is the last thing the device is sent: *)
(* it would take the next one for the rest of it.                          *)
NothingAfterCut == ~garbled

(* An open that was dropped, or failed before its answer, does not leave   *)
(* the device with a channel: each one it has open is a slot of the table, *)
(* or about to be closed, or its READY is on its way.                      *)
NoOrphan ==
    (~desync /\ ~gone) =>
      \A c \in Ids : device[c].state = "open" =>
        SlotsOf(c) # {} \/ InFlight(c, "READY") # {} \/ Sending(c, "CLSE")

(* No request of the device's is lost or answered twice: one not answered  *)
(* and not withdrawn is on its way, queued, in the application's hands or  *)
(* being refused, even if the future that was answering it was dropped in  *)
(* the middle; only a refusal that dispatch could not write loses one.     *)
NoRequestLost ==
    \A r \in Requests :
      /\ (device[r].state = "offered" /\ cut # "dispatched" /\ ~gone) =>
           \/ InFlight(r, "OPEN") # {} \/ \E k \in DOMAIN queue : queue[k] = r
           \/ incoming.pending = r \/ Sending(r, "CLSE")
      /\ \A i, j \in SlotsOf(r) : i = j
      /\ \A j, k \in DOMAIN queue : queue[j] = r /\ queue[k] = r => j = k /\ incoming.pending # r

(* The table's slots are the channels of the application and the one an    *)
(* Incoming has reserved, none holds more than its cap, and the requests   *)
(* waiting are no more than the table has slots.                           *)
NothingHeld ==
    /\ \A i \in Positions : table[i] # NoSlot =>
         \/ \E h \in handles : h.slot = i /\ h.local = table[i].local
         \/ incoming.reserved = [slot |-> i, local |-> table[i].local]
    /\ \A i \in Positions : held(table[i]) <= rx_cap
    /\ Len(queue) <= scenario.channels

(* A read fails only when nothing is buffered for it: what had arrived is  *)
(* handed over first, however the connection failed.                       *)
DataBeforeErrors ==
    (call.pc = "idle" /\ call.op = "read" /\ call.result = "err") => ~has_data(get(call.ch))

(* Every call that does not wait for the device to write returns, with a   *)
(* device that grants credit as it should: a READY without any is an error *)
(* for one call, and what it should have granted is gone for the next.     *)
ConnCallsEnd ==
    ("shortReady" \notin scenario.faults /\ call.op \in {"open", "write", "close", "answer"} /\ call.pc # "idle") ~> (call.pc = "idle")

(* Data and credit are exact on every channel, in both directions, and a   *)
(* packet cut short or an error costs neither bytes already there nor the  *)
(* framing (dispatch, take_buffered, write_channel, ArmedWrite).           *)
DataExact ==
    /\ ConnTypeOK /\ StreamExact /\ WindowExact /\ BudgetExact
    /\ DataBeforeErrors /\ NothingAfterCut

(* Host and device agree on the channels there are: neither side holds one *)
(* the other has forgotten, and no request gets lost on the way.           *)
ChannelsExact == NoOrphan /\ NoRequestLost /\ NothingHeld
=============================================================================
