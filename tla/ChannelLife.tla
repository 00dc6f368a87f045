----------------------------- MODULE ChannelLife -----------------------------
(***************************************************************************)
(* Channels the host opens on a split connection, from allocation to       *)
(* release: the channel table and its ids, Writer::open_channel and        *)
(* Reader::open_channel with the SlotGuard that gives a channel up,        *)
(* close_channel_via and the CLSEs the device is owed, and how the Reader  *)
(* ends.  Data, credit and device-initiated channels are the business of   *)
(* other modules.                                                          *)
(*                                                                         *)
(* A call is one use of a channel, opened at most once and closed at most  *)
(* once; its number is the id the device gives its end of the channel.     *)
(***************************************************************************)
EXTENDS ChannelSlot, FiniteSets, Sequences

CONSTANTS
    Calls,        \* opens, by the device's id for each
    MaxChannels,  \* config.max_channels: size of the table
    IdSpace,      \* largest local id (u32::MAX in the code)
    MaxWire,      \* bound: packets on their way when the device sends one
    Scenarios     \* how the Reader is driven, what may go wrong, a bound (the
                  \* READYs the device sends on a channel), and whether a read of
                  \* the transport may be dropped (read_cancel_safe)

FaultKinds == {"drop", "gone", "eof", "stall", "readerDrop", "shortReady"}

ASSUME ChannelLifeAssumption ==
    /\ Calls \subseteq Nat \ {0}
    /\ MaxChannels \in Nat \ {0} /\ IdSpace \in Nat \ {0} /\ MaxWire \in Nat \ {0}
    /\ Scenarios \subseteq [driver : {"run", "calls"}, faults : SUBSET FaultKinds,
                             readies : Nat \ {0}, race : BOOLEAN]

VARIABLES
    ack,       \* the ack mode CNXN negotiated
    scenario,  \* one of Scenarios
    table,     \* the slots of ChannelTable, NoSlot where there is none
    next_local_id,
    call,      \* each use of a channel
    reader,    \* the Reader: its call and where it is
    owed,      \* Shared::owed, the CLSEs of it, by their ids
    wh,        \* who holds the write half
    in,        \* packets in flight to the host
    device,    \* the device's end of each channel
    transport, \* "up", "eof" (nothing more to read) or "gone"
    stalled,   \* what is written stays where it is
    desync, stopped, stream_over, ended_in_step

table_vars == <<ack, scenario, table, next_local_id>>
wire_vars == <<in, device, transport, stalled>>
end_vars == <<desync, stopped, stream_over, ended_in_step>>
lifeVars == <<ack, scenario, table, next_local_id, call, reader, owed, wh, in, device, transport, stalled,
              desync, stopped, stream_over, ended_in_step>>

Free == 0
TheReader == -1

Positions == 1 .. MaxChannels
NoSlot == opening(0, "Classic")
is_some(s) == s # NoSlot

NewCall == [pc |-> "new", slot |-> 0, local |-> 0, signal |-> "none", result |-> "none"]
IdleReader == [pc |-> "idle", does |-> "none", on |-> 0, idx |-> 0, local |-> 0,
               remote |-> 0, owes |-> FALSE, fails |-> FALSE]

OpenPcs == {"lock", "pay", "send", "listen", "look", "live", "parked", "reading", "guard"}
ClosePcs == {"closeOwe", "closeUntil", "closeLock", "closePay", "closeCheck"}

CallStates == [pc : {"new", "open", "failed", "closed"} \cup OpenPcs \cup ClosePcs,
               slot : 0 .. MaxChannels, local : 0 .. IdSpace,
               signal : {"none", "armed", "notified"},
               result : {"none", "ok", "desynchronized", "error"}]

ReaderStates == [pc : {"idle", "busy", "recv", "read", "fail", "wake", "owe", "lock", "pay", "over",
                       "stop", "stopped", "done"},
                 does : {"none", "run", "dispatch", "open"}, on : Calls \cup {0},
                 idx : 0 .. MaxChannels, local : 0 .. IdSpace, remote : Calls \cup {0},
                 owes : BOOLEAN, fails : BOOLEAN]

ChannelIds == [local : 1 .. IdSpace, remote : Calls]
Inbound == [cmd : {"READY", "CLSE"}, local : 1 .. IdSpace, remote : Calls,
            payload : {0, 1, ShortPayload}]

DeviceEnds == [state : {"none", "asked", "open", "closed", "hostClosed"},
               local : 0 .. IdSpace, readies : Nat]

TypeOK ==
    /\ ack \in AckModes /\ scenario \in Scenarios
    /\ table \in [Positions -> Slots] /\ next_local_id \in 1 .. IdSpace
    /\ call \in [Calls -> CallStates] /\ reader \in ReaderStates
    /\ owed \in Seq(ChannelIds) /\ wh \in Calls \cup {Free, TheReader}
    /\ in \in Seq(Inbound)
    /\ device \in [Calls -> DeviceEnds]
    /\ \A c \in Calls : device[c].readies <= scenario.readies
    /\ transport \in {"up", "eof", "gone"} /\ stalled \in BOOLEAN
    /\ desync \in BOOLEAN /\ stopped \in BOOLEAN
    /\ stream_over \in BOOLEAN /\ ended_in_step \in BOOLEAN

check_in_step == ~desync \/ ended_in_step
check_live == check_in_step /\ ~stopped
clse_called_off == stream_over \/ desync
check_close == IF stream_over THEN check_in_step ELSE ~desync

To(c, pc) == [call EXCEPT ![c].pc = pc]

Ended(pc, result) == [NewCall EXCEPT !.pc = pc, !.result = result]

(* What a notification does to the listeners of a set of calls.            *)
notify(cs, woken) ==
    [c \in Calls |-> IF c \in woken /\ cs[c].signal = "armed"
                     THEN [cs[c] EXCEPT !.signal = "notified"] ELSE cs[c]]

(* FlowSignal::wake of one slot, the receive_signal, and wake_all.         *)
wake(cs, idx) == notify(cs, {c \in Calls : cs[c].slot = idx /\ cs[c].pc \in OpenPcs})
wake_receive(cs) == notify(cs, {c \in Calls : cs[c].pc \in ClosePcs})
wake_all(cs) == notify(cs, Calls)

(* WriteLock's drop.                                                       *)
wake_if_desync(cs, lost) == IF lost THEN wake_all(cs) ELSE cs

-----------------------------------------------------------------------------
(* ChannelTable.                                                           *)

get(ch) == IF ch.slot \in Positions /\ table[ch.slot].local = ch.local
           THEN table[ch.slot] ELSE NoSlot

allocated_local(free) == next_local_id

(* wrapping_add(1).max(1).                                                 *)
following_id == IF next_local_id = IdSpace THEN 1 ELSE next_local_id + 1

first(S) == CHOOSE i \in S : \A j \in S : i <= j

free_positions == {i \in Positions : ~is_some(table[i])}

(* Faulty form: both ids have to be known.                                 *)
matching_with_ids(local) ==
    {i \in Positions : has_ids(table[i]) /\ table[i].local = local}

matching(local) == {i \in Positions : is_some(table[i]) /\ table[i].local = local}

Ids(s) == [local |-> s.local, remote |-> s.remote]

Init ==
    /\ ack \in AckModes /\ scenario \in Scenarios
    /\ table = [i \in Positions |-> NoSlot] /\ next_local_id = 1
    /\ call = [c \in Calls |-> NewCall]
    /\ reader = IF scenario.driver = "run" THEN [IdleReader EXCEPT !.pc = "recv", !.does = "run"]
                                            ELSE IdleReader
    /\ owed = <<>> /\ wh = Free /\ in = <<>>
    /\ device = [c \in Calls |-> [state |-> "none", local |-> 0, readies |-> 0]]
    /\ transport = "up" /\ stalled = FALSE
    /\ desync = FALSE /\ stopped = FALSE /\ stream_over = FALSE /\ ended_in_step = FALSE

-----------------------------------------------------------------------------
(* The device (external).  It accepts or refuses an OPEN, sends a READY    *)
(* for data it consumed, closes when it likes, and echoes a CLSE for a     *)
(* channel it has open.  A packet the host has written is with the device  *)
(* at once: it is what the device sends that takes its time, so answers    *)
(* cross.                                                                  *)

FromDevice(cmd, c, local, payload) ==
    in' = Append(in, [cmd |-> cmd, local |-> local, remote |-> c, payload |-> payload])

DeviceTakesOpen(c) ==
    /\ device' = [device EXCEPT ![c] = [@ EXCEPT !.state = "asked", !.local = call[c].local]]
    /\ UNCHANGED in

DeviceTakesClse(ids) ==
    LET d == device[ids.remote]
    IN IF d.state = "open" /\ d.local = ids.local
       THEN /\ device' = [device EXCEPT ![ids.remote] = [@ EXCEPT !.state = "hostClosed", !.readies = 0]]
            /\ IF transport = "up" THEN FromDevice("CLSE", ids.remote, ids.local, 0)
                                   ELSE UNCHANGED in
       ELSE UNCHANGED <<device, in>>

DeviceReady(c) ==
    /\ transport = "up" /\ Len(in) < MaxWire
    /\ device[c].state \in {"asked", "open"} /\ device[c].readies < scenario.readies
    /\ \E payload \in IF device[c].state = "asked" /\ "shortReady" \in scenario.faults
                      THEN {1, ShortPayload} ELSE {1} :
         FromDevice("READY", c, device[c].local, payload)
    /\ device' = [device EXCEPT ![c] = [@ EXCEPT !.state = "open", !.readies = device[c].readies + 1]]
    /\ UNCHANGED <<table_vars, call, reader, owed, wh, transport, stalled, end_vars>>

DeviceCloses(c) ==
    /\ transport = "up" /\ Len(in) < MaxWire /\ device[c].state \in {"asked", "open"}
    /\ FromDevice("CLSE", c, device[c].local, 0)
    /\ device' = [device EXCEPT ![c] = [@ EXCEPT !.state = "closed", !.readies = 0]]
    /\ UNCHANGED <<table_vars, call, reader, owed, wh, transport, stalled, end_vars>>

TransportFails ==
    /\ \/ "eof" \in scenario.faults /\ transport = "up" /\ transport' = "eof"
       \/ "gone" \in scenario.faults /\ transport # "gone" /\ transport' = "gone"
    /\ UNCHANGED <<table_vars, call, reader, owed, wh, in, device, stalled, end_vars>>

TransportStalls ==
    /\ "stall" \in scenario.faults /\ ~stalled
    /\ stalled' = TRUE
    /\ UNCHANGED <<table_vars, call, reader, owed, wh, in, device, transport, end_vars>>

-----------------------------------------------------------------------------
(* open_channel of the Writer, and of a Reader no other call is using.     *)

StartOpen(c) ==
    /\ call[c].pc = "new" /\ check_live
    /\ \/ UNCHANGED reader
       \/ /\ reader.pc = "idle"
          /\ reader' = [IdleReader EXCEPT !.pc = "busy", !.does = "open", !.on = c]
    /\ free_positions # {}
    /\ LET free == first(free_positions)
           local == allocated_local(free)
       IN /\ table' = [table EXCEPT ![free] = opening(local, ack)]
          /\ call' = [call EXCEPT ![c] = [@ EXCEPT !.pc = "lock", !.slot = free, !.local = local]]
    /\ next_local_id' = following_id
    /\ UNCHANGED <<ack, scenario, owed, wh, wire_vars, end_vars>>

(* The call is over and its SlotGuard about to be dropped; a Reader that   *)
(* was opening for it is given back.                                       *)
GiveUp(cs, c) ==
    /\ call' = [cs EXCEPT ![c] = [@ EXCEPT !.pc = "guard", !.signal = "none"]]
    /\ reader' = IF reader.on = c THEN IdleReader ELSE reader

(* Faulty form: a refused open keeps its slot.                             *)
DropGuardKeepsSlot(c) ==
    /\ call[c].pc = "guard"
    /\ LET s == get(call[c])
       IN table' = [table EXCEPT ![call[c].slot] = IF has_ids(s) THEN NoSlot ELSE s]
    /\ call' = [call EXCEPT ![c] = Ended("failed", "none")]
    /\ UNCHANGED <<ack, scenario, next_local_id, reader, owed, wh, wire_vars, end_vars>>

(* SlotGuard::drop, armed, under the table's lock.                         *)
DropGuard(c) ==
    /\ call[c].pc = "guard"
    /\ LET s == get(call[c])
           owes == has_ids(s) /\ ~s.failed
       IN /\ table' = [table EXCEPT ![call[c].slot] = NoSlot]
          /\ owed' = IF owes THEN Append(owed, Ids(s)) ELSE owed
          /\ call' = [(IF owes THEN wake_receive(call) ELSE call) EXCEPT ![c] = Ended("failed", "none")]
    /\ UNCHANGED <<ack, scenario, next_local_id, reader, wh, wire_vars, end_vars>>

SendOpen(c) ==
    /\ call[c].pc = "send" /\ ~desync /\ transport # "gone" /\ ~stalled
    /\ DeviceTakesOpen(c) /\ wh' = Free
    /\ call' = To(c, IF reader.on = c THEN "reading" ELSE "listen")
    /\ reader' = IF reader.on = c THEN [reader EXCEPT !.pc = "recv"] ELSE reader
    /\ UNCHANGED <<table_vars, owed, transport, stalled, end_vars>>

SendRefused(c) ==
    /\ call[c].pc = "send" /\ (desync \/ transport = "gone")
    /\ GiveUp(wake_if_desync(call, desync), c) /\ wh' = Free
    /\ UNCHANGED <<table_vars, owed, wire_vars, end_vars>>

(* The packet is abandoned in the middle, by an error or by a drop of the  *)
(* call; the device may have got all of it.                                *)
SendAbandoned(c) ==
    /\ call[c].pc = "send" /\ ~desync /\ "drop" \in scenario.faults
    /\ DeviceTakesOpen(c) \/ UNCHANGED <<device, in>>
    /\ GiveUp(wake_all(call), c) /\ wh' = Free /\ desync' = TRUE
    /\ UNCHANGED <<table_vars, owed, transport, stalled, stopped, stream_over, ended_in_step>>

(* Writer::await_open_ack.                                                 *)
Listen(c) ==
    /\ call[c].pc = "listen"
    /\ IF check_in_step
       THEN /\ call' = [call EXCEPT ![c] = [@ EXCEPT !.pc = "look", !.signal = "armed"]]
            /\ UNCHANGED reader
       ELSE GiveUp(call, c)
    /\ UNCHANGED <<table_vars, owed, wh, wire_vars, end_vars>>

Look(c) ==
    /\ call[c].pc = "look"
    /\ LET s == get(call[c])
       IN \/ s.state = "Opening" /\ is_some(s) /\ call' = To(c, "live") /\ UNCHANGED reader
          \/ /\ has_ids(s) /\ s.state # "Opening"
             /\ call' = [call EXCEPT ![c] = [@ EXCEPT !.pc = "open", !.signal = "none"]]
             /\ UNCHANGED reader
          \/ /\ ~is_some(s) \/ (s.state = "Closed" /\ ~has_ids(s))
             /\ GiveUp(call, c)
    /\ UNCHANGED <<table_vars, owed, wh, wire_vars, end_vars>>

Park(c) ==
    /\ call[c].pc = "live"
    /\ IF check_live THEN call' = To(c, "parked") /\ UNCHANGED reader ELSE GiveUp(call, c)
    /\ UNCHANGED <<table_vars, owed, wh, wire_vars, end_vars>>

Woken(c) ==
    /\ call[c].pc = "parked" /\ call[c].signal = "notified"
    /\ call' = [call EXCEPT ![c] = [@ EXCEPT !.pc = "listen", !.signal = "none"]]
    /\ UNCHANGED <<table_vars, reader, owed, wh, wire_vars, end_vars>>

(* The caller drops the open while it waits.                               *)
DropOpen(c) ==
    /\ "drop" \in scenario.faults
    /\ \/ call[c].pc \in {"lock", "parked"}
       \/ call[c].pc = "reading" /\ reader.pc \in {"read", "lock"}
    /\ GiveUp(call, c)
    /\ UNCHANGED <<table_vars, owed, wh, wire_vars, end_vars>>

-----------------------------------------------------------------------------
(* The Reader.                                                             *)

Receiving == [IdleReader EXCEPT !.pc = "recv", !.does = reader.does, !.on = reader.on]

(* The Reader's call returns an error.  run takes the Reader with it, an   *)
(* open its SlotGuard.                                                     *)
ReaderFails(cs) ==
    /\ reader' = IF reader.does = "run" THEN [IdleReader EXCEPT !.pc = "stop", !.does = "run"]
                                        ELSE IdleReader
    /\ call' = IF reader.does = "open"
               THEN [cs EXCEPT ![reader.on] = [@ EXCEPT !.pc = "guard"]] ELSE cs

(* A packet is dealt with.                                                 *)
ReaderContinues(cs) ==
    IF reader.fails THEN ReaderFails(cs)
    ELSE /\ reader' = IF reader.does = "dispatch" THEN IdleReader ELSE Receiving
         /\ call' = cs

StartDispatch ==
    /\ reader.pc = "idle" /\ check_live
    /\ reader' = [IdleReader EXCEPT !.pc = "recv", !.does = "dispatch"]
    /\ UNCHANGED <<table_vars, call, owed, wh, wire_vars, end_vars>>

(* recv.  It fails on a connection that is over and pays what is owed      *)
(* before it reads; a debt or a desynchronization interrupts a read that   *)
(* may be dropped, if a packet or the end of the stream is not there       *)
(* first.  Any other read goes on: receive_interrupted is then looked at   *)
(* once, before the first read, and is pending from there on.              *)
RecvEnds ==
    /\ reader.pc = "recv" /\ ~check_live
    /\ ReaderFails(call)
    /\ UNCHANGED <<table_vars, owed, wh, wire_vars, end_vars>>

(* Faulty form: what is owed waits for a write of the application.         *)
RecvReadsFirst ==
    /\ reader.pc = "recv" /\ check_live
    /\ reader' = [reader EXCEPT !.pc = "read"]
    /\ UNCHANGED <<table_vars, call, owed, wh, wire_vars, end_vars>>

RecvPays ==
    /\ reader.pc = "recv" /\ check_live
    /\ reader' = [reader EXCEPT !.pc = IF owed = <<>> THEN "read" ELSE "lock"]
    /\ UNCHANGED <<table_vars, call, owed, wh, wire_vars, end_vars>>

RecvInterrupted ==
    /\ reader.pc = "read" /\ scenario.race /\ (desync \/ owed # <<>>)
    /\ reader' = [reader EXCEPT !.pc = "recv"]
    /\ UNCHANGED <<table_vars, call, owed, wh, wire_vars, end_vars>>

RecvFails ==
    /\ reader.pc = "read" /\ transport # "up" /\ (in = <<>> \/ transport = "gone")
    /\ reader' = [reader EXCEPT !.pc = "over"]
    /\ UNCHANGED <<table_vars, call, owed, wh, wire_vars, end_vars>>

(* The answer to the Reader's own open.                                    *)
OpenAnswered(p) ==
    LET c == reader.on
    IN \/ /\ p.cmd = "READY" /\ ready_is_short(get(call[c]), p.payload)
          /\ reader' = [reader EXCEPT !.pc = "fail", !.idx = call[c].slot, !.local = p.local,
                                      !.remote = p.remote, !.fails = TRUE]
          /\ UNCHANGED <<table, call>>
       \/ /\ p.cmd = "READY" /\ ~ready_is_short(get(call[c]), p.payload)
          /\ table' = [table EXCEPT ![call[c].slot] =
                         accept_open_ready(@, p.remote, p.payload)]
          /\ call' = To(c, "open") /\ reader' = IdleReader
       \/ /\ p.cmd = "CLSE"
          /\ GiveUp(call, c) /\ UNCHANGED table

(* ChannelTable::dispatch and act_on, for a packet of another channel.  A  *)
(* channel that breaks while it opens is failed however the Reader is      *)
(* driven, and fails an open of the Reader too.                            *)
Dispatch(p) ==
    LET m == matching(p.local)
        i == first(m)
        s == table[i]
        wakes(t) == /\ table' = [table EXCEPT ![i] = t]
                    /\ reader' = [reader EXCEPT !.pc = "wake", !.idx = i, !.local = p.local]
                    /\ UNCHANGED call
    IN \/ /\ m = {} /\ p.cmd = "READY"
          /\ reader' = [reader EXCEPT !.pc = "owe", !.local = p.local, !.remote = p.remote]
          /\ UNCHANGED <<table, call>>
       \/ /\ IF m = {} THEN p.cmd = "CLSE" ELSE s.failed /\ p.cmd = "READY"
          /\ ReaderContinues(call) /\ UNCHANGED table
       \/ /\ m # {} /\ p.cmd = "READY" /\ ~s.failed /\ s.state = "Opening"
          /\ IF ready_is_short(s, p.payload)
             THEN /\ reader' = [reader EXCEPT !.pc = "fail", !.idx = i, !.local = p.local,
                                              !.remote = p.remote, !.fails = reader.does = "open"]
                  /\ UNCHANGED <<table, call>>
             ELSE wakes(accept_open_ready(s, p.remote, p.payload))
       \/ /\ m # {} /\ p.cmd = "READY" /\ ~s.failed /\ s.state # "Opening"
          /\ wakes(apply_ready(s, p.payload))
       \/ /\ m # {} /\ p.cmd = "CLSE"
          /\ wakes(apply_close(s))

Receive ==
    /\ reader.pc = "read" /\ in # <<>>
    /\ in' = Tail(in)
    /\ IF reader.does = "open" /\ Head(in).local = call[reader.on].local
       THEN OpenAnswered(Head(in)) ELSE Dispatch(Head(in))
    /\ UNCHANGED <<ack, scenario, next_local_id, owed, wh, device, transport, stalled, end_vars>>

(* Shared::fail_channel: the slot may have been freed since the dispatch.  *)
FailChannel ==
    /\ reader.pc = "fail"
    /\ LET ch == [slot |-> reader.idx, local |-> reader.local]
       IN IF is_some(get(ch))
          THEN /\ table' = [table EXCEPT ![reader.idx] = fail(@)]
               /\ reader' = [reader EXCEPT !.pc = "wake", !.owes = TRUE]
          ELSE /\ reader' = [reader EXCEPT !.pc = "owe"]
               /\ UNCHANGED table
    /\ UNCHANGED <<ack, scenario, next_local_id, call, owed, wh, wire_vars, end_vars>>

(* Faulty form: nobody is woken.                                           *)
ReaderWakesNobody ==
    /\ reader.pc = "wake"
    /\ IF reader.owes THEN reader' = [reader EXCEPT !.pc = "owe", !.idx = 0] /\ UNCHANGED call
                      ELSE ReaderContinues(call)
    /\ UNCHANGED <<table_vars, owed, wh, wire_vars, end_vars>>

ReaderWakes ==
    /\ reader.pc = "wake"
    /\ IF reader.owes THEN /\ reader' = [reader EXCEPT !.pc = "owe"]
                           /\ call' = wake(call, reader.idx)
                      ELSE ReaderContinues(wake(call, reader.idx))
    /\ UNCHANGED <<table_vars, owed, wh, wire_vars, end_vars>>

(* owe, and the test with which pay starts.                                *)
ReaderOwes ==
    /\ reader.pc = "owe"
    /\ owed' = Append(owed, [local |-> reader.local, remote |-> reader.remote])
    /\ IF check_live THEN /\ reader' = [reader EXCEPT !.pc = "lock"]
                          /\ call' = wake_receive(call)
                     ELSE ReaderContinues(wake_receive(call))
    /\ UNCHANGED <<table_vars, wh, wire_vars, end_vars>>

(* Dropping dispatch_one where it waits, or the Reader itself.             *)
DropReaderCall ==
    /\ "drop" \in scenario.faults /\ reader.does = "dispatch" /\ reader.pc \in {"read", "lock"}
    /\ reader' = IdleReader
    /\ UNCHANGED <<table_vars, call, owed, wh, wire_vars, end_vars>>

DropReader ==
    /\ "readerDrop" \in scenario.faults
    /\ reader.pc = "idle" \/ (reader.does = "run" /\ reader.pc \in {"read", "lock"})
    /\ reader' = [IdleReader EXCEPT !.pc = "stop", !.does = "run"]
    /\ UNCHANGED <<table_vars, call, owed, wh, wire_vars, end_vars>>

(* end_stream, and stop with its three stores.                             *)
EndStream ==
    /\ reader.pc = "over"
    /\ stream_over' = TRUE /\ reader' = [reader EXCEPT !.pc = "stop"]
    /\ UNCHANGED <<table_vars, call, owed, wh, wire_vars, desync, stopped, ended_in_step>>

StopInStep ==
    /\ reader.pc = "stop"
    /\ ended_in_step' = IF stopped THEN ended_in_step ELSE ~desync
    /\ reader' = [reader EXCEPT !.pc = "stopped"]
    /\ UNCHANGED <<table_vars, call, owed, wh, wire_vars, desync, stopped, stream_over>>

Stop ==
    /\ reader.pc = "stopped"
    /\ stopped' = TRUE
    /\ IF reader.does = "run" THEN /\ reader' = [reader EXCEPT !.pc = "done"]
                                   /\ call' = wake_all(call)
                              ELSE ReaderFails(wake_all(call))
    /\ UNCHANGED <<table_vars, owed, wh, wire_vars, desync, stream_over, ended_in_step>>

-----------------------------------------------------------------------------
(* close_channel_via.  The ids are read and the slot freed under one lock. *)
(* The calls it then wakes, on the channel's signal, are those of RxFlow   *)
(* and SendFlow.                                                           *)

StartClose(c) ==
    /\ call[c].pc = "open" /\ ~desync
    /\ has_ids(get(call[c]))
    /\ table' = [table EXCEPT ![call[c].slot] = NoSlot]
    /\ call' = To(c, "closeOwe")
    /\ UNCHANGED <<ack, scenario, next_local_id, reader, owed, wh, wire_vars, end_vars>>

CloseOwes(c) ==
    /\ call[c].pc = "closeOwe"
    /\ owed' = Append(owed, [local |-> call[c].local, remote |-> c])
    /\ call' = [wake_receive(call) EXCEPT ![c].pc = "closeUntil"]
    /\ UNCHANGED <<table_vars, reader, wh, wire_vars, end_vars>>

(* until: the close is called off at once, or waits for the write half     *)
(* and, with a listener on the receive_signal, for what calls it off.      *)
CloseUntil(c) ==
    /\ call[c].pc = "closeUntil"
    /\ call' = To(c, IF clse_called_off THEN "closeCheck" ELSE "closeLock")
    /\ UNCHANGED <<table_vars, reader, owed, wh, wire_vars, end_vars>>

(* once: called off, or listening (again).  A write under way is dropped   *)
(* in the middle, and only a write half that fails reports itself first.   *)
CloseWaits(c) ==
    /\ call[c].pc \in {"closeLock", "closePay"} /\ call[c].signal # "armed"
    /\ IF ~clse_called_off
       THEN /\ call' = [call EXCEPT ![c].signal = "armed"]
            /\ UNCHANGED <<wh, device, in, desync>>
       ELSE LET left == [call EXCEPT ![c] = [@ EXCEPT !.pc = "closeCheck", !.signal = "none"]]
            IN IF call[c].pc = "closePay" /\ owed # <<>> /\ ~desync
               THEN /\ desync' = TRUE /\ wh' = Free /\ call' = wake_all(left)
                    /\ DeviceTakesClse(Head(owed)) \/ UNCHANGED <<device, in>>
               ELSE /\ call[c].pc = "closeLock"
                    /\ call' = left /\ UNCHANGED <<wh, device, in, desync>>
    /\ UNCHANGED <<table_vars, reader, owed, transport, stalled, stopped, stream_over, ended_in_step>>

CloseChecks(c) ==
    /\ call[c].pc = "closeCheck"
    /\ call' = [call EXCEPT ![c] = Ended("closed", IF check_close THEN "ok" ELSE "desynchronized")]
    /\ UNCHANGED <<table_vars, reader, owed, wh, wire_vars, end_vars>>

DropClose(c) ==
    /\ "drop" \in scenario.faults /\ call[c].pc = "closeLock"
    /\ call' = [call EXCEPT ![c] = Ended("closed", "none")]
    /\ UNCHANGED <<table_vars, reader, owed, wh, wire_vars, end_vars>>

-----------------------------------------------------------------------------
(* lock_write: whoever gets the write half pays what is owed, one CLSE     *)
(* after another, before it goes on.                                       *)

LockCall(c) ==
    /\ call[c].pc \in {"lock", "closeLock"} /\ wh = Free
    /\ wh' = c
    /\ call' = To(c, IF call[c].pc = "lock" THEN "pay" ELSE "closePay")
    /\ UNCHANGED <<table_vars, reader, owed, wire_vars, end_vars>>

LockReader ==
    /\ reader.pc = "lock" /\ wh = Free
    /\ wh' = TheReader /\ reader' = [reader EXCEPT !.pc = "pay"]
    /\ UNCHANGED <<table_vars, call, owed, wire_vars, end_vars>>

Paying(h) == \/ h = TheReader /\ reader.pc = "pay"
             \/ h \in Calls /\ call[h].pc \in {"pay", "closePay"}

Debt == wh # Free /\ Paying(wh) /\ owed # <<>>

Pay ==
    /\ Debt /\ ~desync /\ transport # "gone" /\ ~stalled
    /\ owed' = Tail(owed) /\ DeviceTakesClse(Head(owed))
    /\ UNCHANGED <<table_vars, call, reader, wh, transport, stalled, end_vars>>

PayGone ==
    /\ Debt /\ ~desync /\ transport = "gone"
    /\ owed' = <<>>
    /\ UNCHANGED <<table_vars, call, reader, wh, wire_vars, end_vars>>

(* What becomes of the holder h when its lock_write fails.                 *)
PayFailed(h, cs, result) ==
    \/ h = TheReader /\ ReaderFails(cs)
    \/ h \in Calls /\ call[h].pc = "pay" /\ GiveUp(cs, h)
    \/ /\ h \in Calls /\ call[h].pc = "closePay" /\ UNCHANGED reader
       /\ call' = [cs EXCEPT ![h] = Ended("closed", result)]

PayRefused ==
    /\ Debt /\ desync
    /\ PayFailed(wh, wake_all(call), "desynchronized") /\ wh' = Free
    /\ UNCHANGED <<table_vars, owed, wire_vars, end_vars>>

PayAbandoned ==
    /\ Debt /\ ~desync /\ "drop" \in scenario.faults
    /\ DeviceTakesClse(Head(owed)) \/ UNCHANGED <<device, in>>
    /\ PayFailed(wh, wake_all(call), "error") /\ wh' = Free /\ desync' = TRUE
    /\ UNCHANGED <<table_vars, owed, transport, stalled, stopped, stream_over, ended_in_step>>

(* Nothing is owed any more: an open goes on to send, a close and a        *)
(* Reader let the write half go.                                           *)
Paid ==
    /\ wh # Free /\ Paying(wh) /\ owed = <<>>
    /\ LET h == wh
           cs == wake_if_desync(call, desync)
       IN \/ /\ h = TheReader
             /\ IF reader.local = 0 THEN reader' = Receiving /\ call' = cs
                                    ELSE ReaderContinues(cs)
             /\ wh' = Free
          \/ /\ h \in Calls /\ call[h].pc = "pay"
             /\ call' = To(h, "send") /\ UNCHANGED <<reader, wh>>
          \/ /\ h \in Calls /\ call[h].pc = "closePay"
             /\ call' = [cs EXCEPT ![h] = Ended("closed", "ok")]
             /\ wh' = Free /\ UNCHANGED reader
    /\ UNCHANGED <<table_vars, owed, wire_vars, end_vars>>

-----------------------------------------------------------------------------
CallStep(c) ==
    \/ LockCall(c) \/ SendOpen(c) \/ SendRefused(c) \/ DropGuard(c)
    \/ Listen(c) \/ Look(c) \/ Park(c) \/ Woken(c)
    \/ CloseOwes(c) \/ CloseUntil(c) \/ CloseWaits(c) \/ CloseChecks(c)

ReaderStep ==
    \/ RecvEnds \/ RecvPays \/ RecvInterrupted \/ RecvFails \/ Receive \/ FailChannel \/ ReaderWakes
    \/ ReaderOwes \/ LockReader \/ EndStream \/ StopInStep \/ Stop

PayStep == Pay \/ PayGone \/ PayRefused \/ Paid

Next ==
    \/ \E c \in Calls :
         \/ StartOpen(c) \/ DropOpen(c) \/ SendAbandoned(c) \/ StartClose(c) \/ DropClose(c)
         \/ CallStep(c) \/ DeviceReady(c) \/ DeviceCloses(c)
    \/ ReaderStep \/ StartDispatch \/ DropReaderCall \/ DropReader
    \/ PayStep \/ PayAbandoned \/ TransportFails \/ TransportStalls

Spec == Init /\ [][Next]_lifeVars

(* A task that can go on goes on, the Reader receives what there is, and   *)
(* the device answers an OPEN.  Nothing makes a caller drop a call, close  *)
(* a channel or use the Reader, and nothing moves a stalled write.         *)
DeviceAnswers(c) == device[c].state = "asked" /\ (DeviceReady(c) \/ DeviceCloses(c))

Fairness ==
    /\ WF_lifeVars(ReaderStep) /\ WF_lifeVars(PayStep)
    /\ \A c \in Calls : WF_lifeVars(CallStep(c)) /\ WF_lifeVars(DeviceAnswers(c))

FairSpec == Spec /\ Fairness

-----------------------------------------------------------------------------
Holds(c) == call[c].pc \in OpenPcs \cup {"open"}

(* The connection has failed or ended, or its transport has.               *)
Over == desync \/ stopped \/ transport # "up"

(* A slot is occupied exactly while an open that holds its SlotGuard, or a *)
(* handle the application was given, names it: however an open is dropped, *)
(* refused or failed, its slot comes back, and none is taken from under a  *)
(* handle.                                                                 *)
NoSlotLeaked ==
    /\ \A i \in Positions : is_some(table[i]) =>
         \E c \in Calls : Holds(c) /\ call[c].slot = i /\ call[c].local = table[i].local
    /\ \A c \in Calls : Holds(c) => is_some(get(call[c]))

(* The handle of an open is bound to the device's end that answered this   *)
(* OPEN, never to the end of an earlier channel that was given up and      *)
(* whose READY came late.                                                  *)
ReadyMeetsItsOpen ==
    \A c \in Calls : call[c].pc = "open" => get(call[c]).remote = c

(* No CLSE is owed or was sent for a channel that is being opened or held  *)
(* and has not failed.                                                     *)
NoLiveChannelClosed ==
    \A c \in Calls : Holds(c) /\ ~get(call[c]).failed =>
        /\ \A k \in DOMAIN owed : owed[k].remote # c
        /\ device[c].state # "hostClosed"

Forgotten(c) == device[c].state = "open" /\ call[c].pc \in {"failed", "closed"}

CloseIsComing(c) ==
    \/ \E k \in DOMAIN owed : owed[k].remote = c
    \/ \E k \in DOMAIN in : in[k].cmd = "READY" /\ in[k].remote = c
    \/ reader.remote = c /\ reader.pc \in {"fail", "wake", "owe"}

(* A channel the host has let go of and the device holds open is never     *)
(* lost track of: its CLSE is owed, is on its way, or will be owed by the  *)
(* Reader for a READY it has not dealt with yet.                           *)
ForgottenIsTracked == \A c \in Calls : Forgotten(c) /\ ~Over => CloseIsComing(c)

(* A close whose CLSE is called off, because the stream is over or a write *)
(* was abandoned, returns even if the write half is stalled for good.      *)
CalledOffCloseEnds ==
    []<>(clse_called_off => \A c \in Calls : call[c].pc \notin ClosePcs)

(* With run driving the connection and a transport that takes what is      *)
(* written, every open and every close returns, whatever fails meanwhile.  *)
CallsEnd ==
    []<>(reader.does = "run" /\ ~stalled =>
           \A c \in Calls : call[c].pc \notin OpenPcs \cup ClosePcs)

(* The CLSE of c is owed, and goes out with the next packet that comes or  *)
(* the next write: the Reader is in a read that cannot be interrupted.     *)
WaitsForPacket(c) ==
    /\ ~scenario.race /\ reader.pc = "read" /\ in = <<>>
    /\ \E k \in DOMAIN owed : owed[k].remote = c

(* Under the same conditions no end of the device stays open that the host *)
(* let go of, unless its CLSE waits for a packet to end a read that the    *)
(* transport does not let the Reader drop.                                 *)
ForgottenIsClosed ==
    []<>(reader.does = "run" /\ ~stalled =>
           Over \/ \A c \in Calls : Forgotten(c) => WaitsForPacket(c))

(* The slot table is exact: no slot is kept by nobody, and no channel the  *)
(* device still holds is forgotten.                                        *)
SlotsExact == TypeOK /\ NoSlotLeaked /\ ForgottenIsTracked

(* Ids are not mixed up: an open completes, and a CLSE is sent, only for   *)
(* the channel it belongs to.                                              *)
IdsExact == ReadyMeetsItsOpen /\ NoLiveChannelClosed

(* Closing ends: the call returns, and the device is told in the end, at   *)
(* the latest with the next packet where a read cannot be dropped.         *)
ClosesEnd == CalledOffCloseEnds /\ ForgottenIsClosed
=============================================================================
