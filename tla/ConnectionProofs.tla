--------------------------- MODULE ConnectionProofs ---------------------------
(***************************************************************************)
(* Proofs about Connection: host and device agree on the channels there    *)
(* are, for any number of channels, any limits, and any of the faults      *)
(* together.                                                               *)
(***************************************************************************)
EXTENDS Connection, SequenceLemmas, TLAPS

-----------------------------------------------------------------------------
(* The inductive invariant: the channels.                                  *)

(* A slot is free, or has its two ids and stays within its limits.         *)
SlotOK(i) ==
    LET s == table[i]
    IN /\ s.local = 0 => s = NoSlot
       /\ s.local # 0 => /\ s.local < next_local_id /\ s.remote \in Ids /\ s.ack = ack
                         /\ s.state # "Opening" /\ s.settled <= s.rx_buf /\ held(s) <= rx_cap
       /\ Len(stored[i]) = s.rx_buf
SlotsInv == \A i \in Positions : SlotOK(i)

(* Local ids are given out once, and host and device pair them alike.      *)
EndsInv ==
    /\ \A c \in Ids : /\ device[c].local < next_local_id
                      /\ device[c].state \in {"asked", "open"} => device[c].local # 0
                      /\ device[c].state \in {"unused", "offered"} => device[c].local = 0
                      /\ device[c].state = "offered" => c \in Requests
    /\ \A c, d \in Ids : device[c].local # 0 /\ device[c].local = device[d].local => c = d
TableInv ==
    /\ \A i, j \in Positions : table[i].local # 0 =>
         /\ table[i].local = table[j].local => i = j
         /\ table[i].remote = table[j].remote => i = j
    /\ \A i \in Positions : table[i].local # 0 =>
         /\ \/ device[table[i].remote].local \in {0, table[i].local}
            \/ incoming.reserved = [slot |-> i, local |-> table[i].local]
         /\ device[table[i].remote].state \in {"offered", "open", "closed"}
         /\ \A c \in Ids : device[c].local = table[i].local => c = table[i].remote
HandlesInv ==
    /\ \A h \in handles :
         /\ h.local < next_local_id /\ device[h.remote].state \in {"open", "closed"}
         /\ \A i \in Positions : table[i].local = h.local => i = h.slot /\ table[i].remote = h.remote
    /\ \A h, g \in handles : h.local = g.local => h = g
OwnersInv ==
    \A i \in Positions : table[i].local # 0 =>
         \/ \E h \in handles : h.slot = i /\ h.local = table[i].local
         \/ incoming.reserved = [slot |-> i, local |-> table[i].local]
IdsInv == EndsInv /\ TableInv /\ HandlesInv /\ OwnersInv

(* A packet names its channel as the device does.                          *)
PacketOK(p) ==
    IF p.cmd = "OPEN" \/ (p.cmd = "CLSE" /\ p.local = 0)
    THEN /\ p.remote \in Requests /\ p.local = 0 /\ device[p.remote].local = 0
         /\ device[p.remote].state \in {"offered", "closed"}
         /\ p.cmd = "CLSE" => device[p.remote].state = "closed"
    ELSE /\ p.local # 0 /\ p.local = device[p.remote].local
         /\ device[p.remote].state \in {"open", "closed"}
         /\ p.cmd = "CLSE" => device[p.remote].state = "closed"
PacketsInv == \A k \in DOMAIN in : PacketOK(in[k])

(* A request of the device's is in one place at a time, and not answered   *)
(* yet, unless a READY reached the device whose write was abandoned.       *)
HasSlot(r) == \E i \in Positions : table[i].local # 0 /\ table[i].remote = r
OnWire(r) == \E k \in DOMAIN in : in[k].cmd = "OPEN" /\ in[k].remote = r
PlacesInv ==
    /\ Once(queue)
    /\ Len(queue) + (IF incoming.pending = 0 THEN 0 ELSE 1) <= scenario.channels
    /\ \A j, k \in DOMAIN in :
         in[j].cmd = "OPEN" /\ in[k].cmd = "OPEN" /\ in[j].remote = in[k].remote => j = k
    /\ \A r \in Requests :
         /\ OnWire(r) => ~In(queue, r) /\ incoming.pending # r /\ ~HasSlot(r)
         /\ In(queue, r) => incoming.pending # r /\ ~HasSlot(r)
         /\ In(queue, r) \/ incoming.pending = r =>
              /\ device[r].state \in {"offered", "open", "closed"}
              /\ ~desync => device[r].local = 0 /\ device[r].state # "open"
         /\ incoming.pending = r => \A i \in Positions :
              table[i].local # 0 /\ table[i].remote = r =>
                incoming.reserved = [slot |-> i, local |-> table[i].local]

(* The call in progress.                                                   *)
HandleOf(ch) == \E h \in handles : h.slot = ch.slot /\ h.local = ch.local

(* The Incoming the application holds, and the answer it is given.         *)
AnswerInv ==
    /\ call.pc # "held" /\ call.op # "answer" => incoming = NoIncoming
    /\ call.pc = "held" => call.op = "accept" /\ incoming.pending # 0 /\ incoming.reserved = NoChannel
    /\ call.op = "answer" =>
         /\ call.pc = "send" /\ call.after \in {"answered", "refused"}
         /\ incoming.pending # 0 /\ call.frame.remote = incoming.pending
         /\ LET ch == incoming.reserved
            IN IF ch = NoChannel THEN call.frame.cmd = "CLSE"
               ELSE /\ call.frame = Frame("READY", ch.local, incoming.pending, credit)
                    /\ call.after = "answered" /\ ch.slot \in Positions /\ ch.local # 0
                    /\ table[ch.slot] = accepted(ch.local, incoming.pending, Grant, ack)
                    /\ \A h \in handles : h.local # ch.local
                    /\ \A c \in Ids : device[c].local # ch.local

(* An open that waits has a place of its own and an id of its own.         *)
OpenInv ==
    call.op = "open" =>
      /\ call.pc \in {"send", "recv"}
      /\ call.pc = "send" => call.after \in {"await", "dispatched", "short"}
      /\ call.ch.slot \in Positions /\ table[call.ch.slot].local = 0
      /\ call.ch.local # 0 /\ call.ch.local < next_local_id
      /\ \A i \in Positions : table[i].local # call.ch.local
      /\ \A h \in handles : h.local # call.ch.local

(* A read or a write is of a handle, and waits only with its channel.      *)
UseInv ==
    call.op \in {"read", "write"} =>
      /\ HandleOf(call.ch)
      /\ call.pc # "idle" => call.want > 0
      /\ call.pc \in {"recv", "send"} => table[call.ch.slot].local = call.ch.local

(* What is being written, and for whom.                                    *)
FrameInv ==
    call.pc = "send" =>
      CASE call.after = "await" ->
             /\ call.op = "open" /\ call.frame = Frame("OPEN", call.ch.local, 0, credit)
             /\ Unused # {} /\ \A c \in Ids : device[c].local # call.ch.local
        [] call.after \in {"taken", "delivered"} ->
             /\ call.op = "read" /\ call.frame.cmd = "OKAY"
             /\ call.frame.remote = table[call.ch.slot].remote
        [] call.after = "spent" ->
             /\ call.op = "write" /\ call.frame.cmd = "WRTE"
             /\ call.frame.remote = table[call.ch.slot].remote
             /\ call.frame.len > 0 /\ call.frame.len <= call.want
        [] call.after = "dispatched" ->
             /\ call.op \in {"open", "read", "write", "accept"}
             /\ \/ call.frame.cmd = "OKAY" /\ HasSlot(call.frame.remote)
                \/ /\ call.frame.cmd = "CLSE" /\ call.frame.remote \in Ids
                   /\ device[call.frame.remote].state \in {"offered", "open", "closed"}
        [] call.after \in {"closed", "short"} ->
             /\ call.op = IF call.after = "closed" THEN "close" ELSE "open"
             /\ call.frame.cmd = "CLSE" /\ call.frame.remote \in Ids
             /\ device[call.frame.remote].state \in {"open", "closed"}
        [] OTHER -> call.op = "answer"
PcInv ==
    /\ call.pc = "idle" => call.op \in {"none", "read"}
    /\ call.pc = "take" => call.op = "read"
    /\ call.pc = "top" => call.op \in {"write", "accept"}
    /\ call.pc = "recv" => call.op \in {"open", "read", "write", "accept"}
CallInv == PcInv /\ AnswerInv /\ OpenInv /\ UseInv /\ FrameInv

(* After a frame was cut nothing is written, and nothing is waited for.    *)
DesyncInv ==
    /\ ~garbled /\ (cut # "none" => desync)
    /\ desync => /\ call.pc \in {"idle", "take", "send", "held"}
                 /\ call.pc = "send" => call.after \in {"taken", "answered", "refused"}

(* NoOrphan, and the first part of NoRequestLost.                          *)
OrphanInv ==
    (~desync /\ ~gone) => \A c \in Ids : device[c].state = "open" =>
        \/ HasSlot(c) \/ Sending(c, "CLSE")
        \/ \E k \in DOMAIN in : in[k].cmd = "READY" /\ in[k].remote = c
LostInv ==
    (cut # "dispatched" /\ ~gone) => \A r \in Requests : device[r].state = "offered" =>
        OnWire(r) \/ In(queue, r) \/ incoming.pending = r \/ Sending(r, "CLSE")

BaseInv ==
    /\ ConnTypeOK /\ SlotsInv /\ IdsInv /\ PacketsInv /\ PlacesInv /\ CallInv /\ DesyncInv
    /\ OrphanInv /\ LostInv

(* The device may break its own flow control.                              *)
Shorts == "shortReady" \in scenario.faults

-----------------------------------------------------------------------------
(* The limits, the slot's operations and the call's moves.                 *)

(* The limits of a configuration (ConnectionConfig's rx_cap, rx_ceiling,   *)
(* rx_watermark, advertised_ack_bytes).                                    *)
LEMMA Limits ==
    /\ rx_cap \in Nat /\ rx_ceiling = rx_cap - MaxPayload + 1 /\ rx_ceiling \in Nat \ {0}
    /\ rx_watermark \in Nat \ {0} /\ rx_watermark <= rx_ceiling
    /\ advertised_ack_bytes \in Nat /\ advertised_ack_bytes <= rx_ceiling
    /\ MaxPayload \in Nat \ {0} /\ credit \in Nat
  <1>1. rx_cap \in Nat /\ rx_cap >= MaxPayload /\ MaxPayload \in Nat \ {0}
    BY ConfigAssumption DEF rx_cap, AtLeast
  <1>2. rx_ceiling = rx_cap - MaxPayload + 1 /\ rx_ceiling \in Nat \ {0}
    BY <1>1 DEF rx_ceiling
  <1>3. rx_watermark \in Nat \ {0} /\ rx_watermark <= rx_ceiling
    BY <1>1, <1>2, ConfigAssumption DEF rx_watermark, AtMost, AtLeast
  <1>4. advertised_ack_bytes \in Nat /\ advertised_ack_bytes <= rx_ceiling
    BY <1>2, ConfigAssumption DEF advertised_ack_bytes, AtMost
  <1> QED BY <1>1, <1>2, <1>3, <1>4 DEF credit

(* A free place of the table holds nothing.                                *)
LEMMA NoSlotIs ==
    /\ NoSlot \in Slots /\ NoSlot.local = 0 /\ NoSlot.remote = 0 /\ NoSlot.rx_buf = 0
    /\ held(NoSlot) = 0 /\ ~has_data(NoSlot)
  BY DEF NoSlot, opening, Slots, held, has_data, has_ids, NoRemote

(* The ids of the device's channels, those it offers and those it is asked *)
(* for.                                                                    *)
LEMMA IdsAre == Ids \subseteq Nat \ {0} /\ Requests \subseteq Ids /\ Opens \subseteq Ids
                /\ Opens \cap Requests = {} /\ MaxLocal \in Nat \ {0} /\ Grant \in Nat \ {0}
  BY ConnectionAssumption DEF Ids

(* A place of the table is a slot only if it has ids.                      *)
LEMMA FreeIs ==
    ASSUME SlotsInv, NEW i \in Positions
    PROVE  table[i] = NoSlot <=> table[i].local = 0
  BY NoSlotIs DEF SlotsInv, SlotOK

(* get finds a slot by its id.                                             *)
LEMMA GetIs ==
    ASSUME SlotsInv, NEW ch \in ChannelIds
    PROVE  /\ ch.local # 0 /\ ch.slot \in Positions /\ table[ch.slot].local = ch.local => get(ch) = table[ch.slot]
           /\ get(ch) # NoSlot => /\ ch.slot \in Positions /\ get(ch) = table[ch.slot]
                                  /\ table[ch.slot].local = ch.local /\ ch.local # 0
  BY FreeIs, NoSlotIs DEF get

(* A slot that no Incoming has reserved is paired with the device's end.   *)
LEMMA PairedIs ==
    ASSUME ConnTypeOK, TableInv, incoming.reserved = NoChannel
    PROVE  /\ \A i \in Positions : incoming.reserved # [slot |-> i, local |-> table[i].local]
           /\ \A i \in Positions : table[i].local # 0 => device[table[i].remote].local \in {0, table[i].local}
  <1>1. \A i \in Positions : i # 0
    BY ConnectionAssumption DEF Positions, ConnTypeOK
  <1>2. \A i \in Positions : incoming.reserved # [slot |-> i, local |-> table[i].local]
    BY <1>1 DEF NoChannel
  <1> QED BY <1>2 DEF TableInv

(* The least of some positions.                                            *)
LEMMA FirstIs ==
    ASSUME NEW S \in SUBSET Nat, S # {}
    PROVE  first(S) \in S
  <1>1. \E m \in S : \A k \in S : m <= k
    BY LeastNatural
  <1> QED BY <1>1 DEF first

(* A connection with no call in progress.                                  *)
LEMMA NoCallIs ==
    /\ NoCall.op = "none" /\ NoCall.pc = "idle" /\ NoCall.after = "none" /\ NoCall.result = "none"
    /\ NoCall.ch = NoChannel /\ NoCall.failing = FALSE /\ NoCall.frame = NoFrame /\ NoCall.want = 0
    /\ scenario \in Scenarios => NoCall \in CallStates
  <1>1. scenario \in Scenarios => 0 \in 0 .. scenario.channels
    BY ConnectionAssumption
  <1>2. scenario \in Scenarios => NoChannel \in ChannelIds
    BY <1>1, IdsAre DEF NoChannel, ChannelIds
  <1>3. NoFrame \in Frames
    BY IdsAre DEF NoFrame, Frames
  <1> QED BY <1>2, <1>3 DEF NoCall, CallStates, Ops, Afters

(* A call that returns.                                                    *)
LEMMA ReturnsIs ==
    ASSUME ConnTypeOK, NEW x \in {"ok", "err", "dropped"}
    PROVE  LET r == Returns(x)
           IN /\ r \in CallStates /\ r.pc = "idle" /\ r.after = "none" /\ r.op \in {"none", "read"}
              /\ r.op = "read" => call.op = "read" /\ r.ch = call.ch /\ x = "err"
              /\ r.result = "err" => r.op = "read"
              /\ r.op = "none" => r = NoCall
  BY NoCallIs, ZenonT(60) DEF Returns, ConnTypeOK, CallStates, Ops, Afters

(* A call that starts to write a frame.                                    *)
LEMMA SendsIs ==
    ASSUME ConnTypeOK, NEW f \in Frames, NEW a \in Afters
    PROVE  LET r == Sends(f, a)
           IN /\ r \in CallStates /\ r.pc = "send" /\ r.after = a /\ r.op = call.op /\ r.ch = call.ch
              /\ r.want = call.want /\ r.frame = f /\ r.failing = call.failing
  BY DEF Sends, ConnTypeOK, CallStates

(* A call that starts.                                                     *)
LEMMA StartsIs ==
    ASSUME scenario \in Scenarios, NEW op \in Ops, NEW ch \in ChannelIds, NEW want \in Nat
    PROVE  LET r == Starts(op, ch, want)
           IN /\ r \in CallStates /\ r.op = op /\ r.ch = ch /\ r.want = want /\ r.pc = "idle"
              /\ r.after = "none" /\ r.frame = NoFrame /\ r.result = "none"
  BY NoCallIs DEF Starts, CallStates

(* A call that goes on after a packet of somebody else's.                  *)
LEMMA LoopIs ==
    ASSUME ConnTypeOK
    PROVE  /\ Loop \in CallStates /\ Loop.op = call.op /\ Loop.ch = call.ch /\ Loop.want = call.want
           /\ Loop.after = "none" /\ Loop.frame = NoFrame
           /\ Loop.pc = IF call.op = "read" THEN "take"
                        ELSE IF call.op \in {"write", "accept"} THEN "top" ELSE "recv"
  <1>1. NoFrame \in Frames
    BY IdsAre DEF NoFrame, Frames
  <1> QED BY <1>1 DEF Loop, ConnTypeOK, CallStates, Afters

(* A call that ends on another channel's fault.                            *)
LEMMA LoopFailingIs ==
    ASSUME ConnTypeOK
    PROVE  /\ LoopFailing \in CallStates
           /\ IF call.op = "read"
              THEN /\ LoopFailing.op = "read" /\ LoopFailing.pc = "take" /\ LoopFailing.ch = call.ch
                   /\ LoopFailing.want = call.want /\ LoopFailing.after = "none"
              ELSE LoopFailing = NoCall
  <1>1. CASE call.op = "read"
    BY <1>1, LoopIs DEF LoopFailing, CallStates
  <1>2. CASE call.op # "read"
    BY <1>2, ReturnsIs, NoCallIs DEF LoopFailing, Returns, ConnTypeOK
  <1> QED BY <1>1, <1>2

(* The frames a call writes are frames.                                    *)
LEMMA FramesAre ==
    ASSUME NEW cmd \in {"OPEN", "READY", "OKAY", "WRTE", "CLSE"}, NEW local \in 0 .. MaxLocal,
           NEW remote \in Ids \cup {0}, NEW len \in Nat
    PROVE  LET f == Frame(cmd, local, remote, len)
           IN /\ f \in Frames /\ f # NoFrame /\ f.cmd = cmd /\ f.local = local /\ f.remote = remote
              /\ f.len = len
  BY DEF Frame, Frames, NoFrame

-----------------------------------------------------------------------------
(* A step that leaves the ids of the table and of the device alone.        *)

SameTable == \A i \in Positions : table'[i].local = table[i].local /\ table'[i].remote = table[i].remote
SameDevice == \A c \in Ids : device'[c].local = device[c].local /\ device'[c].state = device[c].state
Keeps == SameTable /\ SameDevice /\ UNCHANGED <<ack, scenario, next_local_id, handles, incoming>>

(* A step that leaves the ids alone keeps what is invariant about them.    *)
LEMMA KeepIds ==
    ASSUME ConnTypeOK, SlotsInv, IdsInv, Keeps
    PROVE  IdsInv'
  <1>1. Positions' = Positions /\ scenario' = scenario
    BY DEF Keeps, Positions
  <1>2. \A i \in Positions : table[i].local # 0 => table[i].remote \in Ids
    BY DEF SlotsInv, SlotOK
  <1>3. \A h \in handles : h.remote \in Ids
    BY DEF ConnTypeOK
  <1>4. EndsInv'
    BY DEF Keeps, SameDevice, IdsInv, EndsInv
  <1>5. TableInv'
    BY <1>1, <1>2 DEF Keeps, SameDevice, SameTable, IdsInv, TableInv
  <1>6. HandlesInv'
    BY <1>1, <1>3 DEF Keeps, SameDevice, SameTable, IdsInv, HandlesInv
  <1>7. OwnersInv'
    BY <1>1 DEF Keeps, SameTable, IdsInv, OwnersInv
  <1> QED BY <1>4, <1>5, <1>6, <1>7 DEF IdsInv

(* The stream of packets to the host, one shorter.                         *)
LEMMA TailIs ==
    ASSUME NEW T, NEW s \in Seq(T), s # <<>>
    PROVE  /\ Head(s) \in T /\ Head(s) = s[1] /\ 1 \in DOMAIN s
           /\ Tail(s) \in Seq(T) /\ DOMAIN s = 1 .. Len(s) /\ Len(s) \in Nat \ {0}
           /\ DOMAIN Tail(s) = 1 .. Len(s) - 1
           /\ \A k \in DOMAIN Tail(s) : k + 1 \in DOMAIN s /\ k + 1 > 1 /\ Tail(s)[k] = s[k + 1]
           /\ \A k \in DOMAIN s : k # 1 => k - 1 \in DOMAIN Tail(s) /\ Tail(s)[k - 1] = s[k]
  <1>1. /\ Head(s) \in T /\ Head(s) = s[1] /\ Tail(s) \in Seq(T) /\ Len(Tail(s)) = Len(s) - 1
        /\ DOMAIN s = 1 .. Len(s) /\ Len(s) \in Nat \ {0}
        /\ \A k \in 1 .. Len(s) - 1 : Tail(s)[k] = s[k + 1]
    OBVIOUS
  <1>2. DOMAIN Tail(s) = 1 .. Len(s) - 1
    BY <1>1
  <1>3. \A k \in 1 .. Len(s) - 1 : k + 1 \in 1 .. Len(s) /\ k + 1 > 1
    BY <1>1
  <1>4. \A k \in 1 .. Len(s) : k # 1 => k - 1 \in 1 .. Len(s) - 1 /\ (k - 1) + 1 = k
    BY <1>1
  <1>5. 1 \in 1 .. Len(s)
    BY <1>1
  <1> QED BY <1>1, <1>2, <1>3, <1>4, <1>5

(* A sequence with one more element.                                       *)
LEMMA AppendIs ==
    ASSUME NEW T, NEW s \in Seq(T), NEW e \in T
    PROVE  /\ Append(s, e) \in Seq(T) /\ Len(s) + 1 \in DOMAIN Append(s, e)
           /\ Append(s, e)[Len(s) + 1] = e /\ Len(s) \in Nat /\ DOMAIN s = 1 .. Len(s)
           /\ \A k \in DOMAIN s : k \in DOMAIN Append(s, e) /\ Append(s, e)[k] = s[k] /\ k < Len(s) + 1
           /\ \A k \in DOMAIN Append(s, e) : k \in DOMAIN s \/ k = Len(s) + 1
  <1>1. /\ Append(s, e) \in Seq(T) /\ DOMAIN Append(s, e) = 1 .. Len(s) + 1 /\ Len(s) \in Nat
        /\ DOMAIN s = 1 .. Len(s) /\ Append(s, e)[Len(s) + 1] = e
        /\ \A k \in 1 .. Len(s) : Append(s, e)[k] = s[k]
    OBVIOUS
  <1>2. \A k \in 1 .. Len(s) + 1 : k \in 1 .. Len(s) \/ k = Len(s) + 1
    BY <1>1
  <1>3. Len(s) + 1 \in 1 .. Len(s) + 1 /\ \A k \in 1 .. Len(s) : k \in 1 .. Len(s) + 1 /\ k < Len(s) + 1
    BY <1>1
  <1> QED BY <1>1, <1>2, <1>3

(* The elements of a sequence are of its type.                             *)
LEMMA ElementsOf ==
    ASSUME NEW T, NEW s \in Seq(T), NEW k \in DOMAIN s
    PROVE  s[k] \in T
  OBVIOUS

(* A packet with its fields.                                               *)
LEMMA PacketTypes ==
    ASSUME ConnTypeOK, NEW k \in DOMAIN in
    PROVE  /\ in[k] \in Inbound /\ in[k].remote \in Ids /\ in[k].local \in 0 .. MaxLocal
           /\ in[k].data \in Seq(Bytes) /\ in[k].len \in Int
           /\ in[k].cmd \in {"OPEN", "READY", "WRTE", "CLSE"}
  <1>1. in[k] \in Inbound
    BY ElementsOf DEF ConnTypeOK
  <1> QED BY <1>1 DEF Inbound

InKept == in' = in \/ (in # <<>> /\ in' = Tail(in))

(* What is in flight was in flight, in the same order.                     *)
LEMMA InKeptIs ==
    ASSUME ConnTypeOK, InKept
    PROVE  /\ in' \in Seq(Inbound)
           /\ \E d \in {0, 1} : \A k \in DOMAIN in' : k \in Nat /\ k + d \in DOMAIN in /\ in'[k] = in[k + d]
  <1>1. CASE in' = in
    <2>1. \A k \in DOMAIN in : k \in Nat /\ k + 0 = k
      BY DEF ConnTypeOK
    <2> QED BY <1>1, <2>1 DEF ConnTypeOK
  <1>2. CASE in # <<>> /\ in' = Tail(in)
    <2>1. in \in Seq(Inbound)
      BY DEF ConnTypeOK
    <2>2. in' \in Seq(Inbound) /\ \A k \in DOMAIN in' : k + 1 \in DOMAIN in /\ in'[k] = in[k + 1]
      BY <1>2, <2>1, TailIs
    <2>3. \A k \in DOMAIN in' : k \in Nat
      BY <2>2
    <2> QED BY <2>2, <2>3
  <1> QED BY <1>1, <1>2 DEF InKept

(* Packets stay right while the device's ends do.                          *)
LEMMA KeepPackets ==
    ASSUME ConnTypeOK, PacketsInv, SameDevice, InKept
    PROVE  PacketsInv'
  <1>1. \A k \in DOMAIN in' : \E j \in DOMAIN in : in'[k] = in[j]
    BY InKeptIs
  <1>2. \A j \in DOMAIN in : in[j].remote \in Ids
    BY PacketTypes
  <1>3. ASSUME NEW k \in DOMAIN in' PROVE PacketOK(in[k])'
    BY <1>1, <1>2, <1>3 DEF PacketsInv, PacketOK, SameDevice
  <1> QED BY <1>3 DEF PacketsInv

(* A step that leaves the table alone keeps what is invariant about it.    *)
LEMMA KeepSlots ==
    ASSUME SameTable, UNCHANGED scenario
    PROVE  \A r : HasSlot(r)' <=> HasSlot(r)
  <1>1. Positions' = Positions
    BY DEF Positions
  <1> QED BY <1>1 DEF SameTable, HasSlot

(* Requests stay where they are.                                           *)
LEMMA KeepPlaces ==
    ASSUME ConnTypeOK, PlacesInv, Keeps, InKept, queue' = queue, ~desync' => ~desync
    PROVE  PlacesInv'
  <1>1. \A r : HasSlot(r)' <=> HasSlot(r)
    BY KeepSlots DEF Keeps
  <1>2. PICK d \in {0, 1} : \A k \in DOMAIN in' : k \in Nat /\ k + d \in DOMAIN in /\ in'[k] = in[k + d]
    BY InKeptIs
  <1>3. \A r : OnWire(r)' => OnWire(r)
    BY <1>2 DEF OnWire
  <1>4. ASSUME NEW j \in DOMAIN in', NEW k \in DOMAIN in', in'[j].cmd = "OPEN", in'[k].cmd = "OPEN",
               in'[j].remote = in'[k].remote
        PROVE  j = k
    <2>1. j + d = k + d
      BY <1>2, <1>4 DEF PlacesInv
    <2> QED BY <1>2, <2>1
  <1>5. Positions' = Positions /\ scenario' = scenario /\ incoming' = incoming
    BY DEF Positions, Keeps
  <1>6. \A r \in Requests : r \in Ids
    BY IdsAre
  <1> QED BY <1>1, <1>3, <1>4, <1>5, <1>6 DEF PlacesInv, Keeps, SameTable, SameDevice

-----------------------------------------------------------------------------
(* Where a call goes.                                                      *)

(* A call that has returned promises nothing.                              *)
LEMMA CallReturns ==
    ASSUME ConnTypeOK, CallInv, NEW x \in {"ok", "err", "dropped"}, call' = Returns(x),
           handles \subseteq handles', incoming' = NoIncoming
    PROVE  CallInv'
  <1>1. /\ call'.pc = "idle" /\ call'.op \in {"none", "read"}
        /\ call'.op = "read" => call.op = "read" /\ call'.ch = call.ch
    BY ReturnsIs
  <1>2. PcInv' /\ AnswerInv' /\ OpenInv' /\ FrameInv'
    BY <1>1 DEF PcInv, AnswerInv, OpenInv, FrameInv
  <1>3. UseInv'
    BY <1>1 DEF UseInv, HandleOf, CallInv
  <1> QED BY <1>2, <1>3 DEF CallInv

(* A handle stays the handle of its channel.                               *)
LEMMA HandlesKept ==
    ASSUME handles' = handles
    PROVE  \A ch : HandleOf(ch)' <=> HandleOf(ch)
  BY DEF HandleOf

(* What is said of a call depends on what it names.                        *)
LEMMA PrimedCall ==
    HandleOf(call.ch)' <=> \E h \in handles' : h.slot = call'.ch.slot /\ h.local = call'.ch.local
  BY DEF HandleOf

(* A call that loops is where it was before it waited.                     *)
LEMMA CallLoops ==
    ASSUME ConnTypeOK, CallInv, Keeps, call.op \in {"open", "read", "write", "accept"},
           call.pc \in {"recv", "send"}, incoming = NoIncoming,
           \/ call' = Loop
           \/ call' = LoopFailing
           \/ call.op = "write" /\ call' = [call EXCEPT !.pc = "top"]
    PROVE  CallInv'
  <1>1. CASE call' = NoCall
    BY <1>1, NoCallIs DEF CallInv, PcInv, AnswerInv, OpenInv, UseInv, FrameInv, Keeps
  <1>2. CASE call' # NoCall
    <2>1. /\ call'.op = call.op /\ call'.ch = call.ch /\ call'.want = call.want
          /\ call'.pc = IF call.op = "read" THEN "take"
                        ELSE IF call.op \in {"write", "accept"} THEN "top" ELSE "recv"
      BY <1>2, LoopIs, LoopFailingIs DEF ConnTypeOK, CallStates
    <2>2. PcInv' /\ FrameInv'
      BY <2>1 DEF PcInv, FrameInv
    <2>3. AnswerInv'
      BY <2>1 DEF AnswerInv, Keeps
    <2>4. UseInv'
      BY <2>1 DEF UseInv, CallInv, HandleOf, Keeps
    <2>5. OpenInv'
      <3>1. Positions' = Positions
        BY DEF Keeps, Positions
      <3> QED BY <2>1, <3>1 DEF OpenInv, CallInv, Keeps, SameTable
    <2> QED BY <2>2, <2>3, <2>4, <2>5 DEF CallInv
  <1> QED BY <1>1, <1>2

(* A call that writes an OKAY or a CLSE for a packet it came across.       *)
LEMMA CallAnswers ==
    ASSUME ConnTypeOK, CallInv, Keeps, call.pc = "recv", NEW f \in Frames, call' = Sends(f, "dispatched"),
           \/ f.cmd = "OKAY" /\ HasSlot(f.remote)
           \/ f.cmd = "CLSE" /\ f.remote \in Ids /\ device[f.remote].state \in {"offered", "open", "closed"}
    PROVE  CallInv'
  <1>1. /\ call'.op = call.op /\ call'.ch = call.ch /\ call'.want = call.want
        /\ call'.pc = "send" /\ call'.frame = f /\ call'.after = "dispatched"
    BY SendsIs DEF Afters
  <1>2. call.op \in {"open", "read", "write", "accept"}
    BY DEF CallInv, PcInv
  <1>3. PcInv' /\ AnswerInv'
    BY <1>1, <1>2 DEF PcInv, AnswerInv, CallInv, Keeps
  <1>4. Positions' = Positions
    BY DEF Keeps, Positions
  <1>5. OpenInv'
    BY <1>1, <1>4 DEF OpenInv, CallInv, Keeps, SameTable
  <1>6. UseInv'
    <2>1. call.op \in {"read", "write"} => call.ch.slot \in Positions
      BY DEF CallInv, UseInv, HandleOf, ConnTypeOK
    <2> QED BY <1>1, <2>1 DEF UseInv, CallInv, HandleOf, Keeps, SameTable
  <1>7. HasSlot(f.remote)' <=> HasSlot(f.remote)
    BY KeepSlots DEF Keeps
  <1>8. FrameInv'
    BY <1>1, <1>2, <1>7 DEF FrameInv, HasSlot, Keeps, SameDevice
  <1> QED BY <1>3, <1>5, <1>6, <1>8 DEF CallInv

-----------------------------------------------------------------------------
(* Steps that leave every channel and every request where it is.           *)

(* The faults of a scenario stay what they are.                            *)
LEMMA TypesKept ==
    ASSUME scenario' = scenario
    PROVE  CallStates' = CallStates /\ ChannelIds' = ChannelIds /\ Positions' = Positions
           /\ Overruns' = Overruns /\ Shorts' = Shorts
  BY DEF CallStates, ChannelIds, Positions, Overruns, Shorts

(* A step that only moves the call on keeps the invariant of the channels. *)
LEMMA Quiet ==
    ASSUME BaseInv, ConnTypeOK', SlotsInv', CallInv', DesyncInv', Keeps, InKept, queue' = queue,
           ~desync' => ~desync, ~gone' => ~gone, cut' # "dispatched" => cut # "dispatched",
           \A c \in Ids : device[c].state = "open" /\ ~desync' /\ ~gone'
                          /\ (Sending(c, "CLSE") \/ (in' # in /\ Head(in).cmd = "READY" /\ Head(in).remote = c))
                            => HasSlot(c) \/ Sending(c, "CLSE")',
           \A r \in Requests : device[r].state = "offered" /\ Sending(r, "CLSE") /\ cut' # "dispatched" /\ ~gone'
                                 => Sending(r, "CLSE")',
           in' # in => Head(in).cmd # "OPEN"
    PROVE  BaseInv'
  <1> USE DEF BaseInv
  <1>1. IdsInv' /\ PacketsInv' /\ PlacesInv'
    BY KeepIds, KeepPackets, KeepPlaces DEF Keeps
  <1>2. \A r : HasSlot(r)' <=> HasSlot(r)
    BY KeepSlots DEF Keeps
  <1>3. \A k \in DOMAIN in : (in' # in /\ in[k] = Head(in)) \/ \E j \in DOMAIN in' : in'[j] = in[k]
    <2>1. CASE in' = in
      BY <2>1
    <2>2. CASE in' # in
      <3>1. in \in Seq(Inbound) /\ in # <<>> /\ in' = Tail(in)
        BY <2>2 DEF InKept, ConnTypeOK
      <3>2. ASSUME NEW k \in DOMAIN in, k # 1 PROVE \E j \in DOMAIN in' : in'[j] = in[k]
        BY <3>1, <3>2, TailIs
      <3> QED BY <2>2, <3>1, <3>2, TailIs
    <2> QED BY <2>1, <2>2
  <1>4. OrphanInv'
    BY <1>2, <1>3 DEF OrphanInv, Keeps, SameDevice
  <1>5. LostInv'
    <2>1. \A r : OnWire(r) => OnWire(r)'
      BY <1>3 DEF OnWire
    <2> QED BY <2>1, IdsAre DEF LostInv, Keeps, SameDevice
  <1> QED BY <1>1, <1>4, <1>5

HostKept == UNCHANGED <<ack, scenario, table, stored, next_local_id, queue, incoming, handles>>

(* The call moves on, and nothing else.                                    *)
LEMMA CallOnly ==
    ASSUME BaseInv, HostKept, UNCHANGED <<got, wireVars>>, call.pc # "send", call' \in CallStates,
           CallInv', desync => \/ call'.pc \in {"idle", "take", "held"}
                               \/ call'.pc = "send" /\ call'.after \in {"taken", "answered", "refused"}
    PROVE  BaseInv'
  <1>1. ConnTypeOK'
    BY TypesKept DEF BaseInv, ConnTypeOK, HostKept, wireVars
  <1>2. SlotsInv'
    BY TypesKept DEF BaseInv, SlotsInv, SlotOK, HostKept
  <1>3. Keeps /\ InKept /\ queue' = queue /\ in' = in
    BY DEF Keeps, SameTable, SameDevice, InKept, HostKept, wireVars
  <1>4. DesyncInv'
    BY DEF BaseInv, DesyncInv, wireVars
  <1>5. \A c : ~Sending(c, "CLSE")
    BY DEF Sending
  <1> QED BY <1>1, <1>2, <1>3, <1>4, <1>5, Quiet DEF wireVars

(* The channel of a handle.                                                *)
LEMMA ChannelOf ==
    ASSUME ConnTypeOK, NEW h \in handles
    PROVE  /\ [slot |-> h.slot, local |-> h.local] \in ChannelIds
           /\ h.slot \in Positions /\ h.local \in 1 .. MaxLocal /\ h.remote \in Ids
  <1>1. h \in [slot : Positions, local : 1 .. MaxLocal, remote : Ids]
    BY DEF ConnTypeOK
  <1>2. scenario.channels \in Nat
    BY ConnectionAssumption DEF ConnTypeOK
  <1>3. \A k \in 1 .. scenario.channels : k \in 0 .. scenario.channels
    BY <1>2
  <1>4. \A k \in 1 .. MaxLocal : k \in 0 .. MaxLocal
    BY IdsAre
  <1> QED BY <1>1, <1>3, <1>4 DEF ChannelIds, Positions

(* A read or a write starts.                                               *)
LEMMA StartUse ==
    ASSUME BaseInv, StartRead \/ StartWrite
    PROVE  BaseInv'
  <1>1. PICK h \in handles, want \in Nat \ {0}, op \in {"read", "write"} :
          /\ call' = [Starts(op, [slot |-> h.slot, local |-> h.local], want) EXCEPT
                         !.pc = IF op = "read" THEN "take" ELSE "top"]
          /\ op = "write" => ~desync
    <2>1. CASE StartRead
      <3>1. \A w \in Wants : w \in Nat \ {0}
        BY ConnectionAssumption
      <3>2. PICK h \in handles, w \in Wants :
              call' = [Starts("read", [slot |-> h.slot, local |-> h.local], w) EXCEPT !.pc = "take"]
        BY <2>1 DEF StartRead
      <3> QED BY <3>1, <3>2
    <2>2. CASE StartWrite
      <3>1. PICK h \in handles : \E n \in 1 .. scenario.writes - device[h.remote].has :
              call' = [Starts("write", [slot |-> h.slot, local |-> h.local], n) EXCEPT !.pc = "top"]
        BY <2>2 DEF StartWrite
      <3>2. \A n \in 1 .. scenario.writes - device[h.remote].has : n \in Nat \ {0}
        OBVIOUS
      <3> QED BY <2>2, <3>1, <3>2 DEF StartWrite
    <2> QED BY <2>1, <2>2
  <1>2. call.pc = "idle" /\ HostKept /\ UNCHANGED <<got, wireVars>>
    BY DEF StartRead, StartWrite, HostKept
  <1> DEFINE ch == [slot |-> h.slot, local |-> h.local]
             r == Starts(op, ch, want)
  <1>3. ch \in ChannelIds /\ scenario \in Scenarios /\ op \in Ops
    BY ChannelOf DEF BaseInv, ConnTypeOK, Ops
  <1>4. r \in CallStates /\ r.op = op /\ r.ch = ch /\ r.want = want
    BY <1>3, StartsIs
  <1> HIDE DEF r
  <1>5. /\ call' \in CallStates /\ call'.op = op /\ call'.ch = ch /\ call'.want = want
        /\ call'.pc = IF op = "read" THEN "take" ELSE "top"
    BY <1>1, <1>4 DEF r, CallStates
  <1>6. incoming = NoIncoming
    BY <1>2 DEF BaseInv, CallInv, PcInv, AnswerInv
  <1>7. CallInv'
    BY <1>2, <1>5, <1>6 DEF CallInv, PcInv, AnswerInv, OpenInv, FrameInv, UseInv, HandleOf, HostKept
  <1> QED BY <1>1, <1>2, <1>5, <1>7, CallOnly

(* An accept starts.                                                       *)
LEMMA StartAccepting ==
    ASSUME BaseInv, StartAccept
    PROVE  BaseInv'
  <1>1. call.pc = "idle" /\ ~desync /\ HostKept /\ UNCHANGED <<got, wireVars>>
        /\ call' = [Starts("accept", NoChannel, 0) EXCEPT !.pc = "top"]
    BY DEF StartAccept, HostKept
  <1>2. NoChannel \in ChannelIds /\ scenario \in Scenarios
    BY NoCallIs DEF BaseInv, ConnTypeOK, CallStates
  <1>3. call' \in CallStates /\ call'.op = "accept" /\ call'.pc = "top"
    BY <1>1, <1>2, StartsIs DEF CallStates, Ops
  <1>4. incoming = NoIncoming
    BY <1>1 DEF BaseInv, CallInv, PcInv, AnswerInv
  <1>5. CallInv'
    BY <1>1, <1>3, <1>4 DEF CallInv, PcInv, AnswerInv, OpenInv, FrameInv, UseInv, HostKept
  <1> QED BY <1>1, <1>3, <1>5, CallOnly

(* The CLSE that closes a channel.                                         *)
LEMMA CloseIs ==
    ASSUME NEW local \in 0 .. MaxLocal, NEW remote \in Ids
    PROVE  /\ close(local, remote) \in Frames /\ close(local, remote) # NoFrame
           /\ close(local, remote).cmd = "CLSE" /\ close(local, remote).remote = remote
           /\ close(local, remote).local = local
  BY DEF close, Frame, Frames, NoFrame

(* The CLSE that refuses a request.                                        *)
LEMMA RefuseIs ==
    ASSUME NEW remote \in Ids
    PROVE  /\ refuse(remote) \in Frames /\ refuse(remote) # NoFrame
           /\ refuse(remote).cmd = "CLSE" /\ refuse(remote).remote = remote
  <1>1. 0 \in 0 .. MaxLocal
    BY IdsAre
  <1> QED BY <1>1, CloseIs DEF refuse

(* Incoming::reject.                                                       *)
LEMMA Rejected ==
    ASSUME BaseInv, Reject
    PROVE  BaseInv'
  <1>1. call.pc = "held" /\ HostKept /\ UNCHANGED <<got, wireVars>>
        /\ call' = [Starts("answer", NoChannel, 0) EXCEPT !.pc = "send", !.after = "answered",
                                                     !.frame = refuse(incoming.pending)]
    BY DEF Reject, HostKept
  <1>2. NoChannel \in ChannelIds /\ scenario \in Scenarios
    BY NoCallIs DEF BaseInv, ConnTypeOK, CallStates
  <1>3. incoming.pending \in Requests /\ incoming.reserved = NoChannel /\ incoming.pending # 0
    BY <1>1 DEF BaseInv, ConnTypeOK, CallInv, AnswerInv
  <1>4. refuse(incoming.pending) \in Frames /\ refuse(incoming.pending).cmd = "CLSE"
        /\ refuse(incoming.pending).remote = incoming.pending
    BY <1>3, IdsAre, RefuseIs
  <1>5. call' \in CallStates /\ call'.op = "answer" /\ call'.pc = "send" /\ call'.after = "answered"
        /\ call'.frame = refuse(incoming.pending)
    <2> DEFINE r == Starts("answer", NoChannel, 0)
    <2>1. r \in CallStates /\ r.op = "answer"
      BY <1>2, StartsIs DEF Ops
    <2> HIDE DEF r
    <2>2. call' = [r EXCEPT !.pc = "send", !.after = "answered", !.frame = refuse(incoming.pending)]
      BY <1>1 DEF r
    <2> QED BY <1>4, <2>1, <2>2 DEF CallStates, Afters
  <1>6. CallInv'
    BY <1>1, <1>3, <1>4, <1>5 DEF CallInv, PcInv, AnswerInv, OpenInv, FrameInv, UseInv, HostKept
  <1> QED BY <1>1, <1>5, <1>6, CallOnly

(* A call that waits now, or has failed.                                   *)
LEMMA Waits ==
    ASSUME BaseInv, HostKept, UNCHANGED <<got, wireVars>>, call.pc \in {"take", "top"}, ~desync,
           call.op \in {"read", "write"} => get(call.ch) # NoSlot,
           call' = [call EXCEPT !.pc = "recv"]
    PROVE  BaseInv'
  <1>1. call' \in CallStates /\ call'.op = call.op /\ call'.ch = call.ch /\ call'.pc = "recv"
        /\ call'.want = call.want
    BY DEF BaseInv, ConnTypeOK, CallStates
  <1>2. call.op \in {"read", "write", "accept"} /\ incoming = NoIncoming
    BY DEF BaseInv, CallInv, PcInv, AnswerInv
  <1>3. call.op \in {"read", "write"} => table[call.ch.slot].local = call.ch.local
    <2>1. call.ch \in ChannelIds
      BY DEF BaseInv, ConnTypeOK, CallStates
    <2> QED BY <2>1, GetIs DEF BaseInv
  <1>4. CallInv'
    BY <1>1, <1>2, <1>3 DEF BaseInv, CallInv, PcInv, AnswerInv, OpenInv, FrameInv, UseInv, HostKept, HandleOf
  <1> QED BY <1>1, <1>4, CallOnly

(* A call that fails.                                                      *)
LEMMA Fails ==
    ASSUME BaseInv, HostKept, UNCHANGED <<got, wireVars>>, call.pc \notin {"send", "held"},
           NEW x \in {"ok", "err", "dropped"}, call' = Returns(x)
    PROVE  BaseInv'
  <1>1. incoming' = NoIncoming
    BY DEF BaseInv, CallInv, AnswerInv, HostKept
  <1>2. call' \in CallStates /\ call'.pc = "idle"
    BY ReturnsIs DEF BaseInv
  <1>3. CallInv'
    BY <1>1, CallReturns DEF BaseInv, HostKept
  <1> QED BY <1>2, <1>3, CallOnly

(* A call that stops waiting for a packet.                                 *)
LEMMA ReceiveEnds ==
    ASSUME BaseInv, ReceiveFails \/ ReceiveDropped
    PROVE  BaseInv'
  BY Fails DEF ReceiveFails, ReceiveDropped, HostKept

(* A chunk of a write is within what the channel allows.                   *)
LEMMA ChunkLen ==
    ASSUME BaseInv, call.op = "write", call.pc = "top", NEW s, s = get(call.ch), s # NoSlot, has_budget(s)
    PROVE  /\ chunk(s) \in Nat \ {0} /\ chunk(s) <= call.want
           /\ s.ack = "Delayed" => chunk(s) <= s.send_budget
  <1>1. s \in Slots
    BY GetIs DEF BaseInv, ConnTypeOK, CallStates
  <1>2. call.want \in Nat \ {0}
    BY DEF BaseInv, ConnTypeOK, CallStates, CallInv, UseInv
  <1> QED BY <1>1, <1>2, Limits DEF chunk, AtMost, has_budget, Slots

(* write_channel takes the next chunk, or waits.                           *)
LEMMA Chunked ==
    ASSUME BaseInv, Chunk
    PROVE  BaseInv'
  <1> DEFINE s == get(call.ch)
  <1>1. call.pc = "top" /\ call.op = "write" /\ HostKept /\ UNCHANGED <<got, wireVars>> /\ ~desync
    BY DEF Chunk, HostKept, BaseInv, DesyncInv
  <1>2. CASE s = NoSlot \/ is_closed(s)
    BY <1>1, <1>2, Fails DEF Chunk
  <1>3. CASE s # NoSlot /\ ~is_closed(s) /\ ~has_budget(s)
    BY <1>1, <1>3, Waits DEF Chunk
  <1>4. CASE s # NoSlot /\ ~is_closed(s) /\ has_budget(s)
    <2> DEFINE f == Frame("WRTE", s.local, s.remote, chunk(s))
    <2>1. call' = Sends(f, "spent")
      BY <1>4 DEF Chunk
    <2>2. /\ call.ch.slot \in Positions /\ s = table[call.ch.slot]
          /\ s.local = call.ch.local /\ s.local # 0
      BY <1>4, GetIs DEF BaseInv, ConnTypeOK, CallStates
    <2>3. s.local \in 0 .. MaxLocal /\ s.remote \in Ids
      BY <2>2 DEF BaseInv, SlotsInv, SlotOK, ConnTypeOK, CallStates, ChannelIds
    <2>4. chunk(s) \in Nat \ {0} /\ chunk(s) <= call.want
      BY <1>1, <1>4, ChunkLen
    <2>5. f \in Frames /\ f.cmd = "WRTE" /\ f.remote = s.remote /\ f.len = chunk(s)
      BY <2>3, <2>4, FramesAre
    <2> HIDE DEF f, s
    <2>6. /\ call' \in CallStates /\ call'.pc = "send" /\ call'.after = "spent" /\ call'.op = "write"
          /\ call'.ch = call.ch /\ call'.want = call.want /\ call'.frame = f
      BY <1>1, <2>1, <2>5, SendsIs DEF BaseInv, Afters
    <2>7. incoming = NoIncoming
      BY <1>1 DEF BaseInv, CallInv, AnswerInv
    <2>8. CallInv'
      BY <1>1, <2>2, <2>4, <2>5, <2>6, <2>7
         DEF BaseInv, CallInv, PcInv, AnswerInv, OpenInv, FrameInv, UseInv, HandleOf, HostKept
    <2> QED BY <1>1, <2>6, <2>8, CallOnly
  <1> QED BY <1>2, <1>3, <1>4

-----------------------------------------------------------------------------
(* One slot moves and keeps its ids.                                       *)

Live(i) == i \in Positions /\ table[i].local # 0

(* What is known of a slot in use.                                         *)
LEMMA LiveIs ==
    ASSUME BaseInv, NEW i, Live(i)
    PROVE  LET s == table[i]
           IN /\ s \in Slots /\ s.local \in 1 .. MaxLocal /\ s.remote \in Ids /\ s.ack = ack /\ s # NoSlot
              /\ s.state \in {"Open", "Closed"} /\ s.settled <= s.rx_buf /\ held(s) <= rx_cap
              /\ stored[i] \in Seq(Bytes) /\ Len(stored[i]) = s.rx_buf /\ has_ids(s)
              /\ s.local < next_local_id
  <1>1. table[i] \in Slots /\ stored[i] \in Seq(Bytes)
    BY DEF BaseInv, ConnTypeOK, Live
  <1>2. SlotOK(i) /\ table[i].local # 0
    BY DEF BaseInv, SlotsInv, Live
  <1>3. table[i].local \in Nat /\ table[i].local < next_local_id /\ next_local_id \in 1 .. MaxLocal + 1
    BY <1>1, <1>2 DEF Slots, SlotOK, BaseInv, ConnTypeOK
  <1>4. table[i].local \in 1 .. MaxLocal
    BY <1>2, <1>3, IdsAre
  <1>5. table[i].remote # 0
    BY <1>2, IdsAre DEF SlotOK
  <1> QED BY <1>1, <1>2, <1>3, <1>4, <1>5, NoSlotIs DEF SlotOK, Slots, has_ids, NoRemote

(* A step that changes one slot, and leaves its channel alone, keeps the   *)
(* invariant of the channels.                                              *)
LEMMA OneSlot ==
    ASSUME BaseInv, NEW i, Live(i), UNCHANGED <<ack, scenario, next_local_id>>,
           NEW t \in Slots, t.local = table[i].local, t.remote = table[i].remote, t.ack = ack,
           t.state # "Opening", t.settled <= t.rx_buf, held(t) <= rx_cap,
           NEW b \in Seq(Bytes), Len(b) = t.rx_buf,
           table' = [table EXCEPT ![i] = t], stored' = [stored EXCEPT ![i] = b]
    PROVE  /\ SlotsInv' /\ SameTable
           /\ table' \in [Positions -> Slots] /\ stored' \in [Positions -> Seq(Bytes)]
  <1>1. Positions' = Positions
    BY TypesKept
  <1>2. table \in [Positions -> Slots] /\ stored \in [Positions -> Seq(Bytes)] /\ i \in Positions
    BY DEF BaseInv, ConnTypeOK, Live
  <1>3. SameTable
    BY <1>2 DEF SameTable
  <1>4. SlotOK(i)
    BY <1>2 DEF BaseInv, SlotsInv
  <1>5. SlotOK(i)'
    BY <1>2, <1>4 DEF SlotOK, Live
  <1>6. ASSUME NEW j \in Positions, j # i PROVE SlotOK(j)'
    <2>1. table'[j] = table[j] /\ stored'[j] = stored[j] /\ SlotOK(j)
      BY <1>2, <1>6 DEF BaseInv, SlotsInv
    <2> QED BY <2>1 DEF SlotOK
  <1> QED BY <1>1, <1>2, <1>3, <1>5, <1>6 DEF SlotsInv

(* A slot that keeps its channel.                                          *)
LEMMA SameSlots ==
    ASSUME BaseInv, UNCHANGED <<ack, scenario, next_local_id, table, stored>>
    PROVE  SlotsInv' /\ SameTable
  BY TypesKept DEF BaseInv, SlotsInv, SlotOK, SameTable

(* What take_buffered and settle_take leave.                               *)
SameBudget(s, t) == t.send_budget = s.send_budget /\ t.wrte_acked = s.wrte_acked
SameChannel(s, t) == t.local = s.local /\ t.remote = s.remote /\ t.ack = s.ack

(* take_buffered takes bytes, and leaves the channel and its credit alone. *)
LEMMA TakeIs ==
    ASSUME NEW s \in Slots, s.settled <= s.rx_buf, NEW want \in Nat, NEW t, t = take_buffered(s, want)
    PROVE  /\ take_len(s, want) \in 0 .. s.rx_buf
           /\ t \in Slots /\ SameChannel(s, t) /\ SameBudget(s, t)
           /\ t.state = s.state /\ t.unacked = s.unacked
           /\ t.rx_buf = s.rx_buf - take_len(s, want) /\ t.settled <= t.rx_buf
           /\ held(t) \in Nat /\ held(s) \in Nat /\ held(t) <= held(s)
           /\ s.settled > 0 => held(t) = held(s)
           /\ s.settled = 0 => held(t) = held(s) - take_len(s, want)
  <1> DEFINE n == take_len(s, want)
             m == s.settled - AtMost(n, s.settled)
  <1>1. n \in 0 .. s.rx_buf /\ (s.settled # 0 => n <= s.settled)
    BY DEF take_len, AtMost, Slots
  <1>2. /\ s.rx_buf \in Nat /\ s.settled \in Nat /\ s.rx_buf - n \in Nat
        /\ m \in Nat /\ (IF s.settled = 0 THEN m = 0 ELSE m = s.settled - n)
    <2> HIDE DEF n
    <2> QED BY <1>1 DEF AtMost, Slots
  <1>3. t = [s EXCEPT !.rx_buf = s.rx_buf - n, !.settled = m]
    BY DEF take_buffered, Slots
  <1> HIDE DEF n, m
  <1>4. t \in Slots /\ t.rx_buf = s.rx_buf - n /\ t.settled = m
    BY <1>2, <1>3 DEF Slots
  <1>5. SameChannel(s, t) /\ SameBudget(s, t) /\ t.state = s.state /\ t.unacked = s.unacked
    BY <1>3 DEF Slots, SameChannel, SameBudget
  <1>6. held(t) = s.rx_buf - n - m /\ held(s) = s.rx_buf - s.settled
    BY <1>4 DEF held
  <1>7. take_len(s, want) = n
    BY DEF n
  <1> QED BY <1>1, <1>2, <1>4, <1>5, <1>6, <1>7

(* settle_take sets bytes aside and says what to acknowledge.              *)
LEMMA SettleIs ==
    ASSUME NEW s \in Slots, s.settled <= s.rx_buf, NEW want \in Nat, settle_ack(s, want) # NoAck,
           NEW t, t = settle_take(s, want)
    PROVE  /\ settle_ack(s, want) \in Nat \ {0} /\ settle_ack(s, want) <= s.unacked
           /\ t \in Slots /\ SameChannel(s, t) /\ SameBudget(s, t)
           /\ t.state = s.state /\ t.rx_buf = s.rx_buf
           /\ t.unacked = s.unacked - settle_ack(s, want)
           /\ s.settled = 0 /\ t.settled = AtMost(want, s.rx_buf) /\ t.settled <= s.rx_buf
           /\ held(t) \in Nat /\ held(s) \in Nat /\ held(t) <= held(s)
           /\ IF s.ack = "Delayed" THEN settle_ack(s, want) = AtMost(AtMost(want, s.rx_buf), s.unacked)
              ELSE settle_ack(s, want) = s.unacked /\ held(t) < rx_watermark
  <1> DEFINE n == AtMost(want, s.rx_buf)
             a == settle_ack(s, want)
  <1>1. n \in Nat /\ n <= s.rx_buf /\ s.rx_buf \in Nat /\ s.unacked \in Nat
    BY DEF AtMost, Slots
  <1>2. a = ack_len(s, n, s.rx_buf - n) /\ s.settled = 0
    BY DEF settle_ack
  <1> HIDE DEF n, a
  <1>3. /\ a \in Nat \ {0} /\ a <= s.unacked
        /\ IF s.ack = "Delayed" THEN a = AtMost(n, s.unacked) ELSE a = s.unacked /\ s.rx_buf - n < rx_watermark
    <2>1. a # NoAck
      BY DEF a
    <2>2. CASE s.ack = "Delayed"
      BY <1>1, <1>2, <2>1, <2>2 DEF ack_len, AtMost, NoAck
    <2>3. CASE s.ack # "Delayed"
      BY <1>1, <1>2, <2>1, <2>3 DEF ack_len, NoAck
    <2> QED BY <2>2, <2>3
  <1>4. t = [s EXCEPT !.unacked = s.unacked - a, !.settled = n]
    BY DEF settle_take, n, a, Slots
  <1>5. t \in Slots /\ t.unacked = s.unacked - a /\ t.settled = n /\ t.rx_buf = s.rx_buf
    <2>1. s.unacked - a \in Nat /\ n \in Nat
      BY <1>1, <1>3
    <2> QED BY <1>4, <2>1 DEF Slots
  <1>6. SameChannel(s, t) /\ SameBudget(s, t) /\ t.state = s.state
    BY <1>4 DEF Slots, SameChannel, SameBudget
  <1>7. held(t) = s.rx_buf - n /\ held(s) = s.rx_buf - 0
    BY <1>2, <1>5 DEF held
  <1>8. n = AtMost(want, s.rx_buf) /\ a = settle_ack(s, want)
    BY DEF n, a
  <1> QED BY <1>1, <1>2, <1>3, <1>5, <1>6, <1>7, <1>8

(* The parts of the state a quiet step of the host has types for.          *)
LEMMA HostTypes ==
    ASSUME BaseInv, UNCHANGED <<ack, scenario, next_local_id, incoming, queue, handles, gone>>,
           table' \in [Positions -> Slots], stored' \in [Positions -> Seq(Bytes)], call' \in CallStates,
           InKept, device' \in [Ids -> DeviceEnds], got' \in [1 .. MaxLocal -> Seq(Bytes)],
           desync' \in BOOLEAN, garbled' \in BOOLEAN, cut' \in Afters
    PROVE  ConnTypeOK'
  <1>1. in' \in Seq(Inbound)
    BY InKeptIs DEF BaseInv
  <1> QED BY <1>1, TypesKept DEF BaseInv, ConnTypeOK

(* Bytes that are handed over.                                             *)
LEMMA HandsOverIs ==
    ASSUME ConnTypeOK, call.ch.local \in 1 .. MaxLocal, NEW d \in Seq(Bytes), HandsOver(d)
    PROVE  got' \in [1 .. MaxLocal -> Seq(Bytes)]
  <1>1. got[call.ch.local] \o d \in Seq(Bytes)
    BY DEF ConnTypeOK
  <1> QED BY <1>1 DEF HandsOver, ConnTypeOK

(* A sequence cut in two.                                                  *)
LEMMA CutIs ==
    ASSUME NEW T, NEW q \in Seq(T), NEW n \in 0 .. Len(q)
    PROVE  /\ SubSeq(q, 1, n) \in Seq(T) /\ Len(SubSeq(q, 1, n)) = n
           /\ \A k \in 1 .. n : SubSeq(q, 1, n)[k] = q[k]
           /\ SubSeq(q, n + 1, Len(q)) \in Seq(T) /\ Len(SubSeq(q, n + 1, Len(q))) = Len(q) - n
           /\ \A k \in 1 .. Len(q) - n : SubSeq(q, n + 1, Len(q))[k] = q[n + k]
  <1>1. Len(q) \in Nat /\ n \in Nat /\ n <= Len(q)
    OBVIOUS
  <1>2. /\ SubSeq(q, 1, n) \in Seq(T) /\ Len(SubSeq(q, 1, n)) = n
        /\ \A k \in 1 .. n : SubSeq(q, 1, n)[k] = q[k]
    BY <1>1
  <1>3. /\ SubSeq(q, n + 1, Len(q)) \in Seq(T) /\ Len(SubSeq(q, n + 1, Len(q))) = Len(q) - n
        /\ \A k \in 1 .. Len(q) - n : SubSeq(q, n + 1, Len(q))[k] = q[n + k]
    BY <1>1
  <1> QED BY <1>2, <1>3

(* The call that takes what is buffered.                                   *)
LEMMA TakenIs ==
    ASSUME BaseInv, Taken, call.op = "read", call.want > 0, Live(call.ch.slot),
           table[call.ch.slot].local = call.ch.local, UNCHANGED <<ack, scenario, next_local_id>>
    PROVE  /\ SlotsInv' /\ SameTable /\ call' = Returns("ok")
           /\ table' \in [Positions -> Slots] /\ stored' \in [Positions -> Seq(Bytes)]
           /\ got' \in [1 .. MaxLocal -> Seq(Bytes)]
  <1> DEFINE i == call.ch.slot
             s == table[i]
             n == take_len(s, call.want)
             t == take_buffered(s, call.want)
             b == SubSeq(stored[i], n + 1, Len(stored[i]))
  <1>1. call.ch \in ChannelIds /\ call.want \in Nat
    BY DEF BaseInv, ConnTypeOK, CallStates
  <1>2. get(call.ch) = s
    BY <1>1, GetIs DEF Live, BaseInv
  <1>3. /\ s \in Slots /\ s.local \in 1 .. MaxLocal /\ s.ack = ack /\ s.state \in {"Open", "Closed"}
        /\ s.settled <= s.rx_buf /\ held(s) <= rx_cap /\ stored[i] \in Seq(Bytes)
        /\ Len(stored[i]) = s.rx_buf
    BY LiveIs
  <1>4. /\ n \in 0 .. s.rx_buf /\ t \in Slots /\ SameChannel(s, t) /\ t.state = s.state
        /\ t.rx_buf = s.rx_buf - n /\ t.settled <= t.rx_buf
        /\ held(t) \in Nat /\ held(s) \in Nat /\ held(t) <= held(s)
    BY <1>1, <1>3, TakeIs
  <1>5. /\ b \in Seq(Bytes) /\ Len(b) = t.rx_buf
        /\ SubSeq(stored[i], 1, n) \in Seq(Bytes)
    <2>1. stored[i] \in Seq(Bytes) /\ n \in 0 .. Len(stored[i]) /\ t.rx_buf = Len(stored[i]) - n
      BY <1>3, <1>4
    <2> HIDE DEF t, s, n
    <2> QED BY <2>1, CutIs
  <1>6. /\ HandsOver(SubSeq(stored[i], 1, n)) /\ stored' = [stored EXCEPT ![i] = b]
        /\ table' = [table EXCEPT ![i] = t] /\ call' = Returns("ok")
    BY <1>2 DEF Taken, BaseInv, ConnTypeOK, Live
  <1>7. got' \in [1 .. MaxLocal -> Seq(Bytes)]
    BY <1>3, <1>5, <1>6, HandsOverIs DEF BaseInv
  <1>8. /\ t.local = s.local /\ t.remote = s.remote /\ t.ack = ack /\ t.state # "Opening" /\ held(t) <= rx_cap
    <2> HIDE DEF t, s
    <2> QED BY <1>3, <1>4, Limits DEF SameChannel
  <1> HIDE DEF t, b, s, n
  <1>9. SlotsInv' /\ SameTable /\ table' \in [Positions -> Slots] /\ stored' \in [Positions -> Seq(Bytes)]
    BY <1>4, <1>5, <1>6, <1>8, OneSlot DEF s
  <1> QED BY <1>6, <1>7, <1>9

(* A read or a write that waits has its slot.                              *)
LEMMA UserIs ==
    ASSUME BaseInv, call.op \in {"read", "write"}, call.pc \in {"recv", "send"}
    PROVE  /\ Live(call.ch.slot) /\ table[call.ch.slot].local = call.ch.local
           /\ get(call.ch) = table[call.ch.slot] /\ call.ch.local \in 1 .. MaxLocal
           /\ call.want \in Nat \ {0} /\ incoming = NoIncoming
  <1>1. PICK h \in handles : h.slot = call.ch.slot /\ h.local = call.ch.local
    BY DEF BaseInv, CallInv, UseInv, HandleOf
  <1>2. h.slot \in Positions /\ h.local \in 1 .. MaxLocal
    BY ChannelOf DEF BaseInv
  <1>3. table[call.ch.slot].local = call.ch.local /\ call.want > 0 /\ incoming = NoIncoming
    BY DEF BaseInv, CallInv, UseInv, AnswerInv
  <1>4. call.ch \in ChannelIds /\ call.want \in Nat
    BY DEF BaseInv, ConnTypeOK, CallStates
  <1> QED BY <1>1, <1>2, <1>3, <1>4, GetIs DEF Live, BaseInv

(* recv_data looks into the buffer.                                        *)
LEMMA TakeStep ==
    ASSUME BaseInv, Take
    PROVE  BaseInv'
  <1> DEFINE s == get(call.ch)
             i == call.ch.slot
  <1>1. /\ call.pc = "take" /\ UNCHANGED <<ack, scenario, next_local_id, queue, incoming, handles, wireVars>>
        /\ call.op = "read" /\ call.want \in Nat \ {0} /\ incoming = NoIncoming /\ HandleOf(call.ch)
    BY DEF Take, BaseInv, CallInv, PcInv, UseInv, AnswerInv, ConnTypeOK, CallStates
  <1>2. InKept /\ SameDevice /\ in' = in /\ gone' = gone /\ desync' = desync /\ cut' = cut
    BY <1>1 DEF InKept, SameDevice, wireVars
  <1>3. \A c : ~Sending(c, "CLSE")
    BY <1>1 DEF Sending
  <1>4. has_data(s) => /\ Live(i) /\ table[i].local = call.ch.local /\ s = table[i]
    <2>1. call.ch \in ChannelIds
      BY DEF BaseInv, ConnTypeOK, CallStates
    <2> QED BY <2>1, GetIs, NoSlotIs DEF BaseInv, Live
  <1>5. CASE /\ ~has_data(s) /\ (desync \/ s = NoSlot \/ is_closed(s) \/ call.failing)
             /\ call' = Returns("err") /\ UNCHANGED <<table, stored, got>>
    BY <1>1, <1>5, Fails DEF HostKept
  <1>6. CASE /\ ~has_data(s) /\ ~desync /\ s # NoSlot /\ ~is_closed(s) /\ ~call.failing
             /\ call' = [call EXCEPT !.pc = "recv"] /\ UNCHANGED <<table, stored, got>>
    BY <1>1, <1>6, Waits DEF HostKept
  <1>7. CASE has_data(s) /\ settle_ack(s, call.want) = NoAck /\ Taken
    <2>1. /\ SlotsInv' /\ SameTable /\ call' = Returns("ok")
          /\ table' \in [Positions -> Slots] /\ stored' \in [Positions -> Seq(Bytes)]
          /\ got' \in [1 .. MaxLocal -> Seq(Bytes)]
      BY <1>1, <1>4, <1>7, TakenIs
    <2>2. CallInv' /\ call' \in CallStates /\ call'.pc = "idle"
      BY <1>1, <2>1, CallReturns, ReturnsIs DEF BaseInv
    <2>3. ConnTypeOK'
      <3>1. device' \in [Ids -> DeviceEnds] /\ desync' \in BOOLEAN /\ garbled' \in BOOLEAN /\ cut' \in Afters
        BY <1>1 DEF BaseInv, ConnTypeOK, wireVars
      <3> QED BY <1>1, <1>2, <2>1, <2>2, <3>1, HostTypes
    <2>4. DesyncInv'
      BY <1>1, <2>2 DEF BaseInv, DesyncInv, wireVars
    <2>5. Keeps
      BY <1>1, <1>2, <2>1 DEF Keeps
    <2> QED BY <1>1, <1>2, <1>3, <2>1, <2>2, <2>3, <2>4, <2>5, Quiet
  <1>8. CASE /\ has_data(s) /\ settle_ack(s, call.want) # NoAck
             /\ table' = [table EXCEPT ![i] = settle_take(s, call.want)]
             /\ call' = Sends(Frame("OKAY", s.local, s.remote, settle_ack(s, call.want)), "taken")
             /\ UNCHANGED <<stored, got>>
    <2> DEFINE t == settle_take(s, call.want)
               f == Frame("OKAY", s.local, s.remote, settle_ack(s, call.want))
    <2>1. /\ s \in Slots /\ s.local \in 1 .. MaxLocal /\ s.ack = ack /\ s.state \in {"Open", "Closed"}
          /\ s.settled <= s.rx_buf /\ held(s) <= rx_cap /\ stored[i] \in Seq(Bytes) /\ s.remote \in Ids
          /\ Len(stored[i]) = s.rx_buf /\ Live(i) /\ s = table[i] /\ s.local = call.ch.local
      BY <1>4, <1>8, LiveIs
    <2>2. /\ settle_ack(s, call.want) \in Nat \ {0}
          /\ t \in Slots /\ SameChannel(s, t) /\ t.state = s.state /\ t.rx_buf = s.rx_buf
          /\ t.settled <= s.rx_buf /\ held(t) \in Nat /\ held(s) \in Nat /\ held(t) <= held(s)
      BY <1>1, <1>8, <2>1, SettleIs
    <2>3. f \in Frames /\ f.cmd = "OKAY" /\ f.remote = s.remote
      BY <2>1, <2>2, FramesAre
    <2>4. stored' = [stored EXCEPT ![i] = stored[i]]
      BY <1>8, <2>1 DEF BaseInv, ConnTypeOK
    <2> HIDE DEF t, f
    <2>5. SlotsInv' /\ SameTable /\ table' \in [Positions -> Slots] /\ stored' \in [Positions -> Seq(Bytes)]
      <3>1. table' = [table EXCEPT ![i] = t] /\ held(t) <= rx_cap
        BY <1>8, <2>1, <2>2, Limits DEF t
      <3> HIDE DEF s
      <3> QED BY <1>1, <2>1, <2>2, <2>4, <3>1, OneSlot DEF SameChannel
    <2>6. /\ call' \in CallStates /\ call'.pc = "send" /\ call'.after = "taken" /\ call'.op = "read"
          /\ call'.ch = call.ch /\ call'.want = call.want /\ call'.frame = f
      BY <1>1, <1>8, <2>3, SendsIs DEF f, BaseInv, Afters
    <2>7. CallInv'
      <3>1. table'[i].local = table[i].local /\ table'[i].remote = table[i].remote
        BY <2>1, <2>5 DEF SameTable, Live
      <3>2. PcInv' /\ AnswerInv' /\ OpenInv'
        BY <1>1, <2>6 DEF PcInv, AnswerInv, OpenInv
      <3>3. UseInv'
        BY <1>1, <2>1, <2>6, <3>1 DEF UseInv, HandleOf
      <3>4. FrameInv'
        BY <2>1, <2>3, <2>6, <3>1 DEF FrameInv
      <3> QED BY <3>2, <3>3, <3>4 DEF CallInv
    <2>8. ConnTypeOK'
      <3>1. /\ device' \in [Ids -> DeviceEnds] /\ desync' \in BOOLEAN /\ garbled' \in BOOLEAN
            /\ cut' \in Afters /\ got' \in [1 .. MaxLocal -> Seq(Bytes)] /\ gone' = gone
        BY <1>1, <1>8 DEF BaseInv, ConnTypeOK, wireVars
      <3> QED BY <1>1, <1>2, <2>5, <2>6, <3>1, HostTypes
    <2>9. DesyncInv'
      BY <1>1, <2>6 DEF BaseInv, DesyncInv, wireVars
    <2>10. Keeps
      BY <1>1, <1>2, <2>5 DEF Keeps
    <2> QED BY <1>1, <1>2, <1>3, <2>5, <2>7, <2>8, <2>9, <2>10, Quiet
  <1> QED BY <1>5, <1>6, <1>7, <1>8 DEF Take

-----------------------------------------------------------------------------
(* A frame that is written, is lost with the device, or is cut.            *)

Written(sent) ==
    /\ call.pc = "send" /\ AfterSend(sent)
    /\ UNCHANGED <<ack, scenario, next_local_id, in, gone>> /\ garbled' = FALSE
    /\ \/ /\ sent = "ok" /\ ~gone /\ ~desync /\ ~desync' /\ device' = DeviceGets(call.frame) /\ cut' = cut
       \/ sent = "gone" /\ gone /\ ~desync /\ ~desync' /\ device' = device /\ cut' = cut
       \/ sent = "failed" /\ desync /\ desync' /\ device' = device /\ cut' = cut
       \/ sent = "failed" /\ ~desync /\ ~gone /\ desync' /\ Abandoned /\ cut' = call.after
    /\ desync' \in BOOLEAN

(* A frame is written, lost or fails.                                      *)
LEMMA SendIs ==
    ASSUME BaseInv, Send \/ SendFails
    PROVE  \E sent \in {"ok", "gone", "failed"} : Written(sent)
  <1>1. garbled = FALSE /\ (cut # "none" => desync) /\ desync \in BOOLEAN /\ gone \in BOOLEAN
    BY DEF BaseInv, DesyncInv, ConnTypeOK
  <1>2. CASE SendFails
    <2>1. Written("failed")
      BY <1>1, <1>2 DEF SendFails, Written
    <2> QED BY <2>1
  <1>3. CASE Send
    <2> DEFINE sent == IF desync THEN "failed" ELSE IF gone THEN "gone" ELSE "ok"
    <2>1. call.pc = "send" /\ AfterSend(sent) /\ UNCHANGED <<ack, scenario, next_local_id, in, gone, desync, cut>>
      BY <1>3 DEF Send
    <2>2. device' = IF ~gone /\ ~desync THEN DeviceGets(call.frame) ELSE device
      BY <1>3 DEF Send
    <2>3. garbled' = FALSE
      BY <1>1, <1>3 DEF Send
    <2>4. CASE desync
      BY <1>1, <2>1, <2>2, <2>3, <2>4 DEF Written
    <2>5. CASE ~desync /\ gone
      BY <1>1, <2>1, <2>2, <2>3, <2>5 DEF Written
    <2>6. CASE ~desync /\ ~gone
      BY <1>1, <2>1, <2>2, <2>3, <2>6 DEF Written
    <2> QED BY <1>1, <2>4, <2>5, <2>6
  <1> QED BY <1>2, <1>3

(* Types and flags after a write.                                          *)
LEMMA WrittenFlags ==
    ASSUME BaseInv, NEW sent, Written(sent)
    PROVE  /\ cut' \in Afters /\ garbled' \in BOOLEAN /\ desync' \in BOOLEAN
           /\ (~desync' => ~desync) /\ (~gone' => ~gone) /\ (cut' # "dispatched" => cut # "dispatched")
           /\ (cut' # "none" => desync')
  <1>1. cut \in Afters /\ call.after \in Afters /\ garbled \in BOOLEAN
    BY DEF BaseInv, ConnTypeOK, CallStates
  <1>2. (cut # "none" => desync) /\ ~garbled
    BY DEF BaseInv, DesyncInv
  <1>3. garbled' \in BOOLEAN /\ desync' \in BOOLEAN
    BY DEF Written
  <1> QED BY <1>1, <1>2, <1>3 DEF Written

(* A frame that changes no channel's state at the device.                  *)
LEMMA DeviceQuiet ==
    ASSUME BaseInv, NEW f \in Frames, f.cmd \in {"OKAY", "WRTE"}, f.remote \in Ids
    PROVE  /\ DeviceGets(f) \in [Ids -> DeviceEnds]
           /\ \A c \in Ids : /\ DeviceGets(f)[c].local = device[c].local
                             /\ DeviceGets(f)[c].state = device[c].state
  <1>1. device \in [Ids -> DeviceEnds] /\ f.len \in Nat
    BY DEF BaseInv, ConnTypeOK, Frames
  <1>2. CASE f.cmd = "OKAY"
    <2>1. DeviceGets(f) = [device EXCEPT ![f.remote].asb = @ + IF ack = "Delayed" THEN f.len ELSE 1]
      BY <1>2 DEF DeviceGets
    <2> QED BY <1>1, <2>1 DEF DeviceEnds
  <1>3. CASE f.cmd = "WRTE"
    <2>1. DeviceGets(f) = [device EXCEPT ![f.remote].has = @ + f.len, ![f.remote].owes = @ + f.len]
      BY <1>3 DEF DeviceGets
    <2> QED BY <1>1, <2>1 DEF DeviceEnds
  <1> QED BY <1>2, <1>3

(* A write that leaves the channels where they are.                        *)
LEMMA QuietWrite ==
    ASSUME BaseInv, NEW sent, Written(sent), SlotsInv', SameTable, CallInv',
           table' \in [Positions -> Slots], stored' \in [Positions -> Seq(Bytes)], call' \in CallStates,
           got' \in [1 .. MaxLocal -> Seq(Bytes)], UNCHANGED <<queue, incoming, handles>>,
           call'.pc # "send", desync' => call'.pc \in {"idle", "take"},
           sent = "ok" \/ device' # device => call.frame.cmd \in {"OKAY", "WRTE"} /\ call.frame.remote \in Ids,
           sent = "failed" /\ call.frame.cmd = "CLSE" /\ device[call.frame.remote].state = "offered"
             => call.after = "dispatched"
    PROVE  BaseInv'
  <1>1. call.frame \in Frames
    BY DEF BaseInv, ConnTypeOK, CallStates
  <1>2. device' \in [Ids -> DeviceEnds] /\ SameDevice
    <2>1. CASE device' # device
      BY <1>1, <2>1, DeviceQuiet DEF Written, Abandoned, SameDevice
    <2>2. CASE device' = device
      BY <2>2 DEF SameDevice, BaseInv, ConnTypeOK
    <2> QED BY <2>1, <2>2
  <1>3. Keeps /\ InKept /\ in' = in
    BY <1>2 DEF Written, Keeps, InKept
  <1>4. ConnTypeOK'
    BY <1>2, <1>3, WrittenFlags, HostTypes DEF Written
  <1>5. DesyncInv'
    BY WrittenFlags DEF DesyncInv, Written
  <1>6. ASSUME NEW c \in Ids, Sending(c, "CLSE") PROVE desync' \/ gone'
    BY <1>6 DEF Sending, Written
  <1>7. ASSUME NEW r \in Requests, device[r].state = "offered", Sending(r, "CLSE"), ~gone'
        PROVE  cut' = "dispatched"
    <2>1. sent = "failed" /\ call.after = "dispatched"
      BY <1>7 DEF Sending, Written
    <2>2. ~desync
      BY <2>1, <1>7 DEF Sending, BaseInv, DesyncInv
    <2> QED BY <2>1, <2>2 DEF Written
  <1> QED BY <1>3, <1>4, <1>5, <1>6, <1>7, WrittenFlags, Quiet

(* The OKAY of a read from the buffer is out.                              *)
LEMMA AfterTaken ==
    ASSUME BaseInv, NEW sent, Written(sent), call.after \in {"taken", "delivered"}
    PROVE  BaseInv'
  <1>1. /\ call.pc = "send" /\ call.op = "read" /\ call.frame.cmd = "OKAY"
        /\ call.frame.remote = table[call.ch.slot].remote
    BY DEF Written, BaseInv, CallInv, FrameInv
  <1>2. /\ Live(call.ch.slot) /\ table[call.ch.slot].local = call.ch.local /\ incoming = NoIncoming
        /\ call.want > 0
    BY <1>1, UserIs
  <1>3. call.frame.remote \in Ids
    BY <1>1, <1>2, LiveIs
  <1>4. UNCHANGED <<queue, incoming, handles>> /\ UNCHANGED <<ack, scenario, next_local_id>>
    BY DEF Written, AfterSend
  <1>5. /\ SlotsInv' /\ SameTable /\ call' = Returns("ok")
        /\ table' \in [Positions -> Slots] /\ stored' \in [Positions -> Seq(Bytes)]
        /\ got' \in [1 .. MaxLocal -> Seq(Bytes)]
    <2>1. CASE call.after = "taken"
      <3>1. Taken
        BY <2>1 DEF Written, AfterSend
      <3> QED BY <1>1, <1>2, <1>4, <3>1, TakenIs
    <2>2. CASE call.after = "delivered"
      <3>1. call' = Returns("ok") /\ UNCHANGED <<table, stored, got>>
        BY <2>2 DEF Written, AfterSend
      <3> QED BY <1>4, <3>1, SameSlots DEF BaseInv, ConnTypeOK
    <2> QED BY <2>1, <2>2
  <1>6. CallInv' /\ call' \in CallStates /\ call'.pc = "idle"
    BY <1>2, <1>4, <1>5, CallReturns, ReturnsIs DEF BaseInv
  <1> QED BY <1>1, <1>3, <1>4, <1>5, <1>6, QuietWrite

(* The slot of a write, charged for it.                                    *)
LEMMA SpentSlot ==
    ASSUME BaseInv, NEW i, Live(i), NEW n \in Nat, UNCHANGED <<ack, scenario, next_local_id, stored>>,
           table' = [table EXCEPT ![i] = spend(@, n)]
    PROVE  /\ SlotsInv' /\ SameTable
           /\ table' \in [Positions -> Slots] /\ stored' \in [Positions -> Seq(Bytes)]
  <1> DEFINE s == table[i]
             t == spend(s, n)
  <1>1. /\ s \in Slots /\ s.ack = ack /\ s.state \in {"Open", "Closed"} /\ s.settled <= s.rx_buf
        /\ held(s) <= rx_cap /\ stored[i] \in Seq(Bytes) /\ Len(stored[i]) = s.rx_buf
    BY LiveIs
  <1>2. /\ t \in Slots /\ SameChannel(s, t) /\ t.state = s.state /\ t.settled = s.settled
        /\ t.rx_buf = s.rx_buf
    <2>1. CASE s.ack = "Delayed"
      <3>1. t = [s EXCEPT !.send_budget = s.send_budget - n] /\ s.send_budget - n \in Int
        BY <1>1, <2>1 DEF spend, Slots
      <3> HIDE DEF t, s
      <3> QED BY <1>1, <3>1 DEF Slots, SameChannel
    <2>2. CASE s.ack # "Delayed"
      <3>1. t = [s EXCEPT !.wrte_acked = FALSE]
        BY <2>2 DEF spend
      <3> HIDE DEF t, s
      <3> QED BY <1>1, <3>1 DEF Slots, SameChannel
    <2> QED BY <2>1, <2>2
  <1>3. held(t) = held(s)
    BY <1>2 DEF held
  <1>4. table' = [table EXCEPT ![i] = t] /\ stored' = [stored EXCEPT ![i] = stored[i]]
    BY DEF BaseInv, ConnTypeOK, Live
  <1>5. /\ t.local = table[i].local /\ t.remote = table[i].remote /\ t.ack = ack /\ t.state # "Opening"
        /\ t.settled <= t.rx_buf /\ held(t) <= rx_cap /\ Len(stored[i]) = t.rx_buf
    <2> HIDE DEF t
    <2> QED BY <1>1, <1>2, <1>3 DEF SameChannel
  <1>6. t \in Slots /\ stored[i] \in Seq(Bytes) /\ UNCHANGED <<ack, scenario, next_local_id>>
    BY <1>1, <1>2
  <1> HIDE DEF t, s
  <1> QED BY <1>4, <1>5, <1>6, OneSlot, ZenonT(60)

(* A WRTE is out.                                                          *)
LEMMA AfterSpent ==
    ASSUME BaseInv, NEW sent, Written(sent), call.after = "spent"
    PROVE  BaseInv'
  <1> DEFINE i == call.ch.slot
             s == table[i]
  <1>1. /\ call.pc = "send" /\ call.op = "write" /\ call.frame.cmd = "WRTE"
        /\ call.frame.remote = s.remote /\ call.frame.len > 0 /\ call.frame.len <= call.want
    BY DEF Written, BaseInv, CallInv, FrameInv
  <1>2. Live(i) /\ s.local = call.ch.local /\ incoming = NoIncoming /\ HandleOf(call.ch)
    BY <1>1, UserIs DEF BaseInv, CallInv, UseInv
  <1>3. s.remote \in Ids /\ call.frame.len \in Nat /\ call.want \in Nat
    BY <1>2, LiveIs DEF BaseInv, ConnTypeOK, CallStates, Frames
  <1>4. /\ UNCHANGED <<queue, incoming, handles, stored, got>> /\ UNCHANGED <<ack, scenario, next_local_id>>
        /\ IF sent = "ok"
           THEN /\ table' = [table EXCEPT ![i] = spend(@, call.frame.len)]
                /\ call' = IF call.frame.len = call.want THEN Returns("ok")
                           ELSE [call EXCEPT !.pc = "top", !.want = @ - call.frame.len,
                                             !.frame = NoFrame, !.after = "none"]
           ELSE call' = Returns("err") /\ UNCHANGED table
    BY DEF Written, AfterSend
  <1>5. /\ SlotsInv' /\ SameTable /\ table' \in [Positions -> Slots] /\ stored' \in [Positions -> Seq(Bytes)]
    <2>1. CASE sent # "ok"
      BY <1>4, <2>1, SameSlots DEF BaseInv, ConnTypeOK
    <2>2. CASE sent = "ok"
      BY <1>2, <1>3, <1>4, <2>2, SpentSlot
    <2> QED BY <2>1, <2>2
  <1>6. got' \in [1 .. MaxLocal -> Seq(Bytes)]
    BY <1>4 DEF BaseInv, ConnTypeOK
  <1>7. CASE call' = Returns("ok") \/ call' = Returns("err")
    <2>1. CallInv' /\ call' \in CallStates /\ call'.pc = "idle"
      BY <1>2, <1>4, <1>7, CallReturns, ReturnsIs DEF BaseInv
    <2> QED BY <1>1, <1>3, <1>4, <1>5, <1>6, <2>1, QuietWrite
  <1>8. CASE sent = "ok" /\ call.frame.len # call.want
    <2>1. call.want - call.frame.len \in Nat \ {0} /\ NoFrame \in Frames
      BY <1>1, <1>3, <1>8, NoCallIs DEF BaseInv, ConnTypeOK, CallStates
    <2>2. /\ call' \in CallStates /\ call'.pc = "top" /\ call'.op = "write" /\ call'.ch = call.ch
          /\ call'.want = call.want - call.frame.len
      BY <1>1, <1>4, <1>8, <2>1, ZenonT(60) DEF BaseInv, ConnTypeOK, CallStates, Afters
    <2>3. CallInv'
      BY <1>2, <1>4, <2>1, <2>2 DEF CallInv, PcInv, AnswerInv, OpenInv, FrameInv, UseInv, HandleOf
    <2>4. ~desync'
      BY <1>8 DEF Written
    <2> QED BY <1>1, <1>3, <1>4, <1>5, <1>6, <2>2, <2>3, <2>4, QuietWrite
  <1> QED BY <1>4, <1>7, <1>8

(* An open that could not be asked, a CLSE that was not written.           *)
LEMMA AfterLost ==
    ASSUME BaseInv, NEW sent, Written(sent), call.after \in {"await", "closed", "short"}, sent # "ok",
           device' = device
    PROVE  BaseInv'
  <1>1. call' = Returns("err") /\ UNCHANGED <<table, stored, queue, incoming, handles, got>>
    BY DEF Written, AfterSend
  <1>2. /\ UNCHANGED <<ack, scenario, next_local_id>> /\ incoming = NoIncoming
        /\ call.frame.cmd = "CLSE" => device[call.frame.remote].state # "offered"
    <2>1. call.pc = "send" /\ UNCHANGED <<ack, scenario, next_local_id>>
      BY DEF Written
    <2>2. call.op \in {"open", "close"} /\ (call.frame.cmd = "CLSE" => device[call.frame.remote].state # "offered")
      BY <2>1 DEF BaseInv, CallInv, FrameInv, Frame
    <2> QED BY <2>1, <2>2 DEF BaseInv, CallInv, AnswerInv
  <1>3. CallInv' /\ call' \in CallStates /\ call'.pc = "idle"
    BY <1>1, <1>2, CallReturns, ReturnsIs DEF BaseInv
  <1>4. SlotsInv' /\ SameTable
    BY <1>1, <1>2, SameSlots
  <1>5. /\ table' \in [Positions -> Slots] /\ stored' \in [Positions -> Seq(Bytes)]
        /\ got' \in [1 .. MaxLocal -> Seq(Bytes)]
    BY <1>1 DEF BaseInv, ConnTypeOK
  <1> QED BY <1>1, <1>2, <1>3, <1>4, <1>5, QuietWrite

(* What a call wrote for a packet it came across.                          *)
LEMMA AfterDispatched ==
    ASSUME BaseInv, NEW sent, Written(sent), call.after = "dispatched",
           call.frame.cmd = "OKAY" \/ (sent # "ok" /\ device' = device)
    PROVE  BaseInv'
  <1>1. call.pc = "send" /\ UNCHANGED <<ack, scenario, next_local_id>>
    BY DEF Written
  <1>2. call' = (IF sent = "failed" THEN LoopFailing ELSE Loop)
        /\ UNCHANGED <<table, stored, queue, incoming, handles, got>>
    BY DEF Written, AfterSend
  <1>3. /\ call.op \in {"open", "read", "write", "accept"}
        /\ call.frame.cmd = "OKAY" => HasSlot(call.frame.remote)
    BY <1>1 DEF BaseInv, CallInv, FrameInv
  <1>4. incoming = NoIncoming
    BY <1>1, <1>3 DEF BaseInv, CallInv, AnswerInv
  <1>5. SlotsInv' /\ SameTable
    BY <1>1, <1>2, SameSlots
  <1>6. /\ table' \in [Positions -> Slots] /\ stored' \in [Positions -> Seq(Bytes)]
        /\ got' \in [1 .. MaxLocal -> Seq(Bytes)]
    BY <1>2 DEF BaseInv, ConnTypeOK
  <1>7. call.frame.cmd = "OKAY" => call.frame.remote \in Ids
    BY <1>3, LiveIs DEF HasSlot, Live
  <1>8. SameDevice
    <2>1. call.frame \in Frames
      BY DEF BaseInv, ConnTypeOK, CallStates
    <2>2. CASE device' # device
      BY <1>7, <2>1, <2>2, DeviceQuiet DEF Written, Abandoned, SameDevice
    <2>3. CASE device' = device
      BY <2>3 DEF SameDevice
    <2> QED BY <2>2, <2>3
  <1>9. CallInv'
    <2>1. Keeps
      BY <1>1, <1>2, <1>5, <1>8 DEF Keeps
    <2> QED BY <1>1, <1>2, <1>3, <1>4, <2>1, CallLoops DEF BaseInv
  <1>10. /\ call' \in CallStates /\ call'.pc # "send" /\ (desync' => call'.pc \in {"idle", "take"})
    <2>1. desync' => sent = "failed"
      BY DEF Written
    <2> QED BY <1>2, <2>1, LoopIs, LoopFailingIs, NoCallIs DEF BaseInv
  <1> QED BY <1>2, <1>5, <1>6, <1>7, <1>9, <1>10, QuietWrite

-----------------------------------------------------------------------------
(* The device's ends move on, and keep their ids.                          *)

Forward(old, new) == \/ new = old
                     \/ old = "unused" /\ new = "offered"
                     \/ old = "asked" /\ new \in {"open", "closed"}
                     \/ old \in {"offered", "open"} /\ new = "closed"
Moves == /\ \A c \in Ids : device'[c].local = device[c].local /\ Forward(device[c].state, device'[c].state)
                            /\ (device'[c].state = "offered" => device[c].state = "offered" \/ c \in Requests)
         /\ SameTable /\ UNCHANGED <<ack, scenario, next_local_id, handles, incoming>>

(* The device's ends move and the ids stay apart.                          *)
LEMMA MoveIds ==
    ASSUME ConnTypeOK, SlotsInv, IdsInv, Moves
    PROVE  IdsInv'
  <1>1. Positions' = Positions
    BY TypesKept DEF Moves
  <1>2. \A i \in Positions : table[i].local # 0 => table[i].remote \in Ids
    BY DEF SlotsInv, SlotOK
  <1>3. \A h \in handles : h.remote \in Ids
    BY DEF ConnTypeOK
  <1>4. EndsInv'
    BY DEF Moves, Forward, IdsInv, EndsInv
  <1>5. TableInv'
    BY <1>1, <1>2 DEF Moves, Forward, SameTable, IdsInv, TableInv
  <1>6. HandlesInv'
    BY <1>1, <1>3 DEF Moves, Forward, SameTable, IdsInv, HandlesInv
  <1>7. OwnersInv'
    BY <1>1 DEF Moves, SameTable, IdsInv, OwnersInv
  <1> QED BY <1>4, <1>5, <1>6, <1>7 DEF IdsInv

(* A packet stays right when its channel's end does.                       *)
LEMMA MovePacket ==
    ASSUME Moves, NEW p, p.remote \in Ids, PacketOK(p)
    PROVE  PacketOK(p)'
  <1>1. /\ device'[p.remote].local = device[p.remote].local
        /\ Forward(device[p.remote].state, device'[p.remote].state)
    BY DEF Moves
  <1> QED BY <1>1 DEF PacketOK, Forward

(* Requests stay in their places when the device's ends move.              *)
LEMMA MovePlaces ==
    ASSUME PlacesInv, Moves, queue' = queue, in' = in, ~desync' => ~desync
    PROVE  PlacesInv'
  <1>1. Positions' = Positions /\ scenario' = scenario /\ incoming' = incoming
    BY TypesKept DEF Moves
  <1>2. \A r : HasSlot(r)' <=> HasSlot(r)
    BY KeepSlots DEF Moves
  <1>3. \A r : OnWire(r)' <=> OnWire(r)
    BY DEF OnWire
  <1>4. \A r \in Requests : r \in Ids
    BY IdsAre
  <1> QED BY <1>1, <1>2, <1>3, <1>4 DEF PlacesInv, Moves, SameTable, Forward

(* A step that only the device and the call see: a frame arrived, and the  *)
(* call that wrote it goes on, or is abandoned.                            *)
FrameArrives ==
    /\ call.pc = "send" /\ device' = DeviceGets(call.frame)
    /\ UNCHANGED <<ack, scenario, table, stored, next_local_id, queue, incoming, handles, got, in, gone>>
    /\ CallInv' /\ DesyncInv' /\ call' \in CallStates /\ call'.pc # "send"
    /\ (~desync' => ~desync) /\ (cut' # "dispatched" => cut # "dispatched")
    /\ desync' \in BOOLEAN /\ garbled' \in BOOLEAN /\ cut' \in Afters

(* The CLSE of a channel or of a request arrives.                          *)
LEMMA CloseArrives ==
    ASSUME BaseInv, FrameArrives, call.op # "answer", call.frame.cmd = "CLSE"
    PROVE  BaseInv'
  <1> DEFINE c == call.frame.remote
  <1>1. /\ call.pc = "send"
        /\ UNCHANGED <<ack, scenario, table, stored, next_local_id, queue, incoming, handles, got, in, gone>>
        /\ (~desync' => ~desync) /\ (cut' # "dispatched" => cut # "dispatched")
        /\ device' = [device EXCEPT ![c].state = "closed"] /\ call'.pc # "send"
    BY DEF FrameArrives, DeviceGets
  <1>2. /\ c \in Ids /\ device[c].state \in {"offered", "open", "closed"}
    BY <1>1 DEF BaseInv, CallInv, FrameInv, Frame
  <1>4. incoming = NoIncoming
    BY <1>1 DEF BaseInv, CallInv, AnswerInv
  <1>5. device \in [Ids -> DeviceEnds]
    BY DEF BaseInv, ConnTypeOK
  <1>6. SlotsInv' /\ SameTable
    BY <1>1, SameSlots
  <1>7. Moves
    BY <1>1, <1>2, <1>5, <1>6 DEF Moves, Forward, DeviceEnds
  <1>8. IdsInv' /\ PlacesInv'
    BY <1>1, <1>7, MoveIds, MovePlaces DEF BaseInv
  <1>9. PacketsInv'
    BY <1>1, <1>7, MovePacket, PacketTypes DEF BaseInv, PacketsInv
  <1>12. ConnTypeOK'
    <2>1. device' \in [Ids -> DeviceEnds]
      BY <1>1, <1>5, ZenonT(60) DEF DeviceEnds
    <2>2. InKept
      BY <1>1 DEF InKept
    <2>3. /\ table' \in [Positions -> Slots] /\ stored' \in [Positions -> Seq(Bytes)]
          /\ got' \in [1 .. MaxLocal -> Seq(Bytes)]
      BY <1>1 DEF BaseInv, ConnTypeOK
    <2> QED BY <1>1, <2>1, <2>2, <2>3, HostTypes DEF FrameArrives
  <1>13. \A d : Sending(d, "CLSE") => d = c
    BY DEF Sending
  <1>14. \A d \in Ids : d # c => device'[d].state = device[d].state
    BY <1>1, <1>5
  <1>15. device'[c].state = "closed"
    BY <1>1, <1>2, <1>5 DEF DeviceEnds
  <1> HIDE DEF c
  <1>16. OrphanInv'
    <2>1. \A r : HasSlot(r)' <=> HasSlot(r)
      BY <1>1, <1>6, KeepSlots
    <2> QED BY <1>1, <1>13, <1>14, <1>15, <2>1 DEF BaseInv, OrphanInv
  <1>17. LostInv'
    BY <1>1, <1>13, <1>14, <1>15, IdsAre DEF BaseInv, LostInv, OnWire
  <1> QED BY <1>6, <1>8, <1>9, <1>12, <1>16, <1>17 DEF BaseInv, FrameArrives

(* ... written, or abandoned after its last byte.                          *)
LEMMA CloseWritten ==
    ASSUME BaseInv, NEW sent, Written(sent), sent # "gone", device' = DeviceGets(call.frame),
           call.after \in {"dispatched", "closed", "short"}, call.frame.cmd = "CLSE", call.op # "answer"
    PROVE  BaseInv'
  <1>1. /\ call.pc = "send" /\ UNCHANGED <<ack, scenario, next_local_id, in, gone>>
        /\ ~desync /\ (desync' => sent = "failed") /\ garbled' = FALSE
    BY DEF Written, BaseInv, DesyncInv
  <1>2. /\ UNCHANGED <<table, stored, queue, incoming, handles, got>>
        /\ \/ call.after = "dispatched" /\ call' = IF sent = "failed" THEN LoopFailing ELSE Loop
           \/ \E x \in {"ok", "err", "dropped"} : call' = Returns(x)
    BY DEF Written, AfterSend
  <1>3. incoming = NoIncoming
    BY <1>1 DEF BaseInv, CallInv, AnswerInv
  <1>4. CallInv' /\ call' \in CallStates /\ call'.pc # "send" /\ (desync' => call'.pc \in {"idle", "take"})
    <2>1. CASE \E x \in {"ok", "err", "dropped"} : call' = Returns(x)
      BY <1>2, <1>3, <2>1, CallReturns, ReturnsIs DEF BaseInv
    <2>2. CASE call.after = "dispatched" /\ sent = "failed" /\ call' = LoopFailing /\ call.op # "read"
      <3>1. call' = NoCall /\ call' \in CallStates
        BY <2>2, LoopFailingIs DEF BaseInv
      <3> QED BY <1>2, <1>3, <3>1, NoCallIs DEF CallInv, PcInv, AnswerInv, OpenInv, UseInv, FrameInv
    <2>3. CASE /\ call.after = "dispatched"
               /\ \/ call' = Loop /\ sent # "failed"
                  \/ call' = LoopFailing /\ call.op = "read"
      <3>1. /\ call'.op = call.op /\ call'.ch = call.ch /\ call'.want = call.want /\ call' \in CallStates
            /\ call'.pc = IF call.op = "read" THEN "take"
                          ELSE IF call.op \in {"write", "accept"} THEN "top" ELSE "recv"
        BY <2>3, LoopIs, LoopFailingIs DEF BaseInv
      <3>2. call.op \in {"open", "read", "write", "accept"}
        BY <1>1, <2>3 DEF BaseInv, CallInv, FrameInv
      <3>3. PcInv' /\ FrameInv' /\ AnswerInv'
        BY <1>2, <1>3, <3>1, <3>2 DEF PcInv, FrameInv, AnswerInv
      <3>4. UseInv'
        BY <1>1, <1>2, <3>1 DEF UseInv, BaseInv, CallInv, HandleOf
      <3>5. OpenInv'
        BY <1>1, <1>2, <3>1, TypesKept DEF OpenInv, BaseInv, CallInv
      <3> QED BY <1>1, <2>3, <3>1, <3>2, <3>3, <3>4, <3>5 DEF CallInv
    <2> QED BY <1>2, <2>1, <2>2, <2>3
  <1>5. DesyncInv'
    BY <1>1, <1>4, WrittenFlags DEF DesyncInv
  <1> QED BY <1>1, <1>2, <1>4, <1>5, WrittenFlags, CloseArrives DEF FrameArrives

-----------------------------------------------------------------------------
(* The OPEN of the host's own channel arrives.                             *)
LEMMA UnusedIs ==
    ASSUME BaseInv, Unused # {}
    PROVE  LET c == first(Unused)
           IN c \in Opens /\ c \in Ids /\ device[c].state = "unused" /\ device[c].local = 0
  <1>1. Unused \subseteq Nat
    BY IdsAre DEF Unused
  <1>2. first(Unused) \in Unused
    BY <1>1, FirstIs
  <1> QED BY <1>2, IdsAre DEF Unused, BaseInv, IdsInv, EndsInv

(* The device is asked for a channel.                                      *)
LEMMA OpenArrives ==
    ASSUME BaseInv, FrameArrives, call.after = "await"
    PROVE  BaseInv'
  <1> DEFINE c == first(Unused)
             l == call.ch.local
  <1>1. /\ call.pc = "send" /\ UNCHANGED <<ack, scenario, next_local_id, in, gone>>
        /\ (~desync' => ~desync) /\ (cut' # "dispatched" => cut # "dispatched")
        /\ UNCHANGED <<table, stored, queue, incoming, handles, got>> /\ call' \in CallStates
    BY DEF FrameArrives
  <1>2. /\ call.op = "open" /\ call.frame = Frame("OPEN", l, 0, credit)
        /\ Unused # {} /\ \A d \in Ids : device[d].local # l
    BY <1>1 DEF BaseInv, CallInv, FrameInv
  <1>3. c \in Opens /\ c \in Ids /\ device[c].state = "unused" /\ device[c].local = 0
    BY <1>2, UnusedIs
  <1>4. /\ call.ch \in ChannelIds
        /\ l # 0 /\ l < next_local_id /\ l \in 0 .. MaxLocal
        /\ \A i \in Positions : table[i].local # l
        /\ \A h \in handles : h.local # l
    BY <1>2 DEF BaseInv, CallInv, OpenInv, ConnTypeOK, CallStates, ChannelIds
  <1>5. device' = [device EXCEPT ![c] = [@ EXCEPT !.state = "asked", !.local = l,
                                            !.asb = IF ack = "Delayed" THEN credit ELSE 1]]
    BY <1>2 DEF FrameArrives, DeviceGets, Frame
  <1>6. device \in [Ids -> DeviceEnds] /\ credit \in Nat
    BY Limits DEF BaseInv, ConnTypeOK
  <1> HIDE DEF c
  <1>7. /\ device' \in [Ids -> DeviceEnds] /\ device'[c].local = l /\ device'[c].state = "asked"
        /\ \A d \in Ids : d # c => device'[d] = device[d]
    <2> DEFINE e == [device[c] EXCEPT !.state = "asked", !.local = l, !.asb = IF ack = "Delayed" THEN credit ELSE 1]
    <2>1. e \in DeviceEnds /\ e.local = l /\ e.state = "asked"
      <3>1. device[c] \in DeviceEnds /\ l \in 0 .. MaxLocal /\ (IF ack = "Delayed" THEN credit ELSE 1) \in Int
        BY <1>3, <1>4, <1>6
      <3> HIDE DEF l
      <3> QED BY <3>1 DEF DeviceEnds
    <2>2. device' = [device EXCEPT ![c] = e]
      <3> HIDE DEF l
      <3> QED BY <1>3, <1>5, <1>6
    <2> HIDE DEF e
    <2> QED BY <1>3, <1>6, <2>1, <2>2
  <1>8. SlotsInv' /\ SameTable
    BY <1>1, SameSlots
  <1>9. Positions' = Positions
    BY <1>1, TypesKept
  <1>10. IdsInv'
    <2>1. EndsInv'
      BY <1>1, <1>2, <1>4, <1>7 DEF BaseInv, IdsInv, EndsInv
    <2>2. \A i \in Positions : table[i].local # 0 => table[i].remote \in Ids /\ table[i].remote # c
      BY <1>3 DEF BaseInv, IdsInv, TableInv, SlotsInv, SlotOK
    <2>3. TableInv'
      BY <1>1, <1>4, <1>7, <1>9, <2>2 DEF BaseInv, IdsInv, TableInv
    <2>4. HandlesInv'
      <3>1. \A h \in handles : h.remote \in Ids /\ h.remote # c
        BY <1>3, ChannelOf DEF BaseInv, IdsInv, HandlesInv
      <3> QED BY <1>1, <1>7, <1>9, <3>1 DEF BaseInv, IdsInv, HandlesInv
    <2>5. OwnersInv'
      BY <1>1, <1>9 DEF BaseInv, IdsInv, OwnersInv
    <2> QED BY <2>1, <2>3, <2>4, <2>5 DEF IdsInv
  <1>11. PacketsInv'
    <2>1. ASSUME NEW k \in DOMAIN in PROVE PacketOK(in[k])'
      <3>1. PacketOK(in[k]) /\ in[k].remote \in Ids
        BY PacketTypes DEF BaseInv, PacketsInv
      <3>2. in[k].remote # c
        BY <3>1, <1>3 DEF PacketOK
      <3> QED BY <1>1, <1>7, <3>1, <3>2 DEF PacketOK
    <2> QED BY <1>1, <2>1 DEF PacketsInv
  <1>12. \A r \in Requests : r \in Ids /\ r # c
    BY <1>3, IdsAre
  <1>13. PlacesInv'
    <2>1. \A r : HasSlot(r)' <=> HasSlot(r)
      BY <1>1, <1>8, KeepSlots
    <2>2. \A r : OnWire(r)' <=> OnWire(r)
      BY <1>1 DEF OnWire
    <2> QED BY <1>1, <1>7, <1>9, <1>12, <2>1, <2>2 DEF BaseInv, PlacesInv
  <1>17. ConnTypeOK'
    <2>1. InKept
      BY <1>1 DEF InKept
    <2>2. /\ table' \in [Positions -> Slots] /\ stored' \in [Positions -> Seq(Bytes)]
          /\ got' \in [1 .. MaxLocal -> Seq(Bytes)]
      BY <1>1 DEF BaseInv, ConnTypeOK
    <2> QED BY <1>1, <1>7, <2>1, <2>2, HostTypes DEF FrameArrives
  <1>18. \A d \in Ids : ~Sending(d, "CLSE")
    BY <1>2 DEF Sending, Frame
  <1>19. OrphanInv'
    <2>1. \A r : HasSlot(r)' <=> HasSlot(r)
      BY <1>1, <1>8, KeepSlots
    <2> QED BY <1>1, <1>7, <1>18, <2>1 DEF BaseInv, OrphanInv
  <1>20. LostInv'
    BY <1>1, <1>7, <1>12, <1>18 DEF BaseInv, LostInv, OnWire
  <1> QED BY <1>8, <1>10, <1>11, <1>13, <1>17, <1>19, <1>20 DEF BaseInv, FrameArrives

(* An OPEN is out, or was abandoned after its last byte.                   *)
LEMMA OpenWritten ==
    ASSUME BaseInv, NEW sent, Written(sent), sent # "gone", device' = DeviceGets(call.frame),
           call.after = "await"
    PROVE  BaseInv'
  <1>1. /\ call.pc = "send" /\ UNCHANGED <<ack, scenario, next_local_id, in, gone>>
        /\ ~desync /\ (desync' <=> sent = "failed") /\ garbled' = FALSE
        /\ UNCHANGED <<table, stored, queue, incoming, handles, got>>
        /\ call' = IF sent = "ok" THEN [call EXCEPT !.pc = "recv", !.frame = NoFrame, !.after = "none"]
                   ELSE Returns("err")
    BY DEF Written, AfterSend, BaseInv, DesyncInv
  <1>2. call.op = "open" /\ incoming = NoIncoming
    BY <1>1 DEF BaseInv, CallInv, FrameInv, AnswerInv
  <1>3. CallInv' /\ call' \in CallStates /\ call'.pc \in {"idle", "recv"} /\ (desync' => call'.pc = "idle")
    <2>1. CASE sent # "ok"
      BY <1>1, <1>2, <2>1, CallReturns, ReturnsIs DEF BaseInv
    <2>2. CASE sent = "ok"
      <3>1. NoFrame \in Frames
        BY NoCallIs DEF BaseInv, ConnTypeOK, CallStates
      <3>2. /\ call' \in CallStates /\ call'.pc = "recv" /\ call'.op = "open" /\ call'.ch = call.ch
        BY <1>1, <1>2, <2>2, <3>1 DEF BaseInv, ConnTypeOK, CallStates, Afters
      <3>3. PcInv' /\ FrameInv' /\ UseInv'
        BY <3>2 DEF PcInv, FrameInv, UseInv
      <3>4. AnswerInv'
        BY <1>1, <1>2, <3>2 DEF AnswerInv
      <3>5. OpenInv'
        BY <1>1, <1>2, <3>2, TypesKept DEF OpenInv, BaseInv, CallInv
      <3> QED BY <1>1, <2>2, <3>2, <3>3, <3>4, <3>5 DEF CallInv
    <2> QED BY <2>1, <2>2
  <1>4. DesyncInv'
    BY <1>1, <1>3, WrittenFlags DEF DesyncInv
  <1> QED BY <1>1, <1>3, <1>4, WrittenFlags, OpenArrives DEF FrameArrives

-----------------------------------------------------------------------------
(* Slots go, and the others stay what they are.                            *)

Frees == /\ table' \in [Positions -> Slots] /\ stored' \in [Positions -> Seq(Bytes)]
         /\ \A i \in Positions : \/ table'[i] = table[i] /\ stored'[i] = stored[i]
                                 \/ table'[i] = NoSlot /\ Len(stored'[i]) = 0
         /\ UNCHANGED <<ack, scenario, next_local_id, handles>>

Reserved(i) == incoming.reserved = [slot |-> i, local |-> table[i].local]

(* A slot is freed.                                                        *)
LEMMA FreesIs ==
    ASSUME BaseInv, Frees
    PROVE  /\ SlotsInv' /\ Positions' = Positions /\ (SameDevice => EndsInv' /\ HandlesInv')
           /\ /\ SameDevice
              /\ \A i \in Positions : table'[i].local # 0 /\ Reserved(i) => Reserved(i)'
              => TableInv'
           /\ \A i \in Positions : table'[i].local # 0 => table'[i] = table[i]
           /\ \A r : HasSlot(r)' => HasSlot(r)
  <1>1. Positions' = Positions
    BY TypesKept DEF Frees
  <1>2. \A i \in Positions : table'[i].local # 0 => table'[i] = table[i]
    BY NoSlotIs DEF Frees
  <1>3. SlotsInv'
    <2>1. ASSUME NEW i \in Positions PROVE SlotOK(i)'
      <3>1. CASE table'[i] = table[i] /\ stored'[i] = stored[i]
        BY <3>1 DEF Frees, BaseInv, SlotsInv, SlotOK
      <3>2. CASE table'[i] = NoSlot /\ Len(stored'[i]) = 0
        BY <3>2, NoSlotIs DEF SlotOK, Frees
      <3> QED BY <3>1, <3>2 DEF Frees
    <2> QED BY <1>1, <2>1 DEF SlotsInv
  <1>4. SameDevice => EndsInv'
    BY DEF Frees, SameDevice, BaseInv, IdsInv, EndsInv
  <1>5. \A i \in Positions : table[i].local # 0 => table[i].remote \in Ids
    BY DEF BaseInv, SlotsInv, SlotOK
  <1>6. \A i \in Positions : table'[i] = table[i] \/ (table'[i].local = 0 /\ table'[i].remote = 0)
    BY NoSlotIs DEF Frees
  <1>7. ASSUME SameDevice, \A i \in Positions : table'[i].local # 0 /\ Reserved(i) => Reserved(i)'
        PROVE  TableInv'
    <2>1. ASSUME NEW i \in Positions, NEW j \in Positions, table'[i].local # 0
          PROVE  /\ table'[i].local = table'[j].local => i = j
                 /\ table'[i].remote = table'[j].remote => i = j
      <3>1. table'[i] = table[i] /\ table[i].remote # 0
        BY <1>2, <1>5, <2>1, IdsAre
      <3> QED BY <1>6, <2>1, <3>1 DEF BaseInv, IdsInv, TableInv
    <2>2. ASSUME NEW i \in Positions, table'[i].local # 0
          PROVE  /\ device'[table'[i].remote].local \in {0, table'[i].local} \/ Reserved(i)'
                 /\ device'[table'[i].remote].state \in {"offered", "open", "closed"}
                 /\ \A c \in Ids : device'[c].local = table'[i].local => c = table'[i].remote
      BY <1>2, <1>5, <1>7, <2>2 DEF BaseInv, IdsInv, TableInv, Frees, SameDevice, Reserved
    <2> QED BY <1>1, <2>1, <2>2 DEF TableInv, Reserved
  <1>8. ASSUME SameDevice PROVE HandlesInv'
    <2>1. \A h \in handles : h.remote \in Ids /\ h.local # 0
      <3>1. 0 \notin 1 .. MaxLocal
        BY IdsAre
      <3> QED BY <3>1, ChannelOf DEF BaseInv
    <2>2. ASSUME NEW h \in handles
          PROVE  /\ h.local < next_local_id' /\ device'[h.remote].state \in {"open", "closed"}
                 /\ \A i \in Positions : table'[i].local = h.local => i = h.slot /\ table'[i].remote = h.remote
      BY <1>6, <1>8, <2>1 DEF BaseInv, IdsInv, HandlesInv, Frees, SameDevice
    <2> QED BY <1>1, <2>2 DEF BaseInv, IdsInv, HandlesInv, Frees
  <1>9. \A r : HasSlot(r)' => HasSlot(r)
    BY <1>1, <1>2 DEF HasSlot
  <1> QED BY <1>1, <1>2, <1>3, <1>4, <1>7, <1>8, <1>9

(* A slot stays with its owner.                                            *)
LEMMA KeepOwners ==
    ASSUME BaseInv, Frees, UNCHANGED incoming
    PROVE  OwnersInv'
  BY FreesIs DEF OwnersInv, BaseInv, IdsInv, Frees

(* close_channel frees the slot and starts on its CLSE.                    *)
LEMMA CloseStart ==
    ASSUME BaseInv, StartClose
    PROVE  BaseInv'
  <1>1. /\ call.pc = "idle" /\ ~desync
        /\ UNCHANGED <<ack, scenario, next_local_id, queue, incoming, handles, got, wireVars>>
    BY DEF StartClose
  <1>2. PICK h \in handles :
          LET ch == [slot |-> h.slot, local |-> h.local]
          IN /\ get(ch) # NoSlot
             /\ table' = [table EXCEPT ![ch.slot] = NoSlot]
             /\ stored' = [stored EXCEPT ![ch.slot] = <<>>]
             /\ call' = [Starts("close", ch, 0) EXCEPT !.pc = "send", !.after = "closed",
                                                      !.frame = close(h.local, get(ch).remote)]
    BY DEF StartClose
  <1> DEFINE ch == [slot |-> h.slot, local |-> h.local]
             i == h.slot
  <1>3. ch \in ChannelIds /\ i \in Positions /\ h.local \in 1 .. MaxLocal /\ h.remote \in Ids
    BY ChannelOf DEF BaseInv
  <1>4. get(ch) = table[i] /\ table[i].local = h.local /\ Live(i)
    <2> HIDE DEF ch
    <2>1. ch.slot = i /\ ch.local = h.local
      BY DEF ch
    <2>2. get(ch) # NoSlot
      BY <1>2 DEF ch
    <2> QED BY <1>3, <2>1, <2>2, GetIs DEF BaseInv, Live
  <1>5. table[i].remote = h.remote /\ device[h.remote].state \in {"open", "closed"}
    BY <1>3, <1>4 DEF BaseInv, IdsInv, HandlesInv
  <1>6. table' = [table EXCEPT ![i] = NoSlot] /\ stored' = [stored EXCEPT ![i] = <<>>]
    BY <1>2
  <1>7. Frees
    <2>1. <<>> \in Seq(Bytes) /\ Len(<<>>) = 0
      OBVIOUS
    <2>2. table \in [Positions -> Slots] /\ stored \in [Positions -> Seq(Bytes)]
      BY DEF BaseInv, ConnTypeOK
    <2> QED BY <1>1, <1>3, <1>6, <2>1, <2>2, NoSlotIs DEF Frees
  <1>8. IdsInv' /\ SlotsInv'
    <2>1. \A k \in Positions : table'[k].local # 0 /\ Reserved(k) => Reserved(k)'
      BY <1>1, <1>7, FreesIs DEF Reserved
    <2>2. SameDevice
      BY <1>1 DEF SameDevice, wireVars
    <2> QED BY <1>1, <1>7, <2>1, <2>2, FreesIs, KeepOwners DEF IdsInv
  <1> DEFINE f == close(h.local, h.remote)
  <1>9. f \in Frames /\ f.cmd = "CLSE" /\ f.remote = h.remote
    <2>1. h.local \in 0 .. MaxLocal
      BY <1>3
    <2> QED BY <1>3, <2>1, CloseIs
  <1>10. /\ call' \in CallStates /\ call'.op = "close" /\ call'.pc = "send" /\ call'.after = "closed"
         /\ call'.frame = f
    <2> DEFINE r == Starts("close", ch, 0)
    <2>1. r \in CallStates /\ r.op = "close"
      BY <1>3, StartsIs DEF Ops, BaseInv, ConnTypeOK
    <2> HIDE DEF r
    <2>2. call' = [r EXCEPT !.pc = "send", !.after = "closed", !.frame = f]
      BY <1>2, <1>4, <1>5 DEF r
    <2> HIDE DEF f
    <2> QED BY <1>9, <2>1, <2>2 DEF CallStates, Afters
  <1> HIDE DEF f
  <1>11. incoming = NoIncoming
    BY <1>1 DEF BaseInv, CallInv, PcInv, AnswerInv
  <1>12. CallInv'
    BY <1>1, <1>3, <1>5, <1>9, <1>10, <1>11 DEF CallInv, PcInv, AnswerInv, OpenInv, FrameInv, UseInv, wireVars
  <1>13. PacketsInv'
    BY <1>1, KeepPackets DEF BaseInv, InKept, SameDevice, wireVars
  <1>14. PlacesInv'
    <2>1. \A r : OnWire(r)' <=> OnWire(r)
      BY <1>1 DEF OnWire, wireVars
    <2> QED BY <1>1, <1>7, <2>1, FreesIs DEF BaseInv, PlacesInv, wireVars
  <1>15. DesyncInv'
    BY <1>1 DEF BaseInv, DesyncInv, wireVars
  <1>16. ConnTypeOK'
    <2>1. device' \in [Ids -> DeviceEnds] /\ desync' \in BOOLEAN /\ garbled' \in BOOLEAN /\ cut' \in Afters
          /\ got' \in [1 .. MaxLocal -> Seq(Bytes)] /\ InKept /\ gone' = gone
      BY <1>1 DEF BaseInv, ConnTypeOK, wireVars, InKept
    <2> QED BY <1>1, <1>7, <1>10, <2>1, HostTypes DEF Frees
  <1>17. OrphanInv'
    <2>1. ASSUME NEW c \in Ids, c # h.remote, HasSlot(c) PROVE HasSlot(c)'
      <3>1. PICK j \in Positions : table[j].local # 0 /\ table[j].remote = c
        BY <2>1 DEF HasSlot
      <3>2. j # i
        BY <1>5, <2>1, <3>1
      <3>3. table'[j] = table[j]
        BY <1>6, <3>2 DEF BaseInv, ConnTypeOK
      <3> QED BY <1>7, <3>1, <3>3, FreesIs DEF HasSlot
    <2>2. Sending(h.remote, "CLSE")' /\ \A c : ~Sending(c, "CLSE")
      BY <1>1, <1>9, <1>10 DEF Sending
    <2> QED BY <1>1, <2>1, <2>2 DEF BaseInv, OrphanInv, wireVars
  <1>18. LostInv'
    <2>1. \A c : ~Sending(c, "CLSE")
      BY <1>1 DEF Sending
    <2> QED BY <1>1, <2>1 DEF BaseInv, LostInv, OnWire, wireVars
  <1> QED BY <1>8, <1>12, <1>13, <1>14, <1>15, <1>16, <1>17, <1>18 DEF BaseInv

-----------------------------------------------------------------------------
(* The Incoming goes without an answer.                                    *)

Unreserved == IF incoming.reserved = NoChannel THEN table
              ELSE [table EXCEPT ![incoming.reserved.slot] = NoSlot]

(* What is known while an Incoming is held.                                *)
LEMMA HeldIs ==
    ASSUME BaseInv, call.pc = "held" \/ call.op = "answer"
    PROVE  /\ incoming.pending \in Requests /\ incoming.pending \in Ids /\ incoming.pending # 0
           /\ incoming.reserved \in ChannelIds
           /\ device[incoming.pending].state \in {"offered", "open", "closed"}
           /\ ~desync => device[incoming.pending].local = 0 /\ device[incoming.pending].state # "open"
           /\ ~In(queue, incoming.pending) /\ ~OnWire(incoming.pending)
           /\ Len(queue) + 1 <= scenario.channels
           /\ incoming.reserved # NoChannel =>
                LET i == incoming.reserved.slot
                IN /\ Live(i) /\ table[i] = accepted(incoming.reserved.local, incoming.pending, Grant, ack)
                   /\ table[i].local = incoming.reserved.local /\ table[i].remote = incoming.pending
                   /\ table[i].rx_buf = 0 /\ stored[i] \in Seq(Bytes) /\ Len(stored[i]) = 0
  <1>1. incoming.pending # 0 /\ incoming.pending \in Requests \cup {0} /\ incoming.reserved \in ChannelIds
    BY DEF BaseInv, CallInv, AnswerInv, ConnTypeOK
  <1>2. /\ device[incoming.pending].state \in {"offered", "open", "closed"}
        /\ ~desync => device[incoming.pending].local = 0 /\ device[incoming.pending].state # "open"
        /\ ~In(queue, incoming.pending) /\ ~OnWire(incoming.pending)
        /\ Len(queue) + 1 <= scenario.channels
    BY <1>1 DEF BaseInv, PlacesInv
  <1>3. ASSUME incoming.reserved # NoChannel
        PROVE LET i == incoming.reserved.slot
              IN /\ Live(i) /\ table[i] = accepted(incoming.reserved.local, incoming.pending, Grant, ack)
                 /\ table[i].local = incoming.reserved.local /\ table[i].remote = incoming.pending
                 /\ table[i].rx_buf = 0 /\ stored[i] \in Seq(Bytes) /\ Len(stored[i]) = 0
    <2> DEFINE i == incoming.reserved.slot
    <2>1. /\ i \in Positions /\ incoming.reserved.local # 0
          /\ table[i] = accepted(incoming.reserved.local, incoming.pending, Grant, ack)
      BY <1>3 DEF BaseInv, CallInv, AnswerInv
    <2>2. /\ table[i].local = incoming.reserved.local /\ table[i].remote = incoming.pending
          /\ table[i].rx_buf = 0
      BY <2>1 DEF accepted, opening
    <2>3. stored[i] \in Seq(Bytes) /\ Len(stored[i]) = table[i].rx_buf
      BY <2>1 DEF BaseInv, ConnTypeOK, SlotsInv, SlotOK
    <2> QED BY <2>1, <2>2, <2>3 DEF Live
  <1> QED BY <1>1, <1>2, <1>3, IdsAre

(* What an answer does to the device's end when it arrives.                *)
LEMMA AnswerGot ==
    ASSUME BaseInv, call.op = "answer", ~desync, device' = DeviceGets(call.frame)
    PROVE  LET r == incoming.pending
               ch == incoming.reserved
           IN /\ device' \in [Ids -> DeviceEnds] /\ \A d \in Ids : d # r => device'[d] = device[d]
              /\ \/ device' = device
                 \/ device'[r].state = "closed" /\ device'[r].local = device[r].local
                 \/ /\ device[r].state = "offered" /\ device'[r].state = "open"
                    /\ device'[r].local = ch.local /\ ch # NoChannel
                    /\ ch.local < next_local_id /\ \A c \in Ids : device[c].local # ch.local
  <1> DEFINE r == incoming.pending
             ch == incoming.reserved
             l == ch.local
  <1>1. r \in Ids /\ device \in [Ids -> DeviceEnds] /\ credit \in Nat
    BY HeldIs, Limits DEF BaseInv, ConnTypeOK
  <1>2. CASE ch = NoChannel
    <2>1. call.frame.cmd = "CLSE" /\ call.frame.remote = r
      BY <1>2 DEF BaseInv, CallInv, AnswerInv
    <2>2. device' = [device EXCEPT ![r].state = "closed"]
      BY <2>1 DEF DeviceGets
    <2> HIDE DEF r
    <2>3. \A d \in Ids : /\ d # r => device'[d] = device[d]
                         /\ device'[d].local = device[d].local /\ device'[d] \in DeviceEnds
      BY <1>1, <2>2 DEF DeviceEnds
    <2>4. device'[r].state = "closed" /\ device' \in [Ids -> DeviceEnds]
      BY <1>1, <2>2, <2>3, SMTT(60) DEF DeviceEnds
    <2> QED BY <1>1, <2>3, <2>4 DEF r
  <1>3. CASE ch # NoChannel
    <2>1. /\ call.frame = Frame("READY", l, r, credit) /\ \A c \in Ids : device[c].local # l
          /\ Live(ch.slot) /\ table[ch.slot].local = l
      BY <1>3, HeldIs DEF BaseInv, CallInv, AnswerInv
    <2>2. l \in 1 .. MaxLocal /\ l < next_local_id
      BY <2>1, LiveIs
    <2>3. l \in 0 .. MaxLocal
      BY <2>2
    <2>4. device' = IF device[r].state # "offered" THEN device
                    ELSE [device EXCEPT ![r] = [@ EXCEPT !.state = "open", !.local = l,
                                                  !.asb = IF ack = "Delayed" THEN credit ELSE 1]]
      BY <2>1 DEF DeviceGets, Frame
    <2>5. CASE device[r].state # "offered"
      BY <1>1, <2>4, <2>5
    <2>6. CASE device[r].state = "offered"
      <3> DEFINE e == [device[r] EXCEPT !.state = "open", !.local = l, !.asb = IF ack = "Delayed" THEN credit ELSE 1]
      <3>1. e \in DeviceEnds /\ e.local = l /\ e.state = "open"
        <4>1. device[r] \in DeviceEnds /\ (IF ack = "Delayed" THEN credit ELSE 1) \in Int
          BY <1>1
        <4> HIDE DEF l, r
        <4> QED BY <2>3, <4>1 DEF DeviceEnds
      <3>2. device' = [device EXCEPT ![r] = e]
        <4> HIDE DEF l
        <4> QED BY <1>1, <2>4, <2>6
      <3> HIDE DEF e
      <3>3. /\ device' \in [Ids -> DeviceEnds] /\ \A d \in Ids : d # r => device'[d] = device[d]
            /\ device'[r].state = "open" /\ device'[r].local = l
        <4> HIDE DEF l, r
        <4> QED BY <1>1, <3>1, <3>2
      <3> QED BY <1>3, <2>1, <2>2, <2>6, <3>3
    <2> QED BY <2>5, <2>6
  <1> QED BY <1>2, <1>3

(* Incoming is dropped: its slot is freed and its request goes back to the *)
(* queue or nowhere.                                                       *)
LEMMA IncomingGoes ==
    ASSUME BaseInv, call.pc = "held" \/ call.op = "answer", table' = Unreserved, incoming' = NoIncoming,
           \/ queue' = <<incoming.pending>> \o queue
           \/ queue' = queue /\ gone',
           UNCHANGED <<ack, scenario, stored, next_local_id, handles, got, in>>,
           \/ device' = device
           \/ desync' /\ ~desync /\ call.op = "answer" /\ device' = DeviceGets(call.frame),
           NEW x \in {"ok", "err", "dropped"}, call' = Returns(x),
           gone' = gone, desync' \in BOOLEAN, cut' \in Afters, garbled' = FALSE, cut' # "none" => desync',
           ~desync' => ~desync, cut' # "dispatched" => cut # "dispatched",
           ~desync' => call.pc = "held" \/ gone'
    PROVE  BaseInv'
  <1> DEFINE r == incoming.pending
             ch == incoming.reserved
  <1>1. /\ r \in Requests /\ r \in Ids /\ r # 0 /\ (~desync => device[r].local = 0)
        /\ ~In(queue, r) /\ ~OnWire(r) /\ Len(queue) + 1 <= scenario.channels
        /\ ch # NoChannel =>
             /\ Live(ch.slot) /\ table[ch.slot].local = ch.local /\ table[ch.slot].remote = r
             /\ stored[ch.slot] \in Seq(Bytes) /\ Len(stored[ch.slot]) = 0
    BY HeldIs
  <1>2. /\ device' \in [Ids -> DeviceEnds] /\ \A d \in Ids : d # r => device'[d] = device[d]
        /\ \/ device' = device
           \/ desync' /\ device'[r].state = "closed" /\ device'[r].local = device[r].local
           \/ /\ desync' /\ device[r].state = "offered" /\ device'[r].state = "open"
              /\ device'[r].local = ch.local /\ ch # NoChannel
              /\ ch.local < next_local_id /\ \A c \in Ids : device[c].local # ch.local
    BY <1>1, AnswerGot, HeldIs DEF BaseInv, ConnTypeOK
  <1>3. table \in [Positions -> Slots] /\ stored \in [Positions -> Seq(Bytes)]
    BY DEF BaseInv, ConnTypeOK
  <1> HIDE DEF r, ch
  <1>4. Frees
    <2>1. CASE ch = NoChannel
      BY <1>2, <1>3, <2>1 DEF Frees, Unreserved, ch
    <2>2. CASE ch # NoChannel
      <3>1. table' = [table EXCEPT ![ch.slot] = NoSlot] /\ ch.slot \in Positions
        BY <1>1, <2>2 DEF Unreserved, Live, ch
      <3> QED BY <1>1, <1>2, <1>3, <2>2, <3>1, NoSlotIs DEF Frees
    <2> QED BY <2>1, <2>2
  <1>5. \A i \in Positions : table'[i].local # 0 => incoming.reserved # [slot |-> i, local |-> table[i].local]
    <2>1. ASSUME NEW i \in Positions, incoming.reserved = [slot |-> i, local |-> table[i].local]
          PROVE  table'[i].local = 0
      <3>1. i # 0
        BY ConnectionAssumption DEF Positions, BaseInv, ConnTypeOK
      <3>2. ch # NoChannel /\ ch.slot = i
        BY <2>1, <3>1 DEF NoChannel, ch
      <3> QED BY <1>3, <3>2, NoSlotIs DEF Unreserved, ch
    <2> QED BY <2>1
  <1>6. \A i \in Positions : table'[i].local # 0 => table'[i] = table[i]
    BY <1>4, FreesIs
  <1>7. \A q : q = r => ~HasSlot(q)'
    <2>1. ASSUME NEW i \in Positions, table'[i].local # 0, table'[i].remote = r PROVE FALSE
      <3>1. table[i].local # 0 /\ table[i].remote = r
        BY <1>6, <2>1
      <3>2. incoming.reserved = [slot |-> i, local |-> table[i].local]
        BY <1>1, <3>1 DEF BaseInv, PlacesInv, r
      <3> QED BY <1>5, <2>1, <3>2
    <2> QED BY <1>4, <2>1, FreesIs DEF HasSlot
  <1>8. IdsInv' /\ SlotsInv'
    <2>1. OwnersInv'
      BY <1>4, <1>5, <1>6, FreesIs DEF OwnersInv, BaseInv, IdsInv, Frees
    <2>2. \A i \in Positions : table'[i].local # 0 => ~Reserved(i)
      BY <1>5 DEF Reserved
    <2>3. CASE device' = device
      BY <1>4, <2>1, <2>2, <2>3, FreesIs DEF IdsInv, SameDevice
    <2>4. CASE device' # device
      <3>1. ASSUME NEW i \in Positions, table'[i].local # 0
            PROVE  /\ table'[i] = table[i] /\ table[i].remote \in Ids /\ table[i].remote # r
                   /\ device[table[i].remote].local \in {0, table[i].local}
                   /\ device[table[i].remote].state \in {"offered", "open", "closed"}
                   /\ \A c \in Ids : device[c].local = table[i].local => c = table[i].remote
                   /\ ch # NoChannel => table[i].local # ch.local
        <4>1. table'[i] = table[i] /\ table[i].local # 0 /\ table[i].remote \in Ids
          BY <1>6, <3>1 DEF BaseInv, SlotsInv, SlotOK
        <4>2. table[i].remote # r
          BY <1>4, <1>7, <3>1, <4>1, FreesIs DEF HasSlot
        <4>3. ~Reserved(i)
          BY <2>2, <3>1
        <4>4. /\ device[table[i].remote].local \in {0, table[i].local}
              /\ device[table[i].remote].state \in {"offered", "open", "closed"}
              /\ \A c \in Ids : device[c].local = table[i].local => c = table[i].remote
          BY <4>1, <4>3 DEF BaseInv, IdsInv, TableInv, Reserved
        <4>5. ch # NoChannel => table[i].local # ch.local
          BY <1>1, <4>1, <4>2 DEF BaseInv, IdsInv, TableInv, Live
        <4> QED BY <4>1, <4>2, <4>4, <4>5
      <3>2. EndsInv'
        BY <1>1, <1>2, <2>4 DEF BaseInv, IdsInv, EndsInv, Live
      <3>3. \A i, j \in Positions : table'[i].local # 0 =>
               /\ table'[i].local = table'[j].local => i = j
               /\ table'[i].remote = table'[j].remote => i = j
        <4>1. ASSUME NEW i \in Positions, NEW j \in Positions, table'[i].local # 0
              PROVE  /\ table'[i].local = table'[j].local => i = j
                     /\ table'[i].remote = table'[j].remote => i = j
          <5>1. table'[i] = table[i] /\ table[i].remote # 0
            BY <3>1, <4>1, IdsAre
          <5>2. table'[j] = table[j] \/ (table'[j].local = 0 /\ table'[j].remote = 0)
            BY <1>4, NoSlotIs DEF Frees
          <5> QED BY <4>1, <5>1, <5>2 DEF BaseInv, IdsInv, TableInv
        <4> QED BY <4>1
      <3>4. ASSUME NEW i \in Positions, table'[i].local # 0
            PROVE  /\ device'[table'[i].remote].local \in {0, table'[i].local}
                   /\ device'[table'[i].remote].state \in {"offered", "open", "closed"}
                   /\ \A c \in Ids : device'[c].local = table'[i].local => c = table'[i].remote
        BY <1>2, <2>4, <3>1, <3>4
      <3>5. TableInv'
        <4>1. Positions' = Positions
          BY TypesKept
        <4> QED BY <3>3, <3>4, <4>1 DEF TableInv
      <3>6. HandlesInv'
        <4>1. \A h \in handles : h.remote \in Ids /\ h.local # 0
          <5>1. 0 \notin 1 .. MaxLocal
            BY IdsAre
          <5> QED BY <5>1, ChannelOf DEF BaseInv
        <4>2. \A i \in Positions : table'[i] = table[i] \/ table'[i].local = 0
          BY <1>4, NoSlotIs DEF Frees
        <4>3. \A h \in handles :
                 /\ h.local < next_local_id' /\ device'[h.remote].state \in {"open", "closed"}
                 /\ \A i \in Positions : table'[i].local = h.local => i = h.slot /\ table'[i].remote = h.remote
          BY <1>2, <4>1, <4>2 DEF BaseInv, IdsInv, HandlesInv
        <4> QED BY <4>3, TypesKept DEF BaseInv, IdsInv, HandlesInv
      <3> QED BY <1>4, <2>1, <3>2, <3>5, <3>6, FreesIs DEF IdsInv
    <2> QED BY <2>3, <2>4
  <1>9. /\ queue \in Seq(Requests) /\ Once(queue) /\ Len(queue) \in Nat
    BY DEF BaseInv, ConnTypeOK, PlacesInv
  <1>10. /\ queue' \in Seq(Requests) /\ Once(queue') /\ Len(queue') <= Len(queue) + 1
         /\ \A q : In(queue', q) => In(queue, q) \/ q = r
         /\ ~gone' => \A q : In(queue, q) \/ q = r => In(queue', q)
    <2>1. CASE queue' = <<r>> \o queue
      BY <1>1, <1>9, <2>1, PushOnce
    <2>2. CASE queue' = queue /\ gone'
      BY <1>9, <2>2
    <2> QED BY <2>1, <2>2 DEF r
  <1>11. PacketsInv'
    <2>1. ASSUME NEW k \in DOMAIN in PROVE PacketOK(in[k])'
      <3>1. PacketOK(in[k]) /\ in[k].remote \in Ids
        BY PacketTypes DEF BaseInv, PacketsInv
      <3>2. in[k].remote = r => device[r].state # "offered"
        BY <1>1, <3>1 DEF PacketOK, OnWire
      <3> QED BY <1>2, <3>1, <3>2 DEF PacketOK
    <2> QED BY <2>1 DEF PacketsInv
  <1>12. PlacesInv'
    <2>1. \A q : OnWire(q)' <=> OnWire(q)
      BY DEF OnWire
    <2>2. incoming'.pending = 0 /\ \A q \in Requests : q # 0
      BY IdsAre DEF NoIncoming
    <2>3. Len(queue') + 0 <= scenario.channels
      <3>1. Len(queue') \in Nat /\ scenario.channels \in Nat
        BY <1>10, ConnectionAssumption DEF BaseInv, ConnTypeOK
      <3> QED BY <1>1, <1>9, <1>10, <3>1
    <2>4. \A q : HasSlot(q)' => HasSlot(q)
      BY <1>4, FreesIs
    <2>5. ASSUME NEW q \in Requests
          PROVE  /\ OnWire(q)' => ~In(queue', q) /\ ~HasSlot(q)'
                 /\ In(queue', q) => ~HasSlot(q)'
                 /\ In(queue', q) => device'[q].state \in {"offered", "open", "closed"}
                 /\ In(queue', q) /\ ~desync' => device'[q].local = 0 /\ device'[q].state # "open"
      <3>1. CASE q = r
        <4>1. /\ device[r].state \in {"offered", "open", "closed"}
              /\ ~desync => device[r].local = 0 /\ device[r].state # "open"
          BY HeldIs DEF r
        <4> QED BY <1>1, <1>2, <1>7, <2>1, <3>1, <4>1
      <3>2. CASE q # r
        <4>1. device'[q] = device[q]
          BY <1>2, <3>2, IdsAre
        <4> QED BY <1>10, <2>1, <2>4, <3>2, <4>1 DEF BaseInv, PlacesInv
      <3> QED BY <3>1, <3>2
    <2> QED BY <1>10, <2>2, <2>3, <2>5 DEF BaseInv, PlacesInv
  <1>13. CallInv' /\ call' \in CallStates /\ call'.pc = "idle"
    BY CallReturns, ReturnsIs DEF BaseInv
  <1>14. DesyncInv'
    BY <1>13 DEF DesyncInv
  <1>15. ConnTypeOK'
    <2>1. incoming' \in [pending : Requests \cup {0}, reserved : ChannelIds]
      BY NoCallIs DEF NoIncoming, BaseInv, ConnTypeOK, CallStates
    <2>2. device' \in [Ids -> DeviceEnds]
      BY <1>2
    <2> QED BY <1>4, <1>10, <1>13, <2>1, <2>2, TypesKept DEF BaseInv, ConnTypeOK, Frees
  <1>16. \A c : Sending(c, "CLSE") => c = r /\ (desync' \/ gone')
    <2>1. ASSUME NEW c, Sending(c, "CLSE") PROVE c = r /\ (desync' \/ gone')
      <3>1. call.pc = "send" /\ call.op = "answer" /\ call.frame.remote = c
        BY <2>1 DEF Sending
      <3> QED BY <3>1 DEF BaseInv, CallInv, AnswerInv, r
    <2> QED BY <2>1
  <1>17. OrphanInv'
    <2>1. ASSUME NEW c \in Ids, HasSlot(c), device[c].state = "open", ~desync PROVE HasSlot(c)'
      <3>1. PICK j \in Positions : table[j].local # 0 /\ table[j].remote = c
        BY <2>1 DEF HasSlot
      <3>2. c # r
        BY <1>1, <2>1 DEF BaseInv, IdsInv, EndsInv
      <3>3. table'[j] = table[j]
        <4>1. ch # NoChannel => j # ch.slot
          BY <1>1, <3>1, <3>2
        <4> QED BY <1>1, <1>3, <4>1 DEF Unreserved, ch
      <3> QED BY <1>4, <3>1, <3>3, FreesIs DEF HasSlot
    <2>2. CASE desync'
      BY <2>2 DEF OrphanInv
    <2>3. CASE ~desync'
      BY <1>2, <1>16, <2>1, <2>3 DEF BaseInv, OrphanInv
    <2> QED BY <2>2, <2>3
  <1>18. LostInv'
    <2>1. \A q \in Requests : q \in Ids /\ (device'[q].state = "offered" => device[q].state = "offered")
      BY <1>2, IdsAre
    <2>2. \A q : incoming.pending = q => q = r
      BY DEF r
    <2> QED BY <1>1, <1>10, <1>16, <2>1, <2>2 DEF BaseInv, LostInv, OnWire
  <1> QED BY <1>8, <1>11, <1>12, <1>13, <1>14, <1>15, <1>17, <1>18 DEF BaseInv

(* The application drops an Incoming without an answer.                    *)
LEMMA UndecidedStep ==
    ASSUME BaseInv, Undecided
    PROVE  BaseInv'
  <1>1. call.pc = "held" /\ call' = Returns("ok") /\ UNCHANGED <<ack, scenario, stored, next_local_id, handles, got, wireVars>>
        /\ DropIncoming(table, queue)
    BY DEF Undecided
  <1>2. table' = Unreserved /\ incoming' = NoIncoming /\ queue' = <<incoming.pending>> \o queue
    BY <1>1, HeldIs DEF DropIncoming, Unreserved
  <1>3. /\ gone' = gone /\ desync' = desync /\ desync' \in BOOLEAN /\ cut' \in Afters /\ garbled' = FALSE
        /\ (cut' # "none" => desync') /\ cut' = cut
        /\ UNCHANGED <<ack, scenario, stored, next_local_id, handles, got, in>> /\ device' = device
    BY <1>1 DEF BaseInv, DesyncInv, ConnTypeOK, wireVars
  <1> QED BY <1>1, <1>2, <1>3, IncomingGoes

(* The future of a write is dropped.                                       *)
LEMMA SendDroppedStep ==
    ASSUME BaseInv, SendDropped
    PROVE  BaseInv'
  <1>1. /\ call.pc = "send" /\ ~desync /\ ~gone /\ DropIncoming(table, queue) /\ call' = Returns("dropped")
        /\ desync' = TRUE /\ cut' = call.after
        /\ UNCHANGED <<ack, scenario, stored, next_local_id, handles, got, in, gone, garbled>>
        /\ device' = device \/ device' = DeviceGets(call.frame)
    BY DEF SendDropped, Abandoned
  <1>2. /\ cut' \in Afters /\ garbled' = FALSE /\ garbled' \in BOOLEAN /\ desync' \in BOOLEAN
        /\ cut # "dispatched" /\ gone' = gone
    BY <1>1 DEF BaseInv, ConnTypeOK, CallStates, DesyncInv
  <1>3. CASE call.op = "answer"
    <2>1. table' = Unreserved /\ incoming' = NoIncoming /\ queue' = <<incoming.pending>> \o queue
      BY <1>1, <1>3, HeldIs DEF DropIncoming, Unreserved
    <2>2. UNCHANGED <<ack, scenario, stored, next_local_id, handles, got, in>>
      BY <1>1
    <2> QED BY <1>1, <1>2, <1>3, <2>1, <2>2, IncomingGoes
  <1>4. CASE call.op # "answer"
    <2>1. incoming = NoIncoming
      BY <1>1, <1>4 DEF BaseInv, CallInv, AnswerInv
    <2>2. table' = table /\ queue' = queue /\ incoming' = incoming
      BY <1>1, <2>1 DEF DropIncoming, NoIncoming
    <2>3. SlotsInv' /\ SameTable
      BY <1>1, <2>2, SameSlots
    <2>4. CallInv' /\ call' \in CallStates /\ call'.pc = "idle"
      BY <1>1, <2>1, <2>2, CallReturns, ReturnsIs DEF BaseInv
    <2>5. DesyncInv'
      BY <1>1, <1>2, <2>4 DEF DesyncInv
    <2>6. CASE device' = DeviceGets(call.frame) /\ (call.after = "await" \/ call.frame.cmd = "CLSE")
      <3>1. FrameArrives
        BY <1>1, <1>2, <2>2, <2>4, <2>5, <2>6 DEF FrameArrives
      <3> QED BY <1>4, <2>6, <3>1, OpenArrives, CloseArrives
    <2>7. CASE ~(device' = DeviceGets(call.frame) /\ (call.after = "await" \/ call.frame.cmd = "CLSE"))
      <3>1. device' \in [Ids -> DeviceEnds] /\ SameDevice
        <4>1. CASE device' = device
          BY <4>1 DEF SameDevice, BaseInv, ConnTypeOK
        <4>2. CASE device' # device
          <5>1. call.frame \in Frames
            BY DEF BaseInv, ConnTypeOK, CallStates
          <5>2. call.frame.cmd \in {"OKAY", "WRTE"} /\ call.frame.remote \in Ids
            <6>1. /\ call.after \notin {"await"} /\ call.frame.cmd # "CLSE"
              BY <1>1, <2>7, <4>2
            <6>2. \/ call.op \in {"read", "write"} /\ call.frame.remote = table[call.ch.slot].remote
                  \/ HasSlot(call.frame.remote)
              BY <1>1, <1>4, <6>1 DEF BaseInv, CallInv, FrameInv
            <6>3. call.frame.remote \in Ids
              BY <1>1, <6>2, UserIs, LiveIs DEF HasSlot, Live
            <6>4. call.frame.cmd \in {"OKAY", "WRTE"}
              BY <1>1, <1>4, <6>1 DEF BaseInv, CallInv, FrameInv
            <6> QED BY <6>3, <6>4
          <5> QED BY <1>1, <4>2, <5>1, <5>2, DeviceQuiet DEF SameDevice
        <4> QED BY <4>1, <4>2
      <3>2. Keeps /\ InKept /\ in' = in
        BY <1>1, <2>2, <2>3, <3>1 DEF Keeps, InKept
      <3>3. ConnTypeOK'
        <4>1. /\ table' \in [Positions -> Slots] /\ stored' \in [Positions -> Seq(Bytes)]
              /\ got' \in [1 .. MaxLocal -> Seq(Bytes)]
          BY <1>1, <2>2 DEF BaseInv, ConnTypeOK
        <4> QED BY <1>1, <1>2, <2>2, <2>4, <3>1, <3>2, <4>1, HostTypes
      <3>4. ASSUME NEW r \in Requests, device[r].state = "offered", Sending(r, "CLSE") PROVE cut' = "dispatched"
        BY <1>1, <1>4, <3>4 DEF Sending, BaseInv, CallInv, FrameInv, Frame
      <3> QED BY <1>1, <1>2, <2>2, <2>3, <2>4, <2>5, <3>2, <3>3, <3>4, Quiet
    <2> QED BY <2>6, <2>7
  <1> QED BY <1>3, <1>4

-----------------------------------------------------------------------------
(* The answer to a request.                                                *)

(* An answer fails or is dropped.                                          *)
LEMMA AnswerLost ==
    ASSUME BaseInv, NEW sent, Written(sent), sent # "ok", call.op = "answer"
    PROVE  BaseInv'
  <1>1. call.pc = "send" /\ call.after \in {"answered", "refused"}
    BY DEF BaseInv, CallInv, AnswerInv
  <1>2. /\ call' = Returns("err") /\ UNCHANGED <<handles, stored, got>>
        /\ IF sent = "gone"
           THEN /\ incoming' = NoIncoming /\ UNCHANGED queue /\ table' = Unreserved
           ELSE DropIncoming(table, queue)
    BY <1>1 DEF Written, AfterSend, Unreserved
  <1>3. table' = Unreserved /\ incoming' = NoIncoming
        /\ (queue' = <<incoming.pending>> \o queue \/ (queue' = queue /\ gone'))
    BY <1>2, HeldIs DEF DropIncoming, Unreserved, Written
  <1>4. /\ UNCHANGED <<ack, scenario, stored, next_local_id, handles, got, in>>
        /\ gone' = gone /\ garbled' = FALSE /\ (~desync' => gone')
        /\ device' = device \/ (desync' /\ ~desync /\ device' = DeviceGets(call.frame))
    BY <1>2 DEF Written, Abandoned
  <1> QED BY <1>2, <1>3, <1>4, WrittenFlags, IncomingGoes

(* A refusal is out.                                                       *)
LEMMA AnswerRefused ==
    ASSUME BaseInv, Written("ok"), call.op = "answer", incoming.reserved = NoChannel
    PROVE  BaseInv'
  <1> DEFINE r == incoming.pending
  <1>1. call.pc = "send" /\ call.after \in {"answered", "refused"} /\ call.frame.cmd = "CLSE" /\ call.frame.remote = r
    BY DEF BaseInv, CallInv, AnswerInv
  <1>2. /\ incoming' = NoIncoming /\ UNCHANGED <<table, queue, handles, stored, got>>
        /\ \E x \in {"ok", "err", "dropped"} : call' = Returns(x)
    BY <1>1 DEF Written, AfterSend
  <1>3. /\ UNCHANGED <<ack, scenario, next_local_id, in, gone, cut>>
        /\ ~desync /\ ~desync' /\ desync' \in BOOLEAN /\ garbled' = FALSE
        /\ device' = [device EXCEPT ![r].state = "closed"]
    BY <1>1 DEF Written, DeviceGets
  <1>4. /\ r \in Requests /\ r \in Ids /\ r # 0 /\ device[r].state \in {"offered", "closed"} /\ ~In(queue, r)
        /\ ~OnWire(r) /\ Len(queue) + 1 <= scenario.channels
    BY <1>3, HeldIs
  <1>5. device \in [Ids -> DeviceEnds]
    BY DEF BaseInv, ConnTypeOK
  <1>6. \A d \in Ids : /\ d # r => device'[d] = device[d]
                       /\ device'[d].local = device[d].local /\ device'[d] \in DeviceEnds
    BY <1>3, <1>4, <1>5 DEF DeviceEnds
  <1>7. device'[r].state = "closed" /\ device' \in [Ids -> DeviceEnds]
    BY <1>3, <1>4, <1>5, <1>6, SMTT(60) DEF DeviceEnds
  <1>8. Positions' = Positions /\ SlotsInv' /\ SameTable
    BY <1>2, <1>3, TypesKept, SameSlots
  <1>9. \A c \in Ids : Forward(device[c].state, device'[c].state)
    BY <1>4, <1>6, <1>7 DEF Forward
  <1>10. \A i \in Positions : incoming.reserved # [slot |-> i, local |-> table[i].local]
    <2>1. \A i \in Positions : i # 0
      BY ConnectionAssumption DEF Positions, BaseInv, ConnTypeOK
    <2> QED BY <2>1 DEF NoChannel
  <1>11. IdsInv'
    <2>1. EndsInv'
      BY <1>3, <1>6, <1>9 DEF Forward, BaseInv, IdsInv, EndsInv
    <2>2. \A i \in Positions : table[i].local # 0 => table[i].remote \in Ids
      BY DEF BaseInv, SlotsInv, SlotOK
    <2>3. TableInv'
      BY <1>2, <1>6, <1>8, <1>9, <1>10, <2>2 DEF Forward, BaseInv, IdsInv, TableInv
    <2>4. HandlesInv'
      BY <1>2, <1>3, <1>6, <1>8, <1>9, ChannelOf DEF Forward, BaseInv, IdsInv, HandlesInv
    <2>5. OwnersInv'
      BY <1>2, <1>8, <1>10 DEF BaseInv, IdsInv, OwnersInv
    <2> QED BY <2>1, <2>3, <2>4, <2>5 DEF IdsInv
  <1>12. PacketsInv'
    <2>1. ASSUME NEW k \in DOMAIN in PROVE PacketOK(in[k])'
      <3>1. PacketOK(in[k]) /\ in[k].remote \in Ids
        BY PacketTypes DEF BaseInv, PacketsInv
      <3> QED BY <1>3, <1>6, <1>9, <3>1 DEF PacketOK, Forward
    <2> QED BY <1>3, <2>1 DEF PacketsInv
  <1>13. \A q : (OnWire(q)' <=> OnWire(q)) /\ (HasSlot(q)' <=> HasSlot(q))
    BY <1>2, <1>3, <1>8, KeepSlots DEF OnWire
  <1>14. incoming'.pending = 0 /\ \A q \in Requests : q # 0 /\ q \in Ids
    BY <1>2, IdsAre DEF NoIncoming
  <1>15. PlacesInv'
    <2>1. Len(queue) \in Nat /\ scenario.channels \in Nat
      BY ConnectionAssumption DEF BaseInv, ConnTypeOK
    <2>2. Len(queue) + 0 <= scenario.channels
      BY <1>4, <2>1
    <2> HIDE DEF r
    <2> QED BY <1>2, <1>3, <1>6, <1>8, <1>9, <1>13, <1>14, <2>2 DEF Forward, BaseInv, PlacesInv
  <1>16. CallInv' /\ call' \in CallStates /\ call'.pc = "idle"
    BY <1>2, CallReturns, ReturnsIs DEF BaseInv
  <1>17. DesyncInv'
    BY <1>3 DEF BaseInv, DesyncInv
  <1>18. ConnTypeOK'
    <2>1. incoming' \in [pending : Requests \cup {0}, reserved : ChannelIds]
      BY <1>2, NoCallIs DEF NoIncoming, BaseInv, ConnTypeOK, CallStates
    <2> QED BY <1>2, <1>3, <1>7, <1>16, <2>1, TypesKept DEF BaseInv, ConnTypeOK
  <1>19. \A c : Sending(c, "CLSE") => c = r
    BY <1>1 DEF Sending
  <1>20. OrphanInv'
    <2> HIDE DEF r
    <2> QED BY <1>3, <1>6, <1>7, <1>13, <1>19 DEF BaseInv, OrphanInv
  <1>21. LostInv'
    BY <1>2, <1>3, <1>6, <1>7, <1>13, <1>14, <1>19 DEF BaseInv, LostInv
  <1> QED BY <1>8, <1>11, <1>12, <1>15, <1>16, <1>17, <1>18, <1>20, <1>21 DEF BaseInv

(* The READY that accepts a request is out.                                *)
LEMMA AnswerReady ==
    ASSUME BaseInv, Written("ok"), call.op = "answer", incoming.reserved # NoChannel
    PROVE  BaseInv'
  <1> DEFINE r == incoming.pending
             ch == incoming.reserved
             l == ch.local
             h == Handle(ch, r)
  <1>1. /\ call.pc = "send" /\ call.after = "answered" /\ call.frame = Frame("READY", l, r, credit)
        /\ ch.slot \in Positions /\ l # 0 /\ table[ch.slot] = accepted(l, r, Grant, ack)
        /\ \A g \in handles : g.local # l
        /\ \A c \in Ids : device[c].local # l
    BY DEF BaseInv, CallInv, AnswerInv
  <1>2. /\ incoming' = NoIncoming /\ UNCHANGED <<table, queue, stored, got>>
        /\ handles' = handles \cup {h} /\ call' = Returns("ok")
    BY <1>1 DEF Written, AfterSend
  <1>3. /\ UNCHANGED <<ack, scenario, next_local_id, in, gone, cut>>
        /\ ~desync /\ ~desync' /\ desync' \in BOOLEAN /\ garbled' = FALSE
    BY DEF Written
  <1>4. device' = IF device[r].state # "offered" THEN device
                  ELSE [device EXCEPT ![r] = [@ EXCEPT !.state = "open", !.local = l,
                                                !.asb = IF ack = "Delayed" THEN credit ELSE 1]]
    BY <1>1 DEF Written, DeviceGets, Frame
  <1>5. /\ r \in Requests /\ r \in Ids /\ r # 0 /\ device[r].state \in {"offered", "closed"} /\ ~In(queue, r)
        /\ ~OnWire(r) /\ Len(queue) + 1 <= scenario.channels /\ device[r].local = 0
        /\ table[ch.slot].local = l /\ table[ch.slot].remote = r /\ Live(ch.slot)
    BY <1>3, HeldIs
  <1>6. l < next_local_id /\ l \in 1 .. MaxLocal /\ l \in 0 .. MaxLocal
    <2>1. l \in 1 .. MaxLocal /\ l < next_local_id
      BY <1>5, LiveIs
    <2> QED BY <2>1
  <1>7. device \in [Ids -> DeviceEnds] /\ credit \in Nat
    BY Limits DEF BaseInv, ConnTypeOK
  <1>8. /\ device' \in [Ids -> DeviceEnds] /\ \A d \in Ids : d # r => device'[d] = device[d]
        /\ \/ device[r].state = "closed" /\ device'[r] = device[r]
           \/ device[r].state = "offered" /\ device'[r].state = "open" /\ device'[r].local = l
    <2>1. CASE device[r].state # "offered"
      BY <1>4, <1>5, <1>7, <2>1
    <2>2. CASE device[r].state = "offered"
      <3> DEFINE e == [device[r] EXCEPT !.state = "open", !.local = l, !.asb = IF ack = "Delayed" THEN credit ELSE 1]
      <3>1. e \in DeviceEnds /\ e.local = l /\ e.state = "open"
        <4>1. device[r] \in DeviceEnds /\ (IF ack = "Delayed" THEN credit ELSE 1) \in Int
          BY <1>5, <1>7
        <4> HIDE DEF l, r
        <4> QED BY <1>6, <4>1 DEF DeviceEnds
      <3>2. device' = [device EXCEPT ![r] = e]
        <4> HIDE DEF l
        <4> QED BY <1>4, <1>5, <1>7, <2>2
      <3> HIDE DEF e, l, r
      <3> QED BY <1>5, <1>7, <2>2, <3>1, <3>2
    <2> QED BY <2>1, <2>2
  <1>9. Positions' = Positions /\ SlotsInv' /\ SameTable
    BY <1>2, <1>3, TypesKept, SameSlots
  <1>10. h.slot = ch.slot /\ h.local = l /\ h.remote = r
    BY DEF Handle
  <1> HIDE DEF h
  <1>11. \A i \in Positions : table[i].local = l => i = ch.slot
    BY <1>1, <1>5 DEF BaseInv, IdsInv, TableInv
  <1>12. IdsInv'
    <2>1. EndsInv'
      <3> HIDE DEF r, l
      <3> QED BY <1>1, <1>3, <1>5, <1>6, <1>8 DEF BaseInv, IdsInv, EndsInv
    <2>2. \A i \in Positions : table[i].local # 0 => table[i].remote \in Ids /\ (table[i].remote = r => i = ch.slot)
      BY <1>1, <1>5 DEF BaseInv, SlotsInv, SlotOK, IdsInv, TableInv
    <2>3. TableInv'
      <3>1. ASSUME NEW i \in Positions, table[i].local # 0
            PROVE  /\ device'[table[i].remote].local \in {0, table[i].local}
                   /\ device'[table[i].remote].state \in {"offered", "open", "closed"}
                   /\ \A c \in Ids : device'[c].local = table[i].local => c = table[i].remote
        <4>0. ch = [slot |-> i, local |-> table[i].local] => i = ch.slot
          OBVIOUS
        <4>1. /\ device[table[i].remote].local \in {0, table[i].local} \/ i = ch.slot
              /\ device[table[i].remote].state \in {"offered", "open", "closed"}
              /\ \A c \in Ids : device[c].local = table[i].local => c = table[i].remote
          BY <3>1, <4>0 DEF BaseInv, IdsInv, TableInv
        <4>2. CASE i = ch.slot
          <5>1. table[i].local = l /\ table[i].remote = r
            BY <1>5, <4>2
          <5> HIDE DEF r, l, ch
          <5> QED BY <1>1, <1>5, <1>8, <5>1
        <4>3. CASE i # ch.slot
          <5>1. table[i].remote # r /\ table[i].local # l /\ table[i].remote \in Ids
            BY <1>11, <2>2, <3>1, <4>3
          <5>2. device'[table[i].remote] = device[table[i].remote]
            BY <1>8, <5>1
          <5>3. \A c \in Ids : device'[c].local = table[i].local => device[c].local = table[i].local
            <6> HIDE DEF r, l
            <6> QED BY <1>8, <5>1
          <5> HIDE DEF r, l, ch
          <5> QED BY <4>1, <4>3, <5>2, <5>3
        <4> QED BY <4>2, <4>3
      <3> QED BY <1>2, <1>9, <3>1 DEF BaseInv, IdsInv, TableInv
    <2>4. HandlesInv'
      <3>1. \A g \in handles : g.remote \in Ids /\ device'[g.remote].state \in {"open", "closed"}
        BY <1>8, ChannelOf DEF BaseInv, IdsInv, HandlesInv
      <3>2. device'[h.remote].state \in {"open", "closed"} /\ h.local < next_local_id
        BY <1>6, <1>8, <1>10
      <3>3. \A i \in Positions : table[i].local = h.local => i = h.slot /\ table[i].remote = h.remote
        BY <1>5, <1>10, <1>11
      <3> HIDE DEF r, l, ch
      <3> QED BY <1>1, <1>2, <1>3, <1>9, <1>10, <3>1, <3>2, <3>3 DEF BaseInv, IdsInv, HandlesInv
    <2>5. OwnersInv'
      <3>1. ASSUME NEW i \in Positions, table[i].local # 0
            PROVE  \E g \in handles' : g.slot = i /\ g.local = table[i].local
        <4>1. CASE \E g \in handles : g.slot = i /\ g.local = table[i].local
          BY <1>2, <4>1
        <4>2. CASE ch = [slot |-> i, local |-> table[i].local]
          BY <1>2, <1>10, <4>2
        <4> QED BY <3>1, <4>1, <4>2 DEF BaseInv, IdsInv, OwnersInv
      <3> QED BY <1>2, <1>9, <3>1 DEF OwnersInv
    <2> QED BY <2>1, <2>3, <2>4, <2>5 DEF IdsInv
  <1>13. PacketsInv'
    <2>1. ASSUME NEW k \in DOMAIN in PROVE PacketOK(in[k])'
      <3>1. PacketOK(in[k]) /\ in[k].remote \in Ids
        BY PacketTypes DEF BaseInv, PacketsInv
      <3>2. in[k].remote = r => device[r].state # "offered"
        BY <1>5, <3>1 DEF PacketOK, OnWire
      <3>3. device'[in[k].remote] = device[in[k].remote]
        <4> HIDE DEF r, l
        <4> QED BY <1>8, <3>1, <3>2
      <3> QED BY <1>3, <3>1, <3>3 DEF PacketOK
    <2> QED BY <1>3, <2>1 DEF PacketsInv
  <1>14. \A q : (OnWire(q)' <=> OnWire(q)) /\ (HasSlot(q)' <=> HasSlot(q))
    BY <1>2, <1>3, <1>9, KeepSlots DEF OnWire
  <1>15. incoming'.pending = 0 /\ \A q \in Requests : q # 0 /\ q \in Ids
    BY <1>2, IdsAre DEF NoIncoming
  <1>16. PlacesInv'
    <2>1. Len(queue) \in Nat /\ scenario.channels \in Nat
      BY ConnectionAssumption DEF BaseInv, ConnTypeOK
    <2>2. Len(queue) + 0 <= scenario.channels
      BY <1>5, <2>1
    <2>3. \A q : In(queue, q) => q # r
      BY <1>5
    <2> HIDE DEF r, l, ch
    <2> QED BY <1>2, <1>3, <1>8, <1>9, <1>14, <1>15, <2>2, <2>3 DEF BaseInv, PlacesInv
  <1>17. CallInv' /\ call' \in CallStates /\ call'.pc = "idle"
    BY <1>2, CallReturns, ReturnsIs DEF BaseInv
  <1>18. DesyncInv'
    BY <1>3 DEF BaseInv, DesyncInv
  <1>19. ConnTypeOK'
    <2>1. incoming' \in [pending : Requests \cup {0}, reserved : ChannelIds]
      BY <1>2, NoCallIs DEF NoIncoming, BaseInv, ConnTypeOK, CallStates
    <2>2. h \in [slot : Positions, local : 1 .. MaxLocal, remote : Ids]
      BY <1>1, <1>5, <1>6 DEF h, Handle
    <2> HIDE DEF r, l, ch
    <2> QED BY <1>2, <1>3, <1>8, <1>17, <2>1, <2>2, TypesKept DEF BaseInv, ConnTypeOK
  <1>20. \A c : ~Sending(c, "CLSE")
    BY <1>1 DEF Sending, Frame
  <1>21. HasSlot(r)
    BY <1>1, <1>5 DEF HasSlot, Live
  <1>22. OrphanInv'
    <2> HIDE DEF r, l, ch
    <2> QED BY <1>3, <1>8, <1>14, <1>20, <1>21 DEF BaseInv, OrphanInv
  <1>23. LostInv'
    <2>1. device'[r].state # "offered"
      <3> HIDE DEF r, l, ch
      <3> QED BY <1>8
    <2>2. \A q \in Requests : device'[q].state = "offered" => device[q].state = "offered" /\ incoming.pending # q
      <3>1. \A q \in Requests : device'[q].state = "offered" => q # r
        BY <2>1
      <3> QED BY <1>8, <1>15, <3>1
    <2> HIDE DEF r, l, ch
    <2> QED BY <1>2, <1>3, <1>14, <1>20, <2>2 DEF BaseInv, LostInv
  <1> QED BY <1>9, <1>12, <1>13, <1>16, <1>17, <1>18, <1>19, <1>22, <1>23 DEF BaseInv

(* Every write.                                                            *)
LEMMA SendStep ==
    ASSUME BaseInv, Send \/ SendFails
    PROVE  BaseInv'
  <1>1. PICK sent \in {"ok", "gone", "failed"} : Written(sent)
    BY SendIs
  <1>2. call.pc = "send"
    BY <1>1 DEF Written
  <1>3. CASE call.op = "answer"
    BY <1>1, <1>3, AnswerLost, AnswerRefused, AnswerReady
  <1>4. CASE call.op # "answer"
    <2>1. \/ call.after \in {"taken", "delivered", "spent"}
          \/ call.after = "await"
          \/ call.after = "dispatched" /\ call.frame.cmd \in {"OKAY", "CLSE"}
          \/ call.after \in {"closed", "short"} /\ call.frame.cmd = "CLSE"
      BY <1>2, <1>4 DEF BaseInv, CallInv, FrameInv
    <2>2. \/ sent # "ok" /\ device' = device
          \/ sent # "gone" /\ device' = DeviceGets(call.frame)
      BY <1>1 DEF Written, Abandoned
    <2> QED BY <1>1, <1>4, <2>1, <2>2, AfterTaken, AfterSpent, AfterLost, AfterDispatched, CloseWritten, OpenWritten
  <1> QED BY <1>3, <1>4

-----------------------------------------------------------------------------
(* An id is given out.                                                     *)

(* ChannelTable::allocate finds a free place.                              *)
LEMMA AllocateIs ==
    ASSUME BaseInv, FreePositions # {}, next_local_id <= MaxLocal
    PROVE  /\ allocate \in ChannelIds /\ allocate.local = next_local_id /\ allocate.slot \in Positions
           /\ table[allocate.slot] = NoSlot /\ table[allocate.slot].local = 0 /\ allocate # NoChannel
           /\ next_local_id \in 1 .. MaxLocal /\ next_local_id # 0
           /\ next_local_id + 1 \in 1 .. MaxLocal + 1
           /\ \A i \in Positions : table[i].local # next_local_id
           /\ \A h \in handles : h.local # next_local_id
           /\ \A c \in Ids : device[c].local # next_local_id
  <1>1. scenario.channels \in Nat /\ next_local_id \in 1 .. MaxLocal + 1 /\ MaxLocal \in Nat
    BY ConnectionAssumption, IdsAre DEF BaseInv, ConnTypeOK
  <1>2. FreePositions \subseteq Nat
    BY <1>1 DEF FreePositions, Positions
  <1>3. first(FreePositions) \in FreePositions
    BY <1>2, FirstIs
  <1>4. /\ allocate.local = next_local_id /\ allocate.slot \in Positions /\ table[allocate.slot] = NoSlot
        /\ allocate = [slot |-> allocate.slot, local |-> next_local_id]
    BY <1>3 DEF allocate, FreePositions
  <1>5. /\ next_local_id \in 1 .. MaxLocal /\ next_local_id # 0 /\ next_local_id + 1 \in 1 .. MaxLocal + 1
        /\ next_local_id \in 0 .. MaxLocal /\ \A k \in 1 .. scenario.channels : k \in 0 .. scenario.channels
    BY <1>1
  <1>6. allocate \in ChannelIds /\ allocate # NoChannel
    BY <1>4, <1>5 DEF ChannelIds, Positions, NoChannel
  <1>7. \A i \in Positions : table[i].local # next_local_id
    <2>1. ASSUME NEW i \in Positions, table[i].local = next_local_id PROVE FALSE
      <3>1. table[i].local < next_local_id
        BY <1>5, <2>1 DEF BaseInv, SlotsInv, SlotOK
      <3> QED BY <1>5, <2>1, <3>1
    <2> QED BY <2>1
  <1>8. /\ \A h \in handles : h.local < next_local_id
        /\ \A c \in Ids : device[c].local < next_local_id
    BY DEF BaseInv, IdsInv, HandlesInv, EndsInv
  <1>9. /\ \A h \in handles : h.local # next_local_id
        /\ \A c \in Ids : device[c].local # next_local_id
    BY <1>5, <1>8
  <1> QED BY <1>4, <1>5, <1>6, <1>7, <1>9, NoSlotIs

(* With one more id, what is below the next one still is.                  *)
LEMMA NextId ==
    ASSUME BaseInv, next_local_id' = next_local_id + 1
    PROVE  /\ \A i \in Positions : table[i].local < next_local_id => table[i].local < next_local_id'
           /\ \A h \in handles : h.local < next_local_id'
           /\ \A c \in Ids : device[c].local < next_local_id'
  <1>1. /\ next_local_id \in Int /\ \A h \in handles : h.local \in Int
        /\ \A c \in Ids : device[c].local \in Int
        /\ \A i \in Positions : table[i].local \in Int
    <2>1. next_local_id \in Int /\ \A i \in Positions : table[i] \in Slots
      BY DEF BaseInv, ConnTypeOK
    <2>2. ASSUME NEW h \in handles PROVE h.local \in Int
      <3>1. h.local \in 1 .. MaxLocal
        BY ChannelOf DEF BaseInv
      <3> QED BY <3>1
    <2>3. \A c \in Ids : device[c] \in DeviceEnds
      BY DEF BaseInv, ConnTypeOK
    <2> QED BY <2>1, <2>2, <2>3 DEF Slots, DeviceEnds
  <1>2. /\ \A h \in handles : h.local < next_local_id
        /\ \A c \in Ids : device[c].local < next_local_id
    BY DEF BaseInv, IdsInv, HandlesInv, EndsInv
  <1> QED BY <1>1, <1>2

(* open_channel reserves its id and starts on the OPEN.                    *)
LEMMA OpenStart ==
    ASSUME BaseInv, StartOpen
    PROVE  BaseInv'
  <1> DEFINE n == next_local_id
             ch == allocate
             f == Frame("OPEN", n, 0, credit)
  <1>1. /\ call.pc = "idle" /\ ~desync /\ FreePositions # {} /\ n <= MaxLocal /\ Unused # {}
        /\ next_local_id' = n + 1
        /\ UNCHANGED <<ack, scenario, table, stored, queue, incoming, handles, got, wireVars>>
    BY DEF StartOpen
  <1>2. /\ ch \in ChannelIds /\ ch.local = n /\ ch.slot \in Positions /\ table[ch.slot].local = 0
        /\ n \in 1 .. MaxLocal /\ n # 0 /\ n + 1 \in 1 .. MaxLocal + 1
        /\ \A i \in Positions : table[i].local # n
        /\ \A h \in handles : h.local # n
        /\ \A c \in Ids : device[c].local # n
    BY <1>1, AllocateIs
  <1>3. f \in Frames
    <2>1. n \in 0 .. MaxLocal /\ credit \in Nat
      BY <1>2, Limits
    <2> QED BY <2>1, FramesAre
  <1>4. /\ call' \in CallStates /\ call'.op = "open" /\ call'.ch = ch /\ call'.pc = "send"
        /\ call'.after = "await" /\ call'.frame = f
    <2> DEFINE r == Starts("open", ch, 0)
    <2> HIDE DEF ch, f
    <2>1. r \in CallStates /\ r.op = "open" /\ r.ch = ch
      BY <1>2, StartsIs DEF Ops, BaseInv, ConnTypeOK
    <2>2. call' = [r EXCEPT !.pc = "send", !.after = "await", !.frame = f]
      BY DEF StartOpen, ch, f
    <2> HIDE DEF r
    <2> QED BY <1>3, <2>1, <2>2 DEF CallStates, Afters
  <1>5. incoming = NoIncoming
    BY <1>1 DEF BaseInv, CallInv, PcInv, AnswerInv
  <1>6. Positions' = Positions /\ Unused' = Unused /\ credit' = credit
    BY <1>1, TypesKept DEF Unused, credit, wireVars
  <1>7. next_local_id' > n /\ n < next_local_id'
    BY <1>1, <1>2
  <1>8. CallInv'
    <2>1. PcInv' /\ AnswerInv' /\ UseInv'
      BY <1>1, <1>4, <1>5 DEF PcInv, AnswerInv, UseInv
    <2>2. OpenInv'
      <3> HIDE DEF ch, f
      <3> QED BY <1>1, <1>2, <1>4, <1>6, <1>7 DEF OpenInv
    <2>3. FrameInv'
      <3>1. call'.frame = Frame("OPEN", call'.ch.local, 0, credit')
        BY <1>2, <1>4, <1>6
      <3>2. \A c \in Ids : device'[c].local # call'.ch.local
        BY <1>1, <1>2, <1>4 DEF wireVars
      <3> QED BY <1>1, <1>4, <1>6, <3>1, <3>2 DEF FrameInv
    <2> QED BY <2>1, <2>2, <2>3 DEF CallInv
  <1>9. SlotsInv'
    <2>1. ASSUME NEW i \in Positions PROVE SlotOK(i)'
      <3>1. SlotOK(i)
        BY DEF BaseInv, SlotsInv
      <3> QED BY <1>1, <3>1, NextId DEF SlotOK
    <2> QED BY <1>6, <2>1 DEF SlotsInv
  <1>10. IdsInv'
    <2>1. EndsInv'
      BY <1>1, NextId DEF BaseInv, IdsInv, EndsInv, wireVars
    <2>2. TableInv'
      BY <1>1, <1>6 DEF BaseInv, IdsInv, TableInv, wireVars
    <2>3. HandlesInv'
      BY <1>1, <1>6, NextId DEF BaseInv, IdsInv, HandlesInv, wireVars
    <2>4. OwnersInv'
      BY <1>1, <1>6 DEF BaseInv, IdsInv, OwnersInv
    <2> QED BY <2>1, <2>2, <2>3, <2>4 DEF IdsInv
  <1>11. InKept /\ SameDevice /\ SameTable /\ in' = in /\ scenario' = scenario
    BY <1>1 DEF InKept, SameDevice, SameTable, wireVars
  <1>12. PacketsInv'
    BY <1>11, KeepPackets DEF BaseInv
  <1>13. \A q : (OnWire(q)' <=> OnWire(q)) /\ (HasSlot(q)' <=> HasSlot(q))
    BY <1>11, KeepSlots DEF OnWire
  <1>14. PlacesInv'
    BY <1>1, <1>6, <1>13 DEF BaseInv, PlacesInv, wireVars
  <1>15. DesyncInv'
    BY <1>1 DEF BaseInv, DesyncInv, wireVars
  <1>16. ConnTypeOK'
    BY <1>1, <1>2, <1>4, TypesKept DEF BaseInv, ConnTypeOK, wireVars
  <1>17. \A c : ~Sending(c, "CLSE")
    BY <1>1 DEF Sending
  <1>18. OrphanInv' /\ LostInv'
    BY <1>1, <1>13, <1>17 DEF BaseInv, OrphanInv, LostInv, wireVars
  <1> QED BY <1>8, <1>9, <1>10, <1>12, <1>14, <1>15, <1>16, <1>18 DEF BaseInv

(* accept takes the first request of the queue.                            *)
LEMMA HandOverStep ==
    ASSUME BaseInv, HandOver
    PROVE  BaseInv'
  <1>1. /\ (queue # <<>> /\ call.pc = "idle") \/ (call.op = "accept" /\ call.pc = "top")
        /\ UNCHANGED <<ack, scenario, table, stored, next_local_id, handles, got, wireVars>>
    BY DEF HandOver
  <1>2. incoming = NoIncoming
    BY <1>1 DEF BaseInv, CallInv, PcInv, AnswerInv
  <1>3. CASE queue = <<>>
    <2>1. call.op = "accept" /\ call.pc = "top" /\ call' = [call EXCEPT !.pc = "recv"] /\ HostKept
      BY <1>1, <1>3 DEF HandOver, HostKept
    <2>2. ~desync /\ UNCHANGED <<got, wireVars>>
      BY <1>1, <2>1 DEF BaseInv, DesyncInv
    <2> QED BY <2>1, <2>2, Waits
  <1>4. CASE queue # <<>>
    <2> DEFINE r == Head(queue)
    <2>1. /\ call' = [Starts("accept", NoChannel, 0) EXCEPT !.pc = "held"]
          /\ incoming' = [NoIncoming EXCEPT !.pending = r]
          /\ queue' = Tail(queue)
      BY <1>4 DEF HandOver
    <2>2. queue \in Seq(Requests) /\ Once(queue)
      BY DEF BaseInv, ConnTypeOK, PlacesInv
    <2>3. /\ r \in Requests /\ queue' \in Seq(Requests) /\ Once(queue') /\ Len(queue') = Len(queue) - 1
          /\ In(queue, r) /\ ~In(queue', r) /\ Len(queue) \in Nat
          /\ \A x : x # r => (In(queue', x) <=> In(queue, x))
      BY <1>4, <2>1, <2>2, TailOnce
    <2> HIDE DEF r
    <2>4. incoming'.pending = r /\ incoming'.reserved = NoChannel /\ incoming.pending = 0 /\ incoming.reserved = NoChannel
      BY <1>2, <2>1 DEF NoIncoming
    <2>5. r # 0 /\ r \in Ids
      BY <2>3, IdsAre
    <2>6. /\ call' \in CallStates /\ call'.op = "accept" /\ call'.pc = "held"
      <3>1. NoChannel \in ChannelIds /\ scenario \in Scenarios
        BY NoCallIs DEF BaseInv, ConnTypeOK, CallStates
      <3>2. Starts("accept", NoChannel, 0) \in CallStates /\ Starts("accept", NoChannel, 0).op = "accept"
        BY <3>1, StartsIs DEF Ops
      <3> QED BY <2>1, <3>2 DEF CallStates
    <2>7. CallInv'
      BY <2>4, <2>5, <2>6 DEF CallInv, PcInv, AnswerInv, OpenInv, UseInv, FrameInv
    <2>8. /\ InKept /\ SameDevice /\ SameTable /\ in' = in /\ Positions' = Positions
          /\ UNCHANGED <<ack, scenario, next_local_id, table, stored>>
      BY <1>1, TypesKept DEF InKept, SameDevice, SameTable, wireVars
    <2>9. SlotsInv' /\ PacketsInv'
      BY <2>8, SameSlots, KeepPackets DEF BaseInv
    <2>10. IdsInv'
      <3>1. EndsInv' /\ TableInv' /\ HandlesInv'
        BY <1>1, <2>4, <2>8 DEF BaseInv, IdsInv, EndsInv, TableInv, HandlesInv, wireVars
      <3>2. OwnersInv'
        BY <1>1, <2>4, <2>8 DEF BaseInv, IdsInv, OwnersInv
      <3> QED BY <3>1, <3>2 DEF IdsInv
    <2>11. \A q : (OnWire(q)' <=> OnWire(q)) /\ (HasSlot(q)' <=> HasSlot(q))
      BY <2>8, KeepSlots DEF OnWire
    <2>12. PlacesInv'
      <3>1. Len(queue') + 1 <= scenario.channels
        <4>1. Len(queue) + 0 <= scenario.channels /\ scenario.channels \in Nat
          BY <2>4, ConnectionAssumption DEF BaseInv, PlacesInv, ConnTypeOK
        <4> QED BY <2>3, <4>1
      <3>2. /\ ~OnWire(r) /\ ~HasSlot(r) /\ device[r].state \in {"offered", "open", "closed"}
            /\ ~desync => device[r].local = 0 /\ device[r].state # "open"
        BY <2>3 DEF BaseInv, PlacesInv
      <3>3. ASSUME NEW q \in Requests
            PROVE  /\ OnWire(q)' => ~In(queue', q) /\ r # q /\ ~HasSlot(q)'
                   /\ In(queue', q) => r # q /\ ~HasSlot(q)'
                   /\ In(queue', q) \/ r = q =>
                        /\ device'[q].state \in {"offered", "open", "closed"}
                        /\ ~desync' => device'[q].local = 0 /\ device'[q].state # "open"
                   /\ r = q => ~HasSlot(q)'
        <4>1. device' = device /\ desync' = desync
          BY <1>1 DEF wireVars
        <4>2. CASE q = r
          BY <2>3, <2>11, <3>2, <4>1, <4>2
        <4>3. CASE q # r
          BY <2>3, <2>11, <4>1, <4>3 DEF BaseInv, PlacesInv
        <4> QED BY <4>2, <4>3
      <3>4. \A q \in Requests : r = q => \A i \in Positions' : ~(table'[i].local # 0 /\ table'[i].remote = q)
        BY <3>3 DEF HasSlot
      <3> QED BY <1>1, <2>3, <2>4, <2>5, <2>8, <3>1, <3>3, <3>4 DEF BaseInv, PlacesInv
    <2>13. DesyncInv'
      BY <1>1, <2>6 DEF BaseInv, DesyncInv, wireVars
    <2>14. ConnTypeOK'
      <3>1. incoming' \in [pending : Requests \cup {0}, reserved : ChannelIds]
        BY <2>1, <2>3, NoCallIs DEF NoIncoming, BaseInv, ConnTypeOK, CallStates
      <3> QED BY <1>1, <2>3, <2>6, <3>1, TypesKept DEF BaseInv, ConnTypeOK, wireVars
    <2>15. \A c : ~Sending(c, "CLSE")
      BY <1>1 DEF Sending
    <2>16. OrphanInv'
      BY <1>1, <2>11, <2>15 DEF BaseInv, OrphanInv, wireVars
    <2>17. LostInv'
      <3>1. \A q \in Requests : In(queue, q) \/ incoming.pending = q => In(queue', q) \/ incoming'.pending = q
        BY <2>3, <2>4, IdsAre
      <3> QED BY <1>1, <2>11, <2>15, <3>1 DEF BaseInv, LostInv, wireVars
    <2> QED BY <2>7, <2>9, <2>10, <2>12, <2>13, <2>14, <2>16, <2>17 DEF BaseInv
  <1> QED BY <1>3, <1>4

-----------------------------------------------------------------------------
(* A request is accepted.                                                  *)

(* Incoming::accept with no place left refuses.                            *)
LEMMA AcceptFull ==
    ASSUME BaseInv, Accept, FreePositions = {}
    PROVE  BaseInv'
  <1> DEFINE q == incoming.pending
  <1>1. call.pc = "held" /\ HostKept /\ UNCHANGED <<got, wireVars>>
        /\ call' = [Starts("answer", NoChannel, 0) EXCEPT !.pc = "send", !.frame = refuse(q), !.after = "refused"]
    BY DEF Accept, HostKept
  <1>2. NoChannel \in ChannelIds /\ scenario \in Scenarios
    BY NoCallIs DEF BaseInv, ConnTypeOK, CallStates
  <1>3. q \in Requests /\ incoming.reserved = NoChannel /\ q # 0
    BY <1>1 DEF BaseInv, ConnTypeOK, CallInv, AnswerInv
  <1>4. refuse(q) \in Frames /\ refuse(q).cmd = "CLSE" /\ refuse(q).remote = q
    BY <1>3, IdsAre, RefuseIs
  <1>5. call' \in CallStates /\ call'.op = "answer" /\ call'.pc = "send" /\ call'.after = "refused"
        /\ call'.frame = refuse(q)
    <2> DEFINE r == Starts("answer", NoChannel, 0)
    <2>1. r \in CallStates /\ r.op = "answer"
      BY <1>2, StartsIs DEF Ops
    <2> HIDE DEF r
    <2>2. call' = [r EXCEPT !.pc = "send", !.frame = refuse(q), !.after = "refused"]
      BY <1>1 DEF r
    <2> QED BY <1>4, <2>1, <2>2 DEF CallStates, Afters
  <1>6. CallInv'
    BY <1>1, <1>3, <1>4, <1>5 DEF CallInv, PcInv, AnswerInv, OpenInv, FrameInv, UseInv, HostKept
  <1> QED BY <1>1, <1>5, <1>6, CallOnly

(* The slot of an accepted request.                                        *)
LEMMA AcceptedIs ==
    ASSUME NEW l, NEW q, NEW n, NEW m, NEW t, t = accepted(l, q, n, m),
           m \in {"Classic", "Delayed"}, l \in Nat, q \in Nat, n \in Nat
    PROVE  /\ t \in Slots /\ t.local = l /\ t.remote = q /\ t.ack = m /\ t.state = "Open"
           /\ t.rx_buf = 0 /\ t.settled = 0 /\ t.unacked = 0 /\ held(t) = 0 /\ t.wrte_acked
           /\ t.send_budget = IF m = "Delayed" THEN n ELSE 0
  <1> DEFINE b == IF m = "Delayed" THEN n ELSE 0
             o == opening(l, m)
  <1>1. b \in Int
    OBVIOUS
  <1>2. o \in Slots /\ o.local = l /\ o.ack = m /\ o.rx_buf = 0 /\ o.settled = 0 /\ o.unacked = 0 /\ o.wrte_acked = TRUE
    BY DEF opening, NoRemote, Slots
  <1>3. t = [o EXCEPT !.remote = q, !.state = "Open", !.send_budget = b]
    BY DEF accepted
  <1> HIDE DEF b, o
  <1>4. /\ t \in Slots /\ t.local = l /\ t.remote = q /\ t.ack = m /\ t.state = "Open"
        /\ t.rx_buf = 0 /\ t.settled = 0 /\ t.unacked = 0 /\ t.wrte_acked = TRUE /\ t.send_budget = b
    BY <1>1, <1>2, <1>3 DEF Slots
  <1>5. held(t) = 0
    BY <1>4 DEF held
  <1> QED BY <1>4, <1>5 DEF b

(* Incoming::accept with a place left reserves it and starts on the READY. *)
LEMMA AcceptFree ==
    ASSUME BaseInv, Accept, FreePositions # {}
    PROVE  BaseInv'
  <1> DEFINE q == incoming.pending
             ch == allocate
             n == next_local_id
             t == accepted(n, q, Grant, ack)
             f == Frame("READY", n, q, credit)
  <1>1. /\ call.pc = "held" /\ n <= MaxLocal
        /\ table' = [table EXCEPT ![ch.slot] = t] /\ next_local_id' = n + 1
        /\ incoming' = [incoming EXCEPT !.reserved = ch]
        /\ call' = [Starts("answer", ch, 0) EXCEPT !.pc = "send", !.after = "answered", !.frame = f]
        /\ UNCHANGED <<ack, scenario, stored, queue, handles, got, wireVars>>
    BY DEF Accept
  <1>2. /\ ch \in ChannelIds /\ ch.local = n /\ ch.slot \in Positions /\ table[ch.slot] = NoSlot
        /\ table[ch.slot].local = 0 /\ ch # NoChannel
        /\ n \in 1 .. MaxLocal /\ n # 0 /\ n + 1 \in 1 .. MaxLocal + 1
        /\ \A i \in Positions : table[i].local # n
        /\ \A h \in handles : h.local # n
        /\ \A c \in Ids : device[c].local # n
    BY <1>1, AllocateIs
  <1>3. /\ q \in Requests /\ q \in Ids /\ q # 0 /\ incoming.reserved = NoChannel
        /\ device[q].state \in {"offered", "open", "closed"}
        /\ ~desync => device[q].local = 0 /\ device[q].state # "open"
        /\ ~In(queue, q) /\ ~OnWire(q) /\ Len(queue) + 1 <= scenario.channels
    BY <1>1, HeldIs DEF BaseInv, CallInv, AnswerInv
  <1>4. \A i \in Positions : table[i].local # 0 => table[i].remote # q
    <2>1. \A i \in Positions : NoChannel # [slot |-> i, local |-> table[i].local]
      <3>1. \A i \in Positions : i # 0
        BY ConnectionAssumption DEF Positions, BaseInv, ConnTypeOK
      <3> QED BY <3>1 DEF NoChannel
    <2> QED BY <1>3, <2>1 DEF BaseInv, PlacesInv
  <1>5. /\ t \in Slots /\ t.local = n /\ t.remote = q /\ t.ack = ack /\ t.state = "Open"
        /\ t.rx_buf = 0 /\ t.settled = 0 /\ held(t) = 0
    <2>1. ack \in {"Classic", "Delayed"}
      BY ConfigAssumption DEF BaseInv, ConnTypeOK
    <2>2. n \in Nat /\ q \in Nat /\ Grant \in Nat
      <3>1. n \in 1 .. MaxLocal /\ q \in Ids
        BY <1>2, <1>3
      <3> HIDE DEF n, q
      <3> QED BY <3>1, IdsAre
    <2>3. t = accepted(n, q, Grant, ack)
      OBVIOUS
    <2> HIDE DEF n, q, t
    <2> QED BY <2>1, <2>2, <2>3, AcceptedIs
  <1> HIDE DEF t
  <1>6. table \in [Positions -> Slots] /\ stored \in [Positions -> Seq(Bytes)]
    BY DEF BaseInv, ConnTypeOK
  <1>7. /\ table' \in [Positions -> Slots] /\ table'[ch.slot] = t
        /\ \A i \in Positions : i # ch.slot => table'[i] = table[i]
    BY <1>1, <1>2, <1>5, <1>6
  <1>8. f \in Frames /\ f.cmd = "READY" /\ f.remote = q
    <2>1. n \in 0 .. MaxLocal /\ credit \in Nat
      BY <1>2, Limits
    <2> QED BY <1>3, <2>1, FramesAre
  <1>9. /\ call' \in CallStates /\ call'.op = "answer" /\ call'.pc = "send"
        /\ call'.after = "answered" /\ call'.frame = f
    <2> DEFINE r == Starts("answer", ch, 0)
    <2> HIDE DEF ch, f
    <2>1. r \in CallStates /\ r.op = "answer"
      BY <1>2, StartsIs DEF Ops, BaseInv, ConnTypeOK
    <2>2. call' = [r EXCEPT !.pc = "send", !.after = "answered", !.frame = f]
      BY <1>1 DEF r
    <2> HIDE DEF r
    <2> QED BY <1>8, <2>1, <2>2 DEF CallStates, Afters
  <1> HIDE DEF ch
  <1>10. /\ incoming'.pending = q /\ incoming'.reserved = ch
         /\ incoming' \in [pending : Requests \cup {0}, reserved : ChannelIds]
    BY <1>1, <1>2 DEF BaseInv, ConnTypeOK
  <1>11. Positions' = Positions /\ credit' = credit /\ next_local_id' > n /\ n < next_local_id'
    BY <1>1, <1>2, TypesKept DEF credit
  <1>12. CallInv'
    <2>1. PcInv' /\ OpenInv' /\ UseInv' /\ FrameInv'
      BY <1>9 DEF PcInv, OpenInv, UseInv, FrameInv
    <2>2. call'.frame = Frame("READY", ch.local, incoming'.pending, credit')
      BY <1>2, <1>9, <1>10, <1>11
    <2>3. table'[ch.slot] = accepted(ch.local, incoming'.pending, Grant, ack')
      BY <1>1, <1>2, <1>7, <1>10 DEF t
    <2>4. call'.frame.remote = incoming'.pending
      BY <1>8, <1>9, <1>10
    <2>5. AnswerInv'
      <3> HIDE DEF f, q, n
      <3>1. incoming'.pending # 0
        BY <1>3, <1>10
      <3>2. ch.slot \in Positions' /\ ch.local # 0 /\ (\A h \in handles' : h.local # ch.local)
            /\ \A c \in Ids : device'[c].local # ch.local
        BY <1>1, <1>2, <1>11 DEF wireVars
      <3>3. incoming' # NoIncoming /\ incoming'.reserved # NoChannel
        BY <1>2, <1>10, <3>1 DEF NoIncoming
      <3> QED BY <1>9, <1>10, <2>2, <2>3, <2>4, <3>1, <3>2, <3>3 DEF AnswerInv
    <2> QED BY <2>1, <2>5 DEF CallInv
  <1>13. SlotsInv'
    <2>1. ASSUME NEW i \in Positions, i # ch.slot PROVE SlotOK(i)'
      <3>1. SlotOK(i)
        BY DEF BaseInv, SlotsInv
      <3> QED BY <1>1, <1>7, <2>1, <3>1, NextId DEF SlotOK
    <2>2. ASSUME NEW i, i = ch.slot PROVE SlotOK(i)'
      <3>1. Len(stored[i]) = 0
        BY <1>2, <2>2, NoSlotIs DEF BaseInv, SlotsInv, SlotOK
      <3>2. held(t) <= rx_cap /\ t.settled <= t.rx_buf
        BY <1>5, Limits
      <3> HIDE DEF n, q
      <3> QED BY <1>1, <1>2, <1>3, <1>5, <1>7, <1>11, <2>2, <3>1, <3>2 DEF SlotOK
    <2> QED BY <1>11, <2>1, <2>2 DEF SlotsInv
  <1>14. \A i \in Positions : \/ i = ch.slot /\ table'[i].local = n /\ table'[i].remote = q
                              \/ i # ch.slot /\ table'[i].local = table[i].local /\ table'[i].remote = table[i].remote
    BY <1>5, <1>7
  <1>15. IdsInv'
    <2>1. EndsInv'
      BY <1>1, NextId DEF BaseInv, IdsInv, EndsInv, wireVars
    <2>2. TableInv'
      <3>1. \A i \in Positions : table'[i].remote = q => i = ch.slot \/ table[i].local = 0
        BY <1>4, <1>14
      <3>2. \A i \in Positions : table[i].local = 0 => table[i].remote = 0
        BY NoSlotIs DEF BaseInv, SlotsInv, SlotOK
      <3>3. ASSUME NEW i \in Positions, NEW j \in Positions, table'[i].local # 0
            PROVE  /\ table'[i].local = table'[j].local => i = j
                   /\ table'[i].remote = table'[j].remote => i = j
        <4>1. CASE i = ch.slot
          BY <1>2, <1>3, <1>4, <1>14, <3>2, <4>1
        <4>2. CASE i # ch.slot /\ j = ch.slot
          BY <1>2, <1>3, <1>4, <1>14, <3>2, <3>3, <4>2
        <4>3. CASE i # ch.slot /\ j # ch.slot
          BY <1>14, <3>3, <4>3 DEF BaseInv, IdsInv, TableInv
        <4> QED BY <4>1, <4>2, <4>3
      <3>4. ASSUME NEW i \in Positions, table'[i].local # 0
            PROVE  /\ \/ device[table'[i].remote].local \in {0, table'[i].local}
                      \/ ch = [slot |-> i, local |-> table'[i].local]
                   /\ device[table'[i].remote].state \in {"offered", "open", "closed"}
                   /\ \A c \in Ids : device[c].local = table'[i].local => c = table'[i].remote
        <4>1. CASE i = ch.slot
          BY <1>2, <1>3, <1>14, <4>1 DEF ChannelIds
        <4>2. CASE i # ch.slot
          BY <1>3, <1>14, <3>4, <4>2, PairedIs DEF BaseInv, IdsInv, TableInv
        <4> QED BY <4>1, <4>2
      <3>5. device' = device
        BY <1>1 DEF wireVars
      <3> QED BY <1>10, <1>11, <3>3, <3>4, <3>5 DEF TableInv
    <2>3. HandlesInv'
      <3>1. device' = device /\ handles' = handles
        BY <1>1 DEF wireVars
      <3>2. ASSUME NEW h \in handles, NEW i \in Positions, table'[i].local = h.local
            PROVE  i = h.slot /\ table'[i].remote = h.remote
        BY <1>2, <1>14, <3>2 DEF BaseInv, IdsInv, HandlesInv
      <3> QED BY <1>1, <1>11, <3>1, <3>2, NextId DEF BaseInv, IdsInv, HandlesInv
    <2>4. OwnersInv'
      <3>1. ASSUME NEW i \in Positions, table'[i].local # 0
            PROVE  \/ \E h \in handles : h.slot = i /\ h.local = table'[i].local
                   \/ incoming'.reserved = [slot |-> i, local |-> table'[i].local]
        <4>1. CASE i = ch.slot
          <5>1. ch = [slot |-> i, local |-> table'[i].local]
            BY <1>2, <1>14, <4>1 DEF ChannelIds
          <5> QED BY <1>10, <5>1
        <4>2. CASE i # ch.slot
          <5>1. NoChannel # [slot |-> i, local |-> table[i].local]
            <6>1. i # 0
              BY ConnectionAssumption DEF Positions, BaseInv, ConnTypeOK
            <6> QED BY <6>1 DEF NoChannel
          <5> QED BY <1>3, <1>14, <3>1, <4>2, <5>1 DEF BaseInv, IdsInv, OwnersInv
        <4> QED BY <4>1, <4>2
      <3> QED BY <1>1, <1>11, <3>1 DEF OwnersInv
    <2> QED BY <2>1, <2>2, <2>3, <2>4 DEF IdsInv
  <1>16. InKept /\ SameDevice /\ in' = in
    BY <1>1 DEF InKept, SameDevice, wireVars
  <1>17. PacketsInv'
    BY <1>16, KeepPackets DEF BaseInv
  <1>18. \A x : (OnWire(x)' <=> OnWire(x)) /\ (HasSlot(x) => HasSlot(x)') /\ (HasSlot(x)' => HasSlot(x) \/ x = q)
    BY <1>2, <1>11, <1>14, <1>16 DEF OnWire, HasSlot
  <1>19. PlacesInv'
    <2>1. ASSUME NEW r \in Requests
          PROVE  /\ OnWire(r)' => ~In(queue, r) /\ q # r /\ ~HasSlot(r)'
                 /\ In(queue, r) => q # r /\ ~HasSlot(r)'
                 /\ In(queue, r) \/ q = r =>
                      /\ device[r].state \in {"offered", "open", "closed"}
                      /\ ~desync => device[r].local = 0 /\ device[r].state # "open"
      BY <1>3, <1>18 DEF BaseInv, PlacesInv
    <2>2. ASSUME NEW i \in Positions, table'[i].local # 0, table'[i].remote = q
          PROVE  ch = [slot |-> i, local |-> table'[i].local]
      <3>1. i = ch.slot
        BY <1>4, <1>14, <2>2
      <3> QED BY <1>2, <1>14, <3>1 DEF ChannelIds
    <2>3. device' = device /\ queue' = queue /\ scenario' = scenario /\ desync' = desync
      BY <1>1 DEF wireVars
    <2> HIDE DEF q, n
    <2> QED BY <1>3, <1>10, <1>11, <1>16, <2>1, <2>2, <2>3 DEF BaseInv, PlacesInv
  <1>20. DesyncInv'
    BY <1>1, <1>9 DEF BaseInv, DesyncInv, wireVars
  <1>21. ConnTypeOK'
    BY <1>1, <1>2, <1>7, <1>9, <1>10, TypesKept DEF BaseInv, ConnTypeOK, wireVars
  <1>22. \A c : ~Sending(c, "CLSE")
    BY <1>1 DEF Sending
  <1>23. OrphanInv'
    BY <1>1, <1>18, <1>22 DEF BaseInv, OrphanInv, wireVars
  <1>24. LostInv'
    BY <1>1, <1>10, <1>18, <1>22 DEF BaseInv, LostInv, wireVars
  <1> QED BY <1>12, <1>13, <1>15, <1>17, <1>19, <1>20, <1>21, <1>23, <1>24 DEF BaseInv

(* Incoming::accept.                                                       *)
LEMMA AcceptStep ==
    ASSUME BaseInv, Accept
    PROVE  BaseInv'
  BY AcceptFull, AcceptFree

-----------------------------------------------------------------------------
(* The device.                                                             *)

(* The device sends a packet, and its channel's end follows.               *)
LEMMA DeviceStep ==
    ASSUME BaseInv, Moves, device' \in [Ids -> DeviceEnds], UNCHANGED <<hostVars, desync, gone, cut, garbled>>,
           NEW p \in Inbound, in' = Append(in, p), PacketOK(p)',
           p.cmd = "OPEN" => device[p.remote].state = "unused",
           \A c \in Ids : device'[c].state = "open" /\ device[c].state # "open" => p.cmd = "READY" /\ p.remote = c,
           \A c \in Ids : device'[c].state = "offered" /\ device[c].state # "offered" => p.cmd = "OPEN" /\ p.remote = c,
           \A c \in Opens : device'[c].state = "unused" <=> device[c].state = "unused"
    PROVE  BaseInv'
  <1>1. UNCHANGED <<ack, scenario, table, stored, next_local_id, queue, call, incoming, handles, got>>
    BY DEF Moves, hostVars
  <1>2. Positions' = Positions
    BY <1>1, TypesKept
  <1>3. SlotsInv' /\ SameTable
    BY <1>1, SameSlots
  <1>4. IdsInv'
    BY MoveIds DEF BaseInv
  <1>5. in \in Seq(Inbound) /\ p.remote \in Ids
    BY DEF BaseInv, ConnTypeOK, Inbound
  <1> DEFINE m == Len(in) + 1
  <1>6. /\ in' \in Seq(Inbound) /\ m \in DOMAIN in' /\ in'[m] = p
        /\ \A k \in DOMAIN in : k \in DOMAIN in' /\ in'[k] = in[k]
        /\ \A k \in DOMAIN in' : k \in DOMAIN in \/ k = m
    BY <1>5, AppendIs
  <1> HIDE DEF m
  <1>7. PacketsInv'
    <2>1. ASSUME NEW k \in DOMAIN in' PROVE PacketOK(in[k])'
      <3>1. CASE k \in DOMAIN in
        <4>1. in'[k] = in[k] /\ in[k].remote \in Ids /\ PacketOK(in[k])
          BY <1>6, <3>1, PacketTypes DEF BaseInv, PacketsInv
        <4>2. \A q : q = in[k] => PacketOK(q)'
          BY <4>1, MovePacket
        <4> QED BY <4>1, <4>2
      <3>2. CASE k = m
        BY <1>6, <3>2
      <3> QED BY <1>6, <2>1, <3>1, <3>2
    <2> QED BY <2>1 DEF PacketsInv
  <1>8. p.cmd = "OPEN" => /\ p.remote \in Requests /\ ~OnWire(p.remote) /\ ~In(queue, p.remote)
                          /\ incoming.pending # p.remote /\ ~HasSlot(p.remote)
    <2>1. ASSUME p.cmd = "OPEN"
          PROVE  /\ p.remote \in Requests /\ ~OnWire(p.remote) /\ ~In(queue, p.remote)
                 /\ incoming.pending # p.remote /\ ~HasSlot(p.remote)
      <3>1. p.remote \in Requests /\ device[p.remote].state = "unused"
        BY <2>1 DEF PacketOK
      <3>2. ~OnWire(p.remote)
        BY <3>1 DEF BaseInv, PacketsInv, PacketOK, OnWire
      <3>3. ~In(queue, p.remote) /\ incoming.pending # p.remote
        BY <3>1 DEF BaseInv, PlacesInv
      <3>4. ~HasSlot(p.remote)
        BY <3>1 DEF BaseInv, IdsInv, TableInv, HasSlot
      <3> QED BY <3>1, <3>2, <3>3, <3>4
    <2> QED BY <2>1
  <1>9. \A r : /\ OnWire(r) => OnWire(r)'
               /\ OnWire(r)' => OnWire(r) \/ (p.cmd = "OPEN" /\ p.remote = r)
               /\ p.cmd = "OPEN" /\ p.remote = r => OnWire(r)'
    BY <1>6 DEF OnWire
  <1>10. \A r : HasSlot(r)' <=> HasSlot(r)
    BY <1>1, <1>3, KeepSlots
  <1>11. PlacesInv'
    <2>1. ASSUME NEW j \in DOMAIN in', NEW k \in DOMAIN in', in'[j].cmd = "OPEN", in'[k].cmd = "OPEN",
                 in'[j].remote = in'[k].remote
          PROVE  j = k
      BY <1>6, <1>8, <2>1 DEF BaseInv, PlacesInv, OnWire
    <2>2. \A r \in Requests : r \in Ids /\ device'[r].local = device[r].local
                              /\ Forward(device[r].state, device'[r].state)
      BY IdsAre DEF Moves
    <2>3. \A r \in Requests : OnWire(r)' => ~In(queue, r) /\ incoming.pending # r /\ ~HasSlot(r)'
      BY <1>8, <1>9, <1>10 DEF BaseInv, PlacesInv
    <2>4. \A r \in Requests : In(queue, r) \/ incoming.pending = r =>
              /\ device'[r].state \in {"offered", "open", "closed"}
              /\ ~desync' => device'[r].local = 0 /\ device'[r].state # "open"
      BY <1>1, <2>2 DEF BaseInv, PlacesInv, Forward
    <2> QED BY <1>1, <1>2, <1>10, <2>1, <2>3, <2>4 DEF BaseInv, PlacesInv
  <1>12. CallInv'
    <2>1. \A c \in Ids : device'[c].local = device[c].local /\ Forward(device[c].state, device'[c].state)
      BY DEF Moves
    <2>2. PcInv' /\ UseInv' /\ OpenInv'
      BY <1>1, <1>2 DEF BaseInv, CallInv, PcInv, UseInv, OpenInv, HandleOf
    <2>3. credit' = credit
      BY <1>1 DEF credit
    <2>4. AnswerInv'
      BY <1>1, <1>2, <2>1, <2>3 DEF BaseInv, CallInv, AnswerInv
    <2>5. Unused' = Unused
      BY <1>1 DEF Unused
    <2>6. FrameInv'
      <3>1. ASSUME call.pc = "send", call.after = "await" PROVE FrameInv'
        BY <1>1, <2>1, <2>3, <2>5, <3>1 DEF BaseInv, CallInv, FrameInv
      <3>2. ASSUME call.pc = "send", call.after = "dispatched" PROVE FrameInv'
        <4>1. HasSlot(call.frame.remote) => HasSlot(call.frame.remote)'
          BY <1>1, <1>2 DEF HasSlot
        <4> QED BY <1>1, <2>1, <3>2, <4>1 DEF BaseInv, CallInv, FrameInv, Forward
      <3>3. ASSUME call.pc = "send", call.after \notin {"await", "dispatched"} PROVE FrameInv'
        BY <1>1, <2>1, <3>3 DEF BaseInv, CallInv, FrameInv, Forward
      <3>4. call.pc # "send" => FrameInv'
        BY <1>1 DEF FrameInv
      <3> QED BY <3>1, <3>2, <3>3, <3>4
    <2> QED BY <2>2, <2>4, <2>6 DEF CallInv
  <1>13. DesyncInv'
    BY <1>1 DEF BaseInv, DesyncInv
  <1>14. ConnTypeOK'
    BY <1>1, <1>6, TypesKept DEF BaseInv, ConnTypeOK
  <1>15. \A c : Sending(c, "CLSE") => Sending(c, "CLSE")'
    BY <1>1 DEF Sending
  <1>16. OrphanInv'
    <2>1. ASSUME NEW c \in Ids, device'[c].state = "open", ~desync, ~gone
          PROVE  \/ HasSlot(c)' \/ Sending(c, "CLSE")'
                 \/ \E k \in DOMAIN in' : in'[k].cmd = "READY" /\ in'[k].remote = c
      <3>1. CASE device[c].state = "open"
        BY <1>6, <1>10, <1>15, <2>1, <3>1 DEF BaseInv, OrphanInv
      <3>2. CASE device[c].state # "open"
        BY <1>6, <2>1, <3>2
      <3> QED BY <3>1, <3>2
    <2> QED BY <2>1 DEF OrphanInv
  <1>17. LostInv'
    <2>1. ASSUME NEW r \in Requests, device'[r].state = "offered", cut # "dispatched", ~gone
          PROVE  OnWire(r)' \/ In(queue, r) \/ incoming.pending = r \/ Sending(r, "CLSE")'
      BY <1>9, <1>15, <2>1, IdsAre DEF BaseInv, LostInv
    <2> QED BY <1>1, <2>1 DEF LostInv
  <1> QED BY <1>3, <1>4, <1>7, <1>11, <1>12, <1>13, <1>14, <1>16, <1>17 DEF BaseInv

(* The packets of the device are packets.                                  *)
LEMMA PktIs ==
    ASSUME NEW cmd \in {"OPEN", "READY", "WRTE", "CLSE"}, NEW c \in Ids, NEW l \in 0 .. MaxLocal,
           NEW d \in Seq(Bytes), NEW n \in Int, NEW p, p = Pkt(cmd, c, l, d, n)
    PROVE  /\ p \in Inbound /\ p.cmd = cmd /\ p.remote = c /\ p.local = l /\ p.data = d /\ p.len = n
  BY DEF Pkt, Inbound

(* What the device sends, and what it does to its own end.                 *)
DevicePkt(c, p, n) ==
    /\ p \in Inbound /\ p.remote = c /\ n \in DeviceEnds /\ device' = [device EXCEPT ![c] = n]
    /\ ~gone /\ in' = Append(in, p) /\ UNCHANGED <<ack, scenario, hostVars, desync, gone, cut, garbled>>
    /\ n.local = device[c].local /\ n.has = device[c].has
    /\ \/ /\ device[c].state = "asked" /\ n = [device[c] EXCEPT !.state = "open"]
          /\ p.cmd = "READY" /\ p.data = <<>> /\ p.local = device[c].local /\ n.state = "open"
          /\ p.len = Grant \/ (Shorts /\ p.len = ShortPayload)
       \/ /\ device[c].state = "asked" /\ n = [device[c] EXCEPT !.state = "closed"]
          /\ p.cmd = "CLSE" /\ p.data = <<>> /\ p.local = device[c].local /\ n.state = "closed" /\ p.len = 0
       \/ /\ c \in Requests /\ device[c].state = "unused" /\ n = [device[c] EXCEPT !.state = "offered"]
          /\ p.cmd = "OPEN" /\ p.data = <<>> /\ p.local = 0 /\ n.state = "offered" /\ p.len = 0
       \/ /\ device[c].state = "offered" /\ n = [device[c] EXCEPT !.state = "closed"]
          /\ p.cmd = "CLSE" /\ p.data = <<>> /\ p.local = 0 /\ n.state = "closed" /\ p.len = 0
       \/ /\ device[c].state = "open" /\ n.state = "open" /\ (device[c].asb > 0 \/ Overruns)
          /\ p.cmd = "WRTE" /\ p.local = device[c].local /\ Len(p.data) \in 1 .. MaxPayload /\ p.len = 0
          /\ n.sent = device[c].sent + Len(p.data) /\ n.owes = device[c].owes
          /\ n.asb = device[c].asb - IF ack = "Delayed" THEN Len(p.data) ELSE 1
          /\ \A k \in DOMAIN p.data : p.data[k] = <<c, device[c].sent + k>>
       \/ /\ device[c].state = "open" /\ n = [device[c] EXCEPT !.owes = 0] /\ device[c].owes > 0
          /\ p.cmd = "READY" /\ p.data = <<>> /\ p.local = device[c].local /\ n.state = "open" /\ n.owes = 0
          /\ p.len = (IF Shorts THEN ShortPayload ELSE device[c].owes)
       \/ /\ device[c].state = "open" /\ n = [device[c] EXCEPT !.state = "closed"]
          /\ p.cmd = "CLSE" /\ p.data = <<>> /\ p.local = device[c].local /\ n.state = "closed" /\ p.len = 0

DeviceActs(c) == \/ DeviceAnswers(c) \/ DeviceOffers(c) \/ DeviceWithdraws(c)
                 \/ DeviceWrites(c) \/ DeviceAcks(c) \/ DeviceCloses(c)

(* A device's end with new fields.                                         *)
LEMMA DeviceEndIs ==
    ASSUME BaseInv, NEW c \in Ids
    PROVE  /\ device \in [Ids -> DeviceEnds] /\ device[c] \in DeviceEnds /\ device[c].local \in 0 .. MaxLocal
           /\ device[c].asb \in Int /\ device[c].sent \in Nat /\ device[c].owes \in Nat /\ device[c].has \in Nat
           /\ device[c].state \in {"unused", "asked", "offered", "open", "closed"}
  <1>1. device \in [Ids -> DeviceEnds] /\ device[c] \in DeviceEnds
    BY DEF BaseInv, ConnTypeOK
  <1> QED BY <1>1 DEF DeviceEnds

(* A device's end of which only the state changes.                         *)
LEMMA StateOnly ==
    ASSUME BaseInv, NEW c \in Ids, NEW x \in {"unused", "asked", "offered", "open", "closed"},
           NEW n, n = [device[c] EXCEPT !.state = x]
    PROVE  /\ n \in DeviceEnds /\ n.state = x /\ n.local = device[c].local /\ n.has = device[c].has
           /\ n.asb = device[c].asb /\ n.sent = device[c].sent /\ n.owes = device[c].owes
  <1>1. device[c] \in DeviceEnds
    BY DeviceEndIs
  <1> QED BY <1>1 DEF DeviceEnds

(* A packet without payload.                                               *)
LEMMA NothingIs == <<>> \in Seq(Bytes) /\ Len(<<>>) = 0 /\ 0 \in Int /\ ShortPayload \in Int
  BY DEF ShortPayload

(* A packet without payload is a packet.                                   *)
LEMMA BarePktIs ==
    ASSUME NEW cmd \in {"OPEN", "READY", "CLSE"}, NEW c \in Ids, NEW l \in 0 .. MaxLocal,
           NEW n \in Int, NEW p, p = Pkt(cmd, c, l, <<>>, n)
    PROVE  /\ p \in Inbound /\ p.cmd = cmd /\ p.remote = c /\ p.local = l /\ p.data = <<>> /\ p.len = n
  BY NothingIs DEF Pkt, Inbound

(* What the device sends is right for its channel.                         *)
LEMMA DevicePktIs ==
    ASSUME BaseInv, NEW c \in Ids, DeviceActs(c)
    PROVE  \E p \in Inbound, n \in DeviceEnds : DevicePkt(c, p, n)
  <1> DEFINE e == device[c]
  <1>1. /\ device \in [Ids -> DeviceEnds] /\ e \in DeviceEnds /\ e.local \in 0 .. MaxLocal
        /\ e.asb \in Int /\ e.sent \in Nat /\ e.owes \in Nat /\ e.has \in Nat
    BY DeviceEndIs
  <1>2. CASE DeviceAnswers(c)
    <2>1. PICK opens \in BOOLEAN, given \in {Grant} \cup (IF Shorts THEN {ShortPayload} ELSE {}) :
            /\ device' = [device EXCEPT ![c].state = IF opens THEN "open" ELSE "closed"]
            /\ DeviceSays(c, Pkt(IF opens THEN "READY" ELSE "CLSE", c, e.local, <<>>, IF opens THEN given ELSE 0))
      BY <1>2 DEF DeviceAnswers, Shorts
    <2>2. e.state = "asked" /\ given \in Int /\ (given = Grant \/ (Shorts /\ given = ShortPayload))
      BY <1>2, <2>1, IdsAre, NothingIs DEF DeviceAnswers
    <2>3. CASE opens
      <3> DEFINE n == [e EXCEPT !.state = "open"]
                 p == Pkt("READY", c, e.local, <<>>, given)
      <3>1. device' = [device EXCEPT ![c] = n] /\ DeviceSays(c, p)
        BY <1>1, <2>1, <2>3
      <3>2. n \in DeviceEnds /\ n.state = "open" /\ n.local = e.local /\ n.has = e.has
        BY StateOnly
      <3>3. p \in Inbound /\ p.cmd = "READY" /\ p.remote = c /\ p.local = e.local /\ p.data = <<>> /\ p.len = given
        BY <1>1, <2>2, NothingIs, BarePktIs
      <3>4. n = [device[c] EXCEPT !.state = "open"]
        OBVIOUS
      <3> HIDE DEF n, p
      <3>5. DevicePkt(c, p, n)
        BY <2>2, <3>1, <3>2, <3>3, <3>4 DEF DevicePkt, DeviceSays
      <3> QED BY <3>2, <3>3, <3>5
    <2>4. CASE ~opens
      <3> DEFINE n == [e EXCEPT !.state = "closed"]
                 p == Pkt("CLSE", c, e.local, <<>>, 0)
      <3>1. device' = [device EXCEPT ![c] = n] /\ DeviceSays(c, p)
        BY <1>1, <2>1, <2>4
      <3>2. n \in DeviceEnds /\ n.state = "closed" /\ n.local = e.local /\ n.has = e.has
        BY StateOnly
      <3>3. p \in Inbound /\ p.cmd = "CLSE" /\ p.remote = c /\ p.local = e.local /\ p.data = <<>> /\ p.len = 0
        BY <1>1, NothingIs, BarePktIs
      <3>4. n = [device[c] EXCEPT !.state = "closed"]
        OBVIOUS
      <3> HIDE DEF n, p
      <3>5. DevicePkt(c, p, n)
        BY <2>2, <3>1, <3>2, <3>3, <3>4 DEF DevicePkt, DeviceSays
      <3> QED BY <3>2, <3>3, <3>5
    <2> QED BY <2>3, <2>4
  <1>3. CASE DeviceOffers(c)
    <2> DEFINE n == [e EXCEPT !.state = "offered"]
               p == Pkt("OPEN", c, 0, <<>>, 0)
    <2>1. /\ c \in Requests /\ e.state = "unused" /\ device' = [device EXCEPT ![c] = n] /\ DeviceSays(c, p)
      BY <1>1, <1>3 DEF DeviceOffers
    <2>2. n \in DeviceEnds /\ n.state = "offered" /\ n.local = e.local /\ n.has = e.has
      BY StateOnly
    <2>3. p \in Inbound /\ p.cmd = "OPEN" /\ p.remote = c /\ p.local = 0 /\ p.data = <<>> /\ p.len = 0
      <3>1. 0 \in 0 .. MaxLocal
        BY IdsAre
      <3> QED BY <3>1, NothingIs, BarePktIs
    <2>4. n = [device[c] EXCEPT !.state = "offered"]
      OBVIOUS
    <2> HIDE DEF n, p
    <2>5. DevicePkt(c, p, n)
      BY <2>1, <2>2, <2>3, <2>4 DEF DevicePkt, DeviceSays
    <2> QED BY <2>2, <2>3, <2>5
  <1>4. CASE DeviceWithdraws(c)
    <2> DEFINE n == [e EXCEPT !.state = "closed"]
               p == Pkt("CLSE", c, 0, <<>>, 0)
    <2>1. /\ e.state = "offered" /\ device' = [device EXCEPT ![c] = n] /\ DeviceSays(c, p)
      BY <1>1, <1>4 DEF DeviceWithdraws
    <2>2. n \in DeviceEnds /\ n.state = "closed" /\ n.local = e.local /\ n.has = e.has
      BY StateOnly
    <2>3. p \in Inbound /\ p.cmd = "CLSE" /\ p.remote = c /\ p.local = 0 /\ p.data = <<>> /\ p.len = 0
      <3>1. 0 \in 0 .. MaxLocal
        BY IdsAre
      <3> QED BY <3>1, NothingIs, BarePktIs
    <2>4. n = [device[c] EXCEPT !.state = "closed"]
      OBVIOUS
    <2> HIDE DEF n, p
    <2>5. DevicePkt(c, p, n)
      BY <2>1, <2>2, <2>3, <2>4 DEF DevicePkt, DeviceSays
    <2> QED BY <2>2, <2>3, <2>5
  <1>5. CASE DeviceWrites(c)
    <2>1. PICK len \in 1 .. AtMost(MaxPayload, scenario.bytes - e.sent) :
            /\ device' = [device EXCEPT ![c].sent = @ + len, ![c].asb = @ - IF ack = "Delayed" THEN len ELSE 1]
            /\ DeviceSays(c, Pkt("WRTE", c, e.local, [k \in 1 .. len |-> <<c, e.sent + k>>], 0))
      BY <1>5 DEF DeviceWrites
    <2> DEFINE m == IF ack = "Delayed" THEN len ELSE 1
               n == [e EXCEPT !.sent = e.sent + len, !.asb = e.asb - m]
               d == [k \in 1 .. len |-> <<c, e.sent + k>>]
               p == Pkt("WRTE", c, e.local, d, 0)
    <2>2. len \in Nat \ {0} /\ len <= MaxPayload /\ len \in 1 .. MaxPayload /\ m \in Int
      <3>1. scenario.bytes \in Nat
        BY ConnectionAssumption DEF BaseInv, ConnTypeOK
      <3> QED BY <1>1, <3>1, Limits DEF AtMost
    <2>3. d \in Seq(Bytes) /\ Len(d) = len /\ DOMAIN d = 1 .. len /\ \A k \in 1 .. len : d[k] = <<c, e.sent + k>>
      <3>1. \A k \in 1 .. len : <<c, e.sent + k>> \in Bytes
        <4>1. \A k \in 1 .. len : e.sent + k \in Nat
          BY <1>1, <2>2
        <4> QED BY <4>1 DEF Bytes
      <3> HIDE DEF e
      <3> QED BY <2>2, <3>1
    <2>4. device' = [device EXCEPT ![c] = n] /\ DeviceSays(c, p)
      BY <1>1, <2>1 DEF DeviceEnds
    <2> HIDE DEF m, d
    <2>5. /\ n \in DeviceEnds /\ n.state = e.state /\ n.local = e.local /\ n.has = e.has /\ n.owes = e.owes
          /\ n.sent = e.sent + len /\ n.asb = e.asb - m
      <3>1. e.sent + len \in Nat /\ e.asb - m \in Int
        BY <1>1, <2>2
      <3> HIDE DEF e
      <3> QED BY <1>1, <3>1 DEF DeviceEnds
    <2>6. p \in Inbound /\ p.cmd = "WRTE" /\ p.remote = c /\ p.local = e.local /\ p.data = d /\ p.len = 0
      BY <1>1, <2>3, NothingIs, PktIs
    <2>7. e.state = "open" /\ (e.asb > 0 \/ Overruns)
      BY <1>5 DEF DeviceWrites, Overruns
    <2>8. m = IF ack = "Delayed" THEN Len(d) ELSE 1
      BY <2>3 DEF m
    <2> HIDE DEF n, p
    <2>9. DevicePkt(c, p, n)
      BY <2>2, <2>3, <2>4, <2>5, <2>6, <2>7, <2>8 DEF DevicePkt, DeviceSays
    <2> QED BY <2>5, <2>6, <2>9
  <1>6. CASE DeviceAcks(c)
    <2> DEFINE n == [e EXCEPT !.owes = 0]
               len == IF Shorts THEN ShortPayload ELSE e.owes
               p == Pkt("READY", c, e.local, <<>>, len)
    <2>1. /\ e.state = "open" /\ e.owes > 0 /\ device' = [device EXCEPT ![c] = n] /\ DeviceSays(c, p)
      BY <1>1, <1>6 DEF DeviceAcks, Shorts
    <2>2. n \in DeviceEnds /\ n.state = e.state /\ n.local = e.local /\ n.has = e.has /\ n.owes = 0
      BY <1>1 DEF DeviceEnds
    <2>3. p \in Inbound /\ p.cmd = "READY" /\ p.remote = c /\ p.local = e.local /\ p.data = <<>> /\ p.len = len
      <3>1. len \in Int
        BY <1>1, NothingIs
      <3> HIDE DEF len
      <3> QED BY <1>1, <3>1, NothingIs, BarePktIs
    <2>4. n = [device[c] EXCEPT !.owes = 0]
      OBVIOUS
    <2> HIDE DEF n, p
    <2>5. DevicePkt(c, p, n)
      BY <2>1, <2>2, <2>3, <2>4 DEF DevicePkt, DeviceSays
    <2> QED BY <2>2, <2>3, <2>5
  <1>7. CASE DeviceCloses(c)
    <2> DEFINE n == [e EXCEPT !.state = "closed"]
               p == Pkt("CLSE", c, e.local, <<>>, 0)
    <2>1. /\ e.state = "open" /\ device' = [device EXCEPT ![c] = n] /\ DeviceSays(c, p)
      BY <1>1, <1>7 DEF DeviceCloses
    <2>2. n \in DeviceEnds /\ n.state = "closed" /\ n.local = e.local /\ n.has = e.has
      BY StateOnly
    <2>3. p \in Inbound /\ p.cmd = "CLSE" /\ p.remote = c /\ p.local = e.local /\ p.data = <<>> /\ p.len = 0
      BY <1>1, NothingIs, BarePktIs
    <2>4. n = [device[c] EXCEPT !.state = "closed"]
      OBVIOUS
    <2> HIDE DEF n, p
    <2>5. DevicePkt(c, p, n)
      BY <2>1, <2>2, <2>3, <2>4 DEF DevicePkt, DeviceSays
    <2> QED BY <2>2, <2>3, <2>5
  <1> QED BY <1>2, <1>3, <1>4, <1>5, <1>6, <1>7 DEF DeviceActs

(* The device answers, offers, withdraws, writes, acknowledges or closes.  *)
LEMMA DevicePktStep ==
    ASSUME BaseInv, NEW c \in Ids, NEW p, NEW n, DevicePkt(c, p, n)
    PROVE  BaseInv'
  <1>1. /\ p \in Inbound /\ p.remote = c /\ n \in DeviceEnds /\ device' = [device EXCEPT ![c] = n]
        /\ in' = Append(in, p) /\ UNCHANGED <<hostVars, desync, gone, cut, garbled>>
        /\ UNCHANGED <<ack, scenario>> /\ n.local = device[c].local
    BY DEF DevicePkt
  <1>2. device \in [Ids -> DeviceEnds]
    BY DEF BaseInv, ConnTypeOK
  <1>3. device' \in [Ids -> DeviceEnds] /\ device'[c] = n /\ \A d \in Ids : d # c => device'[d] = device[d]
    BY <1>1, <1>2
  <1>4. Forward(device[c].state, n.state) /\ (n.state = "offered" => c \in Requests)
    BY DEF DevicePkt, Forward
  <1>5. Moves
    BY <1>1, <1>3, <1>4 DEF Moves, SameTable, Forward, hostVars
  <1>6. /\ device[c].state \in {"asked", "open"} => device[c].local # 0
        /\ device[c].state \in {"unused", "offered"} => device[c].local = 0
        /\ device[c].state = "offered" => c \in Requests
    BY DEF BaseInv, IdsInv, EndsInv
  <1>7. PacketOK(p)'
    BY <1>1, <1>3, <1>6 DEF PacketOK, DevicePkt
  <1>8. /\ p.cmd = "OPEN" => device[p.remote].state = "unused"
        /\ n.state = "open" /\ device[c].state # "open" => p.cmd = "READY"
        /\ n.state = "offered" /\ device[c].state # "offered" => p.cmd = "OPEN"
        /\ c \in Opens => (n.state = "unused" <=> device[c].state = "unused")
    BY <1>1, IdsAre DEF DevicePkt
  <1> QED BY <1>1, <1>3, <1>5, <1>7, <1>8, IdsAre, DeviceStep

(* The transport fails.                                                    *)
LEMMA TransportStep ==
    ASSUME BaseInv, TransportFails
    PROVE  BaseInv'
  <1>1. gone' = TRUE /\ UNCHANGED <<ack, scenario, hostVars, in, device, desync, cut, garbled>>
    BY DEF TransportFails
  <1>2. UNCHANGED <<ack, scenario, table, stored, next_local_id, queue, call, incoming, handles, got>>
    BY <1>1 DEF hostVars
  <1>3. ConnTypeOK'
    BY <1>1, <1>2, TypesKept DEF BaseInv, ConnTypeOK
  <1>4. Positions' = Positions /\ credit' = credit /\ Unused' = Unused
    BY <1>1, <1>2, TypesKept DEF credit, Unused
  <1>5. SlotsInv' /\ SameTable
    BY <1>2, SameSlots
  <1>6. Keeps /\ InKept
    BY <1>1, <1>2, <1>5 DEF Keeps, InKept, SameDevice
  <1>7. IdsInv' /\ PacketsInv' /\ PlacesInv'
    BY <1>1, <1>2, <1>6, KeepIds, KeepPackets, KeepPlaces DEF BaseInv, Keeps
  <1>8. CallInv'
    BY <1>1, <1>2, <1>4 DEF BaseInv, CallInv, PcInv, AnswerInv, OpenInv, UseInv, FrameInv, HandleOf, HasSlot
  <1>9. DesyncInv' /\ OrphanInv' /\ LostInv'
    BY <1>1, <1>2 DEF BaseInv, DesyncInv, OrphanInv, LostInv
  <1> QED BY <1>3, <1>5, <1>7, <1>8, <1>9 DEF BaseInv

(* Nothing changes.                                                        *)
LEMMA BaseStutters ==
    ASSUME BaseInv, UNCHANGED connVars
    PROVE  BaseInv'
  <1>1. UNCHANGED <<ack, scenario, table, stored, next_local_id, queue, call, incoming, handles, got,
                    in, device, desync, gone, cut, garbled>>
    BY DEF connVars, hostVars, wireVars
  <1>2. ConnTypeOK'
    BY <1>1, TypesKept DEF BaseInv, ConnTypeOK
  <1>3. Positions' = Positions /\ credit' = credit /\ Unused' = Unused
    BY <1>1, TypesKept DEF credit, Unused
  <1>4. SlotsInv' /\ SameTable
    BY <1>1, SameSlots
  <1>5. Keeps /\ InKept
    BY <1>1, <1>4 DEF Keeps, InKept, SameDevice
  <1>6. IdsInv' /\ PacketsInv' /\ PlacesInv'
    BY <1>1, <1>5, KeepIds, KeepPackets, KeepPlaces DEF BaseInv, Keeps
  <1>7. CallInv'
    BY <1>1, <1>3 DEF BaseInv, CallInv, PcInv, AnswerInv, OpenInv, UseInv, FrameInv, HandleOf, HasSlot
  <1>8. DesyncInv' /\ OrphanInv' /\ LostInv'
    BY <1>1, <1>3 DEF BaseInv, DesyncInv, OrphanInv, LostInv, HasSlot, OnWire, Sending
  <1> QED BY <1>2, <1>4, <1>6, <1>7, <1>8 DEF BaseInv

-----------------------------------------------------------------------------
(* A packet arrives.                                                       *)

Arrives(p) ==
    /\ call.pc = "recv" /\ in # <<>> /\ p = Head(in) /\ in' = Tail(in)
    /\ UNCHANGED <<ack, scenario, next_local_id, incoming, device, desync, gone, cut, garbled>>

(* A packet arrives.                                                       *)
LEMMA ArrivesIs ==
    ASSUME BaseInv, NEW p, Arrives(p)
    PROVE  /\ p \in Inbound /\ p.remote \in Ids /\ p.local \in 0 .. MaxLocal /\ p.data \in Seq(Bytes)
           /\ p.len \in Int /\ p.cmd \in {"OPEN", "READY", "WRTE", "CLSE"} /\ PacketOK(p)
           /\ 1 \in DOMAIN in /\ p = in[1] /\ ~desync /\ ~desync' /\ incoming = NoIncoming
           /\ call.op \in {"open", "read", "write", "accept"} /\ InKept /\ SameDevice /\ Positions' = Positions
  <1>1. in \in Seq(Inbound) /\ in # <<>> /\ p = Head(in)
    BY DEF BaseInv, ConnTypeOK, Arrives
  <1>2. 1 \in DOMAIN in /\ p = in[1]
    BY <1>1, TailIs
  <1>3. /\ p \in Inbound /\ p.remote \in Ids /\ p.local \in 0 .. MaxLocal /\ p.data \in Seq(Bytes)
        /\ p.len \in Int /\ p.cmd \in {"OPEN", "READY", "WRTE", "CLSE"} /\ PacketOK(p)
    BY <1>2, PacketTypes DEF BaseInv, PacketsInv
  <1>4. ~desync /\ incoming = NoIncoming /\ call.op \in {"open", "read", "write", "accept"}
    BY DEF Arrives, BaseInv, DesyncInv, CallInv, PcInv, AnswerInv
  <1>5. ~desync' /\ InKept /\ SameDevice /\ Positions' = Positions
    BY <1>4, TypesKept DEF Arrives, InKept, SameDevice
  <1> QED BY <1>2, <1>3, <1>4, <1>5

(* What a packet leaves behind is of its type.                             *)
LEMMA ArriveTypes ==
    ASSUME BaseInv, NEW p, Arrives(p), table' \in [Positions -> Slots], stored' \in [Positions -> Seq(Bytes)],
           call' \in CallStates, got' \in [1 .. MaxLocal -> Seq(Bytes)], queue' \in Seq(Requests),
           handles' \subseteq [slot : Positions, local : 1 .. MaxLocal, remote : Ids]
    PROVE  ConnTypeOK' /\ DesyncInv'
  <1>1. in' \in Seq(Inbound)
    BY ArrivesIs, InKeptIs DEF BaseInv
  <1>2. ConnTypeOK'
    BY <1>1, TypesKept DEF BaseInv, ConnTypeOK, Arrives
  <1>3. DesyncInv'
    BY ArrivesIs DEF BaseInv, DesyncInv, Arrives
  <1> QED BY <1>2, <1>3

(* A packet that is for a channel.                                         *)
LEMMA ArriveQuiet ==
    ASSUME BaseInv, NEW p, Arrives(p), p.cmd # "OPEN", SlotsInv', SameTable, CallInv',
           table' \in [Positions -> Slots], stored' \in [Positions -> Seq(Bytes)], call' \in CallStates,
           got' \in [1 .. MaxLocal -> Seq(Bytes)], UNCHANGED <<queue, handles>>,
           p.cmd = "READY" => HasSlot(p.remote) \/ Sending(p.remote, "CLSE")'
    PROVE  BaseInv'
  <1>1. ConnTypeOK' /\ DesyncInv'
    BY ArriveTypes DEF BaseInv, ConnTypeOK
  <1>2. Keeps /\ InKept
    BY ArrivesIs DEF Keeps, Arrives
  <1>3. \A c : ~Sending(c, "CLSE")
    BY DEF Sending, Arrives
  <1>4. p = Head(in) /\ gone' = gone /\ desync' = desync /\ cut' = cut
    BY DEF Arrives
  <1> QED BY <1>1, <1>2, <1>3, <1>4, Quiet

(* A packet about a request.                                               *)
LEMMA ArriveRequest ==
    ASSUME BaseInv, NEW p, Arrives(p), p.cmd # "READY", CallInv', call' \in CallStates,
           UNCHANGED <<table, stored, got, handles>>,
           queue' \in Seq(Requests), Once(queue'), Len(queue') <= scenario.channels,
           \A x : In(queue', x) => In(queue, x) \/ (p.cmd = "OPEN" /\ x = p.remote),
           \A x \in Requests : device[x].state = "offered" /\ In(queue, x) => In(queue', x),
           p.cmd = "OPEN" => In(queue', p.remote) \/ Sending(p.remote, "CLSE")'
    PROVE  BaseInv'
  <1>1. ConnTypeOK' /\ DesyncInv'
    BY ArriveTypes DEF BaseInv, ConnTypeOK
  <1>2. SlotsInv' /\ SameTable
    BY SameSlots DEF Arrives
  <1>3. Keeps /\ InKept /\ SameDevice /\ Positions' = Positions
    BY <1>2, ArrivesIs DEF Keeps, Arrives
  <1>4. IdsInv' /\ PacketsInv'
    BY <1>3, KeepIds, KeepPackets DEF BaseInv
  <1>5. \A r : HasSlot(r)' <=> HasSlot(r)
    BY <1>3, KeepSlots DEF Keeps
  <1>6. in \in Seq(Inbound) /\ in # <<>> /\ in' = Tail(in) /\ p = in[1] /\ 1 \in DOMAIN in
    BY ArrivesIs DEF BaseInv, ConnTypeOK, Arrives
  <1>7. /\ \A k \in DOMAIN in' : k \in Nat /\ k + 1 \in DOMAIN in /\ k + 1 # 1 /\ in'[k] = in[k + 1]
        /\ \A k \in DOMAIN in : k # 1 => k - 1 \in DOMAIN in' /\ in'[k - 1] = in[k]
    <2>1. \A k \in 1 .. Len(in) - 1 : k \in Nat /\ k + 1 # 1
      OBVIOUS
    <2> QED BY <1>6, <2>1, TailIs
  <1>8. \A r : /\ OnWire(r)' => OnWire(r) /\ ~(p.cmd = "OPEN" /\ p.remote = r)
               /\ OnWire(r) => OnWire(r)' \/ (p.cmd = "OPEN" /\ p.remote = r)
    <2>1. ASSUME NEW r, NEW k \in DOMAIN in', in'[k].cmd = "OPEN", in'[k].remote = r
          PROVE  OnWire(r) /\ ~(p.cmd = "OPEN" /\ p.remote = r)
      <3>1. k + 1 \in DOMAIN in /\ k + 1 # 1 /\ in[k + 1].cmd = "OPEN" /\ in[k + 1].remote = r
        BY <1>7, <2>1
      <3> QED BY <1>6, <3>1 DEF OnWire, BaseInv, PlacesInv
    <2>2. ASSUME NEW r, NEW k \in DOMAIN in, in[k].cmd = "OPEN", in[k].remote = r
          PROVE  OnWire(r)' \/ (p.cmd = "OPEN" /\ p.remote = r)
      <3>1. CASE k = 1
        BY <1>6, <2>2, <3>1
      <3>2. CASE k # 1
        <4>1. k - 1 \in DOMAIN in' /\ in'[k - 1].cmd = "OPEN" /\ in'[k - 1].remote = r
          BY <1>7, <2>2, <3>2
        <4> QED BY <4>1 DEF OnWire
      <3> QED BY <3>1, <3>2
    <2> QED BY <2>1, <2>2 DEF OnWire
  <1>9. incoming = NoIncoming /\ incoming' = incoming /\ incoming.pending = 0 /\ \A r \in Requests : r # 0 /\ r \in Ids
    BY ArrivesIs, IdsAre DEF NoIncoming, Arrives
  <1>10. p.cmd = "OPEN" => p.remote \in Requests /\ OnWire(p.remote) /\ device[p.remote].local = 0
                           /\ device[p.remote].state \in {"offered", "closed"}
    BY <1>6, ArrivesIs DEF PacketOK, OnWire
  <1>11. PlacesInv'
    <2>1. ASSUME NEW j \in DOMAIN in', NEW k \in DOMAIN in', in'[j].cmd = "OPEN", in'[k].cmd = "OPEN",
                 in'[j].remote = in'[k].remote
          PROVE  j = k
      <3>1. j + 1 = k + 1
        BY <1>7, <2>1 DEF BaseInv, PlacesInv
      <3> QED BY <1>7, <3>1
    <2>2. ASSUME NEW r \in Requests
          PROVE  /\ OnWire(r)' => ~In(queue', r) /\ ~HasSlot(r)'
                 /\ In(queue', r) => ~HasSlot(r)' /\ device[r].local = 0 /\ device[r].state \in {"offered", "closed"}
      BY <1>5, <1>8, <1>10, ArrivesIs DEF BaseInv, PlacesInv
    <2>3. Len(queue') + 0 <= scenario.channels
      BY ConnectionAssumption DEF BaseInv, ConnTypeOK
    <2>4. scenario' = scenario /\ device' = device
      BY DEF Arrives
    <2> QED BY <1>9, <2>1, <2>2, <2>3, <2>4 DEF PlacesInv
  <1>12. \A c : ~Sending(c, "CLSE")
    BY DEF Sending, Arrives
  <1>13. OrphanInv'
    <2>1. \A k \in DOMAIN in : in[k].cmd = "READY" => \E j \in DOMAIN in' : in'[j] = in[k]
      BY <1>6, <1>7
    <2> QED BY <1>5, <1>12, <2>1 DEF BaseInv, OrphanInv, Arrives
  <1>14. LostInv'
    <2>1. ASSUME NEW r \in Requests, device[r].state = "offered", cut # "dispatched", ~gone
          PROVE  OnWire(r)' \/ In(queue', r) \/ Sending(r, "CLSE")'
      BY <1>8, <1>9, <1>12, <2>1 DEF BaseInv, LostInv
    <2> QED BY <2>1 DEF LostInv, Arrives
  <1> QED BY <1>1, <1>2, <1>4, <1>11, <1>13, <1>14 DEF BaseInv

-----------------------------------------------------------------------------
(* dispatch.                                                               *)

(* The slot a packet names.                                                *)
LEMMA NamedIs ==
    ASSUME BaseInv, NEW p, Arrives(p), NEW i \in Named(p)
    PROVE  /\ Live(i) /\ table[i].remote = p.remote /\ p.cmd # "OPEN" /\ HasSlot(p.remote)
           /\ p.local # 0 => p.local = table[i].local
           /\ p.local = 0 => p.cmd = "CLSE"
  <1>1. i \in Positions /\ table[i] # NoSlot
        /\ IF p.local = 0 THEN p.cmd = "CLSE" /\ table[i].remote = p.remote ELSE table[i].local = p.local
    BY DEF Named
  <1>2. Live(i)
    BY <1>1, FreeIs DEF BaseInv, Live
  <1>3. table[i].remote = p.remote
    <2>1. CASE p.local = 0
      BY <1>1, <2>1
    <2>2. CASE p.local # 0
      <3>1. device[p.remote].local = table[i].local /\ p.remote \in Ids
        BY <1>1, <2>2, ArrivesIs DEF PacketOK
      <3> QED BY <1>1, <1>2, <3>1 DEF BaseInv, IdsInv, TableInv, Live
    <2> QED BY <2>1, <2>2
  <1>4. p.cmd # "OPEN"
    BY <1>1, ArrivesIs DEF PacketOK
  <1> QED BY <1>1, <1>2, <1>3, <1>4 DEF HasSlot, Live

(* The first slot a packet names is the only one.                          *)
LEMMA FirstNamed ==
    ASSUME BaseInv, NEW p, Named(p) # {}
    PROVE  first(Named(p)) \in Named(p)
  <1>1. scenario.channels \in Nat
    BY ConnectionAssumption DEF BaseInv, ConnTypeOK
  <1>2. Named(p) \in SUBSET Nat
    BY <1>1 DEF Named, Positions
  <1> QED BY <1>2, FirstIs

(* apply_close.                                                            *)
LEMMA CloseSlotIs ==
    ASSUME NEW s \in Slots, NEW t, t = apply_close(s)
    PROVE  /\ t \in Slots /\ SameChannel(s, t) /\ SameBudget(s, t) /\ t.state = "Closed" /\ t.unacked = 0
           /\ t.rx_buf = s.rx_buf /\ t.settled = s.settled /\ held(t) = held(s)
  <1>1. /\ t \in Slots /\ SameChannel(s, t) /\ SameBudget(s, t) /\ t.state = "Closed" /\ t.unacked = 0
        /\ t.rx_buf = s.rx_buf /\ t.settled = s.settled
    BY DEF apply_close, Slots, SameChannel, SameBudget
  <1> QED BY <1>1 DEF held

(* apply_ready.                                                            *)
LEMMA ReadySlotIs ==
    ASSUME NEW s \in Slots, NEW n \in Int, NEW t, t = apply_ready(s, n)
    PROVE  /\ t \in Slots /\ SameChannel(s, t) /\ t.state = s.state /\ t.unacked = s.unacked
           /\ t.rx_buf = s.rx_buf /\ t.settled = s.settled /\ held(t) = held(s)
           /\ IF s.ack = "Delayed" THEN t.send_budget = s.send_budget + n /\ t.wrte_acked = s.wrte_acked
              ELSE t.send_budget = s.send_budget /\ t.wrte_acked
  <1>1. CASE s.ack = "Delayed"
    <2>1. t = [s EXCEPT !.send_budget = s.send_budget + n] /\ s.send_budget + n \in Int
      BY <1>1 DEF apply_ready, Slots
    <2>2. /\ t \in Slots /\ SameChannel(s, t) /\ t.state = s.state /\ t.unacked = s.unacked
          /\ t.rx_buf = s.rx_buf /\ t.settled = s.settled /\ t.wrte_acked = s.wrte_acked
          /\ t.send_budget = s.send_budget + n
      BY <2>1 DEF Slots, SameChannel
    <2> QED BY <1>1, <2>2 DEF held
  <1>2. CASE s.ack # "Delayed"
    <2>1. t = [s EXCEPT !.wrte_acked = TRUE]
      BY <1>2 DEF apply_ready
    <2>2. /\ t \in Slots /\ SameChannel(s, t) /\ t.state = s.state /\ t.unacked = s.unacked
          /\ t.rx_buf = s.rx_buf /\ t.settled = s.settled /\ t.wrte_acked
          /\ t.send_budget = s.send_budget
      BY <2>1 DEF Slots, SameChannel
    <2> QED BY <1>2, <2>2 DEF held
  <1> QED BY <1>1, <1>2

(* apply_write.                                                            *)
LEMMA WriteSlotIs ==
    ASSUME NEW s \in Slots, s.settled <= s.rx_buf, has_ids(s), NEW n \in Nat, NEW t, t = apply_write(s, n)
    PROVE  /\ t \in Slots /\ SameChannel(s, t) /\ SameBudget(s, t) /\ t.state = s.state
           /\ t.rx_buf = s.rx_buf + n /\ t.settled = s.settled /\ held(t) = held(s) + n
           /\ held(s) \in Nat
           /\ t.unacked = IF s.ack = "Classic" /\ held(s) + n < rx_watermark THEN 0 ELSE s.unacked + n
           /\ acks_write_now(s, n) <=> s.ack = "Classic" /\ held(s) + n < rx_watermark
  <1> DEFINE u == IF acks_write_now(s, n) THEN 0 ELSE s.unacked + n
  <1>1. acks_write_now(s, n) <=> s.ack = "Classic" /\ held(s) + n < rx_watermark
    BY DEF acks_write_now
  <1>2. /\ s.rx_buf \in Nat /\ s.unacked \in Nat /\ s.settled \in Nat /\ s.unacked + n \in Nat
        /\ s.rx_buf + n \in Nat /\ held(s) = s.rx_buf - s.settled
    BY DEF Slots, held
  <1>3. u \in Nat /\ t = [s EXCEPT !.rx_buf = s.rx_buf + n, !.unacked = u]
    <2>1. u \in Nat
      BY <1>2
    <2>2. t = [s EXCEPT !.rx_buf = s.rx_buf + n, !.unacked = u]
      BY DEF apply_write, Slots
    <2> QED BY <2>1, <2>2
  <1> HIDE DEF u
  <1>4. /\ t \in Slots /\ SameChannel(s, t) /\ SameBudget(s, t) /\ t.state = s.state
        /\ t.rx_buf = s.rx_buf + n /\ t.settled = s.settled /\ t.unacked = u
    BY <1>2, <1>3 DEF Slots, SameChannel, SameBudget
  <1>5. held(t) = t.rx_buf - t.settled
    BY DEF held
  <1> QED BY <1>1, <1>2, <1>4, <1>5 DEF u

(* What dispatch does, by the kind of packet.                              *)
SlotMoves(i, t, b) == table' = [table EXCEPT ![i] = t] /\ stored' = [stored EXCEPT ![i] = b]

ToSlot(p, i) ==
    /\ UNCHANGED <<queue, handles, got>>
    /\ \/ /\ p.cmd = "WRTE" /\ rx_overflows(table[i], Len(p.data)) /\ call' = LoopFailing
          /\ UNCHANGED <<table, stored>>
       \/ /\ p.cmd = "READY" /\ ready_is_short(table[i], p.len) /\ call' = LoopFailing
          /\ UNCHANGED <<table, stored>>
       \/ /\ p.cmd = "WRTE" /\ ~rx_overflows(table[i], Len(p.data))
          /\ SlotMoves(i, apply_write(table[i], Len(p.data)), stored[i] \o p.data)
          /\ call' = IF acks_write_now(table[i], Len(p.data))
                     THEN Sends(Frame("OKAY", table[i].local, table[i].remote, Len(p.data)), "dispatched")
                     ELSE Loop
       \/ /\ p.cmd = "READY" /\ ~ready_is_short(table[i], p.len)
          /\ SlotMoves(i, apply_ready(table[i], p.len), stored[i]) /\ call' = Loop
       \/ /\ p.cmd \notin {"WRTE", "READY"}
          /\ SlotMoves(i, apply_close(table[i]), stored[i]) /\ call' = Loop

ToNone(p) ==
    /\ Named(p) = {} /\ UNCHANGED <<table, stored, handles, got>>
    /\ \/ /\ p.cmd = "OPEN" /\ Len(queue) >= scenario.channels /\ queue' = queue
          /\ call' = Sends(refuse(p.remote), "dispatched")
       \/ /\ p.cmd = "OPEN" /\ ~(Len(queue) >= scenario.channels) /\ queue' = Append(queue, p.remote)
          /\ call' = Loop
       \/ p.cmd = "CLSE" /\ p.local = 0 /\ queue' = withdraw(queue, p.remote) /\ call' = Loop
       \/ p.cmd = "READY" /\ queue' = queue /\ call' = Sends(close(p.local, p.remote), "dispatched")
       \/ p.cmd \in {"WRTE", "CLSE"} /\ (p.cmd = "CLSE" => p.local # 0) /\ queue' = queue /\ call' = Loop

(* dispatch gives the packet to the slot it names, or to none.             *)
LEMMA DispatchesIs ==
    ASSUME BaseInv, NEW p, Arrives(p), Dispatches(p)
    PROVE  ToNone(p) \/ \E i \in Named(p) : ToSlot(p, i)
  <1> DEFINE d == dispatch(p)
  <1>1. /\ table' = d.table /\ stored' = d.stored /\ queue' = d.queue /\ UNCHANGED <<handles, got>>
        /\ call' = IF d.fault THEN LoopFailing
                   ELSE IF d.frame # NoFrame THEN Sends(d.frame, "dispatched") ELSE Loop
    BY DEF Dispatches
  <1>2. /\ p.remote \in Ids /\ p.local \in 0 .. MaxLocal /\ p.data \in Seq(Bytes)
        /\ p.cmd \in {"OPEN", "READY", "WRTE", "CLSE"}
    BY ArrivesIs
  <1>3. CASE Named(p) # {}
    <2> DEFINE i == first(Named(p))
               s == table[i]
    <2>1. i \in Named(p)
      BY <1>3, FirstNamed
    <2>2. d = DispatchTo(i, p)
      BY <1>3 DEF dispatch
    <2>3. /\ Live(i) /\ s.local \in 1 .. MaxLocal /\ s.remote \in Ids
      BY <2>1, NamedIs, LiveIs
    <2>4. stored = [stored EXCEPT ![i] = stored[i]]
      BY DEF BaseInv, ConnTypeOK
    <2> HIDE DEF i
    <2>5. CASE p.cmd = "WRTE" /\ rx_overflows(s, Len(p.data))
      <3>1. d = Outcome(table, stored, queue, NoFrame, TRUE)
        BY <2>2, <2>5 DEF DispatchTo
      <3>2. ToSlot(p, i)
        BY <1>1, <2>5, <3>1 DEF Outcome, ToSlot
      <3> QED BY <2>1, <3>2
    <2>6. CASE p.cmd = "READY" /\ ready_is_short(s, p.len)
      <3>1. d = Outcome(table, stored, queue, NoFrame, TRUE)
        BY <2>2, <2>6 DEF DispatchTo
      <3>2. ToSlot(p, i)
        BY <1>1, <2>6, <3>1 DEF Outcome, ToSlot
      <3> QED BY <2>1, <3>2
    <2>7. CASE p.cmd = "WRTE" /\ ~rx_overflows(s, Len(p.data))
      <3> DEFINE f == Frame("OKAY", s.local, s.remote, Len(p.data))
                 g == IF acks_write_now(s, Len(p.data)) THEN f ELSE NoFrame
                 t == [table EXCEPT ![i] = apply_write(s, Len(p.data))]
                 b == [stored EXCEPT ![i] = stored[i] \o p.data]
      <3>1. d = Outcome(t, b, queue, g, FALSE)
        BY <2>2, <2>7 DEF DispatchTo
      <3>2. f # NoFrame
        BY DEF Frame, NoFrame
      <3> HIDE DEF f, t, b, s
      <3>3. /\ table' = t /\ stored' = b /\ queue' = queue
            /\ call' = IF acks_write_now(s, Len(p.data)) THEN Sends(f, "dispatched") ELSE Loop
        BY <1>1, <3>1, <3>2 DEF Outcome
      <3>4. ToSlot(p, i)
        BY <1>1, <2>7, <3>3 DEF ToSlot, SlotMoves, f, t, b, s
      <3> QED BY <2>1, <3>4
    <2>8. CASE p.cmd = "READY" /\ ~ready_is_short(s, p.len)
      <3>1. d = Outcome([table EXCEPT ![i] = apply_ready(s, p.len)], stored, queue, NoFrame, FALSE)
        BY <2>2, <2>8 DEF DispatchTo
      <3> DEFINE t == [table EXCEPT ![i] = apply_ready(s, p.len)]
      <3> HIDE DEF t
      <3>2. d = Outcome(t, stored, queue, NoFrame, FALSE)
        BY <3>1 DEF t
      <3>3. table' = t /\ stored' = stored /\ queue' = queue /\ call' = Loop
        BY <1>1, <3>2 DEF Outcome
      <3>4. SlotMoves(i, apply_ready(table[i], p.len), stored[i])
        BY <2>4, <3>3 DEF SlotMoves, t
      <3>5. ToSlot(p, i)
        BY <1>1, <2>8, <3>3, <3>4 DEF ToSlot
      <3> QED BY <2>1, <3>5
    <2>9. CASE p.cmd \notin {"WRTE", "READY"}
      <3>1. d = Outcome([table EXCEPT ![i] = apply_close(s)], stored, queue, NoFrame, FALSE)
        BY <2>2, <2>9 DEF DispatchTo
      <3> DEFINE t == [table EXCEPT ![i] = apply_close(s)]
      <3> HIDE DEF t
      <3>2. d = Outcome(t, stored, queue, NoFrame, FALSE)
        BY <3>1 DEF t
      <3>3. table' = t /\ stored' = stored /\ queue' = queue /\ call' = Loop
        BY <1>1, <3>2 DEF Outcome
      <3>4. SlotMoves(i, apply_close(table[i]), stored[i])
        BY <2>4, <3>3 DEF SlotMoves, t
      <3>5. ToSlot(p, i)
        BY <1>1, <2>9, <3>3, <3>4 DEF ToSlot
      <3> QED BY <2>1, <3>5
    <2> QED BY <2>5, <2>6, <2>7, <2>8, <2>9
  <1>4. CASE Named(p) = {}
    <2>1. d = DispatchOther(p)
      BY <1>4 DEF dispatch
    <2>2. refuse(p.remote) # NoFrame /\ close(p.local, p.remote) # NoFrame
      BY <1>2, RefuseIs, CloseIs
    <2>3. CASE p.cmd = "OPEN"
      <3>1. d = IF Len(queue) >= scenario.channels THEN Outcome(table, stored, queue, refuse(p.remote), FALSE)
                ELSE Outcome(table, stored, Append(queue, p.remote), NoFrame, FALSE)
        BY <2>1, <2>3 DEF DispatchOther
      <3> QED BY <1>1, <1>4, <2>2, <2>3, <3>1 DEF Outcome, ToNone
    <2>4. CASE p.cmd = "CLSE" /\ p.local = 0
      <3>1. d = Outcome(table, stored, withdraw(queue, p.remote), NoFrame, FALSE)
        BY <2>1, <2>4 DEF DispatchOther
      <3> QED BY <1>1, <1>4, <2>4, <3>1 DEF Outcome, ToNone
    <2>5. CASE p.cmd = "READY"
      <3>1. d = Outcome(table, stored, queue, close(p.local, p.remote), FALSE)
        BY <2>1, <2>5 DEF DispatchOther
      <3> QED BY <1>1, <1>4, <2>2, <2>5, <3>1 DEF Outcome, ToNone
    <2>6. CASE p.cmd = "WRTE" \/ (p.cmd = "CLSE" /\ p.local # 0)
      <3>1. d = Outcome(table, stored, queue, NoFrame, FALSE)
        BY <2>1, <2>6 DEF DispatchOther
      <3> QED BY <1>1, <1>4, <2>6, <3>1 DEF Outcome, ToNone
    <2> QED BY <1>2, <2>3, <2>4, <2>5, <2>6
  <1> QED BY <1>3, <1>4

(* A sequence after another.                                               *)
LEMMA ConcatIs ==
    ASSUME NEW T, NEW q \in Seq(T), NEW r \in Seq(T)
    PROVE  /\ q \o r \in Seq(T) /\ Len(q \o r) = Len(q) + Len(r) /\ DOMAIN (q \o r) = 1 .. Len(q) + Len(r)
           /\ Len(q) \in Nat /\ Len(r) \in Nat /\ DOMAIN q = 1 .. Len(q) /\ DOMAIN r = 1 .. Len(r)
           /\ \A k \in 1 .. Len(q) : k \in 1 .. Len(q) + Len(r) /\ (q \o r)[k] = q[k]
           /\ \A k \in 1 .. Len(r) : Len(q) + k \in 1 .. Len(q) + Len(r) /\ (q \o r)[Len(q) + k] = r[k]
           /\ \A k \in 1 .. Len(q) + Len(r) : k > Len(q) => k - Len(q) \in 1 .. Len(r) /\ (q \o r)[k] = r[k - Len(q)]
  OBVIOUS

(* dispatch finds the packet's slot.                                       *)
LEMMA ToSlotStep ==
    ASSUME BaseInv, NEW p, Arrives(p), NEW i \in Named(p), ToSlot(p, i)
    PROVE  BaseInv'
  <1> DEFINE s == table[i]
             n == Len(p.data)
  <1>1. /\ Live(i) /\ s.remote = p.remote /\ p.cmd # "OPEN" /\ HasSlot(p.remote)
        /\ s \in Slots /\ s.local \in 1 .. MaxLocal /\ s.remote \in Ids /\ s.ack = ack
        /\ s.state \in {"Open", "Closed"} /\ s.settled <= s.rx_buf /\ held(s) <= rx_cap
        /\ stored[i] \in Seq(Bytes) /\ Len(stored[i]) = s.rx_buf /\ has_ids(s)
    BY NamedIs, LiveIs
  <1>2. /\ p.len \in Int /\ p.data \in Seq(Bytes) /\ n \in Nat /\ SameDevice /\ incoming = NoIncoming
        /\ call.op \in {"open", "read", "write", "accept"} /\ call.pc = "recv"
        /\ UNCHANGED <<ack, scenario, next_local_id>>
    BY ArrivesIs DEF Arrives
  <1>3. UNCHANGED <<queue, handles, got>> /\ got' \in [1 .. MaxLocal -> Seq(Bytes)]
    BY DEF ToSlot, BaseInv, ConnTypeOK
  <1>4. stored' = [stored EXCEPT ![i] = stored[i]] /\ table' = [table EXCEPT ![i] = s] => UNCHANGED <<table, stored>>
    BY DEF BaseInv, ConnTypeOK
  <1>5. PICK t \in Slots, b \in Seq(Bytes) :
          /\ SlotMoves(i, t, b) /\ t.local = s.local /\ t.remote = s.remote /\ t.ack = ack
          /\ t.state # "Opening" /\ t.settled <= t.rx_buf /\ held(t) <= rx_cap /\ Len(b) = t.rx_buf
    <2>1. CASE UNCHANGED <<table, stored>>
      <3>1. SlotMoves(i, s, stored[i])
        BY <2>1 DEF SlotMoves, BaseInv, ConnTypeOK
      <3> QED BY <1>1, <3>1
    <2>2. CASE ~rx_overflows(s, n) /\ SlotMoves(i, apply_write(s, n), stored[i] \o p.data)
      <3> DEFINE t == apply_write(s, n)
                 b == stored[i] \o p.data
      <3>1. /\ t \in Slots /\ SameChannel(s, t) /\ t.state = s.state
            /\ t.rx_buf = s.rx_buf + n /\ t.settled = s.settled /\ held(t) = held(s) + n
        BY <1>1, <1>2, WriteSlotIs
      <3>2. b \in Seq(Bytes) /\ Len(b) = s.rx_buf + n
        <4>1. stored[i] \in Seq(Bytes) /\ p.data \in Seq(Bytes) /\ Len(stored[i]) = s.rx_buf
          BY <1>1, <1>2
        <4>2. b \in Seq(Bytes) /\ Len(b) = Len(stored[i]) + Len(p.data)
          <5> DEFINE q == stored[i]
                     r == p.data
          <5>1. q \in Seq(Bytes) /\ r \in Seq(Bytes)
            BY <4>1
          <5> HIDE DEF q, r
          <5>2. q \o r \in Seq(Bytes) /\ Len(q \o r) = Len(q) + Len(r)
            BY <5>1
          <5> QED BY <5>2 DEF q, r
        <4> QED BY <4>1, <4>2
      <3>3. held(s) + n <= rx_cap /\ s.rx_buf \in Nat /\ s.settled \in Nat
        <4>1. held(s) \in Int /\ rx_cap \in Int /\ s.rx_buf \in Nat /\ s.settled \in Nat
          BY <1>1, Limits DEF held, Slots
        <4> QED BY <1>2, <2>2, <4>1 DEF rx_overflows
      <3>4. s.settled <= s.rx_buf + n
        BY <1>1, <1>2, <3>3
      <3> HIDE DEF t, b
      <3>5. t.settled <= t.rx_buf /\ held(t) <= rx_cap /\ Len(b) = t.rx_buf
        BY <3>1, <3>2, <3>3, <3>4
      <3>6. SlotMoves(i, t, b)
        BY <2>2 DEF t, b
      <3> HIDE DEF s
      <3>7. t.local = s.local /\ t.remote = s.remote /\ t.ack = ack /\ t.state # "Opening"
        BY <1>1, <3>1 DEF SameChannel
      <3> QED BY <3>1, <3>2, <3>5, <3>6, <3>7
    <2>3. CASE SlotMoves(i, apply_ready(s, p.len), stored[i])
      <3> DEFINE t == apply_ready(s, p.len)
      <3>1. /\ t \in Slots /\ SameChannel(s, t) /\ t.state = s.state
            /\ t.rx_buf = s.rx_buf /\ t.settled = s.settled /\ held(t) = held(s)
        BY <1>1, <1>2, ReadySlotIs
      <3> HIDE DEF t, s
      <3> QED BY <1>1, <2>3, <3>1 DEF SameChannel, t
    <2>4. CASE SlotMoves(i, apply_close(s), stored[i])
      <3> DEFINE t == apply_close(s)
      <3>1. /\ t \in Slots /\ SameChannel(s, t) /\ t.state = "Closed"
            /\ t.rx_buf = s.rx_buf /\ t.settled = s.settled /\ held(t) = held(s)
        BY <1>1, CloseSlotIs
      <3> HIDE DEF t, s
      <3> QED BY <1>1, <2>4, <3>1 DEF SameChannel, t
    <2> QED BY <2>1, <2>2, <2>3, <2>4 DEF ToSlot
  <1>6. SlotsInv' /\ SameTable /\ table' \in [Positions -> Slots] /\ stored' \in [Positions -> Seq(Bytes)]
    BY <1>1, <1>2, <1>5, OneSlot DEF SlotMoves
  <1>7. Keeps
    BY <1>2, <1>3, <1>6 DEF Keeps, Arrives
  <1>8. CallInv' /\ call' \in CallStates
    <2>1. CASE call' = Loop \/ call' = LoopFailing
      BY <1>2, <1>7, <2>1, CallLoops, LoopIs, LoopFailingIs DEF BaseInv
    <2>2. CASE call' = Sends(Frame("OKAY", s.local, s.remote, n), "dispatched")
      <3> DEFINE f == Frame("OKAY", s.local, s.remote, n)
      <3>1. f \in Frames /\ f.cmd = "OKAY" /\ f.remote = p.remote
        <4>1. s.local \in 0 .. MaxLocal
          BY <1>1
        <4> QED BY <1>1, <1>2, <4>1, FramesAre
      <3> HIDE DEF f
      <3>2. call' = Sends(f, "dispatched") /\ "dispatched" \in Afters
        BY <2>2 DEF f, Afters
      <3> QED BY <1>1, <1>2, <1>7, <3>1, <3>2, CallAnswers, SendsIs DEF BaseInv
    <2> QED BY <2>1, <2>2 DEF ToSlot
  <1> QED BY <1>1, <1>3, <1>6, <1>8, ArriveQuiet

(* dispatch finds no slot for the packet.                                  *)
LEMMA ToNoneStep ==
    ASSUME BaseInv, NEW p, Arrives(p), ToNone(p)
    PROVE  BaseInv'
  <1>1. /\ p.remote \in Ids /\ p.local \in 0 .. MaxLocal /\ PacketOK(p) /\ SameDevice /\ incoming = NoIncoming
        /\ call.op \in {"open", "read", "write", "accept"} /\ call.pc = "recv"
        /\ UNCHANGED <<ack, scenario, next_local_id>> /\ p = in[1] /\ 1 \in DOMAIN in
    BY ArrivesIs DEF Arrives
  <1>2. UNCHANGED <<table, stored, handles, got>>
    BY DEF ToNone
  <1>3. SlotsInv' /\ SameTable
    BY <1>1, <1>2, SameSlots
  <1>4. Keeps
    BY <1>1, <1>2, <1>3 DEF Keeps, Arrives
  <1>5. /\ table' \in [Positions -> Slots] /\ stored' \in [Positions -> Seq(Bytes)]
        /\ got' \in [1 .. MaxLocal -> Seq(Bytes)]
    BY <1>2 DEF BaseInv, ConnTypeOK
  <1>6. call' = Loop => CallInv' /\ call' \in CallStates
    BY <1>1, <1>4, CallLoops, LoopIs DEF BaseInv
  <1>7. queue \in Seq(Requests) /\ Once(queue) /\ Len(queue) \in Nat /\ Len(queue) <= scenario.channels
    <2>1. queue \in Seq(Requests) /\ Once(queue) /\ Len(queue) \in Nat /\ scenario.channels \in Nat
      BY ConnectionAssumption DEF BaseInv, ConnTypeOK, PlacesInv
    <2>2. Len(queue) + 0 <= scenario.channels
      BY <1>1 DEF BaseInv, PlacesInv, NoIncoming
    <2> QED BY <2>1, <2>2
  <1>8. ASSUME p.cmd = "OPEN"
        PROVE  p.remote \in Requests /\ ~In(queue, p.remote) /\ device[p.remote].state \in {"offered", "closed"}
    <2>1. OnWire(p.remote) /\ p.remote \in Requests /\ device[p.remote].state \in {"offered", "closed"}
      BY <1>1, <1>8 DEF OnWire, PacketOK
    <2> QED BY <2>1 DEF BaseInv, PlacesInv
  <1>9. CASE /\ p.cmd = "OPEN" /\ Len(queue) >= scenario.channels /\ queue' = queue
             /\ call' = Sends(refuse(p.remote), "dispatched")
    <2> DEFINE f == refuse(p.remote)
    <2>1. f \in Frames /\ f.cmd = "CLSE" /\ f.remote = p.remote
      BY <1>1, RefuseIs
    <2> HIDE DEF f
    <2>2. call' = Sends(f, "dispatched") /\ "dispatched" \in Afters
      BY <1>9 DEF f, Afters
    <2>3. /\ call' \in CallStates /\ call'.pc = "send" /\ call'.frame = f
      BY <2>1, <2>2, SendsIs DEF BaseInv
    <2>4. Sending(p.remote, "CLSE")'
      BY <2>1, <2>3 DEF Sending
    <2>5. CallInv'
      BY <1>1, <1>4, <1>8, <1>9, <2>1, <2>2, CallAnswers DEF BaseInv
    <2> QED BY <1>2, <1>7, <1>9, <2>3, <2>4, <2>5, ArriveRequest
  <1>10. CASE /\ p.cmd = "OPEN" /\ ~(Len(queue) >= scenario.channels) /\ queue' = Append(queue, p.remote)
              /\ call' = Loop
    <2>1. /\ queue' \in Seq(Requests) /\ Once(queue') /\ Len(queue') = Len(queue) + 1
          /\ \A x : In(queue', x) <=> In(queue, x) \/ x = p.remote
      BY <1>7, <1>8, <1>10, AppendOnce
    <2>2. Len(queue') <= scenario.channels
      <3>1. scenario.channels \in Nat
        BY ConnectionAssumption DEF BaseInv, ConnTypeOK
      <3> QED BY <1>7, <1>10, <2>1, <3>1
    <2> QED BY <1>2, <1>6, <1>10, <2>1, <2>2, ArriveRequest
  <1>11. CASE p.cmd = "CLSE" /\ p.local = 0 /\ queue' = withdraw(queue, p.remote) /\ call' = Loop
    <2>1. /\ queue' \in Seq(Requests) /\ Once(queue') /\ Len(queue') <= Len(queue)
          /\ \A x : In(queue', x) <=> In(queue, x) /\ x # p.remote
      BY <1>7, <1>11, WithdrawOnce
    <2>2. Len(queue') <= scenario.channels
      <3>1. scenario.channels \in Nat /\ Len(queue') \in Nat
        BY <2>1, ConnectionAssumption DEF BaseInv, ConnTypeOK
      <3> QED BY <1>7, <2>1, <3>1
    <2>3. device[p.remote].state = "closed"
      BY <1>1, <1>11 DEF PacketOK
    <2> QED BY <1>2, <1>6, <1>11, <2>1, <2>2, <2>3, ArriveRequest
  <1>12. CASE p.cmd = "READY" /\ queue' = queue /\ call' = Sends(close(p.local, p.remote), "dispatched")
    <2> DEFINE f == close(p.local, p.remote)
    <2>1. f \in Frames /\ f.cmd = "CLSE" /\ f.remote = p.remote
      BY <1>1, CloseIs
    <2> HIDE DEF f
    <2>2. call' = Sends(f, "dispatched") /\ "dispatched" \in Afters
      BY <1>12 DEF f, Afters
    <2>3. /\ call' \in CallStates /\ call'.pc = "send" /\ call'.frame = f
      BY <2>1, <2>2, SendsIs DEF BaseInv
    <2>4. Sending(p.remote, "CLSE")'
      BY <2>1, <2>3 DEF Sending
    <2>5. device[p.remote].state \in {"open", "closed"}
      BY <1>1, <1>12 DEF PacketOK
    <2>6. CallInv'
      BY <1>1, <1>4, <2>1, <2>2, <2>5, CallAnswers DEF BaseInv
    <2> QED BY <1>2, <1>3, <1>5, <1>12, <2>3, <2>4, <2>6, ArriveQuiet
  <1>13. CASE p.cmd \in {"WRTE", "CLSE"} /\ queue' = queue /\ call' = Loop
    BY <1>2, <1>3, <1>5, <1>6, <1>13, ArriveQuiet
  <1> QED BY <1>9, <1>10, <1>11, <1>12, <1>13 DEF ToNone

(* What is in flight after a packet was taken.                             *)
LEMMA ArriveShift ==
    ASSUME BaseInv, NEW p, Arrives(p)
    PROVE  /\ in' \in Seq(Inbound) /\ 1 \in DOMAIN in /\ in[1] = p
           /\ \A k \in DOMAIN in' : k \in Nat /\ k > 0 /\ k + 1 \in DOMAIN in /\ k + 1 > 1 /\ in'[k] = in[k + 1]
           /\ \A k \in DOMAIN in : k # 1 => k > 1 /\ k - 1 \in DOMAIN in' /\ in'[k - 1] = in[k]
  <1>1. in \in Seq(Inbound) /\ in # <<>> /\ in' = Tail(in) /\ p = in[1]
    BY ArrivesIs DEF BaseInv, ConnTypeOK, Arrives
  <1>2. \A k \in 1 .. Len(in) - 1 : k \in Nat /\ k > 0
    OBVIOUS
  <1>3. \A k \in 1 .. Len(in) : k # 1 => k > 1
    BY <1>1
  <1> QED BY <1>1, <1>2, <1>3, TailIs

(* A packet that arrives leaves the other channels alone.                  *)
LEMMA ArriveOthers ==
    ASSUME BaseInv, NEW p, Arrives(p), p.cmd # "OPEN"
    PROVE  /\ \A r : OnWire(r)' <=> OnWire(r)
           /\ \A j, k \in DOMAIN in' :
                in'[j].cmd = "OPEN" /\ in'[k].cmd = "OPEN" /\ in'[j].remote = in'[k].remote => j = k
           /\ \A k \in DOMAIN in : in[k] # p => \E j \in DOMAIN in' : in'[j] = in[k]
  <1>1. \A k \in DOMAIN in : in[k] # p => \E j \in DOMAIN in' : in'[j] = in[k]
    BY ArriveShift
  <1>2. \A j \in DOMAIN in' : \E k \in DOMAIN in : in'[j] = in[k]
    BY ArriveShift
  <1>3. ASSUME NEW j \in DOMAIN in', NEW k \in DOMAIN in', in'[j].cmd = "OPEN", in'[k].cmd = "OPEN",
               in'[j].remote = in'[k].remote
        PROVE  j = k
    <2>1. j + 1 = k + 1 /\ j \in Nat /\ k \in Nat
      BY <1>3, ArriveShift DEF BaseInv, PlacesInv
    <2> QED BY <2>1
  <1>4. \A r : OnWire(r)' <=> OnWire(r)
    BY <1>1, <1>2 DEF OnWire
  <1> QED BY <1>1, <1>3, <1>4

(* The slot of an open that was answered.                                  *)
LEMMA OpenedIs ==
    ASSUME NEW l \in Nat, NEW q \in Nat, NEW n \in Int, NEW m \in {"Classic", "Delayed"},
           NEW t, t = accept_open_ready(opening(l, m), q, n)
    PROVE  /\ t \in Slots /\ t.local = l /\ t.remote = q /\ t.ack = m /\ t.state = "Open"
           /\ t.rx_buf = 0 /\ t.settled = 0 /\ t.unacked = 0 /\ held(t) = 0 /\ t.wrte_acked
           /\ t.send_budget = IF m = "Delayed" THEN n ELSE 0
  <1>1. t = [local |-> l, remote |-> q, state |-> "Open", rx_buf |-> 0,
             wrte_acked |-> TRUE, send_budget |-> IF m = "Delayed" THEN n ELSE 0, unacked |-> 0, settled |-> 0,
             failed |-> FALSE, ack |-> m]
    BY DEF accept_open_ready, opening
  <1>2. (IF m = "Delayed" THEN n ELSE 0) \in Int
    OBVIOUS
  <1>3. held(t) = t.rx_buf - t.settled
    BY DEF held
  <1> QED BY <1>1, <1>2, <1>3 DEF Slots

(* The READY an open waits for.                                            *)
OpensWith(p) ==
    /\ call.op = "open" /\ p.cmd = "READY" /\ p.local = call.ch.local
    /\ table' = [table EXCEPT ![call.ch.slot] = accept_open_ready(opening(call.ch.local, ack), p.remote, p.len)]
    /\ handles' = handles \cup {Handle(call.ch, p.remote)}
    /\ call' = Returns("ok") /\ UNCHANGED <<stored, queue, got>>

(* The slot of an open that was answered is right.                         *)
LEMMA OpensSlot ==
    ASSUME BaseInv, NEW p, Arrives(p), OpensWith(p)
    PROVE  /\ call.ch.slot \in Positions /\ table[call.ch.slot] = NoSlot /\ table[call.ch.slot].local = 0
           /\ call.ch.local \in 1 .. MaxLocal /\ call.ch.local < next_local_id
           /\ \A i \in Positions : table[i].local # call.ch.local
           /\ \A h \in handles : h.local # call.ch.local
           /\ p.remote \in Ids /\ device[p.remote].local = call.ch.local
           /\ device[p.remote].state \in {"open", "closed"}
           /\ \A i \in Positions : table[i].local # 0 => table[i].remote # p.remote
           /\ table' \in [Positions -> Slots]
           /\ \A i \in Positions : i # call.ch.slot => table'[i] = table[i]
           /\ LET t == table'[call.ch.slot]
              IN /\ t.local = call.ch.local /\ t.remote = p.remote /\ t.ack = ack /\ t.state = "Open"
                 /\ t.rx_buf = 0 /\ t.settled = 0 /\ t.unacked = 0 /\ held(t) = 0 /\ t.wrte_acked
                 /\ t.send_budget = IF ack = "Delayed" THEN p.len ELSE 0
  <1> DEFINE t == accept_open_ready(opening(call.ch.local, ack), p.remote, p.len)
  <1>1. /\ call.ch.slot \in Positions /\ table[call.ch.slot].local = 0
        /\ call.ch.local # 0 /\ call.ch.local < next_local_id
        /\ \A i \in Positions : table[i].local # call.ch.local
        /\ \A h \in handles : h.local # call.ch.local
    BY DEF OpensWith, BaseInv, CallInv, OpenInv
  <1>2. table[call.ch.slot] = NoSlot
    BY <1>1, FreeIs DEF BaseInv
  <1>3. call.ch.local \in 1 .. MaxLocal
    <2>1. call.ch.local \in 0 .. MaxLocal
      BY DEF BaseInv, ConnTypeOK, CallStates, ChannelIds
    <2> QED BY <1>1, <2>1, IdsAre
  <1>4. p.remote \in Ids /\ device[p.remote].local = call.ch.local /\ device[p.remote].state \in {"open", "closed"}
    BY <1>1, ArrivesIs DEF OpensWith, PacketOK
  <1>5. \A i \in Positions : table[i].local # 0 => table[i].remote # p.remote
    BY <1>1, <1>4, ArrivesIs, PairedIs DEF BaseInv, IdsInv, NoIncoming
  <1>6. /\ t \in Slots /\ t.local = call.ch.local /\ t.remote = p.remote /\ t.ack = ack /\ t.state = "Open"
        /\ t.rx_buf = 0 /\ t.settled = 0 /\ t.unacked = 0 /\ held(t) = 0 /\ t.wrte_acked
        /\ t.send_budget = IF ack = "Delayed" THEN p.len ELSE 0
    <2>1. ack \in {"Classic", "Delayed"}
      BY ConfigAssumption DEF BaseInv, ConnTypeOK
    <2>2. call.ch.local \in Nat /\ p.remote \in Nat /\ p.len \in Int
      <3>1. p.len \in Int
        BY ArrivesIs
      <3>2. p.remote \in Nat
        BY <1>4, IdsAre
      <3>3. call.ch.local \in Nat
        BY <1>3
      <3> QED BY <3>1, <3>2, <3>3
    <2>3. t = accept_open_ready(opening(call.ch.local, ack), p.remote, p.len)
      OBVIOUS
    <2> HIDE DEF t
    <2> QED BY <2>1, <2>2, <2>3, OpenedIs, SMTT(60)
  <1> HIDE DEF t
  <1>7. table' = [table EXCEPT ![call.ch.slot] = t] /\ table \in [Positions -> Slots]
    BY DEF OpensWith, t, BaseInv, ConnTypeOK
  <1>8. table' \in [Positions -> Slots] /\ table'[call.ch.slot] = t
        /\ \A i \in Positions : i # call.ch.slot => table'[i] = table[i]
    BY <1>1, <1>6, <1>7
  <1> QED BY <1>1, <1>2, <1>3, <1>4, <1>5, <1>6, <1>8

(* The READY that an open waits for arrives.                               *)
LEMMA OpensStep ==
    ASSUME BaseInv, NEW p, Arrives(p), OpensWith(p)
    PROVE  BaseInv'
  <1> DEFINE i0 == call.ch.slot
             l == call.ch.local
             q == p.remote
             t == table'[i0]
             h == Handle(call.ch, q)
  <1>1. /\ i0 \in Positions /\ table[i0] = NoSlot /\ table[i0].local = 0
        /\ l \in 1 .. MaxLocal /\ l < next_local_id
        /\ \A i \in Positions : table[i].local # l
        /\ \A g \in handles : g.local # l
        /\ q \in Ids /\ device[q].local = l /\ device[q].state \in {"open", "closed"}
        /\ \A i \in Positions : table[i].local # 0 => table[i].remote # q
        /\ table' \in [Positions -> Slots]
        /\ \A i \in Positions : i # i0 => table'[i] = table[i]
    BY OpensSlot
  <1>2. /\ t.local = l /\ t.remote = q /\ t.ack = ack /\ t.state = "Open"
        /\ t.rx_buf = 0 /\ t.settled = 0 /\ held(t) = 0
    BY OpensSlot
  <1>3. /\ UNCHANGED <<ack, scenario, next_local_id, incoming, device, desync, gone, cut, garbled, stored, queue, got>>
        /\ handles' = handles \cup {h} /\ call' = Returns("ok") /\ incoming = NoIncoming /\ incoming' = NoIncoming
        /\ Positions' = Positions /\ p.cmd = "READY" /\ InKept /\ SameDevice /\ ~desync /\ call.pc = "recv"
    BY ArrivesIs DEF Arrives, OpensWith
  <1>4. h.slot = i0 /\ h.local = l /\ h.remote = q
    BY DEF Handle
  <1>5. h \in [slot : Positions, local : 1 .. MaxLocal, remote : Ids]
    BY <1>1 DEF Handle
  <1> HIDE DEF h, t, i0, l, q
  <1>6. l # 0
    BY <1>1
  <1>7. \A i \in Positions : \/ i = i0 /\ table'[i].local = l /\ table'[i].remote = q
                             \/ i # i0 /\ table'[i].local = table[i].local /\ table'[i].remote = table[i].remote
    BY <1>1, <1>2 DEF t
  <1>8. SlotsInv'
    <2>1. ASSUME NEW i \in Positions, i # i0 PROVE SlotOK(i)'
      <3>1. SlotOK(i)
        BY DEF BaseInv, SlotsInv
      <3> QED BY <1>1, <1>3, <2>1, <3>1 DEF SlotOK
    <2>2. ASSUME NEW i, i = i0 PROVE SlotOK(i)'
      <3>1. Len(stored[i]) = 0
        BY <1>1, <2>2, NoSlotIs DEF BaseInv, SlotsInv, SlotOK
      <3>2. held(t) <= rx_cap /\ t.settled <= t.rx_buf
        BY <1>2, Limits
      <3> QED BY <1>1, <1>2, <1>3, <1>6, <2>2, <3>1, <3>2 DEF SlotOK, t
    <2> QED BY <1>3, <2>1, <2>2 DEF SlotsInv
  <1>9. IdsInv'
    <2>1. EndsInv'
      BY <1>3 DEF BaseInv, IdsInv, EndsInv
    <2>2. TableInv'
      <3>1. \A i \in Positions : table[i].local = 0 => table[i].remote = 0
        BY NoSlotIs DEF BaseInv, SlotsInv, SlotOK
      <3>2. q # 0
        BY <1>1, IdsAre
      <3>3. ASSUME NEW i \in Positions, NEW j \in Positions, table'[i].local # 0
            PROVE  /\ table'[i].local = table'[j].local => i = j
                   /\ table'[i].remote = table'[j].remote => i = j
        <4>1. CASE i = i0
          BY <1>1, <1>7, <3>1, <3>2, <4>1
        <4>2. CASE i # i0 /\ j = i0
          BY <1>1, <1>7, <3>1, <3>2, <3>3, <4>2
        <4>3. CASE i # i0 /\ j # i0
          BY <1>7, <3>3, <4>3 DEF BaseInv, IdsInv, TableInv
        <4> QED BY <4>1, <4>2, <4>3
      <3>4. ASSUME NEW i \in Positions, table'[i].local # 0
            PROVE  /\ device[table'[i].remote].local \in {0, table'[i].local}
                   /\ device[table'[i].remote].state \in {"offered", "open", "closed"}
                   /\ \A c \in Ids : device[c].local = table'[i].local => c = table'[i].remote
        <4>1. CASE i = i0
          <5>1. \A c \in Ids : device[c].local = l => c = q
            BY <1>1, <1>6 DEF BaseInv, IdsInv, EndsInv
          <5> QED BY <1>1, <1>7, <4>1, <5>1
        <4>2. CASE i # i0
          <5>1. /\ table[i].local # 0 /\ table'[i].local = table[i].local /\ table'[i].remote = table[i].remote
            BY <1>7, <3>4, <4>2
          <5>2. device[table[i].remote].local \in {0, table[i].local}
            BY <1>3, <5>1, PairedIs DEF BaseInv, IdsInv, NoIncoming
          <5>3. /\ device[table[i].remote].state \in {"offered", "open", "closed"}
                /\ \A c \in Ids : device[c].local = table[i].local => c = table[i].remote
            BY <5>1 DEF BaseInv, IdsInv, TableInv
          <5> QED BY <5>1, <5>2, <5>3
        <4> QED BY <4>1, <4>2
      <3> QED BY <1>3, <3>3, <3>4 DEF TableInv
    <2>3. HandlesInv'
      <3>1. \A i \in Positions : table'[i].local = l => i = i0
        BY <1>1, <1>7
      <3>2. \A g \in handles, i \in Positions : table'[i].local = g.local => i = g.slot /\ table'[i].remote = g.remote
        BY <1>1, <1>7 DEF BaseInv, IdsInv, HandlesInv
      <3>3. ASSUME NEW g \in handles'
            PROVE  /\ g.local < next_local_id /\ device[g.remote].state \in {"open", "closed"}
                   /\ \A i \in Positions : table'[i].local = g.local => i = g.slot /\ table'[i].remote = g.remote
                   /\ \A k \in handles' : g.local = k.local => g = k
        <4>1. CASE g = h
          BY <1>1, <1>3, <1>4, <1>7, <3>1, <4>1
        <4>2. CASE g \in handles
          BY <1>1, <1>3, <1>4, <3>2, <4>2 DEF BaseInv, IdsInv, HandlesInv
        <4> QED BY <1>3, <4>1, <4>2
      <3> QED BY <1>3, <3>3 DEF HandlesInv
    <2>4. OwnersInv'
      <3>1. ASSUME NEW i \in Positions, table'[i].local # 0
            PROVE  \E g \in handles' : g.slot = i /\ g.local = table'[i].local
        <4>1. CASE i = i0
          BY <1>3, <1>4, <1>7, <4>1
        <4>2. CASE i # i0
          <5>1. NoChannel # [slot |-> i, local |-> table[i].local]
            <6>1. i # 0
              BY ConnectionAssumption DEF Positions, BaseInv, ConnTypeOK
            <6> QED BY <6>1 DEF NoChannel
          <5>2. \E g \in handles : g.slot = i /\ g.local = table[i].local
            BY <1>3, <1>7, <3>1, <4>2, <5>1 DEF BaseInv, IdsInv, OwnersInv, NoIncoming
          <5> QED BY <1>3, <1>7, <4>2, <5>2
        <4> QED BY <4>1, <4>2
      <3> QED BY <1>3, <3>1 DEF OwnersInv
    <2> QED BY <2>1, <2>2, <2>3, <2>4 DEF IdsInv
  <1>10. PacketsInv'
    BY <1>3, KeepPackets DEF BaseInv
  <1>11. \A x : (HasSlot(x) => HasSlot(x)') /\ (HasSlot(x)' => HasSlot(x) \/ x = q)
    BY <1>1, <1>3, <1>7 DEF HasSlot
  <1>12. /\ \A r : OnWire(r)' <=> OnWire(r)
         /\ \A j, k \in DOMAIN in' :
                in'[j].cmd = "OPEN" /\ in'[k].cmd = "OPEN" /\ in'[j].remote = in'[k].remote => j = k
         /\ \A k \in DOMAIN in : in[k] # p => \E j \in DOMAIN in' : in'[j] = in[k]
    BY <1>3, ArriveOthers
  <1>13. incoming.pending = 0 /\ \A r \in Requests : r # 0 /\ r \in Ids
    BY <1>3, IdsAre DEF NoIncoming
  <1>14. PlacesInv'
    <2>1. ~OnWire(q)
      <3>1. \A k \in DOMAIN in : in[k].cmd = "OPEN" => device[in[k].remote].local = 0
        BY DEF BaseInv, PacketsInv, PacketOK
      <3> QED BY <1>1, <1>6, <3>1 DEF OnWire
    <2>2. q \in Requests => ~In(queue, q)
      BY <1>1, <1>6, ArrivesIs DEF BaseInv, PlacesInv
    <2> QED BY <1>3, <1>11, <1>12, <1>13, <2>1, <2>2 DEF BaseInv, PlacesInv
  <1>15. CallInv' /\ call' \in CallStates /\ call'.pc = "idle"
    BY <1>3, CallReturns, ReturnsIs DEF BaseInv
  <1>16. ConnTypeOK' /\ DesyncInv'
    <2>1. handles' \subseteq [slot : Positions, local : 1 .. MaxLocal, remote : Ids]
      BY <1>3, <1>5 DEF BaseInv, ConnTypeOK
    <2>2. /\ stored' \in [Positions -> Seq(Bytes)] /\ got' \in [1 .. MaxLocal -> Seq(Bytes)]
          /\ queue' \in Seq(Requests)
      BY <1>3 DEF BaseInv, ConnTypeOK
    <2> QED BY <1>1, <1>15, <2>1, <2>2, ArriveTypes
  <1>17. \A c : ~Sending(c, "CLSE")
    BY <1>3 DEF Sending
  <1>18. OrphanInv'
    <2>1. ASSUME NEW c \in Ids, device[c].state = "open", ~gone
          PROVE  HasSlot(c)' \/ \E k \in DOMAIN in' : in'[k].cmd = "READY" /\ in'[k].remote = c
      <3>1. \A x : x = q => HasSlot(x)'
        BY <1>1, <1>3, <1>6, <1>7 DEF HasSlot
      <3>2. CASE c = q
        BY <3>1, <3>2
      <3>3. CASE c # q
        <4>1. p.remote # c
          BY <3>3 DEF q
        <4> QED BY <1>3, <1>11, <1>12, <1>17, <2>1, <4>1 DEF BaseInv, OrphanInv
      <3> QED BY <3>2, <3>3
    <2> QED BY <1>3, <2>1 DEF OrphanInv
  <1>19. LostInv'
    BY <1>3, <1>12, <1>13, <1>17 DEF BaseInv, LostInv
  <1> QED BY <1>8, <1>9, <1>10, <1>14, <1>15, <1>16, <1>18, <1>19 DEF BaseInv

(* The other packets a call waits for.                                     *)
OpenFails(p) ==
    /\ call.op = "open" /\ p.local = call.ch.local /\ UNCHANGED <<table, stored, queue, handles, got>>
    /\ \/ p.cmd = "CLSE" /\ call' = Returns("err")
       \/ p.cmd = "READY" /\ call' = Sends(close(call.ch.local, p.remote), "short")

Delivers(p) ==
    LET s == table[call.ch.slot]
        n == Len(p.data)
    IN /\ call.op = "read" /\ p.cmd = "WRTE" /\ p.local = call.ch.local /\ n <= call.want
       /\ HandsOver(p.data) /\ UNCHANGED <<stored, queue, handles>>
       /\ table' = [table EXCEPT ![call.ch.slot].unacked =
                      IF s.ack = "Classic" /\ s.rx_buf < rx_watermark THEN 0 ELSE s.unacked]
       /\ call' = IF deliver_ack(s, n) = NoAck THEN Returns("ok")
                  ELSE Sends(Frame("OKAY", s.local, s.remote, deliver_ack(s, n)), "delivered")

Closes(p) ==
    /\ call.op \in {"read", "write"} /\ closed_by(p, table[call.ch.slot])
    /\ table' = [table EXCEPT ![call.ch.slot] = apply_close(table[call.ch.slot])]
    /\ call' = Returns("err") /\ UNCHANGED <<stored, queue, handles, got>>

Acked(p) ==
    /\ call.op = "write" /\ p.cmd = "READY" /\ p.local = call.ch.local
    /\ UNCHANGED <<stored, queue, handles, got>>
    /\ \/ ready_is_short(table[call.ch.slot], p.len) /\ call' = Returns("err") /\ table' = table
       \/ /\ ~ready_is_short(table[call.ch.slot], p.len)
          /\ table' = [table EXCEPT ![call.ch.slot] = apply_ready(table[call.ch.slot], p.len)]
          /\ call' = [call EXCEPT !.pc = "top"]

(* A packet is dispatched or is the waiting call's own.                    *)
LEMMA ReceiveIs ==
    ASSUME BaseInv, Receive
    PROVE  \E p : /\ Arrives(p)
                  /\ \/ ~IsOwn(p) /\ Dispatches(p)
                     \/ OpensWith(p) \/ OpenFails(p) \/ Delivers(p) \/ Closes(p) \/ Acked(p)
  <1>1. PICK p : p = Head(in)
    OBVIOUS
  <1>2. Arrives(p)
    BY <1>1 DEF Receive, Arrives
  <1>3. call.op \in {"open", "read", "write", "accept"} /\ p.cmd \in {"OPEN", "READY", "WRTE", "CLSE"}
    BY <1>2, ArrivesIs
  <1>4. CASE ~IsOwn(p)
    BY <1>1, <1>2, <1>4 DEF Receive
  <1>5. CASE IsOwn(p) /\ call.op = "open"
    <2>1. ReceiveOpen(p)
      BY <1>1, <1>5 DEF Receive
    <2>2. OpensWith(p) \/ OpenFails(p)
      BY <1>5, <2>1 DEF ReceiveOpen, OpensWith, OpenFails
    <2> QED BY <1>2, <2>2
  <1>6. CASE IsOwn(p) /\ call.op = "read"
    <2>1. ReceiveRead(p) /\ UNCHANGED <<stored, queue, handles>>
      BY <1>1, <1>6 DEF Receive
    <2>2. get(call.ch) = table[call.ch.slot] /\ table[call.ch.slot].local = call.ch.local /\ Live(call.ch.slot)
      BY <1>2, <1>6, UserIs DEF Arrives
    <2> DEFINE s == table[call.ch.slot]
    <2>3. table \in [Positions -> Slots] /\ call.ch.slot \in Positions
      BY <2>2 DEF BaseInv, ConnTypeOK, Live
    <2>4. Delivers(p) \/ Closes(p)
      <3>1. CASE /\ p.cmd = "WRTE" /\ p.local = s.local /\ Len(p.data) <= call.want
                 /\ HandsOver(p.data)
                 /\ table' = [table EXCEPT ![call.ch.slot].unacked = IF s.ack = "Classic" /\ s.rx_buf < rx_watermark
                                                   THEN 0 ELSE @]
                 /\ call' = IF deliver_ack(s, Len(p.data)) = NoAck THEN Returns("ok")
                            ELSE Sends(Frame("OKAY", s.local, s.remote, deliver_ack(s, Len(p.data))), "delivered")
        BY <1>6, <2>1, <2>2, <3>1 DEF Delivers
      <3>2. CASE /\ closed_by(p, s)
                 /\ table' = [table EXCEPT ![call.ch.slot] = apply_close(@)]
                 /\ call' = Returns("err")
                 /\ UNCHANGED got
        BY <1>6, <2>1, <2>2, <3>2 DEF Closes
      <3> QED BY <2>1, <2>2, <3>1, <3>2 DEF ReceiveRead
    <2> QED BY <1>2, <2>4
  <1>7. CASE IsOwn(p) /\ call.op \notin {"open", "read"}
    <2>1. call.op = "write"
      BY <1>3, <1>7 DEF IsOwn
    <2>2. ReceiveAck(p) /\ UNCHANGED <<stored, queue, handles, got>>
      BY <1>1, <1>7 DEF Receive
    <2>3. get(call.ch) = table[call.ch.slot] /\ table[call.ch.slot].local = call.ch.local
      BY <1>2, <2>1, UserIs DEF Arrives
    <2>4. Acked(p) \/ Closes(p)
      BY <2>1, <2>2, <2>3 DEF ReceiveAck, Acked, Closes
    <2> QED BY <1>2, <2>4
  <1> QED BY <1>4, <1>5, <1>6, <1>7

(* The packet names the channel of the call.                               *)
LEMMA OwnNamed ==
    ASSUME BaseInv, NEW p, Arrives(p), Delivers(p) \/ Closes(p) \/ Acked(p)
    PROVE  /\ call.ch.slot \in Named(p) /\ call.op \in {"read", "write"} /\ call.pc = "recv"
           /\ call.ch.local \in 1 .. MaxLocal /\ table[call.ch.slot].local = call.ch.local
           /\ call.want \in Nat \ {0} /\ Live(call.ch.slot) /\ table[call.ch.slot].remote = p.remote
  <1>1. call.op \in {"read", "write"} /\ call.pc = "recv"
    BY DEF Delivers, Closes, Acked, Arrives
  <1>2. /\ Live(call.ch.slot) /\ table[call.ch.slot].local = call.ch.local /\ call.ch.local \in 1 .. MaxLocal
        /\ call.want \in Nat \ {0}
    BY <1>1, UserIs
  <1>3. table[call.ch.slot] # NoSlot /\ call.ch.local # 0
    BY <1>2, LiveIs
  <1>4. call.ch.slot \in Named(p)
    BY <1>2, <1>3 DEF Named, Live, Delivers, Closes, Acked, closed_by
  <1> QED BY <1>1, <1>2, <1>4, NamedIs

(* A packet changes the one slot it names.                                 *)
LEMMA SlotArrives ==
    ASSUME BaseInv, NEW p, Arrives(p), NEW i \in Named(p), NEW t \in Slots, NEW b \in Seq(Bytes),
           SlotMoves(i, t, b), t.local = table[i].local, t.remote = table[i].remote, t.ack = ack,
           t.state # "Opening", t.settled <= t.rx_buf, held(t) <= rx_cap, Len(b) = t.rx_buf,
           UNCHANGED <<queue, handles>>, got' \in [1 .. MaxLocal -> Seq(Bytes)],
           Keeps => CallInv' /\ call' \in CallStates
    PROVE  BaseInv'
  <1>1. Live(i) /\ p.cmd # "OPEN" /\ HasSlot(p.remote)
    BY NamedIs
  <1>2. UNCHANGED <<ack, scenario, next_local_id, incoming>> /\ SameDevice
    BY ArrivesIs DEF Arrives
  <1>3. SlotsInv' /\ SameTable /\ table' \in [Positions -> Slots] /\ stored' \in [Positions -> Seq(Bytes)]
    BY <1>1, <1>2, OneSlot DEF SlotMoves
  <1>4. CallInv' /\ call' \in CallStates
    BY <1>2, <1>3 DEF Keeps
  <1> QED BY <1>1, <1>3, <1>4, ArriveQuiet

(* An open is refused, or answered with a READY too short.                 *)
LEMMA OpenFailsStep ==
    ASSUME BaseInv, NEW p, Arrives(p), OpenFails(p)
    PROVE  BaseInv'
  <1>1. /\ p.remote \in Ids /\ SameDevice /\ incoming = NoIncoming /\ PacketOK(p)
        /\ UNCHANGED <<ack, scenario, next_local_id, incoming>> /\ incoming' = NoIncoming
    BY ArrivesIs DEF Arrives
  <1>2. UNCHANGED <<table, stored, queue, handles, got>> /\ call.op = "open" /\ p.local = call.ch.local
    BY DEF OpenFails
  <1>3. SlotsInv' /\ SameTable
    BY <1>1, <1>2, SameSlots
  <1>4. Keeps
    BY <1>1, <1>2, <1>3 DEF Keeps
  <1>5. /\ table' \in [Positions -> Slots] /\ stored' \in [Positions -> Seq(Bytes)]
        /\ got' \in [1 .. MaxLocal -> Seq(Bytes)]
    BY <1>2 DEF BaseInv, ConnTypeOK
  <1>6. CASE p.cmd = "CLSE" /\ call' = Returns("err")
    <2>1. CallInv' /\ call' \in CallStates
      BY <1>1, <1>2, <1>6, CallReturns, ReturnsIs DEF BaseInv
    <2> QED BY <1>2, <1>3, <1>5, <1>6, <2>1, ArriveQuiet
  <1>7. CASE p.cmd = "READY" /\ call' = Sends(close(call.ch.local, p.remote), "short")
    <2> DEFINE f == close(call.ch.local, p.remote)
    <2>1. f \in Frames /\ f.cmd = "CLSE" /\ f.remote = p.remote
      <3>1. call.ch.local \in 0 .. MaxLocal
        BY DEF BaseInv, ConnTypeOK, CallStates, ChannelIds
      <3> QED BY <1>1, <3>1, CloseIs
    <2> HIDE DEF f
    <2>2. call' = Sends(f, "short") /\ "short" \in Afters
      BY <1>7 DEF f, Afters
    <2>3. /\ call' \in CallStates /\ call'.pc = "send" /\ call'.frame = f /\ call'.after = "short"
          /\ call'.op = "open" /\ call'.ch = call.ch
      BY <1>2, <2>1, <2>2, SendsIs DEF BaseInv
    <2>4. Sending(p.remote, "CLSE")'
      BY <2>1, <2>3 DEF Sending
    <2>5. device[p.remote].state \in {"open", "closed"}
      BY <1>1, <1>7 DEF PacketOK
    <2>6. CallInv'
      <3>1. PcInv' /\ AnswerInv' /\ UseInv'
        BY <1>1, <2>3 DEF PcInv, AnswerInv, UseInv
      <3>2. OpenInv'
        <4>1. Positions' = Positions
          BY <1>1, TypesKept
        <4> QED BY <1>1, <1>2, <2>3, <4>1 DEF OpenInv, BaseInv, CallInv
      <3>3. device'[p.remote].state \in {"open", "closed"}
        BY <1>1, <2>5 DEF SameDevice
      <3>4. FrameInv'
        BY <1>1, <2>1, <2>3, <3>3 DEF FrameInv
      <3> QED BY <3>1, <3>2, <3>4 DEF CallInv
    <2> QED BY <1>2, <1>3, <1>5, <1>7, <2>3, <2>4, <2>6, ArriveQuiet
  <1> QED BY <1>6, <1>7 DEF OpenFails

(* The slot of a packet that goes straight to its reader.                  *)
LEMMA DeliverSlotIs ==
    ASSUME NEW s \in Slots, NEW t,
           t = [s EXCEPT !.unacked = IF s.ack = "Classic" /\ s.rx_buf < rx_watermark THEN 0 ELSE s.unacked]
    PROVE  /\ t \in Slots /\ SameChannel(s, t) /\ SameBudget(s, t) /\ t.state = s.state
           /\ t.rx_buf = s.rx_buf /\ t.settled = s.settled /\ held(t) = held(s)
           /\ t.unacked = IF s.ack = "Classic" /\ s.rx_buf < rx_watermark THEN 0 ELSE s.unacked
  <1> DEFINE u == IF s.ack = "Classic" /\ s.rx_buf < rx_watermark THEN 0 ELSE s.unacked
  <1>1. u \in Nat /\ t = [s EXCEPT !.unacked = u]
    BY DEF Slots
  <1> HIDE DEF u
  <1>2. /\ t \in Slots /\ SameChannel(s, t) /\ SameBudget(s, t) /\ t.state = s.state
        /\ t.rx_buf = s.rx_buf /\ t.settled = s.settled /\ t.unacked = u
    BY <1>1 DEF Slots, SameChannel, SameBudget
  <1> QED BY <1>2 DEF held, u

(* The acknowledgement of a packet that goes straight to its reader.       *)
LEMMA DeliverAckIs ==
    ASSUME NEW s \in Slots, NEW n \in Nat, deliver_ack(s, n) # NoAck
    PROVE  /\ deliver_ack(s, n) \in Nat
           /\ IF s.ack = "Delayed" THEN deliver_ack(s, n) = n /\ n > 0
              ELSE s.rx_buf < rx_watermark /\ deliver_ack(s, n) = s.unacked
  <1>1. s.rx_buf \in Nat /\ s.unacked \in Nat /\ rx_watermark \in Nat
    BY Limits DEF Slots
  <1> QED BY <1>1 DEF deliver_ack

(* A WRTE goes straight to the read that waits.                            *)
LEMMA DeliversStep ==
    ASSUME BaseInv, NEW p, Arrives(p), Delivers(p)
    PROVE  BaseInv'
  <1> DEFINE i == call.ch.slot
             s == table[i]
             n == Len(p.data)
             t == [s EXCEPT !.unacked = IF s.ack = "Classic" /\ s.rx_buf < rx_watermark THEN 0 ELSE s.unacked]
  <1>1. /\ i \in Named(p) /\ call.op = "read" /\ call.pc = "recv" /\ call.ch.local \in 1 .. MaxLocal
        /\ s.local = call.ch.local /\ call.want \in Nat \ {0} /\ Live(i) /\ s.remote = p.remote
    BY OwnNamed DEF Delivers
  <1>2. /\ p.data \in Seq(Bytes) /\ n \in Nat /\ SameDevice /\ incoming = NoIncoming /\ incoming' = NoIncoming
        /\ UNCHANGED <<ack, scenario, next_local_id>>
    BY ArrivesIs DEF Arrives
  <1>3. /\ HandsOver(p.data) /\ UNCHANGED <<stored, queue, handles>>
        /\ table' = [table EXCEPT ![i] = t]
    <2>1. table \in [Positions -> Slots] /\ i \in Positions
      BY <1>1 DEF BaseInv, ConnTypeOK, Live
    <2> QED BY <2>1 DEF Delivers
  <1>4. /\ s \in Slots /\ s.local \in 1 .. MaxLocal /\ s.remote \in Ids /\ s.ack = ack
        /\ s.state \in {"Open", "Closed"} /\ s.settled <= s.rx_buf /\ held(s) <= rx_cap
        /\ stored[i] \in Seq(Bytes) /\ Len(stored[i]) = s.rx_buf
    BY <1>1, LiveIs
  <1>5. /\ t \in Slots /\ SameChannel(s, t) /\ t.state = s.state
        /\ t.rx_buf = s.rx_buf /\ t.settled = s.settled /\ held(t) = held(s)
    BY <1>4, DeliverSlotIs
  <1>6. SlotMoves(i, t, stored[i])
    <2>1. stored = [stored EXCEPT ![i] = stored[i]]
      BY DEF BaseInv, ConnTypeOK
    <2> HIDE DEF t
    <2> QED BY <1>3, <2>1 DEF SlotMoves
  <1>7. got' \in [1 .. MaxLocal -> Seq(Bytes)]
    BY <1>1, <1>2, <1>3, HandsOverIs DEF BaseInv
  <1>8. \/ call' = Returns("ok")
        \/ \E f \in Frames : f.cmd = "OKAY" /\ f.remote = s.remote /\ call' = Sends(f, "delivered")
    <2>1. CASE deliver_ack(s, n) # NoAck
      <3> DEFINE f == Frame("OKAY", s.local, s.remote, deliver_ack(s, n))
      <3>1. deliver_ack(s, n) \in Nat
        BY <1>2, <1>4, <2>1, DeliverAckIs
      <3>2. f \in Frames /\ f.cmd = "OKAY" /\ f.remote = s.remote
        <4> DEFINE a == s.local
                   b == s.remote
                   c == deliver_ack(s, n)
        <4>1. a \in 0 .. MaxLocal /\ b \in Ids \cup {0} /\ c \in Nat
          BY <1>4, <3>1
        <4> HIDE DEF a, b, c
        <4>2. LET g == Frame("OKAY", a, b, c) IN g \in Frames /\ g.cmd = "OKAY" /\ g.remote = b
          BY <4>1, FramesAre
        <4> QED BY <4>2 DEF a, b, c
      <3>3. call' = Sends(f, "delivered")
        BY <2>1 DEF Delivers
      <3> HIDE DEF f
      <3> QED BY <3>2, <3>3
    <2>2. CASE deliver_ack(s, n) = NoAck
      BY <2>2 DEF Delivers
    <2> QED BY <2>1, <2>2
  <1> HIDE DEF t
  <1>9. ASSUME Keeps PROVE CallInv' /\ call' \in CallStates
    <2>1. CASE call' = Returns("ok")
      BY <1>2, <1>3, <2>1, CallReturns, ReturnsIs DEF BaseInv
    <2>2. ASSUME NEW f \in Frames, f.cmd = "OKAY", f.remote = s.remote, call' = Sends(f, "delivered")
          PROVE  CallInv' /\ call' \in CallStates
      <3>1. /\ call' \in CallStates /\ call'.pc = "send" /\ call'.after = "delivered" /\ call'.op = "read"
            /\ call'.ch = call.ch /\ call'.want = call.want /\ call'.frame = f
        BY <1>1, <2>2, SendsIs DEF BaseInv, Afters
      <3>2. table'[i].local = table[i].local /\ table'[i].remote = table[i].remote
        BY <1>1, <1>9 DEF Keeps, SameTable, Live
      <3>3. PcInv' /\ AnswerInv' /\ OpenInv'
        BY <1>2, <3>1 DEF PcInv, AnswerInv, OpenInv
      <3>4. HandleOf(call.ch)
        BY <1>1 DEF BaseInv, CallInv, UseInv
      <3>5. UseInv'
        BY <1>1, <1>3, <3>1, <3>2, <3>4 DEF UseInv, HandleOf
      <3>6. FrameInv'
        BY <1>1, <2>2, <3>1, <3>2 DEF FrameInv
      <3> QED BY <3>1, <3>3, <3>5, <3>6 DEF CallInv
    <2> QED BY <1>8, <2>1, <2>2
  <1>10. t.local = s.local /\ t.remote = s.remote /\ t.ack = ack /\ t.state # "Opening"
         /\ t.settled <= t.rx_buf /\ held(t) <= rx_cap /\ Len(stored[i]) = t.rx_buf
    <2> HIDE DEF s
    <2> QED BY <1>4, <1>5 DEF SameChannel
  <1> HIDE DEF i, n
  <1> QED BY <1>1, <1>3, <1>4, <1>5, <1>6, <1>7, <1>9, <1>10, SlotArrives

(* The channel of the waiting call is closed by the device.                *)
LEMMA ClosesStep ==
    ASSUME BaseInv, NEW p, Arrives(p), Closes(p)
    PROVE  BaseInv'
  <1> DEFINE i == call.ch.slot
             s == table[i]
             t == apply_close(s)
  <1>1. i \in Named(p) /\ Live(i)
    BY OwnNamed
  <1>2. incoming' = NoIncoming /\ call' = Returns("err")
    BY ArrivesIs DEF Arrives, Closes
  <1>3. table' = [table EXCEPT ![i] = t] /\ UNCHANGED <<stored, queue, handles, got>>
    BY DEF Closes
  <1>4. /\ s \in Slots /\ s.ack = ack /\ s.settled <= s.rx_buf /\ held(s) <= rx_cap
        /\ stored[i] \in Seq(Bytes) /\ Len(stored[i]) = s.rx_buf
    BY <1>1, LiveIs
  <1>5. /\ t \in Slots /\ SameChannel(s, t) /\ t.state = "Closed"
        /\ t.rx_buf = s.rx_buf /\ t.settled = s.settled /\ held(t) = held(s)
    BY <1>4, CloseSlotIs
  <1> HIDE DEF t
  <1>6. SlotMoves(i, t, stored[i]) /\ got' \in [1 .. MaxLocal -> Seq(Bytes)]
    <2>1. stored = [stored EXCEPT ![i] = stored[i]]
      BY DEF BaseInv, ConnTypeOK
    <2> QED BY <1>3, <2>1 DEF SlotMoves, BaseInv, ConnTypeOK
  <1>7. CallInv' /\ call' \in CallStates
    BY <1>2, <1>3, CallReturns, ReturnsIs DEF BaseInv
  <1>8. t.local = s.local /\ t.remote = s.remote /\ t.ack = ack /\ t.state # "Opening"
        /\ t.settled <= t.rx_buf /\ held(t) <= rx_cap /\ Len(stored[i]) = t.rx_buf
    <2> HIDE DEF s
    <2> QED BY <1>4, <1>5 DEF SameChannel
  <1> HIDE DEF i
  <1> QED BY <1>1, <1>3, <1>4, <1>5, <1>6, <1>7, <1>8, SlotArrives

(* The READY that a write waits for arrives.                               *)
LEMMA AckedStep ==
    ASSUME BaseInv, NEW p, Arrives(p), Acked(p)
    PROVE  BaseInv'
  <1> DEFINE i == call.ch.slot
             s == table[i]
             t == apply_ready(s, p.len)
  <1>1. i \in Named(p) /\ Live(i) /\ call.op = "write" /\ call.pc = "recv"
    BY OwnNamed DEF Acked
  <1>2. incoming = NoIncoming /\ incoming' = NoIncoming /\ p.len \in Int /\ UNCHANGED <<stored, queue, handles, got>>
    BY ArrivesIs DEF Arrives, Acked
  <1>3. /\ s \in Slots /\ s.ack = ack /\ s.settled <= s.rx_buf /\ held(s) <= rx_cap
        /\ stored[i] \in Seq(Bytes) /\ Len(stored[i]) = s.rx_buf /\ s.state \in {"Open", "Closed"}
    BY <1>1, LiveIs
  <1>4. stored = [stored EXCEPT ![i] = stored[i]] /\ got' \in [1 .. MaxLocal -> Seq(Bytes)]
    BY <1>2 DEF BaseInv, ConnTypeOK
  <1>5. CASE call' = Returns("err") /\ table' = table
    <2>1. SlotMoves(i, s, stored[i])
      <3>1. table = [table EXCEPT ![i] = s]
        BY DEF BaseInv, ConnTypeOK
      <3> HIDE DEF s
      <3> QED BY <1>2, <1>4, <1>5, <3>1 DEF SlotMoves
    <2>2. CallInv' /\ call' \in CallStates
      BY <1>2, <1>5, CallReturns, ReturnsIs DEF BaseInv
    <2>3. s.state # "Opening"
      BY <1>3
    <2> HIDE DEF i
    <2> QED BY <1>1, <1>2, <1>3, <1>4, <2>1, <2>2, <2>3, SlotArrives
  <1>6. CASE table' = [table EXCEPT ![i] = t] /\ call' = [call EXCEPT !.pc = "top"]
    <2>1. /\ t \in Slots /\ SameChannel(s, t) /\ t.state = s.state
          /\ t.rx_buf = s.rx_buf /\ t.settled = s.settled /\ held(t) = held(s)
      BY <1>2, <1>3, ReadySlotIs, SMTT(60)
    <2> HIDE DEF t
    <2>2. SlotMoves(i, t, stored[i])
      BY <1>2, <1>4, <1>6 DEF SlotMoves
    <2>3. call' \in CallStates
      BY <1>6 DEF BaseInv, ConnTypeOK, CallStates
    <2>4. Keeps => CallInv'
      BY <1>1, <1>2, <1>6, CallLoops DEF BaseInv
    <2>5. t.local = s.local /\ t.remote = s.remote /\ t.ack = ack /\ t.state # "Opening"
          /\ t.settled <= t.rx_buf /\ held(t) <= rx_cap /\ Len(stored[i]) = t.rx_buf
      <3> HIDE DEF s
      <3> QED BY <1>3, <2>1 DEF SameChannel
    <2> HIDE DEF i
    <2> QED BY <1>1, <1>2, <1>3, <1>4, <2>1, <2>2, <2>3, <2>4, <2>5, SlotArrives
  <1> QED BY <1>5, <1>6 DEF Acked

(* A packet is received.                                                   *)
LEMMA ReceiveStep ==
    ASSUME BaseInv, Receive
    PROVE  BaseInv'
  <1>1. PICK p : /\ Arrives(p)
                 /\ \/ ~IsOwn(p) /\ Dispatches(p)
                    \/ OpensWith(p) \/ OpenFails(p) \/ Delivers(p) \/ Closes(p) \/ Acked(p)
    BY ReceiveIs
  <1>2. CASE Dispatches(p)
    BY <1>1, <1>2, DispatchesIs, ToSlotStep, ToNoneStep
  <1> QED BY <1>1, <1>2, OpensStep, OpenFailsStep, DeliversStep, ClosesStep, AckedStep

(* A new connection has the invariant of the channels.                     *)
LEMMA InitBase ==
    ASSUME Init
    PROVE  BaseInv
  <1>1. scenario.channels \in Nat \ {0} /\ scenario \in Scenarios /\ ack \in {"Classic", "Delayed"} /\ ack \in AckModes
    BY ConnectionAssumption, ConfigAssumption DEF Init
  <1>2. /\ table = [i \in Positions |-> NoSlot] /\ stored = [i \in Positions |-> <<>>]
        /\ next_local_id = 1 /\ queue = <<>> /\ call = NoCall /\ incoming = NoIncoming /\ in = <<>>
        /\ handles = {} /\ got = [l \in 1 .. MaxLocal |-> <<>>]
        /\ desync = FALSE /\ gone = FALSE /\ cut = "none" /\ garbled = FALSE
        /\ device = [c \in Ids |-> [state |-> "unused", local |-> 0, asb |-> 0, sent |-> 0,
                                owes |-> 0, has |-> 0]]
    BY DEF Init
  <1>3. call.op = "none" /\ call.pc = "idle" /\ call \in CallStates
    BY <1>1, <1>2, NoCallIs
  <1>4. \A i \in Positions : table[i] = NoSlot /\ table[i].local = 0 /\ table[i] \in Slots /\ table[i].rx_buf = 0
    BY <1>2, NoSlotIs
  <1>5. \A c \in Ids : device[c].local = 0 /\ device[c].state = "unused"
    BY <1>2
  <1>6. ConnTypeOK
    <2>1. device \in [Ids -> DeviceEnds]
      <3> DEFINE e == [state |-> "unused", local |-> 0, asb |-> 0, sent |-> 0, owes |-> 0, has |-> 0]
      <3>1. e \in DeviceEnds
        BY IdsAre DEF DeviceEnds
      <3> HIDE DEF e
      <3> QED BY <1>2, <3>1 DEF e
    <2>2. incoming \in [pending : Requests \cup {0}, reserved : ChannelIds]
      BY <1>1, <1>2, IdsAre DEF NoIncoming, NoChannel, ChannelIds
    <2>3. stored \in [Positions -> Seq(Bytes)] /\ got \in [1 .. MaxLocal -> Seq(Bytes)]
      BY <1>2, NothingIs
    <2>4. table \in [Positions -> Slots]
      BY <1>2, NoSlotIs
    <2>5. queue \in Seq(Requests) /\ in \in Seq(Inbound)
      BY <1>2
    <2>6. next_local_id \in 1 .. MaxLocal + 1
      BY <1>2, IdsAre
    <2> QED BY <1>1, <1>2, <1>3, <2>1, <2>2, <2>3, <2>4, <2>5, <2>6 DEF ConnTypeOK, Afters
  <1>7. SlotsInv
    BY <1>2, <1>4, NothingIs DEF SlotsInv, SlotOK
  <1>8. IdsInv
    BY <1>2, <1>4, <1>5 DEF IdsInv, EndsInv, TableInv, HandlesInv, OwnersInv
  <1>9. Len(queue) = 0 /\ DOMAIN in = {} /\ (\A x : ~In(queue, x)) /\ Once(queue)
    BY <1>2 DEF In, Once
  <1>10. PacketsInv
    BY <1>9 DEF PacketsInv
  <1>11. PlacesInv
    <2>1. \A r \in Requests : r # 0
      BY IdsAre
    <2>2. incoming.pending = 0 /\ 0 + 0 <= scenario.channels
      BY <1>1, <1>2 DEF NoIncoming
    <2> QED BY <1>4, <1>9, <2>1, <2>2 DEF PlacesInv, OnWire
  <1>12. CallInv
    BY <1>2, <1>3 DEF CallInv, PcInv, AnswerInv, OpenInv, UseInv, FrameInv
  <1>13. DesyncInv /\ OrphanInv /\ LostInv
    <2>1. \A r \in Requests : r \in Ids
      BY IdsAre
    <2> QED BY <1>2, <1>3, <1>5, <2>1 DEF DesyncInv, OrphanInv, LostInv
  <1> QED BY <1>6, <1>7, <1>8, <1>10, <1>11, <1>12, <1>13 DEF BaseInv

(* Every step keeps the invariant of the channels.                         *)
LEMMA BaseStep ==
    ASSUME BaseInv, [Next]_connVars
    PROVE  BaseInv'
  <1>1. CASE UNCHANGED connVars
    BY <1>1, BaseStutters
  <1>2. ASSUME NEW c \in Ids, DeviceActs(c)
        PROVE  BaseInv'
    BY <1>2, DevicePktIs, DevicePktStep
  <1>3. CASE StartOpen \/ StartRead \/ StartWrite \/ StartAccept \/ StartClose \/ HandOver
    BY <1>3, OpenStart, StartUse, StartAccepting, CloseStart, HandOverStep
  <1>4. CASE Accept \/ Reject \/ Undecided \/ Take \/ Chunk
    BY <1>4, AcceptStep, Rejected, UndecidedStep, TakeStep, Chunked
  <1>5. CASE Send \/ SendFails \/ SendDropped \/ Receive \/ ReceiveFails \/ ReceiveDropped \/ TransportFails
    BY <1>5, SendStep, SendDroppedStep, ReceiveStep, ReceiveEnds, TransportStep
  <1> QED BY <1>1, <1>2, <1>3, <1>4, <1>5 DEF Next, DeviceActs

(* The invariant of the channels.                                          *)
LEMMA BaseHolds == ConnSpec => []BaseInv
  <1>1. Init => BaseInv
    BY InitBase
  <1>2. BaseInv /\ [Next]_connVars => BaseInv'
    BY BaseStep
  <1> QED BY <1>1, <1>2, PTL DEF ConnSpec

(* The invariant of the channels says that they are exact.                 *)
LEMMA ChannelsAre ==
    ASSUME BaseInv
    PROVE  ChannelsExact
  <1>1. \A i \in Positions : table[i] = NoSlot <=> table[i].local = 0
    BY FreeIs DEF BaseInv
  <1>2. NoOrphan
    <2>1. ASSUME NEW c \in Ids, HasSlot(c) PROVE SlotsOf(c) # {}
      BY <1>1, <2>1 DEF HasSlot, SlotsOf
    <2>2. ASSUME NEW c \in Ids, NEW k \in DOMAIN in, in[k].cmd = "READY", in[k].remote = c
          PROVE  InFlight(c, "READY") # {}
      BY <2>2 DEF InFlight
    <2> QED BY <2>1, <2>2 DEF NoOrphan, BaseInv, OrphanInv
  <1>3. NoRequestLost
    <2>1. ASSUME NEW r \in Requests, OnWire(r) PROVE InFlight(r, "OPEN") # {}
      BY <2>1 DEF OnWire, InFlight
    <2>2. \A r : In(queue, r) <=> \E k \in DOMAIN queue : queue[k] = r
      BY DEF In, BaseInv, ConnTypeOK
    <2>3. \A j, k \in DOMAIN queue : queue[j] = queue[k] => j = k
      <3>1. Once(queue) /\ DOMAIN queue = 1 .. Len(queue)
        BY DEF BaseInv, ConnTypeOK, PlacesInv
      <3> QED BY <3>1 DEF Once
    <2>4. \A r \in Requests : \A i, j \in SlotsOf(r) : i = j
      BY <1>1 DEF SlotsOf, BaseInv, IdsInv, TableInv
    <2> QED BY <2>1, <2>2, <2>3, <2>4 DEF NoRequestLost, BaseInv, LostInv, PlacesInv
  <1>4. NothingHeld
    <2>1. ASSUME NEW i \in Positions PROVE held(table[i]) <= rx_cap
      <3>1. CASE table[i].local = 0
        BY <1>1, <3>1, NoSlotIs, Limits
      <3>2. CASE table[i].local # 0
        BY <3>2 DEF BaseInv, SlotsInv, SlotOK
      <3> QED BY <3>1, <3>2
    <2>2. Len(queue) <= scenario.channels
      <3>1. Len(queue) \in Nat /\ scenario.channels \in Nat
        BY ConnectionAssumption DEF BaseInv, ConnTypeOK
      <3>2. Len(queue) + (IF incoming.pending = 0 THEN 0 ELSE 1) <= scenario.channels
        BY DEF BaseInv, PlacesInv
      <3> QED BY <3>1, <3>2
    <2> QED BY <1>1, <2>1, <2>2 DEF NothingHeld, BaseInv, IdsInv, OwnersInv
  <1> QED BY <1>2, <1>3, <1>4 DEF ChannelsExact

(* Host and device agree on the channels there are, whatever is dropped,   *)
(* cut, refused or withdrawn: neither side holds one that the other has    *)
(* forgotten, no request is lost or answered twice, and no slot outlives   *)
(* its handle or its Incoming (open_channel, Incoming, dispatch,           *)
(* ArmedWrite).                                                            *)
THEOREM ChannelsHold == ConnSpec => []ChannelsExact
  <1>1. BaseInv => ChannelsExact
    BY ChannelsAre
  <1> QED BY <1>1, BaseHolds, PTL
=============================================================================
