---------------------------- MODULE RxFlowProofs ----------------------------
(***************************************************************************)
(* Proofs about the receive flow of a channel, for every configuration,    *)
(* every number of reading tasks and every stream.                         *)
(***************************************************************************)
EXTENDS RxFlow, TLAPS

-----------------------------------------------------------------------------
(* The limits of a configuration leave room for a full packet above the    *)
(* credit and above the watermark (rx_cap, rx_ceiling, rx_watermark,       *)
(* advertised_ack_bytes).                                                  *)
LEMMA ConfigFacts ==
    /\ rx_cap \in Nat /\ rx_ceiling \in Nat /\ rx_watermark \in Nat \ {0}
    /\ advertised_ack_bytes \in Nat
    /\ rx_ceiling + MaxPayload = rx_cap + 1
    /\ rx_watermark <= rx_ceiling /\ advertised_ack_bytes <= rx_ceiling
  BY ConfigAssumption
     DEF rx_cap, rx_ceiling, rx_watermark, advertised_ack_bytes, AtLeast, AtMost

(* What settle_take does to a slot: the acknowledgement covers bytes the   *)
(* device had no OKAY for, and as many bytes or more leave `held`.         *)
LEMMA SettleFacts ==
    ASSUME NEW s \in Slots, NEW want \in Nat, s.settled <= s.rx_buf,
           settle_ack(s, want) # NoAck
    PROVE  /\ settle_ack(s, want) \in Nat /\ settle_take(s, want) \in Slots
           /\ s.settled = 0
           /\ settle_take(s, want).settled <= settle_take(s, want).rx_buf
           /\ settle_take(s, want).settled <= held(s)
           /\ settle_take(s, want).remote = s.remote
           /\ settle_take(s, want).failed = s.failed
           /\ settle_take(s, want).ack = s.ack
           /\ settle_take(s, want).state = s.state /\ settle_take(s, want).rx_buf = s.rx_buf
           /\ settle_take(s, want).unacked = s.unacked - settle_ack(s, want)
           /\ s.unacked > 0
           /\ held(settle_take(s, want)) <= held(s)
           /\ s.ack = "Delayed" =>
                settle_ack(s, want) + held(settle_take(s, want)) <= held(s)
           /\ s.ack = "Classic" =>
                /\ settle_ack(s, want) = s.unacked
                /\ held(settle_take(s, want)) < rx_watermark
  <1> DEFINE n == AtMost(want, s.rx_buf)
  <1>1. n \in Nat /\ n <= s.rx_buf /\ s.settled \in Nat /\ s.rx_buf \in Nat
        /\ s.unacked \in Nat
    BY DEF AtMost, Slots
  <1>2. /\ has_ids(s) /\ s.settled = 0
        /\ settle_ack(s, want) = ack_len(s, n, s.rx_buf - n)
    BY DEF settle_ack
  <1>3. /\ s.unacked # 0
        /\ ack_len(s, n, s.rx_buf - n) \in Nat
        /\ ack_len(s, n, s.rx_buf - n) <= s.unacked
        /\ s.ack = "Delayed" => ack_len(s, n, s.rx_buf - n) <= n
        /\ s.ack = "Classic" => /\ ack_len(s, n, s.rx_buf - n) = s.unacked
                                  /\ s.rx_buf - n < rx_watermark
    BY <1>1, <1>2, ConfigAssumption DEF ack_len, NoAck, AtMost, Slots
  <1>4. settle_take(s, want) =
          [s EXCEPT !.unacked = s.unacked - settle_ack(s, want), !.settled = n]
    BY DEF settle_take
  <1> HIDE DEF n
  <1>5. settle_take(s, want) \in Slots
    <2>1. s.unacked - settle_ack(s, want) \in Nat
      BY <1>1, <1>2, <1>3
    <2> QED BY <1>1, <1>4, <2>1 DEF Slots
  <1>6. held(s) = s.rx_buf /\ held(settle_take(s, want)) = s.rx_buf - n
        /\ settle_take(s, want).settled = n /\ settle_take(s, want).rx_buf = s.rx_buf
        /\ settle_take(s, want).unacked = s.unacked - settle_ack(s, want)
        /\ settle_take(s, want).remote = s.remote
        /\ settle_take(s, want).failed = s.failed
        /\ settle_take(s, want).ack = s.ack /\ settle_take(s, want).state = s.state
    BY <1>1, <1>2, <1>4 DEF held, Slots
  <1> QED BY <1>1, <1>2, <1>3, <1>5, <1>6, ConfigFacts

(* What take_buffered does to a slot: it never takes what is not there,    *)
(* and bytes set aside for a read are the only ones it may take while      *)
(* there are any.                                                          *)
LEMMA TakeFacts ==
    ASSUME NEW s \in Slots, NEW want \in Nat, s.settled <= s.rx_buf
    PROVE  /\ take_len(s, want) \in Nat /\ take_buffered(s, want) \in Slots
           /\ take_buffered(s, want).settled <= take_buffered(s, want).rx_buf
           /\ take_buffered(s, want).settled <= s.settled
           /\ held(take_buffered(s, want)) <= held(s)
           /\ held(take_buffered(s, want)) \in Nat
           /\ take_buffered(s, want).remote = s.remote
           /\ take_buffered(s, want).failed = s.failed
           /\ take_buffered(s, want).ack = s.ack
           /\ take_buffered(s, want).state = s.state
           /\ take_buffered(s, want).rx_buf <= s.rx_buf
           /\ take_buffered(s, want).unacked = s.unacked
  <1> DEFINE n == take_len(s, want)
  <1>1. s.settled \in Nat /\ s.rx_buf \in Nat
    BY DEF Slots
  <1>2. /\ n \in Nat /\ n <= s.rx_buf
        /\ s.settled # 0 => n <= s.settled
    BY <1>1 DEF take_len, AtMost
  <1>3. take_buffered(s, want) =
          [s EXCEPT !.rx_buf = s.rx_buf - n, !.settled = s.settled - AtMost(n, s.settled)]
    BY DEF take_buffered
  <1> HIDE DEF n
  <1>4. /\ s.rx_buf - n \in Nat
        /\ s.settled - AtMost(n, s.settled) \in Nat
        /\ s.settled - AtMost(n, s.settled) <= s.rx_buf - n
        /\ s.settled - AtMost(n, s.settled) <= s.settled
        /\ (s.rx_buf - n) - (s.settled - AtMost(n, s.settled)) <= s.rx_buf - s.settled
        /\ (s.rx_buf - n) - (s.settled - AtMost(n, s.settled)) \in Nat
    BY <1>1, <1>2 DEF AtMost
  <1>5. /\ take_buffered(s, want) \in Slots
        /\ take_buffered(s, want).rx_buf = s.rx_buf - n
        /\ take_buffered(s, want).settled = s.settled - AtMost(n, s.settled)
        /\ take_buffered(s, want).remote = s.remote
        /\ take_buffered(s, want).failed = s.failed
        /\ take_buffered(s, want).ack = s.ack
        /\ take_buffered(s, want).state = s.state
        /\ take_buffered(s, want).unacked = s.unacked
    BY <1>3, <1>4 DEF Slots
  <1>6. s.rx_buf - n <= s.rx_buf
    BY <1>1, <1>2
  <1> QED BY <1>2, <1>4, <1>5, <1>6 DEF held, n

(* What apply_write does to a slot it does not overflow.                   *)
LEMMA WriteFacts ==
    ASSUME NEW s \in Slots, NEW len \in Nat, s.settled <= s.rx_buf,
           ~rx_overflows(s, len)
    PROVE  /\ apply_write(s, len) \in Slots
           /\ apply_write(s, len).settled = s.settled
           /\ apply_write(s, len).rx_buf = s.rx_buf + len
           /\ held(apply_write(s, len)) = held(s) + len
           /\ held(apply_write(s, len)) <= rx_cap
           /\ apply_write(s, len).remote = s.remote
           /\ apply_write(s, len).failed = s.failed
           /\ apply_write(s, len).ack = s.ack
           /\ apply_write(s, len).state = s.state
           /\ apply_write(s, len).unacked =
                IF acks_write_now(s, len) THEN 0 ELSE s.unacked + len
  <1> DEFINE u == IF acks_write_now(s, len) THEN 0 ELSE s.unacked + len
  <1>1. s.settled \in Nat /\ s.rx_buf \in Nat /\ s.rx_buf + len \in Nat /\ u \in Nat
    BY DEF Slots
  <1>2. apply_write(s, len) = [s EXCEPT !.rx_buf = s.rx_buf + len, !.unacked = u]
    BY DEF apply_write
  <1>3. s.rx_buf - s.settled + len <= rx_cap
    BY <1>1, ConfigFacts DEF rx_overflows, held
  <1> HIDE DEF u
  <1>4. /\ apply_write(s, len) \in Slots
        /\ apply_write(s, len).settled = s.settled
        /\ apply_write(s, len).rx_buf = s.rx_buf + len
        /\ apply_write(s, len).remote = s.remote
        /\ apply_write(s, len).failed = s.failed
        /\ apply_write(s, len).ack = s.ack
        /\ apply_write(s, len).state = s.state
        /\ apply_write(s, len).unacked = u
    BY <1>1, <1>2 DEF Slots
  <1> QED BY <1>1, <1>3, <1>4, ConfigFacts DEF held, u

-----------------------------------------------------------------------------
(* The packets of a channel with one more behind.                          *)
LEMMA AppendFacts ==
    ASSUME NEW S, NEW s \in Seq(S), NEW e \in S
    PROVE  /\ Append(s, e) \in Seq(S) /\ Len(s) \in Nat
           /\ DOMAIN s = 1 .. Len(s) /\ DOMAIN Append(s, e) = 1 .. Len(s) + 1
           /\ Append(s, e)[Len(s) + 1] = e
           /\ \A i \in DOMAIN s : Append(s, e)[i] = s[i] /\ s[i] \in S
  OBVIOUS

(* The packets of a channel without the first.                             *)
LEMMA TailFacts ==
    ASSUME NEW S, NEW s \in Seq(S), s # <<>>
    PROVE  /\ Tail(s) \in Seq(S) /\ Len(s) \in Nat \ {0} /\ Head(s) = s[1]
           /\ DOMAIN s = 1 .. Len(s) /\ DOMAIN Tail(s) = 1 .. Len(s) - 1
           /\ 1 \in DOMAIN s /\ Len(Tail(s)) = Len(s) - 1
           /\ \A i \in DOMAIN Tail(s) : i + 1 \in DOMAIN s /\ Tail(s)[i] = s[i + 1]
           /\ \A i \in DOMAIN s : s[i] \in S
  <1>1. Len(s) \in Nat /\ Len(s) # 0 /\ DOMAIN s = 1 .. Len(s)
    OBVIOUS
  <1> QED BY <1>1

(* Waking the channel's signal changes nothing about a task but its        *)
(* listener.                                                               *)
LEMMA WakeFacts ==
    ASSUME NEW ts \in [Tasks -> TaskStates]
    PROVE  /\ wake(ts) \in [Tasks -> TaskStates]
           /\ \A t \in Tasks : /\ wake(ts)[t].pc = ts[t].pc
                               /\ wake(ts)[t].want = ts[t].want
                               /\ wake(ts)[t].ack = ts[t].ack
  BY DEF wake, TaskStates

(* The records the steps of a read put in a task, and putting them there.  *)
LEMMA TaskFacts ==
    ASSUME NEW r \in TaskStates
    PROVE  /\ r.want \in Nat
           /\ [r EXCEPT !.pc = "lock"] \in TaskStates
           /\ [r EXCEPT !.pc = "none"] \in TaskStates
           /\ [r EXCEPT !.pc = "park"] \in TaskStates
           /\ [r EXCEPT !.pc = "take"] \in TaskStates
           /\ [r EXCEPT !.listener = "none", !.pc = "take"] \in TaskStates
           /\ [r EXCEPT !.listener = "armed", !.pc = "take"] \in TaskStates
           /\ [r EXCEPT !.pc = "take", !.ack = NoAck] \in TaskStates
           /\ \A n \in Nat : [r EXCEPT !.pc = "send", !.ack = n] \in TaskStates
           /\ IdleTask \in TaskStates
           /\ \A w \in Wants : [IdleTask EXCEPT !.pc = "take", !.want = w] \in TaskStates
  <1>1. Wants \cup {0} \subseteq Nat
    BY RxFlowAssumption
  <1>2. r.want \in Nat
    BY <1>1 DEF TaskStates
  <1> QED BY <1>2 DEF TaskStates, IdleTask, NoAck

(* A task state put in place of another keeps the type of `task`.          *)
LEMMA PutTask ==
    ASSUME NEW ts \in [Tasks -> TaskStates], NEW t \in Tasks, NEW r \in TaskStates
    PROVE  [ts EXCEPT ![t] = r] \in [Tasks -> TaskStates]
  OBVIOUS

(* The slot of a channel that was just opened.                             *)
LEMMA AcceptedFacts ==
    ASSUME NEW mode \in {"Classic", "Delayed"}, NEW id \in Nat, NEW rid \in Nat, NEW credit \in Int
    PROVE  LET s == accepted(id, rid, credit, mode)
           IN /\ s \in Slots /\ s.remote = rid /\ ~s.failed
              /\ s.rx_buf = 0 /\ s.settled = 0 /\ s.unacked = 0
  <1> DEFINE o == opening(id, mode)
             i == IF mode = "Delayed" THEN credit ELSE 0
  <1>1. o \in Slots /\ ~o.failed /\ o.rx_buf = 0 /\ o.settled = 0 /\ o.unacked = 0
    BY DEF opening, Slots, NoRemote
  <1>2. accepted(id, rid, credit, mode) =
          [o EXCEPT !.remote = rid, !.state = "Open", !.send_budget = i]
    BY DEF accepted
  <1>3. i \in Int
    OBVIOUS
  <1> HIDE DEF o, i
  <1> QED BY <1>1, <1>2, <1>3 DEF Slots

(* The invariant holds initially: an open channel nothing was sent on.     *)
LEMMA InitInv == Init => TypeOK /\ FlowInv
  <1> SUFFICES ASSUME Init PROVE TypeOK /\ FlowInv
    OBVIOUS
  <1>1. /\ slot \in Slots /\ has_ids(slot) /\ held(slot) = 0 /\ slot.settled = 0
        /\ slot.rx_buf = 0 /\ ~slot.failed /\ slot.unacked = 0
    <2>1. \E mode \in AckModes : slot = accepted(1, 1, 0, mode)
      BY DEF Init
    <2> QED BY <2>1, AcceptedFacts, ConfigAssumption DEF held, has_ids, NoRemote
  <1>2. TypeOK
    <2>1. task \in [Tasks -> TaskStates]
      BY DEF Init, TaskStates, IdleTask, NoAck
    <2>2. reader \in ReaderStates /\ device \in DeviceStates
      BY RxFlowAssumption DEF Init, ReaderStates, DeviceStates
    <2>3. wire \in Seq(Inbound) /\ back \in Seq(Outbound) /\ owed \in Seq(Nat \cup {OweClose})
      BY DEF Init
    <2> QED BY <1>1, <2>1, <2>2, <2>3 DEF Init, TypeOK
  <1>3. HolderInv
    BY <1>1, ConfigFacts, RxFlowAssumption DEF Init, HolderInv, IdleTask
  <1>4. WireInv /\ BackInv
    BY DEF Init, WireInv, BackInv
  <1>5. IntactInv
    BY <1>1 DEF Init, IntactInv, NoAck, OweClose
  <1>6. DelayedInv
    BY <1>1, ConfigFacts, RxFlowAssumption DEF Init, DelayedInv
  <1>7. ClassicInv
    <2>1. ~WriteInFlight
      BY DEF Init, WriteInFlight
    <2>2. Token = 1
      BY <1>1, <2>1, RxFlowAssumption DEF Init, Token, B2N
    <2> QED BY <1>1, <2>2, ConfigFacts DEF Init, ClassicInv, TokenElsewhere
  <1> QED BY <1>2, <1>3, <1>4, <1>5, <1>6, <1>7 DEF FlowInv

-----------------------------------------------------------------------------
(* Types are preserved, for any device: lengths stay natural because a     *)
(* packet's position is never behind what arrived, and a slot's buffer     *)
(* never shrinks below what is set aside.                                  *)
LEMMA TypeStep == TypeOK /\ HolderInv /\ WireInv /\ [Next]_vars => TypeOK'
  <1> SUFFICES ASSUME TypeOK, HolderInv, WireInv, [Next]_vars PROVE TypeOK'
    OBVIOUS
  <1> USE ConfigAssumption, RxFlowAssumption
  <1>0. HolderInv /\ WireInv
    OBVIOUS
  <1>1. CASE DeviceWrite
    <2> PICK len \in Lens :
          /\ wire' = Append(wire, [cmd |-> "WRTE", upto |-> device.sent + len])
          /\ device' = [device EXCEPT !.sent = @ + len, !.ready = FALSE]
      BY <1>1 DEF DeviceWrite
    <2>1. device.sent + len \in Nat
      BY SMTT(20) DEF TypeOK, DeviceStates
    <2>2. device' \in DeviceStates
      BY <2>1 DEF TypeOK, DeviceStates
    <2>3. [cmd |-> "WRTE", upto |-> device.sent + len] \in Inbound
      BY <2>1 DEF Inbound
    <2>4. wire' \in Seq(Inbound)
      BY <2>3 DEF TypeOK
    <2> QED BY <1>1, <2>2, <2>4 DEF DeviceWrite, TypeOK
  <1>2. CASE DeviceReceive
    <2>1. Head(back) \in Outbound /\ Tail(back) \in Seq(Outbound)
      BY <1>2 DEF DeviceReceive, TypeOK
    <2>2. device' \in DeviceStates
      BY <1>2, <2>1 DEF DeviceReceive, TypeOK, DeviceStates, Outbound
    <2> QED BY <1>2, <2>1, <2>2 DEF DeviceReceive, TypeOK
  <1>3. CASE DeviceClose
    <2>1. [cmd |-> "CLSE", upto |-> device.sent] \in Inbound /\ device' \in DeviceStates
      BY <1>3 DEF DeviceClose, TypeOK, DeviceStates, Inbound
    <2>2. wire' \in Seq(Inbound)
      BY <1>3, <2>1 DEF DeviceClose, TypeOK
    <2> QED BY <1>3, <2>1, <2>2 DEF DeviceClose, TypeOK
  <1>4. CASE TransportFails
    BY <1>4 DEF TransportFails, TypeOK
  <1>5. CASE ReceiveWrite
    <2> DEFINE len == Head(wire).upto - arrived
    <2>1. /\ Head(wire) \in Inbound /\ Tail(wire) \in Seq(Inbound)
          /\ Head(wire) = wire[1] /\ 1 \in DOMAIN wire
      BY <1>5 DEF ReceiveWrite, TypeOK
    <2>2. len \in Nat /\ Head(wire).upto \in Nat
      BY <1>0, <2>1 DEF WireInv, Inbound, TypeOK
    <2>3. slot' \in Slots
      <3>1. slot' = slot \/ (~rx_overflows(slot, len) /\ slot' = apply_write(slot, len))
        BY <1>5 DEF ReceiveWrite
      <3> HIDE DEF len
      <3> QED BY <1>0, <2>2, <3>1, WriteFacts DEF TypeOK, HolderInv
    <2>4. reader' \in ReaderStates
      <3>1. \/ reader' = reader
            \/ reader' = [pc |-> "fail", debt |-> NoAck]
            \/ reader' = [pc |-> "wake", debt |-> NoAck]
            \/ reader' = [pc |-> "wake", debt |-> len]
        BY <1>5 DEF ReceiveWrite
      <3> QED BY <2>2, <3>1 DEF ReaderStates, TypeOK
    <2>5. got' \in Nat
      BY <1>5, <2>2 DEF ReceiveWrite, TypeOK
    <2> QED BY <1>5, <2>1, <2>2, <2>3, <2>4, <2>5 DEF ReceiveWrite, TypeOK
  <1>5a. CASE FailChannel
    <2>1. slot' \in Slots /\ reader' \in ReaderStates
      BY <1>5a DEF FailChannel, TypeOK, Slots, fail, ReaderStates
    <2> QED BY <1>5a, <2>1 DEF FailChannel, TypeOK
  <1>6. CASE ReceiveClose
    <2>1. slot' \in Slots /\ reader' \in ReaderStates
      BY <1>6 DEF ReceiveClose, TypeOK, Slots, apply_close, ReaderStates
    <2> QED BY <1>6, <2>1 DEF ReceiveClose, TypeOK
  <1>7. CASE ReaderWake
    <2>1. reader' \in ReaderStates
      BY <1>7 DEF ReaderWake, TypeOK, ReaderStates
    <2> QED BY <1>7, <2>1, WakeFacts DEF ReaderWake, TypeOK
  <1>8. CASE ReaderOwe
    <2>1. reader.debt \in Nat \cup {OweClose}
      BY <1>0, <1>8 DEF ReaderOwe, TypeOK, ReaderStates, HolderInv
    <2>2. reader' \in ReaderStates
      BY <1>8 DEF ReaderOwe, ReaderStates
    <2> QED BY <1>8, <2>1, <2>2 DEF ReaderOwe, TypeOK
  <1>9. CASE ReaderPay
    <2>1. reader' \in ReaderStates
      BY <1>9 DEF ReaderPay, ReaderStates, TypeOK
    <2> QED BY <1>9, <2>1 DEF ReaderPay, TypeOK
  <1>10. CASE ReaderEnds
    <2>1. reader' \in ReaderStates
      BY <1>10 DEF ReaderEnds, ReaderStates
    <2> QED BY <1>10, <2>1, WakeFacts DEF ReaderEnds, TypeOK
  <1>11. CASE OtherLocks
    BY <1>11 DEF OtherLocks, TypeOK
  <1>12. ASSUME NEW holder, PayDebt(holder) PROVE TypeOK'
    <2>1. Head(owed) \in Nat \cup {OweClose} /\ Tail(owed) \in Seq(Nat \cup {OweClose})
      BY <1>12 DEF PayDebt, TypeOK
    <2>2. acked' \in Nat
      BY <1>12, <2>1 DEF PayDebt, TypeOK, OweClose
    <2>3. Okay(acked') \in Outbound /\ Clse \in Outbound
      BY <2>2 DEF Okay, Clse, Outbound
    <2>4. back' \in Seq(Outbound)
      <3>1. back' = back \/ back' = Append(back, Okay(acked')) \/ back' = Append(back, Clse)
        BY <1>12 DEF PayDebt
      <3>2. back \in Seq(Outbound)
        BY DEF TypeOK
      <3> QED BY <2>3, <3>1, <3>2
    <2>5. owed' \in Seq(Nat \cup {OweClose})
      <3>1. owed' = Tail(owed) \/ owed' = <<>> \/ owed' = owed
        BY <1>12 DEF PayDebt
      <3>2. owed \in Seq(Nat \cup {OweClose}) /\ <<>> \in Seq(Nat \cup {OweClose})
        BY DEF TypeOK
      <3> QED BY <2>1, <3>1, <3>2
    <2>6. desync' \in BOOLEAN
      BY <1>12 DEF PayDebt, TypeOK
    <2> QED BY <1>12, <2>2, <2>4, <2>5, <2>6 DEF PayDebt, TypeOK
  <1>13. CASE ReaderPaid
    <2>1. reader' \in ReaderStates
      BY <1>13 DEF ReaderPaid, ReaderStates, TypeOK
    <2> QED BY <1>13, <2>1, WakeFacts DEF ReaderPaid, TypeOK
  <1>14. CASE OtherUnlocks
    BY <1>14, WakeFacts DEF OtherUnlocks, TypeOK
  <1>15. ASSUME NEW t \in Tasks, StartRead(t) PROVE TypeOK'
    <2> PICK w \in Wants :
          task' = [task EXCEPT ![t] = [IdleTask EXCEPT !.pc = "take", !.want = w]]
      BY <1>15 DEF StartRead
    <2>1. [IdleTask EXCEPT !.pc = "take", !.want = w] \in TaskStates
      <3>1. task[t] \in TaskStates
        BY DEF TypeOK
      <3> QED BY <3>1, TaskFacts
    <2>2. task' \in [Tasks -> TaskStates]
      BY <2>1, PutTask DEF TypeOK
    <2> QED BY <1>15, <2>2 DEF StartRead, TypeOK
  <1>16. ASSUME NEW t \in Tasks, Take(t) PROVE TypeOK'
    <2>1. task[t] \in TaskStates
      BY DEF TypeOK
    <2>2. task' \in [Tasks -> TaskStates]
      <3>1. \E r \in {IdleTask, [task[t] EXCEPT !.pc = "lock"], [task[t] EXCEPT !.pc = "none"]} :
              task' = [task EXCEPT ![t] = r]
        BY <1>16 DEF Take
      <3>2. \E r \in TaskStates : task' = [task EXCEPT ![t] = r]
        BY <2>1, <3>1, TaskFacts
      <3> QED BY <3>2, PutTask DEF TypeOK
    <2>3. task[t].want \in Nat
      BY <2>1, TaskFacts
    <2>4. slot' \in Slots /\ taken' \in Nat
      BY <1>0, <1>16, <2>3, TakeFacts, SMTT(20) DEF Take, TypeOK, HolderInv
    <2> QED BY <1>16, <2>2, <2>4 DEF Take, TypeOK
  <1>17. ASSUME NEW t \in Tasks, Listen(t) PROVE TypeOK'
    <2>1. task[t] \in TaskStates
      BY DEF TypeOK
    <2>2. task' \in [Tasks -> TaskStates]
      <3>1. \E r \in {IdleTask, [task[t] EXCEPT !.listener = "armed", !.pc = "take"],
                      [task[t] EXCEPT !.pc = "park"]} : task' = [task EXCEPT ![t] = r]
        BY <1>17 DEF Listen
      <3>2. \E r \in TaskStates : task' = [task EXCEPT ![t] = r]
        BY <2>1, <3>1, TaskFacts
      <3> QED BY <3>2, PutTask DEF TypeOK
    <2> QED BY <1>17, <2>2 DEF Listen, TypeOK
  <1>18. ASSUME NEW t \in Tasks, Wakes(t) PROVE TypeOK'
    <2>1. task' \in [Tasks -> TaskStates]
      BY <1>18, TaskFacts, PutTask DEF Wakes, TypeOK
    <2> QED BY <1>18, <2>1 DEF Wakes, TypeOK
  <1>19. ASSUME NEW t \in Tasks, Settle(t) PROVE TypeOK'
    <2>0. task[t] \in TaskStates
      BY DEF TypeOK
    <2>1. task[t].want \in Nat
      BY <2>0, TaskFacts
    <2>2. CASE settle_ack(slot, task[t].want) = NoAck \/ has_ended
      <3>1. task' \in [Tasks -> TaskStates]
        BY <1>19, <2>0, <2>2, TaskFacts, PutTask DEF Settle, TypeOK
      <3> QED BY <1>19, <2>2, <3>1 DEF Settle, TypeOK
    <2>3. CASE settle_ack(slot, task[t].want) # NoAck /\ ~has_ended
      <3>1. settle_ack(slot, task[t].want) \in Nat /\ settle_take(slot, task[t].want) \in Slots
        BY <1>0, <2>1, <2>3, SettleFacts DEF TypeOK, HolderInv
      <3>2. task' = [task EXCEPT ![t] = [task[t] EXCEPT !.pc = "send", !.ack = settle_ack(slot, task[t].want)]]
        BY <1>19, <2>3 DEF Settle
      <3>3. task' \in [Tasks -> TaskStates]
        BY <2>0, <3>1, <3>2, TaskFacts, PutTask DEF TypeOK
      <3> QED BY <1>19, <2>3, <3>1, <3>3 DEF Settle, TypeOK
    <2> QED BY <2>2, <2>3
  <1>20. ASSUME NEW t \in Tasks, SettleCalledOff(t) PROVE TypeOK'
    <2>1. task' \in [Tasks -> TaskStates]
      BY <1>20, TaskFacts, PutTask DEF SettleCalledOff, TypeOK
    <2> QED BY <1>20, <2>1 DEF SettleCalledOff, TypeOK
  <1>21. ASSUME NEW t \in Tasks, SendOkay(t) PROVE TypeOK'
    <2>1. task' \in [Tasks -> TaskStates]
      BY <1>21, TaskFacts, PutTask DEF SendOkay, TypeOK
    <2>2. acked' \in Nat
      <3>1. wh = t /\ task[t].ack \in Nat
        BY <1>0, <1>21 DEF SendOkay, HolderInv, TypeOK, TaskStates
      <3> QED BY <1>21, <3>1, SMTT(20) DEF SendOkay, TypeOK
    <2>3. back' \in Seq(Outbound)
      <3>1. Okay(acked') \in Outbound
        BY <2>2 DEF Okay, Outbound
      <3>2. back' = back \/ back' = Append(back, Okay(acked'))
        BY <1>21 DEF SendOkay
      <3>3. back \in Seq(Outbound)
        BY DEF TypeOK
      <3> QED BY <3>1, <3>2, <3>3
    <2> QED BY <1>21, <2>1, <2>2, <2>3 DEF SendOkay, TypeOK
  <1>22. ASSUME NEW t \in Tasks, SendOkayFails(t) PROVE TypeOK'
    <2>1. task' \in [Tasks -> TaskStates]
      <3>1. wake(task) \in [Tasks -> TaskStates]
        BY WakeFacts DEF TypeOK
      <3> QED BY <1>22, <3>1, TaskFacts, PutTask DEF SendOkayFails
    <2> QED BY <1>22, <2>1 DEF SendOkayFails, TypeOK
  <1>23. ASSUME NEW t \in Tasks, DropRead(t) PROVE TypeOK'
    <2>1. task[t] \in TaskStates
      BY DEF TypeOK
    <2>2. task' \in [Tasks -> TaskStates]
      BY <1>23, <2>1, TaskFacts, PutTask, WakeFacts DEF DropRead, TypeOK
    <2> QED BY <1>23, <2>2 DEF DropRead, TypeOK
  <1>24. CASE UNCHANGED vars
    BY <1>24 DEF vars, TypeOK
  <1> QED
    BY <1>1, <1>2, <1>3, <1>4, <1>5, <1>5a, <1>6, <1>7, <1>8, <1>9, <1>10, <1>11, <1>12, <1>13,
       <1>14, <1>15, <1>16, <1>17, <1>18, <1>19, <1>20, <1>21, <1>22, <1>23, <1>24
       DEF Next, DeviceNext, ReaderNext, OtherNext, TaskNext

-----------------------------------------------------------------------------
(* The slot's own bounds are preserved, for any device: push_rx refuses    *)
(* what would exceed the cap, and a read sets aside or takes only what is  *)
(* there.                                                                  *)
SlotInv ==
    /\ has_ids(slot) /\ slot.settled <= slot.rx_buf
    /\ held(slot) <= rx_cap /\ slot.settled <= rx_cap

(* No step breaks what a slot in use looks like: what is set aside is in   *)
(* the buffer, and neither it nor what is held exceeds the cap.            *)
LEMMA SlotStep == TypeOK /\ HolderInv /\ WireInv /\ [Next]_vars => SlotInv'
  <1> SUFFICES ASSUME TypeOK, HolderInv, WireInv, [Next]_vars PROVE SlotInv'
    OBVIOUS
  <1>0. SlotInv /\ WireInv
    BY DEF HolderInv, SlotInv
  <1>1. CASE UNCHANGED slot
    BY <1>0, <1>1 DEF SlotInv, has_ids, held
  <1>2. CASE ReceiveWrite
    <2> DEFINE len == Head(wire).upto - arrived
    <2>1. len \in Nat
      <3>1. Head(wire) \in Inbound /\ Head(wire) = wire[1] /\ 1 \in DOMAIN wire
        BY <1>2 DEF ReceiveWrite, TypeOK
      <3> QED BY <1>0, <3>1 DEF WireInv, Inbound, TypeOK
    <2>2. slot' = slot \/ (~rx_overflows(slot, len) /\ slot' = apply_write(slot, len))
      BY <1>2 DEF ReceiveWrite
    <2> HIDE DEF len
    <2>3. CASE ~rx_overflows(slot, len) /\ slot' = apply_write(slot, len)
      <3>1. slot \in Slots /\ slot.settled <= slot.rx_buf
        BY <1>0 DEF SlotInv, TypeOK
      <3>2. /\ slot'.settled = slot.settled /\ slot'.rx_buf = slot.rx_buf + len
            /\ held(slot') <= rx_cap /\ slot'.remote = slot.remote
        BY <2>1, <2>3, <3>1, WriteFacts
      <3>3. slot'.settled <= slot'.rx_buf
        BY <2>1, <3>1, <3>2 DEF Slots
      <3> QED BY <1>0, <3>2, <3>3 DEF SlotInv, has_ids, held
    <2> QED BY <1>1, <2>2, <2>3
  <1>3. CASE FailChannel \/ ReceiveClose
    BY <1>0, <1>3
       DEF SlotInv, TypeOK, Slots, has_ids, apply_close, fail, held, FailChannel, ReceiveClose
  <1>4. ASSUME NEW t \in Tasks, Take(t) PROVE SlotInv'
    <2>1. task[t].want \in Nat
      <3>1. task[t] \in TaskStates
        BY DEF TypeOK
      <3> QED BY <3>1, TaskFacts
    <2>2. slot' = slot \/ slot' = take_buffered(slot, task[t].want)
      BY <1>4 DEF Take
    <2>3. CASE slot' = take_buffered(slot, task[t].want)
      <3>1. slot \in Slots /\ slot.settled <= slot.rx_buf
        BY <1>0 DEF SlotInv, TypeOK
      <3>2. /\ slot' \in Slots /\ slot'.settled <= slot'.rx_buf /\ slot'.settled <= slot.settled
            /\ held(slot') <= held(slot) /\ slot'.remote = slot.remote
        BY <2>1, <2>3, <3>1, TakeFacts
      <3>3. slot.settled \in Nat /\ slot'.settled \in Nat /\ held(slot) \in Int /\ held(slot') \in Int
        BY <3>1, <3>2 DEF Slots, held
      <3>4. slot'.settled <= rx_cap /\ held(slot') <= rx_cap
        BY <1>0, <3>2, <3>3, ConfigFacts DEF SlotInv
      <3> QED BY <1>0, <3>2, <3>4 DEF SlotInv, has_ids, held
    <2> QED BY <1>1, <2>2, <2>3
  <1>5. ASSUME NEW t \in Tasks, Settle(t) PROVE SlotInv'
    <2>1. task[t].want \in Nat
      <3>1. task[t] \in TaskStates
        BY DEF TypeOK
      <3> QED BY <3>1, TaskFacts
    <2>2. \/ slot' = slot
          \/ (settle_ack(slot, task[t].want) # NoAck /\ slot' = settle_take(slot, task[t].want))
      BY <1>5 DEF Settle
    <2>3. CASE settle_ack(slot, task[t].want) # NoAck /\ slot' = settle_take(slot, task[t].want)
      <3>1. slot \in Slots /\ slot' \in Slots /\ slot.settled <= slot.rx_buf
        BY <1>0, <2>1, <2>3, SettleFacts DEF SlotInv, TypeOK
      <3>2. slot'.settled \in Nat /\ held(slot) \in Int /\ held(slot)' \in Int
        BY <3>1 DEF Slots, held
      <3> QED BY <1>0, <2>1, <2>3, <3>1, <3>2, SettleFacts, ConfigFacts DEF SlotInv, has_ids
    <2> QED BY <1>1, <2>2, <2>3
  <1>6. \/ UNCHANGED slot \/ ReceiveWrite \/ FailChannel \/ ReceiveClose
        \/ \E t \in Tasks : Take(t) \/ Settle(t)
    BY DEF Next, DeviceNext, ReaderNext, OtherNext, TaskNext, vars, DeviceWrite,
           DeviceReceive, DeviceClose, TransportFails, ReaderWake, ReaderOwe, ReaderPay,
           PayDebt, ReaderPaid, ReaderEnds, OtherLocks, OtherUnlocks, StartRead, Listen,
           Wakes, SettleCalledOff, SendOkay, SendOkayFails, DropRead
  <1> QED BY <1>1, <1>2, <1>3, <1>4, <1>5, <1>6

(* The negotiated ack mode of a channel never changes.                     *)
LEMMA ModeStep == TypeOK /\ HolderInv /\ WireInv /\ [Next]_vars => slot'.ack = slot.ack
  <1> SUFFICES ASSUME TypeOK, HolderInv, WireInv, [Next]_vars PROVE slot'.ack = slot.ack
    OBVIOUS
  <1>0. slot \in Slots /\ slot.settled <= slot.rx_buf /\ HolderInv /\ WireInv
    BY DEF TypeOK, HolderInv
  <1>1. CASE ReceiveWrite
    <2> DEFINE len == Head(wire).upto - arrived
    <2>1. Head(wire) = wire[1] /\ 1 \in DOMAIN wire /\ wire[1] \in Inbound
      BY <1>1, TailFacts DEF ReceiveWrite, TypeOK
    <2>2. len \in Nat
      BY <1>0, <2>1 DEF WireInv, Inbound, TypeOK
    <2>3. slot' = slot \/ (~rx_overflows(slot, len) /\ slot' = apply_write(slot, len))
      BY <1>1 DEF ReceiveWrite
    <2> HIDE DEF len
    <2> QED BY <1>0, <2>2, <2>3, WriteFacts
  <1>2. CASE FailChannel \/ ReceiveClose
    BY <1>0, <1>2 DEF FailChannel, ReceiveClose, fail, apply_close, Slots
  <1>3. ASSUME NEW t \in Tasks, Take(t) \/ Settle(t) PROVE slot'.ack = slot.ack
    <2>1. task[t].want \in Nat
      BY TaskFacts DEF TypeOK
    <2>2. CASE slot' = slot \/ slot' = take_buffered(slot, task[t].want)
      <3>1. take_buffered(slot, task[t].want).ack = slot.ack
        BY <1>0, <2>1, TakeFacts
      <3> QED BY <2>2, <3>1
    <2>3. CASE settle_ack(slot, task[t].want) # NoAck /\ slot' = settle_take(slot, task[t].want)
      BY <1>0, <2>1, <2>3, SettleFacts
    <2> QED BY <1>3, <2>2, <2>3 DEF Take, Settle
  <1>4. \/ UNCHANGED slot \/ ReceiveWrite \/ FailChannel \/ ReceiveClose
        \/ \E t \in Tasks : Take(t) \/ Settle(t)
    BY DEF Next, DeviceNext, ReaderNext, OtherNext, TaskNext, vars, DeviceWrite,
           DeviceReceive, DeviceClose, TransportFails, ReaderWake, ReaderOwe, ReaderPay,
           PayDebt, ReaderPaid, ReaderEnds, OtherLocks, OtherUnlocks, StartRead, Listen,
           Wakes, SettleCalledOff, SendOkay, SendOkayFails, DropRead
  <1> QED BY <1>1, <1>2, <1>3, <1>4

(* One holder: a task writes its OKAY only while it holds the write half.  *)
LockInv ==
    /\ \A t \in Tasks : task[t].pc = "send" => wh = t
    /\ wh \in Tasks => task[wh].pc = "send" /\ task[wh].ack # NoAck
    /\ reader.pc = "owe" => reader.debt # NoAck

(* No step breaks who holds the write half.                                *)
LEMMA LockStep == TypeOK /\ HolderInv /\ WireInv /\ [Next]_vars => LockInv'
  <1> SUFFICES ASSUME TypeOK, HolderInv, WireInv, [Next]_vars PROVE LockInv'
    OBVIOUS
  <1> USE RxFlowAssumption
  <1>0. LockInv /\ SlotInv
    BY DEF HolderInv, LockInv, SlotInv
  <1>a. task \in [Tasks -> TaskStates] /\ wake(task) \in [Tasks -> TaskStates]
        /\ \A t \in Tasks : wake(task)[t].pc = task[t].pc /\ wake(task)[t].ack = task[t].ack
    BY WakeFacts DEF TypeOK
  <1>1. CASE UNCHANGED <<task, wh, reader>>
    BY <1>0, <1>1 DEF LockInv
  <1>2. CASE ReceiveWrite \/ FailChannel \/ ReceiveClose
    BY <1>0, <1>2 DEF LockInv, ReceiveWrite, FailChannel, ReceiveClose
  <1>3. CASE ReaderWake
    <2>1. reader'.pc = "owe" => reader'.debt # NoAck
      BY <1>3 DEF ReaderWake, TypeOK, ReaderStates
    <2> QED BY <1>0, <1>3, <1>a, <2>1 DEF LockInv, ReaderWake
  <1>4. CASE ReaderOwe
    BY <1>0, <1>4 DEF LockInv, ReaderOwe
  <1>5. CASE ReaderPay
    <2>1. reader'.pc # "owe"
      BY <1>5 DEF ReaderPay, TypeOK, ReaderStates
    <2> QED BY <1>0, <1>5, <2>1 DEF LockInv, ReaderPay
  <1>6. CASE ReaderPaid
    <2>1. reader'.pc # "owe"
      BY <1>6 DEF ReaderPaid, TypeOK, ReaderStates
    <2> QED BY <1>0, <1>6, <1>a, <2>1 DEF LockInv, ReaderPaid
  <1>7. CASE ReaderEnds
    <2>1. reader'.pc # "owe"
      BY <1>7 DEF ReaderEnds
    <2> QED BY <1>0, <1>7, <1>a, <2>1 DEF LockInv, ReaderEnds
  <1>8. CASE OtherLocks
    BY <1>0, <1>8 DEF LockInv, OtherLocks
  <1>9. CASE OtherUnlocks
    BY <1>0, <1>9, <1>a DEF LockInv, OtherUnlocks
  <1>10. ASSUME NEW t \in Tasks,
                wh' = wh, reader' = reader, task[t].pc # "send",
                NEW r \in TaskStates, r.pc # "send", task' = [task EXCEPT ![t] = r]
         PROVE  LockInv'
    BY <1>0, <1>10, <1>a DEF LockInv
  <1>11. ASSUME NEW t \in Tasks, StartRead(t) PROVE LockInv'
    <2> PICK w \in Wants :
          task' = [task EXCEPT ![t] = [IdleTask EXCEPT !.pc = "take", !.want = w]]
      BY <1>11 DEF StartRead
    <2>1. [IdleTask EXCEPT !.pc = "take", !.want = w] \in TaskStates
          /\ [IdleTask EXCEPT !.pc = "take", !.want = w].pc = "take"
      BY DEF TaskStates, IdleTask, NoAck
    <2> QED BY <1>10, <1>11, <2>1 DEF StartRead
  <1>12. ASSUME NEW t \in Tasks, Take(t) \/ Listen(t) \/ Wakes(t) \/ SettleCalledOff(t)
         PROVE  LockInv'
    <2>1. task[t] \in TaskStates
      BY <1>a
    <2>2. \E r \in {IdleTask, [task[t] EXCEPT !.pc = "lock"], [task[t] EXCEPT !.pc = "none"],
                    [task[t] EXCEPT !.listener = "armed", !.pc = "take"],
                    [task[t] EXCEPT !.listener = "none", !.pc = "take"],
                    [task[t] EXCEPT !.pc = "take"],
                    [task[t] EXCEPT !.pc = "park"]} : task' = [task EXCEPT ![t] = r]
      BY <1>12 DEF Take, Listen, Wakes, SettleCalledOff
    <2> PICK r \in {IdleTask, [task[t] EXCEPT !.pc = "lock"], [task[t] EXCEPT !.pc = "none"],
                    [task[t] EXCEPT !.listener = "armed", !.pc = "take"],
                    [task[t] EXCEPT !.listener = "none", !.pc = "take"],
                    [task[t] EXCEPT !.pc = "take"],
                    [task[t] EXCEPT !.pc = "park"]} : task' = [task EXCEPT ![t] = r]
      BY <2>2
    <2>3. r \in TaskStates /\ r.pc # "send"
      <3>1. r \in TaskStates
        BY <2>1, TaskFacts
      <3>2. /\ IdleTask.pc = "idle" /\ [task[t] EXCEPT !.pc = "lock"].pc = "lock"
            /\ [task[t] EXCEPT !.pc = "none"].pc = "none"
            /\ [task[t] EXCEPT !.listener = "armed", !.pc = "take"].pc = "take"
            /\ [task[t] EXCEPT !.listener = "none", !.pc = "take"].pc = "take"
            /\ [task[t] EXCEPT !.pc = "take"].pc = "take"
            /\ [task[t] EXCEPT !.pc = "park"].pc = "park"
        BY <2>1 DEF TaskStates, IdleTask
      <3> QED BY <3>1, <3>2
    <2>4. task[t].pc # "send" /\ wh' = wh /\ reader' = reader
      BY <1>12 DEF Take, Listen, Wakes, SettleCalledOff
    <2> QED BY <1>10, <2>3, <2>4
  <1>13. ASSUME NEW t \in Tasks, Settle(t) PROVE LockInv'
    <2>1. task[t] \in TaskStates
      BY <1>a
    <2>2. CASE wh' = wh
      <3>1. task' = [task EXCEPT ![t] = [task[t] EXCEPT !.pc = "take"]]
        BY <1>13, <2>2 DEF Settle
      <3>2. [task[t] EXCEPT !.pc = "take"] \in TaskStates /\ [task[t] EXCEPT !.pc = "take"].pc # "send"
        BY <2>1 DEF TaskStates
      <3> QED BY <1>10, <1>13, <2>2, <3>1, <3>2 DEF Settle
    <2>3. CASE wh' # wh
      <3> DEFINE a == settle_ack(slot, task[t].want)
      <3>1. a # NoAck /\ wh' = t /\ wh = "free" /\ reader' = reader
            /\ task' = [task EXCEPT ![t] = [task[t] EXCEPT !.pc = "send", !.ack = a]]
        BY <1>13, <2>3 DEF Settle
      <3>2. a \in Nat
        <4>1. task[t].want \in Nat
          BY <2>1, TaskFacts
        <4> QED BY <1>0, <3>1, <4>1, SettleFacts DEF SlotInv, TypeOK
      <3> HIDE DEF a
      <3>3. [task[t] EXCEPT !.pc = "send", !.ack = a].pc = "send"
            /\ [task[t] EXCEPT !.pc = "send", !.ack = a].ack = a
        BY <2>1 DEF TaskStates
      <3> QED BY <1>0, <1>a, <3>1, <3>2, <3>3 DEF LockInv
    <2> QED BY <2>2, <2>3
  <1>14. ASSUME NEW t \in Tasks, reader' = reader,
                (wh = t /\ wh' = "free") \/ (wh' = wh /\ wh # t),
                NEW ts \in {task, wake(task)}, NEW r \in TaskStates, r.pc # "send",
                task' = [ts EXCEPT ![t] = r]
         PROVE  LockInv'
    <2>1. \A u \in Tasks : u # t => task'[u].pc = task[u].pc /\ task'[u].ack = task[u].ack
      BY <1>14, <1>a
    <2>2. task'[t].pc # "send"
      BY <1>14, <1>a
    <2>3. \A u \in Tasks : task'[u].pc = "send" => wh' = u
      BY <1>0, <1>14, <2>1, <2>2 DEF LockInv
    <2> QED BY <1>0, <1>14, <2>1, <2>3 DEF LockInv
  <1>15. ASSUME NEW t \in Tasks, SendOkay(t) \/ SendOkayFails(t) PROVE LockInv'
    <2> PICK ts \in {task, wake(task)} :
            task' = [ts EXCEPT ![t] = [ts[t] EXCEPT !.pc = "take", !.ack = NoAck]]
      BY <1>15 DEF SendOkay, SendOkayFails
    <2>1. ts[t] \in TaskStates
      BY <1>a
    <2>2. [ts[t] EXCEPT !.pc = "take", !.ack = NoAck] \in TaskStates
          /\ [ts[t] EXCEPT !.pc = "take", !.ack = NoAck].pc # "send"
      BY <2>1 DEF TaskStates
    <2>3. wh = t /\ wh' = "free" /\ reader' = reader
      BY <1>0, <1>15 DEF SendOkay, SendOkayFails, LockInv
    <2> QED BY <1>14, <2>2, <2>3
  <1>16. ASSUME NEW t \in Tasks, DropRead(t) PROVE LockInv'
    <2>1. IdleTask \in TaskStates /\ IdleTask.pc # "send"
      BY DEF IdleTask, TaskStates, NoAck
    <2>2. \E ts \in {task, wake(task)} : task' = [ts EXCEPT ![t] = IdleTask]
      BY <1>16 DEF DropRead
    <2>3. reader' = reader /\ ((wh = t /\ wh' = "free") \/ (wh' = wh /\ wh # t))
      BY <1>16 DEF DropRead
    <2> QED BY <1>14, <2>1, <2>2, <2>3
  <1>17. DeviceNext \/ (\E h : PayDebt(h)) \/ UNCHANGED vars => UNCHANGED <<task, wh, reader>>
    BY DEF DeviceNext, vars, DeviceWrite, DeviceReceive, DeviceClose, TransportFails, PayDebt
  <1> QED
    BY <1>1, <1>2, <1>3, <1>4, <1>5, <1>6, <1>7, <1>8, <1>9, <1>11, <1>12, <1>13, <1>15,
       <1>16, <1>17 DEF Next, ReaderNext, OtherNext, TaskNext

(* Positions on the wire only grow, from what arrived to what was sent.    *)
LEMMA WireStep == TypeOK /\ HolderInv /\ WireInv /\ [Next]_vars => WireInv'
  <1> SUFFICES ASSUME TypeOK, HolderInv, WireInv, [Next]_vars PROVE WireInv'
    OBVIOUS
  <1>0. WireInv /\ wire \in Seq(Inbound) /\ arrived \in Nat /\ device \in DeviceStates
    BY DEF TypeOK
  <1>1. CASE UNCHANGED <<wire, arrived, device>>
    BY <1>0, <1>1 DEF WireInv
  <1>2. CASE UNCHANGED <<wire, arrived>> /\ device'.sent = device.sent
    BY <1>0, <1>2 DEF WireInv
  <1>3. ASSUME arrived' = arrived, NEW p \in Inbound, wire' = Append(wire, p),
               device'.sent = p.upto, device.sent <= p.upto
        PROVE  WireInv'
    <2>1. /\ DOMAIN wire = 1 .. Len(wire) /\ DOMAIN wire' = 1 .. Len(wire) + 1
          /\ Len(wire) \in Nat /\ wire'[Len(wire) + 1] = p
          /\ \A i \in DOMAIN wire : wire'[i] = wire[i] /\ wire[i].upto \in Nat
      <3>1. \A q \in Inbound : q.upto \in Nat
        BY DEF Inbound
      <3> QED BY <1>0, <1>3, <3>1, AppendFacts
    <2>2. device.sent \in Nat /\ p.upto \in Nat
      BY <1>0 DEF DeviceStates, Inbound
    <2>3. \A i \in DOMAIN wire : arrived <= wire[i].upto /\ wire[i].upto <= device.sent
      BY <1>0 DEF WireInv
    <2>4. \A i \in DOMAIN wire' : arrived' <= wire'[i].upto /\ wire'[i].upto <= device'.sent
      <3> TAKE i \in DOMAIN wire'
      <3>1. CASE i = Len(wire) + 1
        BY <1>0, <1>3, <2>1, <2>2, <3>1 DEF WireInv
      <3>2. CASE i \in DOMAIN wire
        BY <1>0, <1>3, <2>1, <2>2, <2>3, <3>2
      <3> QED BY <2>1, <3>1, <3>2
    <2>5. \A i, j \in DOMAIN wire' : i <= j => wire'[i].upto <= wire'[j].upto
      <3> TAKE i, j \in DOMAIN wire'
      <3> HAVE i <= j
      <3>1. CASE j \in DOMAIN wire
        <4>1. i \in DOMAIN wire
          BY <2>1, <3>1
        <4> QED BY <1>0, <2>1, <3>1, <4>1 DEF WireInv
      <3>2. CASE j = Len(wire) + 1
        BY <1>3, <2>1, <2>2, <2>4, <3>2
      <3> QED BY <2>1, <3>1, <3>2
    <2> QED BY <1>0, <1>3, <2>2, <2>4, <2>5 DEF WireInv
  <1>4. CASE DeviceWrite
    <2> PICK len \in Lens :
          /\ wire' = Append(wire, [cmd |-> "WRTE", upto |-> device.sent + len])
          /\ device' = [device EXCEPT !.sent = @ + len, !.ready = FALSE]
      BY <1>4 DEF DeviceWrite
    <2>1. len \in Nat /\ device.sent \in Nat
      BY <1>0, RxFlowAssumption, ConfigAssumption DEF DeviceStates
    <2> DEFINE p == [cmd |-> "WRTE", upto |-> device.sent + len]
    <2>2. p \in Inbound /\ p.upto = device.sent + len
      BY <2>1 DEF Inbound
    <2>3. device'.sent = device.sent + len /\ arrived' = arrived
      BY <1>0, <1>4 DEF DeviceStates, DeviceWrite
    <2> HIDE DEF p
    <2> QED BY <1>3, <2>1, <2>2, <2>3 DEF p
  <1>5. CASE DeviceClose
    <2> DEFINE p == [cmd |-> "CLSE", upto |-> device.sent]
    <2>1. p \in Inbound /\ p.upto = device.sent /\ device.sent \in Nat
      BY <1>0 DEF Inbound, DeviceStates
    <2>2. device'.sent = device.sent /\ arrived' = arrived /\ wire' = Append(wire, p)
      BY <1>0, <1>5 DEF DeviceStates, DeviceClose
    <2> HIDE DEF p
    <2> QED BY <1>3, <2>1, <2>2
  <1>6. CASE DeviceReceive
    <2>1. device'.sent = device.sent
      BY <1>0, <1>6 DEF DeviceReceive, DeviceStates
    <2> QED BY <1>2, <1>6, <2>1 DEF DeviceReceive
  <1>7. CASE ReceiveWrite \/ ReceiveClose
    <2>1. /\ wire # <<>> /\ wire' = Tail(wire) /\ device' = device
          /\ arrived' = arrived \/ arrived' = wire[1].upto
      BY <1>0, <1>7 DEF ReceiveWrite, ReceiveClose
    <2>2. /\ DOMAIN wire = 1 .. Len(wire) /\ DOMAIN wire' = 1 .. Len(wire) - 1
          /\ Len(wire) \in Nat \ {0} /\ 1 \in DOMAIN wire
          /\ \A i \in DOMAIN wire' : i + 1 \in DOMAIN wire /\ wire'[i] = wire[i + 1]
          /\ \A i \in DOMAIN wire : wire[i].upto \in Nat
      <3>1. \A q \in Inbound : q.upto \in Nat
        BY DEF Inbound
      <3> QED BY <1>0, <2>1, <3>1, TailFacts
    <2>3. arrived' <= device'.sent /\ arrived' \in Nat
      BY <1>0, <2>1, <2>2 DEF WireInv
    <2>4. \A i, j \in DOMAIN wire' : i <= j => wire'[i].upto <= wire'[j].upto
      BY <1>0, <2>2 DEF WireInv
    <2>5. \A i \in DOMAIN wire : wire[1].upto <= wire[i].upto
      BY <1>0, <2>2 DEF WireInv
    <2>6. \A i \in DOMAIN wire' : arrived' <= wire'[i].upto /\ wire'[i].upto <= device'.sent
      BY <1>0, <2>1, <2>2, <2>3, <2>5 DEF WireInv
    <2> QED BY <2>3, <2>4, <2>6 DEF WireInv
  <1>8. FailChannel \/ ReaderWake \/ ReaderOwe \/ ReaderPay \/ ReaderPaid \/ ReaderEnds \/ OtherNext
          \/ TransportFails \/ PayDebt("reader") \/ (\E t \in Tasks : TaskNext(t)) \/ UNCHANGED vars
        => UNCHANGED <<wire, arrived, device>>
    BY DEF OtherNext, TaskNext, vars, TransportFails, FailChannel, ReaderWake, ReaderOwe, ReaderPay,
           PayDebt, ReaderPaid, ReaderEnds, OtherLocks, OtherUnlocks, StartRead, Take, Listen,
           Wakes, Settle, SettleCalledOff, SendOkay, SendOkayFails, DropRead
  <1> QED BY <1>1, <1>4, <1>5, <1>6, <1>7, <1>8 DEF Next, DeviceNext, ReaderNext

(* The part of the invariant that needs no conforming device is inductive. *)
LEMMA AnyDeviceStep ==
    TypeOK /\ HolderInv /\ WireInv /\ [Next]_vars => (TypeOK /\ HolderInv /\ WireInv)'
  <1> SUFFICES ASSUME TypeOK, HolderInv, WireInv, [Next]_vars
               PROVE  (TypeOK /\ HolderInv /\ WireInv)'
    OBVIOUS
  <1>1. SlotInv' /\ LockInv' => HolderInv'
    BY DEF HolderInv, SlotInv, LockInv
  <1> QED BY <1>1, TypeStep, SlotStep, LockStep, WireStep

(* And so it always holds.                                                 *)
LEMMA AnyDevice == Spec => [](TypeOK /\ HolderInv /\ WireInv)
  <1>1. Init => TypeOK /\ HolderInv /\ WireInv
    BY InitInv DEF FlowInv
  <1> QED BY <1>1, AnyDeviceStep, PTL DEF Spec

(* Every reachable state is well typed, whatever the device, the readers   *)
(* and the faults: no length goes negative and nothing is left half set.   *)
THEOREM TypeCorrect == Spec => []TypeOK
  <1>1. TypeOK /\ HolderInv /\ WireInv => TypeOK
    OBVIOUS
  <1> QED BY <1>1, AnyDevice, PTL

(* The receive cap holds for every configuration, against any device, with *)
(* any number of tasks reading and dropping reads (push_rx, settle_take,   *)
(* take_buffered).                                                         *)
THEOREM BufferBounded == Spec => []HeldWithinCap
  <1>1. TypeOK /\ HolderInv => HeldWithinCap
    <2> SUFFICES ASSUME TypeOK, HolderInv PROVE HeldWithinCap
      OBVIOUS
    <2>1. slot.settled \in Nat /\ slot.rx_buf \in Nat
      BY DEF TypeOK, Slots
    <2> QED BY <2>1, ConfigFacts DEF HolderInv, HeldWithinCap, held
  <1>2. TypeOK /\ HolderInv /\ WireInv => HeldWithinCap
    BY <1>1
  <1> QED BY <1>2, AnyDevice, PTL
-----------------------------------------------------------------------------
(* Wakeups.                                                                *)

(* A read that listens and has looked, or waits: what has come since its   *)
(* look, or ended since it waits, it is being told of.  The Reader has the *)
(* write half only while it pays.                                          *)
Told(t) ==
    task[t].listener = "armed" =>
        /\ task[t].pc = "none" /\ (has_data(slot) \/ is_closed(slot)) => reader.pc = "wake"
        /\ task[t].pc = "park" /\ (has_data(slot) \/ is_closed(slot) \/ has_ended) =>
             reader.pc = "wake" \/ (desync /\ wh \in {"reader", "other"})
WakeInv ==
    /\ \A t \in Tasks : Told(t)
    /\ wh = "reader" => reader.pc = "paying"

(* A step that gives a waiting read nothing to return.                     *)
NothingNew ==
    (has_data(slot') => has_data(slot)) /\ (is_closed(slot') => is_closed(slot))

(* Taking bytes out or setting them aside shows a waiting read nothing.    *)
LEMMA TaskShowsNothing ==
    ASSUME TypeOK, HolderInv, NEW t \in Tasks, Take(t) \/ Settle(t)
    PROVE  NothingNew
  <1>1. slot \in Slots /\ slot.settled <= slot.rx_buf /\ task[t].want \in Nat
    BY TaskFacts DEF TypeOK, HolderInv
  <1>2. CASE slot' = slot
    BY <1>2 DEF NothingNew
  <1>3. CASE slot' = take_buffered(slot, task[t].want)
    <2>1. /\ slot'.remote = slot.remote /\ slot'.state = slot.state /\ slot'.rx_buf <= slot.rx_buf
          /\ slot' \in Slots
      BY <1>1, <1>3, TakeFacts
    <2> QED BY <1>1, <2>1 DEF NothingNew, has_data, has_ids, is_closed, Slots
  <1>4. CASE settle_ack(slot, task[t].want) # NoAck /\ slot' = settle_take(slot, task[t].want)
    <2>1. slot'.remote = slot.remote /\ slot'.state = slot.state /\ slot'.rx_buf = slot.rx_buf
      BY <1>1, <1>4, SettleFacts
    <2> QED BY <2>1 DEF NothingNew, has_data, has_ids, is_closed
  <1> QED BY <1>2, <1>3, <1>4 DEF Take, Settle

(* A wake leaves no listener armed.                                        *)
LEMMA WakeTells ==
    ASSUME NEW ts \in [Tasks -> TaskStates], NEW t \in Tasks
    PROVE  wake(ts)[t].listener # "armed"
  BY DEF wake, TaskStates

(* No step of the device, of the Reader or of another holder of the write  *)
(* half leaves a read untold.                                              *)
LEMMA OthersTell ==
    ASSUME TypeOK, WakeInv, DeviceNext \/ ReaderNext \/ OtherNext \/ UNCHANGED vars
    PROVE  WakeInv'
  <1>0. /\ task \in [Tasks -> TaskStates] /\ reader \in ReaderStates
        /\ \A t \in Tasks : Told(t)
        /\ wh = "reader" => reader.pc = "paying"
    BY DEF TypeOK, WakeInv
  <1>1. ASSUME UNCHANGED <<task, slot>>, ~has_ended' \/ has_ended,
               reader.pc = "wake" => reader'.pc = "wake",
               desync /\ wh \in {"reader", "other"} => desync' /\ wh' \in {"reader", "other"},
               wh' = "reader" => reader'.pc = "paying"
        PROVE  WakeInv'
    BY <1>0, <1>1 DEF WakeInv, Told
  <1>2. ASSUME task' = wake(task), wh' = "reader" => reader'.pc = "paying"
        PROVE  WakeInv'
    BY <1>0, <1>2, WakeTells DEF WakeInv, Told
  <1>3. ASSUME UNCHANGED task, reader'.pc = "wake", wh' # "reader"
        PROVE  WakeInv'
    BY <1>3 DEF WakeInv, Told
  <1>4. CASE DeviceNext \/ UNCHANGED vars
    <2>1. UNCHANGED <<task, slot, reader, wh, desync, stopped>>
      BY <1>4 DEF DeviceNext, DeviceWrite, DeviceReceive, DeviceClose, TransportFails, vars
    <2> QED BY <1>0, <1>1, <2>1 DEF has_ended
  <1>5. CASE ReceiveWrite \/ FailChannel \/ ReceiveClose
    <2>1. wh' # "reader" /\ UNCHANGED <<task, desync, stopped, wh>> /\ reader.pc \in {"recv", "fail"}
      BY <1>0, <1>5 DEF ReceiveWrite, FailChannel, ReceiveClose
    <2>2. reader'.pc = "wake" \/ UNCHANGED slot
      BY <1>5 DEF ReceiveWrite, FailChannel, ReceiveClose
    <2>3. CASE UNCHANGED slot
      BY <1>1, <2>1, <2>3 DEF has_ended
    <2> QED BY <1>3, <2>1, <2>2, <2>3
  <1>6. CASE ReaderWake
    BY <1>0, <1>2, <1>6 DEF ReaderWake
  <1>7. CASE ReaderOwe
    BY <1>0, <1>1, <1>7 DEF ReaderOwe, has_ended
  <1>8. CASE ReaderPay
    <2>1. reader.pc = "pay" /\ UNCHANGED <<task, slot, desync, stopped>>
      BY <1>8 DEF ReaderPay
    <2>2. CASE wh' = wh
      BY <1>0, <1>1, <2>1, <2>2 DEF has_ended
    <2>3. CASE wh = "free" /\ wh' = "reader" /\ reader' = [reader EXCEPT !.pc = "paying"]
      <3>1. reader'.pc = "paying"
        BY <1>0, <2>3 DEF ReaderStates
      <3> QED BY <1>1, <2>1, <2>3, <3>1 DEF has_ended
    <2> QED BY <1>8, <2>2, <2>3 DEF ReaderPay
  <1>9. CASE PayDebt("reader") \/ PayDebt("other")
    <2>1. UNCHANGED <<task, slot, reader, wh, stopped>> /\ wh \in {"reader", "other"}
          /\ (desync => desync') /\ ~desync
      BY <1>9 DEF PayDebt
    <2>2. CASE desync' = desync
      BY <1>0, <1>1, <2>1, <2>2 DEF has_ended
    <2>3. CASE desync'
      BY <1>0, <2>1, <2>3 DEF WakeInv, Told
    <2> QED BY <1>9, <2>1, <2>2, <2>3 DEF PayDebt
  <1>10. CASE ReaderPaid
    <2>1. wh = "reader" /\ reader.pc = "paying" /\ wh' = "free"
          /\ UNCHANGED <<slot, desync, stopped>> /\ task' = IF desync THEN wake(task) ELSE task
      BY <1>0, <1>10 DEF ReaderPaid
    <2>2. CASE desync
      BY <1>2, <2>1, <2>2
    <2>3. CASE ~desync
      BY <1>1, <2>1, <2>3 DEF has_ended
    <2> QED BY <2>2, <2>3
  <1>11. CASE ReaderEnds
    BY <1>2, <1>11 DEF ReaderEnds
  <1>12. CASE OtherLocks
    BY <1>0, <1>1, <1>12 DEF OtherLocks, has_ended
  <1>13. CASE OtherUnlocks
    <2>1. wh' = "free" /\ UNCHANGED <<slot, reader, stopped>>
          /\ task' = IF desync' THEN wake(task) ELSE task
      BY <1>13 DEF OtherUnlocks
    <2>2. CASE desync'
      BY <1>2, <2>1, <2>2
    <2>3. CASE ~desync'
      <3>1. ~desync
        BY <1>13, <2>3 DEF OtherUnlocks
      <3> QED BY <1>1, <2>1, <2>3, <3>1 DEF has_ended
    <2> QED BY <2>2, <2>3
  <1> QED BY <1>4, <1>5, <1>6, <1>7, <1>8, <1>9, <1>10, <1>11, <1>12, <1>13
          DEF ReaderNext, OtherNext

(* Nor does a step of a reading task: it looks again once it listens, and  *)
(* whoever ends the connection wakes the others.                           *)
LEMMA TasksTell ==
    ASSUME TypeOK, HolderInv, WakeInv, NEW t \in Tasks, TaskNext(t)
    PROVE  WakeInv'
  <1>0. /\ task \in [Tasks -> TaskStates] /\ task[t] \in TaskStates
        /\ \A u \in Tasks : Told(u)
        /\ wh = "reader" => reader.pc = "paying"
        /\ t \notin {"free", "reader", "other"}
    BY RxFlowAssumption DEF TypeOK, WakeInv
  <1>1. ASSUME NEW r, task' = [task EXCEPT ![t] = r], NothingNew,
               UNCHANGED <<reader, desync, stopped>>,
               wh' = wh \/ (wh' \notin {"reader", "other"} /\ wh \notin {"reader", "other"}),
               r.listener # "armed" \/ r.pc \notin {"none", "park"} \/ Told(t)'
        PROVE  WakeInv'
    <2>1. task'[t] = r /\ \A u \in Tasks : u # t => task'[u] = task[u]
      BY <1>0, <1>1
    <2>2. Told(t)'
      BY <1>1, <2>1 DEF Told
    <2>3. ASSUME NEW u \in Tasks, u # t PROVE Told(u)'
      BY <1>0, <1>1, <2>1, <2>3 DEF Told, NothingNew, has_ended
    <2> QED BY <1>0, <1>1, <2>2, <2>3 DEF WakeInv
  <1>2. ASSUME NEW r, task' = [wake(task) EXCEPT ![t] = r], UNCHANGED reader, wh' # "reader",
               r.listener # "armed"
        PROVE  WakeInv'
    <2>1. \A u \in Tasks : task'[u].listener # "armed"
      BY <1>0, <1>2, WakeTells, WakeFacts
    <2> QED BY <1>2, <2>1 DEF WakeInv, Told
  <1>3. UNCHANGED slot => NothingNew
    BY DEF NothingNew
  <1>4. CASE StartRead(t)
    <2>1. PICK w \in Wants :
            task' = [task EXCEPT ![t] = [IdleTask EXCEPT !.pc = "take", !.want = w]]
      BY <1>4 DEF StartRead
    <2>2. [IdleTask EXCEPT !.pc = "take", !.want = w].listener # "armed"
      BY DEF IdleTask
    <2> QED BY <1>1, <1>3, <1>4, <2>1, <2>2 DEF StartRead
  <1>5. CASE Take(t)
    <2>1. UNCHANGED <<reader, wh, desync, stopped>> /\ NothingNew
      BY <1>5, TaskShowsNothing DEF Take
    <2>2. CASE task' = [task EXCEPT ![t] = [task[t] EXCEPT !.pc = "lock"]]
      <3>1. [task[t] EXCEPT !.pc = "lock"].pc = "lock"
        BY <1>0 DEF TaskStates
      <3> QED BY <1>1, <2>1, <2>2, <3>1
    <2>3. CASE task' = [task EXCEPT ![t] = IdleTask]
      <3>1. IdleTask.listener # "armed"
        BY DEF IdleTask
      <3> QED BY <1>1, <2>1, <2>3, <3>1
    <2>4. CASE /\ task' = [task EXCEPT ![t] = [task[t] EXCEPT !.pc = "none"]]
               /\ ~has_data(slot) /\ ~is_closed(slot) /\ slot' = slot
      <3>1. task'[t].pc = "none"
        BY <1>0, <2>4 DEF TaskStates
      <3>2. Told(t)'
        BY <2>4, <3>1 DEF Told
      <3> QED BY <1>1, <2>1, <2>4, <3>2
    <2>5. \/ task' = [task EXCEPT ![t] = [task[t] EXCEPT !.pc = "lock"]]
          \/ task' = [task EXCEPT ![t] = IdleTask]
          \/ /\ task' = [task EXCEPT ![t] = [task[t] EXCEPT !.pc = "none"]]
             /\ ~has_data(slot) /\ ~is_closed(slot) /\ slot' = slot
      BY <1>5 DEF Take
    <2> QED BY <2>2, <2>3, <2>4, <2>5
  <1>6. CASE Listen(t)
    <2>1. UNCHANGED <<reader, wh, desync, stopped, slot>> /\ task[t].pc = "none"
      BY <1>6 DEF Listen
    <2>2. CASE task' = [task EXCEPT ![t] = IdleTask]
      <3>1. IdleTask.listener # "armed"
        BY DEF IdleTask
      <3> QED BY <1>1, <1>3, <2>1, <2>2, <3>1
    <2>3. CASE task' = [task EXCEPT ![t] = [task[t] EXCEPT !.listener = "armed", !.pc = "take"]]
      <3>1. [task[t] EXCEPT !.listener = "armed", !.pc = "take"].pc = "take"
        BY <1>0 DEF TaskStates
      <3> QED BY <1>1, <1>3, <2>1, <2>3, <3>1
    <2>4. CASE task' = [task EXCEPT ![t] = [task[t] EXCEPT !.pc = "park"]] /\ ~has_ended
      <3>1. task'[t].pc = "park" /\ task'[t].listener = task[t].listener
        BY <1>0, <2>4 DEF TaskStates
      <3>2. ~has_ended'
        BY <2>1, <2>4 DEF has_ended
      <3>3. Told(t)'
        BY <1>0, <2>1, <3>1, <3>2 DEF Told
      <3> QED BY <1>1, <1>3, <2>1, <2>4, <3>3
    <2>5. \/ task' = [task EXCEPT ![t] = IdleTask]
          \/ task' = [task EXCEPT ![t] = [task[t] EXCEPT !.listener = "armed", !.pc = "take"]]
          \/ task' = [task EXCEPT ![t] = [task[t] EXCEPT !.pc = "park"]] /\ ~has_ended
      BY <1>6 DEF Listen
    <2> QED BY <2>2, <2>3, <2>4, <2>5
  <1>7. CASE Wakes(t)
    <2>1. [task[t] EXCEPT !.listener = "none", !.pc = "take"].listener = "none"
      BY <1>0 DEF TaskStates
    <2> QED BY <1>1, <1>3, <1>7, <2>1 DEF Wakes
  <1>8. CASE Settle(t)
    <2>1. UNCHANGED <<reader, desync, stopped>> /\ NothingNew /\ wh = "free" /\ wh' \in {wh, t}
      BY <1>8, TaskShowsNothing DEF Settle
    <2>2. CASE task' = [task EXCEPT ![t] = [task[t] EXCEPT !.pc = "take"]]
      <3>1. [task[t] EXCEPT !.pc = "take"].pc = "take"
        BY <1>0 DEF TaskStates
      <3> QED BY <1>0, <1>1, <2>1, <2>2, <3>1
    <2>3. ASSUME NEW a, task' = [task EXCEPT ![t] = [task[t] EXCEPT !.pc = "send", !.ack = a]]
          PROVE  WakeInv'
      <3>1. [task[t] EXCEPT !.pc = "send", !.ack = a].pc = "send"
        BY <1>0 DEF TaskStates
      <3> QED BY <1>0, <1>1, <2>1, <2>3, <3>1
    <2> QED BY <1>8, <2>2, <2>3 DEF Settle
  <1>9. CASE SettleCalledOff(t)
    <2>1. [task[t] EXCEPT !.pc = "take"].pc = "take"
      BY <1>0 DEF TaskStates
    <2> QED BY <1>1, <1>3, <1>9, <2>1 DEF SettleCalledOff
  <1>10. CASE SendOkay(t)
    <2>1. [task[t] EXCEPT !.pc = "take", !.ack = NoAck].pc = "take"
      BY <1>0 DEF TaskStates
    <2>2. wh = t /\ wh' = "free"
      BY <1>10 DEF SendOkay, HolderInv
    <2> QED BY <1>0, <1>1, <1>3, <1>10, <2>1, <2>2 DEF SendOkay
  <1>11. CASE SendOkayFails(t)
    <2> DEFINE c == wake(task)[t]
    <2>1. c \in TaskStates /\ c.listener # "armed"
      BY <1>0, WakeTells, WakeFacts
    <2>2. task' = [wake(task) EXCEPT ![t] = [c EXCEPT !.pc = "take", !.ack = NoAck]]
      BY <1>11 DEF SendOkayFails
    <2> HIDE DEF c
    <2>3. [c EXCEPT !.pc = "take", !.ack = NoAck].listener # "armed"
      BY <2>1 DEF TaskStates
    <2> QED BY <1>2, <1>11, <2>2, <2>3 DEF SendOkayFails
  <1>12. CASE DropRead(t)
    <2>1. IdleTask.listener # "armed"
      BY DEF IdleTask
    <2>2. CASE task[t].pc = "send"
      <3>1. wh = t
        BY <2>2 DEF HolderInv
      <3> QED BY <1>2, <1>12, <2>1, <2>2, <3>1 DEF DropRead
    <2>3. CASE task[t].pc # "send"
      <3>1. task' = [task EXCEPT ![t] = IdleTask] /\ UNCHANGED <<reader, stopped, slot>>
            /\ wh' = IF wh = t THEN "free" ELSE wh
        BY <1>12, <2>3 DEF DropRead
      <3>2. desync' = desync
        BY <1>12, <2>3 DEF DropRead, TypeOK
      <3> QED BY <1>0, <1>1, <1>3, <2>1, <3>1, <3>2
    <2> QED BY <2>2, <2>3
  <1> QED BY <1>4, <1>5, <1>6, <1>7, <1>8, <1>9, <1>10, <1>11, <1>12 DEF TaskNext

(* No wakeup is lost, with any number of reads and against any device: a   *)
(* read that waits while there are bytes, a close or an end of the         *)
(* connection to report is about to be woken (select_channel, FlowSignal). *)
THEOREM ReadersWoken == Spec => []NoLostWakeup
  <1>1. Init => WakeInv
    BY DEF Init, WakeInv, Told, IdleTask
  <1>2. TypeOK /\ HolderInv /\ WakeInv /\ [Next]_vars => WakeInv'
    BY OthersTell, TasksTell DEF Next
  <1>3. WakeInv => NoLostWakeup
    BY DEF WakeInv, Told, NoLostWakeup
  <1> QED BY <1>1, <1>2, <1>3, AnyDevice, PTL DEF Spec

-----------------------------------------------------------------------------
(* Bytes of a WRTE that was dropped are a gap in the stream.  There is one *)
(* only on a channel that has failed, or that the Reader is about to fail: *)
(* between the two it has let the lock of the channel table go.            *)
GapInv == arrived # got => slot.failed \/ reader.pc = "fail"

(* A read moves no bytes of the stream and does not revive the channel.    *)
LEMMA TaskKeepsGap ==
    ASSUME TypeOK, HolderInv, NEW t \in Tasks, Take(t) \/ Settle(t)
    PROVE  slot'.failed = slot.failed /\ UNCHANGED <<arrived, got, reader>>
  <1>1. slot \in Slots /\ slot.settled <= slot.rx_buf /\ task[t].want \in Nat
    BY TaskFacts DEF TypeOK, HolderInv
  <1>2. \/ slot' = slot \/ slot' = take_buffered(slot, task[t].want)
        \/ (settle_ack(slot, task[t].want) # NoAck /\ slot' = settle_take(slot, task[t].want))
    BY DEF Take, Settle
  <1>3. CASE slot' = take_buffered(slot, task[t].want)
    <2>1. slot'.failed = slot.failed
      BY <1>1, <1>3, TakeFacts
    <2> QED BY <2>1 DEF Take, Settle
  <1>4. CASE settle_ack(slot, task[t].want) # NoAck /\ slot' = settle_take(slot, task[t].want)
    <2>1. slot'.failed = slot.failed
      BY <1>1, <1>4, SettleFacts
    <2> QED BY <2>1 DEF Take, Settle
  <1>5. CASE slot' = slot
    BY <1>5 DEF Take, Settle
  <1> QED BY <1>2, <1>3, <1>4, <1>5

(* A WRTE is buffered whole and in its place, or it fails the channel, or  *)
(* the channel has failed.                                                 *)
LEMMA WriteGap ==
    ASSUME TypeOK, HolderInv, WireInv, GapInv, ReceiveWrite
    PROVE  GapInv' /\ (arrived # got => got' = got)
  <1> DEFINE len == Head(wire).upto - arrived
  <1>1. wire \in Seq(Inbound) /\ wire # <<>> /\ slot \in Slots /\ slot.settled <= slot.rx_buf
    BY DEF ReceiveWrite, TypeOK, HolderInv
  <1>2. len \in Nat /\ arrived \in Nat /\ got \in Nat /\ Head(wire).upto \in Nat
    <2>1. 1 \in DOMAIN wire /\ Head(wire) = wire[1] /\ wire[1] \in Inbound
      BY <1>1
    <2>2. arrived <= Head(wire).upto /\ Head(wire).upto \in Nat
      BY <2>1 DEF WireInv, Inbound
    <2> QED BY <2>2 DEF TypeOK
  <1>3. arrived' = arrived + len /\ reader.pc = "recv"
    BY <1>2 DEF ReceiveWrite
  <1>4. CASE slot.failed
    BY <1>4 DEF ReceiveWrite, GapInv
  <1>5. CASE ~slot.failed /\ rx_overflows(slot, len)
    BY <1>5 DEF ReceiveWrite, GapInv
  <1>6. CASE ~slot.failed /\ ~rx_overflows(slot, len)
    <2>1. arrived = got
      BY <1>3, <1>6 DEF GapInv
    <2>2. got' = got + len
      BY <1>6 DEF ReceiveWrite
    <2> QED BY <1>2, <1>3, <2>1, <2>2 DEF GapInv
  <1> QED BY <1>4, <1>5, <1>6

(* No other step moves a byte into the buffer, and none makes a failed     *)
(* channel good or lets the Reader forget the one it is about to fail.     *)
LEMMA GapStep ==
    ASSUME TypeOK, HolderInv, WireInv, WakeInv, GapInv, [Next]_vars
    PROVE  GapInv' /\ (arrived # got => got' = got)
  <1>1. slot \in Slots /\ reader \in ReaderStates
    BY DEF TypeOK
  <1>2. CASE ReceiveWrite
    BY <1>2, WriteGap
  <1>3. CASE FailChannel
    <2>1. slot'.failed /\ UNCHANGED got
      BY <1>1, <1>3 DEF FailChannel, fail, Slots
    <2> QED BY <2>1 DEF GapInv
  <1>4. CASE ReceiveClose
    <2>1. slot'.failed = slot.failed /\ UNCHANGED <<arrived, got>> /\ reader.pc = "recv"
      BY <1>1, <1>4 DEF ReceiveClose, apply_close, Slots
    <2> QED BY <2>1 DEF GapInv
  <1>5. ASSUME NEW t \in Tasks, Take(t) \/ Settle(t)
        PROVE  GapInv' /\ (arrived # got => got' = got)
    BY <1>5, TaskKeepsGap DEF GapInv
  <1>6. CASE UNCHANGED <<slot, arrived, got>> /\ (reader.pc = "fail" => reader'.pc = "fail")
    BY <1>6 DEF GapInv
  <1>7. CASE ReaderWake \/ ReaderOwe \/ ReaderPay \/ ReaderPaid \/ ReaderEnds
    <2>1. UNCHANGED <<slot, arrived, got>> /\ reader.pc # "fail"
      BY <1>7 DEF ReaderWake, ReaderOwe, ReaderPay, ReaderPaid, ReaderEnds, WakeInv
    <2> QED BY <1>6, <2>1
  <1>8. CASE DeviceNext \/ OtherNext \/ PayDebt("reader") \/ UNCHANGED vars
    <2>1. UNCHANGED <<slot, arrived, got, reader>>
      BY <1>8 DEF DeviceNext, OtherNext, DeviceWrite, DeviceReceive, DeviceClose, TransportFails,
                  OtherLocks, OtherUnlocks, PayDebt, vars
    <2> QED BY <1>6, <2>1
  <1>9. ASSUME NEW t \in Tasks, TaskNext(t)
        PROVE  Take(t) \/ Settle(t) \/ UNCHANGED <<slot, arrived, got, reader>>
    BY <1>9 DEF TaskNext, StartRead, Listen, Wakes, SettleCalledOff, SendOkay, SendOkayFails, DropRead
  <1> QED BY <1>2, <1>3, <1>4, <1>5, <1>6, <1>7, <1>8, <1>9 DEF Next, ReaderNext

(* Once a WRTE past the cap was dropped, no byte behind the gap is ever    *)
(* buffered, for any device, any number of readers and every               *)
(* configuration: the Reader fails the channel before it receives again,   *)
(* and nothing revives it (act_on, fail_channel).                          *)
THEOREM GapHolds == Spec => NothingAfterGap
  <1>1. Init => WakeInv /\ GapInv
    BY DEF Init, WakeInv, Told, IdleTask, GapInv
  <1>2. TypeOK /\ HolderInv /\ WireInv /\ WakeInv /\ GapInv /\ [Next]_vars => WakeInv' /\ GapInv'
    BY OthersTell, TasksTell, GapStep DEF Next
  <1>3. TypeOK /\ HolderInv /\ WireInv /\ WakeInv /\ GapInv /\ [Next]_vars =>
          [arrived # got => got' = got]_vars
    BY GapStep
  <1> QED BY <1>1, <1>2, <1>3, AnyDevice, PTL DEF Spec, NothingAfterGap

-----------------------------------------------------------------------------
(* The flow control of a channel's receive side.  A device that keeps to   *)
(* it never overflows the receive buffer: with delayed ACK, what the       *)
(* device has sent and not seen acknowledged is bounded by the advertised  *)
(* credit plus one packet, and the buffer holds no byte that was           *)
(* acknowledged; without it, the one token is away from the slot only      *)
(* while the slot is under its watermark.  And acknowledgements are exact: *)
(* each byte is covered by one OKAY, and the token is never lost.          *)


ConformingInv ==
    /\ device.conforming
    /\ TypeOK /\ HolderInv /\ WireInv /\ BackInv /\ IntactInv
    /\ slot.ack = "Delayed" => DelayedInv
    /\ slot.ack = "Classic" => ClassicInv

(* A packet that arrives finds room: the heart of the argument.            *)
LEMMA NoDrop ==
    ASSUME ConformingInv, ReceiveWrite
    PROVE  /\ ~slot.failed /\ Head(wire).upto - arrived \in Nat
           /\ ~rx_overflows(slot, Head(wire).upto - arrived)
           /\ Head(wire) = wire[1] /\ 1 \in DOMAIN wire /\ wire[1].cmd = "WRTE"
           /\ wire[1].upto \in Nat
  <1> USE ConfigAssumption, ConfigFacts
  <1>1. /\ Head(wire) = wire[1] /\ 1 \in DOMAIN wire /\ wire[1] \in Inbound /\ wire[1].cmd = "WRTE"
        /\ wire[1].upto \in Nat
    <2>1. wire # <<>> /\ wire \in Seq(Inbound) /\ Head(wire).cmd = "WRTE"
      BY DEF ReceiveWrite, ConformingInv, TypeOK
    <2>2. Head(wire) = wire[1] /\ 1 \in DOMAIN wire /\ wire[1] \in Inbound
      BY <2>1, TailFacts
    <2> QED BY <2>1, <2>2 DEF Inbound
  <1>2. /\ arrived \in Nat /\ got \in Nat /\ acked \in Nat /\ device.sent \in Nat
        /\ device.acked \in Nat /\ held(slot) \in Int
    BY DEF ConformingInv, TypeOK, DeviceStates, Slots, held
  <1>3. arrived <= wire[1].upto /\ wire[1].upto <= device.sent
    BY <1>1 DEF ConformingInv, WireInv
  <1>4. ~slot.failed /\ got = arrived /\ device.acked <= acked
    BY DEF ConformingInv, IntactInv, BackInv
  <1>5. CASE slot.ack = "Delayed"
    <2>1. (IF wh \in Tasks THEN task[wh].ack ELSE 0) \in Nat
      BY DEF ConformingInv, TypeOK, TaskStates, HolderInv
    <2>2. device.sent <= rx_cap + device.acked
          /\ acked + (IF wh \in Tasks THEN task[wh].ack ELSE 0) + held(slot) <= got
      BY <1>5 DEF ConformingInv, DelayedInv
    <2>3. held(slot) + (wire[1].upto - arrived) <= rx_cap
      BY <1>1, <1>2, <1>3, <1>4, <2>1, <2>2
    <2> QED BY <1>1, <1>2, <1>3, <1>4, <2>3 DEF rx_overflows
  <1>6. CASE slot.ack = "Classic"
    <2>1. WriteInFlight
      BY <1>1 DEF WriteInFlight
    <2>2. held(slot) < rx_watermark /\ wire[1].upto <= arrived + MaxPayload
      BY <1>1, <1>6, <2>1 DEF ConformingInv, ClassicInv, TokenElsewhere
    <2>3. held(slot) + (wire[1].upto - arrived) <= rx_cap
      BY <1>1, <1>2, <1>3, <2>2
    <2> QED BY <1>1, <1>2, <1>3, <1>4, <2>3 DEF rx_overflows
  <1>7. slot.ack \in {"Classic", "Delayed"}
    BY DEF ConformingInv, TypeOK, Slots
  <1> QED BY <1>5, <1>6, <1>7

(* So the step is apply_write, and the OKAY goes out now or later.         *)
LEMMA Received ==
    ASSUME ConformingInv, ReceiveWrite, NEW len, len = Head(wire).upto - arrived
    PROVE  /\ len \in Nat /\ slot' = apply_write(slot, len) /\ got' = got + len
           /\ reader'.pc = "wake"
           /\ reader'.debt = IF acks_write_now(slot, len) THEN len ELSE NoAck
           /\ slot' \in Slots /\ held(slot') = held(slot) + len
           /\ slot'.failed = slot.failed /\ arrived' = arrived + len
           /\ slot'.unacked = IF acks_write_now(slot, len) THEN 0 ELSE slot.unacked + len
  <1>1. len \in Nat /\ ~slot.failed /\ ~rx_overflows(slot, len) /\ arrived \in Nat
        /\ Head(wire).upto \in Nat
    BY NoDrop DEF ConformingInv, TypeOK
  <1>2. /\ slot' = apply_write(slot, len) /\ got' = got + len /\ reader'.pc = "wake"
        /\ reader'.debt = IF acks_write_now(slot, len) THEN len ELSE NoAck
    BY <1>1 DEF ReceiveWrite
  <1>3. slot \in Slots /\ slot.settled <= slot.rx_buf
    BY DEF ConformingInv, TypeOK, HolderInv
  <1>4. arrived' = arrived + len
    BY <1>1 DEF ReceiveWrite
  <1> QED BY <1>1, <1>2, <1>3, <1>4, WriteFacts

(* Only a WRTE gives the reader a debt to record.                          *)
LEMMA DebtStep ==
    ASSUME TypeOK, reader.pc # "fail", [Next]_vars
    PROVE  ReceiveWrite \/ reader'.debt \in {reader.debt, NoAck}
  <1>1. reader \in ReaderStates
    BY DEF TypeOK
  <1>2. CASE ReceiveClose \/ ReaderOwe \/ ReaderEnds
    BY <1>2 DEF ReceiveClose, ReaderOwe, ReaderEnds
  <1>3. CASE ReaderWake \/ ReaderPay \/ ReaderPaid
    <2>1. \A x : [reader EXCEPT !.pc = x].debt = reader.debt
      BY <1>1 DEF ReaderStates
    <2> QED BY <1>3, <2>1 DEF ReaderWake, ReaderPay, ReaderPaid
  <1>4. \/ ReceiveWrite \/ ReceiveClose \/ ReaderOwe \/ ReaderEnds \/ ReaderWake \/ ReaderPay
        \/ ReaderPaid \/ UNCHANGED reader
    BY DEF Next, DeviceNext, ReaderNext, OtherNext, TaskNext, vars, FailChannel, DeviceWrite, DeviceReceive,
           DeviceClose, TransportFails, PayDebt, OtherLocks, OtherUnlocks, StartRead, Take, Listen,
           Wakes, Settle, SettleCalledOff, SendOkay, SendOkayFails, DropRead
  <1> QED BY <1>2, <1>3, <1>4

-----------------------------------------------------------------------------
(* What is on its way to the device: OKAYs only, in increasing order.      *)
LEMMA BackStep == ConformingInv /\ [Next]_vars => BackInv'
  <1> SUFFICES ASSUME ConformingInv, [Next]_vars PROVE BackInv'
    OBVIOUS
  <1>0. /\ BackInv /\ back \in Seq(Outbound) /\ device \in DeviceStates /\ acked \in Nat
        /\ (\A i \in DOMAIN back : back[i].cmd = "OKAY")
        /\ device.acked \in Nat /\ \A p \in Outbound : p.upto \in Nat
    BY DEF ConformingInv, TypeOK, DeviceStates, IntactInv, Outbound
  <1>1. CASE UNCHANGED <<back, acked>> /\ device'.acked = device.acked
    BY <1>0, <1>1 DEF BackInv
  <1>2. ASSUME acked' \in Nat, acked <= acked', back' = Append(back, Okay(acked')), device' = device
        PROVE  BackInv'
    <2> DEFINE p == Okay(acked')
    <2>1. p \in Outbound /\ p.upto = acked'
      BY <1>2 DEF Okay, Outbound
    <2> HIDE DEF p
    <2>2. /\ DOMAIN back = 1 .. Len(back) /\ DOMAIN back' = 1 .. Len(back) + 1
          /\ Len(back) \in Nat /\ back'[Len(back) + 1] = p
          /\ \A i \in DOMAIN back : back'[i] = back[i] /\ back[i].upto \in Nat
      BY <1>0, <1>2, <2>1, AppendFacts DEF p
    <2>3. \A i \in DOMAIN back : device.acked <= back[i].upto /\ back[i].upto <= acked
      BY <1>0 DEF BackInv
    <2>4. device'.acked <= acked'
      BY <1>0, <1>2 DEF BackInv
    <2>5. \A i \in DOMAIN back' : device'.acked <= back'[i].upto /\ back'[i].upto <= acked'
      <3> TAKE i \in DOMAIN back'
      <3>1. CASE i \in DOMAIN back
        BY <1>0, <1>2, <2>2, <2>3, <3>1
      <3>2. CASE i = Len(back) + 1
        BY <1>0, <1>2, <2>1, <2>2, <2>4, <3>2
      <3> QED BY <2>2, <3>1, <3>2
    <2>6. \A i, j \in DOMAIN back' : i <= j => back'[i].upto <= back'[j].upto
      <3> TAKE i, j \in DOMAIN back'
      <3> HAVE i <= j
      <3>1. CASE j \in DOMAIN back
        <4>1. i \in DOMAIN back
          BY <2>2, <3>1
        <4> QED BY <1>0, <2>2, <3>1, <4>1 DEF BackInv
      <3>2. CASE j = Len(back) + 1
        BY <2>1, <2>2, <2>5, <3>2
      <3> QED BY <2>2, <3>1, <3>2
    <2> QED BY <2>4, <2>5, <2>6 DEF BackInv
  <1>3. CASE DeviceReceive
    <2>1. /\ DOMAIN back = 1 .. Len(back) /\ DOMAIN back' = 1 .. Len(back) - 1
          /\ Len(back) \in Nat \ {0} /\ 1 \in DOMAIN back /\ Head(back) = back[1]
          /\ \A i \in DOMAIN back' : i + 1 \in DOMAIN back /\ back'[i] = back[i + 1]
          /\ \A i \in DOMAIN back : back[i].upto \in Nat
      BY <1>0, <1>3, TailFacts DEF DeviceReceive
    <2>2. device'.acked = back[1].upto /\ acked' = acked
      BY <1>0, <1>3, <2>1 DEF DeviceReceive, DeviceStates
    <2>3. \A i \in DOMAIN back : back[1].upto <= back[i].upto /\ back[i].upto <= acked
      BY <1>0, <2>1 DEF BackInv
    <2>4. \A i, j \in DOMAIN back' : i <= j => back'[i].upto <= back'[j].upto
      BY <1>0, <2>1, SMTT(20) DEF BackInv
    <2> QED BY <2>1, <2>2, <2>3, <2>4 DEF BackInv
  <1>4. ASSUME NEW h, PayDebt(h) PROVE BackInv'
    <2>1. owed # <<>> /\ owed \in Seq(Nat)
      BY <1>4 DEF PayDebt, ConformingInv, IntactInv
    <2>2. Head(owed) \in Nat
      BY <2>1
    <2>3. Head(owed) # OweClose
      BY <2>2 DEF OweClose
    <2>4. CASE UNCHANGED <<back, acked>>
      BY <1>1, <1>4, <2>4 DEF PayDebt
    <2>5. CASE acked' = acked + Head(owed) /\ back' = Append(back, Okay(acked'))
      BY <1>0, <1>2, <1>4, <2>2, <2>5 DEF PayDebt
    <2> QED BY <1>4, <2>3, <2>4, <2>5 DEF PayDebt
  <1>5. ASSUME NEW t \in Tasks, SendOkay(t) PROVE BackInv'
    <2>1. task[t].ack \in Nat
      BY <1>5 DEF SendOkay, ConformingInv, HolderInv, TypeOK, TaskStates
    <2> QED BY <1>0, <1>1, <1>2, <1>5, <2>1 DEF SendOkay
  <1>6. CASE DeviceWrite \/ DeviceClose
    BY <1>0, <1>1, <1>6 DEF DeviceWrite, DeviceClose, DeviceStates
  <1>7. \/ UNCHANGED <<back, acked, device>> \/ DeviceReceive \/ DeviceWrite \/ DeviceClose
        \/ (\E h : PayDebt(h)) \/ (\E t \in Tasks : SendOkay(t))
    BY DEF ConformingInv, Next, DeviceNext, ReaderNext, OtherNext, TaskNext, vars, TransportFails,
           ReceiveWrite, FailChannel, ReceiveClose, ReaderWake, ReaderOwe, ReaderPay, ReaderPaid, ReaderEnds,
           OtherLocks, OtherUnlocks, StartRead, Take, Listen, Wakes, Settle, SettleCalledOff,
           SendOkayFails, DropRead
  <1> QED BY <1>1, <1>3, <1>4, <1>5, <1>6, <1>7

(* No packet is dropped, so the channel does not fail and owes no CLSE.    *)
LEMMA IntactStep == ConformingInv /\ [Next]_vars => IntactInv'
  <1> SUFFICES ASSUME ConformingInv, [Next]_vars PROVE IntactInv'
    OBVIOUS
  <1>0. /\ IntactInv /\ slot \in Slots /\ slot.settled <= slot.rx_buf
        /\ back \in Seq(Outbound) /\ owed \in Seq(Nat)
    BY DEF ConformingInv, TypeOK, HolderInv, IntactInv
  <1>1. /\ ~slot'.failed /\ got' = arrived'
    <2>1. CASE UNCHANGED <<slot, got, arrived>>
      BY <1>0, <2>1 DEF IntactInv
    <2>2. CASE ReceiveWrite
      BY <1>0, <2>2, Received DEF IntactInv
    <2>3. CASE ReceiveClose
      BY <1>0, <2>3 DEF IntactInv, ReceiveClose, apply_close, Slots
    <2>4. ASSUME NEW t \in Tasks, Take(t) \/ Settle(t) PROVE ~slot'.failed /\ got' = arrived'
      <3>1. task[t].want \in Nat
        <4>1. task[t] \in TaskStates
          BY DEF ConformingInv, TypeOK
        <4> QED BY <4>1, TaskFacts
      <3>2. \/ slot' = slot \/ slot' = take_buffered(slot, task[t].want)
            \/ (settle_ack(slot, task[t].want) # NoAck /\ slot' = settle_take(slot, task[t].want))
        BY <2>4 DEF Take, Settle
      <3>3. slot'.failed = slot.failed
        <4>1. CASE slot' = take_buffered(slot, task[t].want)
          BY <1>0, <3>1, <4>1, TakeFacts
        <4>2. CASE settle_ack(slot, task[t].want) # NoAck /\ slot' = settle_take(slot, task[t].want)
          BY <1>0, <3>1, <4>2, SettleFacts
        <4> QED BY <3>2, <4>1, <4>2
      <3> QED BY <1>0, <2>4, <3>3 DEF IntactInv, Take, Settle
    <2>5. \/ UNCHANGED <<slot, got, arrived>> \/ ReceiveWrite \/ ReceiveClose
          \/ \E t \in Tasks : Take(t) \/ Settle(t)
      BY DEF ConformingInv, IntactInv, FailChannel, Next, DeviceNext, ReaderNext, OtherNext,
             TaskNext, vars, DeviceWrite,
             DeviceReceive, DeviceClose, TransportFails, ReaderWake, ReaderOwe, ReaderPay,
             PayDebt, ReaderPaid, ReaderEnds, OtherLocks, OtherUnlocks, StartRead, Listen,
             Wakes, SettleCalledOff, SendOkay, SendOkayFails, DropRead
    <2> QED BY <2>1, <2>2, <2>3, <2>4, <2>5
  <1>2. reader'.debt # OweClose
    <2>1. CASE ReceiveWrite
      BY <2>1, Received DEF OweClose, NoAck
    <2>2. CASE reader'.debt \in {reader.debt, NoAck}
      BY <1>0, <2>2 DEF IntactInv, OweClose, NoAck
    <2>3. ReceiveWrite \/ reader'.debt \in {reader.debt, NoAck}
      BY DebtStep DEF ConformingInv, IntactInv
    <2> QED BY <2>1, <2>2, <2>3
  <1>3. owed' \in Seq(Nat)
    <2>1. CASE ReaderOwe
      <3>1. reader.debt \in Nat
        BY <1>0, <2>1 DEF ReaderOwe, ConformingInv, TypeOK, ReaderStates, HolderInv, IntactInv
      <3> QED BY <1>0, <2>1, <3>1 DEF ReaderOwe
    <2>2. ASSUME NEW h, PayDebt(h) PROVE owed' \in Seq(Nat)
      <3>1. owed # <<>> /\ owed' \in {owed, Tail(owed), <<>>}
        BY <2>2 DEF PayDebt
      <3>2. Tail(owed) \in Seq(Nat)
        BY <1>0, <3>1, TailFacts
      <3>3. <<>> \in Seq(Nat)
        OBVIOUS
      <3> QED BY <1>0, <3>1, <3>2, <3>3
    <2>3. ReaderOwe \/ (\E h : PayDebt(h)) \/ UNCHANGED owed
      BY DEF Next, DeviceNext, ReaderNext, OtherNext, TaskNext, vars, DeviceWrite,
             DeviceReceive, DeviceClose, TransportFails, ReceiveWrite, FailChannel, ReceiveClose, ReaderWake,
             ReaderPay, ReaderPaid, ReaderEnds, OtherLocks, OtherUnlocks, StartRead, Take, Listen,
             Wakes, Settle, SettleCalledOff, SendOkay, SendOkayFails, DropRead
    <2> QED BY <1>0, <2>1, <2>2, <2>3
  <1>4. \A i \in DOMAIN back' : back'[i].cmd = "OKAY"
    <2>0. \A i \in DOMAIN back : back[i].cmd = "OKAY"
      BY <1>0 DEF IntactInv
    <2>1. CASE DeviceReceive
      <3>1. \A i \in DOMAIN back' : i + 1 \in DOMAIN back /\ back'[i] = back[i + 1]
        BY <1>0, <2>1, TailFacts DEF DeviceReceive
      <3> QED BY <2>0, <3>1
    <2>2. ASSUME NEW n \in Nat, back' = Append(back, Okay(n)) PROVE \A i \in DOMAIN back' : back'[i].cmd = "OKAY"
      <3>1. Okay(n) \in Outbound /\ Okay(n).cmd = "OKAY"
        BY DEF Okay, Outbound
      <3>2. /\ DOMAIN back = 1 .. Len(back) /\ DOMAIN back' = 1 .. Len(back) + 1
            /\ Len(back) \in Nat /\ back'[Len(back) + 1] = Okay(n)
            /\ \A i \in DOMAIN back : back'[i] = back[i]
        BY <1>0, <2>2, <3>1, AppendFacts
      <3> QED BY <2>0, <3>1, <3>2
    <2>3. (TypeOK /\ HolderInv /\ WireInv)'
      BY AnyDeviceStep DEF ConformingInv
    <2>4. acked' \in Nat
      BY <2>3 DEF TypeOK
    <2>5. ASSUME NEW h, PayDebt(h) PROVE back' = back \/ back' = Append(back, Okay(acked'))
      <3>1. owed # <<>> /\ Head(owed) \in Nat
        BY <1>0, <2>5 DEF PayDebt
      <3>2. Head(owed) # OweClose
        BY <3>1 DEF OweClose
      <3> QED BY <2>5, <3>2 DEF PayDebt
    <2>6. ASSUME NEW t \in Tasks, SendOkay(t) PROVE back' = back \/ back' = Append(back, Okay(acked'))
      BY <2>6 DEF SendOkay
    <2>7. \/ UNCHANGED back \/ DeviceReceive \/ (\E h : PayDebt(h)) \/ (\E t \in Tasks : SendOkay(t))
      BY DEF Next, DeviceNext, ReaderNext, OtherNext, TaskNext, vars, DeviceWrite, DeviceClose,
             TransportFails, ReceiveWrite, FailChannel, ReceiveClose, ReaderWake, ReaderOwe, ReaderPay,
             ReaderPaid, ReaderEnds, OtherLocks, OtherUnlocks, StartRead, Take, Listen, Wakes,
             Settle, SettleCalledOff, SendOkayFails, DropRead
    <2> QED BY <2>0, <2>1, <2>2, <2>4, <2>5, <2>6, <2>7
  <1>5. reader'.pc # "fail"
    <2>1. CASE ReceiveWrite
      BY <2>1, Received
    <2>2. CASE reader' = reader
      BY <1>0, <2>2 DEF IntactInv
    <2>3. CASE ReceiveClose \/ ReaderOwe \/ ReaderEnds \/ ReaderWake \/ ReaderPay \/ ReaderPaid
      BY <2>3 DEF ReceiveClose, ReaderOwe, ReaderEnds, ReaderWake, ReaderPay, ReaderPaid,
                  ConformingInv, TypeOK, ReaderStates
    <2>4. \/ ReceiveWrite \/ ReceiveClose \/ ReaderOwe \/ ReaderEnds \/ ReaderWake \/ ReaderPay
          \/ ReaderPaid \/ UNCHANGED reader
      BY <1>0 DEF IntactInv, Next, DeviceNext, ReaderNext, OtherNext, TaskNext, vars, FailChannel,
             DeviceWrite, DeviceReceive, DeviceClose, TransportFails, PayDebt, OtherLocks,
             OtherUnlocks, StartRead, Take, Listen, Wakes, Settle, SettleCalledOff, SendOkay,
             SendOkayFails, DropRead
    <2> QED BY <2>1, <2>2, <2>3, <2>4
  <1> QED BY <1>1, <1>2, <1>3, <1>4, <1>5 DEF IntactInv

-----------------------------------------------------------------------------
(* Delayed ACK.                                                            *)

InHand == IF wh \in Tasks THEN task[wh].ack ELSE 0

(* Credit comes back only as bytes leave `held`.                           *)
LEMMA DelayedStep == ConformingInv /\ slot.ack = "Delayed" /\ [Next]_vars => DelayedInv'
  <1> SUFFICES ASSUME ConformingInv, slot.ack = "Delayed", [Next]_vars PROVE DelayedInv'
    OBVIOUS
  <1>0. /\ DelayedInv /\ reader.debt = NoAck /\ owed = <<>>
        /\ device.sent <= rx_cap + device.acked /\ acked + InHand + held(slot) <= got
    BY DEF ConformingInv, DelayedInv, InHand
  <1>1. /\ slot \in Slots /\ slot.settled <= slot.rx_buf /\ device \in DeviceStates
        /\ acked \in Nat /\ got \in Nat /\ held(slot) \in Int /\ InHand \in Nat
        /\ device.sent \in Nat /\ device.acked \in Nat
    BY DEF ConformingInv, TypeOK, DeviceStates, Slots, held, HolderInv, InHand, TaskStates
  <1>2. (TypeOK /\ HolderInv /\ WireInv)' /\ IntactInv'
    BY AnyDeviceStep, IntactStep DEF ConformingInv
  <1>3. /\ slot' \in Slots /\ device' \in DeviceStates /\ acked' \in Nat /\ got' \in Nat
        /\ held(slot') \in Int /\ InHand' \in Nat
    BY <1>2, SMTT(20) DEF TypeOK, DeviceStates, Slots, held, HolderInv, InHand, TaskStates
  <1>4. reader'.debt = NoAck /\ owed' = <<>>
    <2>1. reader'.debt = NoAck
      <3>1. CASE ReceiveWrite
        <4>1. ~acks_write_now(slot, Head(wire).upto - arrived)
          BY DEF acks_write_now
        <4> QED BY <3>1, <4>1, Received
      <3> QED BY <1>0, <3>1, DebtStep DEF ConformingInv, IntactInv
    <2>2. ~ReaderOwe /\ \A h : ~PayDebt(h)
      BY <1>0 DEF ReaderOwe, PayDebt, ConformingInv, HolderInv
    <2>3. ReaderOwe \/ (\E h : PayDebt(h)) \/ UNCHANGED owed
      BY DEF Next, DeviceNext, ReaderNext, OtherNext, TaskNext, vars, DeviceWrite,
             DeviceReceive, DeviceClose, TransportFails, ReceiveWrite, FailChannel, ReceiveClose, ReaderWake,
             ReaderPay, ReaderPaid, ReaderEnds, OtherLocks, OtherUnlocks, StartRead, Take, Listen,
             Wakes, Settle, SettleCalledOff, SendOkay, SendOkayFails, DropRead
    <2> QED BY <1>0, <2>1, <2>2, <2>3
  <1>5. device'.sent <= rx_cap + device'.acked
    <2>1. CASE DeviceWrite
      <3> PICK len \in Lens : device' = [device EXCEPT !.sent = @ + len, !.ready = FALSE]
        BY <2>1 DEF DeviceWrite
      <3>1. len \in Nat /\ len <= MaxPayload
        BY RxFlowAssumption, ConfigAssumption
      <3>2. advertised_ack_bytes + device.acked > device.sent
        BY <2>1 DEF DeviceWrite, device_may_write, ConformingInv
      <3>3. device'.sent = device.sent + len /\ device'.acked = device.acked
        BY <1>1 DEF DeviceStates
      <3> QED BY <1>1, <3>1, <3>2, <3>3, ConfigFacts, ConfigAssumption
    <2>2. CASE DeviceReceive
      <3>1. back # <<>> /\ back \in Seq(Outbound)
        BY <2>2 DEF DeviceReceive, ConformingInv, TypeOK
      <3>2. Head(back) = back[1] /\ 1 \in DOMAIN back /\ back[1] \in Outbound
        BY <3>1, TailFacts
      <3>3. back[1].cmd = "OKAY" /\ device.acked <= back[1].upto /\ back[1].upto \in Nat
        BY <3>2 DEF ConformingInv, IntactInv, BackInv, Outbound
      <3>4. device'.sent = device.sent /\ device'.acked = back[1].upto
        BY <1>1, <2>2, <3>2, <3>3 DEF DeviceReceive, DeviceStates
      <3> QED BY <1>0, <1>1, <3>3, <3>4, ConfigFacts, SMTT(20)
    <2>3. CASE DeviceClose
      BY <1>0, <1>1, <2>3 DEF DeviceClose, DeviceStates
    <2>4. DeviceWrite \/ DeviceReceive \/ DeviceClose \/ UNCHANGED device
      BY DEF Next, DeviceNext, ReaderNext, OtherNext, TaskNext, vars, TransportFails,
             ReceiveWrite, FailChannel, ReceiveClose, ReaderWake, ReaderOwe, ReaderPay, PayDebt, ReaderPaid,
             ReaderEnds, OtherLocks, OtherUnlocks, StartRead, Take, Listen, Wakes, Settle,
             SettleCalledOff, SendOkay, SendOkayFails, DropRead
    <2> QED BY <1>0, <2>1, <2>2, <2>3, <2>4
  <1>6. acked' + InHand' + held(slot') <= got'
    <2>1. CASE ReceiveWrite
      <3> DEFINE len == Head(wire).upto - arrived
      <3>1. len \in Nat /\ got' = got + len /\ held(slot') = held(slot) + len
        BY <2>1, Received
      <3>2. acked' = acked /\ InHand' = InHand
        BY <2>1 DEF ReceiveWrite, InHand
      <3> HIDE DEF len
      <3> QED BY <1>0, <1>1, <3>1, <3>2
    <2>2. CASE ReceiveClose
      <3>1. acked' = acked /\ InHand' = InHand /\ got' = got /\ held(slot') = held(slot)
        BY <1>1, <2>2 DEF ReceiveClose, InHand, apply_close, Slots, held
      <3> QED BY <1>0, <3>1
    <2>3. ASSUME acked' = acked, got' = got, InHand' <= InHand, held(slot') <= held(slot)
          PROVE  acked' + InHand' + held(slot') <= got'
      BY <1>0, <1>1, <1>3, <2>3
    <2>4. ASSUME NEW t \in Tasks, Settle(t) PROVE acked' + InHand' + held(slot') <= got'
      <3>0. task[t] \in TaskStates
        BY DEF ConformingInv, TypeOK
      <3>1. task[t].want \in Nat
        BY <3>0, TaskFacts
      <3>2. CASE UNCHANGED <<slot, wh>>
        <4>1. wh \notin Tasks
          BY <2>4, RxFlowAssumption DEF Settle
        <4> QED BY <1>1, <2>3, <2>4, <3>2, <4>1 DEF Settle, InHand
      <3>3. CASE settle_ack(slot, task[t].want) # NoAck
                 /\ slot' = settle_take(slot, task[t].want) /\ wh' = t
                 /\ task' = [task EXCEPT ![t] = [@ EXCEPT !.pc = "send", !.ack = settle_ack(slot, task[t].want)]]
        <4>1. /\ settle_ack(slot, task[t].want) \in Nat
              /\ settle_ack(slot, task[t].want) + held(slot') <= held(slot)
          BY <1>1, <3>1, <3>3, SettleFacts
        <4>2. InHand' = settle_ack(slot, task[t].want)
          BY <3>0, <3>3 DEF InHand, TaskStates, ConformingInv, TypeOK
        <4>3. acked' = acked /\ got' = got /\ InHand = 0
          BY <2>4, RxFlowAssumption DEF Settle, InHand
        <4> QED BY <1>0, <1>1, <1>3, <4>1, <4>2, <4>3
      <3> QED BY <2>4, <3>2, <3>3 DEF Settle
    <2>5. ASSUME NEW t \in Tasks, SendOkay(t) PROVE acked' + InHand' + held(slot') <= got'
      <3>1. wh = t /\ InHand = task[t].ack
        BY <2>5 DEF SendOkay, ConformingInv, HolderInv, InHand
      <3>2. InHand' = 0 /\ got' = got /\ slot' = slot
        BY <2>5, RxFlowAssumption DEF SendOkay, InHand
      <3>3. acked' = acked \/ acked' = acked + task[t].ack
        BY <2>5 DEF SendOkay
      <3> QED BY <1>0, <1>1, <3>1, <3>2, <3>3
    <2>6. ASSUME NEW t \in Tasks, Take(t) PROVE acked' + InHand' + held(slot') <= got'
      <3>1. task[t].want \in Nat
        <4>1. task[t] \in TaskStates
          BY DEF ConformingInv, TypeOK
        <4> QED BY <4>1, TaskFacts
      <3>2. slot' = slot \/ slot' = take_buffered(slot, task[t].want)
        BY <2>6 DEF Take
      <3>3. held(slot') <= held(slot)
        <4>1. held(take_buffered(slot, task[t].want)) <= held(slot)
          BY <1>1, <3>1, TakeFacts
        <4> QED BY <1>1, <3>2, <4>1
      <3>4. wh \in Tasks => wh # t
        BY <2>6 DEF Take, ConformingInv, HolderInv
      <3>5. InHand' = InHand
        <4>1. wh' = wh /\ \A u \in Tasks : u # t => task'[u] = task[u]
          BY <2>6 DEF Take, ConformingInv, TypeOK
        <4> QED BY <3>4, <4>1 DEF InHand
      <3>6. acked' = acked /\ got' = got
        BY <2>6 DEF Take
      <3> QED BY <1>1, <2>3, <3>3, <3>5, <3>6
    <2>7. CASE /\ UNCHANGED <<slot, acked, got>>
               /\ wh' \in Tasks => wh' = wh
               /\ \A u \in Tasks : u = wh' => task'[u].ack = task[u].ack
      <3>1. InHand' = InHand \/ InHand' = 0
        BY <2>7 DEF InHand
      <3> QED BY <1>1, <2>3, <2>7, <3>1
    <2>8. CASE DeviceNext \/ ReaderOwe \/ ReaderPay \/ OtherLocks \/ UNCHANGED vars
      BY <2>7, <2>8, RxFlowAssumption
         DEF DeviceNext, DeviceWrite, DeviceReceive, DeviceClose, TransportFails, ReaderOwe,
             ReaderPay, OtherLocks, vars
    <2>9. CASE ReaderWake \/ ReaderPaid \/ ReaderEnds \/ OtherUnlocks
      <3>1. task' \in {task, wake(task)}
        BY <2>9 DEF ReaderWake, ReaderPaid, ReaderEnds, OtherUnlocks
      <3>2. \A u \in Tasks : task'[u].ack = task[u].ack
        BY <3>1, WakeFacts DEF ConformingInv, TypeOK
      <3>3. UNCHANGED <<slot, acked, got>> /\ (wh' = wh \/ wh' = "free")
        BY <2>9 DEF ReaderWake, ReaderPaid, ReaderEnds, OtherUnlocks
      <3> QED BY <2>7, <3>2, <3>3, RxFlowAssumption
    <2>10. ASSUME NEW t \in Tasks, StartRead(t) \/ Listen(t) \/ Wakes(t) \/ SettleCalledOff(t)
                                   \/ SendOkayFails(t) \/ DropRead(t)
           PROVE  acked' + InHand' + held(slot') <= got'
      <3>1. UNCHANGED <<slot, acked, got>> /\ (wh' = wh \/ wh' = "free") /\ wh' # t
        BY <2>10, RxFlowAssumption
           DEF StartRead, Listen, Wakes, SettleCalledOff, SendOkayFails, DropRead, ConformingInv, HolderInv
      <3>2. task \in [Tasks -> TaskStates] /\ wake(task) \in [Tasks -> TaskStates]
        BY WakeFacts DEF ConformingInv, TypeOK
      <3>3. \E ts \in {task, wake(task)} : \E r : task' = [ts EXCEPT ![t] = r]
        BY <2>10 DEF StartRead, Listen, Wakes, SettleCalledOff, SendOkayFails, DropRead
      <3>4. \A u \in Tasks : u # t => task'[u].ack = task[u].ack
        BY <3>2, <3>3, WakeFacts
      <3> QED BY <2>7, <3>1, <3>4, RxFlowAssumption
    <2>11. ~PayDebt("reader") /\ ~PayDebt("other") /\ ~FailChannel
      BY <1>0 DEF PayDebt, FailChannel, ConformingInv, IntactInv
    <2> QED BY <2>1, <2>2, <2>4, <2>5, <2>6, <2>8, <2>9, <2>10, <2>11
            DEF Next, ReaderNext, OtherNext, TaskNext
  <1> QED BY <1>4, <1>5, <1>6 DEF DelayedInv, InHand, held

-----------------------------------------------------------------------------
(* Classic flow control: the token.                                        *)

(* Where the packets of the one outstanding WRTE can be.                   *)
ClassicWire ==
    /\ ~device.closed => /\ \A i \in DOMAIN wire : wire[i].cmd = "WRTE"
                         /\ device.sent = IF wire = <<>> THEN arrived ELSE wire[Len(wire)].upto
    /\ \A i \in DOMAIN wire : wire[i].cmd = "WRTE" => i = 1 /\ wire[i].upto <= arrived + MaxPayload

(* ClassicInv is the conjunction of its two halves.                        *)
LEMMA ClassicParts ==
    ClassicInv <=> Token <= 1 /\ (TokenElsewhere => held(slot) < rx_watermark) /\ ClassicWire
  BY DEF ClassicInv, ClassicWire

(* What `Token <= 1` says: two places never both have it.                  *)
LEMMA TokenFacts ==
    ASSUME TypeOK
    PROVE  /\ Len(owed) \in Nat /\ Len(back) \in Nat /\ slot.unacked \in Nat
           /\ Token \in Nat
           /\ owed # <<>> => Len(owed) > 0
           /\ back # <<>> => Len(back) > 0
  BY DEF TypeOK, Slots, Token, B2N

(* The wire part: a WRTE is alone there, so the next one starts where the  *)
(* last arrived one ended.                                                 *)
LEMMA ClassicWireStep == ConformingInv /\ slot.ack = "Classic" /\ [Next]_vars => ClassicWire'
  <1> SUFFICES ASSUME ConformingInv, slot.ack = "Classic", [Next]_vars PROVE ClassicWire'
    OBVIOUS
  <1>0. /\ ClassicWire /\ Token <= 1 /\ wire \in Seq(Inbound) /\ arrived \in Nat /\ TypeOK
        /\ device \in DeviceStates
    BY ClassicParts DEF ConformingInv, TypeOK
  <1>1. CASE UNCHANGED <<wire, arrived>> /\ device'.sent = device.sent /\ device'.closed = device.closed
    BY <1>0, <1>1 DEF ClassicWire
  <1>2. CASE DeviceWrite
    <2> PICK len \in Lens :
          /\ wire' = Append(wire, [cmd |-> "WRTE", upto |-> device.sent + len])
          /\ device' = [device EXCEPT !.sent = @ + len, !.ready = FALSE]
      BY <1>2 DEF DeviceWrite
    <2>1. len \in Nat /\ len <= MaxPayload /\ MaxPayload \in Nat /\ device.sent \in Nat
      BY <1>0, RxFlowAssumption, ConfigAssumption DEF DeviceStates
    <2>2. device.ready /\ ~device.closed /\ arrived' = arrived
      BY <1>2 DEF DeviceWrite, device_may_write, ConformingInv
    <2>3. ~WriteInFlight
      BY <1>0, <2>2, TokenFacts DEF Token, B2N
    <2>4. wire = <<>>
      <3>1. DOMAIN wire = {}
        BY <1>0, <2>2, <2>3 DEF ClassicWire, WriteInFlight
      <3> QED BY <1>0, <3>1
    <2>5. device.sent = arrived
      BY <1>0, <2>2, <2>4 DEF ClassicWire
    <2>6. [cmd |-> "WRTE", upto |-> device.sent + len] \in Inbound
      BY <2>1 DEF Inbound
    <2>7. DOMAIN wire' = {1} /\ Len(wire') = 1 /\ wire'[1].cmd = "WRTE"
          /\ wire'[1].upto = device.sent + len /\ wire' # <<>>
      <3> DEFINE p == [cmd |-> "WRTE", upto |-> device.sent + len]
      <3>1. p.cmd = "WRTE" /\ p.upto = device.sent + len
        OBVIOUS
      <3>2. p \in Inbound /\ wire' = Append(wire, p)
        BY <2>6
      <3> HIDE DEF p
      <3>3. Len(wire) = 0
        BY <2>4
      <3>4. DOMAIN wire' = 1 .. 1 /\ wire'[1] = p /\ wire' \in Seq(Inbound)
        BY <1>0, <3>2, <3>3, AppendFacts
      <3>5. Len(wire') = 1 /\ wire' # <<>>
        BY <3>4
      <3> QED BY <3>1, <3>4, <3>5
    <2>8. device'.sent = device.sent + len
      BY <1>0 DEF DeviceStates
    <2> QED BY <2>1, <2>2, <2>5, <2>7, <2>8 DEF ClassicWire
  <1>3. CASE DeviceClose
    <2> DEFINE p == [cmd |-> "CLSE", upto |-> device.sent]
    <2>1. p \in Inbound /\ p.cmd = "CLSE"
      BY <1>0 DEF Inbound, DeviceStates
    <2>2. wire' = Append(wire, p) /\ arrived' = arrived /\ device'.closed
      BY <1>0, <1>3 DEF DeviceClose, DeviceStates
    <2> HIDE DEF p
    <2>3. /\ DOMAIN wire = 1 .. Len(wire) /\ DOMAIN wire' = 1 .. Len(wire) + 1
          /\ Len(wire) \in Nat /\ wire'[Len(wire) + 1] = p
          /\ \A i \in DOMAIN wire : wire'[i] = wire[i]
      BY <1>0, <2>1, <2>2, AppendFacts
    <2> QED BY <1>0, <2>1, <2>2, <2>3 DEF ClassicWire
  <1>4. CASE DeviceReceive
    <2>1. Head(back).cmd = "OKAY"
      <3>1. back # <<>> /\ back \in Seq(Outbound)
        BY <1>0, <1>4 DEF DeviceReceive, TypeOK
      <3>2. Head(back) = back[1] /\ 1 \in DOMAIN back
        BY <3>1, TailFacts
      <3> QED BY <3>2 DEF ConformingInv, IntactInv
    <2>2. device'.sent = device.sent /\ device'.closed = device.closed
      BY <1>0, <1>4, <2>1 DEF DeviceReceive, DeviceStates
    <2> QED BY <1>1, <1>4, <2>2 DEF DeviceReceive
  <1>5. CASE ReceiveWrite \/ ReceiveClose
    <2>1. /\ wire # <<>> /\ wire' = Tail(wire) /\ device' = device
      BY <1>5 DEF ReceiveWrite, ReceiveClose
    <2>2. /\ DOMAIN wire = 1 .. Len(wire) /\ DOMAIN wire' = 1 .. Len(wire) - 1
          /\ Len(wire) \in Nat \ {0} /\ 1 \in DOMAIN wire /\ Head(wire) = wire[1]
          /\ \A i \in DOMAIN wire' : i + 1 \in DOMAIN wire /\ wire'[i] = wire[i + 1]
          /\ wire' \in Seq(Inbound)
      BY <1>0, <2>1, TailFacts
    <2>3. \A i \in DOMAIN wire' : wire'[i].cmd # "WRTE"
      BY <1>0, <2>2 DEF ClassicWire
    <2>4. ASSUME ~device.closed
          PROVE  wire' = <<>> /\ device.sent = arrived'
      <3>1. \A i \in DOMAIN wire : wire[i].cmd = "WRTE" /\ i = 1
        BY <1>0, <2>4 DEF ClassicWire
      <3>2. Len(wire) = 1
        BY <2>2, <3>1
      <3>3. wire' = <<>>
        BY <2>2, <3>2
      <3>4. device.sent = wire[1].upto
        BY <1>0, <2>1, <2>4, <3>2 DEF ClassicWire
      <3>5. arrived' = wire[1].upto
        BY <1>5, <2>2, <3>1 DEF ReceiveWrite, ReceiveClose
      <3> QED BY <3>3, <3>4, <3>5
    <2> QED BY <2>1, <2>2, <2>3, <2>4 DEF ClassicWire
  <1>6. FailChannel \/ ReaderWake \/ ReaderOwe \/ ReaderPay \/ ReaderPaid \/ ReaderEnds \/ OtherNext
          \/ TransportFails \/ PayDebt("reader") \/ (\E t \in Tasks : TaskNext(t)) \/ UNCHANGED vars
        => UNCHANGED <<wire, arrived, device>>
    BY DEF OtherNext, TaskNext, vars, TransportFails, FailChannel, ReaderWake, ReaderOwe, ReaderPay,
           PayDebt, ReaderPaid, ReaderEnds, OtherLocks, OtherUnlocks, StartRead, Take, Listen,
           Wakes, Settle, SettleCalledOff, SendOkay, SendOkayFails, DropRead
  <1> QED BY <1>1, <1>2, <1>3, <1>4, <1>5, <1>6 DEF Next, DeviceNext, ReaderNext

(* The token moves from one place to the next and is never doubled, and it *)
(* leaves the slot only as the slot falls under its watermark.             *)
TokenInv == Token <= 1 /\ (TokenElsewhere => held(slot) < rx_watermark)

(* No step doubles the token or hands it on over the watermark.            *)
LEMMA TokenStep == ConformingInv /\ slot.ack = "Classic" /\ [Next]_vars => TokenInv'
  <1> SUFFICES ASSUME ConformingInv, slot.ack = "Classic", [Next]_vars PROVE TokenInv'
    OBVIOUS
  <1>0. TypeOK /\ TokenInv /\ ClassicWire /\ HolderInv
    BY ClassicParts DEF ConformingInv, TokenInv
  <1>1. TypeOK'
    BY AnyDeviceStep DEF ConformingInv
  <1>a. /\ Len(owed) \in Nat /\ Len(back) \in Nat /\ slot.unacked \in Nat
        /\ owed # <<>> => Len(owed) > 0
        /\ back # <<>> => Len(back) > 0
    BY <1>0, TokenFacts
  <1>b. /\ Len(owed') \in Nat /\ Len(back') \in Nat /\ slot'.unacked \in Nat
        /\ owed' # <<>> => Len(owed') > 0
        /\ back' # <<>> => Len(back') > 0
    BY <1>1 DEF TypeOK, Slots
  <1>c. held(slot) \in Int /\ held(slot') \in Int /\ rx_watermark \in Int
    <2>1. slot \in Slots /\ slot' \in Slots
      BY <1>0, <1>1 DEF TypeOK
    <2>2. \A s \in Slots : held(s) \in Int
      BY DEF Slots, held
    <2> QED BY <2>1, <2>2, ConfigFacts
  <1>d. held(slot)' = held(slot')
    BY DEF held
  <1>2. ASSUME device'.ready => device.ready, WriteInFlight' => WriteInFlight,
               slot'.unacked > 0 => slot.unacked > 0, reader'.debt # NoAck => reader.debt # NoAck,
               wh' \in Tasks => wh \in Tasks,
               Len(owed') + Len(back') <= Len(owed) + Len(back),
               owed' # <<>> \/ back' # <<>> => TokenElsewhere,
               held(slot') <= held(slot)
        PROVE  TokenInv'
    <2>1. Token' <= 1
      BY <1>0, <1>2, <1>a, <1>b DEF TokenInv, Token, B2N
    <2>2. TokenElsewhere' => TokenElsewhere
      BY <1>2 DEF TokenElsewhere
    <2> QED BY <1>0, <1>2, <1>c, <1>d, <2>1, <2>2 DEF TokenInv
  <1>3. CASE DeviceWrite
    <2>1. device.ready /\ ~device'.ready
      BY <1>0, <1>3 DEF DeviceWrite, device_may_write, ConformingInv, TypeOK, DeviceStates
    <2>2. UNCHANGED <<slot, reader, wh, owed, back>>
      BY <1>3 DEF DeviceWrite
    <2>3. Token' <= 1
      BY <1>0, <1>a, <2>1, <2>2 DEF TokenInv, Token, B2N
    <2>4. held(slot') < rx_watermark
      BY <1>0, <2>1, <2>2 DEF TokenInv, TokenElsewhere
    <2> QED BY <1>d, <2>3, <2>4 DEF TokenInv
  <1>4. CASE DeviceReceive
    <2>1. back # <<>> /\ Len(back') = Len(back) - 1 /\ UNCHANGED <<slot, reader, wh, owed, wire>>
      <3>1. back # <<>> /\ back \in Seq(Outbound)
        BY <1>0, <1>4 DEF DeviceReceive, TypeOK
      <3> QED BY <1>4, <3>1, TailFacts DEF DeviceReceive
    <2>2. WriteInFlight' = WriteInFlight
      BY <2>1 DEF WriteInFlight
    <2>3. Token' <= 1
      BY <1>0, <1>a, <2>1, <2>2 DEF TokenInv, Token, B2N
    <2>4. held(slot') < rx_watermark
      BY <1>0, <2>1 DEF TokenInv, TokenElsewhere
    <2> QED BY <1>d, <2>3, <2>4 DEF TokenInv
  <1>5. CASE DeviceClose
    <2>1. UNCHANGED <<slot, reader, wh, owed, back>> /\ device'.ready = device.ready
      BY <1>0, <1>5 DEF DeviceClose, TypeOK, DeviceStates
    <2>2. WriteInFlight' => WriteInFlight
      <3> DEFINE p == [cmd |-> "CLSE", upto |-> device.sent]
      <3>1. p \in Inbound /\ p.cmd # "WRTE" /\ wire' = Append(wire, p) /\ wire \in Seq(Inbound)
        BY <1>0, <1>5 DEF Inbound, DeviceStates, TypeOK, DeviceClose
      <3> HIDE DEF p
      <3>2. /\ DOMAIN wire = 1 .. Len(wire) /\ DOMAIN wire' = 1 .. Len(wire) + 1
            /\ Len(wire) \in Nat /\ wire'[Len(wire) + 1] = p
            /\ \A i \in DOMAIN wire : wire'[i] = wire[i]
        BY <3>1, AppendFacts
      <3> QED BY <3>1, <3>2 DEF WriteInFlight
    <2> QED BY <1>2, <1>a, <1>c, <2>1, <2>2 DEF TokenElsewhere
  <1>6. CASE ReceiveWrite \/ ReceiveClose
    <2>1. UNCHANGED <<device, wh, owed, back>> /\ wire # <<>> /\ wire' = Tail(wire)
      BY <1>6 DEF ReceiveWrite, ReceiveClose
    <2>2. /\ 1 \in DOMAIN wire /\ Head(wire) = wire[1] /\ DOMAIN wire = 1 .. Len(wire)
          /\ DOMAIN wire' = 1 .. Len(wire) - 1 /\ Len(wire) \in Nat
          /\ \A i \in DOMAIN wire' : i + 1 \in DOMAIN wire /\ wire'[i] = wire[i + 1]
      <3>1. wire \in Seq(Inbound)
        BY <1>0 DEF TypeOK
      <3> QED BY <2>1, <3>1, TailFacts
    <2>3. ~WriteInFlight'
      BY <1>0, <2>2 DEF WriteInFlight, ClassicWire
    <2>4. CASE ReceiveClose
      <3>1. slot'.unacked = 0 /\ held(slot') = held(slot) /\ reader'.debt = NoAck
        BY <1>0, <2>4 DEF ReceiveClose, apply_close, TypeOK, Slots, held
      <3> QED BY <1>2, <1>a, <1>c, <2>1, <2>3, <3>1 DEF TokenElsewhere
    <2>5. CASE ReceiveWrite
      <3> DEFINE len == Head(wire).upto - arrived
      <3>1. WriteInFlight
        BY <2>2, <2>5, NoDrop DEF WriteInFlight
      <3>2. /\ ~device.ready /\ slot.unacked = 0 /\ reader.debt = NoAck /\ wh \notin Tasks
            /\ Len(owed) = 0 /\ Len(back) = 0
        BY <1>0, <1>a, <3>1 DEF TokenInv, Token, B2N, TypeOK, DeviceStates
      <3>3. /\ len \in Nat /\ held(slot') = held(slot) + len
            /\ slot'.unacked = IF acks_write_now(slot, len) THEN 0 ELSE slot.unacked + len
            /\ reader'.debt = IF acks_write_now(slot, len) THEN len ELSE NoAck
        BY <2>5, Received
      <3>4. Token' <= 1
        BY <2>1, <2>3, <3>2, <3>3 DEF Token, B2N
      <3>5. CASE acks_write_now(slot, len)
        <4>1. held(slot') < rx_watermark
          BY <3>3, <3>5 DEF acks_write_now
        <4> QED BY <1>d, <3>4, <4>1 DEF TokenInv
      <3>6. CASE ~acks_write_now(slot, len)
        <4>1. ~TokenElsewhere'
          BY <1>a, <2>1, <2>3, <3>2, <3>3, <3>6 DEF TokenElsewhere
        <4> QED BY <3>4, <4>1 DEF TokenInv
      <3> QED BY <3>5, <3>6
    <2> QED BY <1>6, <2>4, <2>5
  <1>7. CASE ReaderOwe
    <2>1. /\ reader.debt # NoAck /\ reader'.debt = NoAck /\ Len(owed') = Len(owed) + 1
          /\ UNCHANGED <<device, wire, slot, wh, back>>
      <3>1. reader.debt \in Nat \cup {OweClose} /\ owed \in Seq(Nat \cup {OweClose})
        BY <1>0, <1>7 DEF ReaderOwe, TypeOK, ReaderStates, HolderInv
      <3> QED BY <1>0, <1>7, <3>1 DEF ReaderOwe, HolderInv
    <2>2. WriteInFlight' = WriteInFlight
      BY <2>1 DEF WriteInFlight
    <2>3. Token' <= 1
      BY <1>0, <1>a, <2>1, <2>2 DEF TokenInv, Token, B2N
    <2>4. held(slot') < rx_watermark
      BY <1>0, <2>1 DEF TokenInv, TokenElsewhere
    <2> QED BY <1>d, <2>3, <2>4 DEF TokenInv
  <1>8. ASSUME NEW h, PayDebt(h) PROVE TokenInv'
    <2>1. owed # <<>> /\ owed \in Seq(Nat \cup {OweClose}) /\ back \in Seq(Outbound)
          /\ UNCHANGED <<device, wire, slot, wh, reader>>
      BY <1>0, <1>8 DEF PayDebt, TypeOK
    <2>2. WriteInFlight' = WriteInFlight
      BY <2>1 DEF WriteInFlight
    <2>3. Len(owed') + Len(back') <= Len(owed) + Len(back)
      <3>1. \/ back' = back /\ (owed' = owed \/ owed' = <<>>)
            \/ owed' = Tail(owed) /\ \E p : back' = Append(back, p)
        BY <1>8 DEF PayDebt
      <3>2. Len(Tail(owed)) = Len(owed) - 1
        BY <2>1, TailFacts
      <3>3. ASSUME NEW p, back' = Append(back, p) PROVE Len(back') = Len(back) + 1
        BY <2>1, <3>3
      <3>4. Len(<<>>) = 0
        OBVIOUS
      <3>5. CASE back' = back /\ (owed' = owed \/ owed' = <<>>)
        <4>1. Len(back') = Len(back) /\ (Len(owed') = Len(owed) \/ Len(owed') = 0)
          BY <3>4, <3>5
        <4> QED BY <1>a, <4>1
      <3>6. CASE owed' = Tail(owed) /\ \E p : back' = Append(back, p)
        <4>1. Len(back') = Len(back) + 1 /\ Len(owed') = Len(owed) - 1
          BY <3>2, <3>3, <3>6
        <4> QED BY <1>a, <4>1
      <3> QED BY <3>1, <3>5, <3>6
    <2> QED BY <1>2, <1>c, <2>1, <2>2, <2>3 DEF TokenElsewhere
  <1>9. ASSUME NEW t \in Tasks, Take(t) PROVE TokenInv'
    <2>1. task[t].want \in Nat
      <3>1. task[t] \in TaskStates
        BY <1>0 DEF TypeOK
      <3> QED BY <3>1, TaskFacts
    <2>2. slot' = slot \/ slot' = take_buffered(slot, task[t].want)
      BY <1>9 DEF Take
    <2>3. held(slot') <= held(slot) /\ slot'.unacked = slot.unacked
      <3>1. /\ held(take_buffered(slot, task[t].want)) <= held(slot)
            /\ take_buffered(slot, task[t].want).unacked = slot.unacked
        BY <1>0, <2>1, TakeFacts DEF TypeOK, HolderInv
      <3> QED BY <1>c, <2>2, <3>1
    <2>4. UNCHANGED <<device, wire, wh, reader, owed, back>>
      BY <1>9 DEF Take
    <2>5. WriteInFlight' = WriteInFlight
      BY <2>4 DEF WriteInFlight
    <2> QED BY <1>2, <1>a, <2>3, <2>4, <2>5 DEF TokenElsewhere
  <1>10. ASSUME NEW t \in Tasks, Settle(t) PROVE TokenInv'
    <2>1. task[t].want \in Nat
      <3>1. task[t] \in TaskStates
        BY <1>0 DEF TypeOK
      <3> QED BY <3>1, TaskFacts
    <2>2. UNCHANGED <<device, wire, reader, owed, back>> /\ wh = "free"
      BY <1>10 DEF Settle
    <2>3. WriteInFlight' = WriteInFlight /\ wh \notin Tasks
      BY <2>2, RxFlowAssumption DEF WriteInFlight
    <2>4. CASE UNCHANGED <<slot, wh>>
      BY <1>2, <1>a, <1>c, <2>2, <2>3, <2>4 DEF TokenElsewhere
    <2>5. CASE settle_ack(slot, task[t].want) # NoAck /\ slot' = settle_take(slot, task[t].want)
               /\ wh' = t
      <3>1. /\ slot.unacked > 0 /\ slot'.unacked = slot.unacked - slot.unacked
            /\ held(slot') < rx_watermark
        BY <1>0, <2>1, <2>5, SettleFacts DEF TypeOK, HolderInv
      <3>2. slot'.unacked = 0
        BY <1>a, <3>1
      <3>3. Token' <= 1
        BY <1>0, <1>a, <2>2, <2>3, <2>5, <3>1, <3>2 DEF TokenInv, Token, B2N
      <3> QED BY <1>d, <3>1, <3>3 DEF TokenInv
    <2> QED BY <1>10, <2>4, <2>5 DEF Settle
  <1>11. ASSUME NEW t \in Tasks, SendOkay(t) PROVE TokenInv'
    <2>1. wh = t /\ wh' \notin Tasks /\ UNCHANGED <<device, wire, slot, reader, owed>>
      BY <1>0, <1>11, RxFlowAssumption DEF SendOkay, HolderInv
    <2>2. Len(back') <= Len(back) + 1
      <3>1. back \in Seq(Outbound)
        BY <1>0 DEF TypeOK
      <3>2. \A p : Len(Append(back, p)) = Len(back) + 1
        BY <3>1
      <3> QED BY <1>11, <1>a, <3>2 DEF SendOkay
    <2>3. WriteInFlight' = WriteInFlight
      BY <2>1 DEF WriteInFlight
    <2>4. Token' <= 1
      BY <1>0, <1>a, <1>b, <2>1, <2>2, <2>3 DEF TokenInv, Token, B2N
    <2>5. held(slot') < rx_watermark
      BY <1>0, <2>1 DEF TokenInv, TokenElsewhere
    <2> QED BY <1>d, <2>4, <2>5 DEF TokenInv
  <1>12. CASE /\ UNCHANGED <<device, wire, slot, owed, back>>
              /\ reader'.debt # NoAck => reader.debt # NoAck
              /\ wh' \in Tasks => wh \in Tasks
    <2>1. WriteInFlight' = WriteInFlight
      BY <1>12 DEF WriteInFlight
    <2> QED BY <1>2, <1>12, <1>a, <1>c, <2>1 DEF TokenElsewhere
  <1>13. CASE TransportFails \/ OtherLocks \/ OtherUnlocks \/ UNCHANGED vars
    BY <1>12, <1>13, RxFlowAssumption DEF TransportFails, OtherLocks, OtherUnlocks, vars
  <1>14. CASE ReaderWake \/ ReaderPay \/ ReaderPaid \/ ReaderEnds
    <2>1. reader'.debt \in {reader.debt, NoAck}
      <3>1. ~ReceiveWrite
        BY <1>14 DEF ReceiveWrite, ReaderWake, ReaderPay, ReaderPaid, ReaderEnds
      <3> QED BY <1>0, <3>1, DebtStep DEF ConformingInv, IntactInv
    <2> QED BY <1>12, <1>14, <2>1, RxFlowAssumption DEF ReaderWake, ReaderPay, ReaderPaid, ReaderEnds
  <1>15. ASSUME NEW t \in Tasks, StartRead(t) \/ Listen(t) \/ Wakes(t) \/ SettleCalledOff(t)
                                 \/ SendOkayFails(t) \/ DropRead(t)
         PROVE  TokenInv'
    BY <1>12, <1>15, RxFlowAssumption
       DEF StartRead, Listen, Wakes, SettleCalledOff, SendOkayFails, DropRead
  <1>16. ~FailChannel
    BY DEF FailChannel, ConformingInv, IntactInv
  <1> QED BY <1>3, <1>4, <1>5, <1>6, <1>7, <1>8, <1>9, <1>10, <1>11, <1>13, <1>14, <1>15, <1>16
          DEF Next, DeviceNext, ReaderNext, OtherNext, TaskNext

-----------------------------------------------------------------------------
(* A device does not change its ways.                                      *)
LEMMA DeviceKept == TypeOK /\ [Next]_vars => device'.conforming = device.conforming
  <1> SUFFICES ASSUME TypeOK, [Next]_vars PROVE device'.conforming = device.conforming
    OBVIOUS
  <1>0. device \in DeviceStates
    BY DEF TypeOK
  <1>1. CASE DeviceWrite
    BY <1>0, <1>1 DEF DeviceWrite, DeviceStates
  <1>2. CASE DeviceReceive
    BY <1>0, <1>2 DEF DeviceReceive, DeviceStates
  <1>3. CASE DeviceClose
    BY <1>0, <1>3 DEF DeviceClose, DeviceStates
  <1>4. CASE UNCHANGED device
    BY <1>4
  <1> QED BY <1>1, <1>2, <1>3, <1>4
          DEF Next, DeviceNext, ReaderNext, OtherNext, TaskNext, vars, TransportFails, ReceiveWrite, FailChannel,
              ReceiveClose, ReaderWake, ReaderOwe, ReaderPay, ReaderPaid, ReaderEnds, OtherLocks, PayDebt,
              OtherUnlocks, StartRead, Take, Listen, Wakes, Settle, SettleCalledOff, SendOkay, SendOkayFails, DropRead

(* The whole invariant of a conforming device is inductive.                *)
LEMMA ConformingStep == ConformingInv /\ [Next]_vars => ConformingInv'
  <1> SUFFICES ASSUME ConformingInv, [Next]_vars PROVE ConformingInv'
    OBVIOUS
  <1>1. (TypeOK /\ HolderInv /\ WireInv)'
    BY AnyDeviceStep DEF ConformingInv
  <1>2. BackInv' /\ IntactInv'
    BY BackStep, IntactStep
  <1>3. slot.ack = "Delayed" => DelayedInv'
    BY DelayedStep
  <1>4. slot.ack = "Classic" => ClassicInv'
    <2>1. slot.ack = "Classic" => TokenInv' /\ ClassicWire'
      BY TokenStep, ClassicWireStep
    <2> QED BY <2>1 DEF ClassicInv, TokenInv, ClassicWire
  <1>5. slot'.ack = slot.ack
    BY ModeStep DEF ConformingInv
  <1>6. device'.conforming = device.conforming
    BY DeviceKept DEF ConformingInv
  <1> QED BY <1>1, <1>2, <1>3, <1>4, <1>5, <1>6 DEF ConformingInv

(* FlowInv is inductive, for a device that keeps to its flow control and   *)
(* for one that does not.                                                  *)
LEMMA FlowKept == TypeOK /\ FlowInv /\ [Next]_vars => (TypeOK /\ FlowInv)'
  <1> SUFFICES ASSUME TypeOK, FlowInv, [Next]_vars PROVE (TypeOK /\ FlowInv)'
    OBVIOUS
  <1>1. (TypeOK /\ HolderInv /\ WireInv)'
    BY AnyDeviceStep DEF FlowInv
  <1>2. device'.conforming = device.conforming
    BY DeviceKept
  <1>3. CASE device.conforming
    <2>1. ConformingInv
      BY <1>3 DEF ConformingInv, FlowInv
    <2>2. ConformingInv'
      BY <2>1, ConformingStep
    <2> QED BY <2>2 DEF ConformingInv, FlowInv
  <1>4. CASE ~device.conforming
    BY <1>1, <1>2, <1>4 DEF FlowInv
  <1> QED BY <1>3, <1>4

(* The inductive invariant itself: where credit, token, packets in flight  *)
(* and buffer stand to each other in every reachable state.                *)
THEOREM FlowHolds == Spec => []FlowInv
  <1>1. Init => TypeOK /\ FlowInv
    BY InitInv
  <1>2. TypeOK /\ FlowInv /\ [Next]_vars => (TypeOK /\ FlowInv)'
    BY FlowKept
  <1> QED BY <1>1, <1>2, PTL DEF Spec

(* A device that keeps to the credit it was advertised, or to one WRTE per *)
(* OKAY, never trips the receive cap, for every configuration: the limits  *)
(* ConnectionConfig derives leave room for one full packet at any time.    *)
THEOREM ConformingNeverOverflows == Spec => []NoOverflow
  <1>1. FlowInv => NoOverflow
    BY DEF FlowInv, IntactInv, NoOverflow
  <1> QED BY <1>1, FlowHolds, PTL

-----------------------------------------------------------------------------
(* Acknowledgements are exact.                                             *)

Live == slot.state = "Open" /\ ~has_ended

(* A channel that is not open any more, or a connection that ended, stays  *)
(* so.                                                                     *)
LEMMA LiveBefore ==
    ASSUME TypeOK, HolderInv, WireInv, [Next]_vars
    PROVE  (Live' => Live) /\ (~gone' => ~gone)
  <1>0. slot \in Slots /\ slot.settled <= slot.rx_buf
    BY DEF TypeOK, HolderInv
  <1>1. has_ended => has_ended'
    BY DEF has_ended, Next, DeviceNext, ReaderNext, OtherNext, TaskNext, vars, DeviceWrite, DeviceReceive,
           DeviceClose, TransportFails, ReceiveWrite, FailChannel, ReceiveClose, ReaderWake, ReaderOwe,
           ReaderPay, PayDebt, ReaderPaid, ReaderEnds, OtherLocks, OtherUnlocks, StartRead, Take, Listen,
           Wakes, Settle, SettleCalledOff, SendOkay, SendOkayFails, DropRead
  <1>2. ~gone' => ~gone
    BY DEF Next, DeviceNext, ReaderNext, OtherNext, TaskNext, vars, DeviceWrite, DeviceReceive,
           DeviceClose, TransportFails, ReceiveWrite, FailChannel, ReceiveClose, ReaderWake, ReaderOwe,
           ReaderPay, PayDebt, ReaderPaid, ReaderEnds, OtherLocks, OtherUnlocks, StartRead, Take, Listen,
           Wakes, Settle, SettleCalledOff, SendOkay, SendOkayFails, DropRead
  <1>3. CASE ReceiveWrite
    <2>1. PICK len : len = Head(wire).upto - arrived
      OBVIOUS
    <2>2. slot' = slot \/ slot' = apply_write(slot, len)
      BY <1>3, <2>1 DEF ReceiveWrite
    <2>3. apply_write(slot, len).state = slot.state
      BY <1>0 DEF apply_write, Slots
    <2> QED BY <1>1, <1>2, <2>2, <2>3 DEF Live
  <1>4. CASE FailChannel \/ ReceiveClose
    <2>1. slot'.state = "Closed"
      BY <1>0, <1>4 DEF FailChannel, ReceiveClose, fail, apply_close, Slots
    <2> QED BY <1>2, <2>1 DEF Live
  <1>5. ASSUME NEW t \in Tasks, Take(t) \/ Settle(t) PROVE slot'.state = slot.state
    <2>1. task[t].want \in Nat
      BY TaskFacts DEF TypeOK
    <2>2. \/ slot' = slot \/ slot' = take_buffered(slot, task[t].want)
          \/ (settle_ack(slot, task[t].want) # NoAck /\ slot' = settle_take(slot, task[t].want))
      BY <1>5 DEF Take, Settle
    <2>3. CASE slot' = take_buffered(slot, task[t].want)
      BY <1>0, <2>1, <2>3, TakeFacts
    <2>4. CASE settle_ack(slot, task[t].want) # NoAck /\ slot' = settle_take(slot, task[t].want)
      BY <1>0, <2>1, <2>4, SettleFacts
    <2> QED BY <2>2, <2>3, <2>4
  <1>6. \/ UNCHANGED slot \/ ReceiveWrite \/ FailChannel \/ ReceiveClose
        \/ \E t \in Tasks : Take(t) \/ Settle(t)
    BY DEF Next, DeviceNext, ReaderNext, OtherNext, TaskNext, vars, DeviceWrite,
           DeviceReceive, DeviceClose, TransportFails, ReaderWake, ReaderOwe, ReaderPay,
           PayDebt, ReaderPaid, ReaderEnds, OtherLocks, OtherUnlocks, StartRead, Listen,
           Wakes, SettleCalledOff, SendOkay, SendOkayFails, DropRead
  <1>7. CASE slot'.state = slot.state
    BY <1>1, <1>2, <1>7 DEF Live
  <1> QED BY <1>3, <1>4, <1>5, <1>6, <1>7

(* With delayed ACK settle_take acknowledges just what it sets aside, if   *)
(* the slot owes an OKAY for all that it holds.                            *)
LEMMA DelayedSettle ==
    ASSUME NEW s \in Slots, NEW want \in Nat, s.ack = "Delayed", s.unacked = held(s),
           s.settled <= s.rx_buf, settle_ack(s, want) # NoAck
    PROVE  settle_take(s, want).unacked = held(settle_take(s, want))
  <1> DEFINE n == AtMost(want, s.rx_buf)
  <1>1. n \in Nat /\ n <= s.rx_buf /\ s.rx_buf \in Nat /\ s.unacked \in Nat
    BY DEF AtMost, Slots
  <1>2. s.settled = 0 /\ settle_ack(s, want) = ack_len(s, n, s.rx_buf - n)
    BY DEF settle_ack
  <1>3. s.unacked = s.rx_buf
    BY <1>1, <1>2 DEF held
  <1>4. ack_len(s, n, s.rx_buf - n) = n
    BY <1>1, <1>2, <1>3 DEF ack_len, AtMost, NoAck
  <1>5. settle_take(s, want) = [s EXCEPT !.unacked = s.unacked - n, !.settled = n]
    BY <1>2, <1>4 DEF settle_take
  <1> HIDE DEF n
  <1>6. /\ settle_take(s, want).unacked = s.unacked - n /\ settle_take(s, want).settled = n
        /\ settle_take(s, want).rx_buf = s.rx_buf
    BY <1>5 DEF Slots
  <1> QED BY <1>3, <1>6 DEF held

(* And a take that needs no OKAY hands over what was set aside, or nothing.*)
LEMMA DelayedTake ==
    ASSUME NEW s \in Slots, NEW want \in Nat, s.ack = "Delayed", s.unacked = held(s),
           s.settled <= s.rx_buf, has_data(s), ~take_acks(s, want)
    PROVE  take_buffered(s, want).unacked = held(take_buffered(s, want))
  <1> DEFINE n == take_len(s, want)
  <1>1. s.rx_buf \in Nat /\ s.unacked \in Nat /\ s.settled \in Nat /\ s.rx_buf > 0
    BY DEF Slots, has_data
  <1>2. n \in Nat /\ AtMost(n, s.settled) = n
    <2>1. CASE s.settled = 0
      <3> DEFINE m == AtMost(want, s.rx_buf)
      <3>1. n = m /\ m \in Nat /\ m <= s.rx_buf
        BY <1>1, <2>1 DEF take_len, AtMost
      <3>2. ack_len(s, m, s.rx_buf - m) = NoAck
        BY <2>1 DEF take_acks
      <3>3. s.unacked = s.rx_buf
        BY <1>1, <2>1 DEF held
      <3>4. m = 0
        BY <1>1, <3>1, <3>2, <3>3 DEF ack_len, AtMost, NoAck
      <3> QED BY <2>1, <3>1, <3>4 DEF AtMost
    <2>2. CASE s.settled # 0
      BY <1>1, <2>2 DEF take_len, AtMost
    <2> QED BY <2>1, <2>2
  <1>3. take_buffered(s, want) = [s EXCEPT !.rx_buf = s.rx_buf - n, !.settled = s.settled - n]
    BY <1>2 DEF take_buffered
  <1> HIDE DEF n
  <1>4. /\ take_buffered(s, want).unacked = s.unacked
        /\ take_buffered(s, want).rx_buf = s.rx_buf - n
        /\ take_buffered(s, want).settled = s.settled - n
    BY <1>3 DEF Slots
  <1> QED BY <1>1, <1>2, <1>4 DEF held

(* Credit comes back as the application reads, whatever the device does.   *)
LEMMA CreditStep ==
    TypeOK /\ HolderInv /\ WireInv /\ CreditFollowsReads /\ [Next]_vars => CreditFollowsReads'
  <1> SUFFICES ASSUME TypeOK, HolderInv, WireInv, CreditFollowsReads, [Next]_vars,
                      (slot.ack = "Delayed" /\ Live)'
               PROVE  slot'.unacked = held(slot')
    BY DEF CreditFollowsReads, Live, held, has_ended
  <1>1. slot.ack = "Delayed" /\ Live
    BY LiveBefore, ModeStep
  <1>2. slot.unacked = held(slot) /\ slot \in Slots /\ slot.settled <= slot.rx_buf
    BY <1>1 DEF CreditFollowsReads, Live, TypeOK, HolderInv
  <1>3. CASE ReceiveWrite
    <2>1. PICK len : len = Head(wire).upto - arrived
      OBVIOUS
    <2>2. slot' = slot \/ (~rx_overflows(slot, len) /\ slot' = apply_write(slot, len))
      BY <1>3, <2>1 DEF ReceiveWrite
    <2>3. len \in Nat
      <3>1. wire \in Seq(Inbound) /\ wire # <<>> /\ arrived \in Nat
        BY <1>3 DEF ReceiveWrite, TypeOK
      <3>2. Head(wire) = wire[1] /\ 1 \in DOMAIN wire /\ wire[1] \in Inbound
        BY <3>1, TailFacts
      <3>3. wire[1].upto \in Nat /\ arrived <= wire[1].upto
        BY <3>2 DEF Inbound, WireInv
      <3> QED BY <2>1, <3>1, <3>2, <3>3
    <2>4. ~acks_write_now(slot, len)
      BY <1>1 DEF acks_write_now
    <2>5. CASE ~rx_overflows(slot, len) /\ slot' = apply_write(slot, len)
      <3>1. slot'.unacked = slot.unacked + len /\ held(slot') = held(slot) + len
        BY <1>2, <2>3, <2>4, <2>5, WriteFacts
      <3> QED BY <1>2, <3>1
    <2> QED BY <1>2, <2>2, <2>5
  <1>4. ~FailChannel /\ ~ReceiveClose
    BY <1>2 DEF FailChannel, ReceiveClose, fail, apply_close, Slots, Live
  <1>5. ASSUME NEW t \in Tasks, Take(t) PROVE slot'.unacked = held(slot')
    <2>1. task[t].want \in Nat
      BY TaskFacts DEF TypeOK
    <2>2. \/ slot' = slot
          \/ ~take_acks(slot, task[t].want) /\ has_data(slot) /\ slot' = take_buffered(slot, task[t].want)
      BY <1>1, <1>5 DEF Take, Live
    <2> QED BY <1>1, <1>2, <2>1, <2>2, DelayedTake
  <1>6. ASSUME NEW t \in Tasks, Settle(t) PROVE slot'.unacked = held(slot')
    <2>1. task[t].want \in Nat
      BY TaskFacts DEF TypeOK
    <2>2. \/ slot' = slot
          \/ settle_ack(slot, task[t].want) # NoAck /\ slot' = settle_take(slot, task[t].want)
      BY <1>6 DEF Settle
    <2> QED BY <1>1, <1>2, <2>1, <2>2, DelayedSettle
  <1>7. \/ UNCHANGED slot \/ ReceiveWrite \/ FailChannel \/ ReceiveClose
        \/ \E t \in Tasks : Take(t) \/ Settle(t)
    BY DEF Next, DeviceNext, ReaderNext, OtherNext, TaskNext, vars, DeviceWrite,
           DeviceReceive, DeviceClose, TransportFails, ReaderWake, ReaderOwe, ReaderPay,
           PayDebt, ReaderPaid, ReaderEnds, OtherLocks, OtherUnlocks, StartRead, Listen,
           Wakes, SettleCalledOff, SendOkay, SendOkayFails, DropRead
  <1> QED BY <1>2, <1>3, <1>4, <1>5, <1>6, <1>7

-----------------------------------------------------------------------------
(* The acknowledgement in each pair of hands but a task's, InHand.         *)
InDebt == IF reader.debt = NoAck THEN 0 ELSE reader.debt
InOwed == IF owed = <<>> THEN 0 ELSE Head(owed)

TokenSomewhere == TokenElsewhere \/ slot.unacked > 0

(* What a live channel of a conforming device owes and where its token is. *)
Balanced ==
    Live /\ ~gone => /\ acked + (InHand + InDebt + InOwed) + slot.unacked = got
                     /\ slot.ack = "Classic" => TokenSomewhere

(* At most one OKAY is on its way out, whoever has it.                     *)
LEMMA OneDebt ==
    ASSUME ConformingInv
    PROVE  /\ reader.debt # NoAck => owed = <<>>
           /\ Len(owed) <= 1
           /\ WriteInFlight => reader.debt = NoAck
           /\ WriteInFlight /\ slot.ack = "Classic" => slot.unacked = 0
           /\ reader.debt # NoAck \/ owed # <<>> => slot.ack = "Classic"
  <1>1. slot.ack \in {"Classic", "Delayed"} /\ TypeOK
    BY DEF ConformingInv, TypeOK, Slots
  <1>2. CASE slot.ack = "Delayed"
    BY <1>2 DEF ConformingInv, DelayedInv
  <1>3. CASE slot.ack = "Classic"
    <2>1. Token <= 1
      BY <1>3 DEF ConformingInv, ClassicInv
    <2> QED BY <1>1, <1>3, <2>1, TokenFacts DEF Token, B2N
  <1> QED BY <1>1, <1>2, <1>3

(* The types of what is added up.                                          *)
LEMMA HandFacts ==
    ASSUME ConformingInv
    PROVE  /\ InHand \in Nat /\ InDebt \in Nat /\ InOwed \in Nat
           /\ acked \in Nat /\ got \in Nat /\ slot.unacked \in Nat
  <1>1. InHand \in Nat
    BY DEF ConformingInv, TypeOK, TaskStates, HolderInv, InHand
  <1>2. InDebt \in Nat
    BY DEF ConformingInv, TypeOK, ReaderStates, IntactInv, InDebt
  <1>3. InOwed \in Nat
    BY DEF ConformingInv, IntactInv, InOwed
  <1>4. acked \in Nat /\ got \in Nat /\ slot.unacked \in Nat
    BY DEF ConformingInv, TypeOK, Slots
  <1> QED BY <1>1, <1>2, <1>3, <1>4

(* A step that moves no acknowledgement and no token.                      *)
Quiet ==
    /\ UNCHANGED <<owed, back, acked, got>>
    /\ slot'.unacked = slot.unacked /\ reader'.debt = reader.debt
    /\ device'.ready = device.ready
    /\ WriteInFlight => WriteInFlight'
    /\ wh \in Tasks => wh' \in Tasks
    /\ InHand' = InHand

(* Such a step leaves every byte and the token accounted for.              *)
LEMMA QuietBalance ==
    ASSUME Balanced, Quiet, Live' => Live, ~gone' => ~gone, slot'.ack = slot.ack
    PROVE  Balanced'
  <1>1. InDebt' = InDebt /\ InOwed' = InOwed
    BY DEF Quiet, InDebt, InOwed
  <1>2. TokenSomewhere => TokenSomewhere'
    BY DEF Quiet, TokenSomewhere, TokenElsewhere
  <1> SUFFICES ASSUME Live', ~gone'
               PROVE  /\ acked' + (InHand' + InDebt' + InOwed') + slot'.unacked = got'
                      /\ slot'.ack = "Classic" => TokenSomewhere'
    BY DEF Balanced
  <1> QED BY <1>1, <1>2 DEF Balanced, Quiet

(* The steps of the device and those in which only the reads or the        *)
(* holder of the write half move.                                          *)
LEMMA QuietSteps ==
    ASSUME ConformingInv, [Next]_vars, Live', ~gone'
    PROVE  \/ Quiet
           \/ DeviceWrite \/ DeviceReceive \/ ReceiveWrite \/ ReaderOwe \/ (\E h : PayDebt(h))
           \/ \E t \in Tasks : Settle(t) \/ SendOkay(t)
  <1>0. /\ TypeOK /\ HolderInv /\ slot \in Slots /\ slot.settled <= slot.rx_buf
        /\ task \in [Tasks -> TaskStates] /\ reader \in ReaderStates /\ wire \in Seq(Inbound)
        /\ device \in DeviceStates
    BY DEF ConformingInv, TypeOK, HolderInv
  <1>1. ASSUME UNCHANGED <<owed, back, acked, got, device, wire>>, slot'.unacked = slot.unacked,
               reader'.debt = reader.debt, wh \in Tasks \/ wh' \in Tasks => wh' = wh,
               wh \in Tasks => task'[wh].ack = task[wh].ack
        PROVE  Quiet
    <2>1. WriteInFlight' = WriteInFlight
      BY <1>1 DEF WriteInFlight
    <2>2. InHand' = InHand
      BY <1>1 DEF InHand
    <2> QED BY <1>1, <2>1, <2>2 DEF Quiet
  <1>2. CASE DeviceClose
    <2> DEFINE p == [cmd |-> "CLSE", upto |-> device.sent]
    <2>1. p \in Inbound /\ wire' = Append(wire, p)
      BY <1>0, <1>2 DEF Inbound, DeviceStates, DeviceClose
    <2> HIDE DEF p
    <2>2. /\ DOMAIN wire = 1 .. Len(wire) /\ DOMAIN wire' = 1 .. Len(wire) + 1
          /\ Len(wire) \in Nat /\ \A i \in DOMAIN wire : wire'[i] = wire[i]
      BY <1>0, <2>1, AppendFacts
    <2>3. WriteInFlight => WriteInFlight'
      BY <2>2 DEF WriteInFlight
    <2>4. device'.ready = device.ready /\ UNCHANGED <<slot, owed, back, acked, got, reader, wh, task>>
      BY <1>0, <1>2 DEF DeviceClose, DeviceStates
    <2> QED BY <2>3, <2>4 DEF Quiet, InHand
  <1>3. CASE UNCHANGED vars \/ OtherLocks \/ ReaderPay
    <2>1. \A x : [reader EXCEPT !.pc = x].debt = reader.debt
      BY <1>0 DEF ReaderStates
    <2> QED BY <1>1, <1>3, <2>1, RxFlowAssumption DEF vars, OtherLocks, ReaderPay
  <1>4. CASE ReaderWake \/ ReaderPaid \/ OtherUnlocks
    <2>1. \A x : [reader EXCEPT !.pc = x].debt = reader.debt
      BY <1>0 DEF ReaderStates
    <2>2. task' \in {task, wake(task)}
      BY <1>4 DEF ReaderWake, ReaderPaid, OtherUnlocks
    <2>3. \A u \in Tasks : task'[u].ack = task[u].ack
      BY <1>0, <2>2, WakeFacts
    <2> QED BY <1>1, <1>4, <2>1, <2>3, RxFlowAssumption DEF ReaderWake, ReaderPaid, OtherUnlocks
  <1>5. ~TransportFails /\ ~FailChannel /\ ~ReceiveClose /\ ~ReaderEnds
    BY <1>0 DEF TransportFails, FailChannel, ReceiveClose, ReaderEnds, Live, has_ended, fail,
                apply_close, Slots
  <1>6. ASSUME NEW t \in Tasks, Take(t) PROVE Quiet
    <2>1. task[t].want \in Nat
      BY <1>0, TaskFacts
    <2>2. slot' = slot \/ slot' = take_buffered(slot, task[t].want)
      BY <1>6 DEF Take
    <2>3. slot'.unacked = slot.unacked
      <3>1. take_buffered(slot, task[t].want).unacked = slot.unacked
        BY <1>0, <2>1, TakeFacts
      <3> QED BY <2>2, <3>1
    <2>4. wh # t /\ \A u \in Tasks : u # t => task'[u] = task[u]
      BY <1>0, <1>6 DEF Take, HolderInv
    <2> QED BY <1>1, <1>6, <2>3, <2>4 DEF Take
  <1>7. ASSUME NEW t \in Tasks, StartRead(t) \/ Listen(t) \/ Wakes(t) \/ SettleCalledOff(t) \/ DropRead(t)
        PROVE  Quiet
    <2>1. task[t].pc # "send"
      BY <1>7 DEF StartRead, Listen, Wakes, SettleCalledOff, DropRead, Live, has_ended
    <2>2. wh # t
      BY <1>0, <2>1 DEF HolderInv
    <2>3. wh' = wh /\ UNCHANGED <<slot, owed, back, acked, got, device, wire, reader>>
      BY <1>7, <2>2 DEF StartRead, Listen, Wakes, SettleCalledOff, DropRead
    <2>4. \A u \in Tasks : u # t => task'[u] = task[u]
      BY <1>0, <1>7, <2>1 DEF StartRead, Listen, Wakes, SettleCalledOff, DropRead
    <2> QED BY <1>1, <2>2, <2>3, <2>4
  <1>8. \A t \in Tasks : ~SendOkayFails(t)
    BY DEF SendOkayFails, Live, has_ended
  <1> QED BY <1>2, <1>3, <1>4, <1>5, <1>6, <1>7, <1>8
          DEF Next, DeviceNext, ReaderNext, OtherNext, TaskNext

(* A sequence with one more behind is not empty.                          *)
LEMMA AppendIsSome == ASSUME NEW S, NEW s \in Seq(S), NEW e PROVE Append(s, e) # <<>>
  <1>1. Len(Append(s, e)) = Len(s) + 1 /\ Len(s) \in Nat
    OBVIOUS
  <1>2. Len(<<>>) = 0
    OBVIOUS
  <1> QED BY <1>1, <1>2

(* Every other step hands the acknowledgement, and the token with it, to   *)
(* the next place.                                                         *)
LEMMA BalanceStep == ConformingInv /\ Balanced /\ [Next]_vars => Balanced'
  <1> SUFFICES ASSUME ConformingInv, Balanced, [Next]_vars, Live', ~gone'
               PROVE  Balanced'
    BY DEF Balanced
  <1>0. /\ TypeOK /\ HolderInv /\ WireInv /\ IntactInv /\ slot \in Slots
        /\ slot.settled <= slot.rx_buf /\ task \in [Tasks -> TaskStates]
        /\ reader \in ReaderStates /\ device \in DeviceStates
    BY DEF ConformingInv, TypeOK, HolderInv
  <1>1. Live /\ ~gone /\ slot'.ack = slot.ack /\ ConformingInv'
    BY LiveBefore, ModeStep, ConformingStep DEF ConformingInv
  <1>2. /\ acked + (InHand + InDebt + InOwed) + slot.unacked = got
        /\ slot.ack = "Classic" => TokenSomewhere
    BY <1>1 DEF Balanced
  <1>3. /\ InHand \in Nat /\ InDebt \in Nat /\ InOwed \in Nat
        /\ acked \in Nat /\ got \in Nat /\ slot.unacked \in Nat
    BY HandFacts
  <1>4. ASSUME acked' + (InHand' + InDebt' + InOwed') + slot'.unacked = got',
               slot.ack = "Classic" => TokenSomewhere'
        PROVE  Balanced'
    BY <1>1, <1>4 DEF Balanced
  <1>5. ASSUME UNCHANGED <<slot, reader, owed, acked, got, wh, task>>, TokenSomewhere'
        PROVE  Balanced'
    <2>1. InHand' = InHand /\ InDebt' = InDebt /\ InOwed' = InOwed
      BY <1>5 DEF InHand, InDebt, InOwed
    <2> QED BY <1>2, <1>4, <1>5, <2>1
  <1>6. CASE DeviceWrite
    <2> PICK len \in Lens : wire' = Append(wire, [cmd |-> "WRTE", upto |-> device.sent + len])
      BY <1>6 DEF DeviceWrite
    <2> DEFINE p == [cmd |-> "WRTE", upto |-> device.sent + len]
    <2>1. p \in Inbound /\ p.cmd = "WRTE" /\ wire' = Append(wire, p) /\ wire \in Seq(Inbound)
      <3>1. len \in Nat /\ device.sent \in Nat
        BY <1>0, RxFlowAssumption, ConfigAssumption DEF DeviceStates
      <3> QED BY <1>0, <3>1 DEF Inbound, TypeOK
    <2> HIDE DEF p
    <2>2. Len(wire) + 1 \in DOMAIN wire' /\ wire'[Len(wire) + 1] = p
      BY <2>1, AppendFacts
    <2>3. WriteInFlight'
      BY <2>1, <2>2 DEF WriteInFlight
    <2>4. TokenSomewhere'
      BY <2>3 DEF TokenSomewhere, TokenElsewhere
    <2> QED BY <1>5, <1>6, <2>4 DEF DeviceWrite
  <1>7. CASE DeviceReceive
    <2>1. back # <<>> /\ back \in Seq(Outbound)
      BY <1>0, <1>7 DEF DeviceReceive, TypeOK
    <2>2. Head(back).cmd = "OKAY"
      BY <1>0, <2>1, TailFacts DEF IntactInv
    <2>3. device'.ready
      BY <1>0, <1>7, <2>2 DEF DeviceReceive, DeviceStates
    <2>4. TokenSomewhere'
      BY <2>3 DEF TokenSomewhere, TokenElsewhere
    <2> QED BY <1>5, <1>7, <2>4 DEF DeviceReceive
  <1>8. CASE ReceiveWrite
    <2>1. PICK len : len = Head(wire).upto - arrived
      OBVIOUS
    <2>2. /\ len \in Nat /\ got' = got + len
          /\ reader'.debt = IF acks_write_now(slot, len) THEN len ELSE NoAck
          /\ slot'.unacked = IF acks_write_now(slot, len) THEN 0 ELSE slot.unacked + len
      BY <1>8, <2>1, Received
    <2>3. WriteInFlight
      BY <1>8, NoDrop DEF WriteInFlight
    <2>4. reader.debt = NoAck /\ owed = <<>> /\ (slot.ack = "Classic" => slot.unacked = 0)
      BY <1>8, <2>3, OneDebt DEF ReceiveWrite
    <2>5. InHand' = InHand /\ InOwed' = InOwed /\ acked' = acked
      BY <1>8 DEF ReceiveWrite, InHand, InOwed
    <2>6. InDebt = 0
      BY <2>4 DEF InDebt
    <2>7. CASE acks_write_now(slot, len)
      <3>1. InDebt' = len /\ slot'.unacked = 0 /\ reader'.debt # NoAck
        BY <2>2, <2>7 DEF InDebt, NoAck
      <3>2. slot.unacked = 0
        BY <2>4, <2>7 DEF acks_write_now
      <3>3. acked' + (InHand' + InDebt' + InOwed') + slot'.unacked = got'
        BY <1>2, <1>3, <2>2, <2>5, <2>6, <3>1, <3>2
      <3>4. TokenSomewhere'
        BY <3>1 DEF TokenSomewhere, TokenElsewhere
      <3> QED BY <1>4, <3>3, <3>4
    <2>8. CASE ~acks_write_now(slot, len)
      <3>1. InDebt' = 0 /\ slot'.unacked = slot.unacked + len
        BY <2>2, <2>8 DEF InDebt
      <3>2. acked' + (InHand' + InDebt' + InOwed') + slot'.unacked = got'
        BY <1>2, <1>3, <2>2, <2>5, <2>6, <3>1
      <3>3. ASSUME slot.ack = "Classic" PROVE TokenSomewhere'
        <4>1. held(slot) < rx_watermark /\ has_ids(slot)
          BY <1>0, <2>3, <3>3 DEF ConformingInv, ClassicInv, TokenElsewhere, HolderInv
        <4>2. len > 0
          <5>1. held(slot) \in Int
            BY <1>0 DEF held, Slots
          <5>2. ~(held(slot) + len < rx_watermark)
            BY <2>8, <3>3, <4>1 DEF acks_write_now
          <5> QED BY <2>2, <4>1, <5>1, <5>2
        <4>3. slot'.unacked > 0
          BY <1>3, <2>2, <3>1, <4>2
        <4> QED BY <4>3 DEF TokenSomewhere
      <3> QED BY <1>4, <3>2, <3>3
    <2> QED BY <2>7, <2>8
  <1>9. CASE ReaderOwe
    <2>1. reader.debt # NoAck /\ reader.debt \in Nat
      BY <1>0, <1>9 DEF ReaderOwe, HolderInv, IntactInv, ReaderStates
    <2>2. owed = <<>>
      BY <2>1, OneDebt
    <2>3. owed' = <<reader.debt>> /\ reader'.debt = NoAck
      BY <1>9, <2>2 DEF ReaderOwe
    <2>4. owed' # <<>> /\ Head(owed') = reader.debt
      BY <2>3
    <2>5. InDebt' = 0 /\ InOwed' = InDebt /\ InOwed = 0
      BY <2>1, <2>2, <2>3, <2>4 DEF InDebt, InOwed
    <2>6. InHand' = InHand /\ UNCHANGED <<acked, got, slot>>
      BY <1>9 DEF ReaderOwe, InHand
    <2>7. TokenSomewhere'
      BY <2>4 DEF TokenSomewhere, TokenElsewhere
    <2>8. acked' + (InHand' + InDebt' + InOwed') + slot'.unacked = got'
      BY <1>2, <1>3, <2>5, <2>6
    <2> QED BY <1>4, <2>7, <2>8
  <1>10. ASSUME NEW h, PayDebt(h) PROVE Balanced'
    <2>1. owed # <<>> /\ owed \in Seq(Nat) /\ back \in Seq(Outbound) /\ ~desync'
      BY <1>0, <1>10 DEF PayDebt, IntactInv, TypeOK, Live, has_ended
    <2>2. Head(owed) \in Nat
      BY <2>1
    <2>3. Head(owed) # OweClose
      BY <2>2 DEF OweClose
    <2>4. /\ acked' = acked + Head(owed) /\ owed' = Tail(owed)
          /\ UNCHANGED <<slot, reader, task, wh, got>>
          /\ back' = Append(back, Okay(acked'))
      BY <1>1, <1>10, <2>1, <2>3 DEF PayDebt
    <2>5. owed' = <<>>
      <3>1. Len(Tail(owed)) = Len(owed) - 1 /\ Tail(owed) \in Seq(Nat) /\ Len(owed) \in Nat \ {0}
        BY <2>1, TailFacts
      <3>2. Len(owed) <= 1
        BY OneDebt
      <3>3. Len(Tail(owed)) = 0
        BY <3>1, <3>2
      <3> QED BY <2>4, <3>1, <3>3
    <2>6. InOwed = Head(owed) /\ InOwed' = 0 /\ InHand' = InHand /\ InDebt' = InDebt
      BY <2>1, <2>4, <2>5 DEF InOwed, InHand, InDebt
    <2>7. TokenSomewhere'
      <3>1. back' # <<>>
        BY <2>1, <2>4, AppendIsSome
      <3> QED BY <3>1 DEF TokenSomewhere, TokenElsewhere
    <2>8. acked' + (InHand' + InDebt' + InOwed') + slot'.unacked = got'
      BY <1>2, <1>3, <2>4, <2>6
    <2> QED BY <1>4, <2>7, <2>8
  <1>11. ASSUME NEW t \in Tasks, Settle(t) PROVE Balanced'
    <2>1. task[t].want \in Nat /\ task[t] \in TaskStates
      BY <1>0, TaskFacts
    <2>2. UNCHANGED <<device, wire, reader, owed, back, acked, got>> /\ wh = "free" /\ wh \notin Tasks
      BY <1>11, RxFlowAssumption DEF Settle
    <2>3. InDebt' = InDebt /\ InOwed' = InOwed /\ InHand = 0
      BY <2>2 DEF InDebt, InOwed, InHand
    <2>4. CASE UNCHANGED <<slot, wh>>
      <3>1. InHand' = 0
        BY <2>2, <2>4 DEF InHand
      <3>2. WriteInFlight' = WriteInFlight
        BY <2>2 DEF WriteInFlight
      <3>3. Quiet
        BY <2>2, <2>3, <2>4, <3>1, <3>2 DEF Quiet
      <3> QED BY <1>1, <3>3, QuietBalance
    <2>5. CASE /\ settle_ack(slot, task[t].want) # NoAck /\ wh' = t
               /\ slot' = settle_take(slot, task[t].want)
               /\ task' = [task EXCEPT ![t] = [@ EXCEPT !.pc = "send", !.ack = settle_ack(slot, task[t].want)]]
      <3>1. /\ settle_ack(slot, task[t].want) \in Nat
            /\ slot'.unacked = slot.unacked - settle_ack(slot, task[t].want)
        BY <1>0, <2>1, <2>5, SettleFacts
      <3>2. InHand' = settle_ack(slot, task[t].want)
        BY <1>0, <2>1, <2>5 DEF InHand, TaskStates
      <3>3. TokenSomewhere'
        BY <2>5 DEF TokenSomewhere, TokenElsewhere
      <3>4. acked' + (InHand' + InDebt' + InOwed') + slot'.unacked = got'
        BY <1>2, <1>3, <2>2, <2>3, <3>1, <3>2
      <3> QED BY <1>4, <3>3, <3>4
    <2> QED BY <1>11, <2>4, <2>5 DEF Settle
  <1>12. ASSUME NEW t \in Tasks, SendOkay(t) PROVE Balanced'
    <2>1. wh = t /\ InHand = task[t].ack
      BY <1>0, <1>12 DEF SendOkay, HolderInv, InHand
    <2>2. /\ acked' = acked + task[t].ack /\ back' = Append(back, Okay(acked')) /\ wh' = "free"
          /\ UNCHANGED <<slot, reader, owed, got>>
      BY <1>1, <1>12 DEF SendOkay
    <2>3. InHand' = 0 /\ InDebt' = InDebt /\ InOwed' = InOwed
      BY <2>2, RxFlowAssumption DEF InHand, InDebt, InOwed
    <2>4. TokenSomewhere'
      <3>1. back \in Seq(Outbound)
        BY <1>0 DEF TypeOK
      <3>2. back' # <<>>
        BY <2>2, <3>1, AppendIsSome
      <3> QED BY <3>2 DEF TokenSomewhere, TokenElsewhere
    <2>5. acked' + (InHand' + InDebt' + InOwed') + slot'.unacked = got'
      <3>1. acked' = acked + InHand /\ got' = got /\ slot' = slot
        BY <2>1, <2>2
      <3> QED BY <1>2, <1>3, <2>3, <3>1
    <2> QED BY <1>4, <2>4, <2>5
  <1>13. CASE Quiet
    BY <1>1, <1>13, QuietBalance
  <1> QED BY <1>6, <1>7, <1>8, <1>9, <1>10, <1>11, <1>12, <1>13, QuietSteps

(* AcksExact with what makes it inductive: FlowInv, and for a conforming   *)
(* device that every byte and the token are accounted for.                 *)
ExactInv == FlowInv /\ CreditFollowsReads /\ (device.conforming => Balanced)

(* It says that acknowledgements are exact.                                *)
LEMMA ExactMeans == TypeOK /\ ExactInv => AcksExact
  <1> SUFFICES ASSUME TypeOK, ExactInv PROVE AcksExact
    OBVIOUS
  <1>1. ASSUME device.conforming PROVE AckConservation
    BY <1>1 DEF ExactInv, Balanced, Live, AckConservation, OkayInHand, InHand, InDebt, InOwed
  <1>2. ASSUME device.conforming PROVE OneToken
    <2> SUFFICES ASSUME slot.ack = "Classic", Live, ~gone PROVE Token = 1
      BY DEF OneToken, Live
    <2>1. Token <= 1 /\ TokenSomewhere
      BY <1>2 DEF ExactInv, FlowInv, ClassicInv, Balanced
    <2>2. Token >= 1
      BY <2>1, TokenFacts DEF Token, B2N, TokenSomewhere, TokenElsewhere
    <2> QED BY <2>1, <2>2, TokenFacts
  <1> QED BY <1>1, <1>2 DEF ExactInv, AcksExact

(* No byte is acknowledged twice or forgotten, credit comes back for just  *)
(* the bytes read and the token is never lost or doubled, for every        *)
(* configuration, any number of readers and any stream (apply_write,       *)
(* settle_take, take_buffered, owe, pay).                                  *)
THEOREM AcksHold == Spec => []AcksExact
  <1>1. Init => TypeOK /\ ExactInv
    <2> SUFFICES ASSUME Init PROVE TypeOK /\ ExactInv
      OBVIOUS
    <2>1. TypeOK /\ FlowInv
      BY InitInv
    <2>2. slot.rx_buf = 0 /\ slot.settled = 0 /\ slot.unacked = 0
      <3>1. \E mode \in AckModes : slot = accepted(1, 1, 0, mode)
        BY DEF Init
      <3> QED BY <3>1, AcceptedFacts, ConfigAssumption
    <2>3. CreditFollowsReads
      BY <2>2 DEF CreditFollowsReads, held
    <2>4. InHand = 0 /\ InDebt = 0 /\ InOwed = 0 /\ acked = 0 /\ got = 0 /\ TokenSomewhere
      BY RxFlowAssumption DEF Init, InHand, InDebt, InOwed, TokenSomewhere, TokenElsewhere
    <2>5. Balanced
      BY <2>2, <2>4 DEF Balanced
    <2> QED BY <2>1, <2>3, <2>5 DEF ExactInv
  <1>2. TypeOK /\ ExactInv /\ [Next]_vars => ExactInv'
    <2> SUFFICES ASSUME TypeOK, ExactInv, [Next]_vars, FlowInv' PROVE ExactInv'
      BY FlowKept DEF ExactInv
    <2>1. CreditFollowsReads'
      BY CreditStep DEF ExactInv, FlowInv
    <2>2. ASSUME device'.conforming PROVE Balanced'
      <3>1. ConformingInv /\ Balanced
        BY <2>2, DeviceKept DEF ExactInv, FlowInv, ConformingInv
      <3> QED BY <3>1, BalanceStep
    <2> QED BY <2>1, <2>2 DEF ExactInv
  <1>3. TypeOK /\ FlowInv /\ [Next]_vars => TypeOK'
    BY FlowKept
  <1>4. TypeOK /\ ExactInv => AcksExact
    BY ExactMeans
  <1>5. ExactInv => FlowInv
    BY DEF ExactInv
  <1> QED BY <1>1, <1>2, <1>3, <1>4, <1>5, PTL DEF Spec
=============================================================================
