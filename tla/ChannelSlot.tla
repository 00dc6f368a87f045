----------------------------- MODULE ChannelSlot -----------------------------
(***************************************************************************)
(* A channel of the connection as one value, and every operation of        *)
(* `ChannelSlot` (base/slot.rs) as an operator on that value.  Payload     *)
(* bytes are counted, not stored: a buffer is its length, and the modules  *)
(* that use the slot keep the stream positions that identify the bytes.    *)
(* The bounds a slot lives under come from `ConnectionConfig`.             *)
(***************************************************************************)
EXTENDS Integers

CONSTANTS
    AckModes,         \* what CNXN may negotiate: "Classic", "Delayed" or either
    MaxPayload,       \* config.max_payload: largest WRTE the device may send
    MaxRxPerChannel,  \* config.max_rx_per_channel
    InitialAckBytes   \* config.initial_ack_bytes

ASSUME ConfigAssumption ==
    /\ AckModes \subseteq {"Classic", "Delayed"}
    /\ MaxPayload \in Nat \ {0}
    /\ MaxRxPerChannel \in Nat
    /\ InitialAckBytes \in Nat

AtLeast(a, b) == IF a < b THEN b ELSE a
AtMost(a, b) == IF a > b THEN b ELSE a

-----------------------------------------------------------------------------
(* The limits of ConnectionConfig.                                         *)

rx_cap == AtLeast(MaxRxPerChannel, MaxPayload)

(* Faulty form: room for one byte less than a full packet.                 *)
rx_ceiling_off_by_one == rx_cap - MaxPayload + 2

rx_ceiling == rx_cap - MaxPayload + 1

rx_watermark == AtMost(AtLeast(InitialAckBytes, MaxPayload), rx_ceiling)

advertised_ack_bytes == AtMost(InitialAckBytes, rx_ceiling)

-----------------------------------------------------------------------------
(* The slot.  `local` and `remote` are the two ids of the channel, 0 for   *)
(* the remote id READY has not named yet; `ack` is the policy's ack mode.  *)

NoRemote == 0
NoAck == -1      \* Option::None of a PendingAck

Slots == [local : Nat, remote : Nat, state : {"Opening", "Open", "Closed"},
          rx_buf : Nat, wrte_acked : BOOLEAN, send_budget : Int,
          unacked : Nat, settled : Nat, failed : BOOLEAN,
          ack : {"Classic", "Delayed"}]

opening(local, ack) ==
    [local |-> local, remote |-> NoRemote, state |-> "Opening", rx_buf |-> 0,
     wrte_acked |-> TRUE, send_budget |-> 0, unacked |-> 0, settled |-> 0,
     failed |-> FALSE, ack |-> ack]

accepted(local, remote, credit, ack) ==
    [opening(local, ack) EXCEPT !.remote = remote, !.state = "Open",
                                !.send_budget = IF ack = "Delayed" THEN credit ELSE 0]

has_ids(s) == s.remote # NoRemote

is_closed(s) == s.state = "Closed"

(* A READY's payload is its credit, or ShortPayload when it has under four *)
(* bytes, which only delayed ACK looks at.                                 *)
ShortPayload == -1

ready_is_short(s, payload) == s.ack = "Delayed" /\ payload = ShortPayload

accept_open_ready(s, remote, payload) ==
    [s EXCEPT !.remote = remote, !.state = "Open",
              !.send_budget = IF s.ack = "Delayed" THEN payload ELSE @]

apply_ready(s, payload) ==
    IF s.ack = "Delayed" THEN [s EXCEPT !.send_budget = @ + payload]
                         ELSE [s EXCEPT !.wrte_acked = TRUE]

-----------------------------------------------------------------------------
(* Receiving.                                                              *)

held(s) == s.rx_buf - s.settled

(* Faulty form: the packet itself is left out of the sum.                  *)
rx_overflows_late(s, len) == held(s) > rx_cap

rx_overflows(s, len) == held(s) + len > rx_cap

(* AckDecision::Now: the OKAY for this WRTE goes out on arrival.           *)
acks_write_now(s, len) ==
    s.ack = "Classic" /\ held(s) + len < rx_watermark /\ has_ids(s)

apply_write(s, len) ==
    [s EXCEPT !.rx_buf = @ + len,
              !.unacked = IF acks_write_now(s, len) THEN 0 ELSE @ + len]

has_data(s) == has_ids(s) /\ s.rx_buf > 0

(* What an OKAY for a take of n bytes that leaves `remaining` would        *)
(* acknowledge.                                                            *)
ack_len(s, n, remaining) ==
    CASE s.unacked = 0 -> NoAck
      [] s.unacked # 0 /\ s.ack = "Delayed" ->
            IF AtMost(n, s.unacked) > 0 THEN AtMost(n, s.unacked) ELSE NoAck
      [] OTHER -> IF remaining < rx_watermark THEN s.unacked ELSE NoAck

(* Faulty form: the test of settled the wrong way round.                   *)
take_acks_settled(s, want) ==
    /\ has_data(s) /\ s.settled > 0
    /\ LET n == AtMost(want, s.rx_buf) IN ack_len(s, n, s.rx_buf - n) # NoAck

take_acks(s, want) ==
    /\ has_data(s) /\ s.settled = 0
    /\ LET n == AtMost(want, s.rx_buf) IN ack_len(s, n, s.rx_buf - n) # NoAck

(* settle_take returns an acknowledgement, settle_ack, and the slot with   *)
(* the bytes it covers set aside, settle_take.                             *)
settle_ack(s, want) ==
    IF has_ids(s) /\ s.settled = 0
    THEN LET n == AtMost(want, s.rx_buf) IN ack_len(s, n, s.rx_buf - n)
    ELSE NoAck

(* Faulty form: the bytes stay owed.                                       *)
settle_take_keeps_debt(s, want) ==
    IF settle_ack(s, want) = NoAck THEN s
    ELSE [s EXCEPT !.settled = AtMost(want, s.rx_buf)]

settle_take(s, want) ==
    IF settle_ack(s, want) = NoAck THEN s
    ELSE [s EXCEPT !.unacked = @ - settle_ack(s, want),
                   !.settled = AtMost(want, s.rx_buf)]

(* The bytes take_buffered copies out: what an OKAY was already sent for,  *)
(* or everything if nothing is set aside.                                  *)
take_len(s, want) == AtMost(want, IF s.settled = 0 THEN s.rx_buf ELSE s.settled)

(* Faulty form: a subtraction that does not saturate.                      *)
take_buffered_unsaturated(s, want) ==
    [s EXCEPT !.rx_buf = @ - take_len(s, want), !.settled = @ - take_len(s, want)]

take_buffered(s, want) ==
    [s EXCEPT !.rx_buf = @ - take_len(s, want),
              !.settled = @ - AtMost(take_len(s, want), @)]

apply_close(s) == [s EXCEPT !.state = "Closed", !.unacked = 0]

fail(s) == [s EXCEPT !.failed = TRUE, !.state = "Closed", !.unacked = 0]

-----------------------------------------------------------------------------
(* Sending.  Classic flow control has one token, worth any amount; a       *)
(* delayed-ACK budget is a byte count that may go below zero.              *)

has_budget(s) == IF s.ack = "Delayed" THEN s.send_budget > 0 ELSE s.wrte_acked

spend(s, n) ==
    IF s.ack = "Delayed" THEN [s EXCEPT !.send_budget = @ - n]
                         ELSE [s EXCEPT !.wrte_acked = FALSE]

reserve_len(s, want) ==
    IF s.ack = "Delayed" THEN AtMost(want, s.send_budget) ELSE want

refund(s, n) ==
    IF s.ack = "Delayed" THEN [s EXCEPT !.send_budget = @ + n]
                         ELSE [s EXCEPT !.wrte_acked = TRUE]
=============================================================================
