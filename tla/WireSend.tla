------------------------------ MODULE WireSend ------------------------------
(***************************************************************************)
(* Sending packets (base/wire.rs send_pkt, send_raw, send_open, send_frame)*)
(* over a socket or over bulk transfers (transport/rusb.rs, nusb.rs).  A   *)
(* packet is written as its header, then its payload, then a flush; any of *)
(* these may fail, write a part, or be dropped by the caller.              *)
(*                                                                         *)
(* Byte <<i, k>> is byte k of packet i.  The device's side is a sequence   *)
(* of chunks: pieces of the byte stream on a socket; on USB the bus's      *)
(* packets, of at most tx_link.packet bytes, where a shorter one ends a    *)
(* transfer.  adbd reads a header and a payload as one transfer each.      *)
(***************************************************************************)
EXTENDS Integers, Sequences, SequencesExt

CONSTANTS
    TxHeader,      \* MESSAGE_SIZE
    MAX_PAYLOAD,
    TxQueues,      \* what callers may send: sequences of payload lengths
    PacketSizes,   \* of the bulk endpoint
    TxLinks        \* the transports: a subset of {"tcp", "blocking", "nusb", "rusb"}

VARIABLES
    tx,       \* the packet being sent
    tx_link,  \* the transport, the desync flag, and what the device has
    tx_res    \* what became of each packet so far

txVars == <<tx, tx_link, tx_res>>

TxLoads == [todo : TxQueues, part : {"idle"}, pos : {0}]
TxStarts ==
    {l \in [kind : TxLinks, packet : PacketSizes, gone : {FALSE}, desync : {FALSE},
            orphan : {<<>>}, chunks : {<<>>}] :
       l.kind \in {"tcp", "blocking"} => l.packet = CHOOSE p \in PacketSizes : TRUE}
TxInit ==
    /\ tx \in TxLoads
    /\ tx_link \in TxStarts
    /\ tx_res = <<>>

Usb == tx_link.kind \in {"nusb", "rusb"}
Sending == Len(tx_res) + 1                      \* the packet being sent
PartBytes(i, part) ==
    LET n == tx.todo[i]
    IN CASE part = "header" -> [k \in 1..TxHeader |-> <<i, k>>]
         [] part = "payload" -> [k \in 1..n |-> <<i, TxHeader + k>>]
         [] OTHER -> <<>>
Rest == LET b == PartBytes(Sending, tx.part) IN SubSeq(b, tx.pos + 1, Len(b))

------------------------------------------------------------------------------
(* Bulk transfers *)

ends_on_packet_boundary(n, max) == n # 0 /\ max # 0 /\ n % max = 0

(* The packets a transfer of b goes out in.                                *)
BusPackets(b) ==
    LET p == tx_link.packet
        n == (Len(b) + p - 1) \div p
    IN [j \in 1..n |-> SubSeq(b, (j - 1) * p + 1, IF j * p < Len(b) THEN j * p ELSE Len(b))]
Onto(b) == IF b = <<>> THEN tx_link.chunks
           ELSE IF Usb THEN tx_link.chunks \o BusPackets(b) ELSE Append(tx_link.chunks, b)

(* How much of the rest of a part one write takes: a socket any number of  *)
(* bytes, nusb all, rusb all or, when the transfer is interrupted, some    *)
(* whole packets.                                                          *)
Takes(n) == CASE tx_link.kind = "nusb" -> n = Len(Rest)
              [] tx_link.kind = "rusb" -> n = Len(Rest) \/ n % tx_link.packet = 0
              [] OTHER -> TRUE

------------------------------------------------------------------------------
(* send_frame *)

TxDone(res) == tx_res' = Append(tx_res, res) /\ tx' = [tx EXCEPT !.part = "idle", !.pos = 0]
NextPart(part) == IF part = "header" /\ tx.todo[Sending] > 0 THEN "payload" ELSE "flush"

(* DesyncFlag::check, then encode_header: neither touches the transport.   *)
TxStart ==
    /\ tx.part = "idle" /\ Sending <= Len(tx.todo)
    /\ CASE tx_link.desync -> TxDone("Desynchronized")
         [] tx.todo[Sending] > MAX_PAYLOAD -> TxDone("PayloadTooLarge")
         [] OTHER -> tx' = [tx EXCEPT !.part = "header", !.pos = 0] /\ UNCHANGED tx_res
    /\ UNCHANGED tx_link

(* One write of write_all, and on USB the empty packet after it.           *)
TxWrite ==
    /\ tx.part \in {"header", "payload"} /\ ~tx_link.gone /\ Rest # <<>>
    /\ \E n \in 1..Len(Rest) :
         /\ Takes(n)
         /\ tx_link' = [tx_link EXCEPT !.chunks = Onto(SubSeq(Rest, 1, n))]
         /\ IF n < Len(Rest) THEN tx' = [tx EXCEPT !.pos = @ + n]
            ELSE IF Usb /\ ends_on_packet_boundary(n, tx_link.packet)
                 THEN tx' = [tx EXCEPT !.pos = @ + n]
                 ELSE tx' = [tx EXCEPT !.part = NextPart(@), !.pos = 0]
    /\ UNCHANGED tx_res

TxEmptyPacket ==
    /\ tx.part \in {"header", "payload"} /\ ~tx_link.gone /\ Rest = <<>>
    /\ tx_link' = [tx_link EXCEPT !.chunks = Append(@, <<>>)]
    /\ tx' = [tx EXCEPT !.part = NextPart(@), !.pos = 0]
    /\ UNCHANGED tx_res

TxFlush == /\ tx.part = "flush"
           /\ TxDone("ok")
           /\ UNCHANGED tx_link

(* connection_gone: the error kinds after which the transport takes no     *)
(* byte any more.                                                          *)
connection_gone(e) == e = "gone"

(* ArmedWrite::disarm: only when nothing can follow the cut.               *)
Disarmed(e) == connection_gone(e)

(* A write or flush fails: with the connection gone, with another error,   *)
(* or with nothing taken, which is UnexpectedEof.                          *)
TxFails(e) ==
    /\ tx.part # "idle" /\ e \in {"gone", "other", "zero"}
    /\ tx_link.gone => e = "gone"
    /\ e = "zero" => ~Usb /\ tx.part # "flush"
    /\ tx_link' = [tx_link EXCEPT !.gone = @ \/ e = "gone",
                                  !.desync = @ \/ ~Disarmed(e)]
    /\ TxDone("failed")

(* ArmedWrite::drop: the caller drops the send.  A transfer rusb started   *)
(* goes on without it, and so does what its closure does after it.         *)
TxDrop ==
    /\ tx.part # "idle" /\ tx_link.kind # "blocking"
    /\ tx_link' = [tx_link EXCEPT !.desync = TRUE,
                     !.orphan = IF tx_link.kind = "rusb" THEN Rest ELSE <<>>]
    /\ TxDone("dropped")

OrphanWrites ==
    /\ tx_link.orphan # <<>> /\ ~tx_link.gone
    /\ tx_link' = [tx_link EXCEPT !.orphan = <<>>,
                     !.chunks = Onto(tx_link.orphan) \o
                        (IF ends_on_packet_boundary(Len(tx_link.orphan), tx_link.packet)
                         THEN <<(<<>>)>> ELSE <<>>)]
    /\ UNCHANGED <<tx, tx_res>>

TxSteps == \/ TxStart \/ TxWrite \/ TxEmptyPacket \/ TxFlush
           \/ (tx_link.gone /\ TxFails("gone"))
TxNext == TxSteps \/ (\E e \in {"gone", "other", "zero"} : TxFails(e)) \/ TxDrop \/ OrphanWrites

------------------------------------------------------------------------------
(* Properties *)

TxTypeOK ==
    /\ tx.part \in {"idle", "header", "payload", "flush"} /\ tx.pos \in Nat
    /\ tx_link.gone \in BOOLEAN /\ tx_link.desync \in BOOLEAN
    /\ \A i \in DOMAIN tx_res :
         tx_res[i] \in {"ok", "Desynchronized", "PayloadTooLarge", "failed", "dropped"}

PacketBytes(i) == PartBytes(i, "header") \o PartBytes(i, "payload")
OkPackets == SelectSeq([i \in DOMAIN tx_res |-> i], LAMBDA i : tx_res[i] = "ok")
OkBytes == FlattenSeq([j \in DOMAIN OkPackets |-> PacketBytes(OkPackets[j])])
DeviceBytes == FlattenSeq(tx_link.chunks)

(* The device never sees a packet start in the middle of another: it has   *)
(* every packet that was reported sent, whole and in order, and behind     *)
(* them at most the beginning of one more, after which either that packet  *)
(* is still being written or no byte follows.                              *)
FramesWhole ==
    /\ IsPrefix(OkBytes, DeviceBytes)
    /\ \E i \in DOMAIN tx.todo :
         IsPrefix(DeviceBytes, OkBytes \o PacketBytes(i))
    /\ DeviceBytes # OkBytes /\ tx.part = "idle" => tx_link.desync \/ tx_link.gone

(* On USB the device's transfers are the headers and the payloads, one     *)
(* each, also where a length is a whole number of bus packets: otherwise   *)
(* adbd would wait for more, or take the next header for the payload's end.*)
Parts == FlattenSeq([j \in DOMAIN OkPackets |->
            LET i == OkPackets[j]
            IN IF tx.todo[i] = 0 THEN <<PartBytes(i, "header")>>
               ELSE <<PartBytes(i, "header"), PartBytes(i, "payload")>>])
Transfers == FoldLeft(LAMBDA acc, c :
                 LET t == acc.open \o c
                 IN IF Len(c) < tx_link.packet
                    THEN [whole |-> Append(acc.whole, t), open |-> <<>>]
                    ELSE [whole |-> acc.whole, open |-> t],
                 [whole |-> <<>>, open |-> <<>>], tx_link.chunks)
TransfersExact ==
    Usb /\ tx.part = "idle" /\ ~tx_link.desync /\ ~tx_link.gone =>
        Transfers = [whole |-> Parts, open |-> <<>>]
=============================================================================
