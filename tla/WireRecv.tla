------------------------------ MODULE WireRecv ------------------------------
(***************************************************************************)
(* Receiving packets (base/wire.rs recv_pkt_or, base/protocol/packet.rs    *)
(* decode): bytes come from a transport in pieces of any length, are       *)
(* staged behind the bytes already held, and whole packets are cut off the *)
(* front.  A byte is its position in the device's stream, so that a byte   *)
(* lost, repeated or moved shows in what is delivered.                     *)
(*                                                                         *)
(* The transports differ in what becomes of a read whose future is         *)
(* dropped: "async" (TokioTcp, SmolTcp) nothing was read; "blocking"       *)
(* (BlockingTcp, rusb on Inline) the read never yields, so nobody can drop *)
(* it; "pool" (rusb on a thread pool, nusb) the transfer goes on and what  *)
(* it brings is thrown away.                                               *)
(***************************************************************************)
EXTENDS Integers, Sequences, SequencesExt

CONSTANTS
    MESSAGE_SIZE,   \* length of a packet's header
    MIN_READ,       \* what is asked for while the header is not there yet
    MaxPayload,     \* the smaller of the negotiated max_payload and MAX_PAYLOAD
    WireScripts,    \* what the device may send: sequences of packets
    Noises,         \* what bytes that are not a header may read as
    RxLinks,        \* the transports: a subset of {"async", "blocking", "pool"}
    MaxStops        \* bound: futures dropped and interrupts, together

VARIABLES
    rx,       \* the receiver: its buffer, the read under way, the call
    rx_link,  \* the transport below it and the device's stream
    rx_out    \* what the calls returned, in order

rxVars == <<rx, rx_link, rx_out>>

(* The device's stream: packets of MESSAGE_SIZE + len bytes, each "good",  *)
(* with a bad command or magic ("header"), or with a wrong sum ("sum").    *)
Packets == [len : Nat, is : {"good", "header", "sum"}]
StreamLen(ps) == FoldSeq(LAMBDA p, n: MESSAGE_SIZE + p.len + n, 0, ps)
PacketStart(i) == StreamLen(SubSeq(rx_link.script, 1, i - 1))
Coming == StreamLen(rx_link.script) - rx_link.read
Run(a, n) == [k \in 1..n |-> a + k]

RxStarts ==
    {l \in [kind : RxLinks, script : WireScripts, noise : Noises, read : {0},
            ended : {FALSE}, orphan : {0}, stops : {0}, lost : {FALSE}, dropped : {FALSE}] :
       l.kind # "pool" => l.noise = CHOOSE x \in Noises : TRUE}   \* it cannot matter there
RxInit ==
    /\ rx = [buf |-> <<>>, keep |-> 0, pc |-> "idle", zeroed |-> 0]
    /\ rx_link \in RxStarts
    /\ rx_out = <<>>

------------------------------------------------------------------------------
(* The bytes in hand *)

Committed == SubSeq(rx.buf, 1, rx.keep)

(* The header at the front of b, of at least MESSAGE_SIZE bytes: that of a *)
(* packet when the receiver is in step with the device.                    *)
Header(b) ==
    LET here == {i \in DOMAIN rx_link.script :
                   SubSeq(b, 1, MESSAGE_SIZE) = Run(PacketStart(i), MESSAGE_SIZE)}
    IN IF here = {} THEN rx_link.noise ELSE rx_link.script[CHOOSE i \in here : TRUE]

(* Packet::missing: saturating.                                            *)
missing(b) ==
    IF Len(b) < MESSAGE_SIZE THEN MESSAGE_SIZE - Len(b)
    ELSE LET total == MESSAGE_SIZE + Header(b).len
         IN IF total > Len(b) THEN total - Len(b) ELSE 0

read_limit(b) == IF Len(b) < MESSAGE_SIZE THEN MIN_READ ELSE missing(b)

Spare == Len(rx.buf) - rx.keep
(* Staged::room: the window the next read gets.                            *)
Room == LET limit == read_limit(Committed) IN IF limit < Spare THEN limit ELSE Spare

(* Faulty form: reads on while anything is missing.                        *)
WantsMoreAlways(b, spare) == missing(b) # 0
wants_more(b, spare) == missing(b) # 0 /\ missing(b) <= spare

(* Packet::decode: a header it refuses stays in the buffer, a packet with  *)
(* a wrong sum leaves it.                                                  *)
Decoded(b) ==
    IF Len(b) < MESSAGE_SIZE THEN "more"
    ELSE CASE Header(b).is = "header" -> "InvalidHeader"
           [] Header(b).len > MaxPayload -> "PayloadTooLarge"
           [] Len(b) < MESSAGE_SIZE + Header(b).len -> "more"
           [] Header(b).is = "sum" -> "InvalidChecksum"
           [] OTHER -> "packet"
Cut(b) == IF Decoded(b) \in {"packet", "InvalidChecksum"}
          THEN MESSAGE_SIZE + Header(b).len ELSE 0

read_cancel_safe(kind) == kind = "async"

------------------------------------------------------------------------------
(* recv_pkt_or *)

RxReturns(res, bytes) == rx_out' = Append(rx_out, [res |-> res, bytes |-> bytes])

(* Staged::new: room for the read behind the bytes kept.                   *)
Stage(b) == [rx EXCEPT !.buf = b \o [k \in 1..read_limit(b) |-> 0], !.keep = Len(b),
                       !.pc = "poll", !.zeroed = @ + read_limit(b)]

(* Staged::drop: only committed bytes stay.                                *)
Unstaged == [rx EXCEPT !.buf = Committed, !.keep = 0, !.pc = "idle", !.zeroed = 0]

(* The head of the loop, with the bytes b held: a packet, an error, or a   *)
(* window to read into.                                                    *)
Decode(b) ==
    IF Decoded(b) = "more" THEN rx' = Stage(b) /\ UNCHANGED rx_out
    ELSE /\ rx' = [rx EXCEPT !.buf = SubSeq(b, Cut(b) + 1, Len(b)), !.keep = 0,
                             !.pc = "idle", !.zeroed = 0]
         /\ RxReturns(Decoded(b), SubSeq(b, 1, Cut(b)))

(* The callers stop after an error that ends the connection.               *)
Fatal == {"InvalidHeader", "PayloadTooLarge", "UnexpectedEof", "Io"}
Failed == rx_out # <<>> /\ Last(rx_out).res \in Fatal
RxStart == /\ rx.pc = "idle"
           /\ ~Failed
           /\ Decode(rx.buf)
           /\ UNCHANGED rx_link

(* A caller may ask again after a header was refused: it is still there.   *)
RxAgain == /\ rx.pc = "idle" /\ Failed
           /\ Last(rx_out).res \in {"InvalidHeader", "PayloadTooLarge"}
           /\ rx_link.stops < MaxStops
           /\ rx_link' = [rx_link EXCEPT !.stops = @ + 1]
           /\ Decode(rx.buf)

(* The interrupt is looked at, and is not there: the read starts.          *)
RxPoll == /\ rx.pc = "poll"
          /\ rx' = [rx EXCEPT !.pc = "read"]
          /\ UNCHANGED <<rx_link, rx_out>>

(* Bytes arrive: committed, and the window read into again while the rest  *)
(* of the packet fits behind them.                                         *)
RxRead ==
    /\ rx.pc = "read" /\ ~rx_link.ended
    /\ \E n \in 1..Coming :
         /\ n <= Room
         /\ rx_link' = [rx_link EXCEPT !.read = @ + n]
         /\ LET b == Committed \o Run(rx_link.read, n)
                r == [rx EXCEPT !.buf = b \o SubSeq(rx.buf, Len(b) + 1, Len(rx.buf)),
                                !.keep = Len(b)]
            IN IF wants_more(b, Len(rx.buf) - Len(b))
               THEN rx' = [r EXCEPT !.pc = "poll"] /\ UNCHANGED rx_out
               ELSE Decode(b)

(* A read of nothing: the end of the stream, or no room to read into.      *)
RxEof == /\ rx.pc = "read"
         /\ Room = 0 \/ rx_link.ended
         /\ rx' = Unstaged
         /\ RxReturns("UnexpectedEof", <<>>)
         /\ UNCHANGED rx_link

RxIoFails == /\ rx.pc = "read"
             /\ rx_link.ended
             /\ rx' = Unstaged
             /\ RxReturns("Io", <<>>)
             /\ UNCHANGED rx_link

(* What is left behind by a read that is not waited for any more: on a     *)
(* pool it goes on.                                                        *)
Abandon(l) == [l EXCEPT !.stops = @ + 1,
                        !.orphan = IF rx.pc = "read" /\ l.kind = "pool" THEN Room ELSE @]

(* The interrupt wins: before a read, or during one that may be dropped.   *)
RxInterruptible == rx.pc = "poll" \/ (rx.pc = "read" /\ read_cancel_safe(rx_link.kind))
RxInterrupt == /\ RxInterruptible
               /\ rx_link.stops < MaxStops
               /\ rx_link' = Abandon(rx_link)
               /\ rx' = Unstaged
               /\ UNCHANGED rx_out

(* The caller drops the future, on any transport that can leave it waiting.*)
RxDrop == /\ rx.pc = "read" /\ rx_link.kind # "blocking"
          /\ rx_link.stops < MaxStops
          /\ rx_link' = [Abandon(rx_link) EXCEPT !.dropped = TRUE]
          /\ rx' = Unstaged
          /\ UNCHANGED rx_out

------------------------------------------------------------------------------
(* The transport and the device *)

DeviceEnds == /\ ~rx_link.ended
              /\ rx_link' = [rx_link EXCEPT !.ended = TRUE]
              /\ UNCHANGED <<rx, rx_out>>

(* A transfer nobody waits for takes bytes off the stream.                 *)
OrphanTakes ==
    /\ rx_link.orphan > 0 /\ ~rx_link.ended
    /\ \E n \in 1..Coming :
         /\ n <= rx_link.orphan
         /\ rx_link' = [rx_link EXCEPT !.read = @ + n, !.orphan = 0, !.lost = TRUE]
    /\ UNCHANGED <<rx, rx_out>>

RxSteps == \/ RxStart \/ RxPoll \/ RxRead \/ RxEof \/ RxIoFails
RxNext == \/ RxSteps \/ RxAgain \/ RxInterrupt \/ RxDrop
          \/ DeviceEnds \/ OrphanTakes

------------------------------------------------------------------------------
(* Properties *)

RxResults == Fatal \cup {"packet", "InvalidChecksum"}
RxTypeOK ==
    /\ rx_link.script \in Seq(Packets)
    /\ rx.pc \in {"idle", "poll", "read"} /\ rx.keep \in 0..Len(rx.buf)
    /\ \A i \in DOMAIN rx_out : rx_out[i].res \in RxResults
    /\ rx_link.read <= StreamLen(rx_link.script)

(* Packets come out whole, once and in order however their bytes were cut, *)
(* by however many interrupted calls: a packet with a wrong sum is refused *)
(* and the next one is found; a header that is refused is refused again at *)
(* every call; and the end of the stream is reported only at the end.  All *)
(* this unless the caller itself dropped a read of a transport on which    *)
(* that loses bytes.                                                       *)
Verdict(p) == CASE p.is = "header" -> "InvalidHeader"
                [] p.len > MaxPayload -> "PayloadTooLarge"
                [] p.is = "sum" -> "InvalidChecksum"
                [] OTHER -> "packet"
Passing == SelectSeq(rx_out, LAMBDA r : r.res \in {"packet", "InvalidChecksum"})
PacketsExact ==
    ~rx_link.lost =>
      /\ Len(Passing) <= Len(rx_link.script)
      /\ \A i \in DOMAIN Passing :
           /\ Passing[i].res = Verdict(rx_link.script[i])
           /\ Passing[i].bytes = Run(PacketStart(i), MESSAGE_SIZE + rx_link.script[i].len)
      /\ \A i \in DOMAIN rx_out : rx_out[i].res \in {"InvalidHeader", "PayloadTooLarge"} =>
           /\ Len(Passing) < Len(rx_link.script)
           /\ rx_out[i].res = Verdict(rx_link.script[Len(Passing) + 1])
      /\ rx.pc = "idle" =>
           rx.buf = Run(PacketStart(Len(Passing) + 1),
                        rx_link.read - PacketStart(Len(Passing) + 1))

(* Bytes are lost only by a read that the caller dropped itself: the       *)
(* library's own race between an interrupt and a read never loses one.     *)
LossIsTheCallers == rx_link.lost => rx_link.dropped

(* The end of the stream is never made up: no read is given an empty       *)
(* window, whose answer would be taken for the end.                        *)
EofIsReal == \A i \in DOMAIN rx_out :
    rx_out[i].res = "UnexpectedEof" => rx_link.ended

(* What the receiver holds is bounded by one packet or one first read, and *)
(* a call clears each byte of room once: a packet that trickles in does    *)
(* not make it clear the same room again and again.                        *)
Larger(a, b) == IF a > b THEN a ELSE b
RecvBounded ==
    /\ Len(rx.buf) <= Larger(MESSAGE_SIZE - 1 + MIN_READ, MESSAGE_SIZE + MaxPayload)
    /\ rx.zeroed <= MIN_READ + MaxPayload
=============================================================================
