--------------------------- MODULE ServiceStream ---------------------------
(***************************************************************************)
(* What every service client of libadb has: one channel, the stream of     *)
(* messages the device writes to it, and one fixed buffer the bytes are    *)
(* read into, in chunks of any length (base/recv_buf.rs and the buffers of *)
(* shell/v2/decoder.rs and logcat.rs, which work alike).                   *)
(*                                                                         *)
(* A byte is its position in the device's stream: position i of the        *)
(* stream holds byte i.  A cell of the buffer that holds something else,   *)
(* a request staged there, is Junk.  A client that loses, repeats or       *)
(* overwrites a byte therefore shows it in the positions it delivers.      *)
(***************************************************************************)
EXTENDS Integers, Sequences, SequencesExt

VARIABLES
    svc,      \* the service that runs in this behaviour
    script,   \* the messages of the device, in order: records with a field len
    at,       \* the number of bytes of the stream read from the channel
    ending,   \* "none", or what every further read and write fails with
    buf,      \* the caller's buffer: cell -> position, or Junk
    head,     \* bytes of buf that are consumed
    tail,     \* bytes of buf that are filled
    slot,     \* the slot of the channel: "none", "open" or "freed"
    cl        \* the call under way: a record, each service has its own

svars == <<svc, script, at, ending, buf, head, tail, slot, cl>>

Junk == 0
Endings == {"ChannelClosed", "Io"}

\* The length of a message on the stream, header included, is its field
\* size; the position before its first byte is Start.
Total(msgs) == FoldSeq(LAMBDA m, n: m.size + n, 0, msgs)
Start(i) == Total(SubSeq(script, 1, i - 1))

\* The message whose first byte is the byte at position p, or 0 when p is
\* in the middle of a message: a client that reads a header there is out of
\* step with the device.
MessageAt(p) == LET here == {i \in DOMAIN script: Start(i) + 1 = p}
                IN IF here = {} THEN 0 ELSE CHOOSE i \in here: TRUE

Capacity == Len(buf)
Held == SubSeq(buf, head + 1, tail)        \* RecvBuf::peek of all there is
Consumed == at - (tail - head)

------------------------------------------------------------------------------
(* RecvBuf, and the cursors of FrameDecoder. *)

\* RecvBuf::new
NewBuffer(n) == /\ buf = [i \in 1..n |-> Junk]
                /\ head = 0
                /\ tail = 0

\* The buffer after RecvBuf::compact: the held bytes move to the front.
Compacted == [buf |-> [i \in 1..Capacity |-> IF head > 0 /\ i <= tail - head
                                             THEN buf[head + i] ELSE buf[i]],
              head |-> 0, tail |-> tail - head]
InPlace == [buf |-> buf, head |-> head, tail |-> tail]

\* The buffer a read goes into: compacted only when nothing is left behind
\* the held bytes.
Writable == IF tail >= Capacity THEN Compacted ELSE InPlace

Becomes(b) == /\ buf' = b.buf
              /\ head' = b.head
              /\ tail' = b.tail

\* One read of the channel into the room behind the bytes of b, of whatever
\* has arrived by then.
ReadInto(b) == /\ ending = "none"
               /\ \E n \in 1..(Total(script) - at):
                    /\ n <= Capacity - b.tail
                    /\ at' = at + n
                    /\ Becomes([b EXCEPT !.tail = @ + n,
                          !.buf = [i \in 1..Capacity |->
                             IF i > b.tail /\ i <= b.tail + n
                             THEN at + (i - b.tail) ELSE b.buf[i]]])
               /\ UNCHANGED ending

\* A read or write that fails: the device closed the channel or the
\* connection ended, now or earlier.
Fails(e) == /\ e \in Endings
            /\ ending \in {"none", e}
            /\ ending' = e
            /\ UNCHANGED at

\* A request of n bytes staged in the free window of the compacted buffer,
\* if it fits there: it overwrites only cells behind the held bytes.
Staged(n) == LET b == Compacted
             IN [b EXCEPT !.buf = [i \in 1..Capacity |->
                    IF b.tail + n <= Capacity /\ i > b.tail /\ i <= b.tail + n
                    THEN Junk ELSE b.buf[i]]]

------------------------------------------------------------------------------
(* RecvBuf::fill_at_least(cl.need): the loop reads until need bytes are held. *)

Filled == cl.need <= Capacity /\ tail - head >= cl.need
FillReads == /\ cl.need <= Capacity
             /\ tail - head < cl.need
             /\ ReadInto(Writable)
FillFails(e) == /\ cl.need <= Capacity
                /\ tail - head < cl.need
                /\ Fails(e)
                /\ Becomes(Writable)
FillTooLong == cl.need > Capacity          \* ReceiveBufferFull, nothing read
Advance(n) == head' = head + n /\ UNCHANGED <<buf, tail>>
Taken(n, k) == SubSeq(buf, head + n + 1, head + n + k)
=============================================================================
