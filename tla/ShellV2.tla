------------------------------ MODULE ShellV2 ------------------------------
(***************************************************************************)
(* The shell protocol: frames of an id and a length over one channel       *)
(* (libadb/src/shell/v2.rs, shell/v2/decoder.rs).                          *)
(*                                                                         *)
(* The decoder works in the caller's buffer.  A frame that fits it is      *)
(* delivered whole; a longer one in pieces, for which the decoder keeps    *)
(* large_id and large_remaining.  Frames to the device are staged in the   *)
(* free end of the same buffer.  A call may be dropped at its await.       *)
(***************************************************************************)
EXTENDS ServiceStream

CONSTANTS HEADER_SIZE,   \* bytes of a frame header
          ShScripts,     \* the frames a device may send: sequences of records
                         \* id, len and size, the bytes of frame and header
          ShCapacities   \* the lengths of the caller's buffer

ASSUME HeaderAssumption ==
    /\ HEADER_SIZE \in Nat \ {0}
    /\ \A c \in ShCapacities: c \in Nat /\ c >= HEADER_SIZE
    /\ \A s \in ShScripts: \A i \in DOMAIN s: s[i].size = HEADER_SIZE + s[i].len

\* FrameDecoder::new
NewDecoder == [large_id |-> "stdout", large_remaining |-> 0]

ShInit == /\ svc = "shell"
          /\ script \in ShScripts
          /\ \E n \in ShCapacities: NewBuffer(n)
          /\ at = 0
          /\ ending = "none"
          /\ slot = "none"
          /\ cl = [pc |-> "start", op |-> "none", res |-> "none", out |-> <<>>]
                  @@ NewDecoder

------------------------------------------------------------------------------
(* FrameDecoder *)

\* The cursors and the piece state after a step of the decoder.
Cursors(h, id, left) == [head |-> h, large_id |-> id, large_remaining |-> left]
NoFrame == [kind |-> "none", cur |-> Cursors(head, cl.large_id, cl.large_remaining)]

\* consume_large_ref: the bytes of the frame that are held from h on.
consume_large_ref(h, id, left) ==
    LET take == IF tail - h < left THEN tail - h ELSE left
    IN [kind |-> "frame", id |-> id, payload |-> SubSeq(buf, h + 1, h + take),
        cur |-> Cursors(h + take, id, left - take)]

\* The header at head: the frame of the device that starts there, or a
\* frame of an id nobody sent when the decoder is out of step.
parse_header == LET i == MessageAt(buf[head + 1])
                IN IF i = 0 THEN [id |-> "garbage", len |-> 0] ELSE script[i]

\* A header of a frame longer than the buffer, and of one that fits it.
StartLarge(f) ==
    LET h == head + HEADER_SIZE
    IN IF h = tail THEN [kind |-> "none", cur |-> Cursors(h, f.id, f.len)]
       ELSE consume_large_ref(h, f.id, f.len)
StartWhole(f) ==
    IF tail - head < HEADER_SIZE + f.len THEN NoFrame
    ELSE [kind |-> "frame", id |-> f.id,
          payload |-> SubSeq(buf, head + HEADER_SIZE + 1, head + HEADER_SIZE + f.len),
          cur |-> Cursors(head + HEADER_SIZE + f.len, cl.large_id, 0)]


\* FrameDecoder::try_next_raw_ref
try_next_raw_ref ==
    IF cl.large_remaining > 0
    THEN IF head = tail THEN NoFrame
         ELSE consume_large_ref(head, cl.large_id, cl.large_remaining)
    ELSE IF tail - head < HEADER_SIZE THEN NoFrame
    ELSE LET f == parse_header
         IN IF HEADER_SIZE + f.len > Capacity THEN StartLarge(f) ELSE StartWhole(f)

\* make_frame: an exit frame without a payload has no exit code.
ShortExit(r) == r.kind = "frame" /\ r.id = "exit" /\ r.payload = <<>>

\* The buffer after a step of the decoder, reset_if_drained included.
After(r) == IF r.cur.head = tail THEN [buf |-> buf, head |-> 0, tail |-> 0]
            ELSE [buf |-> buf, head |-> r.cur.head, tail |-> tail]

\* The record of the call after it.
Noted(r) == [cl EXCEPT !.large_id = r.cur.large_id,
                       !.large_remaining = r.cur.large_remaining,
                       !.out = IF r.kind # "frame" THEN @
                               ELSE @ \o [i \in DOMAIN r.payload |-> <<r.id, r.payload[i]>>]]

------------------------------------------------------------------------------
(* Opening *)

Freed(result) == /\ slot' = "freed"
                 /\ cl' = [cl EXCEPT !.pc = "done", !.res = result]

\* open and open_interactive: a missing feature, a destination with a byte
\* the device would cut it at, or a refused OPEN leave no channel behind.
ShOpenFails == /\ svc = "shell" /\ cl.pc = "start"
               /\ cl' = [cl EXCEPT !.pc = "done", !.res = "NotOpened"]
               /\ UNCHANGED <<svc, script, at, ending, buf, head, tail, slot>>

\* open, the commands of cmd, abb and logcat that come back as a Shell, and
\* exec, which goes on with run_to_exit.
ShOpen == /\ svc = "shell" /\ cl.pc = "start"
          /\ slot' = "open"
          /\ \E op \in {"none", "interactive", "run_to_exit"}:
               cl' = [cl EXCEPT !.op = op, !.pc = IF op = "none" THEN "idle" ELSE "send"]
          /\ UNCHANGED <<svc, script, at, ending, buf, head, tail>>

------------------------------------------------------------------------------
(* Sending *)

\* The calls on an open shell that send a frame: write_stdin, close_stdin,
\* set_window_size, and run_to_exit, which closes stdin first.
ShSendCall == /\ svc = "shell" /\ cl.pc = "idle"
              /\ \E op \in {"write", "close_stdin", "run_to_exit"}:
                   cl' = [cl EXCEPT !.pc = "send", !.op = op]
              /\ UNCHANGED <<svc, script, at, ending, buf, head, tail, slot>>

\* Where a call goes on once its frame is sent.
AfterSend == CASE cl.op = "run_to_exit" -> [cl EXCEPT !.pc = "read", !.op = "collect"]
               [] OTHER -> [cl EXCEPT !.pc = "idle", !.op = "none"]

\* send_frame: the buffer is compacted, and the frame, here of n bytes, is
\* staged behind the held bytes, or written as header and payload from the
\* caller's slice when it does not fit there.
send_frame(n) == Staged(HEADER_SIZE + n)

ShSend == /\ svc = "shell" /\ cl.pc = "send"
          /\ ending = "none"
          /\ \E n \in {0, 1}: Becomes(send_frame(n))
          /\ cl' = AfterSend
          /\ UNCHANGED <<svc, script, at, ending, slot>>

\* The write fails.  close_stdin takes a channel the device has closed for
\* sent; open_interactive and run_to_exit close the channel on any other
\* failure; the rest hand it to the caller, who still has the shell.
ShSendFails ==
    /\ svc = "shell" /\ cl.pc = "send"
    /\ \E e \in Endings:
         /\ Fails(e)
         /\ Becomes(send_frame(0))
         /\ IF cl.op \in {"close_stdin", "run_to_exit"} /\ e = "ChannelClosed"
            THEN cl' = AfterSend /\ UNCHANGED slot
            ELSE IF cl.op \in {"interactive", "run_to_exit"} THEN Freed(e)
            ELSE cl' = [cl EXCEPT !.pc = "idle", !.op = "none"] /\ UNCHANGED slot
    /\ UNCHANGED <<svc, script>>

------------------------------------------------------------------------------
(* Receiving *)

\* read_frame and collect: pc "read" is the head of read_frame's loop.
ShReadCall == /\ svc = "shell" /\ cl.pc = "idle"
              /\ \E op \in {"read_frame", "collect"}:
                   cl' = [cl EXCEPT !.pc = "read", !.op = op]
              /\ UNCHANGED <<svc, script, at, ending, buf, head, tail, slot>>

\* How a read ends: collect closes the channel on every way out.
ReadReturns(c, result) ==
    IF c.op = "collect"
    THEN /\ slot' = "freed"
         /\ cl' = [c EXCEPT !.pc = "done", !.res = result]
    ELSE /\ cl' = [c EXCEPT !.pc = "idle", !.op = "none",
                            !.res = IF result = "ReceiveBufferFull" THEN result ELSE @]
         /\ UNCHANGED slot

\* A frame, or a piece of a long one, is decoded.
ShDecode == /\ svc = "shell" /\ cl.pc = "read"
            /\ LET r == try_next_raw_ref
               IN /\ r.kind = "frame"
                  /\ Becomes(After(r))
                  /\ IF ShortExit(r) THEN ReadReturns(Noted(r), "ShortExitPayload")
                     ELSE IF cl.op = "collect" /\ r.id # "exit"
                     THEN cl' = Noted(r) /\ UNCHANGED slot
                     ELSE ReadReturns(Noted(r), "ok")
            /\ UNCHANGED <<svc, script, at, ending>>

\* try_next_frame, from what is held alone.
ShTryNext == /\ svc = "shell" /\ cl.pc = "idle"
             /\ LET r == try_next_raw_ref
                IN Becomes(After(r)) /\ cl' = Noted(r)
             /\ UNCHANGED <<svc, script, at, ending, slot>>

\* The buffer ensure_writable leaves for a read that found no whole frame.
ReadRoom(r) == LET b == After(r)
               IN IF b.tail < Capacity THEN b
                  ELSE [buf |-> [i \in 1..Capacity |->
                                   IF b.head > 0 /\ i <= b.tail - b.head
                                   THEN b.buf[b.head + i] ELSE b.buf[i]],
                        head |-> 0, tail |-> b.tail - b.head]

ShRead == /\ svc = "shell" /\ cl.pc = "read"
          /\ LET r == try_next_raw_ref
             IN /\ r.kind = "none"
                /\ ReadInto(ReadRoom(r))
                /\ cl' = Noted(r)
          /\ UNCHANGED <<svc, script, slot>>

\* The read fails, or is not made: the buffer has no room for the rest of
\* the frame (ensure_writable).
ShReadFails == /\ svc = "shell" /\ cl.pc = "read"
               /\ LET r == try_next_raw_ref
                  IN /\ r.kind = "none"
                     /\ Becomes(ReadRoom(r))
                     /\ IF ReadRoom(r).tail = Capacity
                        THEN /\ ReadReturns(Noted(r), "ReceiveBufferFull")
                             /\ UNCHANGED <<at, ending>>
                        ELSE \E e \in Endings: Fails(e) /\ ReadReturns(Noted(r), e)
               /\ UNCHANGED <<svc, script>>

\* The caller drops read_frame where it waits for the channel.
ShReadDropped == /\ svc = "shell" /\ cl.pc = "read" /\ cl.op = "read_frame"
                 /\ LET r == try_next_raw_ref
                    IN /\ r.kind = "none"
                       /\ Becomes(ReadRoom(r))
                       /\ cl' = [Noted(r) EXCEPT !.pc = "idle", !.op = "none"]
                 /\ UNCHANGED <<svc, script, at, ending, slot>>

\* pump: one read behind what is held, or the interrupt; with no room even
\* after compaction it fails and the caller decodes first.
ShPump == /\ svc = "shell" /\ cl.pc = "idle"
          /\ \/ ReadInto(Writable) /\ Writable.tail < Capacity
             \/ Becomes(Writable) /\ UNCHANGED <<at, ending>>
          /\ UNCHANGED <<svc, script, slot, cl>>

\* close, or the end of the program's interest in the shell.
ShClose == /\ svc = "shell" /\ cl.pc = "idle"
           /\ Freed("closed")
           /\ UNCHANGED <<svc, script, at, ending, buf, head, tail>>

ShNext == \/ ShOpen \/ ShOpenFails \/ ShSendCall \/ ShSend \/ ShSendFails
          \/ ShReadCall \/ ShDecode \/ ShTryNext \/ ShRead
          \/ ShReadFails \/ ShReadDropped \/ ShPump \/ ShClose

------------------------------------------------------------------------------
(* Properties *)

\* The bytes of the payloads among the first n bytes of the stream, each
\* with the id of its frame.
Payloads(n) ==
    LET Payload(i) == LET from == Start(i) + HEADER_SIZE
                      IN [k \in 1..script[i].len |-> <<script[i].id, from + k>>]
    IN SelectSeq(FlattenSeq([i \in DOMAIN script |-> Payload(i)]), LAMBDA b: b[2] <= n)

\* Whatever the chunks the channel delivers, the frames staged in the
\* buffer in between and the reads dropped at their await, the payload
\* bytes handed out are the device's: all those of the consumed part of the
\* stream, once each, in order, under the id of their frame
\* (FrameDecoder::try_next_raw_ref, Shell::send_frame).
FramesExact == svc = "shell" => cl.out = Payloads(Consumed)

\* A buffer that holds a header is enough: no frame, however long, makes
\* read_frame or collect fail for want of room (Shell::new, ensure_writable).
AnyBufferServes == svc = "shell" => cl.res # "ReceiveBufferFull"
=============================================================================
