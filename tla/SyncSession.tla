---------------------------- MODULE SyncSession ----------------------------
(***************************************************************************)
(* The sync protocol (libadb/src/sync.rs, sync/format.rs): many requests   *)
(* on one channel, each answered by one or more messages, with no framing  *)
(* beyond the lengths in the messages.  A session that consumes one byte   *)
(* too many or too few misreads every answer after it.                     *)
(***************************************************************************)
EXTENDS ServiceStream, FiniteSets

CONSTANTS SY_HEADER,       \* bytes of an id and its argument
          StatSize,        \* bytes of the fixed part of a STAT or STA2 answer
          DentSize,        \* and of a DENT, DNT2 or the DONE of a listing
          SyCalls,         \* the calls of the program: records op, nul, v2, flags
          SyFeatures,      \* the sets of features a device may advertise
          SyAnswers,       \* op -> the answers of the device: sequences of messages
          SyCapacities,    \* the lengths of the caller's buffer
          SyRequests       \* bound on the requests of one session

\* SyncSession::new, on the channel open opened.
SyInit == /\ svc = "sync"
          /\ script = <<>>
          /\ \E n \in SyCapacities: NewBuffer(n)
          /\ at = 0
          /\ ending = "none"
          /\ slot = "none"
          /\ \E fs \in SyFeatures:
               cl = [pc |-> "start", op |-> "none", res |-> "none", out |-> <<>>, need |-> 0,
                     left |-> 0, asked |-> 0, first |-> 1, spoiled |-> FALSE, features |-> fs]

SyOpen == /\ svc = "sync" /\ cl.pc = "start"
          /\ slot' = "open"
          /\ cl' = [cl EXCEPT !.pc = "idle"]
          /\ UNCHANGED <<svc, script, at, ending, buf, head, tail>>

------------------------------------------------------------------------------
(* Requests *)

COMPRESSION == {"BROTLI", "LZ4", "ZSTD"}

\* check_path, recv_v2_start's DRY_RUN and require_sendrecv_v2: a call whose
\* path holds a NUL, or whose flags the device does not take, is refused
\* before anything is sent (a flag stands for its feature, "v2" for
\* stat_v2, ls_v2 or sendrecv_v2).
Refuses(call) ==
    \/ call.nul
    \/ /\ call.v2
       /\ \/ Cardinality(call.flags \cap COMPRESSION) > 1
          \/ call.op = "recv" /\ "DRY_RUN" \in call.flags
          \/ ~({"v2"} \cup call.flags \subseteq cl.features)

\* write_message: the request of n bytes is staged in the compacted
\* buffer's window, or written as header and parts.
write_message(n) == Staged(SY_HEADER + n)

\* A call whose request the device gets: it answers in its own time, here
\* at once, with one of its answers.  recv_start and recv_v2_start return;
\* stat and list go on to read_next_id; a push goes on with its data.
SyRequest == /\ svc = "sync" /\ cl.pc = "idle" /\ cl.asked < SyRequests
             /\ ending = "none"
             /\ \E call \in SyCalls: \E answer \in SyAnswers[call.op]:
                  /\ ~Refuses(call)
                  /\ script' = script \o answer
                  /\ cl' = [cl EXCEPT !.left = 1, !.op = call.op, !.out = <<>>, !.asked = @ + 1, !.res = "none",
                                      !.need = SY_HEADER, !.first = Len(script) + 1,
                                      !.pc = IF call.op = "send" THEN "data" ELSE "id"]
             /\ \E n \in {1, 2}: Becomes(write_message(n))
             /\ UNCHANGED <<svc, at, ending, slot>>

\* A call that is refused: nothing is sent.
SyRefused == /\ svc = "sync" /\ cl.pc = "idle"
             /\ \E call \in SyCalls: Refuses(call)
             /\ cl' = [cl EXCEPT !.res = "Refused"]
             /\ UNCHANGED <<svc, script, at, ending, buf, head, tail, slot>>

\* send_data, one DATA message per chunk, and send_done, whose DONE asks
\* for the answer.
SySendData == /\ svc = "sync" /\ cl.pc = "data" /\ ending = "none"
              /\ IF cl.left > 0
                 THEN cl' = [cl EXCEPT !.left = @ - 1] /\ Becomes(write_message(1))
                 ELSE cl' = [cl EXCEPT !.pc = "id"] /\ Becomes(Compacted)
              /\ UNCHANGED <<svc, script, at, ending, slot>>

\* A call returns; recv and recv_v2 collect what recv_next gives.
SyReturns(c, result) == cl' = [c EXCEPT !.pc = "idle", !.op = "none", !.res = result]

SyWriteFails == /\ svc = "sync" /\ cl.pc \in {"idle", "data"} /\ cl.asked < SyRequests
                /\ \E e \in Endings: Fails(e) /\ SyReturns(cl, e)
                /\ Becomes(write_message(1))
                /\ UNCHANGED <<svc, script, slot>>

------------------------------------------------------------------------------
(* Answers *)

Reading == {"id", "fixed", "name", "chunk", "fail", "drain"}

SyRead == /\ svc = "sync" /\ cl.pc \in Reading
          /\ FillReads
          /\ UNCHANGED <<svc, script, slot, cl>>

SyReadFails == /\ svc = "sync" /\ cl.pc \in Reading
               /\ \E e \in Endings: FillFails(e) /\ SyReturns(cl, e)
               /\ UNCHANGED <<svc, script, slot>>

\* A buffer too small for what is to be read at once: the rest of the answer
\* stays unread, and the session is out of step from then on.
SyTooLong == /\ svc = "sync" /\ cl.pc \in Reading /\ FillTooLong
             /\ SyReturns([cl EXCEPT !.spoiled = TRUE], "ReceiveBufferFull")
             /\ UNCHANGED <<svc, script, at, ending, buf, head, tail, slot>>

\* The message at head, or one of no id the protocol has.
Message == LET i == MessageAt(buf[head + 1])
           IN IF i = 0 THEN [id |-> "garbage", len |-> 0, size |-> 0] ELSE script[i]

Allowed(op) == CASE op = "stat" -> {"STAT"}
                 [] op = "list" -> {"DENT", "DONE"}
                 [] op = "recv" -> {"DATA", "DONE"}
                 [] op = "send" -> {"OKAY"}

\* What the call must hold before it consumes a message of this id: stat
\* and list read a fixed part first, recv_next the whole chunk.
Needs(op, msg) == CASE op = "stat" -> StatSize
                    [] op = "list" -> DentSize
                    [] OTHER -> SY_HEADER + msg.len

Goes(pc, need) == cl' = [cl EXCEPT !.pc = pc, !.need = need]

\* The bytes of a FAIL message that read_fail_body keeps.
Kept(msg) == IF msg.len < Capacity THEN msg.len ELSE Capacity

\* read_next_id
SyId == /\ svc = "sync" /\ cl.pc = "id" /\ Filled
        /\ LET msg == Message
           IN IF msg.id = "FAIL"
              THEN /\ cl' = [cl EXCEPT !.pc = "fail", !.need = Kept(msg),
                                       !.left = msg.len - Kept(msg)]
                   /\ Advance(SY_HEADER)
              ELSE IF msg.id \in Allowed(cl.op)
              THEN Goes("fixed", Needs(cl.op, msg)) /\ UNCHANGED <<buf, head, tail>>
              ELSE SyReturns(cl, "UnexpectedId") /\ UNCHANGED <<buf, head, tail>>
        /\ UNCHANGED <<svc, script, at, ending, slot>>

DrainedNot(c) == SyReturns(c, "Failed")                   \* the faulty form
\* The part read_fail_body keeps; a longer message is read to its end and
\* the rest dropped, so that the session stays in step.
Drained(c) == IF c.left = 0 THEN SyReturns(c, "Failed")
              ELSE cl' = [c EXCEPT !.pc = "drain",
                                   !.need = IF c.left < Capacity THEN c.left ELSE Capacity]
SyFail == /\ svc = "sync" /\ cl.pc = "fail" /\ Filled
          /\ Drained([cl EXCEPT !.out = Append(@, Taken(0, cl.need))])
          /\ Advance(cl.need)
          /\ UNCHANGED <<svc, script, at, ending, slot>>
SyDrain == /\ svc = "sync" /\ cl.pc = "drain" /\ Filled
           /\ Drained([cl EXCEPT !.left = @ - cl.need])
           /\ Advance(cl.need)
           /\ UNCHANGED <<svc, script, at, ending, slot>>

\* stat, stat_v2, send_done and the DONE of a listing or a pull: the fixed
\* part ends the answer, whether or not it holds an errno.
SyLast == /\ svc = "sync" /\ cl.pc = "fixed" /\ Filled
          /\ Message.id \in {"STAT", "OKAY", "DONE"}
          /\ Advance(cl.need)
          /\ SyReturns([cl EXCEPT !.out = Append(@, Taken(SY_HEADER, cl.need - SY_HEADER))], "ok")
          /\ UNCHANGED <<svc, script, at, ending, slot>>

\* list and list_v2: the fixed part is consumed, then the name is read.
SyEntry == /\ svc = "sync" /\ cl.pc = "fixed" /\ Filled
           /\ Message.id = "DENT"
           /\ Goes("name", Message.len)
           /\ Advance(DentSize)
           /\ UNCHANGED <<svc, script, at, ending, slot>>
SyName == /\ svc = "sync" /\ cl.pc = "name" /\ Filled
          /\ cl' = [cl EXCEPT !.pc = "id", !.need = SY_HEADER,
                              !.out = Append(@, Taken(0, cl.need))]
          /\ Advance(cl.need)
          /\ UNCHANGED <<svc, script, at, ending, slot>>

\* recv_next: a chunk is consumed when all of it is there.
SyChunk == /\ svc = "sync" /\ cl.pc = "fixed" /\ Filled
           /\ Message.id = "DATA"
           /\ cl' = [cl EXCEPT !.pc = "id", !.need = SY_HEADER,
                               !.out = Append(@, Taken(SY_HEADER, cl.need - SY_HEADER))]
           /\ Advance(cl.need)
           /\ UNCHANGED <<svc, script, at, ending, slot>>

\* The caller of recv_next drops it where it waits and calls it again: the
\* next call starts at the id, with what has arrived still in the buffer.
\* Dropped inside read_fail_body it has consumed the header of the FAIL, and
\* what is left of the message will be taken for an id.
SyDropped == /\ svc = "sync" /\ cl.op = "recv" /\ cl.pc \in {"id", "fixed", "fail", "drain"}
             /\ ~Filled /\ ~FillTooLong
             /\ Becomes(Compacted)
             /\ cl' = [cl EXCEPT !.pc = "dropped", !.need = SY_HEADER,
                                 !.spoiled = @ \/ cl.pc \in {"fail", "drain"}]
             /\ UNCHANGED <<svc, script, at, ending, slot>>
SyAgain == /\ svc = "sync" /\ cl.pc = "dropped"
           /\ Goes("id", SY_HEADER)
           /\ UNCHANGED <<svc, script, at, ending, buf, head, tail, slot>>

\* quit: the channel is closed whatever becomes of the QUIT.
SyQuit == /\ svc = "sync" /\ cl.pc = "idle"
          /\ slot' = "freed"
          /\ cl' = [cl EXCEPT !.pc = "done"]
          /\ UNCHANGED <<svc, script, at, ending, buf, head, tail>>

SyNext == \/ SyOpen \/ SyRequest \/ SyRefused \/ SySendData \/ SyWriteFails
          \/ SyRead \/ SyReadFails \/ SyTooLong \/ SyId \/ SyFail \/ SyDrain
          \/ SyLast \/ SyEntry \/ SyName \/ SyChunk \/ SyDropped \/ SyAgain \/ SyQuit

------------------------------------------------------------------------------
(* Properties *)

\* What one message of an answer is worth to the caller: the bytes behind
\* its header or fixed part, of a FAIL no more than the buffer holds.
Worth(i) == LET msg == script[i]
                skip == IF msg.id \in {"DENT", "DONE"} /\ msg.size >= DentSize
                        THEN IF msg.id = "DENT" THEN DentSize ELSE SY_HEADER
                        ELSE SY_HEADER
                n == msg.size - skip
            IN [k \in 1..(IF msg.id = "FAIL" /\ n > Capacity THEN Capacity ELSE n) |->
                  Start(i) + skip + k]

\* A request that ends with an answer, also with FAIL, has the bytes of that
\* answer and of no other, and leaves the session exactly behind it,
\* whatever the buffer, the chunks, the calls refused before and the calls of
\* recv_next dropped while they waited for a header or a chunk; only one
\* dropped in the message of a FAIL, or an answer too long for the buffer,
\* spoils the session (read_next_id, read_fail_body, recv_next, list).
AnswersExact ==
    (svc = "sync" /\ ~cl.spoiled /\ cl.res \in {"ok", "Failed"} /\ cl.pc = "idle") =>
        /\ Consumed = Total(script)
        /\ cl.out = [k \in 1..(Len(script) - cl.first + 1) |-> Worth(cl.first + k - 1)]

\* An id that is not expected, or a FAIL taken for it, never comes from a
\* device that keeps to the protocol, unless an answer too long for the
\* buffer, or a recv_next dropped in the message of a FAIL, left the session
\* out of step; and the device's FAIL is never masked by a complaint about
\* the buffer (read_next_id, read_fail_body).
FailNeverMasked ==
    svc = "sync" =>
        /\ cl.res = "UnexpectedId" => cl.spoiled
        /\ cl.pc \in {"fail", "drain"} => ~FillTooLong
=============================================================================
