------------------------------ MODULE TlsStream ------------------------------
(***************************************************************************)
(* TLS over a socket (transport/tls): a MaybeTls is plain until start_tls, *)
(* which runs the handshake; the session it leaves is used by one task, or *)
(* split into a read half and a write half that share the engine behind a  *)
(* lock.  rustls is external: an engine that takes records in, holds the   *)
(* plaintext they carried, and queues records to go out, some of them      *)
(* answers to what came in.                                                *)
(*                                                                         *)
(* A record going out is RecordLen cells long, so that a socket may take a *)
(* part of it.  Every call may be dropped wherever it waits.               *)
(***************************************************************************)
EXTENDS Integers, Sequences, SequencesExt, FiniteSets

CONSTANTS
    TlsScripts,   \* what the device sends: sequences of records
    RecordLen,    \* cells in a record
    QUEUE_LIMIT,  \* cells queued beyond which a write sends first
    PlainLimit,   \* records of plaintext the engine holds before it takes no more
    MaxWrites,    \* bound: calls of write, flush and shutdown
    MaxDrops      \* bound: calls dropped

VARIABLES
    tls,     \* MaybeTls: its state, the engine, the buffers
    tls_rd,  \* the read under way
    tls_wr,  \* the write, flush, shutdown or start_tls under way
    tls_net  \* the socket and the device

tlsVars == <<tls, tls_rd, tls_wr, tls_net>>

(* A record of the device: a handshake message, data, a key update that is *)
(* to be answered, the end of its data, one rustls rejects, or a fatal     *)
(* alert.                                                                  *)
DeviceRecords == {"hello", "data", "update", "close_notify", "bad", "alert"}

NewEngine == [hello |-> TRUE, plain |-> <<>>, ended |-> FALSE, failed |-> FALSE,
              out |-> <<"client_hello">>, made |-> <<"client_hello">>, taken |-> 0]
Queued(e, r) == [e EXCEPT !.out = Append(@, r), !.made = Append(@, r)]

(* process_new_packets, for one record: the k-th the device sent.          *)
Process(e, r) ==
    LET t == [e EXCEPT !.taken = @ + 1]
    IN CASE r = "hello" -> Queued([t EXCEPT !.hello = FALSE], "finished")
         [] r = "data" -> [t EXCEPT !.plain = Append(@, t.taken)]
         [] r = "update" -> Queued(t, "reply")
         [] r = "close_notify" -> [t EXCEPT !.ended = TRUE]
         [] r = "bad" -> Queued([t EXCEPT !.failed = TRUE], "alert")
         [] OTHER -> [t EXCEPT !.failed = TRUE]

TlsStarts == [script : TlsScripts, sent : {0}, up : {TRUE}, cells : {<<>>}, drops : {0}]
TlsInit ==
    /\ tls = [state |-> "plain", split |-> FALSE, engine |-> NewEngine, rx |-> <<>>,
              eof |-> FALSE, tx |-> <<>>, failed |-> FALSE, closed |-> FALSE]
    /\ tls_rd = [pc |-> "idle", got |-> <<>>, res |-> "none"]
    /\ tls_wr = [pc |-> "idle", op |-> "none", log |-> <<>>]
    /\ tls_net \in TlsStarts

Records(rs) == [k \in 1..(Len(rs) * RecordLen) |->
                  <<rs[(k - 1) \div RecordLen + 1], (k - 1) % RecordLen>>]

------------------------------------------------------------------------------
(* harvest, feed, send_queue *)

(* Everything the engine has to say goes behind the queue.                 *)
harvest(t) == [t EXCEPT !.tx = @ \o Records(t.engine.out), !.engine.out = <<>>]

(* The engine takes what was read, record by record, until it fails, has   *)
(* all it wants, or has seen the end; what it refuses stays.               *)
feed(t) ==
    LET Step(acc, r) ==
          IF acc.e.failed \/ acc.e.ended \/ Len(acc.e.plain) >= PlainLimit
          THEN [acc EXCEPT !.left = Append(@, r)]
          ELSE [acc EXCEPT !.e = Process(@, r)]
        end == FoldLeft(Step, [e |-> t.engine, left |-> <<>>], t.rx)
    IN [t EXCEPT !.engine = end.e, !.rx = end.left, !.failed = @ \/ end.e.failed]

(* One write of send_queue: the socket takes some cells, which leave the   *)
(* queue only then.  (Several at once are several of these steps.)         *)
Sent(n) == /\ tls_net' = [tls_net EXCEPT !.cells = @ \o SubSeq(tls.tx, 1, n)]
           /\ tls' = [tls EXCEPT !.tx = SubSeq(@, n + 1, Len(@))]

------------------------------------------------------------------------------
(* Writing *)

(* One task has the session at a time until it is split.                   *)
Alone == tls.split \/ (tls_rd.pc = "idle" /\ tls_wr.pc = "idle")
WrReturns(res) ==
    tls_wr' = [tls_wr EXCEPT !.pc = "idle", !.log = Append(@, [op |-> tls_wr.op, res |-> res])]

StartTls == /\ tls.state = "plain" /\ tls_wr.pc = "idle"
            /\ tls_wr' = [tls_wr EXCEPT !.pc = "hs", !.op = "start_tls"]
            /\ tls' = [tls EXCEPT !.state = "broken"]
            /\ UNCHANGED <<tls_rd, tls_net>>

(* The head of the handshake's loop, and its end: what the engine has is   *)
(* sent either way.                                                        *)
Handshake ==
    /\ tls_wr.pc = "hs"
    /\ tls' = harvest(tls)
    /\ tls_wr' = [tls_wr EXCEPT !.pc = IF tls.engine.hello THEN "hs_send" ELSE "hs_last"]
    /\ UNCHANGED <<tls_rd, tls_net>>

HandshakeFails(res) == WrReturns(res) /\ UNCHANGED tls

(* Sent: the bytes held are fed, or more are read.                         *)
HandshakeOn ==
    /\ tls_wr.pc = "hs_send" /\ tls.tx = <<>>
    /\ IF tls.rx # <<>>
       THEN LET t == feed(tls)
            IN IF t.failed
               THEN tls' = harvest(t) /\ tls_wr' = [tls_wr EXCEPT !.pc = "alert"]
               ELSE IF t.rx = tls.rx THEN HandshakeFails("HandshakeClosed")
               ELSE tls' = t /\ tls_wr' = [tls_wr EXCEPT !.pc = "hs"]
       ELSE IF tls.eof THEN HandshakeFails("HandshakeClosed")
       ELSE tls_wr' = [tls_wr EXCEPT !.pc = "hs_fill"] /\ UNCHANGED tls
    /\ UNCHANGED <<tls_rd, tls_net>>

(* The session takes the place of the socket only here.                    *)
HandshakeEnds ==
    /\ tls_wr.pc = "hs_last" /\ tls.tx = <<>>
    /\ tls' = [tls EXCEPT !.state = "tls"]
    /\ WrReturns("ok")
    /\ UNCHANGED <<tls_rd, tls_net>>

(* split: the halves take over what the session holds.                     *)
Split == /\ tls.state = "tls" /\ ~tls.split /\ Alone
         /\ tls' = [tls EXCEPT !.split = TRUE]
         /\ UNCHANGED <<tls_rd, tls_wr, tls_net>>

Full == Len(tls.tx) >= QUEUE_LIMIT
Refused == tls.closed
(* A call of write, flush or shutdown.  One task: a session that failed    *)
(* says so first.  The write half: the queue is looked at first, and the   *)
(* failure under the lock.                                                 *)
WrStart(op) ==
    /\ tls.state # "plain" /\ tls_wr.pc = "idle" /\ Alone /\ Len(tls_wr.log) < MaxWrites
    /\ LET at(pc) == tls_wr' = [tls_wr EXCEPT !.pc = pc, !.op = op]
           ends(res) == tls_wr' = [tls_wr EXCEPT !.op = op,
                                     !.log = Append(@, [op |-> op, res |-> res])]
       IN CASE tls.state = "broken" -> /\ ends(IF op = "shutdown" THEN "ok" ELSE "NotAvailable")
                                       /\ UNCHANGED tls
            [] op = "write" /\ Refused -> ends("Closed") /\ UNCHANGED tls
            [] op = "write" /\ Full /\ (tls.split \/ ~tls.failed) ->
                 at("make_room") /\ UNCHANGED tls
            [] OTHER -> at("lock") /\ tls' = [tls EXCEPT !.closed = @ \/ op = "shutdown"]
    /\ UNCHANGED <<tls_rd, tls_net>>

MadeRoom == /\ tls_wr.pc = "make_room" /\ tls.tx = <<>>
            /\ tls_wr' = [tls_wr EXCEPT !.pc = "lock"]
            /\ UNCHANGED <<tls, tls_rd, tls_net>>

(* What the call does to the engine.                                       *)
Does(e, op) == CASE op = "write" -> Queued(e, "data")
                 [] op = "shutdown" /\ ~Contains(e.made, "close_notify") ->
                      Queued(e, "close_notify")
                 [] OTHER -> e
(* Faulty form: a failed session is left without a word.                   *)
WrLockedSilent ==
    /\ tls_wr.pc = "lock"
    /\ IF tls.failed THEN UNCHANGED tls /\ WrReturns("Tls")
       ELSE /\ tls' = harvest([tls EXCEPT !.engine = Does(@, tls_wr.op)])
            /\ IF tls_wr.op = "write" THEN WrReturns("ok")
               ELSE tls_wr' = [tls_wr EXCEPT !.pc = "drain"]
    /\ UNCHANGED <<tls_rd, tls_net>>
(* TlsWriteHalf::queue, write_plain, failure: nothing is written once the  *)
(* session has failed, and what the engine has goes out in any case.       *)
WrLocked ==
    /\ tls_wr.pc = "lock"
    /\ IF tls.failed
       THEN tls' = harvest(tls) /\ tls_wr' = [tls_wr EXCEPT !.pc = "alert"]
       ELSE /\ tls' = harvest([tls EXCEPT !.engine = Does(@, tls_wr.op)])
            /\ IF tls_wr.op = "write" THEN WrReturns("ok")
               ELSE tls_wr' = [tls_wr EXCEPT !.pc = "drain"]
    /\ UNCHANGED <<tls_rd, tls_net>>

(* The queue is empty and the socket flushed, or the socket fails: the     *)
(* failure of the session is told in any case.                             *)
Draining == {"hs_send", "hs_last", "make_room", "drain", "alert"}
WrSends == /\ tls_wr.pc \in Draining /\ tls_net.up /\ tls.tx # <<>>
           /\ Sent(1)
           /\ UNCHANGED <<tls_rd, tls_wr>>
WrDrained == /\ tls_wr.pc \in {"drain", "alert"} /\ tls_net.up /\ tls.tx = <<>>
             /\ WrReturns(IF tls_wr.pc = "alert" THEN "Tls" ELSE "ok")
             /\ UNCHANGED <<tls, tls_rd, tls_net>>
WrSocketFails == /\ tls_wr.pc \in Draining
                 /\ tls_net' = [tls_net EXCEPT !.up = FALSE]
                 /\ WrReturns(IF tls_wr.pc = "alert" THEN "Tls" ELSE "Io")
                 /\ UNCHANGED <<tls, tls_rd>>

------------------------------------------------------------------------------
(* Reading *)

RdReturns(res) == tls_rd' = [tls_rd EXCEPT !.pc = "idle", !.res = res]

RdStart == /\ tls.state # "plain" /\ tls_wr.op # "none" /\ tls_rd.pc = "idle" /\ Alone
           /\ tls_rd.res \in {"none", "ok"}
           /\ IF tls.state = "broken"
              THEN tls_wr.pc = "idle" /\ RdReturns("NotAvailable")
              ELSE tls_rd' = [tls_rd EXCEPT !.pc = "take"]
           /\ UNCHANGED <<tls, tls_wr, tls_net>>

(* Plaintext first; then the failure; then what was read; then the end.    *)
RdTake ==
    /\ tls_rd.pc = "take"
    /\ LET e == tls.engine
       IN IF e.plain # <<>>
          THEN /\ tls_rd' = [tls_rd EXCEPT !.pc = "idle", !.res = "ok",
                                           !.got = Append(@, Head(e.plain))]
               /\ tls' = [tls EXCEPT !.engine.plain = Tail(@)]
          ELSE /\ CASE e.ended -> RdReturns("Eof")
                    [] tls.failed -> RdReturns("Tls")
                    [] tls.rx # <<>> -> tls_rd' = [tls_rd EXCEPT !.pc = "feed"]
                    [] tls.eof -> RdReturns("Eof")
                    [] OTHER -> tls_rd' = [tls_rd EXCEPT !.pc = "fill"]
               /\ UNCHANGED tls
    /\ UNCHANGED <<tls_wr, tls_net>>

RdFeed == /\ tls_rd.pc = "feed"
          /\ LET t == feed(tls)
             IN IF t.rx = tls.rx /\ ~t.failed THEN RdReturns("Eof") /\ UNCHANGED tls
                ELSE tls' = t /\ tls_rd' = [tls_rd EXCEPT !.pc = "take"]
          /\ UNCHANGED <<tls_wr, tls_net>>

(* Inbound::fill, for a read or for the handshake.  The device's answer to *)
(* the client's hello comes after it.                                      *)
TlsComing == Len(tls_net.script) - tls_net.sent
Filling == tls_wr.pc = "hs_fill" \/ tls_rd.pc = "fill"
TlsFilled == IF tls_rd.pc = "fill" THEN tls_rd' = [tls_rd EXCEPT !.pc = "take"] /\ UNCHANGED tls_wr
          ELSE tls_wr' = [tls_wr EXCEPT !.pc = "hs"] /\ UNCHANGED tls_rd
Fill == /\ Filling /\ tls_net.up
        /\ \E n \in 1..TlsComing :
             /\ tls' = [tls EXCEPT !.rx = @ \o SubSeq(tls_net.script, tls_net.sent + 1,
                                                      tls_net.sent + n)]
             /\ tls_net' = [tls_net EXCEPT !.sent = @ + n]
        /\ TlsFilled
(* Faulty form: the end of the stream is not kept.                         *)
FillEofForgets == Filling /\ tls_net.up /\ UNCHANGED <<tls, tls_net>> /\ TlsFilled
FillEof == /\ Filling /\ tls_net.up
           /\ tls' = [tls EXCEPT !.eof = TRUE]
           /\ UNCHANGED tls_net
           /\ TlsFilled
FillFails == /\ Filling
             /\ tls_net' = [tls_net EXCEPT !.up = FALSE]
             /\ IF tls_rd.pc = "fill" THEN RdReturns("Io") /\ UNCHANGED tls_wr
                ELSE WrReturns("Io") /\ UNCHANGED tls_rd
             /\ UNCHANGED tls

(* A call is dropped where it waits: for the socket, or for the lock.      *)
Waits(pc) == pc \in Draining \cup {"hs_fill", "fill"}
LockWaits(pc) == tls.split /\ pc \in {"lock", "take", "feed"}
DropRead == /\ Waits(tls_rd.pc) \/ LockWaits(tls_rd.pc)
            /\ tls_net.drops < MaxDrops
            /\ tls_rd' = [tls_rd EXCEPT !.pc = "idle"]
            /\ tls_net' = [tls_net EXCEPT !.drops = @ + 1]
            /\ UNCHANGED <<tls, tls_wr>>
DropWrite == /\ Waits(tls_wr.pc) \/ LockWaits(tls_wr.pc)
             /\ tls_net.drops < MaxDrops
             /\ tls_net' = [tls_net EXCEPT !.drops = @ + 1]
             /\ WrReturns("dropped")
             /\ UNCHANGED <<tls, tls_rd>>

TlsReads == RdTake \/ RdFeed \/ (tls_rd.pc = "fill" /\ (Fill \/ FillEof \/ FillFails))
TlsWrites == \/ Handshake \/ HandshakeOn \/ HandshakeEnds \/ MadeRoom \/ WrLocked
             \/ WrSends \/ WrDrained \/ WrSocketFails
             \/ (tls_wr.pc = "hs_fill" /\ (Fill \/ FillEof \/ FillFails))
TlsNext == \/ StartTls \/ Split \/ RdStart \/ TlsReads \/ TlsWrites \/ DropRead \/ DropWrite
           \/ \E op \in {"write", "flush", "shutdown"} : WrStart(op)

------------------------------------------------------------------------------
(* Properties *)

TlsTypeOK ==
    /\ tls.state \in {"plain", "tls", "broken"}
    /\ tls_net.script \in Seq(DeviceRecords)
    /\ tls_rd.pc \in {"idle", "take", "feed", "fill"}
    /\ tls_wr.pc \in {"idle", "hs", "hs_fill", "lock"} \cup Draining
    /\ Waits(tls_rd.pc) /\ Waits(tls_wr.pc) => tls.split

(* The data of the device is read in order, none twice and none left out,  *)
(* whatever reads were dropped and whenever the session was split; and the *)
(* end or the failure is told only when all the data ahead of it was read. *)
DataBefore(n) == SelectSeq([i \in 1..n |-> i], LAMBDA i : tls_net.script[i] = "data")
TlsReadExact ==
    /\ tls_rd.got \o tls.engine.plain = DataBefore(tls.engine.taken)
    /\ tls_rd.res \in {"Tls", "Eof"} /\ tls.state = "tls" => tls.engine.plain = <<>>
    /\ tls_rd.res = "Tls" => tls.failed
    /\ tls_rd.res = "Eof" => tls.eof \/ tls.engine.ended

(* What the engine made goes to the socket once and in order: no dropped   *)
(* call, failed socket or split loses a cell, cuts a record or repeats one,*)
(* so the device can decrypt all it gets.                                  *)
TlsCells == tls_net.cells \o tls.tx \o Records(tls.engine.out) = Records(tls.engine.made)

(* A write that was dropped has written nothing, and one that returned has *)
(* written once: the data in the stream is what the callers were told.     *)
Count(s, P(_)) == Cardinality({i \in DOMAIN s : P(s[i])})
WritesReported ==
    Count(tls.engine.made, LAMBDA r : r = "data")
      = Count(tls_wr.log, LAMBDA c : c = [op |-> "write", res |-> "ok"])

(* After the client said that it is done no data follows.                  *)
NothingAfterClose ==
    \A i, j \in DOMAIN tls.engine.made :
        tls.engine.made[i] = "close_notify" /\ tls.engine.made[j] = "data" => j < i

(* A session that failed never takes data again, and a call that tells of  *)
(* the failure has sent the engine's alert first, if the socket took it.   *)
(* Later calls tell of it too, but for a write of the write half: its full *)
(* queue goes out first, and the socket may fail there.                    *)
LaterThan(i) == i..Len(tls_wr.log)
FailureTold ==
    \A i \in DOMAIN tls_wr.log :
        /\ tls_wr.log[i].res = "Tls" /\ tls_net.up /\ tls_wr.pc = "idle" /\ i = Len(tls_wr.log) =>
             tls_net.cells = Records(tls.engine.made)
        /\ tls_wr.log[i].res = "Tls" /\ tls.state = "tls" =>
             \A j \in LaterThan(i) :
                 \/ tls_wr.log[j].res \in {"Tls", "dropped"}
                 \/ tls_wr.log[j].op = "write"
                    /\ tls_wr.log[j].res \in IF tls.split THEN {"Closed", "Io"} ELSE {"Closed"}

(* What the documentation of MaybeTls says without the exception: once the *)
(* session has failed every later write, flush and shutdown returns that   *)
(* same error, except a write after shutdown.                              *)
FailureSticks ==
    \A i \in DOMAIN tls_wr.log : tls_wr.log[i].res = "Tls" /\ tls.state = "tls" =>
        \A j \in LaterThan(i) :
            \/ tls_wr.log[j].res \in {"Tls", "dropped"}
            \/ tls_wr.log[j].op = "write" /\ tls_wr.log[j].res = "Closed"

(* A session is used only after a handshake that came to its end: one that *)
(* failed or was dropped leaves nothing usable.                            *)
OnlyWhole ==
    tls.state = "tls" => /\ ~tls.engine.hello
                         /\ tls_wr.log[1] = [op |-> "start_tls", res |-> "ok"]

(* Writers cannot fill memory: the data queued is bounded.                 *)
QueueBounded ==
    Count(tls.tx, LAMBDA c : c[1] = "data") < QUEUE_LIMIT + RecordLen
=============================================================================
