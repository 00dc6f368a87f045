------------------------------ MODULE OneShot ------------------------------
(***************************************************************************)
(* The services that are one exchange or one stream of frames with a       *)
(* length in front: the calls that read a channel to its end (shell and    *)
(* exec in version 1, abb, reverse) and the app tracker                    *)
(* (libadb/src/base/channel.rs, shell/v1.rs, exec.rs, abb.rs, reverse.rs,  *)
(* track_app.rs).                                                          *)
(***************************************************************************)
EXTENDS ServiceStream, FiniteSets

CONSTANTS OsScripts,      \* the outputs a device may write: messages len, size
          OsCapacities,   \* the lengths of the caller's buffer
          ReplyCap,       \* REPLY_CAP, or the absence of a cap for abb
          TrScripts,      \* snapshots: messages with a flag ok
          TrCapacities,
          HEX_LEN_PREFIX  \* bytes of the length in front of a snapshot

------------------------------------------------------------------------------
(* ReadToEnd: read_to_end into the caller's buffer, read_to_vec through it *)

OsInit == /\ svc = "oneshot"
          /\ script \in OsScripts
          /\ \E n \in OsCapacities: NewBuffer(n)
          /\ at = 0
          /\ ending = "none"
          /\ slot = "none"
          /\ cl = [pc |-> "start", op |-> "none", res |-> "none", out |-> <<>>]

\* v1::exec, exec::exec, abb::exec and the exchanges of reverse.  Their
\* destination is built first: one that does not fit the buffer, holds a
\* NUL or needs a feature the device has not, opens nothing.
OsOpen == /\ svc = "oneshot" /\ cl.pc = "start"
          /\ slot' = "open"
          /\ \E op \in {"to_end", "to_vec"}: cl' = [cl EXCEPT !.pc = "read", !.op = op]
          /\ UNCHANGED <<svc, script, at, ending, buf, head, tail>>
OsNotOpened == /\ svc = "oneshot" /\ cl.pc = "start"
               /\ cl' = [cl EXCEPT !.pc = "done", !.res = "NotOpened"]
               /\ UNCHANGED <<svc, script, at, ending, buf, head, tail, slot>>

\* The channel is closed on every way out of the loop.
OsReturns(c, result) == /\ slot' = "freed"
                        /\ cl' = [c EXCEPT !.pc = "done", !.res = result]

\* read_to_end: bytes into the rest of the buffer.
read_to_end == /\ tail < Capacity
               /\ ReadInto(InPlace)
               /\ cl' = [cl EXCEPT !.out = SubSeq(buf', 1, tail')]
               /\ UNCHANGED slot
\* With the buffer full it goes on into a scratch byte, since only then it
\* can tell an output that fills the buffer from one that does not fit.
read_past_end == /\ tail = Capacity
                 /\ at < Total(script) /\ ending = "none"
                 /\ at' = at + 1
                 /\ OsReturns(cl, "ReceiveBufferFull")
                 /\ UNCHANGED <<ending, buf, head, tail>>
\* read_to_vec: bytes through the buffer, up to the cap.
read_to_vec == /\ ending = "none"
               /\ \E n \in 1..(Total(script) - at):
                    /\ n <= Capacity
                    /\ at' = at + n
                    /\ IF n > ReplyCap - Len(cl.out) THEN OsReturns(cl, "Capped")
                       ELSE /\ cl' = [cl EXCEPT !.out = @ \o [i \in 1..n |-> at + i]]
                            /\ UNCHANGED slot
               /\ UNCHANGED <<ending, buf, head, tail>>

OsRead == /\ svc = "oneshot" /\ cl.pc = "read"
          /\ \/ cl.op = "to_end" /\ (read_to_end \/ read_past_end)
             \/ cl.op = "to_vec" /\ read_to_vec
          /\ UNCHANGED <<svc, script>>

\* The device closes the channel: that is the end of the output.
OsEnds == /\ svc = "oneshot" /\ cl.pc = "read"
          /\ \E e \in Endings: /\ Fails(e)
                               /\ e = "ChannelClosed" => at = Total(script)
                               /\ OsReturns(cl, IF e = "ChannelClosed" THEN "ok" ELSE e)
          /\ UNCHANGED <<svc, script, buf, head, tail>>

OsNext == OsOpen \/ OsNotOpened \/ OsRead \/ OsEnds

------------------------------------------------------------------------------
(* track_app *)

TrInit == /\ svc = "track"
          /\ script \in TrScripts
          /\ \E n \in TrCapacities: NewBuffer(n)
          /\ at = 0
          /\ ending = "none"
          /\ slot = "open"
          /\ cl = [pc |-> "idle", op |-> "none", res |-> "none", out |-> <<>>, need |-> 0]

TrCall == /\ svc = "track" /\ cl.pc = "idle"
          /\ cl' = [cl EXCEPT !.pc = "prefix", !.need = HEX_LEN_PREFIX]
          /\ UNCHANGED <<svc, script, at, ending, buf, head, tail, slot>>

TrReturns(result) == cl' = [cl EXCEPT !.pc = "idle", !.res = result]

\* read_snapshot: the length, which stays in the buffer when it does not
\* parse, then the whole frame, which is consumed even when its message
\* does not decode.
TrPrefix == /\ svc = "track" /\ cl.pc = "prefix" /\ Filled
            /\ LET i == MessageAt(buf[head + 1])
               IN IF i = 0 THEN TrReturns("InvalidLengthPrefix")
                  ELSE cl' = [cl EXCEPT !.pc = "frame", !.need = script[i].size]
            /\ UNCHANGED <<svc, script, at, ending, buf, head, tail, slot>>
TrFrame == /\ svc = "track" /\ cl.pc = "frame" /\ Filled
           /\ Advance(cl.need)
           /\ LET i == MessageAt(buf[head + 1])
              IN cl' = [cl EXCEPT !.pc = "idle", !.out = Append(@, Taken(0, cl.need)),
                                  !.res = IF script[i].ok THEN "ok" ELSE "Decode"]
           /\ UNCHANGED <<svc, script, at, ending, slot>>
TrRead == /\ svc = "track" /\ cl.pc \in {"prefix", "frame"}
          /\ FillReads
          /\ UNCHANGED <<svc, script, slot, cl>>
TrReadFails == /\ svc = "track" /\ cl.pc \in {"prefix", "frame"}
               /\ \E e \in Endings: FillFails(e) /\ TrReturns(e)
               /\ UNCHANGED <<svc, script, slot>>
TrTooLong == /\ svc = "track" /\ cl.pc = "frame" /\ FillTooLong
             /\ TrReturns("ReceiveBufferFull")
             /\ UNCHANGED <<svc, script, at, ending, buf, head, tail, slot>>
\* The caller drops read_snapshot where it waits.
TrDropped == /\ svc = "track" /\ cl.pc \in {"prefix", "frame"} /\ ~Filled /\ ~FillTooLong
             /\ Becomes(Writable)
             /\ cl' = [cl EXCEPT !.pc = "idle"]
             /\ UNCHANGED <<svc, script, at, ending, slot>>
TrClose == /\ svc = "track" /\ cl.pc = "idle"
           /\ slot' = "freed"
           /\ cl' = [cl EXCEPT !.pc = "done"]
           /\ UNCHANGED <<svc, script, at, ending, buf, head, tail>>

TrNext == \/ TrCall \/ TrPrefix \/ TrFrame \/ TrRead \/ TrReadFails
          \/ TrTooLong \/ TrDropped \/ TrClose

------------------------------------------------------------------------------
(* Properties *)

\* A call that reads a channel to its end returns all of the output or an
\* error, never a part: an output as long as the buffer, or the cap, is
\* returned, and one a byte longer is not (read_to_end, read_to_vec).
AllOrNothing ==
    (svc = "oneshot" /\ cl.pc = "done" /\ cl.res # "NotOpened") =>
        LET n == Total(script)
            fits == IF cl.op = "to_end" THEN n <= Capacity ELSE n <= ReplyCap
        IN /\ cl.res = "ok" => fits /\ cl.out = [i \in 1..n |-> i]
           /\ cl.res \in {"ReceiveBufferFull", "Capped"} => ~fits

\* The tracker's snapshots come out whole and in order, one that does not
\* decode costs only itself, and a call dropped anywhere costs nothing
\* (TrackApp::read_snapshot).
SnapshotsExact ==
    svc = "track" =>
        /\ cl.out = [k \in DOMAIN cl.out |->
                       [i \in 1..script[k].size |-> Start(k) + i]]
        /\ cl.res # "InvalidLengthPrefix"
        /\ Consumed = Start(Len(cl.out) + 1)
=============================================================================
