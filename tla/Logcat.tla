------------------------------ MODULE Logcat ------------------------------
(***************************************************************************)
(* The binary log reader (libadb/src/logcat.rs, logcat/format.rs): log     *)
(* entries inside the stdout frames of the shell protocol, put together    *)
(* in the caller's buffer.  An entry may span frames, with stderr frames   *)
(* in between, and a frame may span reads; the bytes of the entry under    *)
(* construction, acc, and the bytes not yet sorted into frames live in the *)
(* same buffer, acc first.                                                 *)
(*                                                                         *)
(* An entry of the device is a run of stdout bytes; its first PREFIX bytes *)
(* tell its length.  Stdout bytes behind the last entry are text logcat    *)
(* prints in place of entries.                                             *)
(***************************************************************************)
EXTENDS ShellV2, FiniteSets

CONSTANTS PREFIX,        \* bytes of an entry that hold its length
          EntryLens,     \* the lengths of the entries the device logs, in order
          LgScripts,     \* the scripts of frames those entries may come in
          LgCapacities   \* the lengths of the caller's buffer

LongestEntry == CHOOSE n \in Range(EntryLens): \A k \in Range(EntryLens): k <= n

\* Logcat::new, on the channel open or dump opened.
LgInit == /\ svc = "logcat"
          /\ script \in LgScripts
          /\ \E n \in LgCapacities: NewBuffer(n)
          /\ at = 0
          /\ ending = "none"
          /\ slot = "none"
          /\ cl = [pc |-> "start", op |-> "none", res |-> "none", out |-> <<>>,
                   acc_start |-> 0, acc_end |-> 0, frame_id |-> "stdout",
                   frame_left |-> 0, end |-> "NotYet"]

------------------------------------------------------------------------------
(* The stream as the log it carries *)

\* The positions of the log's bytes among the first n bytes of the stream.
LogBytes(n) == LET ps == SelectSeq(Payloads(n), LAMBDA b: b[1] = "stdout")
               IN [i \in DOMAIN ps |-> ps[i][2]]
EntryStart(k) == FoldSeq(LAMBDA n, m: n + m, 0, SubSeq(EntryLens, 1, k - 1))
Entry(k, log) == SubSeq(log, EntryStart(k) + 1, EntryStart(k) + EntryLens[k])
\* The whole entries of a log.
Whole(log) == {k \in DOMAIN EntryLens: EntryStart(k) + EntryLens[k] <= Len(log)}

------------------------------------------------------------------------------
(* Reading an entry *)

Acc == SubSeq(buf, cl.acc_start + 1, cl.acc_end)

\* The length the entry that starts with byte p claims, 0 when no entry
\* starts there.
ClaimedBy(p) == LET before == Len(LogBytes(p - 1))
                    ks == {k \in DOMAIN EntryLens: EntryStart(k) = before}
                IN IF ks = {} THEN 0 ELSE EntryLens[CHOOSE k \in ks: TRUE]

\* parse_entry: what stands at the front of acc is no entry's header.
InvalidHeader == Len(Acc) >= PREFIX /\ ClaimedBy(Acc[1]) = 0
\* parse_entry: the length of the whole entry at the front of acc, or 0.
parsed_len == IF Len(Acc) < PREFIX THEN 0
               ELSE LET total == ClaimedBy(Acc[1])
                    IN IF Len(Acc) < total THEN 0 ELSE total

LgIdle(c) == [c EXCEPT !.pc = IF c.op = "dump" THEN "read" ELSE "idle"]

\* open and dump, which reads until the log ends.
LgOpen == /\ svc = "logcat" /\ cl.pc = "start"
          /\ slot' = "open"
          /\ \E op \in {"none", "dump"}: cl' = LgIdle([cl EXCEPT !.op = op])
          /\ UNCHANGED <<svc, script, at, ending, buf, head, tail>>

LgReadCall == /\ svc = "logcat" /\ cl.pc = "idle"
              /\ cl' = [cl EXCEPT !.pc = "read"]
              /\ UNCHANGED <<svc, script, at, ending, buf, head, tail, slot>>

\* take_entry
LgTake == /\ svc = "logcat" /\ cl.pc = "read"
          /\ parsed_len > 0
          /\ cl' = LgIdle([cl EXCEPT !.acc_start = @ + parsed_len,
                                     !.out = Append(@, SubSeq(Acc, 1, parsed_len))])
          /\ UNCHANGED <<svc, script, at, ending, buf, head, tail, slot>>

\* How read_entry fails; dump takes the end of the log for success, and
\* closes the channel on every way out.
LgReturns(c, result) ==
    IF c.op = "dump"
    THEN /\ slot' = "freed"
         /\ cl' = [c EXCEPT !.pc = "done", !.res = result]
    ELSE /\ cl' = [c EXCEPT !.pc = "idle", !.res = result]
         /\ UNCHANGED slot

\* take_entry fails, and goes on failing: acc stays as it is.
LgInvalid == /\ svc = "logcat" /\ cl.pc = "read" /\ InvalidHeader
             /\ LgReturns(cl, "InvalidHeader")
             /\ UNCHANGED <<svc, script, at, ending, buf, head, tail>>

\* The verdict on a log that has ended with no whole entry left in acc: a
\* status other than 0 is told as it is, whatever acc holds.
Verdict == CASE cl.end = "ClosedWithoutExit" -> "ClosedWithoutExit"
             [] cl.end = "Failed" -> "Exited"
             [] cl.end = "Exited" /\ cl.acc_start < cl.acc_end -> "TruncatedEntry"
             [] OTHER -> "ChannelClosed"

NoEntry == svc = "logcat" /\ cl.pc = "read" /\ parsed_len = 0 /\ ~InvalidHeader

LgEndsExited == /\ NoEntry /\ cl.end = "Exited"           \* the faulty form
                /\ LgReturns(cl, Verdict)
                /\ UNCHANGED <<svc, script, at, ending, buf, head, tail>>
LgEnds == /\ NoEntry /\ cl.end # "NotYet"
          /\ LgReturns(cl, Verdict)
          /\ UNCHANGED <<svc, script, at, ending, buf, head, tail>>

Sorting == NoEntry /\ cl.end = "NotYet"

\* The exit status is there, 0 or another.
LgExit == /\ Sorting
          /\ cl.frame_left > 0 /\ head < tail /\ cl.frame_id = "exit"
          /\ \E end \in {"Exited", "Failed"}: cl' = [cl EXCEPT !.end = end]
          /\ UNCHANGED <<svc, script, at, ending, buf, head, tail, slot>>

\* The bytes of the frame that have arrived: stdout bytes join acc, where
\* they are or behind it; those of stderr only pass.
Moved(n) == [i \in 1..Capacity |->
               IF cl.acc_end < head /\ i > cl.acc_end /\ i <= cl.acc_end + n
               THEN buf[head + (i - cl.acc_end)] ELSE buf[i]]
LgSort == /\ Sorting
          /\ cl.frame_left > 0 /\ head < tail /\ cl.frame_id # "exit"
          /\ LET n == IF tail - head < cl.frame_left THEN tail - head ELSE cl.frame_left
             IN /\ head' = head + n
                /\ IF cl.frame_id = "stderr"
                   THEN /\ cl' = [cl EXCEPT !.frame_left = @ - n]
                        /\ UNCHANGED buf
                   ELSE IF cl.acc_start = cl.acc_end
                   THEN /\ cl' = [cl EXCEPT !.frame_left = @ - n, !.acc_start = head,
                                            !.acc_end = head + n]
                        /\ UNCHANGED buf
                   ELSE /\ cl' = [cl EXCEPT !.frame_left = @ - n, !.acc_end = @ + n]
                        /\ buf' = Moved(n)
          /\ UNCHANGED <<svc, script, at, ending, tail, slot>>

\* The header of the next frame, which must be one of a log: an exit frame
\* without its code and a frame of any other id fail, call after call.
LgHeader == /\ Sorting
            /\ cl.frame_left = 0 /\ tail - head >= HEADER_SIZE
            /\ LET f == parse_header
               IN IF f.id \notin {"stdout", "stderr", "exit"} \/ (f.id = "exit" /\ f.len = 0)
                  THEN LgReturns(cl, "Protocol") /\ UNCHANGED head
                  ELSE /\ head' = head + HEADER_SIZE
                       /\ cl' = [cl EXCEPT !.frame_id = f.id, !.frame_left = f.len]
                       /\ UNCHANGED slot
            /\ UNCHANGED <<svc, script, at, ending, buf, tail>>

LgCompactedAcc ==                                         \* the faulty form
    LET a == cl.acc_end - cl.acc_start
        front == [i \in 1..Capacity |-> IF i <= a THEN buf[cl.acc_start + i] ELSE buf[i]]
    IN [buf |-> front, head |-> head, tail |-> tail]
\* compact: acc to the front of the buffer, the unsorted bytes behind it.
LgCompacted ==
    LET a == cl.acc_end - cl.acc_start
        front == [i \in 1..Capacity |-> IF i <= a THEN buf[cl.acc_start + i] ELSE buf[i]]
    IN [buf |-> [i \in 1..Capacity |-> IF i > a /\ i <= a + tail - head
                                       THEN front[head + (i - a)] ELSE front[i]],
        head |-> a, tail |-> a + tail - head]

\* fill, with the move of compact when the buffer is full to its end.
LgRoom == IF tail = Capacity THEN LgCompacted ELSE InPlace
LgMoved == IF tail = Capacity
           THEN [cl EXCEPT !.acc_start = 0, !.acc_end = @ - cl.acc_start] ELSE cl

NeedsBytes == /\ Sorting
              /\ cl.frame_left > 0 => head = tail
              /\ cl.frame_left = 0 => tail - head < HEADER_SIZE

LgFill == /\ NeedsBytes
          /\ ReadInto(LgRoom)
          /\ cl' = LgMoved
          /\ UNCHANGED <<svc, script, slot>>

\* The read fails: a channel the device closed ends the log without a
\* status; a connection that ended, or an entry too long for the buffer,
\* fails the call.
LgFillFails == /\ NeedsBytes
               /\ Becomes(LgRoom)
               /\ IF LgRoom.tail = Capacity
                  THEN /\ LgReturns(LgMoved, "ReceiveBufferFull")
                       /\ UNCHANGED <<at, ending>>
                  ELSE \E e \in Endings:
                         /\ Fails(e)
                         /\ IF e = "Io" THEN LgReturns(LgMoved, e)
                            ELSE /\ cl' = [LgMoved EXCEPT !.end = "ClosedWithoutExit"]
                                 /\ UNCHANGED slot
               /\ UNCHANGED <<svc, script>>

\* The caller drops read_entry where it waits for the channel.
LgDropped == /\ NeedsBytes /\ cl.op = "none"
             /\ LgRoom.tail < Capacity
             /\ Becomes(LgRoom)
             /\ cl' = [LgMoved EXCEPT !.pc = "idle"]
             /\ UNCHANGED <<svc, script, at, ending, slot>>

LgClose == /\ svc = "logcat" /\ cl.pc = "idle"
           /\ Freed("closed")
           /\ UNCHANGED <<svc, script, at, ending, buf, head, tail>>

LgNext == \/ LgOpen \/ LgReadCall \/ LgTake \/ LgInvalid \/ LgEnds \/ LgExit \/ LgSort
          \/ LgHeader \/ LgFill \/ LgFillFails \/ LgDropped \/ LgClose

------------------------------------------------------------------------------
(* Properties *)

\* The entries handed out are the device's entries, first to last, each
\* whole, however frames, reads and dropped calls cut them (take_entry,
\* compact, read_entry).
EntriesExact ==
    svc = "logcat" =>
        LET log == LogBytes(Total(script))
        IN cl.out = [k \in 1..Len(cl.out) |-> Entry(k, log)]

\* Nothing is left behind: a log that ends with success has given out every
\* byte logcat wrote before its exit status, and the status was there, and
\* 0.  A header is called invalid only for text, behind every entry
\* (End, Logcat::read_entry, take_entry, dump).
LogWhole ==
    svc = "logcat" =>
        /\ cl.res = "ChannelClosed" =>
             \E i \in DOMAIN script:
                /\ script[i].id = "exit" /\ cl.end = "Exited"
                /\ \A j \in 1..(i - 1): script[j].id # "exit"
                /\ Cardinality(Whole(LogBytes(Start(i)))) = Len(cl.out)
                /\ EntryStart(Len(cl.out) + 1) = Len(LogBytes(Start(i)))
        /\ cl.res = "InvalidHeader" =>
             Len(cl.out) = Len(EntryLens)
             /\ EntryStart(Len(EntryLens) + 1) < Len(LogBytes(Total(script)))

\* A buffer HEADER_SIZE - 1 bytes longer than the longest entry is enough:
\* a frame header that arrives in the middle of an entry always finds room
\* (Logcat::new, fill).
LogcatBufferServes ==
    (svc = "logcat" /\ Capacity >= LongestEntry + HEADER_SIZE - 1) =>
        cl.res # "ReceiveBufferFull"
=============================================================================
