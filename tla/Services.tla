------------------------------ MODULE Services ------------------------------
(***************************************************************************)
(* The service clients, each over its own channel, and the formats they    *)
(* speak: a behaviour runs one of them, chosen at its start.               *)
(***************************************************************************)
EXTENDS Logcat, SyncSession, OneShot, Formats

SvInit == ShInit \/ LgInit \/ SyInit \/ OsInit \/ TrInit \/ FmInit
SvNext == ShNext \/ LgNext \/ SyNext \/ OsNext \/ TrNext \/ FmArrive

\* The steps libadb takes by itself once a call has been made, given that
\* the device goes on writing or ends the channel.
Resting == {"idle", "start", "done", "dropped"}
Proceeds ==
    /\ cl.pc \notin Resting
    /\ CASE svc = "shell" -> ShSend \/ ShSendFails \/ ShDecode \/ ShRead \/ ShReadFails
         [] svc = "logcat" -> \/ LgTake \/ LgInvalid \/ LgEnds \/ LgExit \/ LgSort \/ LgHeader
                              \/ LgFill \/ LgFillFails
         [] svc = "sync" -> \/ SySendData \/ SyRead \/ SyReadFails \/ SyTooLong \/ SyId
                            \/ SyFail \/ SyDrain \/ SyLast \/ SyEntry \/ SyName \/ SyChunk
         [] svc = "oneshot" -> OsRead \/ OsEnds
         [] OTHER -> TrPrefix \/ TrFrame \/ TrRead \/ TrReadFails \/ TrTooLong
SvSpec == SvInit /\ [][SvNext]_svars /\ WF_svars(Proceeds)

------------------------------------------------------------------------------
(* The instance *)

F(id, n) == [id |-> id, len |-> n, size |-> HEADER_SIZE + n]
FrameScripts == {<<F("stdout", 3), F("exit", 1)>>, <<F("stderr", 1), F("exit", 0)>>,
                 <<F("stdout", 1), F("stderr", 0), F("exit", 1)>>,
                 <<F("other", 2), F("stdout", 3)>>, <<F("exit", 3), F("stderr", 1)>>}

\* Two log entries, whole or not and once with text behind them, cut into
\* frames in several ways, with a stderr frame anywhere among them and a good
\* or a bad frame at the end.
SomeEntries == <<3, 2>>
Cuts == {<<3, 2>>, <<5>>, <<2, 1, 2>>, <<1, 3>>, <<4, 2>>}
WithStderr(s) == {InsertAt(s, i, F("stderr", 1)): i \in 1..(Len(s) + 1)} \cup {s}
LogScripts ==
    {Append(s, e): s \in UNION {WithStderr([i \in DOMAIN c |-> F("stdout", c[i])]): c \in Cuts},
                   e \in {F("exit", 1), F("exit", 0), F("other", 1)}}

Msg(id, fixed, n) == [id |-> id, len |-> n, size |-> fixed + n]
Fail(n) == Msg("FAIL", SY_HEADER, n)
Dent(n) == Msg("DENT", DentSize, n)
Data(n) == Msg("DATA", SY_HEADER, n)
ListDone == Msg("DONE", DentSize, 0)
Done == Msg("DONE", SY_HEADER, 0)
Answers == [stat |-> {<<Msg("STAT", StatSize, 0)>>, <<Fail(1)>>},
            list |-> {<<Dent(2), ListDone>>, <<Dent(0), Fail(5)>>, <<Dent(6), ListDone>>},
            recv |-> {<<Done>>, <<Data(2), Data(1), Done>>, <<Data(1), Fail(9)>>},
            send |-> {<<Msg("OKAY", SY_HEADER, 0)>>, <<Fail(0)>>}]
Call(op, nul, v2, flags) == [op |-> op, nul |-> nul, v2 |-> v2, flags |-> flags]
SomeCalls == {Call("stat", FALSE, FALSE, {}), Call("stat", TRUE, FALSE, {}),
              Call("list", FALSE, TRUE, {}), Call("recv", FALSE, FALSE, {}),
              Call("recv", FALSE, TRUE, {"DRY_RUN"}), Call("send", FALSE, TRUE, {"LZ4"}),
              Call("send", FALSE, TRUE, {"LZ4", "ZSTD"})}

Snapshot(n, ok) == [ok |-> ok, len |-> n, size |-> HEX_LEN_PREFIX + n]
Snapshots == {<<Snapshot(0, TRUE), Snapshot(2, FALSE), Snapshot(1, TRUE)>>,
              <<Snapshot(2, TRUE), Snapshot(4, TRUE)>>}
Settings(name, ns) == {[set |-> name, to |-> n]: n \in ns}
Texts == [proto |-> {[field |-> 1, wire |-> 0, val |-> 300], [field |-> 7, wire |-> 2, val |-> <<65, 66>>],
                     [field |-> 2, wire |-> 0, val |-> 1], [field |-> 6, wire |-> 2, val |-> <<>>],
                     [field |-> 9, wire |-> 0, val |-> 5], [field |-> 20, wire |-> 5, val |-> <<0>>],
                     [field |-> 1, wire |-> 1, val |-> <<8, 1>>], [field |-> 20, wire |-> 2, val |-> <<8>>]},
          log |-> {0, 1, 2, 3, 4}, reply |-> Words4 \cup {"x"}, listing |-> {"h", " ", "\n"},
          port |-> DOMAIN Digits \cup {"-"}, tcp |-> {":", "[", "]", "h", "5555", "65536"},
          usb |-> {":", "1d6b", "+d6b", "1g6b", "serial/"},
          banner |-> Known \cup {";", "=", ",", "features", "k"},
          dest |-> {"a", "'", " ", "\\", ";", ",", "NUL"},
          config |-> Settings("max_payload", {0, KiB, 5000, MAX_PAYLOAD, Top})
                     \cup Settings("initial_ack_bytes", {0, 1, MAX_PAYLOAD, Top})
                     \cup Settings("max_rx_per_channel", {0, KiB + 1, MAX_PAYLOAD, Top})
                     \cup Settings("max_channels", {0, 1, Top}) \cup Settings("max_banner_properties", {0})]
Lengths == [proto |-> 3, log |-> 6, reply |-> 4, listing |-> 7, port |-> 3, tcp |-> 5, usb |-> 3,
            banner |-> 5, dest |-> 4, config |-> 3]
Outputs == {<<[len |-> n, size |-> n]>>: n \in 0..5}

------------------------------------------------------------------------------
(* Properties *)

\* Every slice the clients take of their buffer lies inside it and inside
\* what has arrived, so none of them panics: the cursors stay in order, and
\* the bytes behind them are accounted for (RecvBuf::peek and take,
\* FrameDecoder, Logcat).
CursorsInOrder ==
    /\ 0 <= head /\ head <= tail /\ tail <= Capacity
    /\ tail - head <= at /\ at <= Total(script)
    /\ svc = "logcat" => cl.acc_start <= cl.acc_end /\ cl.acc_end <= head

\* A channel has no destructor: a call that opens one for itself, and a
\* session that is closed, collected or quit, frees its slot on every way
\* out, after every failure (Shell::collect, open_interactive, dump, quit,
\* read_to_end, read_to_vec).
NoSlotLeft == cl.pc = "done" => slot # "open"

\* Every call returns once the device has answered or gone: no decoder
\* waits for bytes it already holds, or spins on bytes it cannot use.
CallsEnd == cl.pc \notin Resting ~> cl.pc \in Resting

\* However the device cuts its stream and however small the caller's
\* buffer, the clients stay inside their buffers, go on, and give their
\* channel back.
BuffersSafe == CursorsInOrder /\ AnyBufferServes /\ LogcatBufferServes /\ NoSlotLeft

\* What a client hands out is what the device sent: shell frames and log
\* entries whole and in order, the answer to each sync request and not to
\* another, a FAIL never lost behind an error of the host's, an output
\* complete or an error, and snapshots one by one.
MessagesExact ==
    /\ FramesExact /\ EntriesExact /\ LogWhole /\ AnswersExact /\ FailNeverMasked
    /\ AllOrNothing /\ SnapshotsExact

\* The parsers and writers agree with the grammars of what they read and
\* write, over every input up to a length, and whatever limits a program asks
\* for leave room for a full packet.
FormatsExact == DecodersExact /\ TextsExact /\ ConfigExact
=============================================================================
