------------------------------- MODULE Pairing -------------------------------
(***************************************************************************)
(* pair (pairing/client.rs): the exchange that puts the host's key into a  *)
(* device's trusted store.  Cryptography is ideal: what one key seals only *)
(* the same key opens, and SPAKE2 gives both sides the same key exactly    *)
(* when both used the same code inside the same TLS session.               *)
(***************************************************************************)
EXTENDS Naturals, Sequences

CONSTANTS
    Codes,       \* pairing codes
    MaxPairFault \* bound: frames the device sends that adbd would not, or a lost connection

ASSUME PairAssumption == Codes # {} /\ MaxPairFault \in Nat

VARIABLES
    pair_host, \* the call of pair; long: the public key line is over a PeerInfo's data
    pair_dev,  \* adbd's pairing server
    to_host,   \* frames from the device, not read yet
    to_server, \* frames from the host, not read yet
    pair_faults

pairVars == <<pair_host, pair_dev, to_host, to_server, pair_faults>>

(* The TLS session a side is in: a relay between the two has one with each.*)
Sessions == {1, 2}
Keys == Codes \X Sessions

(* A frame: its kind, whether decode takes its header, and its body.  A    *)
(* SPAKE2 message is 32 bytes and a point, or not; a PeerInfo is sealed    *)
(* with a key at a count, holds a block of some kind, and has the right    *)
(* length or not.                                                          *)
Bodies ==
    [what : {"spake2"}, fit : BOOLEAN, point : BOOLEAN]
      \cup [what : {"info"}, fit : BOOLEAN, key : Keys, count : 0 .. 1,
            block : {"rsa", "guid", "unknown", "open_ended"}]
Frames == [kind : {"Spake2Msg", "PeerInfo"}, header_ok : BOOLEAN, body : Bodies]

Spake2Frame(fit, point) ==
    [kind |-> "Spake2Msg", header_ok |-> TRUE,
     body |-> [what |-> "spake2", fit |-> fit, point |-> point]]

(* seal: the counter of the side that seals goes up each time.             *)
Sealed(key, count, block) ==
    [kind |-> "PeerInfo", header_ok |-> TRUE,
     body |-> [what |-> "info", fit |-> TRUE, key |-> key, count |-> count, block |-> block]]

(* open: under the same key, at the count this side has come to.           *)
Opens(key, count, body) == body.what = "info" /\ body.key = key /\ body.count = count

PairErrors == {"none", "Transport", "Closed", "Frame", "Spake2", "PeerInfo", "WrongCode"}

PairTypeOK ==
    /\ pair_host \in [pc : {"start_tls", "spake2", "theirs", "mine", "answer", "ok", "error"},
                      err : PairErrors, code : Codes, session : Sessions, long : BOOLEAN]
    /\ pair_dev \in [pc : {"spake2", "theirs", "key", "gone"}, code : Codes, session : Sessions,
                     sent_info : BOOLEAN, trusts : BOOLEAN]
    /\ to_host \in Seq(Frames) /\ to_server \in Seq(Frames)
    /\ pair_faults \in 0 .. MaxPairFault

PairInit ==
    /\ pair_host \in [pc : {"start_tls"}, err : {"none"}, code : Codes, session : {1},
                      long : BOOLEAN]
    /\ pair_dev \in [pc : {"spake2"}, code : Codes, session : Sessions, sent_info : {FALSE},
                     trusts : {FALSE}]
    /\ to_host = <<>> /\ to_server = <<>> /\ pair_faults = 0

Up == pair_dev.pc # "gone"
HostKey == <<pair_host.code, pair_host.session>>
DevKey == <<pair_dev.code, pair_dev.session>>

-----------------------------------------------------------------------------
PairFails(err) == pair_host' = [pair_host EXCEPT !.pc = "error", !.err = err]

(* start_tls, and the password made of the code and the exported secret.   *)
PairTls ==
    /\ pair_host.pc = "start_tls"
    /\ IF Up THEN pair_host' = [pair_host EXCEPT !.pc = "spake2"] ELSE PairFails("Transport")
    /\ UNCHANGED <<pair_dev, to_host, to_server, pair_faults>>

PairSend(frame, pc) ==
    IF Up THEN to_server' = Append(to_server, frame) /\ pair_host' = [pair_host EXCEPT !.pc = pc]
    ELSE PairFails("Transport") /\ UNCHANGED to_server

PairSpake2 ==
    /\ pair_host.pc = "spake2" /\ PairSend(Spake2Frame(TRUE, TRUE), "theirs")
    /\ UNCHANGED <<pair_dev, to_host, pair_faults>>

(* recv: a whole frame of the kind that is due, or the end.                *)
PairRecv(kind, Accept) ==
    \/ /\ to_host = <<>> /\ ~Up /\ PairFails("Closed") /\ UNCHANGED to_host
    \/ /\ to_host # <<>> /\ to_host' = Tail(to_host)
       /\ IF Head(to_host).header_ok /\ Head(to_host).kind = kind
          THEN Accept ELSE PairFails("Frame")

PairTheirs ==
    /\ pair_host.pc = "theirs"
    /\ PairRecv("Spake2Msg", LET body == Head(to_host).body IN
         IF body.what = "spake2" /\ body.fit /\ body.point
         THEN pair_host' = [pair_host EXCEPT !.pc = "mine"] ELSE PairFails("Spake2"))
    /\ UNCHANGED <<pair_dev, to_server, pair_faults>>

(* Our key goes out sealed, as a block that says what it is, unless the    *)
(* key with its name is too long for the block: a name may be as long as   *)
(* an AUTH packet takes.                                                   *)
PairMine ==
    /\ pair_host.pc = "mine"
    /\ IF pair_host.long THEN PairFails("PeerInfo") /\ UNCHANGED to_server
       ELSE PairSend(Sealed(HostKey, 0, "rsa"), "answer")
    /\ UNCHANGED <<pair_dev, to_host, pair_faults>>

(* The device's half: the right size, ours to open, and a GUID in it.      *)
PairAnswer ==
    /\ pair_host.pc = "answer"
    /\ PairRecv("PeerInfo", LET body == Head(to_host).body IN
         IF ~body.fit THEN PairFails("PeerInfo")
         ELSE IF ~Opens(HostKey, 0, body) THEN PairFails("WrongCode")
         ELSE IF body.block # "guid" THEN PairFails("PeerInfo")
         ELSE pair_host' = [pair_host EXCEPT !.pc = "ok"])
    /\ UNCHANGED <<pair_dev, to_server, pair_faults>>

-----------------------------------------------------------------------------
(* adbd's server: it sends its SPAKE2 message, and its half before it      *)
(* reads ours.                                                             *)
ServerSpake2 ==
    /\ pair_dev.pc = "spake2" /\ pair_host.pc # "start_tls"
    /\ to_host' = Append(to_host, Spake2Frame(TRUE, TRUE))
    /\ pair_dev' = [pair_dev EXCEPT !.pc = "theirs"]
    /\ UNCHANGED <<pair_host, to_server, pair_faults>>

ServerInfo ==
    /\ pair_dev.pc = "theirs" /\ to_server # <<>>
    /\ to_server' = Tail(to_server)
    /\ to_host' = Append(to_host, Sealed(DevKey, 0, "guid"))
    /\ pair_dev' = [pair_dev EXCEPT !.pc = "key", !.sent_info = TRUE]
    /\ UNCHANGED <<pair_host, pair_faults>>

ServerKey ==
    /\ pair_dev.pc = "key" /\ to_server # <<>>
    /\ to_server' = Tail(to_server)
    /\ pair_dev' = [pair_dev EXCEPT !.pc = "gone",
                      !.trusts = Opens(DevKey, 0, Head(to_server).body)]
    /\ UNCHANGED <<pair_host, to_host, pair_faults>>

(* The exchange ends for the server when the host goes away.               *)
ServerClosed ==
    /\ Up /\ to_server = <<>> /\ pair_host.pc \in {"ok", "error"}
    /\ pair_dev' = [pair_dev EXCEPT !.pc = "gone"]
    /\ UNCHANGED <<pair_host, to_host, to_server, pair_faults>>

(* A device that does not keep to the exchange, sealing with its own key.  *)
ServerOdd ==
    /\ Up /\ pair_faults < MaxPairFault /\ pair_host.pc # "start_tls"
    /\ \E f \in Frames :
         /\ f.body.what = "info" => f.body.key = DevKey
         /\ to_host' = Append(to_host, f)
    /\ pair_faults' = pair_faults + 1
    /\ UNCHANGED <<pair_host, pair_dev, to_server>>

(* The connection is lost with what was on the way.                        *)
PairLost ==
    /\ Up /\ pair_faults < MaxPairFault
    /\ pair_faults' = pair_faults + 1 /\ to_server' = <<>>
    /\ pair_dev' = [pair_dev EXCEPT !.pc = "gone"]
    /\ \E n \in 0 .. Len(to_host) : to_host' = SubSeq(to_host, 1, n)
    /\ UNCHANGED pair_host

HostPairs == PairTls \/ PairSpake2 \/ PairTheirs \/ PairMine \/ PairAnswer
ServerPairs == ServerSpake2 \/ ServerInfo \/ ServerKey \/ ServerClosed
PairNext == HostPairs \/ ServerPairs \/ ServerOdd \/ PairLost

-----------------------------------------------------------------------------
PairEnded == pair_host.pc \in {"ok", "error"}

(* pair succeeds, and the device trusts the key, only when both were given *)
(* the same code and speak in one TLS session: a relay that ends the TLS   *)
(* of both sides gets nowhere, whatever frames come in what order.         *)
PairedMeansSameCode ==
    pair_host.pc = "ok" \/ pair_dev.trusts =>
        pair_host.code = pair_dev.code /\ pair_host.session = pair_dev.session

(* With nothing wrong at the device or on the way, an error is one of      *)
(* two: our own key line is too long for a PeerInfo, or the codes differ   *)
(* and the caller learns that it was the code.                             *)
PairVerdict ==
    pair_faults = 0 /\ pair_host.pc = "error" =>
        \/ pair_host.long /\ pair_host.err = "PeerInfo"
        \/ ~pair_host.long /\ pair_host.err = "WrongCode" /\ HostKey # DevKey
=============================================================================
