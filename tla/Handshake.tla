------------------------------ MODULE Handshake ------------------------------
(***************************************************************************)
(* connect and connect_tls (base/connection/handshake.rs and tls.rs): the  *)
(* host's hello, the rounds of AUTH, the upgrade to TLS, and the terms the *)
(* connection is assembled with.  A byte stream carries the device's       *)
(* packets, so a read may bring several of them and a part of the next.    *)
(***************************************************************************)
EXTENDS Naturals, Sequences

CONSTANTS
    MaxStale, \* bound: packets of an earlier connection still on the wire
    MaxOdd    \* bound: packets the device sends that adbd would not

ASSUME HsAssumption == MaxStale \in Nat /\ MaxOdd \in Nat

VARIABLES
    hs,     \* the host's Handshake
    net,    \* device to host, not read yet
    to_dev, \* host to device, not read yet
    adbd    \* the device

hsVars == <<hs, net, to_dev, adbd>>

(* Version 0 still checks sums, version 1 (ADB_VERSION) does not.          *)
Terms == [version : 0 .. 1, payload : 1 .. 2, delayed_ack : BOOLEAN, banner_ok : BOOLEAN]
HostTerms == {t \in Terms : t.version = 1 /\ t.banner_ok /\ (t.payload = 1 => t.delayed_ack)}
NoTerms == [version |-> 0, payload |-> 1, delayed_ack |-> FALSE, banner_ok |-> FALSE]

(* A packet as recv tells them apart.  "token" is an AUTH token of the     *)
(* right length, "short" one of another, "auth" AUTH of another kind;      *)
(* "stale" stands for CLSE, OKAY, WRTE and OPEN, "other" for the rest,     *)
(* "alert" for TLS refusing the host's certificate and "part" for a packet *)
(* the stream ended in.                                                    *)
Cmds == {"CNXN", "STLS", "token", "short", "auth", "stale", "other", "alert", "part"}
HsPackets == [cmd : Cmds, tls : BOOLEAN, terms : Terms]
Plain(cmd) == [cmd |-> cmd, tls |-> FALSE, terms |-> NoTerms]

HsRange(s) == {s[i] : i \in DOMAIN s}
Min2(a, b) == IF a < b THEN a ELSE b

(* What both ends of a connection settle on.                               *)
Settled(a, b) ==
    [version |-> Min2(a.version, b.version), payload |-> Min2(a.payload, b.payload),
     delayed_ack |-> a.delayed_ack /\ b.delayed_ack, banner_ok |-> TRUE]

HsWaits == {"first", "signed", "offered", "secured"}
HsPcs == {"hello", "sign", "offer", "upgrade", "start_tls", "assemble", "ok", "error"} \cup HsWaits
HsErrors == {"none", "Io", "UnexpectedEof", "UnexpectedCommand", "InvalidAuthToken", "SignFailed",
           "Rejected", "KeyNotTrusted", "TlsRequired", "DataAfterStls", "TlsKeyNotTrusted",
           "TlsClosedBeforeConnect", "Banner"}

Handshakes ==
    [pc : HsPcs, err : HsErrors, use_tls : BOOLEAN, may_offer : BOOLEAN, mine : HostTerms,
     tls : BOOLEAN, buf : Seq(HsPackets), cut : BOOLEAN, got : HsPackets, terms : Terms]
Peers ==
    [st : {"off", "asked", "dialog", "stls", "online", "gone"}, tls : BOOLEAN,
     wants_tls : BOOLEAN, wants_auth : BOOLEAN, trusts : BOOLEAN, mine : Terms, terms : Terms,
     tokens : 0 .. 3, odd : 0 .. MaxOdd]
Commands == {"CNXN", "SIGNATURE", "PUBKEY", "STLS"}

HsTypeOK ==
    hs \in Handshakes /\ net \in Seq(HsPackets) /\ to_dev \in Seq(Commands) /\ adbd \in Peers

Devices == [st : {"off"}, tls : {FALSE}, wants_tls : BOOLEAN, wants_auth : BOOLEAN,
            trusts : BOOLEAN, terms : {NoTerms},
            mine : {t \in Terms : t.payload = t.version + 1 /\ (t.delayed_ack => t.banner_ok)},
            tokens : {0}, odd : {0}]

HsInit ==
    /\ hs \in [pc : {"hello"}, err : {"none"}, use_tls : BOOLEAN, may_offer : BOOLEAN,
               mine : HostTerms, tls : {FALSE}, buf : {<<>>}, cut : {FALSE},
               got : {Plain("other")}, terms : {NoTerms}]
    /\ \E n \in 0 .. MaxStale : net = [i \in 1 .. n |-> Plain("stale")]
    /\ to_dev = <<>>
    /\ adbd \in Devices

-----------------------------------------------------------------------------
(* The host.                                                               *)
Fail(err) == hs' = [hs EXCEPT !.pc = "error", !.err = err]

Send(msg, pc) ==
    /\ to_dev' = Append(to_dev, msg)
    /\ hs' = [hs EXCEPT !.pc = pc]
    /\ UNCHANGED <<net, adbd>>

(* open: the hello names our version, payload limit and banner.            *)
Hello == hs.pc = "hello" /\ Send("CNXN", "first")

(* recv_pkt: a read brings whole packets and perhaps a part of the next.   *)
Read ==
    /\ hs.pc \in HsWaits /\ hs.buf = <<>>
    /\ \E n \in 1 .. Len(net), cut \in BOOLEAN :
         /\ cut => n < Len(net)
         /\ hs' = [hs EXCEPT !.buf = SubSeq(net, 1, n), !.cut = cut]
         /\ net' = SubSeq(net, n + 1, Len(net))
    /\ UNCHANGED <<to_dev, adbd>>

(* The stream ends between packets.                                        *)
ReadEnds ==
    /\ hs.pc \in HsWaits /\ hs.buf = <<>> /\ net = <<>> /\ adbd.st = "gone"
    /\ Fail(IF hs.tls THEN "TlsClosedBeforeConnect" ELSE "UnexpectedEof")
    /\ UNCHANGED <<net, to_dev, adbd>>

Came(p) == hs.pc \in HsWaits /\ hs.buf # <<>> /\ Head(hs.buf).cmd \in p
Popped == [hs EXCEPT !.buf = Tail(@)]

(* recv drops what an earlier connection left on the wire.                 *)
DropStale ==
    /\ Came({"stale"}) /\ hs' = Popped
    /\ UNCHANGED <<net, to_dev, adbd>>

(* recv's errors, as classify_before_cnxn names them.                      *)
Refuse ==
    /\ Came({"other", "alert", "part"})
    /\ hs' = [Popped EXCEPT !.pc = "error",
                            !.err = CASE Head(hs.buf).cmd = "alert" -> "TlsKeyNotTrusted"
                                      [] Head(hs.buf).cmd = "part" -> "UnexpectedEof"
                                      [] OTHER -> "UnexpectedCommand"]
    /\ UNCHANGED <<net, to_dev, adbd>>

(* Verdict::of, and what connect, connect_tls and upgrade do with it.      *)
TakeVerdict ==
    /\ Came({"CNXN", "STLS"})
    /\ hs' = IF Head(hs.buf).cmd = "CNXN"
             THEN [Popped EXCEPT !.pc = "assemble", !.got = Head(hs.buf)]
             ELSE IF hs.use_tls /\ ~hs.tls THEN [Popped EXCEPT !.pc = "upgrade"]
             ELSE [Popped EXCEPT !.pc = "error",
                                 !.err = IF hs.tls THEN "UnexpectedCommand" ELSE "TlsRequired"]
    /\ UNCHANGED <<net, to_dev, adbd>>

(* AUTH as the first answer, in the open or in TLS: open and upgrade call  *)
(* do_auth on a token and refuse the rest.                                 *)
AuthFirst ==
    /\ hs.pc \in {"first", "secured"} /\ Came({"token", "short", "auth"})
    /\ hs' = CASE Head(hs.buf).cmd = "token" -> [Popped EXCEPT !.pc = "sign"]
               [] Head(hs.buf).cmd = "short" ->
                    [Popped EXCEPT !.pc = "error", !.err = "InvalidAuthToken"]
               [] OTHER -> [Popped EXCEPT !.pc = "error", !.err = "UnexpectedCommand"]
    /\ UNCHANGED <<net, to_dev, adbd>>

(* do_auth: the authenticator signs, or fails to.                          *)
Sign == hs.pc = "sign" /\ Send("SIGNATURE", "signed")
SignFails == hs.pc = "sign" /\ Fail("SignFailed") /\ UNCHANGED <<net, to_dev, adbd>>

(* Another token refuses the signature; its length does not matter here.   *)
AuthAgain ==
    /\ hs.pc \in {"signed", "offered"} /\ Came({"token", "short", "auth"})
    /\ hs' = IF hs.pc = "signed" /\ Head(hs.buf).cmd # "auth" THEN [Popped EXCEPT !.pc = "offer"]
             ELSE [Popped EXCEPT !.pc = "error", !.err = "Rejected"]
    /\ UNCHANGED <<net, to_dev, adbd>>

Offer ==
    \/ hs.pc = "offer" /\ hs.may_offer /\ Send("PUBKEY", "offered")
    \/ hs.pc = "offer" /\ ~hs.may_offer /\ Fail("KeyNotTrusted") /\ UNCHANGED <<net, to_dev, adbd>>

(* Faulty form: nobody looks at what came behind the STLS.                 *)
UpgradeUnchecked == hs.pc = "upgrade" /\ Send("STLS", "start_tls")

(* upgrade: no plaintext may wait behind the STLS.                         *)
Upgrade ==
    \/ /\ hs.pc = "upgrade" /\ (hs.buf # <<>> \/ hs.cut)
       /\ Fail("DataAfterStls") /\ UNCHANGED <<net, to_dev, adbd>>
    \/ hs.pc = "upgrade" /\ hs.buf = <<>> /\ ~hs.cut /\ Send("STLS", "start_tls")

(* start_tls: plaintext that was still on the way breaks the TLS           *)
(* handshake, and so does a device that hangs up.                          *)
HsStartTls ==
    /\ hs.pc = "start_tls"
    /\ \/ net # <<>> /\ ~Head(net).tls /\ Fail("Io")
       \/ net = <<>> /\ adbd.st = "gone" /\ ~adbd.tls /\ Fail("Io")
       \/ /\ adbd.tls /\ (net # <<>> => Head(net).tls)
          /\ hs' = [hs EXCEPT !.pc = "secured", !.tls = TRUE]
    /\ UNCHANGED <<net, to_dev, adbd>>

(* assemble: Negotiated::new.  The payload limit is the device's: its CNXN *)
(* carries the smaller of the two.                                         *)
Assemble ==
    /\ hs.pc = "assemble"
    /\ hs' = IF hs.got.terms.banner_ok
             THEN [hs EXCEPT !.pc = "ok",
                     !.terms = [Settled(hs.mine, hs.got.terms)
                                  EXCEPT !.payload = Min2(hs.got.terms.payload, 2)]]
             ELSE [hs EXCEPT !.pc = "error", !.err = "Banner"]
    /\ UNCHANGED <<net, to_dev, adbd>>

-----------------------------------------------------------------------------
(* adbd.                                                                   *)
Says(cmd, st) ==
    /\ net' = Append(net, [cmd |-> cmd, tls |-> adbd.tls,
                           terms |-> IF cmd = "CNXN"
                                     THEN [adbd.mine EXCEPT !.payload = Min2(@, hs.mine.payload)]
                                     ELSE NoTerms])
    /\ adbd' = [adbd EXCEPT !.st = st,
                  !.tokens = IF cmd = "token" THEN @ + 1 ELSE @,
                  !.terms = IF cmd = "CNXN" THEN Settled(hs.mine, adbd.mine) ELSE @]

Hears(msg) == to_dev # <<>> /\ Head(to_dev) = msg /\ to_dev' = Tail(to_dev) /\ UNCHANGED hs

AdbdHello ==
    /\ adbd.st = "off" /\ Hears("CNXN")
    /\ CASE adbd.wants_tls -> Says("STLS", "stls")
         [] ~adbd.wants_tls /\ adbd.wants_auth -> Says("token", "asked")
         [] OTHER -> Says("CNXN", "online")

AdbdSignature ==
    /\ adbd.st = "asked" /\ Hears("SIGNATURE")
    /\ IF adbd.trusts THEN Says("CNXN", "online") ELSE Says("token", "dialog")

(* The person at the device approves the key, or turns it down.            *)
AdbdKey ==
    /\ adbd.st = "dialog" /\ Hears("PUBKEY")
    /\ \/ Says("CNXN", "online")
       \/ net' = net /\ adbd' = [adbd EXCEPT !.st = "gone"]

(* TLS checks the host's key; an older adbd asks for a signature in TLS.   *)
AdbdTls ==
    /\ adbd.st = "stls" /\ ~adbd.tls /\ Hears("STLS")
    /\ adbd' = [adbd EXCEPT !.tls = TRUE] /\ net' = net

AdbdInTls ==
    /\ adbd.st = "stls" /\ adbd.tls
    /\ \/ adbd.trusts /\ ~adbd.wants_auth /\ Says("CNXN", "online")
       \/ adbd.wants_auth /\ Says("token", "asked")
       \/ ~adbd.trusts /\ ~adbd.wants_auth /\ Says("alert", "gone")
       \/ /\ ~adbd.trusts /\ ~adbd.wants_auth
          /\ adbd' = [adbd EXCEPT !.st = "gone"] /\ net' = net
    /\ UNCHANGED <<hs, to_dev>>

(* Something adbd would not send, or not now.                              *)
AdbdOdd ==
    /\ adbd.st \notin {"off", "gone"} /\ adbd.odd < MaxOdd
    /\ \E cmd \in Cmds \ {"alert", "part"} :
         net' = Append(net, [cmd |-> cmd, tls |-> adbd.tls,
                             terms |-> [adbd.mine EXCEPT !.payload = 1]])
    /\ adbd' = [adbd EXCEPT !.odd = @ + 1]
    /\ UNCHANGED <<hs, to_dev>>

AdbdGone ==
    /\ adbd.st # "gone" /\ adbd.odd < MaxOdd
    /\ adbd' = [adbd EXCEPT !.st = "gone", !.odd = @ + 1]
    /\ \/ net' = net
       \/ net # <<>> /\ net' = [net EXCEPT ![Len(net)].cmd = "part"]
    /\ UNCHANGED <<hs, to_dev>>

HostConnects ==
    \/ Hello \/ Read \/ ReadEnds \/ DropStale \/ Refuse \/ TakeVerdict \/ AuthFirst \/ Sign
    \/ AuthAgain \/ Offer \/ Upgrade \/ HsStartTls \/ Assemble

AdbdAnswers == AdbdHello \/ AdbdSignature \/ AdbdKey \/ AdbdTls \/ AdbdInTls

HsNext == HostConnects \/ SignFails \/ AdbdAnswers \/ AdbdOdd \/ AdbdGone

-----------------------------------------------------------------------------
Ended == hs.pc \in {"ok", "error"}

(* Once the host has asked for TLS, nothing that was sent in the open      *)
(* becomes part of the connection: not the CNXN, and nothing left in the   *)
(* buffer that the connection goes on reading from.                        *)
NothingPlainInTls ==
    hs.pc = "ok" /\ hs.tls => \A p \in {hs.got} \cup HsRange(hs.buf) \cup HsRange(net) : p.tls

(* The public key, which makes the device ask its user, goes out only when *)
(* the caller allows it and the device has turned a signature down.        *)
KeyOfferedLast ==
    (hs.pc = "offered" \/ "PUBKEY" \in HsRange(to_dev))
      => hs.may_offer /\ adbd.tokens + adbd.odd >= 2

(* Packets an earlier connection left behind fail nothing: a device that   *)
(* knows the key, and asks for nothing the caller did not enable, is       *)
(* connected to, and both ends agree on the terms.                         *)
StaleAndTerms ==
    /\ adbd.odd = 0 /\ adbd.trusts /\ adbd.mine.banner_ok /\ (adbd.wants_tls => hs.use_tls)
         => hs.err \in {"none", "SignFailed"}
    /\ hs.pc = "ok" /\ adbd.odd = 0 => hs.terms = adbd.terms /\ hs.tls = adbd.tls
=============================================================================
