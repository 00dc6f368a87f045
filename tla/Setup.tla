-------------------------------- MODULE Setup --------------------------------
(***************************************************************************)
(* What a connection is made from: a key is found or made in the key       *)
(* store, a device is paired with it, the handshake uses it, and the       *)
(* transports carry all of it.  One host does these one after the other    *)
(* and they share only the key and the calls of a transport, so a          *)
(* behaviour is of the store ("keys"), of the transports ("link") or of a  *)
(* pairing, then a connection to the device it was with; a connection      *)
(* without a pairing has part "connect" from the start.                    *)
(***************************************************************************)
EXTENDS KeyStore, Pairing, Handshake, Transports

VARIABLE part

setupVars == <<keyVars, pairVars, hsVars, linkVars, part>>

KeyIdle ==
    /\ names = <<>> /\ files = [f \in Files |-> Empty]
    /\ next_seq = [p \in Pids |-> 0] /\ made = 0 /\ key_crashes = 0
    /\ keeper = [t \in KeyThreads |-> [NewCaller(CHOOSE p \in Pids : TRUE) EXCEPT !.pc = "error"]]

PairIdle ==
    /\ LET c == CHOOSE c \in Codes : TRUE IN
         /\ pair_host = [pc |-> "start_tls", err |-> "none", code |-> c, session |-> 1,
                         long |-> FALSE]
         /\ pair_dev = [pc |-> "spake2", code |-> c, session |-> 1, sent_info |-> FALSE,
                        trusts |-> FALSE]
    /\ to_host = <<>> /\ to_server = <<>> /\ pair_faults = 0

HsIdle == HsInit /\ net = <<>> /\ hs.mine.delayed_ack /\ hs.mine.payload = 2 /\ ~hs.may_offer
            /\ hs.use_tls /\ adbd.wants_tls /\ ~adbd.wants_auth /\ ~adbd.trusts
            /\ adbd.mine = [version |-> 1, payload |-> 2, delayed_ack |-> TRUE, banner_ok |-> TRUE]

LinkIdle == LinkInit /\ layer = "tls" /\ tls_net = TlsAtRest

SetupInit ==
    \/ part = "keys" /\ KeyInit /\ PairIdle /\ HsIdle /\ LinkIdle
    \/ part = "pair" /\ KeyIdle /\ PairInit /\ HsIdle /\ LinkIdle
    \/ part = "connect" /\ KeyIdle /\ PairIdle /\ HsInit /\ LinkIdle
    \/ part = "link" /\ KeyIdle /\ PairIdle /\ HsIdle /\ LinkInit

(* The device is paired with and its server is done: the host connects.    *)
Connect ==
    /\ part = "pair" /\ pair_host.pc = "ok" /\ ~Up
    /\ part' = "connect"
    /\ adbd' = [adbd EXCEPT !.trusts = pair_dev.trusts]
    /\ UNCHANGED <<keyVars, pairVars, hs, net, to_dev, linkVars>>

KeysAct(A) == part = "keys" /\ A /\ UNCHANGED <<pairVars, hsVars, linkVars, part>>
PairAct(A) == part = "pair" /\ A /\ UNCHANGED <<keyVars, hsVars, linkVars, part>>
ConnectAct(A) == part = "connect" /\ A /\ UNCHANGED <<keyVars, pairVars, linkVars, part>>
LinkAct(A) == part = "link" /\ A /\ UNCHANGED <<keyVars, pairVars, hsVars, part>>

SetupNext ==
    KeysAct(KeyNext) \/ PairAct(PairNext) \/ Connect \/ ConnectAct(HsNext) \/ LinkAct(LinkNext)

(* Every call is polled, the device answers, the disk does not hang; a     *)
(* socket or the bus answers or fails.  Only one part is at work, so what  *)
(* is fair of the parts is fair of all of them together.                   *)
Polled == PairAct(HostPairs) \/ Connect \/ ConnectAct(HostConnects) \/ LinkAct(LinkSteps)
Answered == PairAct(ServerPairs) \/ ConnectAct(AdbdAnswers) \/ LinkAct(Tls(TlsReads))
SetupSpec ==
    /\ SetupInit /\ [][SetupNext]_setupVars
    /\ \A t \in KeyThreads : WF_setupVars(KeysAct(KeyStep(t)))
    /\ WF_setupVars(Polled) /\ WF_setupVars(Answered)

-----------------------------------------------------------------------------
SetupTypeOK ==
    KeyTypeOK /\ PairTypeOK /\ HsTypeOK /\ part \in {"keys", "pair", "connect", "link"}

(* The key store is consistent whatever calls race on it and wherever they *)
(* crash: every call returns the key of adbkey, adbkey.pub belongs to it,  *)
(* and temporary files are somebody's (load_or_generate, publish_new).     *)
KeysSafe == KeyTypeOK /\ OneIdentity /\ PublicFollowsPrivate /\ NoLitter

(* The host ends up with the device it meant to: a pairing succeeds only   *)
(* against the same code, in one session, and fails for its own reason;    *)
(* the handshake never speaks in the clear after STLS, offers its key last *)
(* and once, skips stale packets and settles on what both sides speak.     *)
DeviceKnown ==
    /\ SetupTypeOK /\ PairedMeansSameCode /\ PairVerdict
    /\ NothingPlainInTls /\ KeyOfferedLast /\ StaleAndTerms

(* Whatever is called returns: load_or_generate with crashes of its other  *)
(* callers, a pairing, a handshake, and every call of the transports.      *)
AtCall == CASE part = "keys" -> \E t \in KeyThreads : AtWork(t)
            [] part = "pair" -> ~PairEnded
            [] part = "connect" -> ~Ended
            [] OTHER -> Working
CallsReturn == AtCall ~> ~AtCall
=============================================================================
