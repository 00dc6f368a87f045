----------------------------- MODULE Transports -----------------------------
(***************************************************************************)
(* What lies below a connection: packets over a byte stream, in and out,   *)
(* over sockets and USB; TLS on a socket; and finding a USB device.  They  *)
(* meet only at the calls read and write, whose every outcome each of them *)
(* is checked against, so a behaviour is one of them at work.              *)
(***************************************************************************)
EXTENDS WireRecv, WireSend, TlsStream, UsbScan

VARIABLE layer

linkVars == <<rxVars, txVars, tlsVars, usbVars, layer>>

Layers == {"recv", "send", "tls", "usb"}
\* Where the layers that are not at work stay.
RxAtRest == CHOOSE l \in RxStarts : TRUE
TxEmpty == CHOOSE t \in TxLoads : TRUE
TxAtRest == CHOOSE l \in TxStarts : TRUE
TlsAtRest == CHOOSE n \in TlsStarts : TRUE
UsbAtRest == CHOOSE u \in UsbStarts : TRUE

LinkInit ==
    /\ layer \in Layers
    /\ RxInit /\ (layer # "recv" => rx_link = RxAtRest)
    /\ TxInit /\ (layer # "send" => tx = TxEmpty /\ tx_link = TxAtRest)
    /\ TlsInit /\ (layer # "tls" => tls_net = TlsAtRest)
    /\ UsbInit /\ (layer # "usb" => usb = UsbAtRest)

InAct(A) == layer = "recv" /\ A /\ UNCHANGED <<txVars, tlsVars, usbVars, layer>>
OutAct(A) == layer = "send" /\ A /\ UNCHANGED <<rxVars, tlsVars, usbVars, layer>>
Tls(A) == layer = "tls" /\ A /\ UNCHANGED <<rxVars, txVars, usbVars, layer>>
OnBus(A) == layer = "usb" /\ A /\ UNCHANGED <<rxVars, txVars, tlsVars, layer>>

LinkNext == InAct(RxNext) \/ OutAct(TxNext) \/ Tls(TlsNext) \/ OnBus(UsbNext)

(* What a call that is being polled, or the socket or the bus it waits     *)
(* for, does next.                                                         *)
LinkSteps == InAct(RxSteps) \/ OutAct(TxSteps) \/ Tls(TlsWrites) \/ OnBus(UsbNext)

LinkSpec == LinkInit /\ [][LinkNext]_linkVars

------------------------------------------------------------------------------
(* The instance *)

Pk(n, is) == [len |-> n, is |-> is]
SomeStreams ==
    {<<Pk(0, "good"), Pk(3, "good"), Pk(1, "good")>>, <<Pk(1, "sum"), Pk(2, "good")>>,
     <<Pk(1, "good"), Pk(2, "header")>>, <<Pk(1, "good"), Pk(5, "good"), Pk(1, "good")>>}
SomeNoise == {Pk(1, "good"), Pk(0, "header"), Pk(9, "good")}
SomeQueues == {<<4, 5, 3>>, <<0, 1, 2>>, <<3, 4, 0>>}
SomeRecords == {<<"hello", "data", "bad">>, <<"hello", "update", "data", "data", "close_notify">>,
                <<"bad">>, <<"hello", "alert">>}

Ep(bulk, dir) == [bulk |-> bulk, dir |-> dir]
TwoWays == <<Ep(TRUE, "in"), Ep(FALSE, "in"), Ep(TRUE, "out")>>
OneWay == <<Ep(TRUE, "in"), Ep(FALSE, "out")>>
Setting(adb, eps) == [adb |-> adb, eps |-> eps]
Phone == [id |-> "18d1:4ee7", settings |-> <<Setting(FALSE, TwoWays), Setting(TRUE, TwoWays)>>,
          serial |-> "s1", describes |-> TRUE, configured |-> TRUE, tells |-> TRUE,
          opens |-> TRUE, claims |-> TRUE]
Gadgets ==
    {Phone, [Phone EXCEPT !.serial = "s2"], [Phone EXCEPT !.serial = "none"],
     [Phone EXCEPT !.opens = FALSE], [Phone EXCEPT !.claims = FALSE, !.id = "1d6b:0002"],
     [Phone EXCEPT !.tells = FALSE], [Phone EXCEPT !.describes = FALSE],
     [Phone EXCEPT !.configured = FALSE],
     [Phone EXCEPT !.settings = <<Setting(FALSE, TwoWays)>>, !.id = "1d6b:0002"],
     [Phone EXCEPT !.settings = <<Setting(TRUE, OneWay)>>],
     [Phone EXCEPT !.settings = <<Setting(TRUE, OneWay), Setting(TRUE, TwoWays)>>]}
SomeBuses == UNION {[1..n -> Gadgets] : n \in 0..2}
SomeSelectors == {[by |-> "any", is |-> ""], [by |-> "id", is |-> "18d1:4ee7"],
                  [by |-> "serial", is |-> "s1"]}

------------------------------------------------------------------------------
LinkTypeOK == RxTypeOK /\ TxTypeOK /\ TlsTypeOK /\ layer \in Layers

(* A call has yet to return: a receive once the device has ended the       *)
(* stream, a send, a TLS call of either half, a scan.                      *)
Working == CASE layer = "recv" -> rx_link.ended /\ ~Failed
             [] layer = "send" -> Len(tx_res) < Len(tx.todo)
             [] layer = "tls" -> tls_wr.pc # "idle" \/ tls_rd.pc # "idle"
             [] OTHER -> usb.pc # "done"

(* Packets cross the byte stream whole: what recv returns is what was sent *)
(* and every loss is the one its caller asked for, end of stream included; *)
(* what send writes is a sequence of whole frames, cut where the transfer  *)
(* sizes of USB ask for (recv_pkt_or, send_raw, ends_on_packet_boundary).  *)
WireSafe ==
    /\ LinkTypeOK /\ PacketsExact /\ LossIsTheCallers /\ EofIsReal /\ RecvBounded
    /\ FramesWhole /\ TransfersExact

(* TLS between two halves that share a session: what is read is what came, *)
(* a write says what became of it, nothing follows a close_notify, a       *)
(* failure reaches both halves and the queue stays bounded.                *)
TlsSafe ==
    /\ TlsReadExact /\ TlsCells /\ WritesReported /\ NothingAfterClose /\ FailureTold
    /\ OnlyWhole /\ QueueBounded

(* A scan finds the device asked for, reports the first error that hid it  *)
(* and leaves no other device open or claimed (scan, admit).               *)
UsbSafe == ScanFinds /\ ScanTells /\ NothingLeftOpen
=============================================================================
