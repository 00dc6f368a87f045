------------------------------- MODULE UsbScan -------------------------------
(***************************************************************************)
(* any::connect on a USB address (transport/any.rs, usb.rs scan and admit, *)
(* rusb.rs and nusb.rs connect_by_selector): the devices on the bus are    *)
(* gone through in order, one that does not answer the selector is passed  *)
(* over, and the first that does is opened and its interface claimed.      *)
(*                                                                         *)
(* A device is a record of what asking it gives: id, its vendor and        *)
(* product; describes and configured, whether its descriptor and that of   *)
(* its configuration can be read; settings, its interfaces in order, each  *)
(* speaking adb or not and with its endpoints; serial, "none" when it has  *)
(* none; tells, whether the serial can be read; opens and claims, whether  *)
(* opening and claiming it succeeds.                                       *)
(***************************************************************************)
EXTENDS Integers, Sequences, SequencesExt, FiniteSets

CONSTANTS
    Buses,      \* what may be plugged in: sequences of devices
    Selectors,  \* records [by |-> "any" | "id" | "serial", is |-> id or serial]
    Backends    \* a subset of {"rusb", "nusb"}

VARIABLES usb, usb_open, usb_claimed

usbVars == <<usb, usb_open, usb_claimed>>

UsbStarts == [bus : Buses, selector : Selectors, backend : Backends, i : {0},
              first_err : {"none"}, pc : {"scan"}, res : {"none"}]
UsbInit ==
    /\ usb \in UsbStarts
    /\ usb_open = {} /\ usb_claimed = {}

Device == usb.bus[usb.i]
named == usb.selector.by = "id"

(* pick_bulk_endpoints, and UsbTransport::new of nusb: the last bulk       *)
(* endpoint of each direction.                                             *)
Bulk(eps, dir) == {k \in DOMAIN eps : eps[k].bulk /\ eps[k].dir = dir}
LastOf(S) == CHOOSE k \in S : \A j \in S : j <= k
pick_bulk_endpoints(eps) ==
    IF Bulk(eps, "in") = {} \/ Bulk(eps, "out") = {} THEN <<>>
    ELSE <<LastOf(Bulk(eps, "in")), LastOf(Bulk(eps, "out"))>>

AdbSettings(d) == SelectSeq([k \in DOMAIN d.settings |-> k], LAMBDA k : d.settings[k].adb)
Usable(d) == SelectSeq(AdbSettings(d), LAMBDA k : pick_bulk_endpoints(d.settings[k].eps) # <<>>)

(* adb_interface: rusb looks for an adb interface with bulk endpoints,     *)
(* nusb takes the first adb interface and looks at its endpoints later.    *)
(* The interfaces to choose from, and the error.                           *)
adb_interface(d) ==
    IF usb.backend = "nusb" THEN [err |-> "none", ifaces |-> AdbSettings(d)]
    ELSE [err |-> IF ~d.configured THEN "Descriptor"
                  ELSE IF AdbSettings(d) # <<>> /\ Usable(d) = <<>> THEN "NoBulkEndpoints"
                  ELSE "none",
          ifaces |-> Usable(d)]

(* serial: rusb has to open the device for it, if it has one at all.       *)
AsksSerial(d) == usb.backend = "rusb" /\ d.serial # "none"
read_serial(d) == IF ~AsksSerial(d) THEN d.serial
                  ELSE IF ~d.opens THEN "Open"
                  ELSE IF ~d.tells THEN "SerialRead" ELSE d.serial
Errors == {"Descriptor", "NoBulkEndpoints", "NoAdbInterface", "Open", "SerialRead", "Claim",
           "NotFound"}

(* A serial is never the word for one of the errors or for none.           *)
ASSUME UsbAssumption ==
    /\ \A b \in Buses : /\ b \in Seq({b[k] : k \in DOMAIN b})
                        /\ \A k \in DOMAIN b :
                             /\ b[k].serial \notin Errors
                             /\ {b[k].describes, b[k].configured, b[k].tells, b[k].opens,
                                 b[k].claims} \subseteq BOOLEAN
    /\ \A s \in Selectors : /\ s.by \in {"any", "id", "serial"}
                            /\ s.by = "serial" => s.is \notin Errors \cup {"none"}
    /\ Backends \subseteq {"rusb", "nusb"}

------------------------------------------------------------------------------
(* scan *)

NextDevice == usb' = [usb EXCEPT !.i = @ + 1, !.pc = "device"]
UsbEnds(res) == usb' = [usb EXCEPT !.pc = "done", !.res = res]

(* Faulty form: the last error is kept.                                    *)
KeepLast(e) == e
(* get_or_insert: the first error is the one that is told.                 *)
Keep(e) == IF usb.first_err = "none" THEN e ELSE usb.first_err
Passes(e) == usb' = [usb EXCEPT !.pc = "scan", !.first_err = IF e = "none" THEN @ ELSE Keep(e)]
(* An attempt that failed: the end when the device was named.              *)
Attempted(e) == IF named THEN UsbEnds(e) ELSE Passes(e)

Scan == /\ usb.pc = "scan"
        /\ IF usb.i < Len(usb.bus) THEN NextDevice
           ELSE UsbEnds(IF usb.first_err = "none" THEN "NotFound" ELSE usb.first_err)
        /\ UNCHANGED <<usb_open, usb_claimed>>

(* admit, up to the serial.  rusb reads the device descriptor while it     *)
(* enumerates, and an error there never ends the scan.                     *)
Unreadable(d) == usb.backend = "rusb" /\ ~d.describes
Admit ==
    /\ usb.pc = "device"
    /\ IF Unreadable(Device) THEN Passes("Descriptor")
       ELSE IF named /\ Device.id # usb.selector.is THEN Passes("none")
       ELSE IF adb_interface(Device).err # "none" THEN Attempted(adb_interface(Device).err)
       ELSE IF adb_interface(Device).ifaces = <<>>
            THEN IF named THEN UsbEnds("NoAdbInterface") ELSE Passes("none")
       ELSE usb' = [usb EXCEPT !.pc = IF usb.selector.by = "serial" THEN "serial" ELSE "open"]
    /\ UNCHANGED <<usb_open, usb_claimed>>

(* The serial is read, over a handle that is kept for the open, or closed  *)
(* with the candidate.                                                     *)
Serial ==
    /\ usb.pc = "serial"
    /\ LET s == read_serial(Device)
       IN /\ IF s \in Errors THEN Attempted(s)
             ELSE IF s = usb.selector.is THEN usb' = [usb EXCEPT !.pc = "open"]
             ELSE Passes("none")
          /\ usb_open' = IF AsksSerial(Device) /\ s = usb.selector.is
                         THEN usb_open \cup {usb.i} ELSE usb_open
    /\ UNCHANGED usb_claimed

(* Open and claim; nusb looks at the endpoints now.  Whatever fails, the   *)
(* handle and the claim are dropped with it.                               *)
Attempt(d) == IF ~d.opens THEN "Open"
              ELSE IF ~d.claims THEN "Claim"
              ELSE IF usb.backend = "nusb"
                        /\ pick_bulk_endpoints(d.settings[Head(AdbSettings(d))].eps) = <<>>
                   THEN "NoBulkEndpoints"
              ELSE "ok"
Open ==
    /\ usb.pc = "open"
    /\ LET res == Attempt(Device)
       IN /\ IF res = "ok" THEN UsbEnds("ok") ELSE Attempted(res)
          /\ usb_open' = IF res = "ok" THEN usb_open \cup {usb.i} ELSE usb_open \ {usb.i}
          /\ usb_claimed' = IF res = "ok" THEN usb_claimed \cup {usb.i} ELSE usb_claimed

UsbNext == Scan \/ Admit \/ Serial \/ Open

------------------------------------------------------------------------------
(* Properties *)

(* What a device answers the selector with, asked alone.                   *)
Fits(d) == CASE named -> d.id = usb.selector.is
             [] usb.selector.by = "serial" -> d.serial = usb.selector.is
             [] OTHER -> TRUE
Healthy(d) == /\ d.opens /\ d.claims
              /\ IF usb.backend = "rusb"
                 THEN /\ d.describes /\ d.configured /\ Usable(d) # <<>>
                      /\ usb.selector.by = "serial" => d.tells
                 ELSE /\ AdbSettings(d) # <<>>
                      /\ pick_bulk_endpoints(d.settings[Head(AdbSettings(d))].eps) # <<>>
Found == {k \in DOMAIN usb.bus : Fits(usb.bus[k]) /\ Healthy(usb.bus[k])}
First(S) == CHOOSE k \in S : \A j \in S : k <= j

(* A device that works and is the one asked for is found whatever is wrong *)
(* with the others, the first of several; when a vendor and product name   *)
(* it, the first device of that name decides.                              *)
ScanFinds ==
    usb.pc = "done" =>
      /\ ~named /\ Found # {} => usb.res = "ok" /\ usb.i = First(Found)
      /\ usb.res = "ok" => usb.i \in Found
      /\ usb.res = "NotFound" => Found = {}
      /\ named => \A k \in DOMAIN usb.bus :
           Fits(usb.bus[k]) /\ ~Unreadable(usb.bus[k]) => usb.i <= k

(* What asking one device alone comes to, "none" when it works or is not   *)
(* asked for.                                                              *)
Trouble(d) ==
    IF Unreadable(d) THEN "Descriptor"
    ELSE IF named /\ ~Fits(d) THEN "none"
    ELSE IF adb_interface(d).err # "none" THEN adb_interface(d).err
    ELSE IF adb_interface(d).ifaces = <<>> THEN IF named THEN "NoAdbInterface" ELSE "none"
    ELSE IF usb.selector.by = "serial" /\ read_serial(d) \in Errors THEN read_serial(d)
    ELSE IF ~Fits(d) \/ Attempt(d) = "ok" THEN "none"
    ELSE Attempt(d)
Troubled == {k \in DOMAIN usb.bus : Trouble(usb.bus[k]) # "none"}
Decisive == {k \in DOMAIN usb.bus : named /\ Fits(usb.bus[k]) /\ ~Unreadable(usb.bus[k])}
TellsOf(S) == \E k \in S : usb.res = Trouble(usb.bus[k]) /\ \A j \in S : k <= j

(* A scan that finds nothing tells of the first device that could have     *)
(* been the one and was hidden by an error; of the first device of the     *)
(* name, when one is named, whatever went wrong with others before it; and *)
(* says NotFound only when nothing went wrong.                             *)
ScanTells ==
    usb.pc = "done" /\ usb.res # "ok" =>
      IF Decisive # {} THEN TellsOf(Decisive)
      ELSE IF Troubled # {} THEN TellsOf(Troubled)
      ELSE usb.res = "NotFound"

(* What was opened to ask for its serial, or could not be claimed, is      *)
(* closed: at the end only the device that is returned is open.            *)
NothingLeftOpen ==
    /\ usb_claimed \subseteq usb_open
    /\ usb.pc = "done" => usb_open = IF usb.res = "ok" THEN {usb.i} ELSE {}
=============================================================================
