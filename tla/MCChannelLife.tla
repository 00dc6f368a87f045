---------------------------- MODULE MCChannelLife ----------------------------
(* Small instances of ChannelLife.                                         *)
EXTENDS ChannelLife

Driven(driver, faults, readies, race) ==
    [driver |-> driver, faults |-> faults, readies |-> readies, race |-> race]

(* One thing goes wrong at a time, with run and with calls of the Reader;  *)
(* where nothing does, READYs for data are on their way too.  The reads of *)
(* most transports may be dropped, those of the USB ones may not.          *)
EachFault ==
    {Driven("run", {}, 2, TRUE), Driven("run", {"drop", "shortReady"}, 1, TRUE),
     Driven("run", {"drop"}, 1, FALSE), Driven("run", {"eof", "stall"}, 1, TRUE),
     Driven("run", {"gone"}, 1, FALSE), Driven("run", {"readerDrop"}, 1, TRUE),
     Driven("calls", {"drop"}, 1, TRUE), Driven("calls", {"shortReady"}, 1, FALSE)}
=============================================================================
