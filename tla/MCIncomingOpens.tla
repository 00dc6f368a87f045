--------------------------- MODULE MCIncomingOpens ---------------------------
(* TLC instances of IncomingOpens: the device's ids are model values.      *)
EXTENDS IncomingOpens

CONSTANTS r1, r2, r3

Case(mode, opens, faults) == [mode |-> mode, opens |-> opens, faults |-> faults]

(* Nothing dropped and more OPENs than there is room for, then drops at    *)
(* any point, of requests or of calls, beside every other fault.           *)
EachFault ==
    {Case("run", {r1, r2, r3}, {"withdraw"}), Case("run", {r1, r2}, {"drop", "withdraw"}),
     Case("run", {r1, r2}, {"drop", "stall"}), Case("run", {r1, r2}, {"gone", "writeError"}),
     Case("calls", {r1, r2}, {"dropCall", "withdraw"}), Case("calls", {r1, r2}, {"dropCall", "stall"}),
     Case("calls", {r1, r2}, {"drop", "gone"}), Case("calls", {r1, r2}, {"drop", "writeError"})}

WithdrawAndDrop == {Case("run", {r1, r2}, {"withdraw", "drop", "stall"})}
=============================================================================
