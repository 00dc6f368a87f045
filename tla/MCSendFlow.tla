----------------------------- MODULE MCSendFlow -----------------------------
(* Instances of SendFlow for TLC.                                          *)
EXTENDS SendFlow, TLC

CONSTANTS w1, w2, w3

TwoWriters == {w1, w2}
ThreeWriters == {w1, w2, w3}

WriterSymmetry == Permutations(ThreeWriters)

Case(acks, writers, amounts, faults) ==
    [acks |-> acks, writers |-> writers, amounts |-> amounts, faults |-> faults]
Either == {"Classic", "Delayed"}

(* Three writers that give up anywhere in the queue, and two that may send *)
(* in several chunks while the channel or the connection ends under them.  *)
Crowds == {Case({"Delayed"}, 3, {1}, {"drop", "free", "gone"}),
           Case(Either, 2, {3}, {"drop", "shortReady"}),
           Case(Either, 2, {3}, {"free", "writeError"})}

(* Every way a write may end.                                              *)
Endings == {Case(Either, 2, {1}, {"drop", "free", "close", "readerDrop", "writeError"})}
=============================================================================
