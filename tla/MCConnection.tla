---------------------------- MODULE MCConnection ----------------------------
(* Scenarios of Connection for TLC.                                        *)
EXTENDS Connection

Case(faults, ids, channels, bytes, writes) ==
    [faults |-> faults, ids |-> ids, channels |-> channels, bytes |-> bytes, writes |-> writes]

MCScenarios ==
    { Case({}, {1, 2}, 2, 2, 0),                    \* two live channels
      Case({"drop"}, {1, 2}, 1, 1, 1),              \* one slot, used twice
      Case({"drop", "writeError"}, {1}, 1, 4, 3),   \* a longer stream
      Case({"gone", "writeError"}, {1, 3}, 1, 1, 0),
      Case({"shortReady", "drop"}, {1, 2}, 1, 0, 2),
      Case({"overrun"}, {1}, 1, 4, 0),
      Case({"drop", "withdraw"}, {1, 3, 4}, 1, 0, 0) }
=============================================================================
