----------------------------- MODULE FifoCredit -----------------------------
(***************************************************************************)
(* What Writer::write_channel promises about concurrent writers: credit is *)
(* granted in arrival order, and a writer that gives up is simply gone.    *)
(* `before` orders the writers that wait; `holding` have credit.           *)
(***************************************************************************)
CONSTANT Writers

VARIABLES waiting, before, holding

fifoVars == <<waiting, before, holding>>

Others(rel, w) == {p \in rel : p[1] # w /\ p[2] # w}

FifoInit == waiting = {} /\ before = {} /\ holding = {}

Join(w) ==
    /\ w \notin waiting \cup holding
    /\ waiting' = waiting \cup {w}
    /\ before' = before \cup {<<v, w>> : v \in waiting}
    /\ UNCHANGED holding

(* Only the one nobody is before gets credit.                              *)
Grant(w) ==
    /\ w \in waiting /\ \A v \in waiting : <<v, w>> \notin before
    /\ waiting' = waiting \ {w}
    /\ before' = Others(before, w)
    /\ holding' = holding \cup {w}

GiveUp(w) ==
    /\ w \in waiting
    /\ waiting' = waiting \ {w}
    /\ before' = Others(before, w)
    /\ UNCHANGED holding

Release(w) ==
    /\ w \in holding
    /\ holding' = holding \ {w}
    /\ UNCHANGED <<waiting, before>>

(* The channel is freed under those that wait.                             *)
Disband == waiting' = {} /\ before' = {} /\ UNCHANGED holding

FifoNext ==
    Disband \/ \E w \in Writers : Join(w) \/ Grant(w) \/ GiveUp(w) \/ Release(w)

FifoSpec == FifoInit /\ [][FifoNext]_fifoVars
=============================================================================
