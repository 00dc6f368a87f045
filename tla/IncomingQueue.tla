---------------------------- MODULE IncomingQueue ----------------------------
(* IncomingQueue (base/incoming.rs): the OPENs of the device that wait for *)
(* a verdict, a sequence of the device's ids, first come first.            *)
EXTENDS Integers, FiniteSets, Sequences

(* IncomingQueue::withdraw keeps, in their order, the other requests: each *)
(* moves up by the number of those that go before it.                      *)
withdraw(q, remote) ==
    LET goes == {i \in DOMAIN q : q[i] = remote}
    IN [k \in 1 .. Len(q) - Cardinality(goes) |->
          q[CHOOSE i \in DOMAIN q \ goes : k = i - Cardinality({j \in goes : j < i})]]
=============================================================================
