------------------------------ MODULE SendQueue ------------------------------
(***************************************************************************)
(* The ticket queue of the writers of one channel (base/send_queue.rs).    *)
(* A writer takes the ticket `tail`; `head` is the ticket whose turn it    *)
(* is; a writer that gives up in the middle leaves a hole in `gone`.       *)
(***************************************************************************)
EXTENDS Integers, FiniteSets

Queues == [head : Nat, tail : Nat, gone : SUBSET Nat, sending : Nat]

EmptyQueue == [head |-> 0, tail |-> 0, gone |-> {}, sending |-> 0]

enqueue(q) == [q EXCEPT !.tail = @ + 1]

(* Faulty form: the newest ticket is served.                               *)
turn_last(q) == q.tail - 1

turn(q) == q.head

is_empty(q) == q.head = q.tail

is_sending(q) == q.sending > 0

(* The head moves on, past the holes it meets.                             *)
advance(q) ==
    LET h == CHOOSE p \in q.head + 1 .. q.tail :
               p \notin q.gone /\ \A r \in q.head + 1 .. p - 1 : r \in q.gone
    IN [q EXCEPT !.head = h, !.gone = @ \ (q.head + 1 .. h)]

serve(q) == [advance(q) EXCEPT !.sending = @ + 1]

finish(q) == [q EXCEPT !.sending = @ - 1]

(* The last one out takes the holes before it along.                       *)
retreat(q, place) ==
    LET t == CHOOSE p \in q.head .. place :
               /\ p = q.head \/ p - 1 \notin q.gone
               /\ \A r \in p .. place - 1 : r \in q.gone
    IN [q EXCEPT !.tail = t, !.gone = @ \ (t .. place)]

(* Faulty form: no hole is left in the middle.                             *)
leave_no_hole(q, place) ==
    CASE place = q.head -> advance(q)
      [] place # q.head /\ place + 1 = q.tail -> retreat(q, place)
      [] OTHER -> q

leave(q, place) ==
    CASE place = q.head -> advance(q)
      [] place # q.head /\ place + 1 = q.tail -> retreat(q, place)
      [] place > q.head /\ place + 1 # q.tail -> [q EXCEPT !.gone = @ \cup {place}]
      [] OTHER -> q

(* What leave returns: the next writer's turn has come.                    *)
leave_moves_head(q, place) == place = q.head
=============================================================================
