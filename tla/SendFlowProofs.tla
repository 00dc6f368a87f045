--------------------------- MODULE SendFlowProofs ---------------------------
(***************************************************************************)
(* Proofs about the writers of one channel, for every number of them, any  *)
(* amounts, every window and every way to give up or to fail: the queue    *)
(* and its wakes, the order in which credit is granted, and the credit.    *)
(***************************************************************************)
EXTENDS SendFlow, SequenceLemmas

-----------------------------------------------------------------------------
(* The invariant.                                                          *)

(* A writer has reserved no more than it still has to send.                *)
Covered == \A w \in Writers : writer[w].pc \in {"more", "ids", "lock", "send"} =>
              writer[w].n <= writer[w].left

(* The queue counts the writers that hold credit.                          *)
SendersCounted ==
    ~freed => /\ queue.head <= queue.tail
              /\ IsFiniteSet(Senders) /\ queue.sending = Cardinality(Senders)

(* A writer between its try and its wait, or waiting, with a listener that *)
(* nobody has notified: nothing has changed since its try that it should   *)
(* know of, or the wake for it is under way.                               *)
Expecting(w) == writer[w].pc \in {"none", "parked"} /\ writer[w].listener = "armed"
Due(w) == freed \/ is_closed(slot) \/ (turn(queue) = writer[w].place /\ has_budget(slot))
WakesComing ==
    \A w \in Writers : Expecting(w) =>
        /\ Due(w) => WakePending
        /\ writer[w].pc = "parked" => ~has_ended

SendInv ==
    /\ scenario \in Scenarios /\ TypeOK /\ Covered /\ SendersCounted /\ TicketsExact /\ WakesComing

-----------------------------------------------------------------------------
(* The ticket queue.                                                       *)

(* A set of naturals has a least element.                                  *)
LEMMA Least ==
    ASSUME NEW S \in SUBSET Nat, S # {}
    PROVE  \E m \in S : \A k \in S : m <= k
  <1>1. PICK m \in S : \A k \in S : ~ (<<k, m>> \in OpToRel(<, Nat))
    BY NatLessThanWellFounded, WFMin
  <1>2. \A k \in S : ~ (k < m)
    BY <1>1 DEF OpToRel
  <1> QED BY <1>2

(* The tickets that somebody waits with.                                   *)
Tickets(q) == (q.head .. q.tail - 1) \ q.gone
Sound(q) == q \in Queues /\ q.head <= q.tail /\ q.gone \subseteq q.head + 1 .. q.tail - 1

(* The head moves on to the next ticket in the queue, or to its end.       *)
LEMMA AdvanceFacts ==
    ASSUME NEW q, Sound(q), q.head < q.tail
    PROVE  /\ Sound(advance(q)) /\ advance(q).tail = q.tail /\ advance(q).sending = q.sending
           /\ Tickets(advance(q)) = Tickets(q) \ {q.head}
           /\ advance(q).head > q.head
  <1>1. q \in Queues /\ q.head \in Nat /\ q.tail \in Nat
        /\ q.gone \subseteq q.head + 1 .. q.tail - 1
    BY DEF Sound, Queues
  <1> DEFINE Free(p) == p \notin q.gone /\ \A r \in q.head + 1 .. p - 1 : r \in q.gone
             S == {p \in q.head + 1 .. q.tail : p \notin q.gone}
             h == CHOOSE p \in q.head + 1 .. q.tail : Free(p)
  <1>2. \E p \in q.head + 1 .. q.tail : Free(p)
    <2>1. S \in SUBSET Nat /\ q.tail \in S
      BY <1>1
    <2>2. PICK m \in S : \A k \in S : m <= k
      BY <2>1, Least
    <2>3. ASSUME NEW r \in q.head + 1 .. m - 1 PROVE r \in q.gone
      BY <1>1, <2>2
    <2> QED BY <2>2, <2>3
  <1>3. h \in q.head + 1 .. q.tail /\ h \notin q.gone /\ \A r \in q.head + 1 .. h - 1 : r \in q.gone
    BY <1>2
  <1>4. advance(q) = [q EXCEPT !.head = h, !.gone = q.gone \ (q.head + 1 .. h)]
    BY DEF advance
  <1> HIDE DEF h
  <1>5. /\ advance(q).head = h /\ advance(q).tail = q.tail /\ advance(q).sending = q.sending
        /\ advance(q).gone = q.gone \ (q.head + 1 .. h)
        /\ advance(q) \in Queues
    <2>1. h \in Nat /\ q.gone \ (q.head + 1 .. h) \in SUBSET Nat
      BY <1>1, <1>3 DEF Queues
    <2> QED BY <1>1, <1>4, <2>1 DEF Queues
  <1>6. Sound(advance(q))
    <2>1. \A r \in q.gone \ (q.head + 1 .. h) : r \in h + 1 .. q.tail - 1
      BY <1>1, <1>3
    <2> QED BY <1>1, <1>3, <1>5, <2>1 DEF Sound
  <1>7. \A r : r \in Tickets(advance(q)) <=> r \in Tickets(q) \ {q.head}
    <2>1. ASSUME NEW r \in h .. q.tail - 1, r \notin q.gone \ (q.head + 1 .. h)
          PROVE  r \in q.head .. q.tail - 1 /\ r \notin q.gone /\ r # q.head
      <3>1. r \in Int /\ h \in Int /\ q.head + 1 <= h
        BY <1>1, <1>3
      <3>2. CASE r = h
        BY <1>1, <1>3, <3>2
      <3>3. CASE r # h
        BY <1>1, <1>3, <2>1, <3>1, <3>3
      <3> QED BY <3>2, <3>3
    <2>2. ASSUME NEW r \in q.head .. q.tail - 1, r \notin q.gone, r # q.head
          PROVE  r \in h .. q.tail - 1 /\ r \notin q.gone \ (q.head + 1 .. h)
      <3>1. r \notin q.head + 1 .. h - 1
        BY <1>3, <2>2
      <3> QED BY <1>1, <1>3, <2>2, <3>1
    <2> QED BY <1>5, <2>1, <2>2 DEF Tickets
  <1> QED BY <1>1, <1>3, <1>5, <1>6, <1>7

(* The last one out takes its ticket and the holes before it along.        *)
LEMMA RetreatFacts ==
    ASSUME NEW q, Sound(q), NEW place \in Nat, q.head < place, place + 1 = q.tail,
           place \notin q.gone
    PROVE  /\ Sound(retreat(q, place)) /\ retreat(q, place).head = q.head
           /\ retreat(q, place).sending = q.sending
           /\ Tickets(retreat(q, place)) = Tickets(q) \ {place}
  <1>1. q \in Queues /\ q.head \in Nat /\ q.tail \in Nat
        /\ q.gone \subseteq q.head + 1 .. q.tail - 1
    BY DEF Sound, Queues
  <1> DEFINE Ends(p) == /\ p = q.head \/ p - 1 \notin q.gone
                        /\ \A r \in p .. place - 1 : r \in q.gone
             S == {p \in q.head .. place : \A r \in p .. place - 1 : r \in q.gone}
             t == CHOOSE p \in q.head .. place : Ends(p)
  <1>2. \E p \in q.head .. place : Ends(p)
    <2>1. S \in SUBSET Nat
      BY <1>1
    <2>2. place \in S
      BY <1>1
    <2>3. PICK m \in S : \A k \in S : m <= k
      BY <2>1, <2>2, Least
    <2>4. m = q.head \/ m - 1 \notin q.gone
      <3> SUFFICES ASSUME m # q.head, m - 1 \in q.gone PROVE FALSE
        OBVIOUS
      <3>1. m \in Nat /\ m - 1 \in q.head .. place
        BY <1>1, <2>3
      <3>2. ASSUME NEW r \in m - 1 .. place - 1 PROVE r \in q.gone
        <4>1. r = m - 1 \/ r \in m .. place - 1
          BY <1>1, <3>1
        <4> QED BY <2>3, <4>1
      <3>3. m - 1 \in S
        BY <3>1, <3>2
      <3> QED BY <2>3, <3>1, <3>3
    <2> QED BY <2>3, <2>4
  <1>3. t \in q.head .. place /\ \A r \in t .. place - 1 : r \in q.gone
    BY <1>2
  <1>4. t = q.head \/ t - 1 \notin q.gone
    BY <1>2
  <1>5. retreat(q, place) = [q EXCEPT !.tail = t, !.gone = q.gone \ (t .. place)]
    BY DEF retreat
  <1> HIDE DEF t
  <1>6. /\ retreat(q, place).head = q.head /\ retreat(q, place).tail = t
        /\ retreat(q, place).sending = q.sending
        /\ retreat(q, place).gone = q.gone \ (t .. place) /\ retreat(q, place) \in Queues
    <2>1. t \in Nat /\ q.gone \ (t .. place) \in SUBSET Nat
      BY <1>1, <1>3 DEF Queues
    <2> QED BY <1>1, <1>5, <2>1 DEF Queues
  <1>7. Sound(retreat(q, place))
    <2>1. \A r \in q.gone \ (t .. place) : r \in q.head + 1 .. t - 1
      BY <1>1, <1>3
    <2> QED BY <1>1, <1>3, <1>6, <2>1 DEF Sound
  <1>8. \A r : r \in Tickets(retreat(q, place)) <=> r \in Tickets(q) \ {place}
    <2>1. ASSUME NEW r \in q.head .. t - 1, r \notin q.gone \ (t .. place)
          PROVE  r \in q.head .. q.tail - 1 /\ r \notin q.gone /\ r # place
      BY <1>1, <1>3, <2>1
    <2>2. ASSUME NEW r \in q.head .. q.tail - 1, r \notin q.gone, r # place
          PROVE  r \in q.head .. t - 1 /\ r \notin q.gone \ (t .. place)
      <3>1. r \notin t .. place - 1
        BY <1>3, <2>2
      <3> QED BY <1>1, <1>3, <2>2, <3>1
    <2> QED BY <1>6, <2>1, <2>2 DEF Tickets
  <1> QED BY <1>6, <1>7, <1>8

(* Whoever leaves takes just its own ticket out of the queue; the turn is  *)
(* another's only when it was its own.                                     *)
LEMMA LeaveFacts ==
    ASSUME NEW q, Sound(q), NEW place \in Tickets(q)
    PROVE  /\ Sound(leave(q, place)) /\ leave(q, place).sending = q.sending
           /\ Tickets(leave(q, place)) = Tickets(q) \ {place}
           /\ place # q.head => leave(q, place).head = q.head
  <1>1. q \in Queues /\ q.head \in Nat /\ q.tail \in Nat
        /\ q.gone \subseteq q.head + 1 .. q.tail - 1
        /\ place \in q.head .. q.tail - 1 /\ place \notin q.gone /\ place \in Nat
    BY DEF Sound, Queues, Tickets
  <1>2. CASE place = q.head
    <2>1. leave(q, place) = advance(q)
      BY <1>1, <1>2 DEF leave
    <2> QED BY <1>1, <1>2, <2>1, AdvanceFacts
  <1>3. CASE place # q.head /\ place + 1 = q.tail
    <2>1. leave(q, place) = retreat(q, place)
      BY <1>3 DEF leave
    <2> QED BY <1>1, <1>3, <2>1, RetreatFacts
  <1>4. CASE place # q.head /\ place + 1 # q.tail
    <2>1. leave(q, place) = [q EXCEPT !.gone = q.gone \cup {place}]
      BY <1>1, <1>4 DEF leave
    <2>2. /\ leave(q, place) \in Queues /\ leave(q, place).head = q.head
          /\ leave(q, place).tail = q.tail /\ leave(q, place).sending = q.sending
          /\ leave(q, place).gone = q.gone \cup {place}
      BY <1>1, <2>1 DEF Queues
    <2>3. q.gone \cup {place} \subseteq q.head + 1 .. q.tail - 1
      BY <1>1, <1>4
    <2> QED BY <1>1, <2>2, <2>3 DEF Sound, Tickets
  <1> QED BY <1>2, <1>3, <1>4

(* A writer that comes takes a ticket after all the others.                *)
LEMMA EnqueueFacts ==
    ASSUME NEW q, Sound(q)
    PROVE  /\ Sound(enqueue(q)) /\ enqueue(q).sending = q.sending /\ enqueue(q).head = q.head
           /\ Tickets(enqueue(q)) = Tickets(q) \cup {q.tail}
           /\ \A r \in Tickets(q) : r < q.tail
  <1>1. q \in Queues /\ q.head \in Nat /\ q.tail \in Nat
        /\ q.gone \subseteq q.head + 1 .. q.tail - 1
        /\ q.head <= q.tail
    BY DEF Sound, Queues
  <1>2. /\ enqueue(q) \in Queues /\ enqueue(q).head = q.head /\ enqueue(q).tail = q.tail + 1
        /\ enqueue(q).sending = q.sending /\ enqueue(q).gone = q.gone
    BY <1>1 DEF enqueue, Queues
  <1>3. q.gone \subseteq q.head + 1 .. (q.tail + 1) - 1 /\ q.tail \notin q.gone
    BY <1>1
  <1>4. \A r : r \in q.head .. (q.tail + 1) - 1 <=> r \in q.head .. q.tail - 1 \/ r = q.tail
    BY <1>1
  <1>5. Sound(enqueue(q))
    BY <1>1, <1>2, <1>3 DEF Sound
  <1>6. Tickets(enqueue(q)) = Tickets(q) \cup {q.tail}
    BY <1>2, <1>3, <1>4 DEF Tickets
  <1>7. \A r \in Tickets(q) : r < q.tail
    BY <1>1 DEF Tickets
  <1> QED BY <1>2, <1>5, <1>6, <1>7

-----------------------------------------------------------------------------
(* Steps that leave the queue alone.                                       *)

Kept == Waiting' = Waiting /\ Ahead' = Ahead /\ Senders' = Senders

(* A writer's place among those that wait, and whether it holds credit.    *)
SameRole(v) ==
    /\ writer'[v].pc \in Queued <=> writer[v].pc \in Queued
    /\ writer'[v].pc \in Holding <=> writer[v].pc \in Holding
    /\ writer[v].pc \in Queued => writer'[v].place = writer[v].place

(* With every writer in its role, the queue stays exact.                   *)
LEMMA RolesKept ==
    ASSUME SendInv, queue' = queue, freed' = freed, \A v \in Writers : SameRole(v)
    PROVE  Kept /\ SendersCounted' /\ TicketsExact'
  <1>1. Waiting' = Waiting /\ Senders' = Senders
    BY DEF Waiting, Senders, SameRole
  <1>2. \A v \in Waiting : v \in Writers /\ writer'[v].place = writer[v].place
    BY DEF Waiting, SameRole
  <1>3. \A p \in Waiting \X Waiting :
           writer'[p[1]].place = writer[p[1]].place /\ writer'[p[2]].place = writer[p[2]].place
    BY <1>2
  <1>4. Ahead' = Ahead
    BY <1>1, <1>3 DEF Ahead
  <1>5. SendersCounted'
    BY <1>1 DEF SendInv, SendersCounted
  <1>6. {writer'[w].place : w \in Waiting'} = {writer[w].place : w \in Waiting}
    BY <1>1, <1>2
  <1>7. TicketsExact'
    BY <1>1, <1>2, <1>6 DEF SendInv, TicketsExact
  <1> QED BY <1>1, <1>4, <1>5, <1>7 DEF Kept

(* A writer moves on without a change of role.                             *)
LEMMA WriterMoves ==
    ASSUME SendInv, NEW w \in Writers, NEW r \in WriterStates,
           writer' = [writer EXCEPT ![w] = r],
           UNCHANGED <<scenario, slot, freed, queue, reader, closer, desync, stopped>>,
           TypeOK',
           r.pc \in Queued <=> writer[w].pc \in Queued,
           r.pc \in Holding <=> writer[w].pc \in Holding,
           r.pc \in Queued => r.place = writer[w].place,
           r.pc \in {"more", "ids", "lock", "send"} => r.n <= r.left,
           writer[w].pc \notin {"more", "leaveWake", "refundWake"},
           r.pc \in {"none", "parked"} /\ r.listener = "armed" =>
             /\ Due(w) => WakePending
             /\ r.pc = "parked" => ~has_ended
    PROVE  SendInv' /\ Kept
  <1>1. writer \in [Writers -> WriterStates]
    BY DEF SendInv, TypeOK
  <1>2. writer'[w] = r /\ \A v \in Writers : v # w => writer'[v] = writer[v]
    BY <1>1
  <1>3. \A v \in Writers : SameRole(v)
    BY <1>2 DEF SameRole
  <1>4. Kept /\ SendersCounted' /\ TicketsExact'
    BY <1>3, RolesKept
  <1>5. Covered'
    BY <1>2 DEF SendInv, Covered
  <1>6. WakePending => WakePending'
    BY <1>2 DEF WakePending
  <1>7. WakesComing'
    <2> SUFFICES ASSUME NEW v \in Writers, Expecting(v)'
                 PROVE  (Due(v)' => WakePending') /\ (writer'[v].pc = "parked" => ~has_ended')
      BY DEF WakesComing
    <2>1. has_ended' = has_ended
      BY DEF has_ended
    <2>2. CASE v = w
      <3>1. writer[w].place = r.place
        BY <1>2, <2>2 DEF Expecting, Queued
      <3>2. Due(v)' => Due(w)
        BY <1>2, <2>2, <3>1 DEF Due
      <3> QED BY <1>2, <1>6, <2>1, <2>2, <3>2 DEF Expecting
    <2>3. CASE v # w
      <3>1. Expecting(v) /\ (Due(v)' => Due(v)) /\ writer'[v] = writer[v]
        BY <1>2, <2>3 DEF Expecting, Due
      <3> QED BY <1>6, <2>1, <3>1 DEF SendInv, WakesComing
    <2> QED BY <2>2, <2>3
  <1> QED BY <1>4, <1>5, <1>7 DEF SendInv

(* Whoever listens is woken.                                               *)
LEMMA WakeFacts ==
    ASSUME NEW ws \in [Writers -> WriterStates]
    PROVE  /\ wake(ws) \in [Writers -> WriterStates]
           /\ \A v \in Writers :
                /\ wake(ws)[v].listener # "armed"
                /\ wake(ws)[v].pc = ws[v].pc /\ wake(ws)[v].place = ws[v].place
                /\ wake(ws)[v].n = ws[v].n /\ wake(ws)[v].left = ws[v].left
  <1> SUFFICES ASSUME NEW v \in Writers
               PROVE  /\ wake(ws)[v] \in WriterStates
                      /\ wake(ws)[v].listener # "armed"
                      /\ wake(ws)[v].pc = ws[v].pc /\ wake(ws)[v].place = ws[v].place
                      /\ wake(ws)[v].n = ws[v].n /\ wake(ws)[v].left = ws[v].left
    BY DEF wake
  <1>1. ws[v] \in WriterStates
    OBVIOUS
  <1>2. CASE ws[v].listener = "armed"
    <2>1. wake(ws)[v] = [ws[v] EXCEPT !.listener = "notified"]
      BY <1>2 DEF wake
    <2> QED BY <1>1, <2>1 DEF WriterStates
  <1>3. CASE ws[v].listener # "armed"
    <2>1. wake(ws)[v] = ws[v]
      BY <1>3 DEF wake
    <2> QED BY <1>1, <1>3, <2>1
  <1> QED BY <1>2, <1>3

(* A wake, with everybody in its role.                                     *)
LEMMA WakeStep ==
    ASSUME SendInv, UNCHANGED <<scenario, slot, freed, queue>>, TypeOK',
           \A v \in Writers : /\ SameRole(v) /\ writer'[v].listener # "armed"
                              /\ writer'[v].n = writer[v].n /\ writer'[v].left = writer[v].left
                              /\ writer'[v].pc \in {"more", "ids", "lock", "send"} =>
                                   writer[v].pc \in {"more", "ids", "lock", "send"}
    PROVE  SendInv' /\ Kept
  <1>1. Kept /\ SendersCounted' /\ TicketsExact'
    BY RolesKept
  <1>2. Covered'
    BY DEF SendInv, Covered
  <1>3. WakesComing'
    BY DEF WakesComing, Expecting
  <1> QED BY <1>1, <1>2, <1>3 DEF SendInv

(* Everybody is woken, and one writer moves on in its role.                *)
LEMMA WakeAndMove ==
    ASSUME SendInv, UNCHANGED <<scenario, slot, freed, queue>>, NEW w \in Writers, NEW pc \in Pcs,
           writer' = [wake(writer) EXCEPT ![w] = [@ EXCEPT !.pc = pc]],
           wh' \in Writers \cup {"free", "other"}, wire' \in Seq(Nat),
           UNCHANGED <<device, okays, reader, closer, stopped, gone>>, desync' \in BOOLEAN,
           pc \in Queued <=> writer[w].pc \in Queued,
           pc \in Holding <=> writer[w].pc \in Holding,
           pc \in {"more", "ids", "lock", "send"}
           => writer[w].pc \in {"more", "ids", "lock", "send"}
    PROVE  SendInv' /\ Kept
  <1>1. writer \in [Writers -> WriterStates]
    BY DEF SendInv, TypeOK
  <1> DEFINE ws == wake(writer)
             c == [ws[w] EXCEPT !.pc = pc]
  <1>2. /\ ws \in [Writers -> WriterStates]
        /\ \A v \in Writers :
             /\ ws[v].listener # "armed" /\ ws[v].pc = writer[v].pc /\ ws[v].place = writer[v].place
             /\ ws[v].n = writer[v].n /\ ws[v].left = writer[v].left
    BY <1>1, WakeFacts
  <1>3. writer' = [ws EXCEPT ![w] = c]
    OBVIOUS
  <1> HIDE DEF ws
  <1>4. c \in WriterStates /\ c.pc = pc /\ c.listener # "armed" /\ c.place = writer[w].place
        /\ c.n = writer[w].n /\ c.left = writer[w].left
    BY <1>2 DEF WriterStates
  <1> HIDE DEF c
  <1>5. /\ writer' \in [Writers -> WriterStates] /\ writer'[w] = c
        /\ \A v \in Writers : v # w => writer'[v] = ws[v]
    BY <1>2, <1>3, <1>4
  <1>6. TypeOK'
    BY <1>5 DEF SendInv, TypeOK
  <1>7. \A v \in Writers : /\ SameRole(v) /\ writer'[v].listener # "armed"
                           /\ writer'[v].n = writer[v].n /\ writer'[v].left = writer[v].left
                           /\ writer'[v].pc \in {"more", "ids", "lock", "send"} =>
                                writer[v].pc \in {"more", "ids", "lock", "send"}
    <2> SUFFICES ASSUME NEW v \in Writers
                 PROVE  /\ SameRole(v) /\ writer'[v].listener # "armed"
                        /\ writer'[v].n = writer[v].n /\ writer'[v].left = writer[v].left
                        /\ writer'[v].pc \in {"more", "ids", "lock", "send"} =>
                             writer[v].pc \in {"more", "ids", "lock", "send"}
      OBVIOUS
    <2>1. CASE v = w
      BY <1>4, <1>5, <2>1 DEF SameRole
    <2>2. CASE v # w
      BY <1>2, <1>5, <2>2 DEF SameRole
    <2> QED BY <2>1, <2>2
  <1> QED BY <1>6, <1>7, WakeStep

(* No writer moves: the slot stays, or its change is about to be told.     *)
LEMMA WritersStay ==
    ASSUME SendInv, UNCHANGED <<scenario, freed, queue, writer, desync, stopped>>, TypeOK',
           \/ reader' = "wake"
           \/ slot' = slot /\ reader # "wake" /\ closer' = closer
           \/ slot' = slot /\ reader' = reader /\ closer' = closer
    PROVE  SendInv' /\ Kept
  <1>1. Kept /\ SendersCounted' /\ TicketsExact'
    BY RolesKept DEF SameRole
  <1>2. Covered'
    BY DEF SendInv, Covered
  <1>3. WakesComing'
    <2> SUFFICES ASSUME NEW v \in Writers, Expecting(v)'
                 PROVE  (Due(v)' => WakePending') /\ (writer'[v].pc = "parked" => ~has_ended')
      BY DEF WakesComing
    <2>1. Expecting(v) /\ has_ended' = has_ended
      BY DEF Expecting, has_ended
    <2>2. writer[v].pc = "parked" => ~has_ended
      BY <2>1 DEF SendInv, WakesComing
    <2>3. CASE reader' = "wake"
      BY <2>1, <2>2, <2>3 DEF WakePending
    <2>4. CASE slot' = slot /\ (reader # "wake" \/ reader' = reader) /\ closer' = closer
      <3>1. (Due(v)' => Due(v)) /\ (WakePending => WakePending')
        BY <2>4 DEF Due, WakePending
      <3> QED BY <2>1, <2>2, <3>1 DEF SendInv, WakesComing
    <2> QED BY <2>3, <2>4
  <1> QED BY <1>1, <1>2, <1>3 DEF SendInv

(* The device's steps and the reader's leave the queue alone.              *)
LEMMA DeviceSteps == SendInv /\ DeviceNext => SendInv' /\ Kept
  <1> SUFFICES ASSUME SendInv, DeviceNext PROVE SendInv' /\ Kept
    OBVIOUS
  <1>1. /\ UNCHANGED <<scenario, slot, freed, queue, writer, wh, reader, closer, desync, stopped>>
        /\ TypeOK
    BY DEF DeviceNext, DeviceReceive, DeviceReady, DeviceClose, TransportFails, SendInv
  <1>2. wire \in Seq(Nat) /\ okays \in Seq(Nat \cup {ShortPayload, Clse})
        /\ device \in [bytes : Nat, writes : Nat, closed : BOOLEAN] /\ gone \in BOOLEAN
    BY <1>1 DEF TypeOK
  <1>3. /\ wire' \in Seq(Nat) /\ okays' \in Seq(Nat \cup {ShortPayload, Clse})
        /\ device' \in [bytes : Nat, writes : Nat, closed : BOOLEAN] /\ gone' \in BOOLEAN
    <2>1. CASE DeviceReceive
      <3>1. wire' = Tail(wire) /\ wire # <<>> /\ UNCHANGED <<okays, gone>>
            /\ device' = [device EXCEPT !.bytes = device.bytes + Head(wire),
                                        !.writes = device.writes + 1]
        BY <2>1 DEF DeviceReceive
      <3>2. wire' \in Seq(Nat) /\ Head(wire) \in Nat
        BY <1>2, <3>1
      <3>3. device.bytes + Head(wire) \in Nat /\ device.writes + 1 \in Nat
        BY <1>2, <3>2
      <3>4. device' \in [bytes : Nat, writes : Nat, closed : BOOLEAN]
        BY <1>2, <3>1, <3>3
      <3> QED BY <1>2, <3>1, <3>2, <3>4
    <2>2. CASE DeviceReady
      <3>1. PICK credit \in IF slot.ack = "Delayed" THEN 1 .. device.bytes ELSE {device.bytes} :
              /\ okays' = Append(okays, credit)
              /\ device' = [device EXCEPT !.bytes = device.bytes - credit,
                                          !.writes = IF device.bytes = credit THEN 0
                                                     ELSE device.writes]
        BY <2>2 DEF DeviceReady
      <3>2. credit \in Nat /\ device.bytes - credit \in Nat
        BY <1>2, <3>1
      <3>3. okays' \in Seq(Nat \cup {ShortPayload, Clse})
        BY <1>2, <3>1, <3>2
      <3> QED BY <1>2, <2>2, <3>1, <3>2, <3>3 DEF DeviceReady
    <2>3. CASE DeviceClose
      <3>1. /\ okays' = Append(okays, Clse) \/ okays' = Append(okays, ShortPayload)
            /\ device' = [device EXCEPT !.closed = TRUE] /\ UNCHANGED <<wire, gone>>
        BY <2>3 DEF DeviceClose
      <3>2. device' \in [bytes : Nat, writes : Nat, closed : BOOLEAN]
        BY <1>2, <3>1
      <3>3. CASE okays' = Append(okays, Clse)
        BY <1>2, <3>1, <3>2, <3>3
      <3>4. CASE okays' = Append(okays, ShortPayload)
        BY <1>2, <3>1, <3>2, <3>4
      <3> QED BY <3>1, <3>3, <3>4
    <2>4. CASE TransportFails
      BY <1>2, <2>4 DEF TransportFails
    <2> QED BY <2>1, <2>2, <2>3, <2>4 DEF DeviceNext
  <1>4. TypeOK'
    BY <1>1, <1>3 DEF TypeOK
  <1> QED BY <1>1, <1>4, WritersStay

(* What READY, CLSE and a failure make of a slot is a slot.                *)
LEMMA SlotOps ==
    ASSUME NEW s \in Slots, NEW n \in Int
    PROVE  /\ apply_close(s) \in Slots /\ fail(s) \in Slots
           /\ apply_ready(s, n) \in Slots /\ spend(s, n) \in Slots /\ refund(s, n) \in Slots
           /\ refund(s, n).state = s.state /\ spend(s, n).state = s.state
  <1>1. s.send_budget + n \in Int /\ s.send_budget - n \in Int
    BY DEF Slots
  <1> QED BY <1>1 DEF Slots, apply_close, fail, apply_ready, spend, refund

(* Reader::run: credit comes, the channel closes or fails, and the wake.   *)
LEMMA ReaderSteps ==
    SendInv /\ (Receive \/ FailChannel \/ ReaderWake \/ ReaderEnds) => SendInv' /\ Kept
  <1> SUFFICES ASSUME SendInv, Receive \/ FailChannel \/ ReaderWake \/ ReaderEnds
               PROVE  SendInv' /\ Kept
    OBVIOUS
  <1>1. TypeOK /\ slot \in Slots /\ okays \in Seq(Nat \cup {ShortPayload, Clse})
        /\ writer \in [Writers -> WriterStates]
    BY DEF SendInv, TypeOK
  <1>2. CASE Receive
    <2>1. /\ okays' = Tail(okays) /\ okays # <<>> /\ reader = "recv"
          /\ UNCHANGED <<scenario, freed, queue, writer, wh, wire, device,
                         closer, desync, stopped, gone>>
      BY <1>2 DEF Receive
    <2>2. okays' \in Seq(Nat \cup {ShortPayload, Clse}) /\ Head(okays) \in Int
      BY <1>1, <2>1 DEF ShortPayload, Clse
    <2>3. \/ slot' = slot /\ reader' \in {"recv", "fail"}
          \/ slot' \in {apply_close(slot), apply_ready(slot, Head(okays))} /\ reader' = "wake"
      BY <1>2 DEF Receive
    <2>4. slot' \in Slots /\ reader' \in {"recv", "fail", "wake", "done"}
      BY <1>1, <2>2, <2>3, SlotOps
    <2>5. TypeOK'
      BY <1>1, <2>1, <2>2, <2>4 DEF TypeOK
    <2> QED BY <2>1, <2>3, <2>5, WritersStay
  <1>3. CASE FailChannel
    <2>1. /\ reader = "fail"
          /\ UNCHANGED <<scenario, freed, queue, writer, wh, wire, device, okays,
                         closer, desync, stopped, gone>>
          /\ \/ slot' = slot /\ reader' = "recv"
             \/ slot' = fail(slot) /\ reader' = "wake"
      BY <1>3 DEF FailChannel
    <2>2. 0 \in Int
      OBVIOUS
    <2>3. slot' \in Slots
      BY <1>1, <2>1, <2>2, SlotOps
    <2>4. TypeOK'
      BY <1>1, <2>1, <2>3 DEF TypeOK
    <2> QED BY <2>1, <2>4, WritersStay
  <1>4. CASE ReaderWake \/ ReaderEnds
    <2>1. /\ UNCHANGED <<scenario, slot, freed, queue, wh, wire, device, okays,
                         closer, desync, gone>>
          /\ writer' = wake(writer) /\ reader' \in {"recv", "done"} /\ stopped' \in BOOLEAN
      BY <1>1, <1>4 DEF ReaderWake, ReaderEnds, TypeOK
    <2>2. TypeOK'
      BY <1>1, <2>1, WakeFacts DEF TypeOK
    <2> QED BY <1>1, <2>1, <2>2, WakeFacts, WakeStep DEF SameRole
  <1> QED BY <1>2, <1>3, <1>4

(* So do the wake of close_channel and whoever else has the write half.    *)
LEMMA OtherSteps == SendInv /\ (CloseWakes \/ OtherLocks \/ OtherUnlocks) => SendInv' /\ Kept
  <1> SUFFICES ASSUME SendInv, CloseWakes \/ OtherLocks \/ OtherUnlocks PROVE SendInv' /\ Kept
    OBVIOUS
  <1>1. TypeOK /\ writer \in [Writers -> WriterStates]
    BY DEF SendInv, TypeOK
  <1>2. CASE writer' = wake(writer) /\ ~OtherLocks
    <2>1. /\ UNCHANGED <<scenario, slot, freed, queue, wire, device, okays, reader, stopped, gone>>
          /\ wh' \in Writers \cup {"free", "other"} /\ closer' \in {"no", "wake", "done"}
          /\ desync' \in BOOLEAN
      BY <1>1, <1>2 DEF CloseWakes, OtherUnlocks, TypeOK
    <2>2. TypeOK'
      BY <1>1, <1>2, <2>1, WakeFacts DEF TypeOK
    <2> QED BY <1>1, <1>2, <2>1, <2>2, WakeFacts, WakeStep DEF SameRole
  <1>3. CASE OtherLocks \/ (OtherUnlocks /\ ~desync')
    <2>1. /\ UNCHANGED <<scenario, slot, freed, queue, writer, wire, device, okays, reader, closer,
                         stopped, gone, desync>>
          /\ wh' \in Writers \cup {"free", "other"}
      BY <1>1, <1>3 DEF OtherLocks, OtherUnlocks, TypeOK
    <2>2. TypeOK'
      BY <1>1, <2>1 DEF TypeOK
    <2> QED BY <2>1, <2>2, WritersStay
  <1>4. OtherLocks \/ (OtherUnlocks /\ ~desync') \/ (writer' = wake(writer) /\ ~OtherLocks)
    BY DEF CloseWakes, OtherLocks, OtherUnlocks
  <1> QED BY <1>2, <1>3, <1>4

(* So do these of a writer's steps.                                        *)
LEMMA WriterSteps ==
    ASSUME SendInv, NEW w \in Writers,
           \/ Start(w) \/ Listen(w) \/ Park(w) \/ Woken(w) \/ GetIds(w) \/ LockWrite(w)
           \/ SendChunk(w) \/ DropWrite(w)
    PROVE  SendInv' /\ Kept
  <1>1. TypeOK /\ writer \in [Writers -> WriterStates] /\ writer[w] \in WriterStates
        /\ wire \in Seq(Nat) /\ wh \in Writers \cup {"free", "other"} /\ scenario \in Scenarios
    BY DEF SendInv, TypeOK
  <1> DEFINE c == writer[w]
  <1>2. ASSUME NEW r \in WriterStates, writer' = [writer EXCEPT ![w] = r],
               UNCHANGED <<scenario, slot, freed, queue, device, okays, reader, closer, desync,
                           stopped, gone>>,
               wire' \in Seq(Nat), wh' \in Writers \cup {"free", "other"},
               r.pc \in Queued <=> c.pc \in Queued,
               r.pc \in Holding <=> c.pc \in Holding,
               r.pc \in Queued => r.place = c.place,
               r.pc \in {"more", "ids", "lock", "send"} => r.n <= r.left,
               c.pc \notin {"more", "leaveWake", "refundWake"},
               r.pc \in {"none", "parked"} /\ r.listener = "armed" =>
                 /\ Due(w) => WakePending
                 /\ r.pc = "parked" => ~has_ended
        PROVE  SendInv' /\ Kept
    <2>1. TypeOK'
      BY <1>1, <1>2 DEF TypeOK
    <2> QED BY <1>2, <2>1, WriterMoves
  <1>3. ASSUME NEW pc \in Pcs, NEW lis \in {"none", "armed", "notified"}
        PROVE  LET r == [c EXCEPT !.pc = pc, !.listener = lis]
               IN  r \in WriterStates /\ r.pc = pc /\ r.listener = lis /\ r.place = c.place
                   /\ r.n = c.n /\ r.left = c.left
    BY <1>1 DEF WriterStates
  <1>4. ASSUME NEW pc \in Pcs
        PROVE  LET r == [c EXCEPT !.pc = pc]
               IN  r \in WriterStates /\ r.pc = pc /\ r.listener = c.listener /\ r.place = c.place
                   /\ r.n = c.n /\ r.left = c.left
    BY <1>1 DEF WriterStates
  <1>5. CASE Start(w)
    <2>1. PICK len \in scenario.amounts :
            writer' = [writer EXCEPT ![w] = [IdleWriter EXCEPT !.pc = "enqueue", !.left = len,
                                                               !.calls = writer[w].calls + 1]]
      BY <1>5 DEF Start
    <2> DEFINE r == [IdleWriter EXCEPT !.pc = "enqueue", !.left = len,
                                       !.calls = writer[w].calls + 1]
    <2>2. len \in Nat /\ writer[w].calls + 1 \in 0 .. MaxCalls /\ c.pc = "idle"
      <3>1. len \in Nat
        BY <1>1, <2>1, SendFlowAssumption
      <3>2. writer[w].calls \in 0 .. MaxCalls /\ MaxCalls \in Nat
        BY <1>1, SendFlowAssumption DEF WriterStates
      <3>3. writer[w].calls < MaxCalls /\ c.pc = "idle"
        BY <1>5 DEF Start
      <3> QED BY <3>1, <3>2, <3>3
    <2>3. r \in WriterStates /\ r.pc = "enqueue"
      BY <2>2 DEF IdleWriter, WriterStates, Pcs
    <2> HIDE DEF r
    <2> QED BY <1>1, <1>2, <1>5, <2>1, <2>2, <2>3 DEF Start, r, Queued, Holding
  <1>6. CASE Listen(w)
    <2>1. "try" \in Pcs /\ "armed" \in {"none", "armed", "notified"}
      BY DEF Pcs, Queued
    <2>2. c.pc = "listen"
          /\ writer' = [writer EXCEPT ![w] = [c EXCEPT !.pc = "try", !.listener = "armed"]]
      BY <1>6 DEF Listen
    <2> HIDE DEF c
    <2> QED BY <1>1, <1>2, <1>3, <1>6, <2>1, <2>2 DEF Listen, Queued, Holding
  <1>7. CASE Park(w)
    <2> DEFINE pc == IF has_ended THEN "leave" ELSE "parked"
    <2>1. pc \in Pcs
      BY DEF Pcs, Queued
    <2>2. c.pc = "none" /\ writer' = [writer EXCEPT ![w] = [c EXCEPT !.pc = pc]]
      BY <1>7 DEF Park, To
    <2>3. c.listener = "armed" => (Due(w) => WakePending)
      BY <2>2 DEF SendInv, WakesComing, Expecting
    <2>4. pc \in Queued /\ pc \notin Holding /\ pc \notin {"more", "ids", "lock", "send"}
          /\ (pc = "parked" => ~has_ended)
      BY DEF Queued, Holding
    <2> HIDE DEF c, pc
    <2> QED BY <1>1, <1>2, <1>4, <1>7, <2>1, <2>2, <2>3, <2>4 DEF Park, Queued, Holding
  <1>8. CASE Woken(w)
    <2>1. "listen" \in Pcs /\ "none" \in {"none", "armed", "notified"}
      BY DEF Pcs, Queued
    <2>2. c.pc = "parked"
          /\ writer' = [writer EXCEPT ![w] = [c EXCEPT !.pc = "listen", !.listener = "none"]]
      BY <1>8 DEF Woken
    <2> DEFINE r == [c EXCEPT !.pc = "listen", !.listener = "none"]
    <2>3. r \in WriterStates /\ r.pc = "listen" /\ r.place = c.place
      BY <1>3, <2>1
    <2> HIDE DEF c, r
    <2>4. writer' = [writer EXCEPT ![w] = r]
      BY <2>2 DEF r
    <2> QED BY <1>1, <1>2, <1>8, <2>2, <2>3, <2>4 DEF Woken, Queued, Holding
  <1>9. c.pc \in {"ids", "lock", "send"} => c.n <= c.left
    BY DEF SendInv, Covered
  <1>10. CASE GetIds(w)
    <2> DEFINE pc == IF freed THEN "refund" ELSE "lock"
    <2>1. pc \in Pcs
      BY DEF Pcs, Holding
    <2>2. c.pc = "ids" /\ writer' = [writer EXCEPT ![w] = [c EXCEPT !.pc = pc]]
      BY <1>10 DEF GetIds, To
    <2>3. pc \in Holding /\ pc \notin Queued /\ pc \notin {"none", "parked"}
      BY DEF Queued, Holding
    <2> HIDE DEF c, pc
    <2> QED BY <1>1, <1>2, <1>4, <1>9, <1>10, <2>1, <2>2, <2>3 DEF GetIds, Queued, Holding
  <1>11. CASE LockWrite(w)
    <2>1. "send" \in Pcs
      BY DEF Pcs, Holding
    <2>2. c.pc = "lock" /\ writer' = [writer EXCEPT ![w] = [c EXCEPT !.pc = "send"]] /\ wh' = w
      BY <1>11 DEF LockWrite, To
    <2> HIDE DEF c
    <2> QED BY <1>1, <1>2, <1>4, <1>9, <1>11, <2>1, <2>2 DEF LockWrite, Queued, Holding
  <1>12. CASE SendChunk(w)
    <2> DEFINE r == [c EXCEPT !.pc = "finish", !.left = c.left - c.n]
    <2>1. c.pc = "send" /\ writer' = [writer EXCEPT ![w] = r]
          /\ wire' = Append(wire, c.n) /\ wh' = "free"
      BY <1>12 DEF SendChunk
    <2>2. c.left - c.n \in Nat /\ c.n \in Nat
      BY <1>1, <1>9, <2>1 DEF WriterStates
    <2>3. r \in WriterStates /\ r.pc = "finish"
      BY <1>1, <2>2 DEF WriterStates, Pcs, Holding
    <2>4. wire' \in Seq(Nat)
      BY <1>1, <2>1, <2>2
    <2> HIDE DEF c, r
    <2> QED BY <1>1, <1>2, <1>12, <2>1, <2>3, <2>4 DEF SendChunk, Queued, Holding
  <1>13. CASE DropWrite(w)
    <2> DEFINE pc == IF c.pc = "parked" THEN "leave" ELSE "refund"
    <2>1. pc \in Pcs
      BY DEF Pcs, Holding, Queued
    <2>2. c.pc \in {"parked", "lock"} /\ writer' = [writer EXCEPT ![w] = [c EXCEPT !.pc = pc]]
      BY <1>13 DEF DropWrite, To
    <2>3. (pc \in Holding <=> c.pc \in Holding) /\ (pc \in Queued <=> c.pc \in Queued)
          /\ pc \in {"leave", "refund"}
      BY <2>2 DEF Queued, Holding
    <2> HIDE DEF c, pc
    <2> QED BY <1>1, <1>2, <1>4, <1>13, <2>1, <2>2, <2>3 DEF DropWrite
  <1> QED BY <1>5, <1>6, <1>7, <1>8, <1>10, <1>11, <1>12, <1>13

(* So do a writer's wakes, and a packet that does not get out.             *)
LEMMA WriterWakes ==
    ASSUME SendInv, NEW w \in Writers,
           WakeNext(w) \/ LeaveWakes(w) \/ RefundWakes(w) \/ SendRefused(w) \/ SendAbandoned(w)
    PROVE  SendInv' /\ Kept
  <1>1. TypeOK /\ writer \in [Writers -> WriterStates] /\ writer[w] \in WriterStates
        /\ wire \in Seq(Nat) /\ wh \in Writers \cup {"free", "other"} /\ desync \in BOOLEAN
    BY DEF SendInv, TypeOK
  <1>2. "ids" \in Pcs /\ "idle" \in Pcs /\ "refund" \in Pcs
    BY DEF Pcs, Holding
  <1>3. CASE WakeNext(w)
    BY <1>1, <1>2, <1>3, WakeAndMove DEF WakeNext, Queued, Holding
  <1>4. CASE LeaveWakes(w)
    BY <1>1, <1>2, <1>4, WakeAndMove DEF LeaveWakes, Queued, Holding
  <1>5. CASE RefundWakes(w)
    BY <1>1, <1>2, <1>5, WakeAndMove DEF RefundWakes, Queued, Holding
  <1>6. CASE SendRefused(w) /\ desync
    BY <1>1, <1>2, <1>6, WakeAndMove DEF SendRefused, Queued, Holding
  <1>7. CASE SendRefused(w) /\ ~desync
    <2> DEFINE r == [writer[w] EXCEPT !.pc = "refund"]
    <2>1. /\ writer[w].pc = "send" /\ writer' = [writer EXCEPT ![w] = r] /\ wh' = "free"
          /\ UNCHANGED <<scenario, slot, freed, queue, wire, device, okays, reader, closer, desync,
                         stopped, gone>>
      BY <1>7 DEF SendRefused
    <2>2. r \in WriterStates /\ r.pc = "refund"
      BY <1>1, <1>2 DEF WriterStates
    <2> HIDE DEF r
    <2>3. TypeOK'
      BY <1>1, <2>1, <2>2 DEF TypeOK
    <2> QED BY <2>1, <2>2, <2>3, WriterMoves DEF Queued, Holding
  <1>8. CASE SendAbandoned(w)
    <2>1. writer[w].n \in Nat
      BY <1>1 DEF WriterStates
    <2>2. wire' \in Seq(Nat)
      <3>1. wire' = wire \/ wire' = Append(wire, writer[w].n)
        BY <1>8 DEF SendAbandoned
      <3>2. CASE wire' = wire
        BY <1>1, <3>2
      <3>3. CASE wire' = Append(wire, writer[w].n)
        BY <1>1, <2>1, <3>3
      <3> QED BY <3>1, <3>2, <3>3
    <2> QED BY <1>1, <1>2, <1>8, <2>2, WakeAndMove DEF SendAbandoned, Queued, Holding
  <1> QED BY <1>3, <1>4, <1>5, <1>6, <1>7, <1>8

-----------------------------------------------------------------------------
(* Steps that change the queue.                                            *)

Places == {writer[w].place : w \in Waiting}

(* What the invariant says of the queue, and what is enough to keep it.    *)
LEMMA QueueSound ==
    ASSUME SendInv, ~freed
    PROVE  /\ Sound(queue) /\ Places = Tickets(queue)
           /\ \A v, w \in Waiting : writer[v].place = writer[w].place => v = w
  BY DEF SendInv, TypeOK, SendersCounted, TicketsExact, Sound, Places, Tickets

(* A sound queue with these tickets is what TicketsExact asks for.         *)
LEMMA SoundKept ==
    ASSUME Sound(queue)', Places' = Tickets(queue)',
           \A v, w \in Waiting' : writer'[v].place = writer'[w].place => v = w
    PROVE  TicketsExact' /\ (queue.head <= queue.tail)'
  BY DEF TicketsExact, Sound, Places, Tickets

(* A writer moves on with the queue or the slot: nobody misses its turn.   *)
LEMMA QueueMoves ==
    ASSUME SendInv, NEW w \in Writers, NEW r \in WriterStates,
           writer' = [writer EXCEPT ![w] = r],
           UNCHANGED <<scenario, freed, reader, closer, desync, stopped>>,
           TypeOK', SendersCounted', TicketsExact',
           r.pc \in {"more", "ids", "lock", "send"} => r.n <= r.left,
           writer[w].pc \notin {"more", "leaveWake", "refundWake"},
           r.pc \notin {"none", "parked"},
           \/ r.pc \in {"more", "leaveWake", "refundWake"}
           \/ \A v \in Writers \ {w} : Due(v)' => Due(v)
    PROVE  SendInv'
  <1>1. writer \in [Writers -> WriterStates]
    BY DEF SendInv, TypeOK
  <1>2. writer'[w] = r /\ \A v \in Writers : v # w => writer'[v] = writer[v]
    BY <1>1
  <1>3. Covered'
    BY <1>2 DEF SendInv, Covered
  <1>4. WakePending => WakePending'
    BY <1>2 DEF WakePending
  <1>5. WakesComing'
    <2> SUFFICES ASSUME NEW v \in Writers, Expecting(v)'
                 PROVE  (Due(v)' => WakePending') /\ (writer'[v].pc = "parked" => ~has_ended')
      BY DEF WakesComing
    <2>1. v # w /\ has_ended' = has_ended
      BY <1>2 DEF Expecting, has_ended
    <2>2. Expecting(v) /\ writer'[v] = writer[v]
      BY <1>2, <2>1 DEF Expecting
    <2>3. (Due(v) => WakePending) /\ (writer[v].pc = "parked" => ~has_ended)
      BY <2>2 DEF SendInv, WakesComing
    <2>4. CASE r.pc \in {"more", "leaveWake", "refundWake"}
      <3>1. WakePending'
        BY <1>2, <2>4 DEF WakePending
      <3> QED BY <2>1, <2>2, <2>3, <3>1
    <2>5. CASE \A u \in Writers \ {w} : Due(u)' => Due(u)
      BY <1>4, <2>1, <2>2, <2>3, <2>5
    <2> QED BY <2>4, <2>5
  <1> QED BY <1>3, <1>5 DEF SendInv

(* close_channel takes the queue away from all that wait.                  *)
LEMMA CloseStep == SendInv /\ Close => SendInv' /\ Fifo!Disband
  <1> SUFFICES ASSUME SendInv, Close PROVE SendInv' /\ Fifo!Disband
    OBVIOUS
  <1>1. /\ freed' = TRUE /\ closer' = "wake"
        /\ UNCHANGED <<scenario, slot, queue, writer, wh, wire, device, okays, reader, desync,
                       stopped, gone>>
    BY DEF Close
  <1>2. TypeOK'
    BY <1>1 DEF SendInv, TypeOK
  <1>3. Covered' /\ SendersCounted' /\ TicketsExact'
    BY <1>1 DEF SendInv, Covered, SendersCounted, TicketsExact
  <1>4. WakesComing'
    BY <1>1 DEF SendInv, WakesComing, Expecting, Due, WakePending, has_ended
  <1>5. Waiting' = {} /\ Senders' = Senders
    BY <1>1 DEF Waiting, Senders
  <1>6. Ahead' = {}
    BY <1>5 DEF Ahead
  <1> QED BY <1>1, <1>2, <1>3, <1>4, <1>5, <1>6 DEF SendInv, Fifo!Disband

(* A writer queues up behind all that wait.                                *)
LEMMA EnqueueStep ==
    ASSUME SendInv, NEW w \in Writers, Enqueue(w)
    PROVE  SendInv' /\ (Kept \/ Fifo!Join(w))
  <1>1. TypeOK /\ writer \in [Writers -> WriterStates] /\ writer[w] \in WriterStates
        /\ writer[w].pc = "enqueue" /\ queue \in Queues
    BY DEF SendInv, TypeOK, Enqueue
  <1>2. CASE freed \/ is_closed(slot)
    <2> DEFINE r == [writer[w] EXCEPT !.pc = "idle"]
    <2>1. writer' = [writer EXCEPT ![w] = r] /\ queue' = queue
      BY <1>2 DEF Enqueue, To
    <2>2. r \in WriterStates /\ r.pc = "idle"
      BY <1>1 DEF WriterStates, Pcs
    <2> HIDE DEF r
    <2>3. TypeOK'
      BY <1>1, <2>1, <2>2 DEF TypeOK, Enqueue
    <2> QED BY <1>1, <2>1, <2>2, <2>3, WriterMoves DEF Enqueue, Queued, Holding
  <1>3. CASE ~(freed \/ is_closed(slot))
    <2> DEFINE r == [writer[w] EXCEPT !.pc = "listen", !.place = queue.tail]
    <2>1. writer' = [writer EXCEPT ![w] = r] /\ queue' = enqueue(queue)
          /\ UNCHANGED <<scenario, slot, freed, wh, wire, device, okays, reader, closer, desync,
                         stopped, gone>>
      BY <1>3 DEF Enqueue
    <2>2. r \in WriterStates /\ r.pc = "listen" /\ r.place = queue.tail
      BY <1>1 DEF WriterStates, Pcs, Queued, Queues
    <2> HIDE DEF r
    <2>3. writer'[w] = r /\ \A v \in Writers : v # w => writer'[v] = writer[v]
      BY <1>1, <2>1
    <2>4. /\ Sound(queue) /\ Places = Tickets(queue)
          /\ \A u, v \in Waiting : writer[u].place = writer[v].place => u = v
      BY <1>3, QueueSound
    <2>5. /\ Sound(queue') /\ queue'.sending = queue.sending /\ queue'.head = queue.head
          /\ Tickets(queue') = Tickets(queue) \cup {queue.tail}
          /\ \A p \in Tickets(queue) : p < queue.tail
      BY <2>1, <2>4, EnqueueFacts
    <2>6. w \notin Waiting \cup Senders /\ Waiting' = Waiting \cup {w} /\ Senders' = Senders
      BY <1>1, <1>3, <2>1, <2>2, <2>3 DEF Waiting, Senders, Queued, Holding
    <2>7. /\ writer'[w].place = queue.tail
          /\ \A v \in Waiting : /\ v \in Writers /\ v # w /\ writer'[v].place = writer[v].place
                                /\ writer[v].place \in Nat /\ writer[v].place < queue.tail
      <3>1. \A v \in Waiting : v \in Writers /\ v # w /\ writer[v].place \in Places
        BY <2>6 DEF Waiting, Places
      <3>2. \A v \in Writers : writer[v].place \in Nat
        BY <1>1 DEF WriterStates
      <3> QED BY <2>2, <2>3, <2>4, <2>5, <3>1, <3>2
    <2>8. Places' = Tickets(queue')
      <3>1. Places' = Places \cup {queue.tail}
        BY <2>6, <2>7 DEF Places
      <3> QED BY <2>4, <2>5, <3>1
    <2>9. \A u, v \in Waiting' : writer'[u].place = writer'[v].place => u = v
      <3>1. queue.tail \in Nat
        BY <1>1 DEF Queues
      <3> QED BY <2>4, <2>6, <2>7, <3>1
    <2>10. TicketsExact' /\ SendersCounted'
      <3>1. TicketsExact' /\ queue'.head <= queue'.tail
        BY <2>5, <2>8, <2>9, SoundKept DEF Sound, Tickets
      <3> QED BY <1>3, <2>1, <2>5, <2>6, <3>1 DEF SendInv, SendersCounted
    <2>11. TypeOK'
      BY <1>1, <2>1, <2>2, <2>5 DEF TypeOK, Sound
    <2>12. \A v \in Writers \ {w} : Due(v)' => Due(v)
      BY <2>1, <2>3, <2>5 DEF Due, turn
    <2>13. SendInv'
      BY <1>1, <2>1, <2>2, <2>10, <2>11, <2>12, QueueMoves
    <2>14. Ahead' = Ahead \cup {<<v, w>> : v \in Waiting}
      <3>1. queue.tail \in Nat
        BY <1>1 DEF Queues
      <3>2. ASSUME NEW u \in Waiting', NEW v \in Waiting'
            PROVE  writer'[u].place < writer'[v].place <=>
                     \/ u \in Waiting /\ v \in Waiting /\ writer[u].place < writer[v].place
                     \/ u \in Waiting /\ v = w
        BY <2>6, <2>7, <3>1
      <3> QED BY <2>6, <3>2 DEF Ahead
    <2> QED BY <2>6, <2>13, <2>14 DEF Fifo!Join
  <1> QED BY <1>2, <1>3

(* One of those that wait is taken out: what is left is as it was.         *)
LEMMA TakenOut ==
    ASSUME SendInv, ~freed, ~freed', NEW w \in Waiting,
           \A v \in Writers : v # w => writer'[v] = writer[v],
           writer'[w].pc \notin Queued,
           Sound(queue'), Tickets(queue') = Tickets(queue) \ {writer[w].place}
    PROVE  /\ Waiting' = Waiting \ {w} /\ Ahead' = Fifo!Others(Ahead, w)
           /\ TicketsExact' /\ queue'.head <= queue'.tail
  <1>1. Waiting' = Waiting \ {w} /\ w \in Writers
    BY DEF Waiting
  <1>2. /\ Sound(queue) /\ Places = Tickets(queue)
        /\ \A u, v \in Waiting : writer[u].place = writer[v].place => u = v
    BY QueueSound
  <1>3. \A v \in Waiting' : v \in Waiting /\ v # w /\ writer'[v] = writer[v]
    BY <1>1 DEF Waiting
  <1>4. Places' = Places \ {writer[w].place}
    BY <1>1, <1>2, <1>3 DEF Places
  <1>5. TicketsExact' /\ queue'.head <= queue'.tail
    BY <1>2, <1>3, <1>4, SoundKept DEF Sound, Tickets
  <1>6. Ahead' = Fifo!Others(Ahead, w)
    <2>1. Ahead' = {p \in Waiting' \X Waiting' : writer'[p[1]].place < writer'[p[2]].place}
      BY DEF Ahead
    <2>2. \A p \in Waiting' \X Waiting' :
             writer'[p[1]].place = writer[p[1]].place /\ writer'[p[2]].place = writer[p[2]].place
      BY <1>3
    <2>3. \A p : p \in Waiting' \X Waiting' <=> p \in Waiting \X Waiting /\ p[1] # w /\ p[2] # w
      BY <1>1
    <2> QED BY <2>1, <2>2, <2>3 DEF Ahead, Fifo!Others
  <1> QED BY <1>1, <1>5, <1>6

(* What a writer reserves is no more than it wants to send.                *)
LEMMA ReserveFacts ==
    ASSUME NEW s \in Slots, has_budget(s), NEW left \in Nat
    PROVE  LET n == reserve_len(s, AtMost(left, MaxPayload)) IN n \in Nat /\ n <= left
  <1>1. MaxPayload \in Nat /\ s.send_budget \in Int
    BY ConfigAssumption DEF Slots
  <1>2. AtMost(left, MaxPayload) \in Nat /\ AtMost(left, MaxPayload) <= left
    BY <1>1 DEF AtMost
  <1>3. CASE s.ack = "Delayed"
    <2>1. s.send_budget > 0
      BY <1>3 DEF has_budget
    <2> QED BY <1>1, <1>2, <1>3, <2>1 DEF reserve_len, AtMost
  <1>4. CASE s.ack # "Delayed"
    BY <1>2, <1>4 DEF reserve_len
  <1> QED BY <1>3, <1>4

(* Credit goes to the writer at the head of the queue.                     *)
LEMMA ReserveStep ==
    ASSUME SendInv, NEW w \in Writers, TryReserve(w)
    PROVE  SendInv' /\ (Kept \/ Fifo!Grant(w))
  <1>1. TypeOK /\ writer \in [Writers -> WriterStates] /\ writer[w] \in WriterStates
        /\ writer[w].pc = "try" /\ queue \in Queues /\ slot \in Slots
    BY DEF SendInv, TypeOK, TryReserve
  <1>2. ASSUME NEW pc \in {"leave", "none"}, writer' = To(w, pc), UNCHANGED <<slot, queue>>,
               pc = "none" => ~Due(w)
        PROVE  SendInv' /\ Kept
    <2> DEFINE r == [writer[w] EXCEPT !.pc = pc]
    <2>1. writer' = [writer EXCEPT ![w] = r]
      BY <1>2 DEF To
    <2>2. r \in WriterStates /\ r.pc = pc /\ r.place = writer[w].place
      BY <1>1 DEF WriterStates, Pcs, Queued
    <2> HIDE DEF r
    <2>3. TypeOK'
      BY <1>1, <1>2, <2>1, <2>2 DEF TypeOK, TryReserve
    <2> QED BY <1>1, <1>2, <2>1, <2>2, <2>3, WriterMoves DEF TryReserve, Queued, Holding
  <1>3. CASE freed \/ is_closed(slot)
    BY <1>2, <1>3 DEF TryReserve
  <1>4. CASE ~(freed \/ is_closed(slot)) /\ (turn(queue) # writer[w].place \/ ~has_budget(slot))
    BY <1>2, <1>4 DEF TryReserve, Due
  <1>5. CASE ~(freed \/ is_closed(slot)) /\ turn(queue) = writer[w].place /\ has_budget(slot)
    <2> DEFINE n == reserve_len(slot, AtMost(writer[w].left, MaxPayload))
               pc == IF has_budget(slot') THEN "more" ELSE "ids"
               r == [writer[w] EXCEPT !.pc = pc, !.n = n, !.listener = "none"]
    <2>1. /\ writer' = [writer EXCEPT ![w] = r] /\ queue' = serve(queue) /\ slot' = spend(slot, n)
          /\ UNCHANGED <<scenario, freed, wh, wire, device, okays, reader, closer, desync, stopped,
                         gone>>
      BY <1>5 DEF TryReserve
    <2>2. n \in Nat /\ n <= writer[w].left
      BY <1>1, <1>5, ReserveFacts DEF WriterStates
    <2> HIDE DEF n
    <2>3. slot' \in Slots /\ slot'.state = slot.state
      BY <1>1, <2>1, <2>2, SlotOps
    <2>4. r \in WriterStates /\ r.pc = pc /\ r.n = n /\ r.left = writer[w].left
      BY <1>1, <2>2 DEF WriterStates, Pcs, Holding
    <2>5. pc \in {"more", "ids"} /\ (pc = "ids" => ~has_budget(slot'))
      OBVIOUS
    <2> HIDE DEF r, pc
    <2>6. writer'[w] = r /\ \A v \in Writers : v # w => writer'[v] = writer[v]
      BY <1>1, <2>1
    <2>7. w \in Waiting /\ w \notin Senders /\ Senders' = Senders \cup {w}
      BY <1>1, <1>5, <2>4, <2>5, <2>6 DEF Waiting, Senders, Queued, Holding
    <2>8. /\ Sound(queue) /\ Places = Tickets(queue)
      BY <1>5, QueueSound
    <2>9. writer[w].place = queue.head /\ queue.head \in Tickets(queue) /\ queue.head < queue.tail
      <3>1. writer[w].place = queue.head /\ writer[w].place \in Places
        BY <1>5, <2>7 DEF turn, Places
      <3> QED BY <1>1, <2>8, <3>1 DEF Tickets, Queues
    <2> DEFINE q == advance(queue)
    <2>10. Sound(q) /\ q.sending = queue.sending /\ Tickets(q) = Tickets(queue) \ {queue.head}
      BY <2>8, <2>9, AdvanceFacts
    <2>11. queue' = [q EXCEPT !.sending = queue.sending + 1]
      BY <2>1, <2>10 DEF serve
    <2> HIDE DEF q
    <2>12. /\ queue' \in Queues /\ queue'.head = q.head /\ queue'.tail = q.tail
           /\ queue'.gone = q.gone /\ queue'.sending = queue.sending + 1
      BY <1>1, <2>10, <2>11 DEF Sound, Queues
    <2>13. Sound(queue') /\ Tickets(queue') = Tickets(queue) \ {writer[w].place}
      BY <2>9, <2>10, <2>12 DEF Sound, Tickets
    <2>14. /\ Waiting' = Waiting \ {w} /\ Ahead' = Fifo!Others(Ahead, w)
           /\ TicketsExact' /\ queue'.head <= queue'.tail
      <3>1. writer'[w].pc \notin Queued
        BY <2>4, <2>5, <2>6 DEF Queued
      <3> QED BY <1>5, <2>1, <2>6, <2>7, <2>13, <3>1, TakenOut
    <2>15. SendersCounted'
      <3>1. IsFiniteSet(Senders) /\ queue.sending = Cardinality(Senders)
        BY <1>5 DEF SendInv, SendersCounted
      <3>2. IsFiniteSet(Senders') /\ Cardinality(Senders') = Cardinality(Senders) + 1
        BY <2>7, <3>1, FS_AddElement
      <3> QED BY <2>12, <2>14, <3>1, <3>2 DEF SendersCounted
    <2>16. TypeOK'
      BY <1>1, <2>1, <2>3, <2>4, <2>12 DEF TypeOK
    <2>17. r.pc = "more" \/ \A v \in Writers \ {w} : Due(v)' => Due(v)
      BY <1>5, <2>1, <2>3, <2>4, <2>5 DEF Due, is_closed
    <2>18. SendInv'
      BY <1>1, <2>1, <2>2, <2>4, <2>5, <2>14, <2>15, <2>16, <2>17, QueueMoves
    <2>19. \A v \in Waiting : <<v, w>> \notin Ahead
      <3>1. \A v \in Waiting : writer[v].place \in Tickets(queue) /\ writer[v].place \in Nat
        BY <1>1, <2>8 DEF Places, Tickets, Waiting, WriterStates
      <3>2. \A p \in Tickets(queue) : queue.head <= p
        BY <1>1 DEF Tickets, Queues
      <3>3. queue.head \in Nat
        BY <1>1 DEF Queues
      <3>4. \A v \in Waiting : ~ (writer[v].place < writer[w].place)
        BY <2>9, <3>1, <3>2, <3>3
      <3> QED BY <3>4 DEF Ahead
    <2> QED BY <2>7, <2>14, <2>18, <2>19 DEF Fifo!Grant
  <1> QED BY <1>3, <1>4, <1>5

(* A writer that gives up is gone, and the next one is woken if it was its *)
(* turn.                                                                   *)
LEMMA LeaveStep ==
    ASSUME SendInv, NEW w \in Writers, Leave(w)
    PROVE  SendInv' /\ (Kept \/ Fifo!GiveUp(w))
  <1>1. TypeOK /\ writer \in [Writers -> WriterStates] /\ writer[w] \in WriterStates
        /\ writer[w].pc = "leave" /\ queue \in Queues
    BY DEF SendInv, TypeOK, Leave
  <1> DEFINE pc == IF ~freed /\ leave_moves_head(queue, writer[w].place)
                   THEN "leaveWake" ELSE "idle"
             r == [writer[w] EXCEPT !.listener = "none", !.pc = pc]
  <1>2. /\ writer' = [writer EXCEPT ![w] = r]
        /\ queue' = IF freed THEN queue ELSE leave(queue, writer[w].place)
        /\ UNCHANGED <<scenario, slot, freed, wh, wire, device, okays, reader, closer, desync,
                       stopped, gone>>
    BY DEF Leave
  <1>3. r \in WriterStates /\ r.pc = pc
    BY <1>1 DEF WriterStates, Pcs
  <1>4. /\ pc \in {"leaveWake", "idle"}
        /\ ~freed /\ pc = "idle" => writer[w].place # queue.head
    BY DEF leave_moves_head
  <1> HIDE DEF r, pc
  <1>5. writer'[w] = r /\ \A v \in Writers : v # w => writer'[v] = writer[v]
    BY <1>1, <1>2
  <1>6. Senders' = Senders
    BY <1>1, <1>3, <1>4, <1>5 DEF Senders, Holding
  <1>7. CASE freed
    <2>1. TypeOK'
      BY <1>1, <1>2, <1>3, <1>7 DEF TypeOK
    <2>2. SendersCounted' /\ TicketsExact' /\ \A v \in Writers \ {w} : Due(v)' => Due(v)
      BY <1>2, <1>7 DEF SendersCounted, TicketsExact, Due
    <2>3. SendInv'
      BY <1>1, <1>2, <1>3, <1>4, <2>1, <2>2, QueueMoves
    <2>4. Waiting = {} /\ Waiting' = {}
      BY <1>2, <1>7 DEF Waiting
    <2>5. Ahead' = Ahead
      BY <2>4 DEF Ahead
    <2> QED BY <1>6, <2>3, <2>4, <2>5 DEF Kept
  <1>8. CASE ~freed
    <2>1. w \in Waiting
      BY <1>1, <1>8 DEF Waiting, Queued
    <2>2. Sound(queue) /\ Places = Tickets(queue)
      BY <1>8, QueueSound
    <2>3. writer[w].place \in Tickets(queue)
      BY <2>1, <2>2 DEF Places
    <2>4. /\ Sound(queue') /\ queue'.sending = queue.sending
          /\ Tickets(queue') = Tickets(queue) \ {writer[w].place}
          /\ writer[w].place # queue.head => queue'.head = queue.head
      BY <1>2, <1>8, <2>2, <2>3, LeaveFacts
    <2>5. /\ Waiting' = Waiting \ {w} /\ Ahead' = Fifo!Others(Ahead, w)
          /\ TicketsExact' /\ queue'.head <= queue'.tail
      <3>1. writer'[w].pc \notin Queued
        BY <1>3, <1>4, <1>5 DEF Queued
      <3> QED BY <1>2, <1>5, <1>8, <2>1, <2>4, <3>1, TakenOut
    <2>6. SendersCounted'
      BY <1>2, <1>6, <1>8, <2>4, <2>5 DEF SendInv, SendersCounted
    <2>7. TypeOK'
      BY <1>1, <1>2, <1>3, <2>4 DEF TypeOK, Sound
    <2>8. r.pc = "leaveWake" \/ \A v \in Writers \ {w} : Due(v)' => Due(v)
      <3>1. \A v \in Writers \ {w} : writer'[v] = writer[v]
        BY <1>5
      <3> QED BY <1>2, <1>3, <1>4, <1>8, <2>4, <3>1 DEF Due, turn
    <2>9. SendInv'
      BY <1>1, <1>2, <1>3, <1>4, <2>5, <2>6, <2>7, <2>8, QueueMoves
    <2> QED BY <1>6, <2>1, <2>5, <2>9 DEF Fifo!GiveUp
  <1> QED BY <1>7, <1>8

(* A writer is through with its credit: it was sent, or it goes back and   *)
(* whoever waits for it is about to be woken.                              *)
LEMMA ReleaseStep ==
    ASSUME SendInv, NEW w \in Writers, Finish(w) \/ Refund(w)
    PROVE  SendInv' /\ Fifo!Release(w)
  <1>1. TypeOK /\ writer \in [Writers -> WriterStates] /\ writer[w] \in WriterStates
        /\ writer[w].pc \in {"finish", "refund"} /\ queue \in Queues /\ slot \in Slots
    BY DEF SendInv, TypeOK, Finish, Refund
  <1> DEFINE pc == IF Refund(w) THEN "refundWake"
                   ELSE IF writer[w].left = 0 THEN "idle" ELSE "enqueue"
             r == [writer[w] EXCEPT !.pc = pc]
  <1>2. /\ writer' = [writer EXCEPT ![w] = r]
        /\ queue' = IF freed THEN queue ELSE finish(queue)
        /\ UNCHANGED <<scenario, freed, wh, wire, device, okays, reader,
                       closer, desync, stopped, gone>>
        /\ slot' \in {slot, refund(slot, writer[w].n)}
        /\ ~Refund(w) => slot' = slot
    <2>1. CASE Finish(w)
      <3>1. ~Refund(w)
        BY <2>1 DEF Finish, Refund
      <3> QED BY <2>1, <3>1 DEF Finish, To
    <2>2. CASE Refund(w)
      BY <2>2 DEF Refund, To
    <2> QED BY <2>1, <2>2
  <1>3. r \in WriterStates /\ r.pc = pc /\ pc \in {"refundWake", "idle", "enqueue"}
    BY <1>1 DEF WriterStates, Pcs
  <1>4. pc # "refundWake" => slot' = slot
    BY <1>2
  <1> HIDE DEF r, pc
  <1>5. writer'[w] = r /\ \A v \in Writers : v # w => writer'[v] = writer[v]
    BY <1>1, <1>2
  <1>6. slot' \in Slots
    <2>1. writer[w].n \in Int
      BY <1>1 DEF WriterStates
    <2> QED BY <1>1, <1>2, <2>1, SlotOps
  <1>7. /\ w \in Senders /\ Senders' = Senders \ {w} /\ Waiting' = Waiting
        /\ \A v \in Waiting : v \in Writers /\ v # w
    BY <1>1, <1>2, <1>3, <1>5 DEF Senders, Waiting, Holding, Queued
  <1>8. \A v \in Waiting : writer'[v] = writer[v]
    BY <1>5, <1>7
  <1>9. Ahead' = Ahead
    <2>1. \A p \in Waiting \X Waiting :
             writer'[p[1]].place = writer[p[1]].place /\ writer'[p[2]].place = writer[p[2]].place
      BY <1>8
    <2> QED BY <1>7, <2>1 DEF Ahead
  <1>10. ~freed => IsFiniteSet(Senders) /\ queue.sending = Cardinality(Senders)
                   /\ queue.head <= queue.tail
    BY DEF SendInv, SendersCounted
  <1>11. ~freed => /\ queue.sending - 1 \in Nat
                   /\ IsFiniteSet(Senders') /\ queue.sending - 1 = Cardinality(Senders')
    <2> SUFFICES ASSUME ~freed
                 PROVE  /\ queue.sending - 1 \in Nat
                        /\ IsFiniteSet(Senders') /\ queue.sending - 1 = Cardinality(Senders')
      OBVIOUS
    <2>1. IsFiniteSet(Senders') /\ Cardinality(Senders') = Cardinality(Senders) - 1
      BY <1>7, <1>10, FS_RemoveElement
    <2>2. Cardinality(Senders') \in Nat
      BY <2>1, FS_CardinalityType
    <2> QED BY <1>10, <2>1, <2>2
  <1>12. queue' \in Queues /\ queue'.head = queue.head /\ queue'.tail = queue.tail
         /\ queue'.gone = queue.gone /\ (~freed => queue'.sending = queue.sending - 1)
    <2>1. CASE freed
      BY <1>1, <1>2, <2>1
    <2>2. CASE ~freed
      <3>1. queue' = [queue EXCEPT !.sending = queue.sending - 1]
        BY <1>2, <2>2 DEF finish
      <3> QED BY <1>1, <1>11, <2>2, <3>1 DEF Queues
    <2> QED BY <2>1, <2>2
  <1>13. SendersCounted'
    BY <1>2, <1>10, <1>11, <1>12 DEF SendersCounted
  <1>14. TicketsExact'
    <2>1. {writer'[v].place : v \in Waiting'} = {writer[v].place : v \in Waiting}
      BY <1>7, <1>8
    <2> QED BY <1>2, <1>7, <1>8, <1>12, <2>1 DEF SendInv, TicketsExact
  <1>15. TypeOK'
    BY <1>1, <1>2, <1>3, <1>6, <1>12 DEF TypeOK
  <1>16. r.pc = "refundWake" \/ \A v \in Writers \ {w} : Due(v)' => Due(v)
    <2>1. \A v \in Writers \ {w} : writer'[v] = writer[v]
      BY <1>5
    <2> QED BY <1>2, <1>3, <1>4, <1>12, <2>1 DEF Due, turn
  <1>17. SendInv'
    BY <1>1, <1>2, <1>3, <1>13, <1>14, <1>15, <1>16, QueueMoves
  <1> QED BY <1>7, <1>9, <1>17 DEF Fifo!Release

-----------------------------------------------------------------------------
(* The theorems.                                                           *)

(* The queue starts empty and nobody waits.                                *)
LEMMA Initially == Init => SendInv /\ Fifo!FifoInit
  <1> SUFFICES ASSUME Init PROVE SendInv /\ Fifo!FifoInit
    OBVIOUS
  <1>1. scenario \in Scenarios /\ writer = [w \in Writers |-> IdleWriter] /\ queue = EmptyQueue
        /\ freed = FALSE
    BY DEF Init
  <1>2. slot \in Slots
    <2>1. PICK ack \in scenario.acks : slot = accepted(1, 1, Window, ack)
      BY DEF Init
    <2>2. ack \in {"Classic", "Delayed"} /\ Window \in Int
      <3>1. scenario.acks \subseteq AckModes /\ Window \in Nat
        BY <1>1, SendFlowAssumption
      <3>2. ack \in AckModes
        BY <3>1
      <3> QED BY <3>1, <3>2, ConfigAssumption
    <2> DEFINE b == IF ack = "Delayed" THEN Window ELSE 0
    <2>3. slot = [opening(1, ack) EXCEPT !.remote = 1, !.state = "Open", !.send_budget = b]
      BY <2>1 DEF accepted
    <2>4. b \in Int
      BY <2>2
    <2> HIDE DEF b
    <2>5. opening(1, ack) \in Slots
      BY <2>2 DEF opening, Slots, NoRemote
    <2> QED BY <2>3, <2>4, <2>5 DEF Slots
  <1>3. IdleWriter \in WriterStates
    BY SendFlowAssumption DEF IdleWriter, WriterStates, Pcs
  <1>4. queue \in Queues
    BY <1>1 DEF EmptyQueue, Queues
  <1>5. TypeOK
    <2>1. <<>> \in Seq(Nat) /\ <<>> \in Seq(Nat \cup {ShortPayload, Clse})
      OBVIOUS
    <2>2. [bytes |-> 0, writes |-> 0, closed |-> FALSE]
          \in [bytes : Nat, writes : Nat, closed : BOOLEAN]
      OBVIOUS
    <2>3. writer \in [Writers -> WriterStates]
      BY <1>1, <1>3
    <2> QED BY <1>1, <1>2, <1>4, <2>1, <2>2, <2>3 DEF Init, TypeOK
  <1>6. \A w \in Writers : writer[w].pc = "idle"
    BY <1>1 DEF IdleWriter
  <1>7. Covered /\ WakesComing
    BY <1>6 DEF Covered, WakesComing, Expecting
  <1>8. Waiting = {} /\ Senders = {}
    BY <1>6 DEF Waiting, Senders, Queued, Holding
  <1>9. Ahead = {}
    BY <1>8 DEF Ahead
  <1>10. SendersCounted
    BY <1>1, <1>8, FS_EmptySet DEF SendersCounted, EmptyQueue
  <1>11. TicketsExact
    BY <1>1, <1>8 DEF TicketsExact, EmptyQueue
  <1> QED BY <1>1, <1>5, <1>7, <1>8, <1>9, <1>10, <1>11 DEF SendInv, Fifo!FifoInit

(* Every step keeps the invariant, and is a step of a first-come           *)
(* first-served queue or changes nothing that queue has.                   *)
LEMMA EveryStep == SendInv /\ [Next]_sendVars => SendInv' /\ [Fifo!FifoNext]_Fifo!fifoVars
  <1> SUFFICES ASSUME SendInv, [Next]_sendVars PROVE SendInv' /\ [Fifo!FifoNext]_Fifo!fifoVars
    OBVIOUS
  <1>1. Kept => UNCHANGED Fifo!fifoVars
    BY DEF Kept, Fifo!fifoVars
  <1>2. CASE DeviceNext
    BY <1>1, <1>2, DeviceSteps
  <1>3. CASE Close
    BY <1>3, CloseStep DEF Fifo!FifoNext
  <1>4. CASE HostNext /\ ~Close
    BY <1>1, <1>4, ReaderSteps, OtherSteps DEF HostNext
  <1>5. ASSUME NEW w \in Writers, WriterNext(w) PROVE SendInv' /\ [Fifo!FifoNext]_Fifo!fifoVars
    <2>1. CASE Enqueue(w)
      BY <1>1, <2>1, EnqueueStep DEF Fifo!FifoNext
    <2>2. CASE TryReserve(w)
      BY <1>1, <2>2, ReserveStep DEF Fifo!FifoNext
    <2>3. CASE Leave(w)
      BY <1>1, <2>3, LeaveStep DEF Fifo!FifoNext
    <2>4. CASE Finish(w) \/ Refund(w)
      BY <2>4, ReleaseStep DEF Fifo!FifoNext
    <2>5. CASE \/ Start(w) \/ Listen(w) \/ Park(w) \/ Woken(w) \/ GetIds(w) \/ LockWrite(w)
               \/ SendChunk(w) \/ DropWrite(w)
      BY <1>1, <2>5, WriterSteps
    <2>6. CASE WakeNext(w) \/ LeaveWakes(w) \/ RefundWakes(w) \/ SendRefused(w) \/ SendAbandoned(w)
      BY <1>1, <2>6, WriterWakes
    <2> QED BY <1>5, <2>1, <2>2, <2>3, <2>4, <2>5, <2>6 DEF WriterNext
  <1>6. CASE UNCHANGED sendVars
    <2>1. TypeOK'
      BY <1>6 DEF SendInv, TypeOK, sendVars
    <2> QED BY <1>1, <1>6, <2>1, WritersStay DEF sendVars
  <1> QED BY <1>2, <1>3, <1>4, <1>5, <1>6 DEF Next

(* The invariant says what waits_for_credit and a parked writer need.      *)
LEMMA TurnsFollow == SendInv => TurnsExact
  <1> SUFFICES ASSUME SendInv PROVE TurnsExact
    OBVIOUS
  <1>1. TypeOK /\ TicketsExact
    BY DEF SendInv
  <1>2. WaitsExact
    <2> SUFFICES ASSUME ~freed PROVE /\ is_empty(queue) <=> Waiting = {}
                                     /\ is_sending(queue) <=> Senders # {}
      BY DEF WaitsExact, waits_for_credit
    <2>1. Sound(queue) /\ Places = Tickets(queue)
      BY QueueSound
    <2>2. queue.head \in Nat /\ queue.tail \in Nat /\ queue.head <= queue.tail
          /\ queue.gone \subseteq queue.head + 1 .. queue.tail - 1
      BY <2>1 DEF Sound, Queues
    <2>3. is_empty(queue) <=> Tickets(queue) = {}
      <3>1. CASE queue.head = queue.tail
        BY <2>2, <3>1 DEF is_empty, Tickets
      <3>2. CASE queue.head # queue.tail
        <4>1. queue.head \in queue.head .. queue.tail - 1 /\ queue.head \notin queue.gone
          BY <2>2, <3>2
        <4> QED BY <3>2, <4>1 DEF is_empty, Tickets
      <3> QED BY <3>1, <3>2
    <2>4. Places = {} <=> Waiting = {}
      BY DEF Places
    <2>5. IsFiniteSet(Senders) /\ queue.sending = Cardinality(Senders)
      BY DEF SendInv, SendersCounted
    <2>6. Cardinality(Senders) \in Nat /\ (Cardinality(Senders) = 0 <=> Senders = {})
      BY <2>5, FS_CardinalityType, FS_EmptySet
    <2> QED BY <2>1, <2>3, <2>4, <2>5, <2>6 DEF is_sending
  <1>3. NoLostTurn
    BY DEF SendInv, WakesComing, Expecting, Due, NoLostTurn
  <1> QED BY <1>1, <1>2, <1>3 DEF TurnsExact

(* At every moment the tickets in the queue are those of the writers that  *)
(* wait, waits_for_credit tells the truth, and no writer sleeps through    *)
(* its turn, the close of the channel or the end of the connection: for    *)
(* any number of writers that try, wait, give up, send, fail and refund.   *)
THEOREM TurnsHold == Spec => []TurnsExact
  <1>1. Init => SendInv
    BY Initially
  <1>2. SendInv /\ [Next]_sendVars => SendInv'
    BY EveryStep
  <1>3. SendInv => TurnsExact
    BY TurnsFollow
  <1> QED BY <1>1, <1>2, <1>3, PTL DEF Spec

(* write_channel implements a first-come first-served queue: credit only   *)
(* ever goes to the writer nobody came before, whoever gives up, and       *)
(* wherever in the queue.                                                  *)
THEOREM CreditInOrder == Spec => GrantedInOrder
  <1>1. Init => SendInv /\ Fifo!FifoInit
    BY Initially
  <1>2. SendInv /\ [Next]_sendVars => SendInv' /\ [Fifo!FifoNext]_Fifo!fifoVars
    BY EveryStep
  <1> QED BY <1>1, <1>2, PTL DEF Spec, GrantedInOrder, Fifo!FifoSpec

-----------------------------------------------------------------------------
(* Where the device's credit is: in the slot's budget, in writers' hands,  *)
(* on its way to the device as bytes sent, with the device, or on its way  *)
(* back.  Delayed ACK counts bytes, and without it there is one token.     *)

Hands == Holding \ {"finish"}
Readies == {k \in DOMAIN okays : okays[k] >= 0}

Delayed == slot.ack = "Delayed"
BudgetOf(s) == IF s.ack = "Delayed" THEN s.send_budget ELSE IF s.wrte_acked THEN 1 ELSE 0
Budget == BudgetOf(slot)
Taken == IF Delayed THEN Sum(InHands) ELSE Cardinality(InHand)
Sent == IF Delayed THEN Sum(wire) ELSE Len(wire)
AtDevice == IF Delayed THEN device.bytes ELSE device.writes
Returning == IF Delayed THEN Sum(okays) ELSE Cardinality(Readies)
Granted == IF Delayed THEN Window ELSE 1

InStep == slot.state = "Open" /\ ~freed /\ ~device.closed /\ ~desync /\ ~gone

AllFinite ==
    /\ IsFiniteSet(InHand) /\ IsFiniteSet(Units(InHands))
    /\ IsFiniteSet(Units(wire)) /\ IsFiniteSet(Units(okays))

(* A packet abandoned halfway may be with the device and be refunded: only *)
(* then is there more credit about than was granted, and nothing is sent   *)
(* any more.                                                               *)
CreditInv ==
    /\ AllFinite /\ Budget >= 0
    /\ slot.failed => slot.state = "Closed"
    /\ ~device.closed => okays \in Seq(Nat)
    /\ ~Delayed => okays \in Seq(Nat \cup {Clse})
    /\ Sent + AtDevice <= Granted
    /\ ~desync => Budget + Taken + Sent + AtDevice + Returning <= Granted
    /\ InStep => Budget + Taken + Sent + AtDevice + Returning = Granted

(* The operations of a slot move its budget and nothing else.              *)
LEMMA SlotCredit ==
    ASSUME NEW s \in Slots, NEW n \in Int
    PROVE  /\ BudgetOf(s) \in Int
           /\ \A t \in {apply_close(s), fail(s)} :
                t.ack = s.ack /\ t.state = "Closed" /\ BudgetOf(t) = BudgetOf(s)
           /\ \A t \in {apply_ready(s, n), spend(s, n), refund(s, n)} :
                t.ack = s.ack /\ t.state = s.state /\ t.failed = s.failed
           /\ BudgetOf(apply_ready(s, n)) = IF s.ack = "Delayed" THEN BudgetOf(s) + n ELSE 1
           /\ BudgetOf(refund(s, n)) = IF s.ack = "Delayed" THEN BudgetOf(s) + n ELSE 1
           /\ BudgetOf(spend(s, n)) = IF s.ack = "Delayed" THEN BudgetOf(s) - n ELSE 0
  <1>1. s.send_budget \in Int /\ s.wrte_acked \in BOOLEAN
    BY DEF Slots
  <1>2. BudgetOf(s) \in Int
    BY <1>1 DEF BudgetOf
  <1>3. \A t \in {apply_close(s), fail(s)} :
            t.ack = s.ack /\ t.state = "Closed" /\ BudgetOf(t) = BudgetOf(s)
    BY DEF apply_close, fail, BudgetOf, Slots
  <1>4. CASE s.ack = "Delayed"
    BY <1>1, <1>2, <1>3, <1>4 DEF apply_ready, spend, refund, BudgetOf, Slots
  <1>5. CASE s.ack # "Delayed"
    BY <1>1, <1>2, <1>3, <1>5 DEF apply_ready, spend, refund, BudgetOf, Slots
  <1> QED BY <1>4, <1>5

Numbers ==
    /\ Budget \in Int /\ Taken \in Nat /\ Sent \in Nat /\ AtDevice \in Nat /\ Returning \in Nat
    /\ Granted \in Nat /\ IsFiniteSet(Readies)
    /\ Budget + Taken + Sent + AtDevice + Returning \in Int
    /\ okays \in Seq(Nat) => Cardinality(Readies) = Len(okays)

(* All of these are numbers.                                               *)
LEMMA CreditNumbers == TypeOK /\ AllFinite => Numbers
  <1> SUFFICES ASSUME TypeOK, AllFinite PROVE Numbers
    OBVIOUS
  <1>1. /\ slot \in Slots /\ wire \in Seq(Nat) /\ okays \in Seq(Nat \cup {ShortPayload, Clse})
        /\ device \in [bytes : Nat, writes : Nat, closed : BOOLEAN]
    BY DEF TypeOK
  <1>2. Budget \in Int
    <2>1. 0 \in Int
      OBVIOUS
    <2> QED BY <1>1, <2>1, SlotCredit DEF Budget
  <1>3. Taken \in Nat
    BY FS_CardinalityType DEF Taken, Sum, AllFinite
  <1>4. Sent \in Nat
    <2>1. Len(wire) \in Nat
      BY <1>1
    <2> QED BY <2>1, FS_CardinalityType DEF Sent, Sum, AllFinite
  <1>5. AtDevice \in Nat
    BY <1>1 DEF AtDevice
  <1>6. IsFiniteSet(Readies) /\ (okays \in Seq(Nat) => Cardinality(Readies) = Len(okays))
    <2>1. Len(okays) \in Nat /\ DOMAIN okays = 1 .. Len(okays)
      BY <1>1
    <2>2. IsFiniteSet(1 .. Len(okays)) /\ Cardinality(1 .. Len(okays)) = Len(okays)
      <3>1. 1 \in Int /\ Len(okays) \in Int
        BY <2>1
      <3>2. /\ IsFiniteSet(1 .. Len(okays))
            /\ Cardinality(1 .. Len(okays)) = IF 1 > Len(okays) THEN 0 ELSE Len(okays) - 1 + 1
        BY <3>1, FS_Interval
      <3> QED BY <2>1, <3>2
    <2>3. Readies \in SUBSET (1 .. Len(okays))
      BY <2>1 DEF Readies
    <2>4. okays \in Seq(Nat) => Readies = 1 .. Len(okays)
      BY <2>1 DEF Readies
    <2> QED BY <2>2, <2>3, <2>4, FS_Subset
  <1>7. Returning \in Nat
    BY <1>6, FS_CardinalityType DEF Returning, Sum, AllFinite
  <1>8. Granted \in Nat
    BY SendFlowAssumption DEF Granted
  <1>9. Budget + Taken + Sent + AtDevice + Returning \in Int
    BY <1>2, <1>3, <1>4, <1>5, <1>7
  <1> QED BY <1>2, <1>3, <1>4, <1>5, <1>6, <1>7, <1>8, <1>9 DEF Numbers

(* The credit in hand is that of the writers with their credit unsent.     *)
LEMMA HandsStay ==
    ASSUME \A v \in Writers : /\ writer'[v].pc \in Hands <=> writer[v].pc \in Hands
                              /\ writer[v].pc \in Hands => writer'[v].n = writer[v].n
    PROVE  InHand' = InHand /\ InHands' = InHands
  <1>1. InHand' = InHand
    BY DEF InHand, Hands
  <1>2. \A v \in InHand : writer'[v].n = writer[v].n
    BY DEF InHand, Hands
  <1> QED BY <1>1, <1>2 DEF InHands

(* Nothing moves.                                                          *)
LEMMA CreditStays ==
    ASSUME CreditInv, InHand' = InHand, InHands' = InHands, UNCHANGED <<wire, okays>>,
           device'.bytes = device.bytes, device'.writes = device.writes,
           slot'.ack = slot.ack, BudgetOf(slot') = BudgetOf(slot),
           slot'.failed => slot'.state = "Closed",
           ~device'.closed => ~device.closed, ~desync' => ~desync, InStep' => InStep
    PROVE  CreditInv'
  BY DEF CreditInv, AllFinite, Budget, Taken, Sent, AtDevice, Returning, Readies, Granted, Delayed

(* Credit moves: none is made, and none gets lost while all is in step.    *)
LEMMA CreditMoves ==
    ASSUME TypeOK, TypeOK', CreditInv, AllFinite', Budget' >= 0,
           slot'.failed => slot'.state = "Closed",
           ~device'.closed => okays' \in Seq(Nat),
           slot'.ack # "Delayed" => okays' \in Seq(Nat \cup {Clse}),
           slot'.ack = slot.ack, ~desync' => ~desync, InStep' => InStep,
           Sent' + AtDevice' <= Granted,
           ~desync' => Budget' + Taken' + Sent' + AtDevice' + Returning'
                         <= Budget + Taken + Sent + AtDevice + Returning,
           InStep' => Budget' + Taken' + Sent' + AtDevice' + Returning'
                        = Budget + Taken + Sent + AtDevice + Returning
    PROVE  CreditInv'
  <1>1. /\ Budget \in Int /\ Taken \in Nat /\ Sent \in Nat /\ AtDevice \in Nat /\ Returning \in Nat
        /\ Granted \in Nat
    BY CreditNumbers DEF CreditInv, Numbers
  <1>2. /\ Budget' \in Int /\ Taken' \in Nat /\ Sent' \in Nat /\ AtDevice' \in Nat
        /\ Returning' \in Nat
    <2>1. (TypeOK /\ AllFinite => Numbers)'
      BY CreditNumbers, PTL
    <2> QED BY <2>1 DEF Numbers
  <1>3. Granted' = Granted
    BY DEF Granted, Delayed
  <1>4. Sent' + AtDevice' <= Granted'
    BY <1>3
  <1> DEFINE total == Budget + Taken + Sent + AtDevice + Returning
             after == Budget' + Taken' + Sent' + AtDevice' + Returning'
  <1>5. total \in Int /\ after \in Int
    <2>1. (TypeOK /\ AllFinite => Numbers)'
      BY CreditNumbers, PTL
    <2> QED BY <2>1, CreditNumbers DEF CreditInv, Numbers
  <1>6. /\ ~desync' => after <= total /\ ~desync
        /\ InStep' => after = total /\ InStep
        /\ ~desync => total <= Granted
        /\ InStep => total = Granted
    BY DEF CreditInv
  <1> HIDE DEF total, after
  <1>7. ~desync' => after <= Granted'
    BY <1>1, <1>3, <1>5, <1>6
  <1>8. InStep' => after = Granted'
    BY <1>3, <1>6
  <1> QED BY <1>4, <1>7, <1>8 DEF CreditInv, after, Delayed

(* Most steps move no credit.                                              *)
LEMMA QuietWriter ==
    ASSUME SendInv, CreditInv, NEW w \in Writers,
           \/ Start(w) \/ Enqueue(w) \/ Listen(w) \/ Park(w) \/ Woken(w) \/ Leave(w) \/ GetIds(w)
           \/ LockWrite(w) \/ Finish(w) \/ DropWrite(w)
           \/ WakeNext(w) \/ LeaveWakes(w) \/ RefundWakes(w) \/ SendRefused(w)
    PROVE  CreditInv'
  <1>1. writer \in [Writers -> WriterStates] /\ writer[w] \in WriterStates
    BY DEF SendInv, TypeOK
  <1>2. UNCHANGED <<slot, freed, wire, device, okays, desync, gone>>
    BY DEF Start, Enqueue, Listen, Park, Woken, Leave, GetIds, LockWrite, Finish, DropWrite,
           WakeNext, LeaveWakes, RefundWakes, SendRefused
  <1>3. SUFFICES ASSUME NEW v \in Writers
                 PROVE  /\ writer'[v].pc \in Hands <=> writer[v].pc \in Hands
                        /\ writer[v].pc \in Hands => writer'[v].n = writer[v].n
    BY <1>2, HandsStay, CreditStays DEF CreditInv, InStep
  <1>4. ASSUME NEW ws \in [Writers -> WriterStates], NEW r, NEW pc, writer' = [ws EXCEPT ![w] = r],
               ws[v].pc = writer[v].pc, ws[v].n = writer[v].n,
               v = w => r.pc = pc,
               v = w /\ writer[w].pc \in Hands => r.n = writer[w].n,
               pc \in Hands <=> writer[w].pc \in Hands
        PROVE  /\ writer'[v].pc \in Hands <=> writer[v].pc \in Hands
               /\ writer[v].pc \in Hands => writer'[v].n = writer[v].n
    BY <1>4
  <1>5. CASE Start(w)
    <2>1. PICK len \in scenario.amounts :
            writer' = [writer EXCEPT ![w] = [IdleWriter EXCEPT !.pc = "enqueue", !.left = len,
                                                               !.calls = writer[w].calls + 1]]
      BY <1>5 DEF Start
    <2> DEFINE r == [IdleWriter EXCEPT !.pc = "enqueue", !.left = len,
                                       !.calls = writer[w].calls + 1]
    <2>2. r.pc = "enqueue" /\ writer[w].pc = "idle"
      BY <1>5 DEF IdleWriter, Start
    <2> HIDE DEF r
    <2> QED BY <1>1, <1>4, <2>1, <2>2 DEF r, Hands, Holding
  <1>6. ASSUME NEW ws \in [Writers -> WriterStates], NEW pc,
               ws[v].pc = writer[v].pc, ws[v].n = writer[v].n,
               pc \in Hands <=> writer[w].pc \in Hands,
               \/ writer' = [ws EXCEPT ![w] = [ws[w] EXCEPT !.pc = pc]]
               \/ \E lis : writer' = [ws EXCEPT ![w] = [ws[w] EXCEPT !.pc = pc, !.listener = lis]]
               \/ \E lis : writer' = [ws EXCEPT ![w] = [ws[w] EXCEPT !.listener = lis, !.pc = pc]]
               \/ \E pl : writer' = [ws EXCEPT ![w] = [ws[w] EXCEPT !.pc = pc, !.place = pl]]
        PROVE  /\ writer'[v].pc \in Hands <=> writer[v].pc \in Hands
               /\ writer[v].pc \in Hands => writer'[v].n = writer[v].n
    <2>1. ws[w] \in WriterStates
      OBVIOUS
    <2>2. PICK r : writer' = [ws EXCEPT ![w] = r] /\ r.pc = pc /\ r.n = ws[w].n
      BY <1>6, <2>1 DEF WriterStates
    <2> QED BY <1>4, <1>6, <2>2
  <1>7. CASE Enqueue(w)
    <2>1. \/ writer' = [writer EXCEPT ![w] = [writer[w] EXCEPT !.pc = "idle"]]
          \/ writer' = [writer EXCEPT ![w] = [writer[w] EXCEPT !.pc = "listen",
                                              !.place = queue.tail]]
      BY <1>7 DEF Enqueue, To
    <2>2. writer[w].pc \notin Hands /\ "idle" \notin Hands /\ "listen" \notin Hands
      BY <1>7 DEF Enqueue, Hands, Holding
    <2> QED BY <1>1, <1>6, <2>1, <2>2
  <1>8. CASE Listen(w)
    <2>1. writer' = [writer EXCEPT ![w] = [writer[w] EXCEPT !.pc = "try", !.listener = "armed"]]
      BY <1>8 DEF Listen
    <2>2. writer[w].pc \notin Hands /\ "try" \notin Hands
      BY <1>8 DEF Listen, Hands, Holding
    <2> QED BY <1>1, <1>6, <2>1, <2>2
  <1>9. CASE Park(w)
    <2>1. \E pc \in {"leave", "parked"} : writer' = To(w, pc)
      BY <1>9 DEF Park
    <2> QED BY <1>1, <1>6, <1>9, <2>1 DEF Park, To, Hands, Holding
  <1>10. CASE Woken(w)
    <2>1. writer' = [writer EXCEPT ![w] = [writer[w] EXCEPT !.pc = "listen", !.listener = "none"]]
      BY <1>10 DEF Woken
    <2>2. writer[w].pc \notin Hands /\ "listen" \notin Hands
      BY <1>10 DEF Woken, Hands, Holding
    <2> QED BY <1>1, <1>6, <2>1, <2>2
  <1>11. CASE Leave(w)
    <2>1. \E pc \in {"leaveWake", "idle"} :
             writer' = [writer EXCEPT ![w] = [writer[w] EXCEPT !.listener = "none", !.pc = pc]]
      BY <1>11 DEF Leave
    <2> QED BY <1>1, <1>6, <1>11, <2>1 DEF Leave, Hands, Holding
  <1>12. CASE GetIds(w)
    <2>1. \E pc \in {"refund", "lock"} : writer' = To(w, pc)
      BY <1>12 DEF GetIds
    <2> QED BY <1>1, <1>6, <1>12, <2>1 DEF GetIds, To, Hands, Holding
  <1>13. CASE LockWrite(w)
    <2>1. writer' = [writer EXCEPT ![w] = [writer[w] EXCEPT !.pc = "send"]]
      BY <1>13 DEF LockWrite, To
    <2>2. writer[w].pc \in Hands /\ "send" \in Hands
      BY <1>13 DEF LockWrite, Hands, Holding
    <2> QED BY <1>1, <1>6, <2>1, <2>2
  <1>14. CASE Finish(w)
    <2>1. \E pc \in {"idle", "enqueue"} : writer' = To(w, pc)
      BY <1>14 DEF Finish
    <2> QED BY <1>1, <1>6, <1>14, <2>1 DEF Finish, To, Hands, Holding
  <1>15. CASE DropWrite(w)
    <2>1. \/ writer[w].pc = "parked" /\ writer' = To(w, "leave")
          \/ writer[w].pc = "lock" /\ writer' = To(w, "refund")
      BY <1>15 DEF DropWrite
    <2>2. /\ "parked" \notin Hands /\ "leave" \notin Hands
          /\ "lock" \in Hands /\ "refund" \in Hands
      BY DEF Hands, Holding
    <2>3. CASE writer[w].pc = "parked"
      BY <1>1, <1>6, <2>1, <2>2, <2>3 DEF To
    <2>4. CASE writer[w].pc = "lock"
      BY <1>1, <1>6, <2>1, <2>2, <2>4 DEF To
    <2> QED BY <2>1, <2>3, <2>4
  <1>16. /\ wake(writer) \in [Writers -> WriterStates]
         /\ wake(writer)[v].pc = writer[v].pc /\ wake(writer)[v].n = writer[v].n
    BY <1>1, WakeFacts
  <1>17. CASE WakeNext(w) \/ LeaveWakes(w) \/ RefundWakes(w)
    <2>1. \/ /\ writer[w].pc = "more"
             /\ writer' = [wake(writer) EXCEPT ![w] = [wake(writer)[w] EXCEPT !.pc = "ids"]]
          \/ /\ writer[w].pc \in {"leaveWake", "refundWake"}
             /\ writer' = [wake(writer) EXCEPT ![w] = [wake(writer)[w] EXCEPT !.pc = "idle"]]
      BY <1>16, <1>17 DEF WakeNext, LeaveWakes, RefundWakes
    <2>2. /\ "more" \in Hands /\ "ids" \in Hands /\ "idle" \notin Hands
          /\ "leaveWake" \notin Hands /\ "refundWake" \notin Hands
      BY DEF Hands, Holding
    <2> QED BY <1>6, <1>16, <2>1, <2>2
  <1>18. CASE SendRefused(w)
    <2>1. PICK ws \in {writer, wake(writer)} :
             writer' = [ws EXCEPT ![w] = [ws[w] EXCEPT !.pc = "refund"]]
      BY <1>1, <1>16, <1>18 DEF SendRefused
    <2>2. writer[w].pc = "send" /\ ws \in [Writers -> WriterStates]
          /\ ws[v].pc = writer[v].pc /\ ws[v].n = writer[v].n
      BY <1>1, <1>16, <1>18, <2>1 DEF SendRefused
    <2>3. "send" \in Hands /\ "refund" \in Hands
      BY DEF Hands, Holding
    <2> QED BY <1>6, <2>1, <2>2, <2>3
  <1> QED BY <1>5, <1>7, <1>8, <1>9, <1>10, <1>11, <1>12, <1>13, <1>14, <1>15, <1>17, <1>18

(* The reader, the close and the others move no credit either.             *)
LEMMA QuietHost ==
    ASSUME SendInv, CreditInv,
           \/ FailChannel \/ ReaderWake \/ ReaderEnds \/ Close \/ CloseWakes
           \/ OtherLocks \/ OtherUnlocks \/ TransportFails
    PROVE  CreditInv'
  <1>1. writer \in [Writers -> WriterStates] /\ slot \in Slots
    BY DEF SendInv, TypeOK
  <1>2. /\ UNCHANGED <<wire, device, okays>> /\ slot' \in {slot, fail(slot)}
        /\ ~desync' => ~desync
        /\ ~freed' => ~freed
        /\ ~gone' => ~gone
        /\ writer' \in {writer, wake(writer)}
    BY DEF FailChannel, ReaderWake, ReaderEnds, Close, CloseWakes, OtherLocks, OtherUnlocks,
           TransportFails
  <1>3. \A v \in Writers : writer'[v].pc = writer[v].pc /\ writer'[v].n = writer[v].n
    BY <1>1, <1>2, WakeFacts
  <1>4. InHand' = InHand /\ InHands' = InHands
    BY <1>3, HandsStay
  <1>5. /\ slot'.ack = slot.ack /\ BudgetOf(slot') = BudgetOf(slot)
        /\ slot' = slot \/ slot'.state = "Closed"
    <2>1. 0 \in Int
      OBVIOUS
    <2> QED BY <1>1, <1>2, <2>1, SlotCredit
  <1>6. InStep' => InStep
    BY <1>2, <1>5 DEF InStep
  <1> QED BY <1>2, <1>4, <1>5, <1>6, CreditStays DEF CreditInv

(* The device takes in what was sent, and returns credit for it.           *)
LEMMA DeviceCredit ==
    ASSUME SendInv, TypeOK', CreditInv, DeviceReceive \/ DeviceReady \/ DeviceClose
    PROVE  CreditInv'
  <1>1. /\ TypeOK /\ AllFinite /\ wire \in Seq(Nat) /\ wire \in Seq(Int)
        /\ okays \in Seq(Nat \cup {ShortPayload, Clse}) /\ okays \in Seq(Int)
        /\ device \in [bytes : Nat, writes : Nat, closed : BOOLEAN]
    <2>1. /\ TypeOK /\ AllFinite /\ wire \in Seq(Nat)
          /\ okays \in Seq(Nat \cup {ShortPayload, Clse})
          /\ device \in [bytes : Nat, writes : Nat, closed : BOOLEAN]
      BY DEF SendInv, CreditInv, TypeOK
    <2>2. wire \in Seq(Int)
      BY <2>1
    <2>3. okays \in Seq(Int)
      BY <2>1 DEF ShortPayload, Clse
    <2> QED BY <2>1, <2>2, <2>3
  <1>2. UNCHANGED <<slot, freed, writer, desync, gone>>
    BY DEF DeviceReceive, DeviceReady, DeviceClose
  <1>3. InHand' = InHand /\ InHands' = InHands
    BY <1>2 DEF InHand, InHands
  <1>4. /\ Budget \in Int /\ Taken \in Nat /\ Sent \in Nat /\ AtDevice \in Nat /\ Returning \in Nat
        /\ IsFiniteSet(Readies)
    BY <1>1, CreditNumbers DEF Numbers
  <1>5. Budget' = Budget /\ Taken' = Taken /\ Granted' = Granted /\ Delayed' = Delayed
        /\ slot'.ack = slot.ack /\ slot'.failed = slot.failed /\ slot'.state = slot.state
    BY <1>2, <1>3 DEF Budget, Taken, Granted, Delayed
  <1>6. CASE DeviceReceive
    <2>1. /\ wire # <<>> /\ wire' = Tail(wire) /\ okays' = okays
          /\ device' = [device EXCEPT !.bytes = device.bytes + Head(wire),
                                      !.writes = device.writes + 1]
      BY <1>6 DEF DeviceReceive
    <2>2. /\ device'.bytes = device.bytes + Head(wire) /\ device'.writes = device.writes + 1
          /\ device'.closed = device.closed
      BY <1>1, <2>1
    <2>3. Head(wire) \in Nat /\ Len(wire') = Len(wire) - 1 /\ Len(wire) \in Nat
      BY <1>1, <2>1
    <2>4. /\ IsFiniteSet(Units(wire'))
          /\ Sum(wire) = Sum(wire') + IF Head(wire) > 0 THEN Head(wire) ELSE 0
      BY <1>1, <2>1, SumTail DEF AllFinite
    <2>5. AllFinite'
      BY <1>1, <1>3, <2>1, <2>4 DEF AllFinite
    <2>6. Sum(wire') \in Nat
      BY <2>4, FS_CardinalityType DEF Sum
    <2>7. Returning' = Returning
      BY <1>5, <2>1 DEF Returning, Readies
    <2>8. Sent' + AtDevice' = Sent + AtDevice
      <3>1. CASE Delayed
        BY <1>1, <1>5, <2>2, <2>3, <2>4, <2>6, <3>1 DEF Sent, AtDevice
      <3>2. CASE ~Delayed
        BY <1>1, <1>5, <2>2, <2>3, <3>2 DEF Sent, AtDevice
      <3> QED BY <3>1, <3>2
    <2>9. Sent' \in Nat /\ AtDevice' \in Nat
      BY <1>1, <1>5, <2>2, <2>3, <2>6 DEF Sent, AtDevice
    <2>10. /\ Budget' + Taken' + Sent' + AtDevice' + Returning'
                  = Budget + Taken + Sent + AtDevice + Returning
      BY <1>4, <1>5, <2>7, <2>8, <2>9
    <2>11. InStep' => InStep
      BY <1>2, <2>2 DEF InStep
    <2> QED BY <1>1, <1>2, <1>4, <1>5, <2>1, <2>2, <2>5, <2>8, <2>10, <2>11, CreditMoves
            DEF CreditInv, Delayed
  <1>7. CASE DeviceReady
    <2>1. PICK credit :
            /\ credit \in IF Delayed THEN 1 .. device.bytes ELSE {device.bytes}
            /\ okays' = Append(okays, credit)
            /\ device' = [device EXCEPT !.bytes = device.bytes - credit,
                                        !.writes = IF device.bytes = credit THEN 0
                                                   ELSE device.writes]
      BY <1>7 DEF DeviceReady, Delayed
    <2>2. credit \in Nat /\ (Delayed => credit > 0) /\ (~Delayed => credit = device.bytes)
          /\ credit <= device.bytes /\ credit \in Int
      BY <1>1, <2>1
    <2>3. /\ ~device.closed /\ ~gone /\ device.writes > 0 /\ wire' = wire /\ okays \in Seq(Nat)
      BY <1>7 DEF DeviceReady, CreditInv
    <2>4. /\ device'.bytes = device.bytes - credit /\ device'.closed = device.closed
          /\ ~Delayed => device'.writes = 0
      BY <1>1, <2>1, <2>2
    <2>5. okays' \in Seq(Nat) /\ Len(okays') = Len(okays) + 1 /\ Len(okays) \in Nat
      BY <2>1, <2>2, <2>3
    <2>6. /\ IsFiniteSet(Units(okays'))
          /\ Sum(okays') = Sum(okays) + IF credit > 0 THEN credit ELSE 0
      BY <1>1, <2>1, <2>2, SumAppend DEF AllFinite
    <2>7. AllFinite'
      BY <1>1, <1>3, <2>3, <2>6 DEF AllFinite
    <2>8. Cardinality(Readies) = Len(okays) /\ Cardinality(Readies') = Len(okays')
      <3>1. (TypeOK /\ AllFinite => Numbers)'
        BY CreditNumbers, PTL
      <3> QED BY <1>1, <2>3, <2>5, <2>7, <3>1, CreditNumbers DEF Numbers
    <2>9. Sent' = Sent
      BY <1>5, <2>3 DEF Sent
    <2>10. /\ AtDevice' + Returning' <= AtDevice + Returning /\ AtDevice' <= AtDevice
           /\ InStep => AtDevice' + Returning' = AtDevice + Returning
           /\ AtDevice' \in Nat /\ Returning' \in Nat
      <3>1. CASE Delayed
        <4>1. Sum(okays) \in Nat
          BY <1>1, FS_CardinalityType DEF Sum, AllFinite
        <4> QED BY <1>1, <1>5, <2>2, <2>4, <2>6, <3>1, <4>1 DEF AtDevice, Returning
      <3>2. CASE ~Delayed
        <4>1. AtDevice' = 0 /\ AtDevice = device.writes /\ Returning' = Returning + 1
          BY <1>5, <2>4, <2>5, <2>8, <3>2 DEF AtDevice, Returning
        <4>2. device.writes <= 1
          BY <1>4, <3>2, <4>1 DEF CreditInv, Granted
        <4> QED BY <1>1, <1>4, <2>3, <4>1, <4>2
      <3> QED BY <3>1, <3>2
    <2>11. InStep' => InStep
      BY <1>2, <2>3, <2>4 DEF InStep
    <2>12. /\ Sent' + AtDevice' <= Granted
           /\ Budget' + Taken' + Sent' + AtDevice' + Returning'
                  <= Budget + Taken + Sent + AtDevice + Returning
           /\ InStep => Budget' + Taken' + Sent' + AtDevice' + Returning'
                          = Budget + Taken + Sent + AtDevice + Returning
      <3>1. Sent + AtDevice <= Granted /\ Granted \in Int
        BY <1>1, CreditNumbers DEF CreditInv, Numbers
      <3>2. PICK a \in Nat : a = AtDevice'
        BY <2>10
      <3>3. PICK r \in Nat : r = Returning'
        BY <2>10
      <3>4. a <= AtDevice /\ a + r <= AtDevice + Returning
            /\ (InStep => a + r = AtDevice + Returning)
        BY <2>10, <3>2, <3>3
      <3>5. Sent + a <= Granted
        BY <1>4, <3>1, <3>4
      <3>6. Budget + Taken + Sent + a + r <= Budget + Taken + Sent + AtDevice + Returning
        BY <1>4, <3>4
      <3>7. ASSUME InStep
            PROVE  Budget + Taken + Sent + a + r = Budget + Taken + Sent + AtDevice + Returning
        BY <1>4, <3>4, <3>7
      <3> QED BY <1>5, <2>9, <3>2, <3>3, <3>5, <3>6, <3>7, Zenon
    <2>13. okays' \in Seq(Nat \cup {Clse})
      BY <2>5
    <2> QED BY <1>1, <1>2, <1>5, <2>3, <2>4, <2>5, <2>7, <2>11, <2>12, <2>13, CreditMoves
            DEF CreditInv
  <1>8. CASE DeviceClose
    <2>1. PICK x \in {Clse, ShortPayload} : okays' = Append(okays, x)
      BY <1>8 DEF DeviceClose
    <2>2. x \in Int /\ ~(x > 0) /\ ~(x >= 0)
      BY <2>1 DEF Clse, ShortPayload
    <2>3. /\ wire' = wire /\ device' = [device EXCEPT !.closed = TRUE]
      BY <1>8 DEF DeviceClose
    <2>4. device'.bytes = device.bytes /\ device'.writes = device.writes /\ device'.closed
      BY <1>1, <2>3
    <2>5. IsFiniteSet(Units(okays')) /\ Sum(okays') = Sum(okays)
      <3>1. /\ IsFiniteSet(Units(okays'))
            /\ Sum(okays') = Sum(okays) + IF x > 0 THEN x ELSE 0
        BY <1>1, <2>1, <2>2, SumAppend DEF AllFinite
      <3>2. Sum(okays) \in Nat
        BY <1>1, FS_CardinalityType DEF Sum, AllFinite
      <3> QED BY <2>2, <3>1, <3>2
    <2>6. Readies' = Readies
      <3>1. /\ DOMAIN okays = 1 .. Len(okays) /\ DOMAIN okays' = 1 .. Len(okays) + 1
            /\ Len(okays) \in Nat /\ okays'[Len(okays) + 1] = x
            /\ \A k \in 1 .. Len(okays) : okays'[k] = okays[k]
        BY <1>1, <2>1
      <3>2. \A k \in 1 .. Len(okays) + 1 : k \in 1 .. Len(okays) \/ k = Len(okays) + 1
        BY <3>1
      <3>3. \A k \in 1 .. Len(okays) : k \in 1 .. Len(okays) + 1
        BY <3>1
      <3>4. \A k : k \in Readies' <=> k \in Readies
        BY <2>2, <3>1, <3>2, <3>3 DEF Readies
      <3> QED BY <3>4
    <2>7. AllFinite'
      BY <1>1, <1>3, <2>3, <2>5 DEF AllFinite
    <2>8. Sent' = Sent /\ AtDevice' = AtDevice /\ Returning' = Returning
      BY <1>5, <2>3, <2>4, <2>5, <2>6 DEF Sent, AtDevice, Returning
    <2>9. ~InStep'
      BY <2>4 DEF InStep
    <2>10. slot'.ack # "Delayed" => okays' \in Seq(Nat \cup {Clse})
      <3> SUFFICES ASSUME ~Delayed PROVE okays' \in Seq(Nat \cup {Clse})
        BY <1>5 DEF Delayed
      <3>1. okays' = Append(okays, Clse) /\ okays \in Seq(Nat \cup {Clse})
        BY <1>8 DEF DeviceClose, CreditInv, Delayed
      <3> QED BY <3>1
    <2> QED BY <1>1, <1>2, <1>4, <1>5, <2>4, <2>7, <2>8, <2>9, <2>10, CreditMoves DEF CreditInv
  <1> QED BY <1>6, <1>7, <1>8

(* A READY's credit reaches the budget.                                    *)
LEMMA ReadyCredit ==
    ASSUME SendInv, TypeOK', CreditInv, Receive
    PROVE  CreditInv'
  <1>1. /\ TypeOK /\ AllFinite /\ slot \in Slots
        /\ okays \in Seq(Nat \cup {ShortPayload, Clse}) /\ okays \in Seq(Int)
    <2>1. /\ TypeOK /\ AllFinite /\ slot \in Slots
          /\ okays \in Seq(Nat \cup {ShortPayload, Clse})
      BY DEF SendInv, CreditInv, TypeOK
    <2>2. okays \in Seq(Int)
      BY <2>1 DEF ShortPayload, Clse
    <2> QED BY <2>1, <2>2
  <1>2. /\ UNCHANGED <<freed, writer, wire, device, desync, gone>>
        /\ okays # <<>> /\ okays' = Tail(okays)
    BY DEF Receive
  <1>3. InHand' = InHand /\ InHands' = InHands
    BY <1>2 DEF InHand, InHands
  <1>4. /\ Budget \in Int /\ Taken \in Nat /\ Sent \in Nat /\ AtDevice \in Nat /\ Returning \in Nat
        /\ IsFiniteSet(Readies)
    BY <1>1, CreditNumbers DEF Numbers
  <1> DEFINE h == Head(okays)
  <1>5. /\ h \in Int /\ h \in Nat \cup {ShortPayload, Clse} /\ Len(okays) \in Nat
        /\ Len(okays') = Len(okays) - 1
        /\ okays \in Seq(Nat) => okays' \in Seq(Nat) /\ h \in Nat
    BY <1>1, <1>2
  <1>6. /\ IsFiniteSet(Units(okays'))
        /\ Sum(okays) = Sum(okays') + IF h > 0 THEN h ELSE 0
    BY <1>1, <1>2, SumTail DEF AllFinite
  <1>7. AllFinite'
    BY <1>1, <1>2, <1>3, <1>6 DEF AllFinite
  <1>8. \/ slot' = slot /\ (freed \/ slot.failed \/ ready_is_short(slot, h))
        \/ slot' = apply_close(slot)
        \/ slot' = apply_ready(slot, h) /\ h # Clse /\ ~ready_is_short(slot, h)
    BY DEF Receive
  <1> HIDE DEF h
  <1>9. slot'.ack = slot.ack /\ (slot'.failed => slot'.state = "Closed")
        /\ (slot'.state = "Open" => slot.state = "Open")
        /\ (slot' = apply_close(slot) => slot'.state = "Closed" /\ BudgetOf(slot') = BudgetOf(slot))
    <2>1. slot.failed => slot.state = "Closed"
      BY DEF CreditInv
    <2>2. CASE slot' = slot
      BY <1>1, <1>5, <2>1, <2>2, SlotCredit
    <2>3. CASE slot' = apply_close(slot)
      BY <1>1, <1>5, <2>3, SlotCredit
    <2>4. CASE slot' = apply_ready(slot, h)
      <3>1. /\ slot'.ack = slot.ack /\ slot'.state = slot.state /\ slot'.failed = slot.failed
        BY <1>1, <1>5, <2>4, SlotCredit
      <3>2. apply_close(slot).state = "Closed" /\ BudgetOf(apply_close(slot)) = BudgetOf(slot)
        BY <1>1, <1>5, SlotCredit
      <3> QED BY <2>1, <3>1, <3>2
    <2> QED BY <1>8, <2>2, <2>3, <2>4
  <1>10. Delayed' = Delayed /\ Taken' = Taken /\ Sent' = Sent /\ AtDevice' = AtDevice
         /\ Granted' = Granted /\ (InStep' => InStep)
    BY <1>2, <1>3, <1>9 DEF Delayed, Taken, Sent, AtDevice, Granted, InStep
  <1>11. /\ Returning' \in Nat /\ Returning' <= Returning
         /\ Delayed /\ h \in Nat => Returning = Returning' + h
         /\ ~Delayed /\ h >= 0 => Returning' + 1 = Returning
    <2>1. (TypeOK /\ AllFinite => Numbers)'
      BY CreditNumbers, PTL
    <2>2. Returning' \in Nat /\ IsFiniteSet(Readies')
      BY <1>7, <2>1 DEF Numbers
    <2>3. CASE Delayed
      BY <1>5, <1>6, <1>10, <2>2, <2>3 DEF Returning
    <2>4. CASE ~Delayed
      <3> DEFINE R == {k \in Readies : k # 1}
      <3>1. /\ DOMAIN okays = 1 .. Len(okays) /\ DOMAIN okays' = 1 .. Len(okays) - 1
            /\ \A k \in 1 .. Len(okays) - 1 : okays'[k] = okays[k + 1]
            /\ okays[1] = h
        BY <1>1, <1>2, <1>5 DEF h
      <3>2. ExistsBijection(R, Readies')
        <4> DEFINE b == [k \in R |-> k - 1]
        <4>1. \A k \in R : k \in 1 .. Len(okays) /\ k # 1 /\ okays[k] >= 0
          BY <3>1 DEF Readies
        <4>2. ASSUME NEW k \in R PROVE k - 1 \in Readies'
          <5>1. k - 1 \in 1 .. Len(okays) - 1 /\ (k - 1) + 1 = k
            BY <1>5, <4>1
          <5>2. okays'[k - 1] = okays[(k - 1) + 1]
            BY <3>1, <5>1
          <5> QED BY <3>1, <4>1, <5>1, <5>2 DEF Readies
        <4>3. b \in [R -> Readies']
          BY <4>2
        <4>4. ASSUME NEW k \in R, NEW j \in R, b[k] = b[j] PROVE k = j
          <5>1. k - 1 = j - 1 /\ k \in Int /\ j \in Int
            BY <4>1, <4>4
          <5> QED BY <5>1
        <4>5. ASSUME NEW j \in Readies' PROVE \E k \in R : b[k] = j
          <5>1. j \in 1 .. Len(okays) - 1 /\ okays'[j] >= 0 /\ okays'[j] = okays[j + 1]
            BY <3>1 DEF Readies
          <5>2. j + 1 \in 1 .. Len(okays) /\ j + 1 # 1 /\ (j + 1) - 1 = j
            BY <1>5, <5>1
          <5>3. j + 1 \in R
            BY <3>1, <5>1, <5>2 DEF Readies
          <5> QED BY <5>2, <5>3
        <4> HIDE DEF b, R
        <4>6. b \in Bijection(R, Readies')
          BY <4>3, <4>4, <4>5 DEF Bijection, Injection, Surjection, IsInjective
        <4> QED BY <4>6 DEF ExistsBijection
      <3>3. R = Readies \ {1} /\ (1 \in Readies <=> h >= 0)
        BY <1>2, <1>5, <3>1 DEF Readies
      <3>4. /\ IsFiniteSet(R)
            /\ Cardinality(R) = IF 1 \in Readies THEN Cardinality(Readies) - 1
                                ELSE Cardinality(Readies)
        BY <1>4, <3>3, FS_RemoveElement
      <3> HIDE DEF R
      <3>5. Cardinality(Readies') = Cardinality(R)
        BY <3>2, <3>4, FS_Bijection
      <3>6. Returning = Cardinality(Readies) /\ Returning' = Cardinality(Readies')
        BY <1>10, <2>4 DEF Returning
      <3> QED BY <1>4, <2>2, <2>4, <3>3, <3>4, <3>5, <3>6
    <2> QED BY <2>3, <2>4
  <1>12. /\ ~device'.closed => okays' \in Seq(Nat)
         /\ slot'.ack # "Delayed" => okays' \in Seq(Nat \cup {Clse})
    <2>1. okays \in Seq(Nat \cup {Clse}) => okays' \in Seq(Nat \cup {Clse})
      BY <1>2
    <2> QED BY <1>2, <1>5, <1>9, <2>1 DEF CreditInv, Delayed
  <1>13. Sent' + AtDevice' <= Granted
    BY <1>10 DEF CreditInv
  <1>14. CASE \/ slot' = slot /\ (freed \/ slot.failed \/ ready_is_short(slot, h))
              \/ slot' = apply_close(slot)
    <2>1. Budget' = Budget
      BY <1>9, <1>14 DEF Budget
    <2>2. ~InStep'
      <3>1. CASE slot' = slot /\ (freed \/ slot.failed)
        BY <1>2, <3>1 DEF InStep, CreditInv
      <3>2. CASE slot' = slot /\ ready_is_short(slot, h)
        BY <1>2, <1>5, <3>2 DEF ready_is_short, ShortPayload, CreditInv, InStep
      <3>3. CASE slot' = apply_close(slot)
        BY <1>9, <3>3 DEF InStep
      <3> QED BY <1>14, <3>1, <3>2, <3>3
    <2>3. Budget' >= 0
      BY <2>1 DEF CreditInv
    <2>4. Returning' \in Nat /\ Returning' <= Returning
      BY <1>11
    <2>5. Budget' + Taken' + Sent' + AtDevice' + Returning'
              <= Budget + Taken + Sent + AtDevice + Returning
      <3>1. Taken' = Taken /\ Sent' = Sent /\ AtDevice' = AtDevice
        BY <1>10
      <3>2. Budget + Taken + Sent + AtDevice + Returning'
                <= Budget + Taken + Sent + AtDevice + Returning
        <4>1. PICK r \in Nat : r = Returning'
          BY <2>4, Zenon
        <4>2. r <= Returning
          BY <2>4, <4>1, Zenon
        <4>3. Budget + Taken + Sent + AtDevice + r <= Budget + Taken + Sent + AtDevice + Returning
          BY <1>4, <4>2
        <4> QED BY <4>1, <4>3, Zenon
      <3> QED BY <2>1, <3>1, <3>2
    <2> QED BY <1>1, <1>2, <1>7, <1>9, <1>10, <1>12, <1>13, <2>2, <2>3, <2>5, CreditMoves
  <1>15. CASE slot' = apply_ready(slot, h) /\ h # Clse /\ ~ready_is_short(slot, h)
    <2>1. Budget' = IF Delayed THEN Budget + h ELSE 1
      BY <1>1, <1>5, <1>15, SlotCredit DEF Budget, Delayed
    <2>2. SUFFICES /\ Budget' >= 0 /\ Budget' \in Int
                   /\ ~desync => Budget' + Returning' = Budget + Returning
      <3>1. Returning' \in Nat
        BY <1>11
      <3>2. Taken' = Taken /\ Sent' = Sent /\ AtDevice' = AtDevice
        BY <1>10
      <3>3. ~desync => /\ Budget' + Taken' + Sent' + AtDevice' + Returning'
                            = Budget + Taken + Sent + AtDevice + Returning
                       /\ Budget' + Taken' + Sent' + AtDevice' + Returning'
                            <= Budget + Taken + Sent + AtDevice + Returning
        <4> SUFFICES ASSUME ~desync
                     PROVE  Budget' + Taken + Sent + AtDevice + Returning'
                              = Budget + Taken + Sent + AtDevice + Returning
          <5>1. Budget + Taken + Sent + AtDevice + Returning \in Int
            BY <1>4
          <5> QED BY <3>2, <5>1
        <4>1. Budget' + Returning' = Budget + Returning /\ Budget' \in Int
          BY <2>2
        <4>2. PICK b \in Int, r \in Nat : b = Budget' /\ r = Returning'
          BY <3>1, <4>1, Zenon
        <4>3. b + r = Budget + Returning
          BY <4>1, <4>2, Zenon
        <4>4. b + Taken + Sent + AtDevice + r = Budget + Taken + Sent + AtDevice + Returning
          BY <1>4, <4>3
        <4> QED BY <4>2, <4>4, Zenon
      <3>4. InStep' => ~desync
        BY <1>2 DEF InStep
      <3> QED BY <1>1, <1>2, <1>7, <1>9, <1>10, <1>12, <1>13, <2>2, <3>3, <3>4, CreditMoves
    <2>3. CASE Delayed
      <3>1. h \in Nat
        BY <1>5, <1>15, <2>3 DEF ready_is_short, Delayed
      <3>2. Returning = Returning' + h /\ Returning' \in Nat /\ Budget' = Budget + h
        BY <1>11, <2>1, <2>3, <3>1
      <3>3. Budget >= 0
        BY DEF CreditInv
      <3> QED BY <1>4, <3>1, <3>2, <3>3
    <2>4. CASE ~Delayed
      <3>1. Budget' = 1 /\ Budget \in {0, 1} /\ Granted = 1
        BY <2>1, <2>4 DEF Budget, BudgetOf, Delayed, Granted
      <3>2. h >= 0
        <4>1. okays \in Seq(Nat \cup {Clse})
          BY <2>4 DEF CreditInv, Delayed
        <4>2. h \in Nat \cup {Clse}
          BY <1>2, <4>1 DEF h
        <4> QED BY <1>15, <4>2
      <3>3. Returning' + 1 = Returning /\ Returning' \in Nat
        BY <1>11, <2>4, <3>2
      <3>4. ~desync => Budget + Taken + Sent + AtDevice + Returning <= 1
        BY <3>1 DEF CreditInv
      <3>5. Budget >= 0
        BY DEF CreditInv
      <3>6. ~desync => 1 + Returning' = Budget + Returning
        <4>1. PICK r \in Nat : r = Returning'
          BY <3>3, Zenon
        <4>2. r + 1 = Returning
          BY <3>3, <4>1, Zenon
        <4>3. ~desync => 1 + r = Budget + Returning
          BY <1>4, <3>4, <3>5, <4>2
        <4> QED BY <4>1, <4>3, Zenon
      <3> QED BY <3>1, <3>6
    <2> QED BY <2>3, <2>4
  <1> QED BY <1>8, <1>14, <1>15

(* What one writer holds, and what the others hold.                        *)
OthersHands(w) == [v \in InHand \ {w} |-> writer[v].n]
OthersTaken(w) == IF Delayed THEN Sum(OthersHands(w)) ELSE Cardinality(InHand \ {w})
Worth(n) == IF Delayed THEN n ELSE 1

(* The credit in hand is one writer's and that of the others.              *)
LEMMA HandsApart ==
    ASSUME TypeOK, AllFinite, NEW w \in InHand
    PROVE  /\ IsFiniteSet(InHand \ {w}) /\ IsFiniteSet(Units(OthersHands(w)))
           /\ OthersTaken(w) \in Nat /\ writer[w].n \in Nat
           /\ Taken = OthersTaken(w) + Worth(writer[w].n)
  <1>1. writer[w].n \in Nat
    BY DEF TypeOK, WriterStates, InHand
  <1> DEFINE f == OthersHands(w)
             g == InHands
  <1>2. /\ w \notin DOMAIN f /\ DOMAIN g = DOMAIN f \cup {w} /\ g[w] = writer[w].n
        /\ \A v \in DOMAIN f : g[v] = f[v]
    BY DEF OthersHands, InHands
  <1>3. IsFiniteSet(Units(g)) /\ g[w] \in Int
    BY <1>1, <1>2 DEF AllFinite
  <1> HIDE DEF f, g
  <1>4. IsFiniteSet(Units(f)) /\ Sum(g) = Sum(f) + IF g[w] > 0 THEN g[w] ELSE 0
    BY <1>2, <1>3, SumOneLess
  <1>5. Sum(f) \in Nat
    BY <1>4, FS_CardinalityType DEF Sum
  <1>6. Sum(g) = Sum(f) + writer[w].n
    BY <1>1, <1>2, <1>4, <1>5
  <1>7. IsFiniteSet(InHand \ {w}) /\ Cardinality(InHand \ {w}) = Cardinality(InHand) - 1
    BY FS_RemoveElement DEF AllFinite
  <1>8. Cardinality(InHand) \in Nat /\ Cardinality(InHand \ {w}) \in Nat
    BY <1>7, FS_CardinalityType DEF AllFinite
  <1>9. Cardinality(InHand) = Cardinality(InHand \ {w}) + 1
    BY <1>7, <1>8
  <1> QED BY <1>1, <1>4, <1>5, <1>6, <1>7, <1>8, <1>9 DEF f, g, OthersTaken, Taken, Worth

(* Credit passes from the budget into a writer's hands.                    *)
LEMMA ReserveCredit ==
    ASSUME SendInv, TypeOK', CreditInv, NEW w \in Writers, TryReserve(w)
    PROVE  CreditInv'
  <1>1. /\ TypeOK /\ AllFinite /\ slot \in Slots /\ writer \in [Writers -> WriterStates]
        /\ writer[w] \in WriterStates /\ writer[w].pc = "try" /\ writer[w].left \in Nat
    BY DEF SendInv, CreditInv, TypeOK, WriterStates, TryReserve
  <1>2. UNCHANGED <<freed, wire, device, okays, desync, gone>>
    BY DEF TryReserve
  <1>3. writer[w].pc \notin Hands /\ "leave" \notin Hands /\ "none" \notin Hands
    BY <1>1 DEF Hands, Holding
  <1>4. CASE slot' = slot /\ writer' \in {To(w, "leave"), To(w, "none")}
    <2>1. \A v \in Writers : /\ writer'[v].pc \in Hands <=> writer[v].pc \in Hands
                             /\ writer[v].pc \in Hands => writer'[v].n = writer[v].n
      <3> SUFFICES ASSUME NEW pc \in {"leave", "none"}, writer' = To(w, pc), NEW v \in Writers
                   PROVE  /\ writer'[v].pc \in Hands <=> writer[v].pc \in Hands
                          /\ writer[v].pc \in Hands => writer'[v].n = writer[v].n
        BY <1>4
      <3>1. CASE v = w
        <4>1. writer'[w].pc = pc
          BY <1>1 DEF To, WriterStates
        <4> QED BY <1>3, <3>1, <4>1
      <3>2. CASE v # w
        <4>1. writer'[v] = writer[v]
          BY <1>1, <3>2 DEF To
        <4> QED BY <4>1
      <3> QED BY <3>1, <3>2
    <2> QED BY <1>2, <1>4, <2>1, HandsStay, CreditStays DEF CreditInv, InStep
  <1>5. CASE ~(slot' = slot /\ writer' \in {To(w, "leave"), To(w, "none")})
    <2> DEFINE n == reserve_len(slot, AtMost(writer[w].left, MaxPayload))
               pc == IF has_budget(slot') THEN "more" ELSE "ids"
    <2>1. /\ slot' = spend(slot, n) /\ has_budget(slot)
          /\ writer' = [writer EXCEPT ![w] =
                          [writer[w] EXCEPT !.pc = pc, !.n = n, !.listener = "none"]]
      BY <1>5 DEF TryReserve
    <2>2. n \in Nat
      BY <1>1, <2>1, ReserveFacts
    <2>3. /\ Delayed => n <= Budget
          /\ ~Delayed => Budget = 1
      <3>1. CASE Delayed
        <4>1. slot.send_budget \in Int /\ AtMost(writer[w].left, MaxPayload) \in Int
          BY <1>1, ConfigAssumption DEF Slots, AtMost
        <4> QED BY <3>1, <4>1 DEF Delayed, Budget, BudgetOf, reserve_len, AtMost
      <3>2. CASE ~Delayed
        BY <2>1, <3>2 DEF Delayed, Budget, BudgetOf, has_budget
      <3> QED BY <3>1, <3>2
    <2> HIDE DEF n
    <2>4. writer'[w].pc = pc /\ writer'[w].n = n
          /\ \A v \in Writers : v # w => writer'[v] = writer[v]
      BY <1>1, <2>1 DEF WriterStates
    <2>5. pc \in Hands
      BY DEF Hands, Holding
    <2> HIDE DEF pc
    <2>6. w \notin InHand /\ InHand' = InHand \cup {w}
      BY <1>3, <2>4, <2>5 DEF InHand, Hands
    <2>7. /\ InHands'[w] = n /\ DOMAIN InHands' = InHand \cup {w} /\ DOMAIN InHands = InHand
          /\ \A v \in InHand : InHands'[v] = InHands[v]
      <3>1. \A v \in InHand : v \in Writers /\ v # w /\ writer'[v] = writer[v]
        BY <2>4, <2>6 DEF InHand
      <3> QED BY <2>4, <2>6, <3>1 DEF InHands
    <2>8. /\ IsFiniteSet(Units(InHands'))
          /\ Sum(InHands') = Sum(InHands) + IF n > 0 THEN n ELSE 0
      <3> DEFINE f == InHands
                 g == InHands'
      <3>1. /\ w \notin DOMAIN f /\ DOMAIN g = DOMAIN f \cup {w} /\ g[w] = n /\ g[w] \in Int
            /\ \A v \in DOMAIN f : g[v] = f[v] /\ IsFiniteSet(Units(f))
        BY <1>1, <2>2, <2>6, <2>7 DEF AllFinite
      <3>2. IsFiniteSet(Units(f))
        BY <1>1 DEF AllFinite
      <3> HIDE DEF f, g
      <3>3. IsFiniteSet(Units(g)) /\ Sum(g) = Sum(f) + IF g[w] > 0 THEN g[w] ELSE 0
        BY <3>1, <3>2, SumOneMore
      <3> QED BY <3>1, <3>3 DEF f, g
    <2>9. IsFiniteSet(InHand') /\ Cardinality(InHand') = Cardinality(InHand) + 1
      BY <1>1, <2>6, FS_AddElement DEF AllFinite
    <2>10. AllFinite'
      BY <1>1, <1>2, <2>8, <2>9 DEF AllFinite
    <2>11. /\ slot'.ack = slot.ack /\ slot'.state = slot.state /\ slot'.failed = slot.failed
           /\ BudgetOf(slot') = IF Delayed THEN BudgetOf(slot) - n ELSE 0
      <3>1. n \in Int
        BY <2>2
      <3> QED BY <1>1, <2>1, <3>1, SlotCredit DEF Delayed
    <2>12. Delayed' = Delayed /\ Sent' = Sent /\ AtDevice' = AtDevice /\ Returning' = Returning
           /\ (InStep' => InStep)
      BY <1>2, <2>11 DEF Delayed, Sent, AtDevice, Returning, Readies, InStep
    <2>13. /\ Budget \in Int /\ Taken \in Nat /\ Sent \in Nat /\ AtDevice \in Nat
           /\ Returning \in Nat
      BY <1>1, CreditNumbers DEF Numbers
    <2>14. Taken' = Taken + Worth(n)
      <3>1. Sum(InHands) \in Nat
        BY <1>1, FS_CardinalityType DEF Sum, AllFinite
      <3>2. Sum(InHands') = Sum(InHands) + n
        BY <2>2, <2>8, <3>1
      <3> QED BY <2>9, <2>12, <3>2 DEF Taken, Worth
    <2>15. Budget' = Budget - Worth(n) /\ Budget - Worth(n) >= 0 /\ Worth(n) \in Nat
      <3>1. CASE Delayed
        BY <2>2, <2>3, <2>11, <2>13, <3>1 DEF Budget, Worth
      <3>2. CASE ~Delayed
        BY <2>2, <2>3, <2>11, <2>13, <3>2 DEF Budget, Worth
      <3> QED BY <3>1, <3>2
    <2>16. Budget' + Taken' + Sent' + AtDevice' + Returning'
             = Budget + Taken + Sent + AtDevice + Returning
      <3>1. PICK x \in Nat : x = Worth(n)
        BY <2>15, Zenon
      <3>2. Budget' = Budget - x /\ Taken' = Taken + x
        BY <2>14, <2>15, <3>1, Zenon
      <3>3. (Budget - x) + (Taken + x) + Sent + AtDevice + Returning
              = Budget + Taken + Sent + AtDevice + Returning
        BY <2>13
      <3> QED BY <2>12, <3>2, <3>3, Zenon
    <2>17. Budget + Taken + Sent + AtDevice + Returning \in Int
      BY <2>13
    <2>18. Budget' + Taken' + Sent' + AtDevice' + Returning'
             <= Budget + Taken + Sent + AtDevice + Returning
      BY <2>16, <2>17
    <2>19. Budget' >= 0
      BY <2>15
    <2>20. Sent' + AtDevice' <= Granted
      BY <2>12 DEF CreditInv
    <2>21. /\ slot'.failed => slot'.state = "Closed"
           /\ ~device'.closed => okays' \in Seq(Nat)
           /\ slot'.ack # "Delayed" => okays' \in Seq(Nat \cup {Clse})
      BY <1>2, <2>11 DEF CreditInv, Delayed
    <2> QED BY <1>1, <1>2, <2>10, <2>11, <2>12, <2>16, <2>18, <2>19, <2>20, <2>21, CreditMoves
  <1> QED BY <1>4, <1>5

(* From there it goes out, is given back, or is left with a packet that    *)
(* was cut short.                                                          *)
LEMMA SpendCredit ==
    ASSUME SendInv, TypeOK', CreditInv, NEW w \in Writers,
           SendChunk(w) \/ SendAbandoned(w) \/ Refund(w)
    PROVE  CreditInv'
  <1>1. /\ TypeOK /\ AllFinite /\ slot \in Slots /\ writer \in [Writers -> WriterStates]
        /\ writer[w] \in WriterStates /\ wire \in Seq(Nat)
        /\ writer[w].pc \in {"send", "refund"}
    BY DEF SendInv, CreditInv, TypeOK, SendChunk, SendAbandoned, Refund
  <1>2. wire \in Seq(Int)
    BY <1>1
  <1>3. UNCHANGED <<freed, device, okays, gone>>
    BY DEF SendChunk, SendAbandoned, Refund
  <1>4. w \in InHand
    BY <1>1 DEF InHand, Holding
  <1> DEFINE n == writer[w].n
             rest == OthersTaken(w)
  <1>5. /\ IsFiniteSet(InHand \ {w}) /\ IsFiniteSet(Units(OthersHands(w)))
        /\ rest \in Nat /\ n \in Nat /\ Taken = rest + Worth(n)
    BY <1>1, <1>4, HandsApart
  <1>6. /\ Budget \in Int /\ Taken \in Nat /\ Sent \in Nat /\ AtDevice \in Nat
        /\ Returning \in Nat /\ Granted \in Nat
    BY <1>1, CreditNumbers DEF Numbers
  <1>7. Worth(n) \in Nat
    BY <1>5 DEF Worth
  <1>8. ASSUME wire' = Append(wire, n), slot' = slot
        PROVE  IsFiniteSet(Units(wire')) /\ Sent' = Sent + Worth(n)
    <2>1. n \in Int
      BY <1>5
    <2>2. /\ IsFiniteSet(Units(wire'))
          /\ Sum(wire') = Sum(wire) + IF n > 0 THEN n ELSE 0
      BY <1>1, <1>2, <1>8, <2>1, SumAppend DEF AllFinite
    <2>3. Sum(wire) \in Nat
      BY <1>1, FS_CardinalityType DEF Sum, AllFinite
    <2>4. Sum(wire') = Sum(wire) + n
      BY <1>5, <2>2, <2>3
    <2>5. Len(wire') = Len(wire) + 1
      BY <1>1, <1>5, <1>8
    <2> QED BY <1>8, <2>2, <2>4, <2>5 DEF Sent, Worth, Delayed
  <1>9. ASSUME slot'.ack = slot.ack, writer'[w].pc \notin Hands,
               \A v \in Writers : v # w => writer'[v] = writer[v]
        PROVE  InHand' = InHand \ {w} /\ InHands' = OthersHands(w) /\ Taken' = rest
    <2>1. InHand' = InHand \ {w}
      BY <1>9 DEF InHand, Hands
    <2>2. \A v \in InHand \ {w} : writer'[v] = writer[v]
      BY <1>9 DEF InHand
    <2>3. InHands' = OthersHands(w)
      BY <2>1, <2>2 DEF InHands, OthersHands
    <2> QED BY <1>9, <2>1, <2>3 DEF Taken, OthersTaken, Delayed
  <1> HIDE DEF n, rest
  <1>10. CASE SendChunk(w)
    <2>1. /\ writer' = [writer EXCEPT ![w] = [writer[w] EXCEPT !.pc = "finish",
                                                !.left = writer[w].left - writer[w].n]]
          /\ wire' = Append(wire, n) /\ slot' = slot /\ desync' = desync
      BY <1>10 DEF SendChunk, n
    <2>2. writer'[w].pc = "finish" /\ \A v \in Writers : v # w => writer'[v] = writer[v]
      BY <1>1, <2>1 DEF WriterStates
    <2>3. IsFiniteSet(Units(wire')) /\ Sent' = Sent + Worth(n)
      BY <1>8, <2>1
    <2>4. InHand' = InHand \ {w} /\ InHands' = OthersHands(w) /\ Taken' = rest
      BY <1>9, <2>1, <2>2 DEF Hands
    <2>5. AllFinite'
      BY <1>1, <1>3, <1>5, <2>3, <2>4 DEF AllFinite
    <2>6. Budget' = Budget /\ AtDevice' = AtDevice /\ Returning' = Returning /\ (InStep' => InStep)
      BY <1>3, <2>1 DEF Budget, AtDevice, Returning, Readies, Delayed, InStep
    <2>7. PICK x \in Nat : x = Worth(n)
      BY <1>7, Zenon
    <2>8. Budget + rest + (Sent + x) + AtDevice + Returning
            = Budget + Taken + Sent + AtDevice + Returning
      BY <1>5, <1>6, <2>7
    <2>9. Budget' + Taken' + Sent' + AtDevice' + Returning'
            = Budget + Taken + Sent + AtDevice + Returning
      BY <2>3, <2>4, <2>6, <2>7, <2>8, Zenon
    <2>10. Budget + Taken + Sent + AtDevice + Returning \in Int
      BY <1>6
    <2>11. Budget' + Taken' + Sent' + AtDevice' + Returning'
             <= Budget + Taken + Sent + AtDevice + Returning
      BY <2>9, <2>10
    <2>12. ~desync
      BY <1>10 DEF SendChunk
    <2>13. (Sent + x) + AtDevice <= Granted
      <3>1. Budget + Taken + Sent + AtDevice + Returning <= Granted /\ Budget >= 0
        BY <2>12 DEF CreditInv
      <3>2. Taken = rest + x
        BY <1>5, <2>7
      <3> QED BY <1>5, <1>6, <3>1, <3>2
    <2>14. Sent' + AtDevice' <= Granted
      BY <2>3, <2>6, <2>7, <2>13, Zenon
    <2>15. /\ slot'.failed => slot'.state = "Closed"
           /\ ~device'.closed => okays' \in Seq(Nat)
           /\ slot'.ack # "Delayed" => okays' \in Seq(Nat \cup {Clse})
           /\ Budget' >= 0
      BY <1>3, <2>1, <2>6 DEF CreditInv, Delayed
    <2> QED BY <1>1, <2>1, <2>5, <2>6, <2>9, <2>11, <2>14, <2>15, CreditMoves
  <1>11. CASE SendAbandoned(w)
    <2>1. /\ writer' = [wake(writer) EXCEPT ![w] = [wake(writer)[w] EXCEPT !.pc = "refund"]]
          /\ wire' = wire \/ wire' = Append(wire, n)
          /\ slot' = slot /\ ~desync /\ desync' = TRUE /\ writer[w].pc = "send"
      <3>1. wake(writer) \in [Writers -> WriterStates]
        BY <1>1, WakeFacts
      <3> QED BY <1>11, <3>1 DEF SendAbandoned, n
    <2>2. \A v \in Writers : /\ writer'[v].pc \in Hands <=> writer[v].pc \in Hands
                             /\ writer[v].pc \in Hands => writer'[v].n = writer[v].n
      <3> DEFINE ws == wake(writer)
      <3>1. /\ ws \in [Writers -> WriterStates]
            /\ \A v \in Writers : ws[v].pc = writer[v].pc /\ ws[v].n = writer[v].n
        BY <1>1, WakeFacts
      <3>2. writer' = [ws EXCEPT ![w] = [ws[w] EXCEPT !.pc = "refund"]]
        BY <2>1
      <3>3. "send" \in Hands /\ "refund" \in Hands
        BY DEF Hands, Holding
      <3> HIDE DEF ws
      <3>4. writer'[w].pc = "refund" /\ writer'[w].n = writer[w].n
            /\ \A v \in Writers : v # w => writer'[v] = ws[v]
        BY <3>1, <3>2 DEF WriterStates
      <3> QED BY <2>1, <3>1, <3>3, <3>4
    <2>3. InHand' = InHand /\ InHands' = InHands
      BY <2>2, HandsStay
    <2>4. IsFiniteSet(Units(wire')) /\ (Sent' = Sent \/ Sent' = Sent + Worth(n))
      <3>1. CASE wire' = wire
        BY <1>1, <2>1, <3>1 DEF AllFinite, Sent, Delayed
      <3>2. CASE wire' = Append(wire, n)
        BY <1>8, <2>1, <3>2
      <3> QED BY <2>1, <3>1, <3>2
    <2>5. AllFinite'
      BY <1>1, <1>3, <2>3, <2>4 DEF AllFinite
    <2>6. Budget' = Budget /\ AtDevice' = AtDevice /\ ~InStep'
      BY <1>3, <2>1 DEF Budget, AtDevice, Delayed, InStep
    <2>7. PICK x \in Nat : x = Worth(n)
      BY <1>7, Zenon
    <2>8. Sent + AtDevice <= Granted /\ (Sent + x) + AtDevice <= Granted
      <3>1. Budget + Taken + Sent + AtDevice + Returning <= Granted /\ Budget >= 0
            /\ Sent + AtDevice <= Granted
        BY <2>1 DEF CreditInv
      <3>2. Taken = rest + x
        BY <1>5, <2>7
      <3> QED BY <1>5, <1>6, <3>1, <3>2
    <2>9. Sent' + AtDevice' <= Granted
      BY <2>4, <2>6, <2>7, <2>8, Zenon
    <2>10. /\ slot'.failed => slot'.state = "Closed"
           /\ ~device'.closed => okays' \in Seq(Nat)
           /\ slot'.ack # "Delayed" => okays' \in Seq(Nat \cup {Clse})
           /\ Budget' >= 0
      BY <1>3, <2>1, <2>6 DEF CreditInv, Delayed
    <2> QED BY <1>1, <2>1, <2>5, <2>6, <2>9, <2>10, CreditMoves
  <1>12. CASE Refund(w)
    <2>1. /\ writer' = [writer EXCEPT ![w] = [writer[w] EXCEPT !.pc = "refundWake"]]
          /\ wire' = wire /\ desync' = desync
          /\ IF freed THEN slot' = slot ELSE slot' = refund(slot, n)
      BY <1>12 DEF Refund, To, n
    <2>2. writer'[w].pc = "refundWake" /\ \A v \in Writers : v # w => writer'[v] = writer[v]
      BY <1>1, <2>1 DEF WriterStates
    <2>3. /\ slot'.ack = slot.ack /\ slot'.state = slot.state /\ slot'.failed = slot.failed
          /\ BudgetOf(slot') = IF freed THEN BudgetOf(slot)
                               ELSE IF Delayed THEN BudgetOf(slot) + n ELSE 1
      <3>1. n \in Int
        BY <1>5
      <3> QED BY <1>1, <2>1, <3>1, SlotCredit DEF Delayed
    <2>4. InHand' = InHand \ {w} /\ InHands' = OthersHands(w) /\ Taken' = rest
      BY <1>9, <2>2, <2>3 DEF Hands, Holding
    <2>5. AllFinite'
      BY <1>1, <1>3, <1>5, <2>1, <2>4 DEF AllFinite
    <2>6. Sent' = Sent /\ AtDevice' = AtDevice /\ Returning' = Returning /\ (InStep' => InStep)
      BY <1>3, <2>1, <2>3 DEF Sent, AtDevice, Returning, Readies, Delayed, InStep
    <2>7. PICK x \in Nat : x = Worth(n)
      BY <1>7, Zenon
    <2>8. Taken = rest + x /\ Budget >= 0 /\ Sent + AtDevice <= Granted
      BY <1>5, <2>7 DEF CreditInv
    <2>9. freed => Budget' = Budget
      BY <2>3 DEF Budget
    <2>10. ~freed /\ ~desync => Budget' = Budget + x
      <3>1. CASE Delayed
        BY <2>3, <2>7, <3>1 DEF Budget, Worth
      <3>2. CASE ~Delayed
        <4> SUFFICES ASSUME ~freed, ~desync PROVE Budget' = Budget + x
          OBVIOUS
        <4>1. Budget' = 1 /\ x = 1 /\ Granted = 1
          BY <2>3, <2>7, <3>2 DEF Budget, Worth, Granted
        <4>2. Budget + Taken + Sent + AtDevice + Returning <= Granted
          BY DEF CreditInv
        <4>3. Budget = 0
          BY <1>5, <1>6, <2>8, <4>1, <4>2
        <4> QED BY <4>1, <4>3
      <3> QED BY <3>1, <3>2
    <2>11. Budget' >= 0
      <3>1. Budget' \in {Budget, Budget + n, 1}
        BY <2>3 DEF Budget
      <3> QED BY <1>5, <1>6, <2>8, <3>1
    <2>12. /\ Budget + rest + Sent + AtDevice + Returning
                <= Budget + Taken + Sent + AtDevice + Returning
           /\ (Budget + x) + rest + Sent + AtDevice + Returning
                = Budget + Taken + Sent + AtDevice + Returning
           /\ Budget + Taken + Sent + AtDevice + Returning \in Int
      BY <1>5, <1>6, <2>8
    <2>13. ~desync' => Budget' + Taken' + Sent' + AtDevice' + Returning'
                         <= Budget + Taken + Sent + AtDevice + Returning
      <3>1. CASE freed
        BY <2>4, <2>6, <2>9, <2>12, <3>1, Zenon
      <3>2. CASE ~freed
        <4>1. ~desync => Budget' + Taken' + Sent' + AtDevice' + Returning'
                           = Budget + Taken + Sent + AtDevice + Returning
          BY <2>4, <2>6, <2>10, <2>12, <3>2, Zenon
        <4> QED BY <2>1, <2>12, <4>1
      <3> QED BY <3>1, <3>2
    <2>14. InStep' => Budget' + Taken' + Sent' + AtDevice' + Returning'
                        = Budget + Taken + Sent + AtDevice + Returning
      <3>1. InStep' => ~freed /\ ~desync
        BY <1>3, <2>1 DEF InStep
      <3> QED BY <2>4, <2>6, <2>10, <2>12, <3>1, Zenon
    <2>15. Sent' + AtDevice' <= Granted
      BY <2>6, <2>8
    <2>16. /\ slot'.failed => slot'.state = "Closed"
           /\ ~device'.closed => okays' \in Seq(Nat)
           /\ slot'.ack # "Delayed" => okays' \in Seq(Nat \cup {Clse})
      BY <1>3, <2>3 DEF CreditInv, Delayed
    <2> QED BY <1>1, <2>1, <2>3, <2>5, <2>6, <2>11, <2>13, <2>14, <2>15, <2>16, CreditMoves
  <1> QED BY <1>10, <1>11, <1>12
(* At first all the credit is in the slot's budget.                        *)
LEMMA CreditInitially == Init => CreditInv
  <1> SUFFICES ASSUME Init PROVE CreditInv
    OBVIOUS
  <1>1. /\ writer = [w \in Writers |-> IdleWriter] /\ wire = <<>> /\ okays = <<>>
        /\ device = [bytes |-> 0, writes |-> 0, closed |-> FALSE] /\ scenario \in Scenarios
    BY DEF Init
  <1>2. InHand = {}
    BY <1>1 DEF InHand, Holding, IdleWriter
  <1>3. ASSUME NEW f, DOMAIN f = {} PROVE IsFiniteSet(Units(f)) /\ Sum(f) = 0
    <2>1. Units(f) = {}
      BY <1>3 DEF Units
    <2> QED BY <2>1, FS_EmptySet DEF Sum
  <1>4. DOMAIN InHands = {} /\ DOMAIN wire = {} /\ DOMAIN okays = {}
    BY <1>1, <1>2 DEF InHands
  <1>5. AllFinite
    BY <1>2, <1>3, <1>4, FS_EmptySet DEF AllFinite
  <1>6. Taken = 0 /\ Sent = 0 /\ AtDevice = 0 /\ Returning = 0
    <2>1. Readies = {} /\ Len(wire) = 0
      BY <1>1 DEF Readies
    <2>2. Sum(InHands) = 0 /\ Sum(wire) = 0 /\ Sum(okays) = 0 /\ Cardinality({}) = 0
      BY <1>3, <1>4, FS_EmptySet
    <2> QED BY <1>1, <1>2, <2>1, <2>2 DEF Taken, Sent, AtDevice, Returning
  <1>7. Budget = Granted /\ ~slot.failed
    <2>1. PICK ack \in scenario.acks : slot = accepted(1, 1, Window, ack)
      BY DEF Init
    <2>2. /\ slot.ack = ack /\ slot.wrte_acked = TRUE /\ slot.failed = FALSE
          /\ slot.send_budget = IF ack = "Delayed" THEN Window ELSE 0
      BY <2>1 DEF accepted, opening
    <2>3. CASE ack = "Delayed"
      BY <2>2, <2>3 DEF Budget, BudgetOf, Granted, Delayed
    <2>4. CASE ack # "Delayed"
      BY <2>2, <2>4 DEF Budget, BudgetOf, Granted, Delayed
    <2> QED BY <2>2, <2>3, <2>4
  <1>8. Granted \in Nat
    BY SendFlowAssumption DEF Granted
  <1>9. okays \in Seq(Nat) /\ okays \in Seq(Nat \cup {Clse})
    BY <1>1
  <1>10. Budget + Taken + Sent + AtDevice + Returning = Granted /\ Sent + AtDevice <= Granted
         /\ Budget >= 0
    BY <1>6, <1>7, <1>8
  <1>11. Budget + Taken + Sent + AtDevice + Returning <= Granted
    BY <1>8, <1>10
  <1> QED BY <1>5, <1>7, <1>9, <1>10, <1>11 DEF CreditInv

(* Every step keeps account of the credit.                                 *)
LEMMA CreditKept == SendInv /\ SendInv' /\ CreditInv /\ [Next]_sendVars => CreditInv'
  <1> SUFFICES ASSUME SendInv, SendInv', CreditInv, [Next]_sendVars PROVE CreditInv'
    OBVIOUS
  <1>1. TypeOK'
    BY DEF SendInv
  <1>2. CASE DeviceNext
    BY <1>1, <1>2, DeviceCredit, QuietHost DEF DeviceNext
  <1>3. CASE HostNext
    BY <1>1, <1>3, ReadyCredit, QuietHost DEF HostNext
  <1>4. ASSUME NEW w \in Writers, WriterNext(w) PROVE CreditInv'
    BY <1>1, <1>4, QuietWriter, ReserveCredit, SpendCredit DEF WriterNext
  <1>5. CASE UNCHANGED sendVars
    BY <1>5 DEF sendVars, CreditInv, AllFinite, Budget, Taken, Sent, AtDevice, Returning, Readies,
                Granted, Delayed, InHand, InHands, InStep
  <1> QED BY <1>2, <1>3, <1>4, <1>5 DEF Next

(* What the invariant says of the window and of the credit.                *)
LEMMA CreditFollows == SendInv /\ CreditInv => CreditExact
  <1> SUFFICES ASSUME SendInv, CreditInv PROVE CreditExact
    OBVIOUS
  <1>1. Numbers /\ Sent + AtDevice <= Granted
    BY CreditNumbers DEF SendInv, CreditInv
  <1>2. WithinWindow
    BY <1>1 DEF WithinWindow, Sent, AtDevice, Granted, Delayed
  <1>3. CreditConserved
    <2> SUFFICES ASSUME InStep
                 PROVE  IF slot.ack = "Delayed"
                        THEN slot.send_budget + Sum(InHands) + Sum(wire) + device.bytes
                               + Sum(okays) = Window
                        ELSE (IF slot.wrte_acked THEN 1 ELSE 0) + Cardinality(InHand) + Len(wire)
                               + device.writes + Len(okays) = 1
      BY DEF CreditConserved, InStep
    <2>1. Budget + Taken + Sent + AtDevice + Returning = Granted /\ okays \in Seq(Nat)
      BY DEF CreditInv, InStep
    <2>2. Cardinality(Readies) = Len(okays)
      BY <1>1, <2>1 DEF Numbers
    <2>3. CASE Delayed
      BY <2>1, <2>3 DEF Budget, BudgetOf, Taken, Sent, AtDevice, Returning, Granted, Delayed
    <2>4. CASE ~Delayed
      BY <2>1, <2>2, <2>4 DEF Budget, BudgetOf, Taken, Sent, AtDevice, Returning, Granted, Delayed
    <2> QED BY <2>3, <2>4 DEF Delayed
  <1> QED BY <1>2, <1>3 DEF CreditExact

(* Credit is neither lost nor made, for any number of writers, any window  *)
(* and any order of reservations, refunds, drops and READYs: the device is *)
(* never sent more than it granted, and while the channel is in step the   *)
(* slot, the writers, the wire and the device hold all of it.              *)
THEOREM CreditHolds == Spec => []CreditExact
  <1>1. Init => SendInv /\ CreditInv
    BY Initially, CreditInitially
  <1>2. SendInv /\ CreditInv /\ [Next]_sendVars => SendInv' /\ CreditInv'
    BY EveryStep, CreditKept
  <1>3. SendInv /\ CreditInv => CreditExact
    BY CreditFollows
  <1> QED BY <1>1, <1>2, <1>3, PTL DEF Spec

=============================================================================
