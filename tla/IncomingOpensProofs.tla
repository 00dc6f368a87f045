------------------------ MODULE IncomingOpensProofs -------------------------
(***************************************************************************)
(* Proofs about the channels the device opens, for any number of them, any *)
(* table size and every way to drop, fail or withdraw.                     *)
(***************************************************************************)
EXTENDS IncomingOpens, SequenceLemmas

-----------------------------------------------------------------------------
(* The invariant.                                                          *)

(* The device sends one OPEN for a request and then, at most, one CLSE.    *)
WireInOrder ==
    /\ \A i, j \in 1 .. Len(wire) : i < j /\ wire[i].on = wire[j].on =>
          wire[i].cmd = "OPEN" /\ wire[j].cmd = "CLSE"
    /\ \A i \in 1 .. Len(wire) : device[wire[i].on] # "new"
    /\ \A i \in 1 .. Len(wire) : wire[i].cmd = "CLSE" => device[wire[i].on] = "withdrawn"
    /\ \A r \in withdrawn : device[r] = "withdrawn"

(* The life of a request: nowhere before its OPEN is received, then in the *)
(* queue or in one SplitIncoming until it is answered or withdrawn.        *)
LifeOf(arrived, sl, queued, inc, ans, wd, over) ==
    /\ ~arrived => inc = NoIncoming /\ ~queued /\ ans = <<>> /\ sl = "none" /\ ~wd
    /\ queued => inc.pc = "none"
    /\ inc.pc = "none" => inc = NoIncoming
    /\ inc.pc \in {"held", "lock", "send"} => inc.pending
    /\ inc.pc \in {"held", "unstage"} => ~inc.reserved
    /\ inc.pc = "free" => inc.reserved
    /\ inc.pc \in {"lock", "send"} => inc.verdict = IF inc.reserved THEN "READY" ELSE "CLSE"
    /\ inc.owner = "reader" => ~inc.reserved
    /\ queued \/ inc.pending => ans = <<>>
    /\ Len(ans) <= 1
    /\ sl # "none" => inc.reserved \/ ans = <<"READY">>
    /\ inc.cancelled => wd
    /\ arrived /\ ans = <<>> /\ ~wd /\ ~over => queued \/ inc.pending

Life(r) == LifeOf(Arrived(r), slot[r], In(queue, r), incoming[r], answers[r], r \in withdrawn, gone)

(* The Reader refuses at most one request at a time, and waits for it.     *)
Refusing ==
    /\ \A r \in Requests : incoming[r].owner = "reader" => reader.pc = "refuse" /\ reader.on = r
    /\ reader.pc = "refuse" => /\ reader.on \in Requests /\ reader.then # "none"
                               /\ incoming[reader.on].owner = "reader"
    /\ reader.pc = "withdraw" => reader.on \in withdrawn

(* While nothing is dropped no request goes back to the queue, and there   *)
(* is room for the one the Reader refuses.                                 *)
Undropped ==
    scenario.faults \subseteq {"withdraw"} =>
        /\ ~gone /\ ~desync
        /\ \A r \in Requests : incoming[r].pc \in {"free", "unstage"} => ~incoming[r].pending
        /\ pending_opens <= MaxChannels + (IF reader.pc = "refuse" THEN 1 ELSE 0)
        /\ WithdrawnStaysGone

OpenInv ==
    /\ scenario \in Scenarios /\ TypeOK /\ WireInOrder /\ Once(queue) /\ IsFiniteSet(Staged)
    /\ \A r \in Requests : Life(r)
    /\ Refusing /\ NoLostIncoming /\ Undropped

-----------------------------------------------------------------------------
(* Frames: what a step leaves alone.                                       *)

(* incoming_signal.notify leaves no listener unaware.                      *)
LEMMA NotifiedFacts ==
    ASSUME listener \in Listeners
    PROVE  /\ notified \in Listeners /\ notified.pc = listener.pc /\ notified.alive = listener.alive
           /\ notified.signal # "armed"
  BY DEF notified, Listeners

(* A step is about one request, and the others live on.                    *)
LEMMA OthersLive ==
    ASSUME NEW q, \A r \in Requests : Life(r), gone => gone', q \in Requests => Life(q)',
           \A r \in Requests \ {q} :
               /\ Arrived(r)' <=> Arrived(r)
               /\ In(queue, r)' <=> In(queue, r)
               /\ slot'[r] = slot[r] /\ incoming'[r] = incoming[r] /\ answers'[r] = answers[r]
               /\ r \in withdrawn' <=> r \in withdrawn
    PROVE  \A r \in Requests : Life(r)'
  <1> SUFFICES ASSUME NEW r \in Requests, r # q PROVE Life(r)'
    OBVIOUS
  <1> QED BY DEF Life, LifeOf

(* What is on the wire.                                                    *)
LEMMA WirePackets ==
    ASSUME TypeOK
    PROVE  \A i \in 1 .. Len(wire) : wire[i].cmd \in {"OPEN", "CLSE"} /\ wire[i].on \in Requests
  <1> DEFINE P == [cmd : {"OPEN", "CLSE"}, on : Requests]
  <1>1. \A p \in P : p.cmd \in {"OPEN", "CLSE"} /\ p.on \in Requests
    OBVIOUS
  <1>2. wire \in Seq(P)
    BY DEF TypeOK
  <1> HIDE DEF P
  <1>3. \A i \in 1 .. Len(wire) : wire[i] \in P
    BY <1>2
  <1> QED BY <1>1, <1>3

(* A step of the Reader, of a listener or of the transport, or the end of  *)
(* a channel.                                                              *)
LEMMA NobodyMoves ==
    ASSUME OpenInv, TypeOK', UNCHANGED <<scenario, wire, queue, incoming, answers, withdrawn>>,
           \A r \in Requests : /\ slot'[r] # "none" => slot[r] # "none"
                               /\ device'[r] = "new" <=> device[r] = "new"
                               /\ device[r] = "withdrawn" => device'[r] = "withdrawn",
           gone => gone',
           \/ reader' = reader
           \/ reader.pc \notin {"refuse", "withdraw"} /\ reader'.pc \notin {"refuse", "withdraw"},
           NoLostIncoming',
           scenario.faults \subseteq {"withdraw"} => ~gone' /\ ~desync'
    PROVE  OpenInv'
  <1>1. (scenario \in Scenarios /\ Once(queue) /\ IsFiniteSet(Staged))'
    BY DEF OpenInv, Once, Staged
  <1>2. WireInOrder'
    <2>1. withdrawn \subseteq Requests
      BY DEF OpenInv, TypeOK
    <2>2. \A i \in 1 .. Len(wire) : wire[i].on \in Requests
      BY WirePackets DEF OpenInv
    <2> QED BY <2>1, <2>2 DEF OpenInv, WireInOrder
  <1>3. \A r \in Requests : Life(r)'
    <2>1. \A r \in Requests : /\ Arrived(r)' <=> Arrived(r)
                              /\ In(queue, r)' <=> In(queue, r)
      BY DEF Arrived, In
    <2> QED BY <2>1 DEF OpenInv, Life, LifeOf
  <1>4. Refusing'
    BY DEF OpenInv, Refusing
  <1>5. Undropped'
    <2>1. pending_opens' = pending_opens
      BY DEF pending_opens, Staged
    <2>2. WithdrawnStaysGone => WithdrawnStaysGone'
      BY DEF WithdrawnStaysGone
    <2> QED BY <2>1, <2>2 DEF OpenInv, Undropped
  <1> QED BY <1>1, <1>2, <1>3, <1>4, <1>5 DEF OpenInv

(* A step of one SplitIncoming.                                            *)
LEMMA OneMoves ==
    ASSUME OpenInv, TypeOK', NEW r \in Requests, NEW c \in Incomings,
           incoming' = [incoming EXCEPT ![r] = c],
           incoming[r].pc # "none", c.pc # "none", c.owner = incoming[r].owner,
           UNCHANGED <<scenario, device, wire, queue, reader, withdrawn, stopped, gone>>,
           \A q \in Requests \ {r} : slot'[q] = slot[q] /\ answers'[q] = answers[q],
           Life(r)', listener' \in {listener, notified}, desync' => desync \/ listener' = notified,
           scenario.faults \subseteq {"withdraw"} =>
               ~desync' /\ (c.pc \in {"free", "unstage"} => ~c.pending)
    PROVE  OpenInv'
  <1>1. incoming \in [Requests -> Incomings] /\ listener \in Listeners
    BY DEF OpenInv, TypeOK
  <1>2. incoming'[r] = c /\ \A q \in Requests \ {r} : incoming'[q] = incoming[q]
    BY <1>1
  <1>3. Staged' = Staged
    BY <1>2 DEF Staged
  <1>4. (scenario \in Scenarios /\ WireInOrder /\ Once(queue) /\ IsFiniteSet(Staged))'
    BY <1>3 DEF OpenInv, WireInOrder, Once
  <1>5. \A q \in Requests : Life(q)'
    BY <1>2, OthersLive DEF OpenInv, Arrived, In
  <1>6. Refusing'
    BY <1>2 DEF OpenInv, Refusing
  <1>7. NoLostIncoming'
    BY <1>1, NotifiedFacts DEF OpenInv, NoLostIncoming, has_ended
  <1>8. Undropped'
    <2>1. pending_opens' = pending_opens
      BY <1>3 DEF pending_opens
    <2>2. WithdrawnStaysGone => WithdrawnStaysGone'
      BY DEF WithdrawnStaysGone
    <2> QED BY <1>2, <2>1, <2>2 DEF OpenInv, Undropped
  <1> QED BY <1>4, <1>5, <1>6, <1>7, <1>8 DEF OpenInv

(* A request leaves the queue for a SplitIncoming.                         *)
LEMMA OneTaken ==
    ASSUME OpenInv, TypeOK', queue # <<>>, NEW r \in Requests, NEW owner \in {"app", "reader"},
           Takes(r, owner),
           UNCHANGED <<scenario, device, wire, slot, answers, withdrawn, desync, gone>>,
           NoLostIncoming',
           IF owner = "reader"
           THEN /\ reader.pc \notin {"refuse", "withdraw"}
                /\ reader'.pc = "refuse" /\ reader'.on = r /\ reader'.then # "none"
           ELSE \/ reader' = reader
                \/ /\ reader.pc \notin {"refuse", "withdraw"}
                   /\ reader'.pc \notin {"refuse", "withdraw"}
    PROVE  OpenInv'
  <1>1. /\ incoming \in [Requests -> Incomings] /\ queue \in Seq(Requests) /\ Once(queue)
        /\ r = Head(queue) /\ queue' = Tail(queue)
    BY DEF OpenInv, TypeOK, Takes
  <1>2. /\ In(queue, r) /\ ~In(queue', r) /\ Once(queue') /\ Len(queue') = Len(queue) - 1
        /\ \A x : x # r => (In(queue', x) <=> In(queue, x))
    BY <1>1, TailOnce
  <1> DEFINE c == IF owner = "reader" THEN Refusal ELSE Hold(owner)
  <1>3. /\ c.pc \in {"held", "lock"} /\ c.pending /\ ~c.reserved /\ ~c.cancelled /\ c.owner = owner
        /\ c.pc = "lock" => c.verdict = "CLSE"
    BY DEF Refusal, Hold, NoIncoming
  <1>4. incoming' = [incoming EXCEPT ![r] = c]
    BY DEF Takes
  <1> HIDE DEF c
  <1>5. incoming'[r] = c /\ \A q \in Requests \ {r} : incoming'[q] = incoming[q]
    BY <1>1, <1>4
  <1>6. /\ incoming[r].pc = "none" /\ incoming[r].owner = "nobody"
        /\ answers[r] = <<>> /\ slot[r] = "none" /\ Arrived(r)
    <2>1. Life(r)
      BY DEF OpenInv
    <2>2. /\ Arrived(r) /\ incoming[r] = NoIncoming /\ answers[r] = <<>>
          /\ slot[r] # "none" => incoming[r].reserved \/ answers[r] = <<"READY">>
      BY <1>2, <2>1 DEF Life, LifeOf
    <2>3. ~NoIncoming.reserved /\ NoIncoming.pc = "none" /\ NoIncoming.owner = "nobody"
      BY DEF NoIncoming
    <2>4. <<>> # <<"READY">>
      OBVIOUS
    <2> QED BY <2>2, <2>3, <2>4
  <1>7. Staged' = Staged \cup {r} /\ r \notin Staged
    BY <1>3, <1>5, <1>6 DEF Staged
  <1>8. IsFiniteSet(Staged') /\ pending_opens' = pending_opens
    <2>1. IsFiniteSet(Staged) /\ Cardinality(Staged) \in Nat
      BY FS_CardinalityType DEF OpenInv
    <2>2. IsFiniteSet(Staged') /\ Cardinality(Staged') = Cardinality(Staged) + 1
      BY <1>7, <2>1, FS_AddElement
    <2>3. Len(queue) \in Nat
      BY <1>1
    <2> QED BY <1>2, <2>1, <2>2, <2>3 DEF pending_opens
  <1>9. (scenario \in Scenarios /\ WireInOrder /\ Once(queue) /\ IsFiniteSet(Staged))'
    BY <1>2, <1>8 DEF OpenInv, WireInOrder, Once
  <1>10. \A q \in Requests : Life(q)'
    <2>1. Life(r)'
      <3>1. Arrived(r)' /\ answers'[r] = <<>> /\ Len(<<>>) = 0 /\ slot'[r] = "none"
        BY <1>6 DEF Arrived
      <3> QED BY <1>2, <1>3, <1>5, <3>1 DEF Life, LifeOf, In
    <2>2. gone => gone'
      OBVIOUS
    <2>3. \A q \in Requests \ {r} : /\ Arrived(q)' <=> Arrived(q)
                                    /\ In(queue, q)' <=> In(queue, q)
      BY <1>2 DEF Arrived, In
    <2> QED BY <1>5, <2>1, <2>2, <2>3, OthersLive DEF OpenInv
  <1>11. Refusing'
    <2>1. \A q \in Requests : incoming[q].owner = "reader" => reader.pc = "refuse"
      BY DEF OpenInv, Refusing
    <2>2. reader.pc = "refuse" => /\ reader.on \in Requests /\ reader.then # "none"
                                  /\ incoming[reader.on].owner = "reader"
      BY DEF OpenInv, Refusing
    <2>3. CASE owner = "reader"
      BY <1>3, <1>5, <2>1, <2>3 DEF OpenInv, Refusing
    <2>4. CASE owner = "app"
      <3>1. reader.pc = "refuse" => reader' = reader /\ reader.on # r
        BY <1>6, <2>2, <2>4
      <3>2. c.owner # "reader"
        BY <1>3, <2>4
      <3> QED BY <1>5, <2>1, <2>2, <2>4, <3>1, <3>2 DEF OpenInv, Refusing
    <2> QED BY <2>3, <2>4
  <1>12. Undropped'
    <2>1. WithdrawnStaysGone => WithdrawnStaysGone'
      <3> SUFFICES ASSUME WithdrawnStaysGone, NEW q \in withdrawn', In(queue', q),
                          ~(reader'.pc = "withdraw" /\ reader'.on = q)
                   PROVE  FALSE
        BY DEF WithdrawnStaysGone, In
      <3>1. In(queue, q)
        BY <1>2
      <3>2. ~(reader.pc = "withdraw" /\ reader.on = q)
        OBVIOUS
      <3> QED BY <3>1, <3>2 DEF WithdrawnStaysGone, In
    <2>2. pending_opens' <= MaxChannels + (IF reader'.pc = "refuse" THEN 1 ELSE 0)
          \/ ~(scenario.faults \subseteq {"withdraw"})
      <3>1. pending_opens \in Nat /\ MaxChannels \in Nat
        <4>1. IsFiniteSet(Staged) /\ Len(queue) \in Nat
          BY <1>1 DEF OpenInv
        <4>2. Cardinality(Staged) \in Nat
          BY <4>1, FS_CardinalityType
        <4> QED BY <4>1, <4>2, IncomingAssumption DEF pending_opens
      <3>2. reader'.pc = "refuse" \/ reader'.pc = reader.pc \/ reader.pc # "refuse"
        OBVIOUS
      <3>3. scenario.faults \subseteq {"withdraw"} =>
              pending_opens <= MaxChannels + (IF reader.pc = "refuse" THEN 1 ELSE 0)
        BY DEF OpenInv, Undropped
      <3> QED BY <1>8, <3>1, <3>2, <3>3
    <2>3. c.pc \notin {"free", "unstage"}
      BY <1>3
    <2> QED BY <1>5, <2>1, <2>2, <2>3 DEF OpenInv, Undropped
  <1> QED BY <1>9, <1>10, <1>11, <1>12 DEF OpenInv

-----------------------------------------------------------------------------
(* The steps.                                                              *)

(* A reading call goes on.                                                 *)
LEMMA ReturnedFacts ==
    ASSUME reader \in Readers
    PROVE  /\ AfterPacket \subseteq {"idle", "recv", "top"}
           /\ \A pc \in ReaderPcs : Returned(pc) \in Readers /\ Returned(pc).pc = pc
           /\ Failed \in Readers /\ Failed.pc \in {"idle", "done"}
  <1>1. AfterPacket \subseteq {"idle", "recv", "top"}
    BY DEF AfterPacket
  <1>2. \A pc \in ReaderPcs : Returned(pc) \in Readers /\ Returned(pc).pc = pc
    BY DEF Returned, Readers
  <1>3. "idle" \in ReaderPcs /\ "done" \in ReaderPcs
    BY DEF ReaderPcs
  <1> DEFINE b == Returned("idle")
  <1>4. b \in Readers /\ b.pc = "idle"
    BY <1>2, <1>3
  <1> HIDE DEF b
  <1>5. [b EXCEPT !.pc = "done"] \in Readers /\ [b EXCEPT !.pc = "done"].pc = "done"
    BY <1>3, <1>4 DEF Readers
  <1> QED BY <1>1, <1>2, <1>4, <1>5 DEF Failed, b

(* Steps that change no request.                                           *)
LEMMA QuietSteps ==
    ASSUME OpenInv,
           \/ TransportFails \/ OtherLocks \/ OtherUnlocks \/ StartCall \/ ReaderNotifies
           \/ ReaderEnds \/ ListenerAccepts \/ ListenerWakes \/ ListenIncoming \/ DropListener
           \/ \E r \in Requests : DeviceSettles(r) \/ CloseChannel(r)
    PROVE  OpenInv'
  <1>1. /\ TypeOK /\ reader \in Readers /\ listener \in Listeners /\ notified \in Listeners
        /\ NoLostIncoming
    BY NotifiedFacts DEF OpenInv, TypeOK
  <1>2. scenario.faults \subseteq {"withdraw"} => ~gone /\ ~desync
    BY DEF OpenInv, Undropped
  <1>3. CASE TransportFails \/ OtherLocks \/ OtherUnlocks
    <2>1. TypeOK'
      BY <1>1, <1>3 DEF TypeOK, TransportFails, OtherLocks, OtherUnlocks
    <2>2. UNCHANGED <<scenario, device, wire, slot, queue, incoming, reader, listener, answers,
                      withdrawn, desync, stopped>>
      BY <1>3 DEF TransportFails, OtherLocks, OtherUnlocks
    <2>3. (gone => gone') /\ (scenario.faults \subseteq {"withdraw"} => gone' = gone)
      BY <1>3 DEF TransportFails, OtherLocks, OtherUnlocks
    <2>4. NoLostIncoming'
      BY <1>1, <2>2 DEF NoLostIncoming, has_ended
    <2> QED BY <1>2, <2>1, <2>2, <2>3, <2>4, NobodyMoves
  <1>4. CASE StartCall
    <2>1. PICK call \in {"accept", "dispatch", "read"} :
             reader' = [reader EXCEPT !.call = call,
                                      !.pc = IF call = "accept" THEN "top" ELSE "drain"]
      BY <1>4 DEF StartCall
    <2>2. UNCHANGED <<scenario, device, wire, slot, queue, incoming, listener, wh, answers,
                      withdrawn, desync, stopped, gone>> /\ reader.pc = "idle"
      BY <1>4 DEF StartCall
    <2>3. reader' \in Readers /\ reader'.pc \in {"top", "drain"}
      BY <1>1, <2>1 DEF Readers, ReaderPcs
    <2>4. TypeOK' /\ NoLostIncoming'
      BY <1>1, <2>2, <2>3 DEF TypeOK, NoLostIncoming, has_ended
    <2> QED BY <1>2, <2>2, <2>3, <2>4, NobodyMoves
  <1>5. CASE ReaderNotifies
    <2>1. /\ reader.pc = "notify" /\ listener' = notified
          /\ UNCHANGED <<scenario, device, wire, slot, queue, incoming, wh, answers, withdrawn,
                         desync, stopped, gone>>
      BY <1>5 DEF ReaderNotifies
    <2>2. reader' \in Readers /\ reader'.pc \in {"idle", "recv", "top"}
      <3>1. PICK pc \in AfterPacket : reader' = Returned(pc)
        BY <1>5 DEF ReaderNotifies
      <3>2. pc \in {"idle", "recv", "top"} /\ pc \in ReaderPcs
        BY <1>1, <3>1, ReturnedFacts DEF ReaderPcs
      <3> QED BY <1>1, <3>1, <3>2, ReturnedFacts
    <2>3. TypeOK' /\ NoLostIncoming'
      BY <1>1, <2>1, <2>2, NotifiedFacts DEF TypeOK, NoLostIncoming
    <2> QED BY <1>2, <2>1, <2>2, <2>3, NobodyMoves
  <1>6. CASE ReaderEnds
    <2>1. /\ reader.pc = "recv" /\ reader' = Failed /\ stopped' \in BOOLEAN
          /\ UNCHANGED <<scenario, device, wire, slot, queue, incoming, wh, answers, withdrawn,
                         desync, gone>>
          /\ stopped' = stopped \/ stopped'
          /\ listener' = IF stopped' THEN notified ELSE listener
      BY <1>1, <1>6 DEF ReaderEnds, TypeOK
    <2>2. reader' \in Readers /\ reader'.pc \in {"idle", "done"}
      BY <1>1, <2>1, ReturnedFacts
    <2>3. listener' \in Listeners /\ TypeOK'
      BY <1>1, <2>1, <2>2 DEF TypeOK
    <2>4. NoLostIncoming'
      BY <1>1, <2>1, NotifiedFacts DEF NoLostIncoming, has_ended
    <2> QED BY <1>2, <2>1, <2>2, <2>3, <2>4, NobodyMoves
  <1>7. CASE ListenerAccepts \/ ListenerWakes \/ ListenIncoming \/ DropListener
    <2>1. UNCHANGED <<scenario, device, wire, slot, queue, incoming, reader, wh, answers,
                      withdrawn, desync, stopped, gone>>
      BY <1>7 DEF ListenerAccepts, ListenerWakes, ListenIncoming, DropListener
    <2>2. listener' \in Listeners /\ (listener'.pc = "parked" => listener.pc = "parked")
          /\ (listener'.signal = "armed" => listener.signal = "armed")
      <3>1. CASE ListenerAccepts
        BY <1>1, <3>1 DEF ListenerAccepts, Listeners
      <3>2. CASE ListenerWakes
        BY <1>1, <3>2 DEF ListenerWakes, Listeners
      <3>3. CASE ListenIncoming
        BY <1>1, <3>3 DEF ListenIncoming, Listeners
      <3>4. CASE DropListener
        BY <1>1, <3>4 DEF DropListener, Listeners
      <3> QED BY <1>7, <3>1, <3>2, <3>3, <3>4
    <2>3. TypeOK' /\ NoLostIncoming'
      BY <1>1, <2>1, <2>2 DEF TypeOK, NoLostIncoming, has_ended
    <2> QED BY <1>2, <2>1, <2>3, NobodyMoves
  <1>8. ASSUME NEW r \in Requests, DeviceSettles(r) \/ CloseChannel(r) PROVE OpenInv'
    <2>1. UNCHANGED <<scenario, wire, queue, incoming, reader, listener, wh, answers, withdrawn,
                      desync, stopped, gone>>
      BY <1>8 DEF DeviceSettles, CloseChannel
    <2>2. /\ TypeOK'
          /\ \A q \in Requests : /\ slot'[q] # "none" => slot[q] # "none"
                                 /\ device'[q] = "new" <=> device[q] = "new"
                                 /\ device[q] = "withdrawn" => device'[q] = "withdrawn"
      BY <1>1, <1>8 DEF TypeOK, DeviceSettles, CloseChannel
    <2>3. NoLostIncoming'
      BY <1>1, <2>1 DEF NoLostIncoming, has_ended
    <2> QED BY <1>2, <2>1, <2>2, <2>3, NobodyMoves
  <1> QED BY <1>3, <1>4, <1>5, <1>6, <1>7, <1>8

(* Steps that may take a request from the queue.                           *)
LEMMA TakingSteps ==
    ASSUME OpenInv, Top \/ Sweep \/ Drain \/ TryAccept \/ ListenerLooks
    PROVE  OpenInv'
  <1>1. /\ TypeOK /\ reader \in Readers /\ listener \in Listeners /\ NoLostIncoming
        /\ queue \in Seq(Requests) /\ incoming \in [Requests -> Incomings]
    BY DEF OpenInv, TypeOK
  <1>2. scenario.faults \subseteq {"withdraw"} => ~gone /\ ~desync
    BY DEF OpenInv, Undropped
  <1>3. UNCHANGED <<scenario, device, wire, slot, wh, answers, withdrawn, desync, stopped, gone>>
    BY DEF Top, Sweep, Drain, TryAccept, ListenerLooks
  <1>4. ASSUME NEW r \in Requests, NEW owner \in {"app", "reader"}, Takes(r, owner), queue # <<>>
        PROVE  queue' \in Seq(Requests) /\ incoming' \in [Requests -> Incomings]
    <2>1. queue' \in Seq(Requests)
      BY <1>1, <1>4 DEF Takes
    <2>2. Refusal \in Incomings /\ Hold(owner) \in Incomings
      BY DEF Refusal, Hold, NoIncoming, Incomings
    <2> QED BY <1>1, <1>4, <2>1, <2>2 DEF Takes
  <1>5. ASSUME NEW r \in Requests, Takes(r, "app"), queue # <<>>, reader' \in Readers,
               listener' \in Listeners,
               listener' = listener \/ listener'.pc # "parked",
               \/ reader' = reader
               \/ /\ reader.pc \notin {"refuse", "withdraw", "notify"}
                  /\ reader'.pc \notin {"refuse", "withdraw"}
        PROVE  OpenInv'
    <2>1. TypeOK'
      BY <1>1, <1>3, <1>4, <1>5 DEF TypeOK
    <2>2. NoLostIncoming'
      BY <1>1, <1>3, <1>5 DEF NoLostIncoming, has_ended
    <2> QED BY <1>3, <1>5, <2>1, <2>2, OneTaken
  <1>6. ASSUME reader.pc \notin {"refuse", "withdraw", "notify"}, queue # <<>>,
               listener' = listener, NEW then \in {"sweep", "drain"}, RefuseNext(then)
        PROVE  OpenInv'
    <2>1. PICK r \in Requests :
             /\ Takes(r, "reader")
             /\ reader' = [reader EXCEPT !.pc = "refuse", !.on = r, !.then = then]
      BY <1>6 DEF RefuseNext
    <2>2. reader' \in Readers /\ reader'.pc = "refuse" /\ reader'.on = r /\ reader'.then # "none"
      BY <1>1, <2>1 DEF Readers, ReaderPcs
    <2>3. TypeOK'
      BY <1>1, <1>3, <1>4, <1>6, <2>1, <2>2 DEF TypeOK
    <2>4. NoLostIncoming'
      BY <1>1, <1>3, <1>6, <2>2 DEF NoLostIncoming, has_ended
    <2> QED BY <1>3, <1>6, <2>1, <2>2, <2>3, <2>4, OneTaken
  <1>7. ASSUME UNCHANGED <<queue, incoming>>, reader' \in Readers, listener' \in Listeners,
               \/ reader' = reader
               \/ /\ reader.pc \notin {"refuse", "withdraw", "notify"}
                  /\ reader'.pc \notin {"refuse", "withdraw"},
               \/ listener' = listener
               \/ listener'.pc # "parked"
               \/ queue = <<>> /\ ~has_ended
        PROVE  OpenInv'
    <2>1. TypeOK' /\ NoLostIncoming'
      BY <1>1, <1>3, <1>7 DEF TypeOK, NoLostIncoming, has_ended
    <2> QED BY <1>2, <1>3, <1>7, <2>1, NobodyMoves
  <1>8. CASE Top
    <2>1. reader.pc = "top" /\ listener' = listener
      BY <1>8 DEF Top
    <2>2. CASE reader.call = "accept" /\ queue # <<>>
      <3>1. PICK r \in Requests : Takes(r, "app") /\ reader' = Returned("idle")
        BY <1>8, <2>2 DEF Top
      <3>2. reader' \in Readers /\ reader'.pc = "idle"
        BY <1>1, <3>1, ReturnedFacts DEF ReaderPcs
      <3> QED BY <1>1, <1>5, <2>1, <2>2, <3>1, <3>2
    <2>3. CASE ~(reader.call = "accept" /\ queue # <<>>)
      <3>1. /\ UNCHANGED <<queue, incoming>>
            /\ \E pc \in {"sweep", "recv"} : reader' = [reader EXCEPT !.pc = pc]
        BY <1>8, <2>3 DEF Top
      <3>2. reader' \in Readers /\ reader'.pc \in {"sweep", "recv"}
        BY <1>1, <3>1 DEF Readers, ReaderPcs
      <3> QED BY <1>1, <1>7, <2>1, <3>1, <3>2
    <2> QED BY <2>2, <2>3
  <1>9. CASE Sweep \/ Drain
    <2>1. reader.pc \in {"sweep", "drain"} /\ listener' = listener
      BY <1>9 DEF Sweep, Drain
    <2>2. \/ queue # <<>> /\ \E then \in {"sweep", "drain"} : RefuseNext(then)
          \/ reader' = [reader EXCEPT !.pc = "recv"] /\ UNCHANGED <<queue, incoming>>
      BY <1>9 DEF Sweep, Drain
    <2>3. CASE reader' = [reader EXCEPT !.pc = "recv"] /\ UNCHANGED <<queue, incoming>>
      <3>1. reader' \in Readers /\ reader'.pc = "recv"
        BY <1>1, <2>3 DEF Readers, ReaderPcs
      <3> QED BY <1>1, <1>7, <2>1, <2>3, <3>1
    <2> QED BY <1>6, <2>1, <2>2, <2>3
  <1>10. CASE TryAccept
    BY <1>1, <1>5, <1>10 DEF TryAccept
  <1>11. CASE ListenerLooks
    <2>1. listener.pc = "look" /\ reader' = reader
      BY <1>11 DEF ListenerLooks
    <2>2. CASE ~desync /\ queue # <<>>
      <3>1. PICK r \in Requests : /\ Takes(r, "app")
                                  /\ listener' = [listener EXCEPT !.pc = "idle", !.signal = "none"]
        BY <1>11, <2>2 DEF ListenerLooks
      <3>2. listener' \in Listeners /\ listener'.pc = "idle"
        BY <1>1, <3>1 DEF Listeners
      <3> QED BY <1>1, <1>5, <2>1, <2>2, <3>1, <3>2
    <2>3. CASE ~(~desync /\ queue # <<>>)
      <3>1. /\ UNCHANGED <<queue, incoming>>
            /\ listener' = IF has_ended THEN [listener EXCEPT !.pc = "idle", !.signal = "none"]
                           ELSE IF listener.signal = "none"
                           THEN [listener EXCEPT !.signal = "armed"]
                           ELSE [listener EXCEPT !.pc = "parked"]
        BY <1>11, <2>3 DEF ListenerLooks
      <3>2. /\ listener' \in Listeners
            /\ listener'.pc # "parked" \/ ~has_ended
        BY <1>1, <2>1, <3>1 DEF Listeners
      <3>3. listener'.pc # "parked" \/ (queue = <<>> /\ ~has_ended)
        BY <2>3, <3>2 DEF has_ended
      <3> QED BY <1>1, <1>7, <2>1, <3>1, <3>2, <3>3
    <2> QED BY <2>2, <2>3
  <1> QED BY <1>8, <1>9, <1>10, <1>11

(* A request has arrived once its OPEN is not on the wire any more.        *)
ArrivedWhen ==
    \A r \in Requests :
        Arrived(r) <=> /\ device[r] # "new"
                       /\ \A i \in 1 .. Len(wire) : wire[i].cmd = "CLSE" \/ wire[i].on # r

(* It is what Arrived says.                                                *)
LEMMA ArrivedMeans == TypeOK => ArrivedWhen
  <1> SUFFICES ASSUME TypeOK, NEW r \in Requests
               PROVE  Arrived(r) <=> /\ device[r] # "new"
                                     /\ \A i \in 1 .. Len(wire) :
                                           wire[i].cmd = "CLSE" \/ wire[i].on # r
    BY DEF ArrivedWhen
  <1> DEFINE P == [cmd : {"OPEN", "CLSE"}, on : Requests]
  <1>1. \A p \in P : p = [cmd |-> "OPEN", on |-> r] <=> ~(p.cmd = "CLSE" \/ p.on # r)
    OBVIOUS
  <1>2. wire \in Seq(P)
    BY DEF TypeOK
  <1> HIDE DEF P
  <1>3. \A i \in 1 .. Len(wire) : wire[i] \in P
    BY <1>2
  <1> QED BY <1>1, <1>3 DEF Arrived

(* The device sends a packet about a request.                              *)
LEMMA DeviceSteps ==
    ASSUME OpenInv, NEW r \in Requests, DeviceOpens(r) \/ DeviceWithdraws(r)
    PROVE  OpenInv'
  <1>1. TypeOK /\ WireInOrder /\ device \in [Requests -> {"new", "open", "withdrawn", "settled"}]
        /\ \A q \in Requests : Life(q)
    BY DEF OpenInv, TypeOK
  <1>2. UNCHANGED <<scenario, slot, queue, incoming, reader, listener, wh, answers, withdrawn,
                    desync, stopped, gone>>
    BY DEF DeviceOpens, DeviceWithdraws
  <1>3. PICK p : /\ p = [cmd |-> "OPEN", on |-> r] \/ p = [cmd |-> "CLSE", on |-> r]
                 /\ wire' = Append(wire, p)
                 /\ IF p.cmd = "OPEN"
                    THEN device[r] = "new" /\ device' = [device EXCEPT ![r] = "open"]
                    ELSE device[r] = "open" /\ device' = [device EXCEPT ![r] = "withdrawn"]
    BY DEF DeviceOpens, DeviceWithdraws
  <1>4. p \in [cmd : {"OPEN", "CLSE"}, on : Requests] /\ p.on = r /\ p.cmd \in {"OPEN", "CLSE"}
    BY <1>3
  <1>5. /\ device' \in [Requests -> {"new", "open", "withdrawn", "settled"}]
        /\ device'[r] # "new" /\ (p.cmd = "CLSE" => device'[r] = "withdrawn")
        /\ \A q \in Requests \ {r} : device'[q] = device[q]
    BY <1>1, <1>3, <1>4
  <1>6. /\ wire' \in Seq([cmd : {"OPEN", "CLSE"}, on : Requests])
        /\ Len(wire) \in Nat /\ Len(wire') = Len(wire) + 1 /\ wire'[Len(wire) + 1] = p
        /\ \A i \in 1 .. Len(wire) : wire'[i] = wire[i]
    <2> DEFINE P == [cmd : {"OPEN", "CLSE"}, on : Requests]
    <2>1. wire \in Seq(P) /\ p \in P
      BY <1>1, <1>4 DEF TypeOK
    <2> HIDE DEF P
    <2>2. /\ wire' \in Seq(P)
          /\ Len(wire) \in Nat /\ Len(wire') = Len(wire) + 1 /\ wire'[Len(wire) + 1] = p
          /\ \A i \in 1 .. Len(wire) : wire'[i] = wire[i]
      BY <1>3, <2>1
    <2> QED BY <2>2 DEF P
  <1>7. TypeOK'
    BY <1>1, <1>2, <1>5, <1>6 DEF TypeOK
  <1>8. \A i \in 1 .. Len(wire') : i \in 1 .. Len(wire) \/ i = Len(wire) + 1
    BY <1>6
  <1>9. \A i \in 1 .. Len(wire) : wire[i].on \in Requests /\ wire[i].cmd \in {"OPEN", "CLSE"}
    BY <1>1, WirePackets
  <1>10. \A i \in 1 .. Len(wire) :
            /\ device[wire[i].on] # "new"
            /\ wire[i].cmd = "CLSE" => device[wire[i].on] = "withdrawn"
            /\ wire[i].on = r => p.cmd = "CLSE" /\ wire[i].cmd = "OPEN"
    BY <1>1, <1>3, <1>4, <1>9 DEF WireInOrder
  <1>11. WireInOrder'
    <2>1. ASSUME NEW i \in 1 .. Len(wire'), NEW j \in 1 .. Len(wire'), i < j,
                 wire'[i].on = wire'[j].on
          PROVE  wire'[i].cmd = "OPEN" /\ wire'[j].cmd = "CLSE"
      <3>1. i \in 1 .. Len(wire)
        BY <1>6, <2>1
      <3>2. CASE j \in 1 .. Len(wire)
        BY <1>1, <1>6, <2>1, <3>1, <3>2 DEF WireInOrder
      <3>3. CASE j = Len(wire) + 1
        BY <1>4, <1>6, <1>10, <2>1, <3>1, <3>3
      <3> QED BY <1>8, <3>2, <3>3
    <2>2. ASSUME NEW i \in 1 .. Len(wire')
          PROVE  /\ device'[wire'[i].on] # "new"
                 /\ wire'[i].cmd = "CLSE" => device'[wire'[i].on] = "withdrawn"
      <3>1. CASE i \in 1 .. Len(wire)
        <4>1. wire'[i] = wire[i] /\ wire[i].on \in Requests
          BY <1>6, <1>9, <3>1
        <4>2. CASE wire[i].on = r
          BY <1>5, <1>10, <3>1, <4>1, <4>2
        <4>3. CASE wire[i].on # r
          BY <1>5, <1>10, <3>1, <4>1, <4>3
        <4> QED BY <4>2, <4>3
      <3>2. CASE i = Len(wire) + 1
        BY <1>4, <1>5, <1>6, <3>2
      <3> QED BY <1>8, <3>1, <3>2
    <2>3. \A q \in withdrawn' : device'[q] = "withdrawn"
      <3>1. withdrawn \subseteq Requests /\ \A q \in withdrawn : device[q] = "withdrawn"
        BY <1>1 DEF TypeOK, WireInOrder
      <3> QED BY <1>2, <1>3, <1>5, <3>1
    <2> QED BY <2>1, <2>2, <2>3 DEF WireInOrder
  <1>12. \A q \in Requests : Arrived(q)' <=> Arrived(q)
    <2> SUFFICES ASSUME NEW q \in Requests PROVE Arrived(q)' <=> Arrived(q)
      OBVIOUS
    <2>1. Arrived(q) <=> /\ device[q] # "new"
                         /\ \A i \in 1 .. Len(wire) : wire[i].cmd = "CLSE" \/ wire[i].on # q
      BY <1>1, ArrivedMeans DEF ArrivedWhen
    <2>2. Arrived(q)' <=> /\ device'[q] # "new"
                          /\ \A i \in 1 .. Len(wire') : wire'[i].cmd = "CLSE" \/ wire'[i].on # q
      <3>1. (TypeOK => ArrivedWhen)'
        BY ArrivedMeans, PTL
      <3> QED BY <1>7, <3>1 DEF ArrivedWhen
    <2>3. Len(wire) + 1 \in 1 .. Len(wire') /\ \A i \in 1 .. Len(wire) : i \in 1 .. Len(wire')
      BY <1>6
    <2>4. (\A i \in 1 .. Len(wire') : wire'[i].cmd = "CLSE" \/ wire'[i].on # q)
          <=> /\ \A i \in 1 .. Len(wire) : wire[i].cmd = "CLSE" \/ wire[i].on # q
              /\ p.cmd = "CLSE" \/ r # q
      BY <1>4, <1>6, <1>8, <2>3
    <2>5. CASE p.cmd = "CLSE"
      BY <1>3, <1>4, <1>5, <2>1, <2>2, <2>4, <2>5
    <2>6. CASE p.cmd = "OPEN"
      BY <1>3, <1>4, <1>5, <2>1, <2>2, <2>4, <2>6
    <2> QED BY <1>4, <2>5, <2>6
  <1>13. \A q \in Requests : Life(q)'
    BY <1>1, <1>2, <1>12 DEF Life, LifeOf, In
  <1>14. (Once(queue) /\ IsFiniteSet(Staged))' /\ Refusing' /\ NoLostIncoming'
    BY <1>2 DEF OpenInv, Once, Staged, Refusing, NoLostIncoming, has_ended
  <1>15. Undropped'
    BY <1>2 DEF OpenInv, Undropped, WithdrawnStaysGone, pending_opens, Staged
  <1> QED BY <1>2, <1>7, <1>11, <1>13, <1>14, <1>15 DEF OpenInv

(* The Reader takes a packet off the wire.                                 *)
LEMMA PacketTaken ==
    ASSUME TypeOK, WireInOrder, TypeOK', device' = device, wire # <<>>, wire' = Tail(wire),
           NEW r, r = Head(wire).on
    PROVE  /\ r \in Requests /\ device[r] # "new"
           /\ \A i, j \in 1 .. Len(wire') : i < j /\ wire'[i].on = wire'[j].on =>
                wire'[i].cmd = "OPEN" /\ wire'[j].cmd = "CLSE"
           /\ \A i \in 1 .. Len(wire') : device'[wire'[i].on] # "new"
           /\ \A i \in 1 .. Len(wire') :
                wire'[i].cmd = "CLSE" => device'[wire'[i].on] = "withdrawn"
           /\ Head(wire).cmd = "CLSE" => device[r] = "withdrawn" /\ Arrived(r)
           /\ Head(wire).cmd = "OPEN" => ~Arrived(r) /\ Arrived(r)'
           /\ \A q \in Requests : q # r \/ Head(wire).cmd = "CLSE" => (Arrived(q)' <=> Arrived(q))
  <1> DEFINE P == [cmd : {"OPEN", "CLSE"}, on : Requests]
  <1>1. wire \in Seq(P)
    BY DEF TypeOK
  <1>2. \A i \in 1 .. Len(wire) : wire[i].cmd \in {"OPEN", "CLSE"} /\ wire[i].on \in Requests
    BY WirePackets
  <1> HIDE DEF P
  <1>3. /\ Len(wire) \in Nat /\ Len(wire') = Len(wire) - 1 /\ Head(wire) = wire[1]
        /\ 1 \in 1 .. Len(wire)
        /\ \A i \in 1 .. Len(wire') : wire'[i] = wire[i + 1] /\ i + 1 \in 1 .. Len(wire)
        /\ \A i \in 1 .. Len(wire) : i = 1 \/ i - 1 \in 1 .. Len(wire')
    BY <1>1
  <1>4. /\ r \in Requests /\ device[r] # "new"
        /\ Head(wire).cmd = "CLSE" => device[r] = "withdrawn"
    BY <1>2, <1>3 DEF WireInOrder
  <1>5. \A i, j \in 1 .. Len(wire') : i < j /\ wire'[i].on = wire'[j].on =>
                wire'[i].cmd = "OPEN" /\ wire'[j].cmd = "CLSE"
    <2> SUFFICES ASSUME NEW i \in 1 .. Len(wire'), NEW j \in 1 .. Len(wire'), i < j,
                        wire'[i].on = wire'[j].on
                 PROVE  wire'[i].cmd = "OPEN" /\ wire'[j].cmd = "CLSE"
      OBVIOUS
    <2>1. i + 1 < j + 1 /\ i + 1 \in 1 .. Len(wire) /\ j + 1 \in 1 .. Len(wire)
      BY <1>3
    <2> QED BY <1>3, <2>1 DEF WireInOrder
  <1>6. \A i \in 1 .. Len(wire') :
          /\ device'[wire'[i].on] # "new"
          /\ wire'[i].cmd = "CLSE" => device'[wire'[i].on] = "withdrawn"
    BY <1>3 DEF WireInOrder
  <1>7. \A q \in Requests : Arrived(q) <=>
            /\ device[q] # "new"
            /\ \A i \in 1 .. Len(wire) : wire[i].cmd = "CLSE" \/ wire[i].on # q
    BY ArrivedMeans DEF ArrivedWhen
  <1>8. \A q \in Requests : Arrived(q)' <=>
            /\ device[q] # "new"
            /\ \A i \in 1 .. Len(wire') : wire'[i].cmd = "CLSE" \/ wire'[i].on # q
    <2>1. (TypeOK => ArrivedWhen)'
      BY ArrivedMeans, PTL
    <2> QED BY <2>1 DEF ArrivedWhen
  <1>9. \A i \in 1 .. Len(wire') : wire'[i].on = r =>
            wire'[i].cmd = "CLSE" /\ Head(wire).cmd = "OPEN"
    <2> SUFFICES ASSUME NEW i \in 1 .. Len(wire'), wire'[i].on = r
                 PROVE  wire'[i].cmd = "CLSE" /\ Head(wire).cmd = "OPEN"
      OBVIOUS
    <2>1. 1 < i + 1 /\ i + 1 \in 1 .. Len(wire)
      BY <1>3
    <2> QED BY <1>3, <2>1 DEF WireInOrder
  <1>10. \A q \in Requests :
            (\A i \in 1 .. Len(wire) : wire[i].cmd = "CLSE" \/ wire[i].on # q)
            <=> /\ \A i \in 1 .. Len(wire') : wire'[i].cmd = "CLSE" \/ wire'[i].on # q
                /\ Head(wire).cmd = "CLSE" \/ r # q
    <2> SUFFICES ASSUME NEW q \in Requests
                 PROVE  (\A i \in 1 .. Len(wire) : wire[i].cmd = "CLSE" \/ wire[i].on # q)
                        <=> /\ \A i \in 1 .. Len(wire') : wire'[i].cmd = "CLSE" \/ wire'[i].on # q
                            /\ Head(wire).cmd = "CLSE" \/ r # q
      OBVIOUS
    <2>1. ASSUME NEW i \in 1 .. Len(wire), i # 1
          PROVE  i - 1 \in 1 .. Len(wire') /\ wire'[i - 1] = wire[i]
      <3>1. i - 1 \in 1 .. Len(wire') /\ (i - 1) + 1 = i
        BY <1>3, <2>1
      <3> QED BY <1>3, <3>1
    <2> QED BY <1>3, <2>1
  <1>11. Head(wire).cmd \in {"OPEN", "CLSE"}
    BY <1>2, <1>3
  <1>12. Head(wire).cmd = "CLSE" => Arrived(r)
    <2>1. Head(wire).cmd = "CLSE" => \A i \in 1 .. Len(wire') : wire'[i].on # r
      BY <1>9
    <2> QED BY <1>4, <1>7, <1>10, <2>1
  <1>13. Head(wire).cmd = "OPEN" => ~Arrived(r) /\ Arrived(r)'
    BY <1>4, <1>7, <1>8, <1>9, <1>10
  <1>14. \A q \in Requests : q # r \/ Head(wire).cmd = "CLSE" => (Arrived(q)' <=> Arrived(q))
    BY <1>7, <1>8, <1>10
  <1> QED BY <1>4, <1>5, <1>6, <1>12, <1>13, <1>14

(* The invariant counts the requests that wait for a verdict.              *)
LEMMA PendingCounted ==
    ASSUME OpenInv
    PROVE  /\ Cardinality(Staged) \in Nat /\ Len(queue) \in Nat /\ MaxChannels \in Nat
           /\ pending_opens = Cardinality(Staged) + Len(queue) /\ pending_opens \in Nat
  <1>1. IsFiniteSet(Staged) /\ queue \in Seq(Requests)
    BY DEF OpenInv, TypeOK
  <1>2. Cardinality(Staged) \in Nat
    BY <1>1, FS_CardinalityType
  <1>3. Len(queue) \in Nat
    BY <1>1
  <1> QED BY <1>2, <1>3, IncomingAssumption DEF pending_opens

(* queue_or_refuse.                                                        *)
LEMMA OpenReceived ==
    ASSUME OpenInv, ReceiveOpen
    PROVE  OpenInv'
  <1>r. PICK r : r = Head(wire).on
    OBVIOUS
  <1>1. /\ TypeOK /\ WireInOrder /\ Once(queue) /\ reader \in Readers /\ queue \in Seq(Requests)
        /\ incoming \in [Requests -> Incomings] /\ IsFiniteSet(Staged)
    BY DEF OpenInv, TypeOK
  <1>2. /\ reader.pc = "recv" /\ ~has_ended /\ wire # <<>> /\ Head(wire).cmd = "OPEN"
        /\ wire' = Tail(wire)
        /\ UNCHANGED <<scenario, device, slot, listener, wh, answers, withdrawn, desync,
                       stopped, gone>>
    BY DEF ReceiveOpen
  <1>3. \/ /\ pending_opens >= MaxChannels
           /\ incoming' = [incoming EXCEPT ![r] = Refusal] /\ queue' = queue
           /\ reader' = [reader EXCEPT !.pc = "refuse", !.on = r, !.then = "after"]
        \/ /\ ~(pending_opens >= MaxChannels)
           /\ queue' = Append(queue, r) /\ incoming' = incoming
           /\ reader' = [reader EXCEPT !.pc = "notify"]
    BY <1>r DEF ReceiveOpen
  <1>4. r \in Requests
    <2>1. 1 \in 1 .. Len(wire) /\ Head(wire) = wire[1]
      <3> DEFINE P == [cmd : {"OPEN", "CLSE"}, on : Requests]
      <3>1. wire \in Seq(P)
        BY <1>1 DEF TypeOK
      <3> HIDE DEF P
      <3> QED BY <1>2, <3>1
    <2> QED BY <1>r, <1>1, <2>1, WirePackets
  <1>5. wire' \in Seq([cmd : {"OPEN", "CLSE"}, on : Requests])
    BY <1>1, <1>2 DEF TypeOK
  <1>6. Refusal \in Incomings /\ Refusal.pc = "lock" /\ Refusal.owner = "reader" /\ Refusal.pending
        /\ ~Refusal.reserved /\ ~Refusal.cancelled /\ Refusal.verdict = "CLSE"
    BY DEF Refusal, Hold, NoIncoming, Incomings
  <1>7. reader' \in Readers /\ queue' \in Seq(Requests) /\ incoming' \in [Requests -> Incomings]
    <2>1. CASE pending_opens >= MaxChannels
      BY <1>1, <1>3, <1>4, <1>6, <2>1 DEF Readers, ReaderPcs
    <2>2. CASE ~(pending_opens >= MaxChannels)
      BY <1>1, <1>3, <1>4, <2>2 DEF Readers, ReaderPcs
    <2> QED BY <2>1, <2>2
  <1>8. TypeOK'
    BY <1>1, <1>2, <1>5, <1>7 DEF TypeOK
  <1>9. /\ ~Arrived(r) /\ Arrived(r)'
        /\ \A q \in Requests \ {r} : Arrived(q)' <=> Arrived(q)
        /\ \A i, j \in 1 .. Len(wire') : i < j /\ wire'[i].on = wire'[j].on =>
             wire'[i].cmd = "OPEN" /\ wire'[j].cmd = "CLSE"
        /\ \A i \in 1 .. Len(wire') : device'[wire'[i].on] # "new"
        /\ \A i \in 1 .. Len(wire') : wire'[i].cmd = "CLSE" => device'[wire'[i].on] = "withdrawn"
    BY <1>1, <1>2, <1>8, <1>r, PacketTaken
  <1>10. WireInOrder'
    BY <1>1, <1>2, <1>9 DEF WireInOrder
  <1>11. /\ incoming[r] = NoIncoming /\ ~In(queue, r) /\ answers[r] = <<>> /\ slot[r] = "none"
         /\ r \notin withdrawn
    BY <1>4, <1>9 DEF OpenInv, Life, LifeOf
  <1>12. NoIncoming.pc = "none" /\ NoIncoming.owner = "nobody" /\ ~NoIncoming.reserved
         /\ ~NoIncoming.cancelled /\ ~NoIncoming.pending
    BY DEF NoIncoming
  <1>13. NoLostIncoming'
    BY <1>2, <1>3, <1>7, <1>1 DEF OpenInv, NoLostIncoming, has_ended, Readers
  <1>14. Len(<<>>) = 0 /\ <<>> # <<"READY">>
    OBVIOUS
  <1>15. ASSUME \A q \in Requests \ {r} : /\ In(queue', q) <=> In(queue, q)
                                          /\ incoming'[q] = incoming[q],
                Life(r)'
         PROVE  \A q \in Requests : Life(q)'
    <2>1. (gone => gone') /\ \A q \in Requests \ {r} : In(queue, q)' <=> In(queue, q)
      BY <1>2, <1>15 DEF In
    <2> QED BY <1>2, <1>9, <1>15, <2>1, OthersLive DEF OpenInv
  <1>16. scenario.faults \subseteq {"withdraw"} =>
            /\ ~gone /\ ~desync /\ WithdrawnStaysGone /\ pending_opens <= MaxChannels
            /\ \A q \in Requests : incoming[q].pc \in {"free", "unstage"} => ~incoming[q].pending
    <2>1. MaxChannels + 0 = MaxChannels
      BY PendingCounted
    <2> QED BY <1>2, <2>1 DEF OpenInv, Undropped
  <1>17. CASE pending_opens >= MaxChannels
    <2>1. /\ queue' = queue /\ reader'.pc = "refuse" /\ reader'.on = r /\ reader'.then = "after"
          /\ incoming'[r] = Refusal /\ \A q \in Requests \ {r} : incoming'[q] = incoming[q]
      BY <1>1, <1>3, <1>4, <1>17 DEF Readers
    <2>2. \A q \in Requests : Life(q)'
      <3>1. Life(r)'
        BY <1>2, <1>6, <1>9, <1>11, <1>14, <2>1 DEF Life, LifeOf, In
      <3> QED BY <1>15, <2>1, <3>1
    <2>3. Staged' = Staged \cup {r} /\ r \notin Staged
      BY <1>4, <1>6, <1>11, <1>12, <2>1 DEF Staged
    <2>4. IsFiniteSet(Staged') /\ Cardinality(Staged') = Cardinality(Staged) + 1
      BY <1>1, <2>3, FS_AddElement
    <2>5. Refusing'
      <3>1. \A q \in Requests : incoming[q].owner # "reader"
        BY <1>2 DEF OpenInv, Refusing
      <3> QED BY <1>4, <1>6, <2>1, <3>1 DEF Refusing
    <2>6. Undropped'
      <3>1. pending_opens' = pending_opens + 1
        BY <2>1, <2>4, PendingCounted DEF pending_opens
      <3>2. pending_opens <= MaxChannels =>
              pending_opens' <= MaxChannels + (IF reader'.pc = "refuse" THEN 1 ELSE 0)
        BY <2>1, <3>1, PendingCounted
      <3>3. WithdrawnStaysGone => WithdrawnStaysGone'
        BY <1>2, <2>1 DEF WithdrawnStaysGone
      <3>4. Refusal.pc \notin {"free", "unstage"}
        BY <1>6
      <3> QED BY <1>2, <1>16, <2>1, <3>2, <3>3, <3>4 DEF Undropped
    <2>7. Once(queue)' /\ scenario' \in Scenarios
      BY <1>1, <1>2, <2>1 DEF Once, OpenInv
    <2> QED BY <1>8, <1>10, <1>13, <2>2, <2>4, <2>5, <2>6, <2>7 DEF OpenInv
  <1>18. CASE ~(pending_opens >= MaxChannels)
    <2>1. /\ queue' = Append(queue, r) /\ reader'.pc = "notify" /\ incoming' = incoming
      BY <1>1, <1>3, <1>18 DEF Readers
    <2>2. /\ Once(queue') /\ Len(queue') = Len(queue) + 1
          /\ \A x : In(queue', x) <=> In(queue, x) \/ x = r
      BY <1>1, <1>4, <1>11, <2>1, AppendOnce
    <2>3. \A q \in Requests : Life(q)'
      <3>1. Life(r)'
        <4>1. In(queue, r)'
          BY <2>2 DEF In
        <4> QED BY <1>2, <1>9, <1>11, <1>12, <1>14, <2>1, <4>1 DEF Life, LifeOf
      <3> QED BY <1>15, <2>1, <2>2, <3>1
    <2>4. Staged' = Staged
      BY <2>1 DEF Staged
    <2>5. Refusing'
      BY <1>2, <2>1 DEF OpenInv, Refusing
    <2>6. Undropped'
      <3>1. pending_opens' = pending_opens + 1
        BY <2>2, <2>4, PendingCounted DEF pending_opens
      <3>2. pending_opens' <= MaxChannels + (IF reader'.pc = "refuse" THEN 1 ELSE 0)
        BY <1>18, <2>1, <3>1, PendingCounted
      <3>3. WithdrawnStaysGone => WithdrawnStaysGone'
        <4> SUFFICES ASSUME WithdrawnStaysGone, NEW q \in withdrawn', In(queue', q) PROVE FALSE
          BY DEF WithdrawnStaysGone, In
        <4>1. q # r /\ In(queue, q)
          BY <1>2, <1>11, <2>2
        <4> QED BY <1>2, <4>1 DEF WithdrawnStaysGone, In
      <3> QED BY <1>2, <1>16, <2>1, <3>2, <3>3 DEF Undropped
    <2>7. Once(queue)' /\ scenario' \in Scenarios /\ IsFiniteSet(Staged')
      BY <1>1, <1>2, <2>2, <2>4 DEF Once, OpenInv
    <2> QED BY <1>8, <1>10, <1>13, <2>3, <2>5, <2>6, <2>7 DEF OpenInv
  <1> QED BY <1>17, <1>18

(* The device takes its request back: a slot taken for it closes, or the   *)
(* request is looked for.                                                  *)
LEMMA WithdrawalReceived ==
    ASSUME OpenInv, ReceiveWithdrawal
    PROVE  OpenInv'
  <1>r. PICK r : r = Head(wire).on
    OBVIOUS
  <1>1. /\ TypeOK /\ WireInOrder /\ Once(queue) /\ reader \in Readers
        /\ withdrawn \subseteq Requests /\ IsFiniteSet(Staged)
        /\ slot \in [Requests -> {"none", "Open", "Closed"}]
    BY DEF OpenInv, TypeOK
  <1>2. /\ reader.pc = "recv" /\ ~has_ended /\ wire # <<>> /\ Head(wire).cmd = "CLSE"
        /\ wire' = Tail(wire) /\ withdrawn' = withdrawn \cup {r}
        /\ UNCHANGED <<scenario, device, queue, incoming, listener, wh, answers, desync,
                       stopped, gone>>
    BY <1>r DEF ReceiveWithdrawal
  <1>3. \/ /\ slot[r] # "none" /\ slot' = [slot EXCEPT ![r] = "Closed"]
           /\ \E pc \in AfterPacket : reader' = Returned(pc)
        \/ /\ slot[r] = "none" /\ slot' = slot
           /\ reader' = [reader EXCEPT !.pc = "withdraw", !.on = r]
    BY <1>r DEF ReceiveWithdrawal
  <1>4. r \in Requests
    <2>1. 1 \in 1 .. Len(wire) /\ Head(wire) = wire[1]
      <3> DEFINE P == [cmd : {"OPEN", "CLSE"}, on : Requests]
      <3>1. wire \in Seq(P)
        BY <1>1 DEF TypeOK
      <3> HIDE DEF P
      <3> QED BY <1>2, <3>1
    <2> QED BY <1>r, <1>1, <2>1, WirePackets
  <1>5. wire' \in Seq([cmd : {"OPEN", "CLSE"}, on : Requests])
    BY <1>1, <1>2 DEF TypeOK
  <1>6. /\ reader' \in Readers /\ slot' \in [Requests -> {"none", "Open", "Closed"}]
        /\ \A q \in Requests : slot'[q] = "none" <=> slot[q] = "none"
        /\ \A q \in Requests \ {r} : slot'[q] = slot[q]
        /\ \/ slot[r] # "none" /\ reader'.pc \in {"idle", "recv", "top"}
           \/ reader'.pc = "withdraw" /\ reader'.on = r
    <2>1. CASE slot[r] # "none"
      <3>1. PICK pc \in AfterPacket : reader' = Returned(pc)
        BY <1>3, <2>1
      <3>2. pc \in {"idle", "recv", "top"} /\ pc \in ReaderPcs
        BY <1>1, <3>1, ReturnedFacts DEF ReaderPcs
      <3>3. reader' \in Readers /\ reader'.pc = pc
        BY <1>1, <3>1, <3>2, ReturnedFacts
      <3> QED BY <1>1, <1>3, <1>4, <2>1, <3>2, <3>3
    <2>2. CASE slot[r] = "none"
      BY <1>1, <1>3, <1>4, <2>2 DEF Readers, ReaderPcs
    <2> QED BY <2>1, <2>2
  <1>7. TypeOK'
    BY <1>1, <1>2, <1>4, <1>5, <1>6 DEF TypeOK
  <1>8. /\ Arrived(r) /\ device[r] = "withdrawn"
        /\ \A q \in Requests : Arrived(q)' <=> Arrived(q)
        /\ \A i, j \in 1 .. Len(wire') : i < j /\ wire'[i].on = wire'[j].on =>
             wire'[i].cmd = "OPEN" /\ wire'[j].cmd = "CLSE"
        /\ \A i \in 1 .. Len(wire') : device'[wire'[i].on] # "new"
        /\ \A i \in 1 .. Len(wire') : wire'[i].cmd = "CLSE" => device'[wire'[i].on] = "withdrawn"
    BY <1>1, <1>2, <1>7, <1>r, PacketTaken
  <1>9. WireInOrder'
    BY <1>1, <1>2, <1>8 DEF WireInOrder
  <1>10. \A q \in Requests : Life(q)'
    <2>1. Life(r)'
      <3>1. Life(r)
        BY <1>4 DEF OpenInv
      <3> QED BY <1>2, <1>4, <1>6, <1>8, <3>1 DEF Life, LifeOf, In
    <2>2. gone => gone'
      BY <1>2
    <2>3. \A q \in Requests \ {r} : In(queue, q)' <=> In(queue, q)
      BY <1>2 DEF In
    <2> QED BY <1>2, <1>6, <1>8, <2>1, <2>2, <2>3, OthersLive DEF OpenInv
  <1>11. NoLostIncoming' /\ Refusing'
    BY <1>2, <1>6 DEF OpenInv, NoLostIncoming, Refusing, has_ended
  <1>12. Undropped'
    <2>1. pending_opens' = pending_opens /\ reader.pc # "refuse" /\ reader'.pc # "refuse"
      BY <1>2, <1>6 DEF pending_opens, Staged
    <2>2. WithdrawnStaysGone => WithdrawnStaysGone'
      <3> SUFFICES ASSUME WithdrawnStaysGone, NEW q \in withdrawn', In(queue, q),
                          ~(reader'.pc = "withdraw" /\ reader'.on = q)
                   PROVE  FALSE
        BY <1>2 DEF WithdrawnStaysGone, In
      <3>1. CASE q # r
        BY <1>2, <3>1 DEF WithdrawnStaysGone, In
      <3>2. CASE q = r
        <4>1. slot[r] # "none"
          BY <1>6, <3>2
        <4>2. /\ incoming[r] = NoIncoming /\ answers[r] = <<>>
              /\ incoming[r].reserved \/ answers[r] = <<"READY">>
          BY <1>4, <3>2, <4>1 DEF OpenInv, Life, LifeOf
        <4>3. ~NoIncoming.reserved /\ <<>> # <<"READY">>
          BY DEF NoIncoming
        <4> QED BY <4>2, <4>3
      <3> QED BY <3>1, <3>2
    <2> QED BY <1>2, <2>1, <2>2 DEF OpenInv, Undropped
  <1>13. (scenario \in Scenarios /\ Once(queue) /\ IsFiniteSet(Staged))'
    BY <1>2 DEF OpenInv, Once, Staged
  <1> QED BY <1>7, <1>9, <1>10, <1>11, <1>12, <1>13 DEF OpenInv

(* A request with a slot does not wait in the queue.                       *)
LEMMA SlotOrQueue ==
    ASSUME NEW r, Life(r), slot[r] # "none"
    PROVE  ~In(queue, r)
  <1> SUFFICES ASSUME In(queue, r) PROVE FALSE
    OBVIOUS
  <1>1. /\ incoming[r] = NoIncoming /\ answers[r] = <<>>
        /\ incoming[r].reserved \/ answers[r] = <<"READY">>
    BY DEF Life, LifeOf
  <1>2. ~NoIncoming.reserved /\ <<>> # <<"READY">>
    BY DEF NoIncoming
  <1> QED BY <1>1, <1>2

(* Shared::withdraw_open.                                                  *)
LEMMA OpenWithdrawn ==
    ASSUME OpenInv, WithdrawOpen
    PROVE  OpenInv'
  <1>1. /\ TypeOK /\ WireInOrder /\ Once(queue) /\ reader \in Readers
        /\ withdrawn \subseteq Requests /\ IsFiniteSet(Staged)
        /\ slot \in [Requests -> {"none", "Open", "Closed"}]
        /\ queue \in Seq(Requests) /\ incoming \in [Requests -> Incomings]
    BY DEF OpenInv, TypeOK
  <1>2. /\ reader.pc = "withdraw"
        /\ UNCHANGED <<scenario, device, wire, listener, wh, answers, withdrawn, desync,
                       stopped, gone>>
    BY DEF WithdrawOpen
  <1>3. PICK r : r = reader.on
    OBVIOUS
  <1>4. r \in withdrawn /\ r \in Requests
    BY <1>1, <1>2, <1>3 DEF OpenInv, Refusing
  <1>5. reader' \in Readers /\ reader'.pc \in {"idle", "recv", "top"}
    <2>1. PICK pc \in AfterPacket : reader' = Returned(pc)
      BY DEF WithdrawOpen
    <2>2. pc \in {"idle", "recv", "top"} /\ pc \in ReaderPcs
      BY <1>1, <2>1, ReturnedFacts DEF ReaderPcs
    <2> QED BY <1>1, <2>1, <2>2, ReturnedFacts
  <1> DEFINE inc == incoming[r]
             c == [inc EXCEPT !.cancelled = TRUE]
  <1>6. /\ inc \in Incomings /\ c \in Incomings /\ c.cancelled
        /\ c.pc = inc.pc /\ c.owner = inc.owner /\ c.verdict = inc.verdict
        /\ c.pending = inc.pending /\ c.reserved = inc.reserved
    BY <1>1, <1>4 DEF Incomings
  <1>7. \/ /\ slot[r] # "none" /\ slot' = [slot EXCEPT ![r] = "Closed"]
           /\ UNCHANGED <<queue, incoming>>
        \/ /\ slot[r] = "none" /\ slot' = slot /\ queue' = withdraw(queue, r)
           /\ incoming' = IF r \in Staged THEN [incoming EXCEPT ![r] = c] ELSE incoming
    BY <1>1, <1>3, <1>4 DEF WithdrawOpen, Incomings
  <1> HIDE DEF c, inc
  <1>8. /\ withdraw(queue, r) \in Seq(Requests) /\ Once(withdraw(queue, r))
        /\ Len(withdraw(queue, r)) <= Len(queue)
        /\ \A x : In(withdraw(queue, r), x) <=> In(queue, x) /\ x # r
    BY <1>1, WithdrawOnce
  <1>9. /\ queue' \in Seq(Requests) /\ Once(queue') /\ Len(queue') <= Len(queue)
        /\ \A x \in Requests : In(queue', x) <=> In(queue, x) /\ x # r
    <2>1. CASE slot[r] # "none"
      <3>1. ~In(queue, r)
        BY <1>4, <2>1, SlotOrQueue DEF OpenInv
      <3>2. queue' = queue /\ Len(queue) <= Len(queue)
        BY <1>1, <1>7, <2>1
      <3> QED BY <1>1, <3>1, <3>2
    <2>2. CASE slot[r] = "none"
      BY <1>7, <1>8, <2>2
    <2> QED BY <2>1, <2>2
  <1>10. /\ incoming' \in [Requests -> Incomings]
         /\ \A q \in Requests \ {r} : incoming'[q] = incoming[q] /\ slot'[q] = slot[q]
         /\ incoming'[r] = inc \/ (incoming'[r] = c /\ inc.pc # "none")
         /\ slot' \in [Requests -> {"none", "Open", "Closed"}]
         /\ slot'[r] # "none" => slot[r] # "none"
    <2>1. CASE slot[r] # "none"
      BY <1>1, <1>4, <1>7, <2>1 DEF inc
    <2>2. CASE slot[r] = "none"
      BY <1>1, <1>4, <1>6, <1>7, <2>2 DEF inc, Staged
    <2> QED BY <2>1, <2>2
  <1>11. TypeOK'
    BY <1>1, <1>2, <1>5, <1>9, <1>10 DEF TypeOK
  <1>12. WireInOrder' /\ scenario' \in Scenarios
    BY <1>1, <1>2 DEF WireInOrder, OpenInv
  <1>13. /\ incoming'[r].pc = incoming[r].pc /\ incoming'[r].owner = incoming[r].owner
         /\ incoming'[r].pending = incoming[r].pending
    BY <1>6, <1>10 DEF inc
  <1>14. Staged' = Staged
    BY <1>10, <1>13 DEF Staged
  <1>15. \A q \in Requests : Arrived(q)' <=> Arrived(q)
    BY <1>2 DEF Arrived
  <1>16. \A q \in Requests : Life(q)'
    <2>1. Life(r)'
      <3>1. LifeOf(Arrived(r), slot[r], In(queue, r), inc, answers[r], r \in withdrawn, gone)
        BY <1>4 DEF OpenInv, Life, inc
      <3>2. ~In(queue, r)'
        BY <1>4, <1>9 DEF In
      <3>3. Arrived(r)
        BY <1>4, <3>1 DEF LifeOf
      <3>4. CASE incoming'[r] = inc
        BY <1>2, <1>4, <1>10, <1>15, <3>1, <3>2, <3>3, <3>4 DEF Life, LifeOf
      <3>5. CASE incoming'[r] = c /\ inc.pc # "none"
        BY <1>2, <1>4, <1>6, <1>10, <1>15, <3>1, <3>2, <3>3, <3>5 DEF Life, LifeOf
      <3> QED BY <1>10, <3>4, <3>5
    <2>2. gone => gone'
      BY <1>2
    <2>3. \A q \in Requests \ {r} : In(queue, q)' <=> In(queue, q)
      BY <1>9 DEF In
    <2> QED BY <1>2, <1>10, <1>15, <2>1, <2>2, <2>3, OthersLive DEF OpenInv
  <1>17. Refusing'
    BY <1>2, <1>4, <1>5, <1>10, <1>13 DEF OpenInv, Refusing
  <1>18. queue' # <<>> => queue # <<>>
    BY <1>1, <1>9
  <1>19. NoLostIncoming'
    BY <1>2, <1>5, <1>18 DEF OpenInv, NoLostIncoming, has_ended
  <1>20. Undropped'
    <2>1. pending_opens' <= pending_opens /\ pending_opens' \in Nat
      <3>1. Len(queue') \in Nat
        BY <1>9
      <3> QED BY <1>9, <1>14, <3>1, PendingCounted DEF pending_opens
    <2>2. WithdrawnStaysGone => WithdrawnStaysGone'
      <3> SUFFICES ASSUME WithdrawnStaysGone, NEW q \in withdrawn', In(queue', q) PROVE FALSE
        BY DEF WithdrawnStaysGone, In
      <3>1. q \in Requests /\ q # r /\ In(queue, q)
        BY <1>1, <1>2, <1>9
      <3> QED BY <1>2, <1>3, <3>1 DEF WithdrawnStaysGone, In
    <2>3. pending_opens <= MaxChannels + (IF reader.pc = "refuse" THEN 1 ELSE 0) =>
          pending_opens' <= MaxChannels + (IF reader'.pc = "refuse" THEN 1 ELSE 0)
      BY <1>2, <1>5, <2>1, PendingCounted
    <2>4. \A q \in Requests : /\ incoming'[q].pc = incoming[q].pc
                              /\ incoming'[q].pending = incoming[q].pending
      BY <1>10, <1>13
    <2> QED BY <1>2, <2>2, <2>3, <2>4 DEF OpenInv, Undropped
  <1>21. (Once(queue) /\ IsFiniteSet(Staged))'
    BY <1>1, <1>9, <1>14 DEF Once
  <1> QED BY <1>11, <1>12, <1>16, <1>17, <1>19, <1>20, <1>21 DEF OpenInv

(* The SplitIncoming decides, answers, or is dropped.                      *)
LEMMA IncomingSteps ==
    ASSUME OpenInv, NEW r \in Requests,
           \/ Accept(r) \/ Reject(r) \/ AnswerLocks(r) \/ Answer(r) \/ DropIncoming(r)
           \/ DropFrees(r) \/ (DropRefusal /\ r = reader.on)
    PROVE  OpenInv'
  <1>1. /\ TypeOK /\ incoming \in [Requests -> Incomings] /\ listener \in Listeners
        /\ notified \in Listeners /\ wh \in Requests \cup {"free", "other"}
        /\ slot \in [Requests -> {"none", "Open", "Closed"}]
        /\ answers \in [Requests -> Seq({"READY", "CLSE"})]
        /\ desync \in BOOLEAN
    BY NotifiedFacts DEF OpenInv, TypeOK
  <1>2. PICK inc \in Incomings : inc = incoming[r]
    BY <1>1
  <1>3. LifeOf(Arrived(r), slot[r], In(queue, r), inc, answers[r], r \in withdrawn, gone)
    BY <1>2 DEF OpenInv, Life
  <1>4. scenario.faults \subseteq {"withdraw"} => ~gone /\ ~desync
    BY DEF OpenInv, Undropped
  <1>5. inc.pc # "none" => Arrived(r) /\ ~In(queue, r)
    <2>1. NoIncoming.pc = "none"
      BY DEF NoIncoming
    <2> QED BY <1>3, <2>1 DEF LifeOf
  <1>6. ASSUME UNCHANGED <<scenario, device, wire, queue, reader, withdrawn, stopped, gone>>,
               NEW c \in Incomings, incoming' = [incoming EXCEPT ![r] = c],
               inc.pc # "none", c.pc # "none", c.owner = inc.owner,
               wh' \in Requests \cup {"free", "other"},
               slot' \in [Requests -> {"none", "Open", "Closed"}],
               answers' \in [Requests -> Seq({"READY", "CLSE"})],
               \A q \in Requests \ {r} : slot'[q] = slot[q] /\ answers'[q] = answers[q],
               desync' \in BOOLEAN, listener' \in {listener, notified},
               desync' => desync \/ listener' = notified,
               LifeOf(TRUE, slot'[r], FALSE, c, answers'[r], r \in withdrawn, gone),
               scenario.faults \subseteq {"withdraw"} =>
                   ~desync' /\ (c.pc \in {"free", "unstage"} => ~c.pending)
        PROVE  OpenInv'
    <2>1. TypeOK'
      BY <1>1, <1>6 DEF TypeOK
    <2>2. Arrived(r)' /\ ~In(queue, r)'
      BY <1>5, <1>6 DEF Arrived, In
    <2>3. incoming'[r] = c
      BY <1>1, <1>6
    <2>4. Life(r)'
      BY <1>6, <2>2, <2>3 DEF Life, LifeOf
    <2> QED BY <1>2, <1>6, <2>1, <2>4, OneMoves
  <1>7. CASE Accept(r) \/ Reject(r)
    <2>1. /\ UNCHANGED <<scenario, device, wire, queue, reader, listener, wh, answers, withdrawn,
                         desync, stopped, gone>>
          /\ inc.pc = "held" /\ inc.owner = "app"
      BY <1>2, <1>7 DEF Accept, Reject
    <2>2. \/ /\ inc.cancelled /\ slot' = slot
             /\ incoming' = [incoming EXCEPT ![r] = [inc EXCEPT !.pc = "unstage",
                                                                !.pending = FALSE]]
          \/ /\ slot' = slot
             /\ incoming' = [incoming EXCEPT ![r] = [inc EXCEPT !.pc = "lock", !.verdict = "CLSE"]]
          \/ /\ slot' = [slot EXCEPT ![r] = "Open"]
             /\ incoming' = [incoming EXCEPT ![r] = [inc EXCEPT !.pc = "lock", !.verdict = "READY",
                                                               !.reserved = TRUE]]
      <3>1. CASE Accept(r)
        BY <1>1, <1>2, <3>1 DEF Accept, Incomings
      <3>2. CASE Reject(r)
        BY <1>1, <1>2, <3>2 DEF Reject, Incomings
      <3> QED BY <1>7, <3>1, <3>2
    <2>3. CASE /\ inc.cancelled /\ slot' = slot
               /\ incoming' = [incoming EXCEPT ![r] = [inc EXCEPT !.pc = "unstage",
                                                                  !.pending = FALSE]]
      <3> DEFINE c == [inc EXCEPT !.pc = "unstage", !.pending = FALSE]
      <3>1. /\ c \in Incomings /\ c.pc = "unstage" /\ c.owner = inc.owner /\ ~c.pending
            /\ c.reserved = inc.reserved /\ c.cancelled = inc.cancelled
        BY DEF Incomings
      <3>2. incoming' = [incoming EXCEPT ![r] = c]
        BY <2>3
      <3> HIDE DEF c
      <3>3. LifeOf(TRUE, slot'[r], FALSE, c, answers'[r], r \in withdrawn, gone)
        BY <1>3, <2>1, <2>3, <3>1 DEF LifeOf
      <3> QED BY <1>1, <1>4, <1>6, <2>1, <2>3, <3>1, <3>2, <3>3
    <2>4. CASE /\ slot' = slot
               /\ incoming' = [incoming EXCEPT ![r] = [inc EXCEPT !.pc = "lock",
                                                                  !.verdict = "CLSE"]]
      <3> DEFINE c == [inc EXCEPT !.pc = "lock", !.verdict = "CLSE"]
      <3>1. /\ c \in Incomings /\ c.pc = "lock" /\ c.owner = inc.owner /\ c.pending = inc.pending
            /\ c.verdict = "CLSE" /\ c.reserved = inc.reserved /\ c.cancelled = inc.cancelled
        BY DEF Incomings
      <3>2. incoming' = [incoming EXCEPT ![r] = c]
        BY <2>4
      <3> HIDE DEF c
      <3>3. LifeOf(TRUE, slot'[r], FALSE, c, answers'[r], r \in withdrawn, gone)
        BY <1>3, <2>1, <2>4, <3>1 DEF LifeOf
      <3> QED BY <1>1, <1>4, <1>6, <2>1, <2>4, <3>1, <3>2, <3>3
    <2>5. CASE /\ slot' = [slot EXCEPT ![r] = "Open"]
               /\ incoming' = [incoming EXCEPT ![r] = [inc EXCEPT !.pc = "lock",
                                                                  !.verdict = "READY",
                                                                  !.reserved = TRUE]]
      <3> DEFINE c == [inc EXCEPT !.pc = "lock", !.verdict = "READY", !.reserved = TRUE]
      <3>1. /\ c \in Incomings /\ c.pc = "lock" /\ c.owner = inc.owner /\ c.pending = inc.pending
            /\ c.verdict = "READY" /\ c.reserved /\ c.cancelled = inc.cancelled
        BY DEF Incomings
      <3>2. incoming' = [incoming EXCEPT ![r] = c]
        BY <2>5
      <3> HIDE DEF c
      <3>3. LifeOf(TRUE, slot'[r], FALSE, c, answers'[r], r \in withdrawn, gone)
        BY <1>1, <1>3, <2>1, <2>5, <3>1 DEF LifeOf
      <3> QED BY <1>1, <1>4, <1>6, <2>1, <2>5, <3>1, <3>2, <3>3
    <2> QED BY <2>2, <2>3, <2>4, <2>5
  <1>8. CASE AnswerLocks(r)
    <2> DEFINE c == [inc EXCEPT !.pc = "send"]
    <2>1. /\ UNCHANGED <<scenario, device, wire, slot, queue, reader, listener, answers, withdrawn,
                         desync, stopped, gone>>
          /\ inc.pc = "lock" /\ wh' = r /\ incoming' = [incoming EXCEPT ![r] = c]
      BY <1>1, <1>2, <1>8 DEF AnswerLocks, Incomings
    <2>2. /\ c \in Incomings /\ c.pc = "send" /\ c.owner = inc.owner /\ c.pending = inc.pending
          /\ c.verdict = inc.verdict /\ c.reserved = inc.reserved /\ c.cancelled = inc.cancelled
      BY DEF Incomings
    <2> HIDE DEF c
    <2>3. LifeOf(TRUE, slot'[r], FALSE, c, answers'[r], r \in withdrawn, gone)
      BY <1>3, <2>1, <2>2 DEF LifeOf
    <2> QED BY <1>1, <1>4, <1>6, <2>1, <2>2, <2>3
  <1>9. ASSUME NEW i \in Incomings
        PROVE  LET c == Dropping(i)
               IN /\ c \in Incomings /\ c.pc = IF i.reserved THEN "free" ELSE "unstage"
                  /\ c.owner = i.owner /\ c.pending = i.pending
                  /\ c.reserved = i.reserved /\ c.cancelled = i.cancelled
    BY DEF Incomings, Dropping
  <1>10. CASE Answer(r)
    <2>1. /\ UNCHANGED <<scenario, device, wire, slot, queue, reader, withdrawn, stopped, gone>>
          /\ inc.pc = "send" /\ wh' = "free"
      BY <1>2, <1>10 DEF Answer
    <2>2. CASE /\ ~desync /\ ~gone
               /\ answers' = [answers EXCEPT ![r] = Append(@, incoming[r].verdict)]
               /\ incoming' = [incoming EXCEPT ![r] =
                                  Dropping([@ EXCEPT !.pending = FALSE, !.reserved = FALSE])]
               /\ UNCHANGED <<desync, listener>>
      <3> DEFINE i == [inc EXCEPT !.pending = FALSE, !.reserved = FALSE]
                 c == Dropping(i)
      <3>1. /\ i \in Incomings /\ i.owner = inc.owner /\ ~i.pending /\ ~i.reserved
            /\ i.cancelled = inc.cancelled
        BY DEF Incomings
      <3>2. incoming' = [incoming EXCEPT ![r] = c]
        BY <1>1, <1>2, <2>2
      <3> HIDE DEF i
      <3>3. /\ c \in Incomings /\ c.pc = "unstage" /\ c.owner = inc.owner /\ ~c.pending
            /\ ~c.reserved /\ c.cancelled = inc.cancelled
        BY <1>9, <3>1
      <3> HIDE DEF c
      <3>4. answers[r] = <<>> /\ inc.verdict = IF inc.reserved THEN "READY" ELSE "CLSE"
        BY <1>3, <2>1 DEF LifeOf
      <3>5. answers' = [answers EXCEPT ![r] = <<inc.verdict>>]
        <4>1. Append(<<>>, inc.verdict) = <<inc.verdict>>
          OBVIOUS
        <4> QED BY <1>1, <1>2, <2>2, <3>4, <4>1
      <3>6. /\ <<inc.verdict>> \in Seq({"READY", "CLSE"}) /\ <<inc.verdict>> # <<>>
            /\ Len(<<inc.verdict>>) = 1
        BY <3>4
      <3>7. LifeOf(TRUE, slot'[r], FALSE, c, answers'[r], r \in withdrawn, gone)
        <4>1. slot[r] # "none" => <<inc.verdict>> = <<"READY">>
          <5>1. <<>> # <<"READY">>
            OBVIOUS
          <5>2. slot[r] # "none" => inc.reserved
            BY <1>3, <3>4, <5>1 DEF LifeOf
          <5> QED BY <3>4, <5>2
        <4>2. inc.cancelled => r \in withdrawn
          BY <1>3 DEF LifeOf
        <4>3. slot'[r] = slot[r] /\ answers'[r] = <<inc.verdict>>
          BY <1>1, <2>1, <3>5
        <4> QED BY <3>3, <3>6, <4>1, <4>2, <4>3 DEF LifeOf
      <3> QED BY <1>1, <1>4, <1>6, <2>1, <2>2, <3>2, <3>3, <3>5, <3>6, <3>7, ZenonT(40)
    <2>3. CASE /\ ~desync /\ gone
               /\ incoming' = [incoming EXCEPT ![r] = Dropping([@ EXCEPT !.pending = FALSE])]
               /\ UNCHANGED <<answers, desync, listener>>
      <3> DEFINE i == [inc EXCEPT !.pending = FALSE]
                 c == Dropping(i)
      <3>1. /\ i \in Incomings /\ i.owner = inc.owner /\ ~i.pending /\ i.reserved = inc.reserved
            /\ i.cancelled = inc.cancelled
        BY DEF Incomings
      <3>2. incoming' = [incoming EXCEPT ![r] = c]
        BY <1>1, <1>2, <2>3
      <3> HIDE DEF i
      <3>3. /\ c \in Incomings /\ c.pc = (IF inc.reserved THEN "free" ELSE "unstage")
            /\ c.owner = inc.owner /\ ~c.pending
            /\ c.reserved = inc.reserved /\ c.cancelled = inc.cancelled
        BY <1>9, <3>1
      <3> HIDE DEF c
      <3>4. LifeOf(TRUE, slot'[r], FALSE, c, answers'[r], r \in withdrawn, gone)
        BY <1>3, <2>1, <2>3, <3>3 DEF LifeOf
      <3>5. c.pc # "none"
        BY <3>3
      <3> QED BY <1>1, <1>4, <1>6, <2>1, <2>3, <3>2, <3>3, <3>4, <3>5
    <2>4. CASE /\ desync \/ "writeError" \in scenario.faults
               /\ desync' = TRUE /\ listener' = notified
               /\ incoming' = [incoming EXCEPT ![r] = Dropping([@ EXCEPT !.failed = TRUE])]
               /\ UNCHANGED answers
      <3> DEFINE i == [inc EXCEPT !.failed = TRUE]
                 c == Dropping(i)
      <3>1. /\ i \in Incomings /\ i.owner = inc.owner /\ i.pending = inc.pending
            /\ i.reserved = inc.reserved /\ i.cancelled = inc.cancelled
        BY DEF Incomings
      <3>2. incoming' = [incoming EXCEPT ![r] = c]
        BY <1>1, <1>2, <2>4
      <3> HIDE DEF i
      <3>3. /\ c \in Incomings /\ c.pc = (IF inc.reserved THEN "free" ELSE "unstage")
            /\ c.owner = inc.owner /\ c.pending = inc.pending
            /\ c.reserved = inc.reserved /\ c.cancelled = inc.cancelled
        BY <1>9, <3>1
      <3> HIDE DEF c
      <3>4. LifeOf(TRUE, slot'[r], FALSE, c, answers'[r], r \in withdrawn, gone)
        BY <1>3, <2>1, <2>4, <3>3 DEF LifeOf
      <3>5. c.pc # "none" /\ ~(scenario.faults \subseteq {"withdraw"})
        BY <1>4, <2>4, <3>3
      <3> QED BY <1>1, <1>6, <2>1, <2>4, <3>2, <3>3, <3>4, <3>5
    <2> QED BY <1>10, <2>2, <2>3, <2>4 DEF Answer
  <1>11. CASE DropIncoming(r)
    <2> DEFINE c == Dropping(inc)
    <2>1. /\ UNCHANGED <<scenario, device, wire, slot, queue, reader, answers, withdrawn, stopped,
                         gone>>
          /\ inc.pc \in {"held", "lock", "send"} /\ "drop" \in scenario.faults
          /\ incoming' = [incoming EXCEPT ![r] = c]
          /\ desync' = (desync \/ inc.pc = "send")
          /\ listener' = IF inc.pc = "send" THEN notified ELSE listener
          /\ wh' \in {"free", wh}
      BY <1>1, <1>2, <1>11 DEF DropIncoming
    <2>2. /\ c \in Incomings /\ c.pc = (IF inc.reserved THEN "free" ELSE "unstage")
          /\ c.owner = inc.owner /\ c.pending = inc.pending
          /\ c.reserved = inc.reserved /\ c.cancelled = inc.cancelled
      BY <1>9
    <2> HIDE DEF c
    <2>3. LifeOf(TRUE, slot'[r], FALSE, c, answers'[r], r \in withdrawn, gone)
      BY <1>3, <2>1, <2>2 DEF LifeOf
    <2>4. c.pc # "none" /\ ~(scenario.faults \subseteq {"withdraw"}) /\ desync' \in BOOLEAN
      BY <1>1, <2>1, <2>2
    <2> QED BY <1>1, <1>6, <2>1, <2>2, <2>3, <2>4
  <1>12. CASE DropFrees(r)
    <2> DEFINE c == [inc EXCEPT !.pc = "unstage", !.reserved = FALSE]
    <2>1. /\ UNCHANGED <<scenario, device, wire, queue, reader, listener, wh, answers, withdrawn,
                         desync, stopped, gone>>
          /\ inc.pc = "free" /\ slot' = [slot EXCEPT ![r] = "none"]
          /\ incoming' = [incoming EXCEPT ![r] = c]
      BY <1>1, <1>2, <1>12 DEF DropFrees, Incomings
    <2>2. /\ c \in Incomings /\ c.pc = "unstage" /\ c.owner = inc.owner /\ c.pending = inc.pending
          /\ ~c.reserved /\ c.cancelled = inc.cancelled
      BY DEF Incomings
    <2> HIDE DEF c
    <2>3. LifeOf(TRUE, slot'[r], FALSE, c, answers'[r], r \in withdrawn, gone)
      BY <1>1, <1>3, <1>5, <2>1, <2>2 DEF LifeOf
    <2>4. scenario.faults \subseteq {"withdraw"} => ~inc.pending
      BY <1>2, <2>1 DEF OpenInv, Undropped
    <2> QED BY <1>1, <1>4, <1>6, <2>1, <2>2, <2>3, <2>4
  <1>13. CASE DropRefusal /\ r = reader.on
    <2> DEFINE c == [inc EXCEPT !.pc = "unstage", !.failed = TRUE]
    <2>1. /\ UNCHANGED <<scenario, device, wire, slot, queue, reader, answers, withdrawn, stopped,
                         gone>>
          /\ inc.pc \in {"lock", "send"} /\ "dropCall" \in scenario.faults /\ reader.pc = "refuse"
          /\ incoming' = [incoming EXCEPT ![r] = c]
          /\ desync' = (desync \/ inc.pc = "send")
          /\ listener' = IF desync' THEN notified ELSE listener
          /\ wh' \in {"free", wh}
      BY <1>1, <1>2, <1>13 DEF DropRefusal, Incomings
    <2>2. /\ c \in Incomings /\ c.pc = "unstage" /\ c.owner = inc.owner /\ c.pending = inc.pending
          /\ c.reserved = inc.reserved /\ c.cancelled = inc.cancelled
      BY DEF Incomings
    <2> HIDE DEF c
    <2>3. inc.owner = "reader"
      BY <1>2, <1>13, <2>1 DEF OpenInv, Refusing
    <2>4. LifeOf(TRUE, slot'[r], FALSE, c, answers'[r], r \in withdrawn, gone)
      BY <1>3, <2>1, <2>2, <2>3 DEF LifeOf
    <2>5. ~(scenario.faults \subseteq {"withdraw"}) /\ desync' \in BOOLEAN
      BY <1>1, <2>1
    <2> QED BY <1>1, <1>6, <2>1, <2>2, <2>4, <2>5
  <1> QED BY <1>7, <1>8, <1>10, <1>11, <1>12, <1>13

(* The drop of a SplitIncoming ends: an undecided request goes back.       *)
LEMMA Unstaged ==
    ASSUME OpenInv, NEW r \in Requests, DropUnstages(r)
    PROVE  OpenInv'
  <1>1. /\ TypeOK /\ incoming \in [Requests -> Incomings] /\ listener \in Listeners
        /\ notified \in Listeners /\ reader \in Readers /\ queue \in Seq(Requests) /\ Once(queue)
        /\ IsFiniteSet(Staged) /\ stopped \in BOOLEAN
    BY NotifiedFacts DEF OpenInv, TypeOK
  <1>2. PICK inc \in Incomings : inc = incoming[r]
    BY <1>1
  <1>3. LifeOf(Arrived(r), slot[r], In(queue, r), inc, answers[r], r \in withdrawn, gone)
    BY <1>2 DEF OpenInv, Life
  <1> DEFINE back == inc.pending /\ ~inc.cancelled
  <1>4. inc.pending \in BOOLEAN /\ inc.cancelled \in BOOLEAN
    BY DEF Incomings
  <1>5. /\ inc.pc = "unstage" /\ incoming' = [incoming EXCEPT ![r] = NoIncoming]
        /\ UNCHANGED <<scenario, device, wire, slot, wh, answers, withdrawn, desync, gone>>
        /\ queue' = IF back THEN <<r>> \o queue ELSE queue
        /\ stopped' = (stopped \/ (inc.owner = "reader" /\ inc.failed /\ reader.call = "run"))
        /\ listener' = IF back \/ stopped' THEN notified ELSE listener
    BY <1>1, <1>2, <1>4 DEF DropUnstages
  <1>6. /\ inc.owner = "reader" => reader.pc = "refuse" /\ reader.on = r /\ reader.then # "none"
        /\ reader.pc = "refuse" /\ reader.on = r => inc.owner = "reader"
        /\ \A q \in Requests \ {r} : incoming[q].owner = "reader" =>
              reader.pc = "refuse" /\ reader.on = q /\ inc.owner # "reader"
    BY <1>2 DEF OpenInv, Refusing
  <1>7. inc.owner # "reader" => reader' = reader
    BY <1>2 DEF DropUnstages
  <1>8. inc.owner = "reader" =>
          reader' \in Readers /\ reader'.pc \in {"idle", "recv", "top", "done", "sweep", "drain"}
    <2> SUFFICES ASSUME inc.owner = "reader"
                 PROVE  /\ reader' \in Readers
                        /\ reader'.pc \in {"idle", "recv", "top", "done", "sweep", "drain"}
      OBVIOUS
    <2>1. reader.then \in {"sweep", "drain", "after"}
      BY <1>1, <1>6 DEF Readers
    <2>2. \/ reader' = Failed
          \/ \E pc \in IF reader.then = "after" THEN AfterPacket ELSE {reader.then} :
                reader' = Returned(pc)
      BY <1>2 DEF DropUnstages
    <2>3. CASE reader' = Failed
      BY <1>1, <2>3, ReturnedFacts
    <2>4. ASSUME NEW pc \in IF reader.then = "after" THEN AfterPacket ELSE {reader.then},
                 reader' = Returned(pc)
          PROVE  /\ reader' \in Readers
                 /\ reader'.pc \in {"idle", "recv", "top", "done", "sweep", "drain"}
      <3>1. AfterPacket \subseteq {"idle", "recv", "top"}
        BY <1>1, ReturnedFacts
      <3>2. pc \in {"idle", "recv", "top", "sweep", "drain"}
        BY <2>1, <3>1
      <3>3. pc \in ReaderPcs
        BY <3>2 DEF ReaderPcs
      <3>4. reader' \in Readers /\ reader'.pc = pc
        BY <1>1, <2>4, <3>3, ReturnedFacts
      <3> QED BY <3>2, <3>4
    <2> QED BY <2>2, <2>3, <2>4
  <1>9. ~In(queue, r) /\ Arrived(r) /\ ~inc.reserved
    <2>1. NoIncoming.pc = "none"
      BY DEF NoIncoming
    <2> QED BY <1>3, <1>5, <2>1 DEF LifeOf
  <1>10. /\ queue' \in Seq(Requests) /\ Once(queue')
         /\ Len(queue') = IF back THEN Len(queue) + 1 ELSE Len(queue)
         /\ \A x : In(queue', x) <=> In(queue, x) \/ (back /\ x = r)
    <2>1. CASE back
      BY <1>1, <1>5, <1>9, <2>1, PushOnce
    <2>2. CASE ~back
      <3>1. queue' = queue
        BY <1>5, <2>2
      <3> QED BY <1>1, <2>2, <3>1
    <2> QED BY <2>1, <2>2
  <1>11. NoIncoming \in Incomings /\ NoIncoming.pc = "none" /\ NoIncoming.owner = "nobody"
         /\ ~NoIncoming.reserved /\ ~NoIncoming.pending /\ ~NoIncoming.cancelled
    BY DEF NoIncoming, Incomings
  <1>12. incoming' \in [Requests -> Incomings] /\ incoming'[r] = NoIncoming
         /\ \A q \in Requests \ {r} : incoming'[q] = incoming[q]
    BY <1>1, <1>5, <1>11
  <1>13. TypeOK'
    <2>1. listener' \in Listeners /\ stopped' \in BOOLEAN /\ reader' \in Readers
      BY <1>1, <1>5, <1>7, <1>8
    <2> QED BY <1>1, <1>5, <1>10, <1>12, <2>1 DEF TypeOK
  <1>14. \A q \in Requests : Life(q)'
    <2>1. \A q \in Requests : /\ Arrived(q)' <=> Arrived(q)
                              /\ In(queue, q)' <=> In(queue, q) \/ (back /\ q = r)
      <3>1. \A q \in Requests : Arrived(q)' <=> Arrived(q)
        BY <1>5 DEF Arrived
      <3>2. \A q \in Requests : In(queue, q)' <=> In(queue', q)
        BY DEF In
      <3> QED BY <1>10, <3>1, <3>2
    <2>2. Life(r)'
      <3>1. /\ Arrived(r)' /\ (In(queue, r)' <=> back)
            /\ slot'[r] = slot[r] /\ answers'[r] = answers[r] /\ withdrawn' = withdrawn
        BY <1>5, <1>9, <2>1
      <3> QED BY <1>3, <1>4, <1>5, <1>9, <1>11, <1>12, <3>1 DEF Life, LifeOf
    <2>3. gone => gone'
      BY <1>5
    <2>4. \A q \in Requests \ {r} : /\ Arrived(q)' <=> Arrived(q)
                                    /\ In(queue, q)' <=> In(queue, q)
      BY <2>1
    <2> QED BY <1>5, <1>12, <2>2, <2>3, <2>4, OthersLive DEF OpenInv
  <1>15. Staged' = Staged \ {r} /\ r \in Staged
    BY <1>2, <1>5, <1>11, <1>12 DEF Staged
  <1>16. IsFiniteSet(Staged') /\ Cardinality(Staged') = Cardinality(Staged) - 1
    BY <1>1, <1>15, FS_RemoveElement
  <1>17. Refusing'
    <2>1. \A q \in Requests : incoming'[q].owner = "reader" => q # r
      BY <1>11, <1>12
    <2>2. CASE inc.owner = "reader"
      BY <1>6, <1>8, <1>12, <2>1, <2>2 DEF Refusing
    <2>3. CASE inc.owner # "reader"
      BY <1>5, <1>6, <1>7, <1>12, <2>1, <2>3 DEF OpenInv, Refusing
    <2> QED BY <2>2, <2>3
  <1>18. NoLostIncoming'
    <2>1. CASE back \/ stopped'
      BY <1>1, <1>5, <2>1, NotifiedFacts DEF NoLostIncoming
    <2>2. CASE ~back /\ ~stopped'
      <3>1. queue' = queue /\ listener' = listener /\ (has_ended' => has_ended)
        BY <1>1, <1>5, <2>2 DEF has_ended
      <3>2. reader.pc = "notify" => reader' = reader
        BY <1>6, <1>7
      <3> QED BY <3>1, <3>2 DEF OpenInv, NoLostIncoming
    <2> QED BY <2>1, <2>2
  <1>19. Undropped'
    <2> SUFFICES ASSUME scenario.faults \subseteq {"withdraw"} PROVE Undropped'
      BY <1>5 DEF Undropped
    <2>1. /\ ~gone /\ ~desync /\ WithdrawnStaysGone /\ ~inc.pending
          /\ \A q \in Requests : incoming[q].pc \in {"free", "unstage"} => ~incoming[q].pending
          /\ pending_opens <= MaxChannels + (IF reader.pc = "refuse" THEN 1 ELSE 0)
      BY <1>2, <1>5 DEF OpenInv, Undropped
    <2>2. ~back /\ queue' = queue
      BY <1>4, <1>5, <2>1
    <2>3. pending_opens' = pending_opens - 1
      BY <1>16, <2>2, PendingCounted DEF pending_opens
    <2>4. pending_opens' <= MaxChannels + (IF reader'.pc = "refuse" THEN 1 ELSE 0)
      BY <2>1, <2>3, PendingCounted
    <2>5. WithdrawnStaysGone'
      <3>1. reader.pc = "withdraw" => reader' = reader
        BY <1>6, <1>7
      <3> QED BY <1>5, <2>1, <2>2, <3>1 DEF WithdrawnStaysGone
    <2>6. \A q \in Requests : incoming'[q].pc \in {"free", "unstage"} => ~incoming'[q].pending
      BY <1>11, <1>12, <2>1
    <2> QED BY <1>5, <2>1, <2>4, <2>5, <2>6 DEF Undropped
  <1>20. (scenario \in Scenarios /\ WireInOrder /\ Once(queue))'
    BY <1>5, <1>10 DEF OpenInv, WireInOrder, Once
  <1> QED BY <1>13, <1>14, <1>16, <1>17, <1>18, <1>19, <1>20 DEF OpenInv

-----------------------------------------------------------------------------
(* The theorems.                                                           *)

(* At first nothing has been opened.                                       *)
LEMMA OpenInitially == Init => OpenInv
  <1> SUFFICES ASSUME Init PROVE OpenInv
    OBVIOUS
  <1>1. /\ device = [r \in Requests |-> "new"] /\ wire = <<>> /\ slot = [r \in Requests |-> "none"]
        /\ queue = <<>> /\ incoming = [r \in Requests |-> NoIncoming] /\ scenario \in Scenarios
        /\ wh = "free" /\ answers = [r \in Requests |-> <<>>] /\ withdrawn = {}
        /\ desync = FALSE /\ stopped = FALSE /\ gone = FALSE
    BY DEF Init
  <1>2. /\ reader \in Readers /\ reader.pc \in {"top", "idle"}
        /\ listener \in Listeners /\ listener.pc = "idle"
    <2>1. /\ reader = [pc |-> IF scenario.mode = "run" THEN "top" ELSE "idle", on |-> "nobody",
                       call |-> IF scenario.mode = "run" THEN "run" ELSE "none", then |-> "none"]
          /\ listener = [pc |-> "idle", signal |-> "none", alive |-> scenario.mode = "run"]
      BY DEF Init
    <2> QED BY <2>1 DEF Readers, ReaderPcs, Listeners
  <1>3. NoIncoming \in Incomings /\ NoIncoming.pc = "none" /\ NoIncoming.owner = "nobody"
        /\ ~NoIncoming.reserved /\ ~NoIncoming.pending /\ ~NoIncoming.cancelled
    BY DEF NoIncoming, Incomings
  <1>4. /\ Len(<<>>) = 0 /\ <<>> \in Seq(Requests) /\ <<>> \in Seq({"READY", "CLSE"})
        /\ <<>> \in Seq([cmd : {"OPEN", "CLSE"}, on : Requests]) /\ 1 .. 0 = {}
    OBVIOUS
  <1>5. TypeOK
    BY <1>1, <1>2, <1>3, <1>4 DEF TypeOK
  <1>6. WireInOrder /\ Once(queue)
    BY <1>1, <1>4 DEF WireInOrder, Once
  <1>7. Staged = {}
    BY <1>1, <1>3 DEF Staged
  <1>8. IsFiniteSet({}) /\ Cardinality({}) = 0
    BY FS_EmptySet
  <1>9. \A r \in Requests : Life(r)
    BY <1>1, <1>3, <1>4 DEF Life, LifeOf, Arrived, In
  <1>10. Refusing /\ NoLostIncoming
    BY <1>1, <1>2, <1>3 DEF Refusing, NoLostIncoming
  <1>11. Undropped
    <2>1. pending_opens = 0
      BY <1>1, <1>4, <1>7, <1>8 DEF pending_opens
    <2>2. 0 <= MaxChannels + (IF reader.pc = "refuse" THEN 1 ELSE 0)
      BY IncomingAssumption
    <2>3. \A r \in Requests : incoming[r].pc = "none"
      BY <1>1, <1>3
    <2> QED BY <1>1, <2>1, <2>2, <2>3 DEF Undropped, WithdrawnStaysGone
  <1> QED BY <1>1, <1>5, <1>6, <1>7, <1>8, <1>9, <1>10, <1>11 DEF OpenInv

(* Every step of the Reader, of a listener, of the application and of the  *)
(* device keeps the invariant.                                             *)
LEMMA OpenStep == OpenInv /\ [Next]_openVars => OpenInv'
  <1> SUFFICES ASSUME OpenInv, [Next]_openVars PROVE OpenInv'
    OBVIOUS
  <1>1. CASE TransportFails \/ OtherLocks \/ OtherUnlocks
    BY <1>1, QuietSteps
  <1>2. CASE ListenerNext
    BY <1>2, QuietSteps, TakingSteps DEF ListenerNext
  <1>3. CASE ReaderNext
    <2>1. DropRefusal => reader.on \in Requests
      BY DEF OpenInv, Refusing, DropRefusal
    <2>2. CASE DropRefusal
      BY <2>1, <2>2, IncomingSteps
    <2>3. CASE StartCall \/ ReaderNotifies \/ ReaderEnds
      BY <2>3, QuietSteps
    <2>4. CASE Top \/ Sweep \/ TryAccept \/ Drain
      BY <2>4, TakingSteps
    <2>5. CASE ReceiveOpen \/ ReceiveWithdrawal \/ WithdrawOpen
      BY <2>5, OpenReceived, WithdrawalReceived, OpenWithdrawn
    <2> QED BY <1>3, <2>2, <2>3, <2>4, <2>5 DEF ReaderNext
  <1>4. ASSUME NEW r \in Requests, RequestNext(r) PROVE OpenInv'
    <2>1. CASE DeviceOpens(r) \/ DeviceWithdraws(r)
      BY <2>1, DeviceSteps
    <2>2. CASE DeviceSettles(r) \/ CloseChannel(r)
      BY <2>2, QuietSteps
    <2>3. CASE \/ Accept(r) \/ Reject(r) \/ AnswerLocks(r) \/ Answer(r) \/ DropIncoming(r)
               \/ DropFrees(r)
      BY <2>3, IncomingSteps
    <2>4. CASE DropUnstages(r)
      BY <2>4, Unstaged
    <2> QED BY <1>4, <2>1, <2>2, <2>3, <2>4 DEF RequestNext
  <1>5. CASE UNCHANGED openVars
    <2>1. TypeOK' /\ NoLostIncoming'
      BY <1>5 DEF OpenInv, TypeOK, NoLostIncoming, has_ended, openVars
    <2>2. scenario.faults \subseteq {"withdraw"} => ~gone /\ ~desync
      BY DEF OpenInv, Undropped
    <2> QED BY <1>5, <2>1, <2>2, NobodyMoves DEF openVars
  <1> QED BY <1>1, <1>2, <1>3, <1>4, <1>5 DEF Next

(* What the invariant says of the fate of a request.                       *)
LEMMA VerdictFollows == OpenInv => OneVerdict
  <1> SUFFICES ASSUME OpenInv PROVE OneVerdict
    OBVIOUS
  <1>1. TypeOK /\ queue \in Seq(Requests) /\ Once(queue) /\ \A r \in Requests : Life(r)
    BY DEF OpenInv, TypeOK
  <1>2. AtMostOneAnswer /\ NoSlotLeak
    BY <1>1 DEF AtMostOneAnswer, NoSlotLeak, Life, LifeOf
  <1>3. NoRequestLost
    <2> SUFFICES ASSUME NEW r \in Requests, Arrived(r), answers[r] = <<>>, r \notin withdrawn, ~gone
                 PROVE  Places(r) = 1
      BY DEF NoRequestLost
    <2> DEFINE at == {i \in 1 .. Len(queue) : queue[i] = r}
    <2>1. Cardinality({}) = 0 /\ \A i : Cardinality({i}) = 1
      BY FS_EmptySet, FS_Singleton
    <2>2. NoIncoming.pc = "none" /\ ~NoIncoming.pending
      BY DEF NoIncoming
    <2>3. /\ In(queue, r) \/ incoming[r].pending
          /\ In(queue, r) => incoming[r].pc = "none"
          /\ incoming[r].pc = "none" => incoming[r] = NoIncoming
      BY <1>1 DEF Life, LifeOf
    <2>4. CASE In(queue, r)
      <3>1. PICK i \in 1 .. Len(queue) : queue[i] = r
        BY <2>4 DEF In
      <3>2. at = {i}
        BY <1>1, <3>1 DEF Once
      <3>3. ~(r \in Staged /\ incoming[r].pending)
        BY <2>2, <2>3, <2>4
      <3>4. Cardinality(at) = 1
        BY <2>1, <3>2
      <3> HIDE DEF at
      <3> QED BY <3>3, <3>4 DEF Places, at
    <2>5. CASE ~In(queue, r)
      <3>1. at = {}
        BY <2>5 DEF In
      <3>2. r \in Staged /\ incoming[r].pending
        BY <2>2, <2>3, <2>5 DEF Staged
      <3>3. Cardinality(at) = 0
        BY <2>1, <3>1
      <3> HIDE DEF at
      <3> QED BY <3>2, <3>3 DEF Places, at
    <2> QED BY <2>4, <2>5
  <1> QED BY <1>1, <1>2, <1>3 DEF OneVerdict

(* Every OPEN has one fate, for any number of them and whatever is dropped *)
(* or fails: at most one READY or CLSE goes to the device, the request is  *)
(* in the queue or in one SplitIncoming until then, and it holds no slot   *)
(* that nobody uses.                                                       *)
THEOREM VerdictOnce == Spec => []OneVerdict
  <1>1. Init => OpenInv
    BY OpenInitially
  <1>2. OpenInv /\ [Next]_openVars => OpenInv'
    BY OpenStep
  <1>3. OpenInv => OneVerdict
    BY VerdictFollows
  <1> QED BY <1>1, <1>2, <1>3, PTL DEF Spec

(* A listener asleep in IncomingListener::accept is never left without the *)
(* news of a queued request or of the end of the connection.               *)
THEOREM ListenerTold == Spec => []NoLostIncoming
  <1>1. Init => OpenInv
    BY OpenInitially
  <1>2. OpenInv /\ [Next]_openVars => OpenInv'
    BY OpenStep
  <1>3. OpenInv => NoLostIncoming
    BY DEF OpenInv
  <1> QED BY <1>1, <1>2, <1>3, PTL DEF Spec

(* While nothing is dropped, max_channels bounds the OPENs that wait (one  *)
(* more while it is being refused), and a withdrawn one stays out of the   *)
(* queue.                                                                  *)
THEOREM PendingHolds == Spec => []PendingExact
  <1>1. Init => OpenInv
    BY OpenInitially
  <1>2. OpenInv /\ [Next]_openVars => OpenInv'
    BY OpenStep
  <1>3. OpenInv => PendingExact
    <2> SUFFICES ASSUME OpenInv, NothingDropped PROVE PendingBounded /\ WithdrawnStaysGone
      BY DEF PendingExact
    <2>1. /\ WithdrawnStaysGone
          /\ pending_opens <= MaxChannels + (IF reader.pc = "refuse" THEN 1 ELSE 0)
      BY DEF OpenInv, Undropped, NothingDropped
    <2>2. pending_opens <= MaxChannels + 1
      BY <2>1, PendingCounted
    <2> QED BY <2>1, <2>2 DEF PendingBounded, pending_opens
  <1> QED BY <1>1, <1>2, <1>3, PTL DEF Spec
=============================================================================
