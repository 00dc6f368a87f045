---------------------------- MODULE IncomingOpens ----------------------------
(***************************************************************************)
(* Channels the device opens toward the host on a split connection: an     *)
(* OPEN is queued or refused by whoever drives the Reader, handed over as  *)
(* a SplitIncoming, accepted, rejected or dropped by the application, and  *)
(* may be withdrawn by the device at any moment.                           *)
(*                                                                         *)
(* A request is the device's id for it; each has at most one SplitIncoming *)
(* at a time.  The Reader is driven in one of two ways: by "run", with an  *)
(* IncomingListener at first, or by "calls", one reading call after        *)
(* another.                                                                *)
(***************************************************************************)
EXTENDS IncomingQueue

CONSTANTS
    Requests,     \* the device's OPENs
    MaxChannels,  \* config.max_channels: table size and bound on pending OPENs
    MaxWire,      \* bound: packets in flight to the host
    Scenarios     \* how the Reader may be driven, what the device opens and what may go wrong

FaultKinds == {"drop", "dropCall", "gone", "writeError", "withdraw", "stall"}

ASSUME IncomingAssumption ==
    /\ MaxChannels \in Nat \ {0}
    /\ MaxWire \in Nat \ {0}
    /\ Scenarios \subseteq [mode : {"run", "calls"}, opens : SUBSET Requests,
                             faults : SUBSET FaultKinds]
    /\ \A r \in Requests : r \notin {"free", "other", "nobody"}

VARIABLES
    scenario,  \* one of Scenarios
    device,    \* each request on the device: "new", "open", "withdrawn", "settled"
    wire,      \* packets in flight to the host
    slot,      \* the slot of each request: "none", "Open" or "Closed"
    queue,     \* Shared::incoming
    incoming,  \* the SplitIncoming of each request
    reader,    \* the Reader: its call, where it is, and what it is about
    listener,  \* the IncomingListener: where its accept is, and whether it lives
    wh,        \* who holds the write half
    answers,   \* the verdicts written for each request
    withdrawn, \* requests whose withdrawal the host has received
    desync, stopped, gone

openVars == <<scenario, device, wire, slot, queue, incoming, reader, listener, wh, answers,
              withdrawn, desync, stopped, gone>>

NoIncoming == [pc |-> "none", owner |-> "nobody", verdict |-> "none", pending |-> FALSE,
               cancelled |-> FALSE, reserved |-> FALSE, failed |-> FALSE]

(* Shared::hold_incoming: an entry in `staged` and the object.             *)
Hold(owner) == [NoIncoming EXCEPT !.pc = "held", !.owner = owner, !.pending = TRUE]

Refusal == [Hold("reader") EXCEPT !.pc = "lock", !.verdict = "CLSE"]

Staged == {r \in Requests : incoming[r].pc # "none"}

(* Faulty form: the requests handed out are not counted.                   *)
pending_in_queue == Len(queue)

(* staged.len() + incoming.len().                                          *)
pending_opens == Cardinality(Staged) + Len(queue)

Incomings == [pc : {"none", "held", "lock", "send", "free", "unstage"},
              owner : {"nobody", "app", "reader"}, verdict : {"none", "READY", "CLSE"},
              pending : BOOLEAN, cancelled : BOOLEAN, reserved : BOOLEAN, failed : BOOLEAN]
ReaderPcs == {"idle", "top", "sweep", "drain", "recv", "withdraw", "notify", "refuse", "done"}
Readers == [pc : ReaderPcs, call : {"none", "accept", "dispatch", "read", "run"},
            on : Requests \cup {"nobody"}, then : {"none", "sweep", "drain", "after"}]
Listeners == [pc : {"idle", "look", "parked"}, signal : {"none", "armed", "notified"},
              alive : BOOLEAN]

TypeOK ==
    /\ device \in [Requests -> {"new", "open", "withdrawn", "settled"}]
    /\ wire \in Seq([cmd : {"OPEN", "CLSE"}, on : Requests])
    /\ slot \in [Requests -> {"none", "Open", "Closed"}]
    /\ queue \in Seq(Requests)
    /\ incoming \in [Requests -> Incomings] /\ reader \in Readers /\ listener \in Listeners
    /\ wh \in Requests \cup {"free", "other"}
    /\ answers \in [Requests -> Seq({"READY", "CLSE"})]
    /\ withdrawn \subseteq Requests
    /\ desync \in BOOLEAN /\ stopped \in BOOLEAN /\ gone \in BOOLEAN

has_ended == desync \/ stopped

(* incoming_signal.notify(usize::MAX).                                     *)
notified == IF listener.signal = "armed" THEN [listener EXCEPT !.signal = "notified"]
                                         ELSE listener

Init ==
    /\ device = [r \in Requests |-> "new"] /\ wire = <<>>
    /\ slot = [r \in Requests |-> "none"] /\ queue = <<>>
    /\ incoming = [r \in Requests |-> NoIncoming]
    /\ scenario \in Scenarios
    /\ LET mode == scenario.mode IN
         /\ reader = [pc |-> IF mode = "run" THEN "top" ELSE "idle", on |-> "nobody",
                      call |-> IF mode = "run" THEN "run" ELSE "none", then |-> "none"]
         /\ listener = [pc |-> "idle", signal |-> "none", alive |-> mode = "run"]
    /\ wh = "free" /\ answers = [r \in Requests |-> <<>>] /\ withdrawn = {}
    /\ desync = FALSE /\ stopped = FALSE /\ gone = FALSE

-----------------------------------------------------------------------------
(* The device (external).                                                  *)

DeviceOpens(r) ==
    /\ r \in scenario.opens /\ device[r] = "new" /\ ~gone /\ Len(wire) < MaxWire
    /\ device' = [device EXCEPT ![r] = "open"]
    /\ wire' = Append(wire, [cmd |-> "OPEN", on |-> r])
    /\ UNCHANGED <<scenario, slot, queue, incoming, reader, listener, wh, answers, withdrawn, desync,
                   stopped, gone>>

(* A CLSE for its own OPEN, with no id of ours in it.                      *)
DeviceWithdraws(r) ==
    /\ "withdraw" \in scenario.faults /\ device[r] = "open" /\ ~gone /\ Len(wire) < MaxWire
    /\ device' = [device EXCEPT ![r] = "withdrawn"]
    /\ wire' = Append(wire, [cmd |-> "CLSE", on |-> r])
    /\ UNCHANGED <<scenario, slot, queue, incoming, reader, listener, wh, answers, withdrawn, desync,
                   stopped, gone>>

DeviceSettles(r) ==
    /\ device[r] = "open" /\ answers[r] # <<>>
    /\ device' = [device EXCEPT ![r] = "settled"]
    /\ UNCHANGED <<scenario, wire, slot, queue, incoming, reader, listener, wh, answers, withdrawn,
                   desync, stopped, gone>>

TransportFails ==
    /\ "gone" \in scenario.faults /\ ~gone
    /\ gone' = TRUE
    /\ UNCHANGED <<scenario, device, wire, slot, queue, incoming, reader, listener, wh, answers,
                   withdrawn, desync, stopped>>

-----------------------------------------------------------------------------
(* The Reader.  accept_incoming starts at the top of its loop; dispatch_one *)
(* and read_channel drain the overflow first; run refuses what nobody      *)
(* listens for before each packet.                                         *)

StartCall ==
    /\ reader.pc = "idle"
    /\ \E call \in IF has_ended THEN {"read"} ELSE {"accept", "dispatch", "read"} :
         reader' = [reader EXCEPT !.call = call, !.pc = IF call = "accept" THEN "top" ELSE "drain"]
    /\ UNCHANGED <<scenario, device, wire, slot, queue, incoming, listener, wh, answers, withdrawn,
                   desync, stopped, gone>>

(* Where a call goes when a packet is dealt with, and when it fails.       *)
AfterPacket ==
    CASE reader.call = "dispatch" -> {"idle"}
      [] reader.call = "read" -> {"recv", "idle"}
      [] OTHER -> {"top"}

Returned(pc) == [pc |-> pc, call |-> IF pc = "idle" THEN "none" ELSE reader.call,
                 on |-> "nobody", then |-> "none"]

(* An error ends the call.  The end of run drops the Reader: Shared::stop. *)
Failed == IF reader.call = "run" THEN [Returned("idle") EXCEPT !.pc = "done"] ELSE Returned("idle")

Takes(r, owner) ==
    /\ r = Head(queue)
    /\ queue' = Tail(queue)
    /\ incoming' = [incoming EXCEPT ![r] = IF owner = "reader" THEN Refusal ELSE Hold(owner)]

(* The head of the loop of accept_incoming and of run.                     *)
Top ==
    /\ reader.pc = "top"
    /\ IF reader.call = "accept" /\ queue # <<>>
       THEN (\E r \in Requests : Takes(r, "app")) /\ reader' = Returned("idle")
       ELSE /\ reader' = [reader EXCEPT !.pc = IF reader.call = "run" /\ ~listener.alive
                                              THEN "sweep" ELSE "recv"]
            /\ UNCHANGED <<queue, incoming>>
    /\ UNCHANGED <<scenario, device, wire, slot, listener, wh, answers, withdrawn, desync, stopped, gone>>

(* A request is taken to be refused, and the loop resumes at `then`.       *)
RefuseNext(then) ==
    \E r \in Requests :
        /\ Takes(r, "reader")
        /\ reader' = [reader EXCEPT !.pc = "refuse", !.on = r, !.then = then]

(* run with no listener: all that is queued is refused.                    *)
Sweep ==
    /\ reader.pc = "sweep"
    /\ IF queue # <<>> THEN RefuseNext("sweep")
       ELSE reader' = [reader EXCEPT !.pc = "recv"] /\ UNCHANGED <<queue, incoming>>
    /\ UNCHANGED <<scenario, device, wire, slot, listener, wh, answers, withdrawn, desync, stopped, gone>>

TryAccept ==
    /\ reader.pc = "idle"
    /\ queue # <<>> /\ \E r \in Requests : Takes(r, "app")
    /\ UNCHANGED <<scenario, device, wire, slot, reader, listener, wh, answers, withdrawn, desync,
                   stopped, gone>>

(* drain_overflow: take_incoming_past(cap), refused one by one.            *)
Drain ==
    /\ reader.pc = "drain"
    /\ IF queue # <<>> /\ pending_opens > MaxChannels
       THEN RefuseNext("drain")
       ELSE reader' = [reader EXCEPT !.pc = "recv"] /\ UNCHANGED <<queue, incoming>>
    /\ UNCHANGED <<scenario, device, wire, slot, listener, wh, answers, withdrawn, desync, stopped, gone>>

(* queue_or_refuse.  The refused request is staged under a lock taken anew; *)
(* until then it is in nobody else's reach, so the two are one step.      *)
ReceiveOpen ==
    /\ reader.pc = "recv" /\ ~has_ended /\ wire # <<>> /\ Head(wire).cmd = "OPEN"
    /\ LET r == Head(wire).on
       IN IF pending_opens >= MaxChannels
          THEN /\ incoming' = [incoming EXCEPT ![r] = Refusal]
               /\ reader' = [reader EXCEPT !.pc = "refuse", !.on = r, !.then = "after"]
               /\ UNCHANGED queue
          ELSE /\ queue' = Append(queue, r)
               /\ reader' = [reader EXCEPT !.pc = "notify"]
               /\ UNCHANGED incoming
    /\ wire' = Tail(wire)
    /\ UNCHANGED <<scenario, device, slot, listener, wh, answers, withdrawn, desync, stopped, gone>>

(* Faulty form: nobody is told of the queued request.                      *)
ReaderNotifiesNobody ==
    /\ reader.pc = "notify"
    /\ \E pc \in AfterPacket : reader' = Returned(pc)
    /\ UNCHANGED <<scenario, device, wire, slot, queue, incoming, listener, wh, answers, withdrawn,
                   desync, stopped, gone>>

ReaderNotifies ==
    /\ reader.pc = "notify"
    /\ listener' = notified
    /\ \E pc \in AfterPacket : reader' = Returned(pc)
    /\ UNCHANGED <<scenario, device, wire, slot, queue, incoming, wh, answers, withdrawn, desync,
                   stopped, gone>>

(* ChannelTable::dispatch of the withdrawal: a slot taken for the request  *)
(* is closed; else the request is looked for.                              *)
ReceiveWithdrawal ==
    /\ reader.pc = "recv" /\ ~has_ended /\ wire # <<>> /\ Head(wire).cmd = "CLSE"
    /\ LET r == Head(wire).on
       IN /\ withdrawn' = withdrawn \cup {r}
          /\ IF slot[r] # "none"
             THEN /\ slot' = [slot EXCEPT ![r] = "Closed"]
                  /\ \E pc \in AfterPacket : reader' = Returned(pc)
             ELSE reader' = [reader EXCEPT !.pc = "withdraw", !.on = r] /\ UNCHANGED slot
    /\ wire' = Tail(wire)
    /\ UNCHANGED <<scenario, device, queue, incoming, listener, wh, answers, desync, stopped, gone>>

(* withdraw_open, under the locks of table, staged and queue.              *)
WithdrawOpen ==
    /\ reader.pc = "withdraw"
    /\ LET r == reader.on
       IN IF slot[r] # "none"
          THEN slot' = [slot EXCEPT ![r] = "Closed"] /\ UNCHANGED <<queue, incoming>>
          ELSE /\ queue' = withdraw(queue, r)
               /\ incoming' = IF r \in Staged THEN [incoming EXCEPT ![r].cancelled = TRUE]
                                              ELSE incoming
               /\ UNCHANGED slot
    /\ \E pc \in AfterPacket : reader' = Returned(pc)
    /\ UNCHANGED <<scenario, device, wire, listener, wh, answers, withdrawn, desync, stopped, gone>>

(* The reception fails, or the caller drops the call; a refusal under way  *)
(* is dropped before the Reader is.                                        *)
ReaderEnds ==
    /\ \/ reader.pc = "recv" /\ (has_ended \/ (gone /\ wire = <<>>))
       \/ "dropCall" \in scenario.faults /\ reader.pc = "recv"
    /\ reader' = Failed
    /\ stopped' = (stopped \/ reader.call = "run" \/ (gone /\ wire = <<>>))
    /\ listener' = IF stopped' THEN notified ELSE listener
    /\ UNCHANGED <<scenario, device, wire, slot, queue, incoming, wh, answers, withdrawn, desync, gone>>

DropRefusal ==
    /\ "dropCall" \in scenario.faults /\ reader.pc = "refuse"
    /\ LET r == reader.on
       IN /\ incoming[r].pc \in {"lock", "send"}
          /\ incoming' = [incoming EXCEPT ![r].pc = "unstage", ![r].failed = TRUE]
          /\ desync' = (desync \/ incoming[r].pc = "send")
          /\ wh' = IF wh = r THEN "free" ELSE wh
    /\ listener' = IF desync' THEN notified ELSE listener
    /\ UNCHANGED <<scenario, device, wire, slot, queue, reader, answers, withdrawn, stopped, gone>>

-----------------------------------------------------------------------------
(* IncomingListener::accept.                                               *)

ListenerAccepts ==
    /\ listener.alive /\ listener.pc = "idle"
    /\ listener' = [listener EXCEPT !.pc = "look"]
    /\ UNCHANGED <<scenario, device, wire, slot, queue, incoming, reader, wh, answers, withdrawn,
                   desync, stopped, gone>>

ListenerLooks ==
    /\ listener.pc = "look"
    /\ IF ~desync /\ queue # <<>>
       THEN /\ \E r \in Requests : Takes(r, "app")
            /\ listener' = [listener EXCEPT !.pc = "idle", !.signal = "none"]
       ELSE /\ listener' = IF has_ended THEN [listener EXCEPT !.pc = "idle", !.signal = "none"]
                           ELSE IF listener.signal = "none" THEN [listener EXCEPT !.signal = "armed"]
                           ELSE [listener EXCEPT !.pc = "parked"]
            /\ UNCHANGED <<queue, incoming>>
    /\ UNCHANGED <<scenario, device, wire, slot, reader, wh, answers, withdrawn, desync, stopped, gone>>

ListenerWakes ==
    /\ listener.pc = "parked" /\ listener.signal = "notified"
    /\ listener' = [listener EXCEPT !.pc = "look", !.signal = "none"]
    /\ UNCHANGED <<scenario, device, wire, slot, queue, incoming, reader, wh, answers, withdrawn,
                   desync, stopped, gone>>

(* Writer::listen_incoming and the drop of the listener.                   *)
ListenIncoming ==
    /\ "drop" \in scenario.faults /\ ~listener.alive
    /\ listener' = [listener EXCEPT !.alive = TRUE]
    /\ UNCHANGED <<scenario, device, wire, slot, queue, incoming, reader, wh, answers, withdrawn,
                   desync, stopped, gone>>

DropListener ==
    /\ "drop" \in scenario.faults /\ listener.alive /\ listener.pc \in {"idle", "parked"}
    /\ listener' = [pc |-> "idle", signal |-> "none", alive |-> FALSE]
    /\ UNCHANGED <<scenario, device, wire, slot, queue, incoming, reader, wh, answers, withdrawn,
                   desync, stopped, gone>>

-----------------------------------------------------------------------------
(* The SplitIncoming.                                                      *)

FreeSlot == Cardinality({r \in Requests : slot[r] # "none"}) < MaxChannels

(* accept, up to the write half: a withdrawn request is consumed; with no  *)
(* slot left it is refused; else a slot is reserved.                       *)
Accept(r) ==
    /\ incoming[r].pc = "held" /\ incoming[r].owner = "app"
    /\ IF incoming[r].cancelled
       THEN /\ incoming' = [incoming EXCEPT ![r].pc = "unstage", ![r].pending = FALSE]
            /\ UNCHANGED slot
       ELSE IF FreeSlot
       THEN /\ slot' = [slot EXCEPT ![r] = "Open"]
            /\ incoming' = [incoming EXCEPT ![r].pc = "lock", ![r].verdict = "READY",
                                            ![r].reserved = TRUE]
       ELSE /\ incoming' = [incoming EXCEPT ![r].pc = "lock", ![r].verdict = "CLSE"]
            /\ UNCHANGED slot
    /\ UNCHANGED <<scenario, device, wire, queue, reader, listener, wh, answers, withdrawn, desync,
                   stopped, gone>>

Reject(r) ==
    /\ incoming[r].pc = "held" /\ incoming[r].owner = "app"
    /\ incoming' = IF incoming[r].cancelled
                   THEN [incoming EXCEPT ![r].pc = "unstage", ![r].pending = FALSE]
                   ELSE [incoming EXCEPT ![r].pc = "lock", ![r].verdict = "CLSE"]
    /\ UNCHANGED <<scenario, device, wire, slot, queue, reader, listener, wh, answers, withdrawn,
                   desync, stopped, gone>>

(* answer: lock_write_half pays no debts.                                  *)
AnswerLocks(r) ==
    /\ incoming[r].pc = "lock" /\ wh = "free"
    /\ wh' = r
    /\ incoming' = [incoming EXCEPT ![r].pc = "send"]
    /\ UNCHANGED <<scenario, device, wire, slot, queue, reader, listener, answers, withdrawn, desync,
                   stopped, gone>>

(* Faulty form: the undecided request is consumed.                         *)
DroppingForgets(inc) ==
    [inc EXCEPT !.pc = IF inc.reserved THEN "free" ELSE "unstage", !.pending = FALSE]

(* The object is dropped as its call ends: first the slot, if it still     *)
(* holds one, then the entry in `staged`.                                  *)
Dropping(inc) == [inc EXCEPT !.pc = IF inc.reserved THEN "free" ELSE "unstage"]

Answer(r) ==
    /\ incoming[r].pc = "send"
    /\ wh' = "free"
    /\ \/ /\ ~desync /\ ~gone
          /\ answers' = [answers EXCEPT ![r] = Append(@, incoming[r].verdict)]
          /\ incoming' = [incoming EXCEPT ![r] = Dropping([@ EXCEPT !.pending = FALSE, !.reserved = FALSE])]
          /\ UNCHANGED <<desync, listener>>
       \/ /\ ~desync /\ gone
          /\ incoming' = [incoming EXCEPT ![r] = Dropping([@ EXCEPT !.pending = FALSE])]
          /\ UNCHANGED <<answers, desync, listener>>
       \/ /\ desync \/ "writeError" \in scenario.faults
          /\ desync' = TRUE /\ listener' = notified
          /\ incoming' = [incoming EXCEPT ![r] = Dropping([@ EXCEPT !.failed = TRUE])]
          /\ UNCHANGED answers
    /\ UNCHANGED <<scenario, device, wire, slot, queue, reader, withdrawn, stopped, gone>>

(* The application drops the request undecided, or its accept or reject.   *)
DropIncoming(r) ==
    /\ "drop" \in scenario.faults /\ incoming[r].owner = "app" /\ incoming[r].pc \in {"held", "lock", "send"}
    /\ incoming' = [incoming EXCEPT ![r] = Dropping(@)]
    /\ desync' = (desync \/ incoming[r].pc = "send")
    /\ listener' = IF incoming[r].pc = "send" THEN notified ELSE listener
    /\ wh' = IF wh = r THEN "free" ELSE wh
    /\ UNCHANGED <<scenario, device, wire, slot, queue, reader, answers, withdrawn, stopped, gone>>

DropFrees(r) ==
    /\ incoming[r].pc = "free"
    /\ slot' = [slot EXCEPT ![r] = "none"]
    /\ incoming' = [incoming EXCEPT ![r].pc = "unstage", ![r].reserved = FALSE]
    /\ UNCHANGED <<scenario, device, wire, queue, reader, listener, wh, answers, withdrawn, desync,
                   stopped, gone>>

(* Drop, under the locks of staged and queue: an undecided request goes    *)
(* back to the head of the queue unless it was withdrawn.  The reader's    *)
(* own refusal lets its call go on, or fail.                               *)
DropUnstages(r) ==
    /\ incoming[r].pc = "unstage"
    /\ incoming' = [incoming EXCEPT ![r] = NoIncoming]
    /\ LET back == incoming[r].pending /\ ~incoming[r].cancelled
           ends == incoming[r].owner = "reader" /\ incoming[r].failed
       IN /\ queue' = IF back THEN <<r>> \o queue ELSE queue
          /\ stopped' = (stopped \/ (ends /\ reader.call = "run"))
          /\ listener' = IF back \/ stopped' THEN notified ELSE listener
          /\ CASE ends -> reader' = Failed
               [] incoming[r].owner = "reader" /\ ~ends ->
                    \E pc \in IF reader.then = "after" THEN AfterPacket ELSE {reader.then} :
                        reader' = Returned(pc)
               [] OTHER -> UNCHANGED reader
    /\ UNCHANGED <<scenario, device, wire, slot, wh, answers, withdrawn, desync, gone>>

(* The application is done with a channel it accepted.                     *)
CloseChannel(r) ==
    /\ slot[r] # "none" /\ incoming[r].pc = "none" /\ ~desync
    /\ slot' = [slot EXCEPT ![r] = "none"]
    /\ UNCHANGED <<scenario, device, wire, queue, incoming, reader, listener, wh, answers, withdrawn,
                   desync, stopped, gone>>

(* Somebody else writes.                                                   *)
OtherLocks ==
    /\ "stall" \in scenario.faults /\ wh = "free"
    /\ wh' = "other"
    /\ UNCHANGED <<scenario, device, wire, slot, queue, incoming, reader, listener, answers, withdrawn,
                   desync, stopped, gone>>

OtherUnlocks ==
    /\ wh = "other"
    /\ wh' = "free"
    /\ UNCHANGED <<scenario, device, wire, slot, queue, incoming, reader, listener, answers, withdrawn,
                   desync, stopped, gone>>

-----------------------------------------------------------------------------

ReaderNext == StartCall \/ Top \/ Sweep \/ TryAccept \/ Drain \/ ReceiveOpen \/ ReaderNotifies
              \/ ReceiveWithdrawal \/ WithdrawOpen \/ ReaderEnds \/ DropRefusal

ListenerNext == ListenerAccepts \/ ListenerLooks \/ ListenerWakes \/ ListenIncoming
                \/ DropListener

RequestNext(r) ==
    \/ DeviceOpens(r) \/ DeviceWithdraws(r) \/ DeviceSettles(r)
    \/ Accept(r) \/ Reject(r) \/ AnswerLocks(r) \/ Answer(r) \/ DropIncoming(r)
    \/ DropFrees(r) \/ DropUnstages(r) \/ CloseChannel(r)

Next == TransportFails \/ ReaderNext \/ ListenerNext \/ OtherLocks \/ OtherUnlocks
        \/ \E r \in Requests : RequestNext(r)

Spec == Init /\ [][Next]_openVars

(* The packets of the device are received while reception lasts, a call    *)
(* that can go on goes on, the write half is handed round, and the         *)
(* application does decide each request it is given.                       *)
Decide(r) == Accept(r) \/ Reject(r)

Fairness ==
    /\ WF_openVars(Top) /\ WF_openVars(Sweep) /\ WF_openVars(ReceiveOpen)
    /\ WF_openVars(ReaderNotifies) /\ WF_openVars(ReceiveWithdrawal) /\ WF_openVars(WithdrawOpen)
    /\ WF_openVars(ListenerAccepts) /\ WF_openVars(ListenerLooks) /\ WF_openVars(ListenerWakes)
    /\ WF_openVars(OtherUnlocks)
    /\ \A r \in Requests :
         /\ WF_openVars(Decide(r)) /\ SF_openVars(AnswerLocks(r)) /\ WF_openVars(Answer(r))
         /\ WF_openVars(DropFrees(r)) /\ WF_openVars(DropUnstages(r))

FairSpec == Spec /\ Fairness

-----------------------------------------------------------------------------
(* What must hold.                                                         *)

(* The device gets at most one verdict for a request: a READY or a CLSE,   *)
(* never both, whatever is dropped, fails or is handed back.               *)
AtMostOneAnswer == \A r \in Requests : Len(answers[r]) <= 1

Arrived(r) == device[r] # "new" /\ ~\E i \in 1..Len(wire) : wire[i] = [cmd |-> "OPEN", on |-> r]

Places(r) == Cardinality({i \in 1..Len(queue) : queue[i] = r})
             + (IF r \in Staged /\ incoming[r].pending THEN 1 ELSE 0)

(* A request that arrived and was neither answered nor withdrawn is in the *)
(* queue or in one SplitIncoming, once: no drop, cancelled refusal or      *)
(* failed answer loses or duplicates it while the device is there.         *)
NoRequestLost ==
    \A r \in Requests :
        Arrived(r) /\ answers[r] = <<>> /\ r \notin withdrawn /\ ~gone => Places(r) = 1

(* A slot is held by an accept under way or by a channel the device was    *)
(* told of: SplitIncoming::drop gives back what accept reserved.           *)
NoSlotLeak ==
    \A r \in Requests : slot[r] # "none" => incoming[r].reserved \/ answers[r] = <<"READY">>

(* Requests waiting for a verdict, the one being refused on arrival        *)
(* included, number at most max_channels plus one (config.rs:164-166).     *)
PendingBounded == Cardinality(Staged) + Len(queue) <= MaxChannels + 1

(* A withdrawn request does not come back to the queue (accept.rs:48-50).  *)
WithdrawnStaysGone ==
    \A r \in withdrawn :
        ~(reader.pc = "withdraw" /\ reader.on = r) => ~\E i \in 1..Len(queue) : queue[i] = r

(* A listener asleep has been or is being told of what there is to take,   *)
(* and of the end of the connection.                                       *)
NoLostIncoming ==
    listener.pc = "parked" /\ listener.signal = "armed" /\ (queue # <<>> \/ has_ended) =>
        reader.pc = "notify"

(* Every OPEN has one fate: at most one verdict, one place while it waits  *)
(* for it, and no slot it does not use.                                    *)
OneVerdict == TypeOK /\ AtMostOneAnswer /\ NoRequestLost /\ NoSlotLeak

(* Where no request and no call is dropped.                                *)
NothingDropped == scenario.mode = "run" /\ scenario.faults \subseteq {"withdraw"}

(* While nothing is dropped the pending OPENs stay within their bound and  *)
(* a withdrawn one does not come back (queue_or_refuse, withdraw_open).    *)
PendingExact == NothingDropped => PendingBounded /\ WithdrawnStaysGone

(* With run driving the connection and a listener whose requests are all   *)
(* decided, every OPEN is answered unless the device withdraws it or the   *)
(* connection ends: again and again, nothing is left to answer.            *)
EveryOpenAnswered ==
    []<>(~NothingDropped \/ gone \/ has_ended \/ \A r \in Requests :
            device[r] = "open" => answers[r] # <<>> \/ r \in withdrawn)
=============================================================================
