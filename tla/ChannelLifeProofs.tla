-------------------------- MODULE ChannelLifeProofs --------------------------
(***************************************************************************)
(* Proofs about the life of the channels the host opens, for any number of *)
(* calls, any table, every way to drive the Reader and all faults at once. *)
(***************************************************************************)
EXTENDS ChannelLife, SequenceLemmas

(* There are ids enough that none is given out twice.                      *)
IdsSuffice == IsFiniteSet(Calls) /\ Cardinality(Calls) <= IdSpace

-----------------------------------------------------------------------------
(* The invariant.                                                          *)

Early == {"lock", "pay", "send"}

(* The Reader's own open: its call has the OPEN still to send, with the    *)
(* Reader waiting, or waits for the Reader to read the answer.             *)
OnInv ==
    /\ reader.on \in Calls => reader.does = "open" /\ call[reader.on].pc \in Early \cup {"reading"}
    /\ reader.does = "open" => reader.on \in Calls /\ reader.pc # "idle"
    /\ reader.on \in Calls /\ call[reader.on].pc \in Early => reader.pc = "busy"
    /\ \A c \in Calls : call[c].pc = "reading" => reader.on = c

Started == {c \in Calls : call[c].pc # "new"}

(* The local id of a call, as long as the host or the device knows it.     *)
Owns(c, l) == l # 0 /\ l \in {call[c].local, device[c].local}

(* Ids are given out in order, and to one call each.                       *)
IdInv ==
    /\ \A c, d \in Calls : \A l \in 1 .. IdSpace : Owns(c, l) /\ Owns(d, l) => c = d
    /\ \A c \in Calls : device[c].local # 0 => call[c].local \in {0, device[c].local}
    /\ Started # Calls =>
         /\ Cardinality(Started) + 1 = next_local_id
         /\ \A c \in Calls : \A l \in 1 .. IdSpace : Owns(c, l) => l < next_local_id

(* What a call and the device's end of it know of each other.              *)
CallIds(c) ==
    /\ device[c].state = "none" <=> device[c].local = 0
    /\ call[c].pc \in {"new"} \cup Early => device[c].state = "none"
    /\ call[c].pc = "new" => call[c].local = 0
    /\ Holds(c) \/ call[c].pc = "closeOwe" => call[c].local # 0
    /\ call[c].pc = "closeOwe" => device[c].state # "none"

NamesPeer(p) == p.remote \in Calls /\ p.local = device[p.remote].local

(* The Reader has something to say about a channel.                        *)
ReaderHas == reader.pc \in {"fail", "wake", "owe"}

(* Every packet, debt and note of the Reader has the ids of one channel.   *)
NoteInv ==
    /\ reader.pc \in {"fail", "owe"} => reader.remote # 0
    /\ reader.pc \in {"idle", "busy", "recv", "read"} => reader.remote = 0 /\ ~reader.owes
    /\ reader.pc = "wake" => (reader.owes <=> reader.remote # 0)
    /\ ReaderHas /\ reader.remote # 0 => reader.local # 0 /\ NamesPeer(reader)
    /\ reader.pc = "fail" => reader.idx # 0
PacketIds == NoteInv /\ \A p \in Items(in) \cup Items(owed) : NamesPeer(p)

(* Slots and holders belong to each other.                                 *)
SlotOf(c) == table[call[c].slot]
HolderOf(c, i) == Holds(c) /\ call[c].slot = i /\ call[c].local = table[i].local
Held(c) ==
    Holds(c) =>
        /\ call[c].slot \in Positions /\ SlotOf(c).local = call[c].local
        /\ SlotOf(c).remote \in {0, c}
        /\ SlotOf(c).remote = c => device[c].state # "none"
        /\ call[c].pc = "open" \/ SlotOf(c).state = "Open" => SlotOf(c).remote = c
SlotInv ==
    /\ \A i \in Positions : table[i] = NoSlot \/ \E c \in Calls : HolderOf(c, i)
    /\ \A c \in Calls : Held(c)

Owing(c) ==
    \/ \E p \in Items(owed) : p.remote = c
    \/ reader.remote = c /\ reader.pc \in {"wake", "owe"}

Sent(cmd, c) == \E p \in Items(in) : p.cmd = cmd /\ p.remote = c
Broken(c) == Holds(c) /\ SlotOf(c).failed
Known(c) == Holds(c) /\ SlotOf(c).remote = c
Coming(c) == Sent("READY", c) \/ (reader.pc = "fail" /\ reader.remote = c)

(* A CLSE is owed only for a channel let go of or failed; the device has   *)
(* sent nothing before it answers, and its CLSE is its last word; and an   *)
(* end the device has open is held, or its CLSE is owed, or the Reader     *)
(* will see its READY.                                                     *)
EndInv(c) ==
    /\ Holds(c) /\ ~Broken(c) => ~Owing(c) /\ device[c].state # "hostClosed"
    /\ reader.pc = "fail" /\ reader.remote = c /\ Holds(c) => call[c].slot = reader.idx
    /\ device[c].state \in {"none", "asked"} => ~Broken(c) /\ ~Coming(c)
    /\ device[c].state \in {"none", "asked", "open"} =>
         /\ ~Sent("CLSE", c)
         /\ Holds(c) /\ SlotOf(c).state = "Closed" => Broken(c)
    /\ ~Over /\ device[c].state = "open" =>
         Owing(c) \/ (~Broken(c) /\ (Known(c) \/ Coming(c))) \/ call[c].pc = "closeOwe"

LifeInv ==
    /\ TypeOK /\ OnInv /\ IdInv /\ PacketIds /\ SlotInv
    /\ \A c \in Calls : CallIds(c) /\ EndInv(c)

-----------------------------------------------------------------------------
(* What follows from it.                                                   *)

(* The value of an empty slot.                                             *)
LEMMA NoSlotFacts == NoSlot \in Slots /\ NoSlot.local = 0 /\ NoSlot.remote = 0 /\ NoSlot.state = "Opening"
                     /\ ~NoSlot.failed
  BY DEF NoSlot, opening, Slots, NoRemote

(* The Reader's records, and the parts of them a step leaves alone.        *)
SameNote(r, s) == /\ r.remote = s.remote /\ r.local = s.local /\ r.idx = s.idx /\ r.owes = s.owes
                  /\ r.fails = s.fails
SameUse(r, s) == r.does = s.does /\ r.on = s.on
ReaderPcs == {"idle", "busy", "recv", "read", "fail", "wake", "owe", "lock", "pay", "over",
              "stop", "stopped", "done"}

(* The Reader goes to p and nothing else of it changes.                    *)
LEMMA ReaderMoves ==
    ASSUME NEW r \in ReaderStates, NEW p \in ReaderPcs
    PROVE  /\ [r EXCEPT !.pc = p] \in ReaderStates /\ [r EXCEPT !.pc = p].pc = p
           /\ SameNote([r EXCEPT !.pc = p], r) /\ SameUse([r EXCEPT !.pc = p], r)
  BY DEF ReaderStates, ReaderPcs, SameNote, SameUse

(* A Reader nobody uses.                                                   *)
LEMMA IdleFacts ==
    /\ IdleReader \in ReaderStates /\ IdleReader.pc = "idle" /\ IdleReader.does = "none"
    /\ IdleReader.on = 0 /\ IdleReader.remote = 0 /\ ~IdleReader.owes
  <1>1. 0 \in 0 .. MaxChannels /\ 0 \in 0 .. IdSpace
    BY ChannelLifeAssumption
  <1> QED BY <1>1 DEF IdleReader, ReaderStates

(* A Reader that starts something, or goes on with it.                     *)
Running(p, d) == [IdleReader EXCEPT !.pc = p, !.does = d]
Using(p, d, o) == [IdleReader EXCEPT !.pc = p, !.does = d, !.on = o]

(* Such a Reader has nothing to say and nothing on its mind.               *)
LEMMA ReaderStarts ==
    ASSUME NEW p \in ReaderPcs, NEW d \in {"none", "run", "dispatch", "open"}, NEW o \in Calls \cup {0}
    PROVE  /\ Using(p, d, o) \in ReaderStates /\ Using(p, d, o).pc = p /\ Using(p, d, o).does = d
           /\ Using(p, d, o).on = o /\ Using(p, d, o).remote = 0 /\ ~Using(p, d, o).owes
           /\ Running(p, d) \in ReaderStates /\ Running(p, d).pc = p /\ Running(p, d).does = d
           /\ Running(p, d).on = 0 /\ Running(p, d).remote = 0 /\ ~Running(p, d).owes
  <1>1. PICK i : i = IdleReader
    OBVIOUS
  <1>2. i \in ReaderStates /\ i.on = 0 /\ i.remote = 0 /\ ~i.owes
    BY <1>1, IdleFacts
  <1>3. Using(p, d, o) = [i EXCEPT !.pc = p, !.does = d, !.on = o]
        /\ Running(p, d) = [i EXCEPT !.pc = p, !.does = d]
    BY <1>1 DEF Using, Running
  <1>4. /\ Using(p, d, o) \in ReaderStates /\ Using(p, d, o).pc = p /\ Using(p, d, o).does = d
        /\ Using(p, d, o).on = o /\ Using(p, d, o).remote = 0 /\ ~Using(p, d, o).owes
    BY <1>2, <1>3 DEF ReaderStates, ReaderPcs
  <1>5. /\ Running(p, d) \in ReaderStates /\ Running(p, d).pc = p /\ Running(p, d).does = d
        /\ Running(p, d).on = 0 /\ Running(p, d).remote = 0 /\ ~Running(p, d).owes
    BY <1>2, <1>3 DEF ReaderStates, ReaderPcs
  <1> QED BY <1>4, <1>5

(* The types of what is read most.                                         *)
LEMMA Typed ==
    ASSUME TypeOK
    PROVE  /\ \A c \in Calls : /\ call[c] \in CallStates /\ call[c].local \in 0 .. IdSpace
                               /\ call[c].slot \in 0 .. MaxChannels
                               /\ device[c] \in DeviceEnds /\ device[c].local \in 0 .. IdSpace
           /\ \A i \in Positions : table[i] \in Slots
           /\ 0 \notin Calls /\ IdSpace \in Nat /\ MaxChannels \in Nat
  BY ChannelLifeAssumption DEF TypeOK, CallStates, DeviceEnds

(* A slot with a local id belongs to the call that has the id.             *)
LEMMA SlotIsOurs ==
    ASSUME LifeInv, NEW c \in Calls, NEW i \in Positions, table[i] # NoSlot,
           Owns(c, table[i].local)
    PROVE  Holds(c) /\ call[c].slot = i /\ call[c].local = table[i].local
  <1>1. PICK d \in Calls : HolderOf(d, i)
    BY DEF LifeInv, SlotInv
  <1>2. table[i].local \in 1 .. IdSpace
    BY <1>1, Typed DEF LifeInv, HolderOf, Owns
  <1>3. Owns(d, table[i].local)
    BY <1>1, <1>2 DEF HolderOf, Owns
  <1>4. c = d
    BY <1>2, <1>3 DEF LifeInv, IdInv
  <1> QED BY <1>1, <1>4 DEF HolderOf

(* The invariant implies what the runs check.                              *)
LEMMA LifeMeans == LifeInv => SlotsExact /\ IdsExact
  <1> SUFFICES ASSUME LifeInv PROVE SlotsExact /\ IdsExact
    OBVIOUS
  <1>0. TypeOK /\ SlotInv /\ \A c \in Calls : CallIds(c) /\ EndInv(c) /\ Held(c)
    BY DEF LifeInv, SlotInv
  <1>1. ASSUME NEW c \in Calls, Holds(c)
        PROVE  get(call[c]) = SlotOf(c) /\ is_some(get(call[c]))
    <2>1. SlotOf(c).local = call[c].local /\ call[c].local # 0 /\ call[c].slot \in Positions
      BY <1>0, <1>1 DEF Held, CallIds
    <2> QED BY <2>1, NoSlotFacts DEF get, is_some, SlotOf
  <1>2. NoSlotLeaked
    BY <1>0, <1>1 DEF NoSlotLeaked, SlotInv, HolderOf, is_some
  <1>3. ForgottenIsTracked
    <2> SUFFICES ASSUME NEW c \in Calls, Forgotten(c), ~Over PROVE CloseIsComing(c)
      BY DEF ForgottenIsTracked
    <2>1. ~Holds(c) /\ call[c].pc # "closeOwe" /\ device[c].state = "open"
      BY DEF Forgotten, Holds, OpenPcs
    <2>2. Owing(c) \/ Coming(c)
      BY <1>0, <2>1 DEF EndInv, Known
    <2> QED BY <2>2 DEF Owing, Coming, CloseIsComing, Sent, Items
  <1>4. ReadyMeetsItsOpen
    <2> SUFFICES ASSUME NEW c \in Calls, call[c].pc = "open" PROVE get(call[c]).remote = c
      BY DEF ReadyMeetsItsOpen
    <2>1. Holds(c)
      BY DEF Holds
    <2> QED BY <1>0, <1>1, <2>1 DEF Held
  <1>5. NoLiveChannelClosed
    <2> SUFFICES ASSUME NEW c \in Calls, Holds(c), ~get(call[c]).failed
                 PROVE  (\A k \in DOMAIN owed : owed[k].remote # c) /\ device[c].state # "hostClosed"
      BY DEF NoLiveChannelClosed
    <2>1. ~Broken(c)
      BY <1>1 DEF Broken
    <2> QED BY <1>0, <2>1 DEF EndInv, Owing, Items
  <1> QED BY <1>0, <1>2, <1>3, <1>4, <1>5 DEF SlotsExact, IdsExact

(* It holds at first.                                                      *)
LEMMA LifeInit == Init => LifeInv
  <1> SUFFICES ASSUME Init PROVE LifeInv
    OBVIOUS
  <1>0. /\ call = [c \in Calls |-> NewCall] /\ owed = <<>> /\ in = <<>>
        /\ device = [c \in Calls |-> [state |-> "none", local |-> 0, readies |-> 0]]
        /\ table = [i \in Positions |-> NoSlot] /\ next_local_id = 1
        /\ 0 \notin Calls /\ IdSpace \in Nat \ {0} /\ MaxChannels \in Nat
    BY ChannelLifeAssumption DEF Init
  <1>1. NewCall \in CallStates /\ NewCall.pc = "new" /\ NewCall.local = 0
    BY <1>0 DEF NewCall, CallStates
  <1>2. reader \in ReaderStates /\ reader.on = 0 /\ reader.does # "open" /\ reader.remote = 0
        /\ ~reader.owes /\ reader.pc \in {"idle", "recv"}
    <2>1. CASE scenario.driver = "run"
      <3>1. reader = Running("recv", "run") /\ "recv" \in ReaderPcs
        BY <2>1 DEF Init, Running, ReaderPcs
      <3> QED BY <3>1, ReaderStarts
    <2>2. CASE scenario.driver # "run"
      BY <2>2, IdleFacts DEF Init
    <2> QED BY <2>1, <2>2
  <1>3. TypeOK
    <2>1. call \in [Calls -> CallStates] /\ table \in [Positions -> Slots]
      BY <1>0, <1>1, NoSlotFacts
    <2>2. device \in [Calls -> DeviceEnds] /\ \A c \in Calls : device[c].readies = 0
      BY <1>0 DEF DeviceEnds
    <2>3. owed \in Seq(ChannelIds) /\ in \in Seq(Inbound)
      BY <1>0
    <2>4. \A c \in Calls : device[c].readies <= scenario.readies
      <3>1. scenario.readies \in Nat
        BY ChannelLifeAssumption DEF Init
      <3> QED BY <2>2, <3>1
    <2>5. next_local_id \in 1 .. IdSpace
      BY <1>0
    <2> QED BY <1>2, <2>1, <2>2, <2>3, <2>4, <2>5 DEF Init, TypeOK, Free
  <1>4. OnInv
    BY <1>0, <1>1, <1>2 DEF OnInv
  <1>5. IdInv
    <2>1. \A c \in Calls : call[c].local = 0 /\ device[c].local = 0 /\ call[c].pc = "new"
      BY <1>0, <1>1
    <2>2. Started = {}
      BY <2>1 DEF Started
    <2>3. Cardinality(Started) = 0
      BY <2>2, FS_EmptySet
    <2> QED BY <1>0, <2>1, <2>3 DEF IdInv, Owns
  <1>6. PacketIds
    BY <1>0, <1>2 DEF PacketIds, NoteInv, ReaderHas, Items
  <1>7. \A c \in Calls : ~Holds(c) /\ call[c].pc = "new" /\ device[c].state = "none"
                         /\ call[c].local = 0 /\ device[c].local = 0
    BY <1>0, <1>1 DEF Holds, OpenPcs
  <1>8. SlotInv
    BY <1>0, <1>7 DEF SlotInv, Held
  <1>9. \A c \in Calls : CallIds(c) /\ EndInv(c)
    BY <1>0, <1>2, <1>7 DEF CallIds, EndInv, Sent, Items, Broken, Coming
  <1> QED BY <1>3, <1>4, <1>5, <1>6, <1>8, <1>9 DEF LifeInv

-----------------------------------------------------------------------------
(* Steps that move no slot, no packet and no debt.                         *)

SameCall(r, s) == r.pc = s.pc /\ r.slot = s.slot /\ r.local = s.local
Mild(cs) == cs \in [Calls -> CallStates] /\ \A c \in Calls : SameCall(cs[c], call[c])

(* A wake only changes listeners.                                          *)
LEMMA Wakes ==
    ASSUME TypeOK
    PROVE  /\ Mild(call) /\ Mild(wake_receive(call)) /\ Mild(wake_all(call))
           /\ \A i : Mild(wake(call, i))
           /\ \A b : Mild(wake_if_desync(call, b))
  <1>1. call \in [Calls -> CallStates]
    BY DEF TypeOK
  <1>2. ASSUME NEW W PROVE Mild(notify(call, W))
    <2>1. ASSUME NEW r \in CallStates
          PROVE  /\ [r EXCEPT !.signal = "notified"] \in CallStates
                 /\ SameCall([r EXCEPT !.signal = "notified"], r)
      BY DEF CallStates, SameCall
    <2>2. \A c \in Calls : notify(call, W)[c] \in CallStates /\ SameCall(notify(call, W)[c], call[c])
      BY <1>1, <2>1 DEF notify, SameCall
    <2>3. notify(call, W) = [c \in Calls |-> notify(call, W)[c]]
      BY DEF notify
    <2> QED BY <2>2, <2>3 DEF Mild
  <1>3. Mild(call)
    BY <1>1 DEF Mild, SameCall
  <1>4. Mild(wake_receive(call)) /\ Mild(wake_all(call)) /\ \A i : Mild(wake(call, i))
    BY <1>2 DEF wake_receive, wake_all, wake
  <1> QED BY <1>3, <1>4 DEF wake_if_desync

(* A call stays what it is: new, holding its slot or not.                  *)
Moves(c) ==
    /\ (call'[c].pc = "new") <=> (call[c].pc = "new")
    /\ Holds(c)' <=> Holds(c)
    /\ call'[c].pc = "closeOwe" => call[c].pc = "closeOwe"
    /\ call'[c].pc \in Early => call[c].pc \in Early
    /\ call'[c].pc = "open" => call[c].pc = "open" \/ SlotOf(c).remote = c
    /\ \/ call'[c].slot = call[c].slot /\ call'[c].local = call[c].local
       \/ call'[c].local = 0 /\ call'[c].pc = "closed"

(* And still has its CLSE to owe, if it had.                               *)
Keeps(c) == Moves(c) /\ (call[c].pc = "closeOwe" => call'[c].pc = "closeOwe")

(* And the Reader has the same to say, or nothing.                         *)
ReaderKept ==
    \/ reader'.pc = reader.pc /\ SameNote(reader', reader)
    \/ /\ ~ReaderHas' /\ (ReaderHas => reader.pc = "wake" /\ ~reader.owes)
       /\ reader'.pc \in {"idle", "busy", "recv", "read"} => reader'.remote = 0 /\ ~reader'.owes
    \/ reader.pc = "wake" /\ reader.owes /\ reader'.pc = "owe" /\ SameNote(reader', reader)

QuietStep ==
    /\ call' \in [Calls -> CallStates] /\ reader' \in ReaderStates
    /\ wh' \in Calls \cup {Free, TheReader}
    /\ \A c \in Calls : Keeps(c)
    /\ ReaderKept /\ OnInv'

FlagsKept ==
    /\ UNCHANGED <<ack, scenario>>
    /\ transport' \in {"up", "eof", "gone"} /\ stalled' \in BOOLEAN
    /\ desync' \in BOOLEAN /\ stopped' \in BOOLEAN
    /\ stream_over' \in BOOLEAN /\ ended_in_step' \in BOOLEAN
    /\ Over => Over'

(* Ids stay with their calls.                                              *)
LEMMA IdsKept ==
    ASSUME LifeInv, TypeOK', Started' = Started, next_local_id' = next_local_id,
           \A c \in Calls : /\ call'[c].local \in {0, call[c].local}
                            /\ \/ device'[c].local = device[c].local
                               \/ device'[c].local = call[c].local /\ call'[c].local = call[c].local
    PROVE  IdInv'
  <1>1. \A c \in Calls : \A l : Owns(c, l)' => Owns(c, l)
    BY DEF Owns
  <1>2. \A c, d \in Calls : \A l \in 1 .. IdSpace : Owns(c, l)' /\ Owns(d, l)' => c = d
    BY <1>1 DEF LifeInv, IdInv
  <1>3. \A c \in Calls : device'[c].local # 0 => call'[c].local \in {0, device'[c].local}
    BY DEF LifeInv, IdInv
  <1>4. Started' # Calls =>
         /\ Cardinality(Started') + 1 = next_local_id'
         /\ \A c \in Calls : \A l \in 1 .. IdSpace : Owns(c, l)' => l < next_local_id'
    BY <1>1 DEF LifeInv, IdInv
  <1> QED BY <1>2, <1>3, <1>4 DEF IdInv

(* In particular where calls only move.                                    *)
LEMMA QuietIds ==
    ASSUME LifeInv, TypeOK', \A c \in Calls : Moves(c), next_local_id' = next_local_id,
           \A c \in Calls : device'[c].local = device[c].local
    PROVE  IdInv'
  <1>1. Started' = Started
    BY DEF Keeps, Moves, Started
  <1>2. \A c \in Calls : call'[c].local \in {0, call[c].local}
    BY DEF Keeps, Moves
  <1> QED BY <1>1, <1>2, IdsKept

(* Slots stay with their holders.                                          *)
LEMMA QuietSlots ==
    ASSUME LifeInv, \A c \in Calls : Moves(c), table' = table,
           \A c \in Calls : device[c].state # "none" => device'[c].state # "none"
    PROVE  SlotInv'
  <1>1. ASSUME NEW c \in Calls, Holds(c)
        PROVE  call'[c].slot = call[c].slot /\ call'[c].local = call[c].local /\ SlotOf(c)' = SlotOf(c)
    <2>1. call'[c].pc # "closed"
      BY <1>1 DEF Keeps, Moves, Holds, OpenPcs
    <2> QED BY <2>1 DEF Keeps, Moves, SlotOf
  <1>2. ASSUME NEW c \in Calls, NEW i, HolderOf(c, i) PROVE HolderOf(c, i)'
    BY <1>1, <1>2 DEF HolderOf, Keeps, Moves
  <1>3. \A i \in Positions : table'[i] = NoSlot \/ \E c \in Calls : HolderOf(c, i)'
    BY <1>2 DEF LifeInv, SlotInv
  <1>4. ASSUME NEW c \in Calls, Holds(c)' PROVE Held(c)'
    <2>1. Holds(c) /\ Held(c)
      BY <1>4 DEF Keeps, Moves, LifeInv, SlotInv
    <2>2. call'[c].slot = call[c].slot /\ call'[c].local = call[c].local /\ SlotOf(c)' = SlotOf(c)
      BY <1>1, <2>1
    <2>3. call'[c].pc = "open" => SlotOf(c).remote = c
      BY <2>1 DEF Keeps, Moves, Held
    <2> QED BY <2>1, <2>2, <2>3 DEF Held
  <1> QED BY <1>3, <1>4 DEF SlotInv, Held

(* So a holder sees what it saw.                                           *)
LEMMA HoldsKept ==
    ASSUME NEW c \in Calls, Moves(c), table' = table
    PROVE  /\ Holds(c)' <=> Holds(c)
           /\ Holds(c) => /\ SlotOf(c)' = SlotOf(c) /\ call'[c].slot = call[c].slot
                          /\ call'[c].local = call[c].local
           /\ Broken(c)' <=> Broken(c)
           /\ Known(c)' <=> Known(c)
  <1>1. Holds(c) => call'[c].slot = call[c].slot /\ call'[c].local = call[c].local
    BY DEF Keeps, Moves, Holds, OpenPcs
  <1> QED BY <1>1 DEF Keeps, Moves, SlotOf, Broken, Known

(* A quiet step keeps the invariant.                                       *)
LEMMA QuietLife ==
    ASSUME LifeInv, QuietStep, FlagsKept, UNCHANGED <<table, next_local_id, in, device>>,
           owed' = owed \/ (owed' = <<>> /\ Over')
    PROVE  LifeInv'
  <1>1. TypeOK'
    <2>1. <<>> \in Seq(ChannelIds)
      OBVIOUS
    <2>2. owed \in Seq(ChannelIds)
      BY DEF LifeInv, TypeOK
    <2>3. owed' \in Seq(ChannelIds)
      BY <2>1, <2>2
    <2> QED BY <2>3 DEF LifeInv, TypeOK, QuietStep, FlagsKept
  <1>2. IdInv' /\ SlotInv'
    BY <1>1, QuietIds, QuietSlots DEF QuietStep, Keeps
  <1>3. PacketIds'
    <2>1. Items(in)' = Items(in) /\ Items(owed)' \subseteq Items(owed)
      BY DEF Items
    <2>2. \A p \in Items(in)' \cup Items(owed)' : p.remote \in Calls /\ p.local = device'[p.remote].local
      BY <2>1 DEF LifeInv, PacketIds, NoteInv, NamesPeer
    <2>3. NamesPeer(reader)' <=> reader'.remote \in Calls /\ reader'.local = device[reader'.remote].local
      BY DEF NamesPeer
    <2> QED BY <2>1, <2>2, <2>3 DEF LifeInv, PacketIds, NoteInv, NamesPeer, QuietStep, ReaderKept, ReaderHas, SameNote
  <1>4. ASSUME NEW c \in Calls PROVE CallIds(c)' /\ EndInv(c)'
    <2>1. CallIds(c) /\ EndInv(c) /\ Keeps(c)
      BY DEF LifeInv, QuietStep
    <2>2. Holds(c) => call'[c].slot = call[c].slot /\ call'[c].local = call[c].local
      BY <2>1, HoldsKept DEF Keeps
    <2>3. call[c].pc = "closeOwe" => call'[c].local = call[c].local
      BY <2>1 DEF Keeps, Moves
    <2>4. call'[c].pc = "new" => call'[c].local = call[c].local
      BY <2>1 DEF Keeps, Moves
    <2>5. CallIds(c)'
      BY <2>1, <2>2, <2>3, <2>4 DEF CallIds, Keeps, Moves
    <2>6. /\ Holds(c)' <=> Holds(c)
          /\ Holds(c) => SlotOf(c)' = SlotOf(c)
          /\ Broken(c)' <=> Broken(c)
          /\ Known(c)' <=> Known(c)
          /\ \A cmd : Sent(cmd, c)' <=> Sent(cmd, c)
      BY <2>1, HoldsKept DEF Keeps, Sent, Items
    <2>7. /\ (reader'.remote = c /\ reader'.pc \in {"wake", "owe"}) <=> (reader.remote = c /\ reader.pc \in {"wake", "owe"})
          /\ (reader'.remote = c /\ reader'.pc = "fail") <=> (reader.remote = c /\ reader.pc = "fail")
          /\ reader'.pc = "fail" => reader'.idx = reader.idx
      <3>1. c # 0 /\ PacketIds
        BY Typed DEF LifeInv
      <3> QED BY <3>1 DEF QuietStep, ReaderKept, ReaderHas, SameNote, PacketIds, NoteInv
    <2>8. (Owing(c)' => Owing(c)) /\ (Over' \/ (Owing(c) => Owing(c)')) /\ (Coming(c)' <=> Coming(c))
      BY <2>6, <2>7 DEF Owing, Coming, Items
    <2>9. EndInv(c)'
      BY <2>1, <2>2, <2>6, <2>7, <2>8 DEF EndInv, Keeps, Moves, FlagsKept
    <2> QED BY <2>5, <2>9
  <1> QED BY <1>1, <1>2, <1>3, <1>4 DEF LifeInv, QuietStep

(* Flags that do not change are kept.                                      *)
LEMMA FlagsSame ==
    ASSUME TypeOK, UNCHANGED <<ack, scenario, transport, stalled, end_vars>>
    PROVE  FlagsKept
  BY DEF TypeOK, FlagsKept, end_vars, Over

-----------------------------------------------------------------------------
(* The ways in which a call and the Reader go on quietly.                  *)

(* One call becomes r, and no more than listeners change in the others.    *)
KeepsAs(c, r) ==
    /\ r.pc = "new" <=> call[c].pc = "new"
    /\ r.pc \in OpenPcs \cup {"open"} <=> Holds(c)
    /\ r.pc = "closeOwe" <=> call[c].pc = "closeOwe"
    /\ r.pc \in Early => call[c].pc \in Early
    /\ r.pc = "open" => call[c].pc = "open" \/ SlotOf(c).remote = c
    /\ \/ r.slot = call[c].slot /\ r.local = call[c].local
       \/ r.local = 0 /\ r.pc = "closed"

(* The others then stay as they are.                                       *)
LEMMA OneCall ==
    ASSUME NEW cs, Mild(cs), NEW c \in Calls, NEW r \in CallStates, KeepsAs(c, r),
           call' = [cs EXCEPT ![c] = r]
    PROVE  /\ call' \in [Calls -> CallStates] /\ \A d \in Calls : Keeps(d)
           /\ call'[c].pc = r.pc /\ \A d \in Calls \ {c} : call'[d].pc = call[d].pc
  <1>1. call' \in [Calls -> CallStates] /\ call'[c] = r /\ \A d \in Calls \ {c} : call'[d] = cs[d]
    BY DEF Mild
  <1>2. Keeps(c)
    BY <1>1 DEF KeepsAs, Keeps, Moves, Holds
  <1>3. \A d \in Calls \ {c} : Keeps(d) /\ call'[d].pc = call[d].pc
    BY <1>1 DEF Mild, SameCall, Keeps, Moves, Holds
  <1> QED BY <1>1, <1>2, <1>3

(* And where only listeners change all do.                                 *)
LEMMA NoCall ==
    ASSUME Mild(call')
    PROVE  /\ call' \in [Calls -> CallStates] /\ \A d \in Calls : Keeps(d) /\ call'[d].pc = call[d].pc
  BY DEF Mild, SameCall, Keeps, Moves, Holds

(* The call becomes r and the Reader is not touched.                       *)
LEMMA CallQuiet ==
    ASSUME LifeInv, NEW cs, Mild(cs), NEW c \in Calls, NEW r \in CallStates, KeepsAs(c, r),
           call' = [cs EXCEPT ![c] = r], reader' = reader, wh' \in Calls \cup {Free, TheReader},
           reader.on = c => r.pc \in Early,
           r.pc # "reading"
    PROVE  QuietStep
  <1>1. /\ call' \in [Calls -> CallStates] /\ \A d \in Calls : Keeps(d)
        /\ call'[c].pc = r.pc /\ \A d \in Calls \ {c} : call'[d].pc = call[d].pc
    BY OneCall
  <1>2. OnInv'
    <2>1. OnInv /\ (call'[c].pc \in Early => call[c].pc \in Early)
      BY <1>1 DEF LifeInv, Keeps, Moves
    <2> QED BY <1>1, <2>1 DEF OnInv
  <1>3. reader' \in ReaderStates /\ ReaderKept
    BY DEF LifeInv, TypeOK, ReaderKept, SameNote
  <1> QED BY <1>1, <1>2, <1>3 DEF QuietStep

(* The open gives up, and gives the Reader back if it had it.              *)
LEMMA GiveUpQuiet ==
    ASSUME LifeInv, NEW cs, Mild(cs), NEW c \in Calls, GiveUp(cs, c), call[c].pc \in OpenPcs,
           wh' \in Calls \cup {Free, TheReader},
           reader.on = c => call[c].pc \in Early \/ reader.pc \in {"read", "lock"}
    PROVE  QuietStep
  <1> DEFINE r == [cs[c] EXCEPT !.pc = "guard", !.signal = "none"]
  <1>1. cs[c] \in CallStates /\ SameCall(cs[c], call[c])
    BY DEF Mild
  <1>2. r \in CallStates /\ r.pc = "guard" /\ r.slot = call[c].slot /\ r.local = call[c].local
    BY <1>1 DEF CallStates, SameCall, OpenPcs
  <1>3. call' = [cs EXCEPT ![c] = r]
    BY DEF GiveUp, Mild
  <1>4. KeepsAs(c, r)
    BY <1>2 DEF KeepsAs, Holds, OpenPcs, Early
  <1> HIDE DEF r
  <1>5. /\ call' \in [Calls -> CallStates] /\ \A d \in Calls : Keeps(d)
        /\ call'[c].pc = "guard" /\ \A d \in Calls \ {c} : call'[d].pc = call[d].pc
    BY <1>2, <1>3, <1>4, OneCall
  <1>6. CASE reader.on = c
    <2>1. reader' = IdleReader
      BY <1>6 DEF GiveUp
    <2>2. reader.pc \in {"busy", "read", "lock"}
      BY <1>6 DEF LifeInv, OnInv
    <2>3. reader' \in ReaderStates /\ ReaderKept
      BY <2>1, <2>2, IdleFacts DEF ReaderKept, ReaderHas
    <2>4. OnInv'
      <3>1. \A d \in Calls : call'[d].pc # "reading"
        BY <1>5, <1>6 DEF LifeInv, OnInv
      <3> QED BY <2>1, <3>1, IdleFacts, Typed DEF OnInv, LifeInv
    <2> QED BY <1>5, <2>3, <2>4 DEF QuietStep
  <1>7. CASE reader.on # c
    <2>1. reader' = reader
      BY <1>7 DEF GiveUp
    <2>2. KeepsAs(c, r) /\ r.pc # "reading"
      BY <1>2, <1>4
    <2> QED BY <1>2, <1>3, <1>7, <2>1, <2>2, CallQuiet
  <1> QED BY <1>6, <1>7

(* The Reader has nothing to say, or only to wake somebody.                *)
Silent == ReaderHas => reader.pc = "wake" /\ ~reader.owes

(* After which it has nothing to say.                                      *)
Rests ==
    /\ call' \in [Calls -> CallStates] /\ reader' \in ReaderStates /\ \A c \in Calls : Keeps(c)
    /\ OnInv' /\ ~ReaderHas' /\ reader'.remote = 0 /\ ~reader'.owes

(* That is quiet if it had nothing to say before.                          *)
LEMMA RestsQuiet ==
    ASSUME Rests, Silent, wh' \in Calls \cup {Free, TheReader}
    PROVE  QuietStep
  BY DEF Rests, Silent, QuietStep, ReaderKept

(* The Reader gives up, and an open of its own with it.                    *)
LEMMA ReaderFailsRests ==
    ASSUME LifeInv, NEW cs, Mild(cs), ReaderFails(cs)
    PROVE  Rests
  <1>1. /\ reader' \in ReaderStates /\ reader'.pc \in {"idle", "stop"} /\ reader'.does # "open"
        /\ reader'.on = 0 /\ reader'.remote = 0 /\ ~reader'.owes
    <2>1. CASE reader.does = "run"
      <3>1. reader' = Running("stop", "run") /\ "stop" \in ReaderPcs
        BY <2>1 DEF ReaderFails, Running, ReaderPcs
      <3> QED BY <3>1, ReaderStarts
    <2>2. CASE reader.does # "run"
      BY <2>2, IdleFacts DEF ReaderFails
    <2> QED BY <2>1, <2>2
  <1>2. ~ReaderHas'
    BY <1>1 DEF ReaderHas
  <1>3. 0 \notin Calls /\ OnInv
    BY Typed DEF LifeInv
  <1>4. CASE reader.does = "open"
    <2> DEFINE r == [cs[reader.on] EXCEPT !.pc = "guard"]
    <2>1. PICK c \in Calls : c = reader.on
      BY <1>3, <1>4 DEF OnInv
    <2>2. cs[c] \in CallStates /\ SameCall(cs[c], call[c]) /\ call[c].pc \in Early \cup {"reading"}
      BY <1>3, <2>1 DEF Mild, OnInv
    <2>3. r \in CallStates /\ r.pc = "guard" /\ r.slot = call[c].slot /\ r.local = call[c].local
      BY <2>1, <2>2 DEF CallStates, SameCall, OpenPcs
    <2>4. call' = [cs EXCEPT ![c] = r]
      BY <1>4, <2>1 DEF ReaderFails, Mild
    <2>5. KeepsAs(c, r)
      BY <2>2, <2>3 DEF KeepsAs, Holds, OpenPcs, Early
    <2> HIDE DEF r
    <2>6. /\ call' \in [Calls -> CallStates] /\ \A d \in Calls : Keeps(d)
          /\ call'[c].pc = "guard" /\ \A d \in Calls \ {c} : call'[d].pc = call[d].pc
      BY <2>3, <2>4, <2>5, OneCall
    <2>7. OnInv'
      BY <1>1, <1>3, <2>1, <2>6 DEF OnInv
    <2> QED BY <1>1, <1>2, <2>6, <2>7 DEF Rests
  <1>5. CASE reader.does # "open"
    <2>1. Mild(call')
      BY <1>5 DEF ReaderFails, Mild
    <2>2. call' \in [Calls -> CallStates] /\ \A d \in Calls : Keeps(d) /\ call'[d].pc = call[d].pc
      BY <2>1, NoCall
    <2>3. OnInv'
      BY <1>1, <1>3, <1>5, <2>2 DEF OnInv
    <2> QED BY <1>1, <1>2, <2>2, <2>3 DEF Rests
  <1> QED BY <1>4, <1>5

(* The same as a quiet step.                                               *)
LEMMA ReaderFailsQuiet ==
    ASSUME LifeInv, NEW cs, Mild(cs), ReaderFails(cs), Silent, wh' \in Calls \cup {Free, TheReader}
    PROVE  QuietStep
  BY ReaderFailsRests, RestsQuiet

(* The Reader goes on with the same use of it.                             *)
LEMMA ReaderQuiet ==
    ASSUME LifeInv, Mild(call'), reader' \in ReaderStates, ReaderKept, SameUse(reader', reader),
           reader'.pc # "idle", reader'.pc = "busy" \/ reader.pc # "busy", wh' \in Calls \cup {Free, TheReader}
    PROVE  QuietStep
  <1>1. call' \in [Calls -> CallStates] /\ \A d \in Calls : Keeps(d) /\ call'[d].pc = call[d].pc
    BY NoCall
  <1>2. OnInv'
    BY <1>1 DEF LifeInv, OnInv, SameUse
  <1> QED BY <1>1, <1>2 DEF QuietStep

(* The Reader on its way back to recv.                                     *)
LEMMA ReceivingFacts ==
    ASSUME TypeOK
    PROVE  /\ Receiving \in ReaderStates /\ Receiving.pc = "recv" /\ Receiving.remote = 0
           /\ ~Receiving.owes /\ SameUse(Receiving, reader)
  <1>1. PICK d \in {"none", "run", "dispatch", "open"}, o \in Calls \cup {0} :
          d = reader.does /\ o = reader.on
    BY DEF TypeOK, ReaderStates
  <1>2. Receiving = Using("recv", d, o) /\ "recv" \in ReaderPcs
    BY <1>1 DEF Receiving, Using, ReaderPcs
  <1> QED BY <1>1, <1>2, ReaderStarts DEF SameUse

(* It rests there.                                                         *)
LEMMA ReceivingRests ==
    ASSUME LifeInv, Mild(call'), reader' = Receiving, reader.pc # "busy"
    PROVE  Rests
  <1>1. call' \in [Calls -> CallStates] /\ \A d \in Calls : Keeps(d) /\ call'[d].pc = call[d].pc
    BY NoCall
  <1>2. /\ reader' \in ReaderStates /\ SameUse(reader', reader) /\ reader'.pc = "recv" /\ reader'.remote = 0
        /\ ~reader'.owes
    BY ReceivingFacts DEF LifeInv
  <1>3. OnInv' /\ ~ReaderHas'
    BY <1>1, <1>2 DEF LifeInv, OnInv, SameUse, ReaderHas
  <1> QED BY <1>1, <1>2, <1>3 DEF Rests

(* And so it does wherever a packet leaves it.                             *)
LEMMA ReaderContinuesRests ==
    ASSUME LifeInv, NEW cs, Mild(cs), ReaderContinues(cs), reader.pc # "busy"
    PROVE  Rests
  <1>1. CASE reader.fails
    BY <1>1, ReaderFailsRests DEF ReaderContinues
  <1>2. CASE ~reader.fails /\ reader.does = "dispatch"
    <2>1. reader' = IdleReader /\ call' = cs /\ Mild(call')
      BY <1>2 DEF ReaderContinues, Mild
    <2>2. call' \in [Calls -> CallStates] /\ \A d \in Calls : Keeps(d) /\ call'[d].pc = call[d].pc
      BY <2>1, NoCall
    <2>3. reader' \in ReaderStates /\ ~ReaderHas' /\ reader'.remote = 0 /\ ~reader'.owes
      BY <2>1, IdleFacts DEF ReaderHas
    <2>4. OnInv'
      BY <1>2, <2>1, <2>2, IdleFacts, Typed DEF LifeInv, OnInv
    <2> QED BY <2>2, <2>3, <2>4 DEF Rests
  <1>3. CASE ~reader.fails /\ reader.does # "dispatch"
    <2>1. reader' = Receiving /\ Mild(call')
      BY <1>3 DEF ReaderContinues, Mild
    <2> QED BY <2>1, ReceivingRests
  <1> QED BY <1>1, <1>2, <1>3

(* A call goes on at p.                                                    *)
CallPcs == {"new", "open", "failed", "closed"} \cup OpenPcs \cup ClosePcs
GoesOn(c, p) ==
    /\ p = "new" <=> call[c].pc = "new"
    /\ p \in OpenPcs \cup {"open"} <=> Holds(c)
    /\ p = "closeOwe" <=> call[c].pc = "closeOwe"
    /\ p \in Early => call[c].pc \in Early
    /\ p = "open" => SlotOf(c).remote = c

(* That is quiet, if the Reader is not opening for the call.               *)
LEMMA GoesQuiet ==
    ASSUME LifeInv, NEW c \in Calls, NEW p \in CallPcs, GoesOn(c, p), NEW s \in {"none", "armed"},
           \/ call' = To(c, p)
           \/ call' = [call EXCEPT ![c] = [@ EXCEPT !.pc = p, !.signal = s]],
           reader' = reader, wh' \in Calls \cup {Free, TheReader},
           reader.on = c => p \in Early, p # "reading"
    PROVE  QuietStep
  <1>1. call \in [Calls -> CallStates] /\ Mild(call) /\ call[c] \in CallStates
    BY Wakes DEF LifeInv, TypeOK
  <1>2. ASSUME NEW r \in CallStates, r.pc = p, r.slot = call[c].slot, r.local = call[c].local,
               call' = [call EXCEPT ![c] = r]
        PROVE  QuietStep
    <2>1. KeepsAs(c, r)
      BY <1>2 DEF KeepsAs, GoesOn
    <2> QED BY <1>1, <1>2, <2>1, CallQuiet
  <1>3. CASE call' = To(c, p)
    <2> DEFINE r == [call[c] EXCEPT !.pc = p]
    <2>1. r \in CallStates /\ r.pc = p /\ r.slot = call[c].slot /\ r.local = call[c].local
      BY <1>1 DEF CallStates, CallPcs
    <2>2. call' = [call EXCEPT ![c] = r]
      BY <1>1, <1>3 DEF To
    <2> HIDE DEF r
    <2> QED BY <1>2, <2>1, <2>2
  <1>4. CASE call' = [call EXCEPT ![c] = [@ EXCEPT !.pc = p, !.signal = s]]
    <2> DEFINE r == [call[c] EXCEPT !.pc = p, !.signal = s]
    <2>1. r \in CallStates /\ r.pc = p /\ r.slot = call[c].slot /\ r.local = call[c].local
      BY <1>1 DEF CallStates, CallPcs
    <2>2. call' = [call EXCEPT ![c] = r]
      BY <1>1, <1>4
    <2> HIDE DEF r
    <2> QED BY <1>2, <2>1, <2>2
  <1> QED BY <1>3, <1>4

(* A call that is over has no id.                                          *)
LEMMA EndedFacts ==
    ASSUME NEW p \in CallPcs, NEW r \in {"none", "ok", "desynchronized", "error"}
    PROVE  /\ Ended(p, r) \in CallStates /\ Ended(p, r).pc = p /\ Ended(p, r).local = 0
  <1>1. PICK n : n = NewCall
    OBVIOUS
  <1>2. n \in CallStates /\ n.local = 0
    BY <1>1, ChannelLifeAssumption DEF NewCall, CallStates
  <1>3. Ended(p, r) = [n EXCEPT !.pc = p, !.result = r]
    BY <1>1 DEF Ended
  <1> QED BY <1>2, <1>3 DEF CallStates, CallPcs

(* A close returns.                                                        *)
LEMMA ClosedQuiet ==
    ASSUME LifeInv, NEW cs, Mild(cs), NEW c \in Calls, call[c].pc \in ClosePcs \ {"closeOwe"},
           NEW r \in {"none", "ok", "desynchronized", "error"},
           call' = [cs EXCEPT ![c] = Ended("closed", r)],
           reader' = reader, wh' \in Calls \cup {Free, TheReader}
    PROVE  QuietStep
  <1>1. "closed" \in CallPcs
    BY DEF CallPcs
  <1>2. PICK e : e = Ended("closed", r)
    OBVIOUS
  <1>3. e \in CallStates /\ e.pc = "closed" /\ e.local = 0
    BY <1>1, <1>2, EndedFacts
  <1>4. KeepsAs(c, e)
    BY <1>3 DEF KeepsAs, Holds, OpenPcs, ClosePcs, Early
  <1>5. reader.on # c
    BY DEF LifeInv, OnInv, Early, ClosePcs
  <1>6. call' = [cs EXCEPT ![c] = e]
    BY <1>2
  <1> QED BY <1>3, <1>4, <1>5, <1>6, CallQuiet

(* What one slot says about the call that holds it.                        *)
LEMMA GetFacts ==
    ASSUME LifeInv, NEW c \in Calls, Holds(c)
    PROVE  get(call[c]) = SlotOf(c) /\ is_some(SlotOf(c)) /\ SlotOf(c).remote \in {0, c}
           /\ call[c].slot \in Positions /\ SlotOf(c) = table[call[c].slot] /\ SlotOf(c) \in Slots
           /\ SlotOf(c).local = call[c].local
  <1>1. Held(c) /\ CallIds(c)
    BY DEF LifeInv, SlotInv
  <1>2. call[c].slot \in Positions /\ SlotOf(c).local = call[c].local /\ call[c].local # 0
    BY <1>1 DEF Held, CallIds
  <1> QED BY <1>1, <1>2, NoSlotFacts, Typed DEF get, is_some, SlotOf, Held, LifeInv

-----------------------------------------------------------------------------
(* The quiet steps of a call.                                              *)
LEMMA QuietCalls ==
    ASSUME LifeInv, NEW c \in Calls,
           \/ LockCall(c) \/ SendRefused(c) \/ Listen(c) \/ Look(c) \/ Park(c) \/ Woken(c)
           \/ DropOpen(c) \/ CloseUntil(c) \/ CloseChecks(c) \/ DropClose(c)
    PROVE  LifeInv'
  <1>0. /\ TypeOK /\ OnInv /\ UNCHANGED <<table, next_local_id, in, device, owed>>
        /\ UNCHANGED <<ack, scenario, transport, stalled, end_vars>>
    BY DEF LifeInv, LockCall, SendRefused, Listen, Look, Park, Woken, DropOpen, CloseUntil,
           CloseChecks, DropClose, table_vars, wire_vars
  <1>1. FlagsKept /\ wh \in Calls \cup {Free, TheReader} /\ Mild(call)
    BY <1>0, FlagsSame, Wakes DEF TypeOK
  <1>2. CASE LockCall(c)
    <2> DEFINE p == IF call[c].pc = "lock" THEN "pay" ELSE "closePay"
    <2>1. call' = To(c, p) /\ call[c].pc \in {"lock", "closeLock"} /\ reader' = reader /\ wh' = c
      BY <1>2 DEF LockCall
    <2>2. p \in CallPcs /\ p # "reading" /\ (call[c].pc = "lock" => p = "pay")
          /\ (call[c].pc # "lock" => p = "closePay")
      BY DEF CallPcs, OpenPcs, ClosePcs
    <2> HIDE DEF p
    <2>3. GoesOn(c, p) /\ (reader.on = c => p \in Early)
      BY <1>0, <2>1, <2>2 DEF GoesOn, Holds, OpenPcs, Early, OnInv
    <2> QED BY <1>0, <1>1, <2>1, <2>2, <2>3, GoesQuiet, QuietLife
  <1>3. CASE SendRefused(c)
    <2>1. Mild(wake_if_desync(call, desync)) /\ call[c].pc \in OpenPcs /\ call[c].pc \in Early
      BY <1>0, <1>3, Wakes DEF SendRefused, OpenPcs, Early
    <2> QED BY <1>0, <1>1, <1>3, <2>1, GiveUpQuiet, QuietLife DEF SendRefused
  <1>4. ASSUME call[c].pc \in {"listen", "look", "live", "parked"}, GiveUp(call, c), wh' = wh
        PROVE  LifeInv'
    <2>1. call[c].pc \in OpenPcs /\ reader.on # c
      BY <1>0, <1>4 DEF OpenPcs, OnInv, Early
    <2> QED BY <1>0, <1>1, <1>4, <2>1, GiveUpQuiet, QuietLife
  <1>5. ASSUME NEW p \in OpenPcs \ ({"reading"} \cup Early), call[c].pc \in {"listen", "look", "live", "parked"},
               NEW s \in {"none", "armed"},
               \/ call' = To(c, p)
               \/ call' = [call EXCEPT ![c] = [@ EXCEPT !.pc = p, !.signal = s]],
               reader' = reader, wh' = wh
        PROVE  LifeInv'
    <2>1. p \in CallPcs /\ p # "reading" /\ reader.on # c /\ GoesOn(c, p)
      BY <1>0, <1>5 DEF CallPcs, OpenPcs, OnInv, Early, GoesOn, Holds
    <2> QED BY <1>0, <1>1, <1>5, <2>1, GoesQuiet, QuietLife
  <1>6. CASE Listen(c)
    <2>1. "look" \in OpenPcs \ ({"reading"} \cup Early)
      BY DEF OpenPcs, Early
    <2>2. CASE check_in_step
      BY <1>5, <1>6, <2>1, <2>2 DEF Listen
    <2>3. CASE ~check_in_step
      BY <1>4, <1>6, <2>3 DEF Listen
    <2> QED BY <2>2, <2>3
  <1>7. CASE Look(c)
    <2>1. "live" \in OpenPcs \ ({"reading"} \cup Early)
      BY DEF OpenPcs, Early
    <2>2. call[c].pc = "look" /\ Holds(c) /\ reader.on # c
      BY <1>0, <1>7 DEF Look, Holds, OpenPcs, OnInv, Early
    <2>3. CASE call' = To(c, "live") /\ UNCHANGED reader
      BY <1>5, <1>7, <2>1, <2>2, <2>3 DEF Look
    <2>4. CASE GiveUp(call, c)
      BY <1>4, <1>7, <2>2, <2>4 DEF Look
    <2>5. CASE /\ has_ids(get(call[c])) /\ UNCHANGED reader
               /\ call' = [call EXCEPT ![c] = [@ EXCEPT !.pc = "open", !.signal = "none"]]
      <3>1. SlotOf(c).remote = c
        BY <2>2, <2>5, GetFacts DEF has_ids, NoRemote
      <3>2. "open" \in CallPcs /\ GoesOn(c, "open")
        BY <2>2, <3>1 DEF CallPcs, GoesOn, Holds, Early
      <3> QED BY <1>0, <1>1, <1>7, <2>2, <2>5, <3>2, GoesQuiet, QuietLife DEF Look
    <2> QED BY <1>7, <2>3, <2>4, <2>5 DEF Look
  <1>8. CASE Park(c)
    <2>1. "parked" \in OpenPcs \ ({"reading"} \cup Early)
      BY DEF OpenPcs, Early
    <2>2. CASE check_live
      BY <1>5, <1>8, <2>1, <2>2 DEF Park
    <2>3. CASE ~check_live
      BY <1>4, <1>8, <2>3 DEF Park
    <2> QED BY <2>2, <2>3
  <1>9. CASE Woken(c)
    <2>1. "listen" \in OpenPcs \ ({"reading"} \cup Early)
      BY DEF OpenPcs, Early
    <2> QED BY <1>5, <1>9, <2>1 DEF Woken
  <1>10. CASE DropOpen(c)
    <2>1. call[c].pc \in OpenPcs /\ (reader.on = c => call[c].pc \in Early \/ reader.pc \in {"read", "lock"})
      BY <1>0, <1>10 DEF DropOpen, OpenPcs, Early, OnInv
    <2> QED BY <1>0, <1>1, <1>10, <2>1, GiveUpQuiet, QuietLife DEF DropOpen
  <1>11. CASE CloseUntil(c)
    <2> DEFINE p == IF clse_called_off THEN "closeCheck" ELSE "closeLock"
    <2>1. call' = To(c, p) /\ call[c].pc = "closeUntil" /\ reader' = reader /\ wh' = wh
      BY <1>11 DEF CloseUntil
    <2>2. p \in {"closeCheck", "closeLock"}
      OBVIOUS
    <2> HIDE DEF p
    <2>3. p \in CallPcs /\ p # "reading" /\ GoesOn(c, p) /\ reader.on # c
      BY <1>0, <2>1, <2>2 DEF CallPcs, ClosePcs, GoesOn, Holds, OpenPcs, Early, OnInv
    <2> QED BY <1>0, <1>1, <2>1, <2>2, <2>3, GoesQuiet, QuietLife
  <1>12. CASE CloseChecks(c) \/ DropClose(c)
    <2>1. PICK r \in {"none", "ok", "desynchronized", "error"} : call' = [call EXCEPT ![c] = Ended("closed", r)]
      BY <1>12 DEF CloseChecks, DropClose
    <2>2. call[c].pc \in ClosePcs \ {"closeOwe"} /\ reader' = reader /\ wh' = wh
      BY <1>12 DEF CloseChecks, DropClose, ClosePcs
    <2> QED BY <1>0, <1>1, <2>1, <2>2, ClosedQuiet, QuietLife
  <1> QED BY <1>2, <1>3, <1>6, <1>7, <1>8, <1>9, <1>10, <1>11, <1>12

-----------------------------------------------------------------------------
(* The quiet steps of the Reader.                                          *)

(* The Reader is at p, and says no more than before.                       *)
LEMMA MovesQuiet ==
    ASSUME LifeInv, Mild(call'), NEW p \in ReaderPcs \ {"idle", "busy"},
           reader' = [reader EXCEPT !.pc = p], reader.pc # "busy",
           \/ /\ ~ReaderHas /\ p \notin {"fail", "wake", "owe"}
              /\ p \in {"recv", "read"} => reader.pc \in {"recv", "read"}
           \/ reader.pc = "wake" /\ reader.owes /\ p = "owe",
           wh' \in Calls \cup {Free, TheReader}
    PROVE  QuietStep
  <1>1. reader \in ReaderStates /\ PacketIds
    BY DEF LifeInv, TypeOK
  <1>2. reader' \in ReaderStates /\ reader'.pc = p /\ SameNote(reader', reader) /\ SameUse(reader', reader)
    BY <1>1, ReaderMoves
  <1>3. ReaderKept
    BY <1>1, <1>2 DEF ReaderKept, ReaderHas, SameNote, PacketIds, NoteInv
  <1> QED BY <1>2, <1>3, ReaderQuiet

(* An idle Reader is taken, or a Reader with no open of its own put down.  *)
LEMMA TakenQuiet ==
    ASSUME LifeInv, Mild(call'), ~ReaderHas, reader.does # "open",
           NEW p \in ReaderPcs, NEW d \in {"none", "run", "dispatch"}, reader' = Running(p, d),
           p \notin {"fail", "wake", "owe"}, wh' \in Calls \cup {Free, TheReader}
    PROVE  QuietStep
  <1>1. /\ reader' \in ReaderStates /\ reader'.pc = p /\ reader'.does = d /\ reader'.on = 0
        /\ reader'.remote = 0 /\ ~reader'.owes
    BY ReaderStarts
  <1>2. ReaderKept
    BY <1>1 DEF ReaderKept, ReaderHas
  <1>3. call' \in [Calls -> CallStates] /\ \A e \in Calls : Keeps(e) /\ call'[e].pc = call[e].pc
    BY NoCall
  <1>4. OnInv'
    BY <1>1, <1>3, Typed DEF LifeInv, OnInv
  <1> QED BY <1>1, <1>2, <1>3, <1>4 DEF QuietStep

(* Each of them keeps the invariant.                                       *)
LEMMA QuietReaders ==
    ASSUME LifeInv,
           \/ RecvEnds \/ RecvPays \/ RecvInterrupted \/ RecvFails \/ StartDispatch
           \/ DropReaderCall \/ DropReader \/ EndStream \/ StopInStep \/ Stop \/ LockReader \/ ReaderWakes
    PROVE  LifeInv'
  <1>0. /\ TypeOK /\ OnInv /\ UNCHANGED <<table, next_local_id, in, device, owed>>
        /\ UNCHANGED <<ack, scenario, transport, stalled, desync>>
    BY DEF LifeInv, RecvEnds, RecvPays, RecvInterrupted, RecvFails, StartDispatch, DropReaderCall, DropReader,
           EndStream, StopInStep, Stop, LockReader, ReaderWakes, table_vars, wire_vars, end_vars
  <1>1. /\ wh \in Calls \cup {Free, TheReader} /\ TheReader \in Calls \cup {Free, TheReader}
        /\ Mild(call) /\ Mild(wake_all(call)) /\ Mild(wake(call, reader.idx))
    BY <1>0, Wakes DEF TypeOK
  <1>2. ASSUME QuietStep, UNCHANGED <<stopped, stream_over, ended_in_step>> PROVE LifeInv'
    <2>1. FlagsKept
      BY <1>0, <1>2, FlagsSame DEF end_vars
    <2> QED BY <1>0, <1>2, <2>1, QuietLife
  <1>3. CASE RecvEnds
    <2>1. ReaderFails(call) /\ Silent /\ wh' = wh /\ UNCHANGED <<stopped, stream_over, ended_in_step>>
      BY <1>3 DEF RecvEnds, Silent, ReaderHas, end_vars
    <2> QED BY <1>1, <1>2, <2>1, ReaderFailsQuiet
  <1>4. CASE RecvPays
    <2>1. PICK p \in {"read", "lock"} : reader' = [reader EXCEPT !.pc = p]
      BY <1>4 DEF RecvPays
    <2>2. /\ call' = call /\ wh' = wh /\ reader.pc = "recv" /\ UNCHANGED <<stopped, stream_over, ended_in_step>>
      BY <1>4 DEF RecvPays, end_vars
    <2>3. Mild(call') /\ p \in ReaderPcs \ {"idle", "busy"} /\ ~ReaderHas
      BY <1>1, <2>2 DEF ReaderPcs, ReaderHas, Mild
    <2>4. QuietStep
      BY <1>1, <2>1, <2>2, <2>3, MovesQuiet
    <2> QED BY <1>2, <2>2, <2>4
  <1>5. CASE RecvInterrupted \/ RecvFails
    <2>1. PICK p \in {"recv", "over"} : reader' = [reader EXCEPT !.pc = p]
      BY <1>5 DEF RecvInterrupted, RecvFails
    <2>2. /\ call' = call /\ wh' = wh /\ reader.pc = "read" /\ UNCHANGED <<stopped, stream_over, ended_in_step>>
      BY <1>5 DEF RecvInterrupted, RecvFails, end_vars
    <2>3. Mild(call') /\ p \in ReaderPcs \ {"idle", "busy"} /\ ~ReaderHas
      BY <1>1, <2>2 DEF ReaderPcs, ReaderHas, Mild
    <2>4. QuietStep
      BY <1>1, <2>1, <2>2, <2>3, MovesQuiet
    <2> QED BY <1>2, <2>2, <2>4
  <1>6. CASE StartDispatch \/ DropReader
    <2>1. \/ reader' = Running("recv", "dispatch")
          \/ reader' = Running("stop", "run")
      BY <1>6 DEF StartDispatch, DropReader, Running
    <2>2. /\ call' = call /\ wh' = wh /\ UNCHANGED <<stopped, stream_over, ended_in_step>>
          /\ ~ReaderHas /\ reader.does # "open"
      BY <1>0, <1>6 DEF StartDispatch, DropReader, ReaderHas, OnInv, end_vars
    <2>3. Mild(call') /\ {"recv", "stop"} \subseteq ReaderPcs
      BY <1>1, <2>2 DEF ReaderPcs, Mild
    <2>4. QuietStep
      BY <1>1, <2>1, <2>2, <2>3, TakenQuiet
    <2> QED BY <1>2, <2>2, <2>4
  <1>7. CASE DropReaderCall
    <2>1. reader' = Running("idle", "none")
      BY <1>7, IdleFacts DEF DropReaderCall, Running, IdleReader
    <2>2. /\ call' = call /\ wh' = wh /\ UNCHANGED <<stopped, stream_over, ended_in_step>>
          /\ ~ReaderHas /\ reader.does # "open"
      BY <1>7 DEF DropReaderCall, ReaderHas, end_vars
    <2>3. Mild(call') /\ "idle" \in ReaderPcs
      BY <1>1, <2>2 DEF ReaderPcs, Mild
    <2>4. QuietStep
      BY <1>1, <2>1, <2>2, <2>3, TakenQuiet
    <2> QED BY <1>2, <2>2, <2>4
  <1>8. CASE EndStream \/ StopInStep
    <2>1. PICK p \in {"stop", "stopped"} : reader' = [reader EXCEPT !.pc = p]
      BY <1>8 DEF EndStream, StopInStep
    <2>2. call' = call /\ wh' = wh /\ reader.pc \in {"over", "stop"} /\ UNCHANGED stopped
      BY <1>8 DEF EndStream, StopInStep
    <2>3. Mild(call') /\ p \in ReaderPcs \ {"idle", "busy"} /\ ~ReaderHas
      BY <1>1, <2>2 DEF ReaderPcs, ReaderHas, Mild
    <2>4. QuietStep
      BY <1>1, <2>1, <2>2, <2>3, MovesQuiet
    <2>5. stream_over' \in BOOLEAN /\ ended_in_step' \in BOOLEAN
      BY <1>0, <1>8 DEF EndStream, StopInStep, TypeOK
    <2>6. FlagsKept
      BY <1>0, <2>2, <2>5 DEF FlagsKept, TypeOK, Over
    <2> QED BY <1>0, <2>4, <2>6, QuietLife
  <1>9. CASE Stop
    <2>1. FlagsKept /\ wh' = wh /\ reader.pc = "stopped" /\ ~ReaderHas
      BY <1>0, <1>9 DEF FlagsKept, TypeOK, Over, Stop, ReaderHas
    <2>2. CASE reader.does = "run"
      <3>1. reader' = [reader EXCEPT !.pc = "done"] /\ call' = wake_all(call)
        BY <1>9, <2>2 DEF Stop
      <3>2. Mild(call') /\ "done" \in ReaderPcs \ {"idle", "busy"}
        BY <1>1, <3>1 DEF ReaderPcs, Mild
      <3>3. QuietStep
        BY <1>1, <2>1, <3>1, <3>2, MovesQuiet
      <3> QED BY <1>0, <2>1, <3>3, QuietLife
    <2>3. CASE reader.does # "run"
      <3>1. ReaderFails(wake_all(call)) /\ Silent
        BY <1>9, <2>1, <2>3 DEF Stop, Silent
      <3>2. QuietStep
        BY <1>1, <2>1, <3>1, ReaderFailsQuiet
      <3> QED BY <1>0, <2>1, <3>2, QuietLife
    <2> QED BY <2>2, <2>3
  <1>10. CASE LockReader
    <2>1. /\ call' = call /\ wh' = TheReader /\ reader.pc = "lock" /\ UNCHANGED <<stopped, stream_over, ended_in_step>>
          /\ reader' = [reader EXCEPT !.pc = "pay"]
      BY <1>10 DEF LockReader, end_vars
    <2>2. Mild(call') /\ "pay" \in ReaderPcs \ {"idle", "busy"} /\ ~ReaderHas
      BY <1>1, <2>1 DEF ReaderPcs, ReaderHas, Mild
    <2>3. QuietStep
      BY <1>1, <2>1, <2>2, MovesQuiet
    <2> QED BY <1>2, <2>1, <2>3
  <1>11. CASE ReaderWakes
    <2>1. reader.pc = "wake" /\ wh' = wh /\ UNCHANGED <<stopped, stream_over, ended_in_step>>
      BY <1>11 DEF ReaderWakes, end_vars
    <2>2. CASE reader.owes
      <3>1. reader' = [reader EXCEPT !.pc = "owe"] /\ call' = wake(call, reader.idx)
        BY <1>11, <2>2 DEF ReaderWakes
      <3>2. Mild(call') /\ "owe" \in ReaderPcs \ {"idle", "busy"}
        BY <1>1, <3>1 DEF ReaderPcs, Mild
      <3>3. QuietStep
        BY <1>1, <2>1, <2>2, <3>1, <3>2, MovesQuiet
      <3> QED BY <1>2, <2>1, <3>3
    <2>3. CASE ~reader.owes
      <3>1. ReaderContinues(wake(call, reader.idx)) /\ Silent /\ reader.pc # "busy"
        BY <1>11, <2>1, <2>3 DEF ReaderWakes, Silent
      <3>2. QuietStep
        BY <1>1, <2>1, <3>1, ReaderContinuesRests, RestsQuiet
      <3> QED BY <1>2, <2>1, <3>2
    <2> QED BY <2>2, <2>3
  <1> QED BY <1>3, <1>4, <1>5, <1>6, <1>7, <1>8, <1>9, <1>10, <1>11

-----------------------------------------------------------------------------
(* Paying what is owed.                                                    *)

(* The Reader and nobody are not calls.                                    *)
LEMMA NotACall == TheReader \notin Calls /\ Free \notin Calls
  BY ChannelLifeAssumption DEF TheReader, Free

(* However lock_write fails its holder ends quietly.                       *)
LEMMA PayFailedQuiet ==
    ASSUME LifeInv, NEW h, Paying(h), NEW cs, Mild(cs), NEW r \in {"none", "ok", "desynchronized", "error"},
           PayFailed(h, cs, r), wh' \in Calls \cup {Free, TheReader}
    PROVE  QuietStep
  <1>1. CASE h = TheReader /\ ReaderFails(cs)
    <2>1. reader.pc = "pay"
      BY <1>1, NotACall DEF Paying
    <2>2. Silent
      BY <2>1 DEF Silent, ReaderHas
    <2> QED BY <1>1, <2>2, ReaderFailsQuiet
  <1>2. CASE h \in Calls /\ call[h].pc = "pay" /\ GiveUp(cs, h)
    <2>1. call[h].pc \in OpenPcs /\ call[h].pc \in Early
      BY <1>2 DEF OpenPcs, Early
    <2> QED BY <1>2, <2>1, GiveUpQuiet
  <1>3. CASE /\ h \in Calls /\ call[h].pc = "closePay" /\ UNCHANGED reader
             /\ call' = [cs EXCEPT ![h] = Ended("closed", r)]
    <2>1. call[h].pc \in ClosePcs \ {"closeOwe"}
      BY <1>3 DEF ClosePcs
    <2> QED BY <1>3, <2>1, ClosedQuiet
  <1> QED BY <1>1, <1>2, <1>3 DEF PayFailed

(* Debts given up, refused or all paid.                                    *)
LEMMA QuietPays ==
    ASSUME LifeInv, PayGone \/ PayRefused \/ Paid
    PROVE  LifeInv'
  <1>0. TypeOK /\ OnInv /\ UNCHANGED <<table, next_local_id, in, device>>
        /\ UNCHANGED <<ack, scenario, transport, stalled, end_vars>>
    BY DEF LifeInv, PayGone, PayRefused, Paid, table_vars, wire_vars
  <1>1. FlagsKept /\ wh \in Calls \cup {Free, TheReader} /\ Free \in Calls \cup {Free, TheReader}
    BY <1>0, FlagsSame DEF TypeOK
  <1>2. Mild(call) /\ Mild(wake_all(call)) /\ Mild(wake_if_desync(call, desync))
    BY <1>0, Wakes
  <1>3. CASE PayGone
    <2>1. Over' /\ owed' = <<>> /\ call' = call /\ reader' = reader /\ wh' = wh
      BY <1>3, <1>0 DEF PayGone, Over
    <2>2. Mild(call') /\ reader' \in ReaderStates /\ ReaderKept
      BY <1>0, <1>2, <2>1 DEF Mild, TypeOK, ReaderKept, SameNote
    <2>3. call' \in [Calls -> CallStates] /\ \A c \in Calls : Keeps(c)
      BY <2>2, NoCall
    <2>4. OnInv'
      BY <1>0, <2>1 DEF OnInv
    <2>5. QuietStep
      BY <1>1, <2>1, <2>2, <2>3, <2>4 DEF QuietStep
    <2> QED BY <1>0, <1>1, <2>1, <2>5, QuietLife
  <1>4. CASE PayRefused
    <2>1. Paying(wh) /\ PayFailed(wh, wake_all(call), "desynchronized") /\ wh' = Free /\ owed' = owed
      BY <1>4 DEF PayRefused, Debt
    <2>2. QuietStep
      BY <1>1, <1>2, <2>1, PayFailedQuiet
    <2> QED BY <1>0, <1>1, <2>1, <2>2, QuietLife
  <1>5. CASE Paid
    <2> DEFINE cs == wake_if_desync(call, desync)
    <2>0. Mild(cs) /\ owed' = owed /\ Paying(wh)
      BY <1>2, <1>5 DEF Paid
    <2> SUFFICES QuietStep
      BY <1>0, <1>1, <2>0, QuietLife
    <2>1. CASE wh = TheReader
      <3>1. wh' = Free /\ IF reader.local = 0 THEN reader' = Receiving /\ call' = cs ELSE ReaderContinues(cs)
        BY <1>5, <2>1, NotACall DEF Paid
      <3>2. reader.pc = "pay" /\ Silent
        BY <2>0, <2>1, NotACall DEF Paying, Silent, ReaderHas
      <3> HIDE DEF cs
      <3>3. CASE reader.local = 0
        <4>1. Mild(call') /\ reader' = Receiving
          BY <2>0, <3>1, <3>3 DEF Mild
        <4> QED BY <1>1, <3>1, <3>2, <4>1, ReceivingRests, RestsQuiet
      <3>4. CASE reader.local # 0
        BY <1>1, <2>0, <3>1, <3>2, <3>4, ReaderContinuesRests, RestsQuiet
      <3> QED BY <3>3, <3>4
    <2>2. CASE wh \in Calls /\ call[wh].pc = "pay"
      <3>1. call' = To(wh, "send") /\ reader' = reader /\ wh' = wh
        BY <1>5, <2>2, NotACall DEF Paid
      <3>2. "send" \in CallPcs /\ GoesOn(wh, "send") /\ "send" \in Early
        BY <2>2 DEF CallPcs, GoesOn, OpenPcs, Holds, Early
      <3> QED BY <1>1, <2>2, <3>1, <3>2, GoesQuiet
    <2>3. CASE wh \in Calls /\ call[wh].pc = "closePay"
      <3>1. call' = [cs EXCEPT ![wh] = Ended("closed", "ok")] /\ reader' = reader /\ wh' = Free
        BY <1>5, <2>3, NotACall DEF Paid
      <3>2. call[wh].pc \in ClosePcs \ {"closeOwe"}
        BY <2>3 DEF ClosePcs
      <3> HIDE DEF cs
      <3> QED BY <1>1, <2>0, <2>3, <3>1, <3>2, ClosedQuiet
    <2> QED BY <1>5, <2>1, <2>2, <2>3 DEF Paid
  <1> QED BY <1>3, <1>4, <1>5

(* A step in which no call and no Reader moves.                            *)
LEMMA StillQuiet ==
    ASSUME LifeInv, call' = call, reader' = reader, wh' = wh
    PROVE  QuietStep
  <1>1. TypeOK /\ OnInv
    BY DEF LifeInv
  <1>2. Mild(call') /\ reader' \in ReaderStates /\ ReaderKept
    BY <1>1, Wakes DEF Mild, TypeOK, ReaderKept, SameNote
  <1>3. call' \in [Calls -> CallStates] /\ \A c \in Calls : Keeps(c)
    BY <1>2, NoCall
  <1>4. OnInv'
    BY <1>1 DEF OnInv
  <1> QED BY <1>1, <1>2, <1>3, <1>4 DEF QuietStep, TypeOK

(* The transport fails or stalls.                                          *)
LEMMA QuietTransport ==
    ASSUME LifeInv, TransportFails \/ TransportStalls
    PROVE  LifeInv'
  <1>1. /\ UNCHANGED <<table, next_local_id, in, device, owed, call, reader, wh, ack, scenario, end_vars>>
    BY DEF TransportFails, TransportStalls, table_vars
  <1>2. FlagsKept
    BY <1>1 DEF LifeInv, TypeOK, TransportFails, TransportStalls, FlagsKept, end_vars, Over
  <1> QED BY <1>1, <1>2, StillQuiet, QuietLife

-----------------------------------------------------------------------------
(* Steps that move packets, debts or the device, and no slot.              *)

(* The device's ends keep their ids.                                       *)
SameEnds ==
    /\ device' \in [Calls -> DeviceEnds]
    /\ \A c \in Calls : /\ device'[c].readies <= scenario'.readies
                        /\ device'[c].local = device[c].local
                        /\ device'[c].state = "none" <=> device[c].state = "none"

(* What the Reader notes stays true of them.                               *)
LEMMA NotesKept ==
    ASSUME LifeInv, ReaderKept, SameEnds
    PROVE  NoteInv'
  <1>1. NamesPeer(reader)' <=> reader'.remote \in Calls /\ reader'.local = device[reader'.remote].local
    BY DEF NamesPeer, SameEnds
  <1> QED BY <1>1 DEF LifeInv, PacketIds, NoteInv, NamesPeer, ReaderKept, ReaderHas, SameNote

(* All that is left to show for such a step is what it does to EndInv.     *)
LEMMA WireLife ==
    ASSUME LifeInv, FlagsKept, UNCHANGED <<table, next_local_id>>,
           call' \in [Calls -> CallStates], reader' \in ReaderStates,
           wh' \in Calls \cup {Free, TheReader}, \A c \in Calls : Moves(c), NoteInv', OnInv',
           in' \in Seq(Inbound), owed' \in Seq(ChannelIds), SameEnds,
           \A p \in Items(in)' \cup Items(owed)' : NamesPeer(p), \A c \in Calls : EndInv(c)'
    PROVE  LifeInv'
  <1>1. TypeOK'
    BY DEF LifeInv, TypeOK, FlagsKept, SameEnds
  <1>2. IdInv' /\ SlotInv'
    BY <1>1, QuietIds, QuietSlots DEF SameEnds
  <1>3. PacketIds'
    BY DEF PacketIds, NamesPeer, SameEnds
  <1>4. ASSUME NEW c \in Calls PROVE CallIds(c)'
    <2>1. CallIds(c) /\ Moves(c)
      BY DEF LifeInv
    <2>2. Holds(c) => call'[c].local = call[c].local
      BY <2>1, HoldsKept
    <2> QED BY <2>1, <2>2 DEF CallIds, Moves, SameEnds
  <1> QED BY <1>1, <1>2, <1>3, <1>4 DEF LifeInv

(* The device takes the first CLSE that is owed.                           *)
LEMMA CloseTaken ==
    ASSUME LifeInv, QuietStep, FlagsKept, UNCHANGED <<table, next_local_id>>, owed # <<>>,
           DeviceTakesClse(Head(owed)), owed' = Tail(owed) \/ (owed' = owed /\ Over')
    PROVE  LifeInv'
  <1>0. TypeOK /\ \A c \in Calls : EndInv(c)
    BY DEF LifeInv
  <1>1. PICK h : h = Head(owed)
    OBVIOUS
  <1>2. h \in ChannelIds /\ Items(owed) = {h} \cup Items(Tail(owed)) /\ Tail(owed) \in Seq(ChannelIds)
        /\ owed \in Seq(ChannelIds) /\ in \in Seq(Inbound)
    BY <1>0, <1>1, ItemsTail DEF TypeOK
  <1>3. PICK o \in Calls : o = h.remote
    BY <1>2 DEF ChannelIds
  <1>4. device[o].local = h.local /\ h.local \in 1 .. IdSpace /\ NamesPeer(h)
    BY <1>2, <1>3 DEF LifeInv, PacketIds, NamesPeer, ChannelIds
  <1> DEFINE e == [cmd |-> "CLSE", local |-> h.local, remote |-> o, payload |-> 0]
             d == [device[o] EXCEPT !.state = "hostClosed", !.readies = 0]
  <1>5. e \in Inbound /\ e.cmd = "CLSE" /\ e.remote = o /\ e.local = h.local
    BY <1>3, <1>4 DEF Inbound
  <1>6. d \in DeviceEnds /\ d.state = "hostClosed" /\ d.readies = 0 /\ d.local = device[o].local
        /\ device \in [Calls -> DeviceEnds]
    BY <1>0 DEF TypeOK, DeviceEnds
  <1>7. \/ device[o].state # "open" /\ device' = device /\ in' = in
        \/ /\ device[o].state = "open" /\ device' = [device EXCEPT ![o] = d]
           /\ in' = in \/ in' = Append(in, e)
    <2>1. CASE device[o].state = "open"
      BY <1>1, <1>3, <1>4, <1>6, <2>1 DEF DeviceTakesClse, FromDevice
    <2>2. CASE device[o].state # "open"
      BY <1>1, <1>3, <2>2 DEF DeviceTakesClse
    <2> QED BY <2>1, <2>2
  <1> HIDE DEF e, d
  <1>8. in' \in Seq(Inbound) /\ Items(in) \subseteq Items(in)' /\ Items(in)' \subseteq Items(in) \cup {e}
        /\ (device[o].state # "open" => Items(in)' = Items(in))
    <2>1. Append(in, e) \in Seq(Inbound) /\ Items(Append(in, e)) = Items(in) \cup {e}
      BY <1>2, <1>5, ItemsAppend
    <2>2. CASE in' = in
      BY <1>2, <2>2 DEF Items
    <2>3. CASE in' = Append(in, e) /\ device[o].state = "open"
      <3>1. Items(in)' = Items(Append(in, e))
        BY <2>3 DEF Items
      <3> QED BY <2>1, <2>3, <3>1
    <2> QED BY <1>7, <2>2, <2>3
  <1>9. /\ owed' \in Seq(ChannelIds) /\ Items(owed)' \subseteq Items(owed)
        /\ Items(owed) \subseteq {h} \cup Items(owed)'
        /\ Over' \/ Items(owed) = {h} \cup Items(owed)'
    <2>1. CASE owed' = Tail(owed)
      <3>1. Items(owed)' = Items(Tail(owed))
        BY <2>1 DEF Items
      <3> QED BY <1>2, <2>1, <3>1
    <2>2. CASE owed' = owed /\ Over'
      <3>1. Items(owed)' = Items(owed)
        BY <2>2 DEF Items
      <3> QED BY <1>2, <2>2, <3>1
    <2> QED BY <2>1, <2>2
  <1>10. /\ device'[o].state # "open" /\ \A c \in Calls \ {o} : device'[c] = device[c]
         /\ device[o].state # "open" => device'[o] = device[o]
         /\ device[o].state = "open" => device'[o].state = "hostClosed"
    BY <1>6, <1>7
  <1>11. SameEnds
    <2>1. \A c \in Calls : device[c].readies <= scenario.readies /\ scenario.readies \in Nat
      BY <1>0, ChannelLifeAssumption DEF TypeOK
    <2>2. scenario' = scenario
      BY DEF FlagsKept
    <2>3. device' \in [Calls -> DeviceEnds] /\ \A c \in Calls : device'[c].readies <= scenario.readies
      BY <1>6, <1>7, <2>1
    <2> QED BY <1>6, <1>7, <2>2, <2>3 DEF SameEnds
  <1>12. \A p \in Items(in)' \cup Items(owed)' : NamesPeer(p)
    <2>1. NamesPeer(e)
      BY <1>3, <1>4, <1>5 DEF NamesPeer
    <2> QED BY <1>8, <1>9, <2>1 DEF LifeInv, PacketIds
  <1>13. ASSUME NEW c \in Calls PROVE EndInv(c)'
    <2>1. EndInv(c) /\ Keeps(c)
      BY <1>0 DEF QuietStep
    <2>2. (Holds(c)' <=> Holds(c)) /\ (Broken(c)' <=> Broken(c)) /\ (Known(c)' <=> Known(c))
          /\ (Holds(c) => SlotOf(c)' = SlotOf(c) /\ call'[c].slot = call[c].slot)
      BY <2>1, HoldsKept DEF Keeps
    <2>3. /\ (reader'.remote = c /\ reader'.pc \in {"wake", "owe"}) <=> (reader.remote = c /\ reader.pc \in {"wake", "owe"})
          /\ (reader'.remote = c /\ reader'.pc = "fail") <=> (reader.remote = c /\ reader.pc = "fail")
          /\ reader'.pc = "fail" => reader'.idx = reader.idx
      <3>1. c # 0 /\ PacketIds
        BY Typed DEF LifeInv
      <3> QED BY <3>1 DEF QuietStep, ReaderKept, ReaderHas, SameNote, PacketIds, NoteInv
    <2>4. /\ Owing(c)' => Owing(c)
          /\ c # o /\ Owing(c) => Owing(c)'
          /\ c = o => Owing(c)
      BY <1>2, <1>3, <1>9, <2>3 DEF Owing
    <2>5. /\ Sent("READY", c)' <=> Sent("READY", c)
          /\ c # o \/ device[o].state # "open" => (Sent("CLSE", c)' <=> Sent("CLSE", c))
      BY <1>5, <1>8 DEF Sent
    <2>6. Coming(c)' <=> Coming(c)
      BY <2>3, <2>5 DEF Coming
    <2>7. CASE c # o
      BY <1>10, <2>1, <2>2, <2>3, <2>4, <2>5, <2>6, <2>7 DEF EndInv, Keeps, FlagsKept
    <2>8. CASE c = o
      BY <1>10, <2>1, <2>2, <2>3, <2>4, <2>5, <2>6, <2>8 DEF EndInv, Keeps, FlagsKept
    <2> QED BY <2>7, <2>8
  <1>14. NoteInv'
    BY <1>11, NotesKept DEF QuietStep
  <1> QED BY <1>8, <1>9, <1>11, <1>12, <1>13, <1>14, WireLife DEF QuietStep, Keeps

(* A CLSE is paid, or abandoned in the middle.                             *)
LEMMA Pays ==
    ASSUME LifeInv, Pay \/ PayAbandoned
    PROVE  LifeInv'
  <1>0. TypeOK /\ owed # <<>> /\ Paying(wh) /\ Mild(wake_all(call)) /\ Free \in Calls \cup {Free, TheReader}
    BY Wakes DEF LifeInv, Pay, PayAbandoned, Debt
  <1>1. CASE Pay
    <2>1. /\ UNCHANGED <<table, next_local_id, call, reader, wh>> /\ owed' = Tail(owed)
          /\ DeviceTakesClse(Head(owed)) /\ UNCHANGED <<ack, scenario, transport, stalled, end_vars>>
      BY <1>1 DEF Pay, table_vars
    <2> QED BY <1>0, <2>1, StillQuiet, FlagsSame, CloseTaken
  <1>2. CASE PayAbandoned
    <2>1. /\ UNCHANGED <<ack, scenario, table, next_local_id, owed, transport, stalled, stopped, stream_over, ended_in_step>>
          /\ desync' = TRUE /\ wh' = Free /\ PayFailed(wh, wake_all(call), "error")
          /\ DeviceTakesClse(Head(owed)) \/ UNCHANGED <<device, in>>
      BY <1>2 DEF PayAbandoned, table_vars
    <2>2. FlagsKept /\ Over'
      BY <1>0, <2>1 DEF TypeOK, FlagsKept, Over
    <2>3. QuietStep
      BY <1>0, <2>1, PayFailedQuiet
    <2> QED BY <1>0, <2>1, <2>2, <2>3, CloseTaken, QuietLife
  <1> QED BY <1>1, <1>2

(* A close waits, is called off, or abandons its write.                    *)
LEMMA Closing ==
    ASSUME LifeInv, NEW c \in Calls, CloseWaits(c)
    PROVE  LifeInv'
  <1>0. TypeOK /\ OnInv /\ Mild(call) /\ call \in [Calls -> CallStates] /\ call[c] \in CallStates
        /\ wh \in Calls \cup {Free, TheReader} /\ Free \in Calls \cup {Free, TheReader}
    BY Wakes DEF LifeInv, TypeOK
  <1>1. /\ UNCHANGED <<ack, scenario, table, next_local_id, reader, owed, transport, stalled, stopped, stream_over, ended_in_step>>
        /\ call[c].pc \in {"closeLock", "closePay"}
    BY DEF CloseWaits, table_vars
  <1>2. reader.on # c
    BY <1>0, <1>1 DEF OnInv, Early
  <1> DEFINE r == [call[c] EXCEPT !.pc = "closeCheck", !.signal = "none"]
             a == [call[c] EXCEPT !.signal = "armed"]
  <1>3. /\ r \in CallStates /\ r.pc = "closeCheck" /\ r.slot = call[c].slot /\ r.local = call[c].local
        /\ a \in CallStates /\ a.pc = call[c].pc /\ a.slot = call[c].slot /\ a.local = call[c].local
    BY <1>0 DEF CallStates, ClosePcs
  <1>4. KeepsAs(c, r) /\ KeepsAs(c, a)
    BY <1>1, <1>3 DEF KeepsAs, Holds, OpenPcs, Early
  <1>5. [call EXCEPT ![c].signal = "armed"] = [call EXCEPT ![c] = a]
        /\ [call EXCEPT ![c] = [@ EXCEPT !.pc = "closeCheck", !.signal = "none"]] = [call EXCEPT ![c] = r]
    BY <1>0
  <1> HIDE DEF r, a
  <1>6. ASSUME NEW x \in {r, a}, call' = [call EXCEPT ![c] = x], UNCHANGED <<wh, device, in, desync>>
        PROVE  LifeInv'
    <2>1. FlagsKept
      BY <1>0, <1>1, <1>6, FlagsSame DEF end_vars
    <2>2. x \in CallStates /\ KeepsAs(c, x) /\ x.pc # "reading"
      BY <1>1, <1>3, <1>4, <1>6
    <2>3. QuietStep
      BY <1>0, <1>1, <1>2, <1>6, <2>2, CallQuiet
    <2> QED BY <1>1, <1>6, <2>1, <2>3, QuietLife
  <1>7. ASSUME call' = wake_all([call EXCEPT ![c] = r]), desync' = TRUE, wh' = Free, owed # <<>>,
               DeviceTakesClse(Head(owed)) \/ UNCHANGED <<device, in>>
        PROVE  LifeInv'
    <2>1. FlagsKept /\ Over'
      BY <1>0, <1>1, <1>7 DEF TypeOK, FlagsKept, Over
    <2> DEFINE cs == [call EXCEPT ![c] = r]
               x == wake_all(cs)[c]
               ws == [d \in Calls |-> IF d = c THEN call[c] ELSE wake_all(cs)[d]]
    <2>2. cs \in [Calls -> CallStates] /\ cs[c] = r /\ \A d \in Calls \ {c} : cs[d] = call[d]
      BY <1>0, <1>3
    <2>3. ASSUME NEW y \in CallStates
          PROVE  [y EXCEPT !.signal = "notified"] \in CallStates /\ SameCall([y EXCEPT !.signal = "notified"], y)
      BY DEF CallStates, SameCall
    <2>4. \A d \in Calls : wake_all(cs)[d] \in CallStates /\ SameCall(wake_all(cs)[d], cs[d])
      <3> HIDE DEF cs
      <3> QED BY <2>2, <2>3 DEF wake_all, notify, SameCall
    <2>5. wake_all(cs) = [d \in Calls |-> wake_all(cs)[d]]
      BY DEF wake_all, notify
    <2>6. Mild(ws)
      <3>1. \A d \in Calls : ws[d] \in CallStates /\ SameCall(ws[d], call[d])
        BY <1>0, <2>2, <2>4 DEF SameCall
      <3> QED BY <3>1 DEF Mild
    <2>7. x \in CallStates /\ x.pc = "closeCheck" /\ x.slot = call[c].slot /\ x.local = call[c].local
      BY <1>3, <2>2, <2>4 DEF SameCall
    <2>8. call' = [ws EXCEPT ![c] = x]
      BY <1>7, <2>5
    <2> HIDE DEF x, ws
    <2>9. KeepsAs(c, x)
      BY <1>1, <2>7 DEF KeepsAs, Holds, OpenPcs, Early
    <2>10. QuietStep
      BY <1>0, <1>1, <1>2, <1>7, <2>6, <2>7, <2>8, <2>9, CallQuiet
    <2> QED BY <1>1, <1>7, <2>1, <2>10, CloseTaken, QuietLife
  <1>8. \/ call' = [call EXCEPT ![c] = a] /\ UNCHANGED <<wh, device, in, desync>>
        \/ call' = [call EXCEPT ![c] = r] /\ UNCHANGED <<wh, device, in, desync>>
        \/ /\ call' = wake_all([call EXCEPT ![c] = r]) /\ desync' = TRUE /\ wh' = Free /\ owed # <<>>
           /\ DeviceTakesClse(Head(owed)) \/ UNCHANGED <<device, in>>
    BY <1>5 DEF CloseWaits
  <1> QED BY <1>6, <1>7, <1>8

(* The device sends a packet of its own accord.                            *)
LEMMA DeviceSends ==
    ASSUME LifeInv, NEW c \in Calls, DeviceReady(c) \/ DeviceCloses(c)
    PROVE  LifeInv'
  <1>0. /\ TypeOK /\ PacketIds /\ UNCHANGED <<table, next_local_id, call, reader, owed, wh>>
        /\ UNCHANGED <<ack, scenario, transport, stalled, end_vars>> /\ device[c].state \in {"asked", "open"}
    BY DEF LifeInv, DeviceReady, DeviceCloses, table_vars
  <1>1. FlagsKept /\ QuietStep
    BY <1>0, FlagsSame, StillQuiet
  <1>2. /\ device[c] \in DeviceEnds /\ device \in [Calls -> DeviceEnds] /\ device[c].local \in 1 .. IdSpace
        /\ in \in Seq(Inbound) /\ owed \in Seq(ChannelIds) /\ scenario.readies \in Nat
        /\ \A d \in Calls : device[d].readies <= scenario.readies
    <2>1. device[c].local # 0 /\ device[c].local \in 0 .. IdSpace
      BY <1>0, Typed DEF LifeInv, CallIds
    <2> QED BY <1>0, <2>1, ChannelLifeAssumption DEF TypeOK
  <1>3. PICK e \in Inbound : /\ in' = Append(in, e) /\ e.remote = c /\ e.local = device[c].local
                             /\ e.cmd = "READY" <=> DeviceReady(c)
                             /\ e.cmd = "CLSE" <=> ~DeviceReady(c)
    <2>1. CASE DeviceReady(c)
      <3>1. PICK x \in {1, ShortPayload} : FromDevice("READY", c, device[c].local, x)
        BY <2>1 DEF DeviceReady
      <3>2. in' = Append(in, [cmd |-> "READY", local |-> device[c].local, remote |-> c, payload |-> x])
        BY <3>1 DEF FromDevice
      <3>3. [cmd |-> "READY", local |-> device[c].local, remote |-> c, payload |-> x] \in Inbound
        BY <1>2, <3>1 DEF Inbound
      <3> QED BY <2>1, <3>2, <3>3
    <2>2. CASE ~DeviceReady(c)
      <3>1. in' = Append(in, [cmd |-> "CLSE", local |-> device[c].local, remote |-> c, payload |-> 0])
        BY <2>2 DEF DeviceCloses, FromDevice
      <3>2. [cmd |-> "CLSE", local |-> device[c].local, remote |-> c, payload |-> 0] \in Inbound
        BY <1>2 DEF Inbound
      <3> QED BY <2>2, <3>1, <3>2
    <2> QED BY <2>1, <2>2
  <1>4. PICK d \in DeviceEnds : /\ device' = [device EXCEPT ![c] = d] /\ d.local = device[c].local
                                /\ d.readies <= scenario.readies
                                /\ DeviceReady(c) => d.state = "open"
                                /\ ~DeviceReady(c) => d.state = "closed"
    <2>1. CASE DeviceReady(c)
      <3> DEFINE x == [device[c] EXCEPT !.state = "open", !.readies = device[c].readies + 1]
      <3>1. device' = [device EXCEPT ![c] = x] /\ device[c].readies < scenario.readies
        BY <1>2, <2>1 DEF DeviceReady
      <3>2. device[c].readies \in Nat
        BY <1>2 DEF DeviceEnds
      <3>3. device[c].readies + 1 \in Nat /\ device[c].readies + 1 <= scenario.readies
        BY <1>2, <3>1, <3>2
      <3>4. x \in DeviceEnds /\ x.local = device[c].local /\ x.state = "open" /\ x.readies = device[c].readies + 1
        BY <1>2, <3>3 DEF DeviceEnds
      <3>5. x.readies <= scenario.readies
        BY <3>3, <3>4
      <3> HIDE DEF x
      <3> QED BY <2>1, <3>1, <3>4, <3>5
    <2>2. CASE ~DeviceReady(c)
      <3> DEFINE x == [device[c] EXCEPT !.state = "closed", !.readies = 0]
      <3>1. device' = [device EXCEPT ![c] = x]
        BY <1>2, <2>2 DEF DeviceCloses
      <3>2. x \in DeviceEnds /\ x.local = device[c].local /\ x.state = "closed" /\ x.readies = 0
        BY <1>2 DEF DeviceEnds
      <3>3. x.readies <= scenario.readies
        BY <1>2, <3>2
      <3> HIDE DEF x
      <3> QED BY <2>2, <3>1, <3>2, <3>3
    <2> QED BY <2>1, <2>2
  <1>5. in' \in Seq(Inbound) /\ Items(in)' = Items(in) \cup {e} /\ owed' \in Seq(ChannelIds) /\ Items(owed)' = Items(owed)
    <2>1. Append(in, e) \in Seq(Inbound) /\ Items(Append(in, e)) = Items(in) \cup {e}
      BY <1>2, ItemsAppend
    <2> QED BY <1>0, <1>2, <1>3, <2>1 DEF Items
  <1>6. SameEnds
    BY <1>0, <1>2, <1>4 DEF SameEnds
  <1>7. \A p \in Items(in)' \cup Items(owed)' : NamesPeer(p)
    BY <1>0, <1>3, <1>5 DEF PacketIds, NamesPeer
  <1>8. ASSUME NEW o \in Calls PROVE EndInv(o)'
    <2>1. EndInv(o) /\ Moves(o)
      BY <1>1 DEF LifeInv, QuietStep, Keeps
    <2>2. (Holds(o)' <=> Holds(o)) /\ (Broken(o)' <=> Broken(o)) /\ (Known(o)' <=> Known(o))
          /\ (Holds(o) => SlotOf(o)' = SlotOf(o))
      BY <1>0, <2>1, HoldsKept
    <2>3. (Owing(o)' <=> Owing(o)) /\ (Over' <=> Over)
      BY <1>0, <1>5 DEF Owing, Over, end_vars
    <2>4. CASE o # c
      <3>1. device'[o] = device[o] /\ \A cmd : Sent(cmd, o)' <=> Sent(cmd, o)
        BY <1>2, <1>3, <1>4, <1>5, <2>4 DEF Sent
      <3>2. Coming(o)' <=> Coming(o)
        BY <1>0, <3>1 DEF Coming
      <3> QED BY <1>0, <2>1, <2>2, <2>3, <3>1, <3>2 DEF EndInv
    <2>5. CASE o = c /\ DeviceReady(c)
      <3>1. device'[o].state = "open" /\ Sent("READY", o)' /\ (Sent("CLSE", o)' <=> Sent("CLSE", o))
        BY <1>2, <1>3, <1>4, <1>5, <2>5 DEF Sent
      <3>2. Coming(o)'
        BY <3>1 DEF Coming
      <3> QED BY <1>0, <2>1, <2>2, <2>3, <2>5, <3>1, <3>2 DEF EndInv
    <2>6. CASE o = c /\ ~DeviceReady(c)
      <3>1. device'[o].state = "closed"
        BY <1>2, <1>4, <2>6
      <3> QED BY <1>0, <2>1, <2>2, <2>3, <2>6, <3>1 DEF EndInv
    <2> QED BY <2>4, <2>5, <2>6
  <1>9. NoteInv'
    BY <1>1, <1>6, NotesKept DEF QuietStep
  <1> QED BY <1>0, <1>1, <1>5, <1>6, <1>7, <1>8, <1>9, WireLife DEF QuietStep, Keeps

(* What the Reader has to say about a channel.                             *)
Noted(c) == reader.remote = c /\ reader.pc \in {"wake", "owe"}
Failing(c) == reader.remote = c /\ reader.pc = "fail"

(* A CLSE becomes owed: by a close, or by the Reader.                      *)
LEMMA DebtAdded ==
    ASSUME LifeInv, FlagsKept, UNCHANGED <<table, next_local_id, in, device>>,
           call' \in [Calls -> CallStates], reader' \in ReaderStates,
           wh' \in Calls \cup {Free, TheReader}, \A c \in Calls : Moves(c), NoteInv', OnInv',
           NEW o \in Calls, NEW l \in 1 .. IdSpace, l = device[o].local,
           owed' = Append(owed, [local |-> l, remote |-> o]),
           Holds(o) /\ ~Broken(o) => Owing(o),
           \A c \in Calls \ {o} : Keeps(c),
           \A c \in Calls \ {o} : Noted(c)' <=> Noted(c),
           \A c \in Calls : Failing(c)' <=> Failing(c), reader'.pc = "fail" => reader'.idx = reader.idx
    PROVE  LifeInv'
  <1>0. TypeOK /\ PacketIds
    BY DEF LifeInv
  <1> DEFINE e == [local |-> l, remote |-> o]
  <1>1. e \in ChannelIds /\ e.remote = o /\ e.local = l /\ NamesPeer(e)
    BY DEF ChannelIds, NamesPeer
  <1> HIDE DEF e
  <1>2. owed' \in Seq(ChannelIds) /\ Items(owed)' = Items(owed) \cup {e} /\ in' \in Seq(Inbound) /\ Items(in)' = Items(in)
    <2>1. owed \in Seq(ChannelIds) /\ in \in Seq(Inbound)
      BY <1>0 DEF TypeOK
    <2>2. Append(owed, e) \in Seq(ChannelIds) /\ Items(Append(owed, e)) = Items(owed) \cup {e}
      BY <1>1, <2>1, ItemsAppend
    <2>3. owed' = Append(owed, e)
      BY DEF e
    <2>4. Items(owed)' = Items(Append(owed, e)) /\ Items(in)' = Items(in)
      BY <2>3 DEF Items
    <2> QED BY <2>1, <2>2, <2>3, <2>4
  <1>3. SameEnds
    BY <1>0 DEF SameEnds, TypeOK, FlagsKept
  <1>4. \A p \in Items(in)' \cup Items(owed)' : NamesPeer(p)
    BY <1>0, <1>1, <1>2 DEF PacketIds
  <1>5. ASSUME NEW c \in Calls PROVE EndInv(c)'
    <2>1. EndInv(c) /\ Moves(c)
      BY DEF LifeInv
    <2>2. (Holds(c)' <=> Holds(c)) /\ (Broken(c)' <=> Broken(c)) /\ (Known(c)' <=> Known(c))
          /\ (Holds(c) => SlotOf(c)' = SlotOf(c) /\ call'[c].slot = call[c].slot)
      BY <2>1, HoldsKept
    <2>3. (\A cmd : Sent(cmd, c)' <=> Sent(cmd, c)) /\ (Coming(c)' <=> Coming(c))
      BY <1>2 DEF Sent, Coming, Failing
    <2>4. (c # o => (Owing(c)' <=> Owing(c))) /\ Owing(o)'
      BY <1>1, <1>2 DEF Owing, Noted
    <2>5. CASE c # o
      BY <2>1, <2>2, <2>3, <2>4, <2>5 DEF EndInv, Keeps, FlagsKept, Failing
    <2>6. CASE c = o
      BY <2>1, <2>2, <2>3, <2>4, <2>6 DEF EndInv, FlagsKept, Failing
    <2> QED BY <2>5, <2>6
  <1> QED BY <1>2, <1>3, <1>4, <1>5, WireLife

(* A close owes its CLSE.                                                  *)
LEMMA CloseOwed ==
    ASSUME LifeInv, NEW c \in Calls, CloseOwes(c)
    PROVE  LifeInv'
  <1>0. /\ TypeOK /\ OnInv /\ UNCHANGED <<table, next_local_id, in, device, reader, wh>>
        /\ UNCHANGED <<ack, scenario, transport, stalled, end_vars>> /\ call[c].pc = "closeOwe"
    BY DEF LifeInv, CloseOwes, table_vars, wire_vars
  <1>1. FlagsKept /\ wh' \in Calls \cup {Free, TheReader} /\ reader' \in ReaderStates
        /\ Mild(wake_receive(call))
    BY <1>0, FlagsSame, Wakes DEF TypeOK
  <1>2. PICK cs : cs = wake_receive(call)
    OBVIOUS
  <1> DEFINE r == [cs[c] EXCEPT !.pc = "closeUntil"]
  <1>3. cs \in [Calls -> CallStates] /\ \A d \in Calls : SameCall(cs[d], call[d])
    BY <1>1, <1>2 DEF Mild
  <1>4. r \in CallStates /\ r.pc = "closeUntil" /\ r.slot = call[c].slot /\ r.local = call[c].local
    BY <1>3 DEF CallStates, SameCall, ClosePcs
  <1>5. call' = [cs EXCEPT ![c] = r]
    BY <1>2, <1>3 DEF CloseOwes
  <1> HIDE DEF r
  <1>6. call' \in [Calls -> CallStates] /\ call'[c] = r /\ \A d \in Calls \ {c} : call'[d] = cs[d]
    BY <1>3, <1>4, <1>5
  <1>7. Moves(c) /\ ~Holds(c)
    BY <1>0, <1>4, <1>6 DEF Moves, Holds, OpenPcs, Early
  <1>8. \A d \in Calls \ {c} : Keeps(d) /\ call'[d].pc = call[d].pc
    BY <1>3, <1>6 DEF SameCall, Keeps, Moves, Holds
  <1>9. OnInv'
    <2>1. reader.on # c
      BY <1>0 DEF OnInv, Early
    <2> QED BY <1>0, <1>4, <1>6, <1>8, <2>1 DEF OnInv
  <1>10. SameEnds /\ ReaderKept
    BY <1>0 DEF SameEnds, TypeOK, ReaderKept, SameNote
  <1>11. NoteInv'
    BY <1>10, NotesKept
  <1>12. PICK l \in 1 .. IdSpace : l = call[c].local /\ l = device[c].local
    <2>1. CallIds(c) /\ IdInv
      BY DEF LifeInv
    <2>2. call[c].local # 0 /\ device[c].local # 0
      BY <1>0, <2>1 DEF CallIds
    <2>3. call[c].local = device[c].local
      BY <2>1, <2>2 DEF IdInv
    <2> QED BY <1>0, <2>2, <2>3, Typed
  <1>13. owed' = Append(owed, [local |-> l, remote |-> c])
    BY <1>12 DEF CloseOwes
  <1>14. \A d \in Calls : (Noted(d)' <=> Noted(d)) /\ (Failing(d)' <=> Failing(d))
    BY <1>0 DEF Noted, Failing
  <1>15. \A d \in Calls : Moves(d)
    BY <1>7, <1>8 DEF Keeps
  <1> QED BY <1>0, <1>1, <1>6, <1>7, <1>8, <1>9, <1>11, <1>12, <1>13, <1>14, <1>15, DebtAdded

(* The Reader owes a CLSE.                                                 *)
LEMMA ReaderOwed ==
    ASSUME LifeInv, ReaderOwes
    PROVE  LifeInv'
  <1>0. /\ TypeOK /\ OnInv /\ NoteInv /\ UNCHANGED <<table, next_local_id, in, device, wh>>
        /\ UNCHANGED <<ack, scenario, transport, stalled, end_vars>> /\ reader.pc = "owe"
    BY DEF LifeInv, PacketIds, ReaderOwes, table_vars, wire_vars
  <1>1. FlagsKept /\ wh' \in Calls \cup {Free, TheReader} /\ Mild(wake_receive(call)) /\ reader \in ReaderStates
    BY <1>0, FlagsSame, Wakes DEF TypeOK
  <1>2. PICK o \in Calls, l \in 1 .. IdSpace : o = reader.remote /\ l = reader.local /\ l = device[o].local
    <2>1. NamesPeer(reader) /\ reader.local # 0
      BY <1>0 DEF NoteInv, ReaderHas
    <2>2. reader.local \in 0 .. IdSpace
      BY <1>1 DEF ReaderStates
    <2> QED BY <2>1, <2>2, Typed DEF NamesPeer, LifeInv
  <1>3. owed' = Append(owed, [local |-> l, remote |-> o])
    BY <1>2 DEF ReaderOwes
  <1>4. /\ call' \in [Calls -> CallStates] /\ reader' \in ReaderStates /\ \A c \in Calls : Keeps(c)
        /\ OnInv' /\ ~ReaderHas' /\ NoteInv'
    <2>1. CASE check_live
      <3>1. reader' = [reader EXCEPT !.pc = "lock"] /\ call' = wake_receive(call) /\ "lock" \in ReaderPcs
        BY <2>1 DEF ReaderOwes, ReaderPcs
      <3>2. reader' \in ReaderStates /\ reader'.pc = "lock" /\ SameUse(reader', reader)
        BY <1>1, <3>1, ReaderMoves
      <3>3. Mild(call')
        BY <1>1, <3>1 DEF Mild
      <3>4. call' \in [Calls -> CallStates] /\ \A d \in Calls : Keeps(d) /\ call'[d].pc = call[d].pc
        BY <3>3, NoCall
      <3>5. OnInv' /\ ~ReaderHas' /\ NoteInv'
        BY <1>0, <3>2, <3>4 DEF OnInv, SameUse, ReaderHas, NoteInv
      <3> QED BY <3>2, <3>4, <3>5
    <2>2. CASE ~check_live
      <3>1. Rests
        BY <1>0, <1>1, <2>2, ReaderContinuesRests DEF ReaderOwes
      <3>2. NoteInv'
        BY <3>1 DEF Rests, NoteInv, ReaderHas
      <3> QED BY <3>1, <3>2 DEF Rests
    <2> QED BY <2>1, <2>2
  <1>5. \A c \in Calls : (Failing(c)' <=> Failing(c)) /\ (c # o => (Noted(c)' <=> Noted(c)))
    BY <1>0, <1>2, <1>4 DEF Failing, Noted, ReaderHas
  <1>6. Owing(o)
    BY <1>0, <1>2 DEF Owing
  <1>7. reader'.pc # "fail" /\ \A c \in Calls : Moves(c)
    BY <1>4 DEF ReaderHas, Keeps
  <1> QED BY <1>0, <1>1, <1>2, <1>3, <1>4, <1>5, <1>6, <1>7, DebtAdded

-----------------------------------------------------------------------------
(* The device learns of an OPEN.                                           *)

(* Nothing is on its way for a call before its OPEN.                       *)
LEMMA NothingYet ==
    ASSUME LifeInv, NEW c \in Calls, device[c].state = "none"
    PROVE  /\ device[c].local = 0 /\ ~Owing(c) /\ ~Coming(c) /\ ~Noted(c) /\ ~Failing(c)
           /\ \A p \in Items(in) \cup Items(owed) : p.remote # c
  <1>1. TypeOK /\ PacketIds /\ CallIds(c)
    BY DEF LifeInv
  <1>2. device[c].local = 0
    BY <1>1 DEF CallIds
  <1>3. \A p \in Items(in) \cup Items(owed) : p.local # 0
    <2>1. Items(in) \subseteq Inbound /\ Items(owed) \subseteq ChannelIds
      BY <1>1 DEF TypeOK, Items
    <2>2. \A p \in Inbound : p.local \in 1 .. IdSpace
      BY DEF Inbound
    <2>3. \A p \in ChannelIds : p.local \in 1 .. IdSpace
      BY DEF ChannelIds
    <2>4. 0 \notin 1 .. IdSpace
      BY <1>1, Typed
    <2> QED BY <2>1, <2>2, <2>3, <2>4
  <1>4. \A p \in Items(in) \cup Items(owed) : p.remote # c
    BY <1>1, <1>2, <1>3 DEF PacketIds, NamesPeer
  <1>5. ~(ReaderHas /\ reader.remote = c)
    BY <1>1, <1>2, Typed DEF PacketIds, NoteInv, NamesPeer
  <1> QED BY <1>2, <1>4, <1>5 DEF Owing, Coming, Sent, Noted, Failing, ReaderHas

(* An OPEN gives the device's end the id of its call.                      *)
LEMMA OpenTaken ==
    ASSUME LifeInv, QuietStep, FlagsKept, UNCHANGED <<table, next_local_id, owed>>, NEW c \in Calls,
           call[c].pc = "send", call'[c].pc \notin {"new"} \cup Early, DeviceTakesOpen(c)
    PROVE  LifeInv'
  <1>0. TypeOK /\ PacketIds /\ in' = in
    BY DEF LifeInv, DeviceTakesOpen
  <1>1. device[c].state = "none" /\ call[c].local \in 0 .. IdSpace /\ call[c].local # 0 /\ Holds(c) /\ device[c] \in DeviceEnds
        /\ device \in [Calls -> DeviceEnds]
    <2>1. CallIds(c) /\ Holds(c)
      BY DEF LifeInv, Holds, OpenPcs
    <2> QED BY <1>0, <2>1, Typed DEF CallIds, Early, TypeOK
  <1> DEFINE d == [device[c] EXCEPT !.state = "asked", !.local = call[c].local]
  <1>2. d \in DeviceEnds /\ d.state = "asked" /\ d.local = call[c].local /\ d.readies = device[c].readies
    BY <1>1 DEF DeviceEnds
  <1>3. device' = [device EXCEPT ![c] = d]
    BY <1>1 DEF DeviceTakesOpen
  <1> HIDE DEF d
  <1>4. /\ device' \in [Calls -> DeviceEnds] /\ device'[c] = d /\ \A o \in Calls \ {c} : device'[o] = device[o]
    BY <1>1, <1>2, <1>3
  <1>5. TypeOK'
    <2>1. \A o \in Calls : device'[o].readies <= scenario'.readies
      BY <1>0, <1>2, <1>4 DEF TypeOK, FlagsKept
    <2> QED BY <1>0, <1>4, <2>1 DEF TypeOK, QuietStep, FlagsKept
  <1>6. \A o \in Calls : Moves(o)
    BY DEF QuietStep, Keeps
  <1>7. call'[c].local = call[c].local
    BY <1>1, <1>6, HoldsKept
  <1>8. IdInv'
    <2>1. Started' = Started
      BY <1>6 DEF Moves, Started
    <2>2. \A o \in Calls : call'[o].local \in {0, call[o].local}
      BY <1>6 DEF Moves
    <2> QED BY <1>2, <1>4, <1>5, <1>7, <2>1, <2>2, IdsKept
  <1>9. SlotInv'
    <2>1. \A o \in Calls : device[o].state # "none" => device'[o].state # "none"
      BY <1>1, <1>4
    <2> QED BY <1>6, <2>1, QuietSlots
  <1>10. PacketIds'
    <2>1. Items(in)' = Items(in) /\ Items(owed)' = Items(owed)
      BY <1>0 DEF Items
    <2>2. \A p \in Items(in) \cup Items(owed) : p.remote # c /\ p.remote \in Calls /\ p.local = device[p.remote].local
      BY <1>0, <1>1, NothingYet DEF PacketIds, NamesPeer
    <2>3. \A p \in Items(in)' \cup Items(owed)' : NamesPeer(p)'
      BY <1>4, <2>1, <2>2 DEF NamesPeer
    <2>4. ~(ReaderHas /\ reader.remote = c)
      BY <1>1, NothingYet DEF Noted, Failing, ReaderHas
    <2>5. NoteInv'
      <3>1. reader'.remote # c => (NamesPeer(reader)' <=> reader'.remote \in Calls /\ reader'.local = device[reader'.remote].local)
        BY <1>4 DEF NamesPeer
      <3> QED BY <1>0, <2>4, <3>1 DEF PacketIds, NoteInv, NamesPeer, QuietStep, ReaderKept, ReaderHas, SameNote
    <2> QED BY <2>3, <2>5 DEF PacketIds
  <1>11. ASSUME NEW o \in Calls PROVE CallIds(o)' /\ EndInv(o)'
    <2>1. CallIds(o) /\ EndInv(o) /\ Keeps(o)
      BY DEF LifeInv, QuietStep
    <2>2. /\ (Holds(o)' <=> Holds(o)) /\ (Broken(o)' <=> Broken(o)) /\ (Known(o)' <=> Known(o))
          /\ Holds(o) => /\ SlotOf(o)' = SlotOf(o) /\ call'[o].slot = call[o].slot
                         /\ call'[o].local = call[o].local
      BY <1>6, HoldsKept
    <2>3. (Noted(o)' <=> Noted(o)) /\ (Failing(o)' <=> Failing(o)) /\ (reader'.pc = "fail" => reader'.idx = reader.idx)
      <3>1. o # 0
        BY <1>0, Typed
      <3> QED BY <1>0, <3>1 DEF QuietStep, ReaderKept, ReaderHas, SameNote, PacketIds, NoteInv, Noted, Failing
    <2>4. (Owing(o)' <=> Owing(o)) /\ (Coming(o)' <=> Coming(o)) /\ (\A cmd : Sent(cmd, o)' <=> Sent(cmd, o))
      BY <1>0, <2>3 DEF Owing, Coming, Sent, Items, Noted, Failing
    <2>5. CASE o = c
      <3>1. CallIds(o)'
        BY <1>1, <1>2, <1>4, <1>7, <2>1, <2>5 DEF CallIds
      <3>2. EndInv(o)'
        BY <1>1, <1>2, <1>4, <2>1, <2>2, <2>3, <2>4, <2>5 DEF EndInv, Failing
      <3> QED BY <3>1, <3>2
    <2>6. CASE o # c
      <3>1. CallIds(o)'
        BY <1>4, <2>1, <2>2, <2>6 DEF CallIds, Keeps, Moves
      <3>2. EndInv(o)'
        BY <1>4, <2>1, <2>2, <2>3, <2>4, <2>6 DEF EndInv, Failing, Keeps, FlagsKept
      <3> QED BY <3>1, <3>2
    <2> QED BY <2>5, <2>6
  <1> QED BY <1>5, <1>8, <1>9, <1>10, <1>11 DEF LifeInv, QuietStep

(* The OPEN is sent, or abandoned and perhaps received.                    *)
LEMMA OpenSent ==
    ASSUME LifeInv, NEW c \in Calls, SendOpen(c) \/ SendAbandoned(c)
    PROVE  LifeInv'
  <1>0. TypeOK /\ OnInv /\ NoteInv /\ call[c].pc = "send" /\ UNCHANGED <<table, next_local_id, owed>> /\ wh' = Free
        /\ Free \in Calls \cup {Free, TheReader}
    BY DEF LifeInv, PacketIds, SendOpen, SendAbandoned, table_vars
  <1>1. Mild(call) /\ Mild(wake_all(call)) /\ call \in [Calls -> CallStates] /\ reader \in ReaderStates
    BY <1>0, Wakes DEF TypeOK
  <1>2. CASE SendOpen(c)
    <2>1. /\ UNCHANGED <<ack, scenario, transport, stalled, end_vars>> /\ DeviceTakesOpen(c)
      BY <1>2 DEF SendOpen, table_vars
    <2>2. FlagsKept
      BY <1>0, <2>1, FlagsSame
    <2>3. PICK p \in {"reading", "listen"} : call' = To(c, p) /\ (p = "reading" <=> reader.on = c)
      BY <1>2 DEF SendOpen
    <2> DEFINE r == [call[c] EXCEPT !.pc = p]
    <2>4. r \in CallStates /\ r.pc = p /\ r.slot = call[c].slot /\ r.local = call[c].local
      BY <1>1 DEF CallStates, OpenPcs
    <2>5. call' = [call EXCEPT ![c] = r]
      BY <1>1, <2>3 DEF To
    <2> HIDE DEF r
    <2>6. KeepsAs(c, r)
      BY <1>0, <2>4 DEF KeepsAs, Holds, OpenPcs, Early
    <2>7. /\ call' \in [Calls -> CallStates] /\ \A d \in Calls : Keeps(d)
          /\ call'[c].pc = p /\ \A d \in Calls \ {c} : call'[d].pc = call[d].pc
      BY <1>1, <2>4, <2>5, <2>6, OneCall
    <2>8. QuietStep
      <3>1. CASE reader.on = c
        <4>1. reader' = [reader EXCEPT !.pc = "recv"] /\ "recv" \in ReaderPcs
          BY <1>2, <3>1 DEF SendOpen, ReaderPcs
        <4>2. reader' \in ReaderStates /\ reader'.pc = "recv" /\ SameNote(reader', reader) /\ SameUse(reader', reader)
          BY <1>1, <4>1, ReaderMoves
        <4>3. reader.pc = "busy"
          BY <1>0, <3>1 DEF OnInv, Early
        <4>4. ReaderKept
          BY <1>0, <4>2, <4>3 DEF ReaderKept, ReaderHas, NoteInv, SameNote
        <4>5. OnInv'
          BY <1>0, <2>3, <2>7, <3>1, <4>2 DEF OnInv, SameUse, Early
        <4> QED BY <1>0, <2>7, <4>2, <4>4, <4>5 DEF QuietStep
      <3>2. CASE reader.on # c
        <4>1. reader' = reader /\ r.pc # "reading"
          BY <1>2, <2>3, <2>4, <3>2 DEF SendOpen
        <4> QED BY <1>0, <1>1, <2>4, <2>5, <2>6, <3>2, <4>1, CallQuiet
      <3> QED BY <3>1, <3>2
    <2>9. call'[c].pc \notin {"new"} \cup Early
      BY <2>7 DEF Early
    <2> QED BY <1>0, <2>1, <2>2, <2>8, <2>9, OpenTaken
  <1>3. CASE SendAbandoned(c)
    <2>1. /\ UNCHANGED <<ack, scenario, transport, stalled, stopped, stream_over, ended_in_step>>
          /\ DeviceTakesOpen(c) \/ UNCHANGED <<device, in>>
          /\ GiveUp(wake_all(call), c) /\ desync' = TRUE
      BY <1>3 DEF SendAbandoned, table_vars
    <2>2. FlagsKept
      BY <1>0, <2>1 DEF TypeOK, FlagsKept, Over
    <2>3. call[c].pc \in OpenPcs /\ call[c].pc \in Early
      BY <1>0 DEF OpenPcs, Early
    <2>4. QuietStep
      BY <1>0, <1>1, <2>1, <2>3, GiveUpQuiet
    <2>5. call'[c].pc = "guard"
      <3>1. PICK cs : cs = wake_all(call)
        OBVIOUS
      <3>2. cs[c] \in CallStates /\ call' = [cs EXCEPT ![c] = [cs[c] EXCEPT !.pc = "guard", !.signal = "none"]]
            /\ cs \in [Calls -> CallStates]
        BY <1>1, <2>1, <3>1 DEF Mild, GiveUp
      <3> QED BY <3>2 DEF CallStates
    <2>6. call'[c].pc \notin {"new"} \cup Early
      BY <2>5 DEF Early
    <2> QED BY <1>0, <2>1, <2>2, <2>4, <2>6, OpenTaken, QuietLife
  <1> QED BY <1>2, <1>3

-----------------------------------------------------------------------------
(* The Reader takes a packet.                                              *)

(* The packet has the ids of one channel, and the rest stay in flight.     *)
LEMMA TakenFacts ==
    ASSUME LifeInv, in # <<>>, in' = Tail(in), NEW p, p = Head(in)
    PROVE  /\ p \in Inbound /\ in' \in Seq(Inbound) /\ Items(in)' \subseteq Items(in)
           /\ p.remote \in Calls /\ p.local = device[p.remote].local /\ p.local \in 1 .. IdSpace
           /\ p.local # 0 /\ Owns(p.remote, p.local) /\ Sent(p.cmd, p.remote)
           /\ \A d \in Calls : \A cmd :
                /\ Sent(cmd, d)' => Sent(cmd, d)
                /\ d # p.remote \/ cmd # p.cmd => (Sent(cmd, d)' <=> Sent(cmd, d))
  <1>1. in \in Seq(Inbound) /\ PacketIds /\ TypeOK
    BY DEF LifeInv, TypeOK
  <1>2. p \in Inbound /\ in' \in Seq(Inbound) /\ Items(in) = {p} \cup Items(in)'
    <2>1. Tail(in) \in Seq(Inbound) /\ Head(in) \in Inbound /\ Items(in) = {Head(in)} \cup Items(Tail(in))
      BY <1>1, ItemsTail
    <2>2. Items(in)' = Items(Tail(in))
      BY DEF Items
    <2> QED BY <2>1, <2>2
  <1>3. p.local \in 1 .. IdSpace
    BY <1>2 DEF Inbound
  <1>4. p.local # 0 /\ p.remote \in Calls /\ p.local = device[p.remote].local
    BY <1>1, <1>2, <1>3, Typed DEF PacketIds, NamesPeer
  <1> QED BY <1>2, <1>3, <1>4 DEF Owns, Sent

(* A channel's own slot is found by the channel's id.                      *)
LEMMA HolderMatches ==
    ASSUME LifeInv, NEW c \in Calls, Holds(c), device[c].state # "none"
    PROVE  call[c].local = device[c].local /\ call[c].slot \in matching(device[c].local)
  <1>1. call[c].local # 0 /\ device[c].local # 0
    BY DEF LifeInv, CallIds
  <1>2. call[c].local = device[c].local
    BY <1>1 DEF LifeInv, IdInv
  <1> QED BY <1>2, GetFacts DEF matching

(* A packet that changes nothing: a CLSE, or a READY of a failed channel.  *)
LEMMA ReadQuiet ==
    ASSUME LifeInv, QuietStep, FlagsKept, UNCHANGED <<table, next_local_id, owed, device>>,
           in # <<>>, in' = Tail(in), Head(in).cmd = "CLSE" \/ Broken(Head(in).remote)
    PROVE  LifeInv'
  <1>0. TypeOK /\ PacketIds
    BY DEF LifeInv
  <1>1. PICK p : p = Head(in)
    OBVIOUS
  <1>2. PICK o \in Calls : o = p.remote
    BY <1>1, TakenFacts
  <1>3. /\ in' \in Seq(Inbound) /\ Items(in)' \subseteq Items(in) /\ Sent(p.cmd, o) /\ p.cmd \in {"READY", "CLSE"}
        /\ \A d \in Calls : \A cmd : /\ Sent(cmd, d)' => Sent(cmd, d)
                                     /\ d # o \/ cmd # p.cmd => (Sent(cmd, d)' <=> Sent(cmd, d))
    <2>1. p \in Inbound
      BY <1>1, TakenFacts
    <2>2. p.cmd \in {"READY", "CLSE"}
      BY <2>1 DEF Inbound
    <2> QED BY <1>1, <1>2, <2>2, TakenFacts
  <1>4. owed' \in Seq(ChannelIds) /\ Items(owed)' = Items(owed) /\ SameEnds
    BY <1>0 DEF Items, TypeOK, SameEnds, FlagsKept
  <1>5. \A q \in Items(in)' \cup Items(owed)' : NamesPeer(q)
    BY <1>0, <1>3, <1>4 DEF PacketIds
  <1>6. ASSUME NEW c \in Calls PROVE EndInv(c)'
    <2>1. EndInv(c) /\ Keeps(c)
      BY DEF LifeInv, QuietStep
    <2>2. /\ (Holds(c)' <=> Holds(c)) /\ (Broken(c)' <=> Broken(c)) /\ (Known(c)' <=> Known(c))
          /\ Holds(c) => SlotOf(c)' = SlotOf(c) /\ call'[c].slot = call[c].slot
      BY <2>1, HoldsKept DEF Keeps
    <2>3. (Noted(c)' <=> Noted(c)) /\ (Failing(c)' <=> Failing(c)) /\ (reader'.pc = "fail" => reader'.idx = reader.idx)
      <3>1. c # 0
        BY <1>0, Typed
      <3> QED BY <1>0, <3>1 DEF QuietStep, ReaderKept, ReaderHas, SameNote, PacketIds, NoteInv, Noted, Failing
    <2>4. (Owing(c)' <=> Owing(c)) /\ (Coming(c)' => Coming(c))
          /\ (c # o \/ p.cmd # "READY" => (Coming(c)' <=> Coming(c)))
      BY <1>3, <1>4, <2>3 DEF Owing, Coming, Noted, Failing
    <2>5. Sent("CLSE", c)' => Sent("CLSE", c)
      BY <1>3
    <2>6. CASE c # o \/ p.cmd # "READY"
      BY <2>1, <2>2, <2>3, <2>4, <2>5, <2>6 DEF EndInv, Keeps, FlagsKept, Failing
    <2>7. CASE c = o /\ p.cmd = "READY"
      <3>1. Broken(c) /\ call[c].pc # "closeOwe"
        BY <1>1, <1>2, <2>7 DEF Broken, Holds, OpenPcs
      <3> QED BY <2>1, <2>2, <2>3, <2>4, <2>5, <3>1 DEF EndInv, Keeps, FlagsKept, Failing
    <2> QED BY <2>6, <2>7
  <1>7. NoteInv'
    BY <1>4, NotesKept DEF QuietStep
  <1> QED BY <1>3, <1>4, <1>5, <1>6, <1>7, WireLife DEF QuietStep, Keeps

(* A READY that the Reader notes: to fail its channel, or to owe a CLSE.   *)
LEMMA ReadNotes ==
    ASSUME LifeInv, FlagsKept, UNCHANGED <<table, next_local_id, owed, device, call, wh>>,
           in # <<>>, in' = Tail(in), Head(in).cmd = "READY", reader.pc = "read",
           reader' \in ReaderStates, SameUse(reader', reader), reader'.pc \in {"fail", "owe"},
           reader'.local = Head(in).local, reader'.remote = Head(in).remote,
           reader'.pc = "owe" => ~Holds(Head(in).remote),
           reader'.pc = "fail" => reader'.idx # 0 /\ (Holds(Head(in).remote) => call[Head(in).remote].slot = reader'.idx)
    PROVE  LifeInv'
  <1>0. TypeOK /\ PacketIds /\ OnInv
    BY DEF LifeInv
  <1>1. PICK p : p = Head(in)
    OBVIOUS
  <1>2. PICK o \in Calls : o = p.remote
    BY <1>1, TakenFacts
  <1>3. /\ in' \in Seq(Inbound) /\ Items(in)' \subseteq Items(in) /\ Sent("READY", o)
        /\ p.local = device[o].local /\ p.local # 0
        /\ \A d \in Calls : \A cmd : /\ Sent(cmd, d)' => Sent(cmd, d)
                                     /\ d # o \/ cmd # "READY" => (Sent(cmd, d)' <=> Sent(cmd, d))
    BY <1>1, <1>2, TakenFacts
  <1>4. owed' \in Seq(ChannelIds) /\ Items(owed)' = Items(owed) /\ SameEnds
    BY <1>0 DEF Items, TypeOK, SameEnds, FlagsKept
  <1>5. \A q \in Items(in)' \cup Items(owed)' : NamesPeer(q)
    BY <1>0, <1>3, <1>4 DEF PacketIds
  <1>6. NoteInv'
    <2>1. NamesPeer(reader)'
      BY <1>1, <1>2, <1>3 DEF NamesPeer
    <2>2. reader'.remote # 0 /\ reader'.local # 0
      BY <1>0, <1>1, <1>2, <1>3, Typed
    <2> QED BY <2>1, <2>2 DEF NoteInv
  <1>7. OnInv'
    BY <1>0 DEF OnInv, SameUse
  <1>8. call' \in [Calls -> CallStates] /\ (\A c \in Calls : Keeps(c)) /\ wh' \in Calls \cup {Free, TheReader}
    BY <1>0 DEF TypeOK, Keeps, Moves, Holds
  <1>9. ASSUME NEW c \in Calls PROVE EndInv(c)'
    <2>1. EndInv(c) /\ Keeps(c)
      BY <1>8 DEF LifeInv
    <2>2. /\ (Holds(c)' <=> Holds(c)) /\ (Broken(c)' <=> Broken(c)) /\ (Known(c)' <=> Known(c))
          /\ Holds(c) => SlotOf(c)' = SlotOf(c) /\ call'[c].slot = call[c].slot
      BY <2>1, HoldsKept DEF Keeps
    <2>3. /\ ~Noted(c) /\ ~Failing(c)
          /\ Noted(c)' <=> c = o /\ reader'.pc = "owe"
          /\ Failing(c)' <=> c = o /\ reader'.pc = "fail"
      BY <1>1, <1>2 DEF Noted, Failing
    <2>4. CASE c # o
      <3>1. (Owing(c)' <=> Owing(c)) /\ (Coming(c)' <=> Coming(c)) /\ (Sent("CLSE", c)' <=> Sent("CLSE", c))
        BY <1>3, <1>4, <2>3, <2>4 DEF Owing, Coming, Noted, Failing
      <3> QED BY <2>1, <2>2, <2>3, <2>4, <3>1 DEF EndInv, Keeps, FlagsKept, Failing
    <2>5. CASE c = o /\ reader'.pc = "owe"
      <3>1. Owing(c)' /\ ~Holds(c) /\ Coming(c) /\ (Sent("CLSE", c)' <=> Sent("CLSE", c))
        BY <1>1, <1>2, <1>3, <2>3, <2>5 DEF Owing, Coming, Noted
      <3> QED BY <2>1, <2>2, <2>3, <2>5, <3>1 DEF EndInv
    <2>6. CASE c = o /\ reader'.pc = "fail"
      <3>1. (Owing(c)' <=> Owing(c)) /\ Coming(c)' /\ Coming(c) /\ (Sent("CLSE", c)' <=> Sent("CLSE", c))
        BY <1>1, <1>2, <1>3, <1>4, <2>3, <2>6 DEF Owing, Coming, Noted, Failing
      <3>2. Holds(c) => call'[c].slot = reader'.idx
        BY <1>1, <1>2, <2>6
      <3> QED BY <2>1, <2>2, <2>3, <2>6, <3>1, <3>2 DEF EndInv, Keeps, FlagsKept
    <2> QED BY <2>4, <2>5, <2>6
  <1> QED BY <1>3, <1>4, <1>5, <1>6, <1>7, <1>8, <1>9, WireLife DEF Keeps

-----------------------------------------------------------------------------
(* Steps that change a slot and leave it to its holder.                    *)

(* No two calls hold one slot.                                             *)
LEMMA HoldersApart ==
    ASSUME LifeInv, NEW c \in Calls, NEW d \in Calls, c # d, Holds(c), Holds(d)
    PROVE  call[c].slot # call[d].slot
  <1>1. call[c].local # 0 /\ call[c].local \in 0 .. IdSpace /\ call[d].local # 0
    BY Typed DEF LifeInv, CallIds
  <1>2. call[c].local \in 1 .. IdSpace
    BY <1>1, Typed DEF LifeInv
  <1>3. call[c].local # call[d].local
    BY <1>1, <1>2 DEF LifeInv, IdInv, Owns
  <1> QED BY <1>3, GetFacts

(* The slot of c becomes t.                                                *)
LEMMA SlotMoves ==
    ASSUME LifeInv, FlagsKept, UNCHANGED <<next_local_id, owed, device, wh>>,
           NEW c \in Calls, Holds(c), NEW t \in Slots, table' = [table EXCEPT ![call[c].slot] = t],
           t.local = SlotOf(c).local, t.remote \in {0, c}, t.remote = c => device[c].state # "none",
           call'[c].pc = "open" \/ t.state = "Open" => t.remote = c,
           call' \in [Calls -> CallStates], \A d \in Calls \ {c} : call'[d] = call[d],
           call'[c].slot = call[c].slot, call'[c].local = call[c].local,
           call'[c].pc \in {"open", call[c].pc},
           reader' \in ReaderStates, NoteInv', OnInv',
           in' \in Seq(Inbound), Items(in)' \subseteq Items(in),
           \A d \in Calls \ {c} : /\ (Noted(d)' <=> Noted(d)) /\ (Failing(d)' <=> Failing(d))
                                  /\ \A cmd : Sent(cmd, d)' <=> Sent(cmd, d),
           reader'.pc = "fail" => reader'.idx = reader.idx,
           EndInv(c)'
    PROVE  LifeInv'
  <1>0. TypeOK /\ PacketIds /\ SlotInv /\ table \in [Positions -> Slots] /\ call[c].slot \in Positions
    BY GetFacts DEF LifeInv, TypeOK
  <1>1. table' \in [Positions -> Slots] /\ table'[call[c].slot] = t
        /\ \A i \in Positions \ {call[c].slot} : table'[i] = table[i]
    BY <1>0
  <1>2. TypeOK'
    BY <1>0, <1>1 DEF TypeOK, FlagsKept
  <1>3. Holds(c)' /\ \A d \in Calls \ {c} : (Holds(d)' <=> Holds(d))
    BY DEF Holds
  <1>4. IdInv'
    <2>1. Started' = Started
      BY DEF Started, Holds, OpenPcs
    <2>2. \A d \in Calls : call'[d].local = call[d].local
      OBVIOUS
    <2> QED BY <1>2, <2>1, <2>2, IdsKept
  <1>5. PacketIds'
    <2>1. Items(owed)' = Items(owed)
      BY DEF Items
    <2> QED BY <1>0, <2>1 DEF PacketIds, NamesPeer
  <1>6. ASSUME NEW d \in Calls \ {c}, Holds(d)
        PROVE  SlotOf(d)' = SlotOf(d) /\ call[d].slot \in Positions /\ call[d].slot # call[c].slot
    <2>1. call[d].slot \in Positions /\ call[d].slot # call[c].slot
      BY <1>6, HoldersApart, GetFacts
    <2> QED BY <1>1, <2>1 DEF SlotOf
  <1>7. SlotInv'
    <2>1. SlotOf(c)' = t
      BY <1>1 DEF SlotOf
    <2>2. Held(c)'
      <3>1. t.local = call'[c].local
        BY GetFacts
      <3> QED BY <1>0, <2>1, <3>1 DEF Held
    <2>3. ASSUME NEW d \in Calls \ {c} PROVE Held(d)'
      BY <1>0, <1>3, <1>6 DEF Held, SlotInv
    <2>4. ASSUME NEW i \in Positions PROVE table'[i] = NoSlot \/ \E d \in Calls : HolderOf(d, i)'
      <3>1. CASE i = call[c].slot
        <4>1. HolderOf(c, i)'
          BY <1>1, <1>3, <3>1, GetFacts DEF HolderOf
        <4> QED BY <4>1
      <3>2. CASE i # call[c].slot /\ table[i] # NoSlot
        <4>1. PICK d \in Calls : HolderOf(d, i)
          BY <1>0, <3>2 DEF SlotInv
        <4>2. d # c
          BY <3>2, <4>1 DEF HolderOf
        <4>3. HolderOf(d, i)'
          BY <1>1, <1>3, <3>2, <4>1, <4>2 DEF HolderOf
        <4> QED BY <4>3
      <3>3. CASE i # call[c].slot /\ table[i] = NoSlot
        BY <1>1, <3>3
      <3> QED BY <3>1, <3>2, <3>3
    <2> QED BY <2>2, <2>3, <2>4 DEF SlotInv
  <1>8. ASSUME NEW d \in Calls PROVE CallIds(d)'
    <2>1. CallIds(d)
      BY DEF LifeInv
    <2>2. CASE d # c
      BY <1>3, <2>1, <2>2 DEF CallIds
    <2>3. CASE d = c
      <3>1. call'[c].pc # "closeOwe" /\ call'[c].pc # "new" /\ (call'[c].pc \in Early => call[c].pc \in Early)
        BY DEF Holds, OpenPcs, Early
      <3> QED BY <2>1, <2>3, <3>1 DEF CallIds
    <2> QED BY <2>2, <2>3
  <1>9. ASSUME NEW d \in Calls \ {c} PROVE EndInv(d)'
    <2>1. EndInv(d)
      BY DEF LifeInv
    <2>2. /\ (Holds(d)' <=> Holds(d)) /\ (Holds(d) => SlotOf(d)' = SlotOf(d))
          /\ (Broken(d)' <=> Broken(d)) /\ (Known(d)' <=> Known(d))
      BY <1>3, <1>6 DEF Broken, Known
    <2>3. (Owing(d)' <=> Owing(d)) /\ (Coming(d)' <=> Coming(d))
      <3>1. Items(owed)' = Items(owed)
        BY DEF Items
      <3> QED BY <3>1 DEF Owing, Coming, Noted, Failing
    <2> QED BY <2>1, <2>2, <2>3 DEF EndInv, Failing, FlagsKept
  <1> QED BY <1>2, <1>4, <1>5, <1>7, <1>8, <1>9 DEF LifeInv

(* What the operations of a slot leave alone.                              *)
LEMMA SlotOps ==
    ASSUME NEW s \in Slots, NEW o \in Nat, NEW x \in {0, 1, ShortPayload}
    PROVE  /\ fail(s) \in Slots /\ fail(s).local = s.local /\ fail(s).remote = s.remote
           /\ fail(s).failed /\ fail(s).state = "Closed"
           /\ apply_close(s) \in Slots /\ apply_close(s).local = s.local
           /\ apply_close(s).remote = s.remote /\ apply_close(s).failed = s.failed
           /\ apply_close(s).state = "Closed"
           /\ apply_ready(s, x) \in Slots /\ apply_ready(s, x).local = s.local
           /\ apply_ready(s, x).remote = s.remote /\ apply_ready(s, x).failed = s.failed
           /\ apply_ready(s, x).state = s.state
           /\ accept_open_ready(s, o, x) \in Slots /\ accept_open_ready(s, o, x).local = s.local
           /\ accept_open_ready(s, o, x).remote = o /\ accept_open_ready(s, o, x).failed = s.failed
           /\ accept_open_ready(s, o, x).state = "Open"
  <1>0. x \in Int /\ s.send_budget \in Int /\ s.send_budget + x \in Int
    BY DEF ShortPayload, Slots
  <1>1. /\ fail(s) \in Slots /\ fail(s).local = s.local /\ fail(s).remote = s.remote
        /\ fail(s).failed /\ fail(s).state = "Closed"
    BY DEF fail, Slots
  <1>2. /\ apply_close(s) \in Slots /\ apply_close(s).local = s.local
        /\ apply_close(s).remote = s.remote /\ apply_close(s).failed = s.failed
        /\ apply_close(s).state = "Closed"
    BY DEF apply_close, Slots
  <1>3. /\ apply_ready(s, x) \in Slots /\ apply_ready(s, x).local = s.local
        /\ apply_ready(s, x).remote = s.remote /\ apply_ready(s, x).failed = s.failed
        /\ apply_ready(s, x).state = s.state
    BY <1>0 DEF apply_ready, Slots
  <1>4. /\ accept_open_ready(s, o, x) \in Slots /\ accept_open_ready(s, o, x).local = s.local
        /\ accept_open_ready(s, o, x).remote = o /\ accept_open_ready(s, o, x).failed = s.failed
        /\ accept_open_ready(s, o, x).state = "Open"
    BY <1>0 DEF accept_open_ready, Slots
  <1> QED BY <1>1, <1>2, <1>3, <1>4

(* The Reader fails a channel, or finds its slot gone.                     *)
LEMMA ChannelFails ==
    ASSUME LifeInv, FailChannel
    PROVE  LifeInv'
  <1>0. /\ TypeOK /\ PacketIds /\ OnInv /\ reader \in ReaderStates /\ reader.pc = "fail"
        /\ UNCHANGED <<next_local_id, call, owed, wh, in, device>>
        /\ UNCHANGED <<ack, scenario, transport, stalled, end_vars>>
    BY DEF LifeInv, TypeOK, FailChannel, wire_vars
  <1>1. FlagsKept
    BY <1>0, FlagsSame
  <1>2. PICK o \in Calls : /\ o = reader.remote /\ o # 0 /\ reader.local = device[o].local /\ reader.local # 0
                           /\ reader.idx # 0
    BY <1>0, Typed DEF PacketIds, NoteInv, ReaderHas, NamesPeer
  <1>3. /\ EndInv(o) /\ Failing(o) /\ Coming(o) /\ device[o].state \notin {"none", "asked"}
        /\ Owns(o, reader.local)
    <2>1. EndInv(o)
      BY DEF LifeInv
    <2>2. Failing(o) /\ Coming(o)
      BY <1>0, <1>2 DEF Failing, Coming
    <2> QED BY <1>2, <2>1, <2>2 DEF EndInv, Owns
  <1>4. Items(in)' = Items(in) /\ Items(owed)' = Items(owed) /\ in' \in Seq(Inbound) /\ owed' \in Seq(ChannelIds)
    BY <1>0 DEF Items, TypeOK
  <1>5. ASSUME NEW p \in {"wake", "owe"}, NEW b \in BOOLEAN, b <=> (p = "wake") \/ reader.owes,
               reader' = [reader EXCEPT !.pc = p, !.owes = b]
        PROVE  /\ reader' \in ReaderStates /\ NoteInv' /\ OnInv' /\ reader'.pc = p /\ Noted(o)'
               /\ \A d \in Calls \ {o} : (Noted(d)' <=> Noted(d)) /\ (Failing(d)' <=> Failing(d))
               /\ \A d \in Calls : ~Failing(d)'
    <2>1. /\ reader' \in ReaderStates /\ reader'.pc = p /\ reader'.owes = b /\ SameUse(reader', reader)
          /\ reader'.remote = o /\ reader'.local = reader.local
      BY <1>0, <1>2, <1>5 DEF ReaderStates, SameUse
    <2>2. NamesPeer(reader)'
      BY <1>0, <1>2, <2>1 DEF NamesPeer
    <2>3. NoteInv'
      BY <1>2, <1>5, <2>1, <2>2 DEF NoteInv
    <2>4. OnInv'
      BY <1>0, <2>1 DEF OnInv, SameUse
    <2> QED BY <1>0, <1>2, <2>1, <2>3, <2>4 DEF Noted, Failing
  <1> DEFINE ch == [slot |-> reader.idx, local |-> reader.local]
  <1>6. CASE is_some(get(ch))
    <2>1. /\ table' = [table EXCEPT ![reader.idx] = fail(table[reader.idx])]
          /\ reader' = [reader EXCEPT !.pc = "wake", !.owes = TRUE]
      BY <1>6 DEF FailChannel
    <2>2. reader.idx \in Positions /\ table[reader.idx].local = reader.local /\ table[reader.idx] # NoSlot
      BY <1>6 DEF get, is_some
    <2>3. Holds(o) /\ call[o].slot = reader.idx
      BY <1>3, <2>2, SlotIsOurs
    <2>4. PICK t : t = fail(table[reader.idx])
      OBVIOUS
    <2>5. /\ t \in Slots /\ t.local = SlotOf(o).local /\ t.remote = SlotOf(o).remote /\ t.failed
          /\ t.state = "Closed"
      BY <1>0, <2>2, <2>3, <2>4, SlotOps, Typed DEF SlotOf
    <2>6. t.remote \in {0, o} /\ (call[o].pc = "open" => t.remote = o) /\ (t.remote = o => device[o].state # "none")
      BY <1>3, <2>3, <2>5 DEF LifeInv, SlotInv, Held
    <2>7. table' = [table EXCEPT ![call[o].slot] = t] /\ table'[call[o].slot] = t
      BY <1>0, <2>1, <2>2, <2>3, <2>4 DEF TypeOK
    <2>8. /\ reader' \in ReaderStates /\ NoteInv' /\ OnInv' /\ reader'.pc = "wake" /\ Noted(o)'
          /\ \A d \in Calls \ {o} : (Noted(d)' <=> Noted(d)) /\ (Failing(d)' <=> Failing(d))
          /\ \A d \in Calls : ~Failing(d)'
      BY <1>5, <2>1
    <2>9. Broken(o)' /\ Holds(o)' /\ Owing(o)' /\ (Sent("CLSE", o)' <=> Sent("CLSE", o))
      BY <1>0, <1>4, <2>3, <2>5, <2>7, <2>8 DEF Broken, Holds, SlotOf, Owing, Sent, Noted
    <2>10. EndInv(o)'
      BY <1>0, <1>3, <2>8, <2>9 DEF EndInv
    <2>11. call \in [Calls -> CallStates] /\ \A d \in Calls \ {o} : \A cmd : Sent(cmd, d)' <=> Sent(cmd, d)
      BY <1>0, <1>4 DEF TypeOK, Sent
    <2> QED BY <1>0, <1>1, <1>4, <2>3, <2>5, <2>6, <2>7, <2>8, <2>10, <2>11, SlotMoves
  <1>7. CASE ~is_some(get(ch))
    <2>1. table' = table /\ reader' = [reader EXCEPT !.pc = "owe"]
      BY <1>7 DEF FailChannel
    <2>2. ~Holds(o)
      <3> SUFFICES ASSUME Holds(o) PROVE FALSE
        OBVIOUS
      <3>1. call[o].slot = reader.idx
        BY <1>0, <1>2, <1>3 DEF EndInv
      <3>2. call[o].local = reader.local /\ call[o].slot \in Positions /\ table[call[o].slot].local = call[o].local
            /\ is_some(table[call[o].slot])
        BY <1>2, <1>3, HolderMatches, GetFacts DEF SlotOf
      <3> QED BY <1>7, <3>1, <3>2 DEF get
    <2>3. reader' = [reader EXCEPT !.pc = "owe", !.owes = reader.owes] /\ reader.owes \in BOOLEAN
      BY <1>0, <2>1 DEF ReaderStates
    <2>4. /\ reader' \in ReaderStates /\ NoteInv' /\ OnInv' /\ reader'.pc = "owe" /\ Noted(o)'
          /\ \A d \in Calls \ {o} : (Noted(d)' <=> Noted(d)) /\ (Failing(d)' <=> Failing(d))
          /\ \A d \in Calls : ~Failing(d)'
      BY <1>5, <2>3
    <2>5. call' \in [Calls -> CallStates] /\ (\A c \in Calls : Keeps(c)) /\ wh' \in Calls \cup {Free, TheReader}
      BY <1>0 DEF TypeOK, Keeps, Moves, Holds
    <2>6. SameEnds
      BY <1>0 DEF SameEnds, TypeOK
    <2>7. \A q \in Items(in)' \cup Items(owed)' : NamesPeer(q)
      BY <1>0, <1>4 DEF PacketIds
    <2>8. ASSUME NEW d \in Calls PROVE EndInv(d)'
      <3>1. EndInv(d) /\ \A cmd : Sent(cmd, d)' <=> Sent(cmd, d)
        BY <1>4 DEF LifeInv, Sent
      <3>2. /\ (Holds(d)' <=> Holds(d)) /\ (Broken(d)' <=> Broken(d)) /\ (Known(d)' <=> Known(d))
            /\ Holds(d) => SlotOf(d)' = SlotOf(d)
        BY <2>1, <2>5, HoldsKept DEF Keeps
      <3>3. CASE d # o
        <4>1. (Owing(d)' <=> Owing(d)) /\ (Coming(d)' <=> Coming(d))
          BY <1>4, <2>4, <3>1, <3>3 DEF Owing, Coming, Noted, Failing
        <4> QED BY <1>0, <1>1, <2>4, <3>1, <3>2, <4>1 DEF EndInv, FlagsKept
      <3>4. CASE d = o
        <4>1. Owing(d)'
          BY <2>4, <3>4 DEF Owing, Noted
        <4> QED BY <1>0, <1>3, <2>2, <2>4, <3>1, <3>2, <3>4, <4>1 DEF EndInv
      <3> QED BY <3>3, <3>4
    <2> QED BY <1>0, <1>1, <1>4, <2>1, <2>4, <2>5, <2>6, <2>7, <2>8, WireLife DEF Keeps
  <1> QED BY <1>6, <1>7

-----------------------------------------------------------------------------
(* The first of some positions is one of them.                             *)
LEMMA FirstIn ==
    ASSUME NEW S \in SUBSET Positions, S # {}
    PROVE  first(S) \in S
  <1>1. S \subseteq Nat
    BY ChannelLifeAssumption DEF Positions
  <1>2. \E i \in S : \A j \in S : i <= j
    BY <1>1, LeastNatural
  <1> QED BY <1>2 DEF first

(* A packet changes the slot of its channel.                               *)
LEMMA SlotRead ==
    ASSUME LifeInv, FlagsKept, UNCHANGED <<next_local_id, owed, device, wh>>,
           in # <<>>, in' = Tail(in), NEW o \in Calls, o = Head(in).remote, Holds(o), reader.pc = "read",
           NEW t \in Slots, table' = [table EXCEPT ![call[o].slot] = t],
           t.local = SlotOf(o).local, t.failed = SlotOf(o).failed,
           \/ Head(in).cmd = "READY" /\ t.remote = o /\ t.state = "Open"
           \/ /\ Head(in).cmd = "READY" /\ t.remote = SlotOf(o).remote /\ t.state = SlotOf(o).state
              /\ ~SlotOf(o).failed /\ SlotOf(o).state # "Opening"
           \/ Head(in).cmd = "CLSE" /\ t.remote = SlotOf(o).remote /\ t.state = "Closed",
           call' \in [Calls -> CallStates], \A d \in Calls \ {o} : call'[d] = call[d],
           call'[o].slot = call[o].slot, call'[o].local = call[o].local,
           call'[o].pc = call[o].pc \/ (call'[o].pc = "open" /\ t.remote = o),
           reader' \in ReaderStates, NoteInv', OnInv', reader'.pc \in {"wake", "idle"}, reader'.remote = 0
    PROVE  LifeInv'
  <1>0. TypeOK /\ EndInv(o) /\ Held(o) /\ 0 \notin Calls /\ call[o].slot \in Positions
    BY Typed, GetFacts DEF LifeInv, SlotInv
  <1>1. PICK p : p = Head(in)
    OBVIOUS
  <1>2. /\ in' \in Seq(Inbound) /\ Items(in)' \subseteq Items(in) /\ Sent(p.cmd, o)
        /\ \A d \in Calls : \A cmd : /\ Sent(cmd, d)' => Sent(cmd, d)
                                     /\ d # o \/ cmd # p.cmd => (Sent(cmd, d)' <=> Sent(cmd, d))
    BY <1>1, TakenFacts
  <1>3. \A d \in Calls : ~Noted(d) /\ ~Failing(d) /\ ~Noted(d)' /\ ~Failing(d)'
    BY <1>0 DEF Noted, Failing
  <1>4. Holds(o)' /\ SlotOf(o)' = t /\ (Broken(o)' <=> Broken(o)) /\ (Known(o)' <=> t.remote = o)
        /\ call'[o].pc # "closeOwe" /\ call[o].pc # "closeOwe"
    <2>1. Holds(o)' /\ call'[o].pc # "closeOwe" /\ call[o].pc # "closeOwe"
      BY DEF Holds, OpenPcs
    <2>2. SlotOf(o)' = t
      BY <1>0 DEF SlotOf, TypeOK
    <2> QED BY <2>1, <2>2 DEF Broken, Known
  <1>5. (Owing(o)' <=> Owing(o)) /\ (Coming(o)' => Coming(o)) /\ (Over => Over')
    <2>1. Items(owed)' = Items(owed)
      BY DEF Items
    <2> QED BY <1>2, <1>3, <2>1 DEF Owing, Coming, Noted, Failing, FlagsKept
  <1>6. /\ p.cmd = "READY" => device[o].state \notin {"none", "asked"}
        /\ p.cmd = "CLSE" => device[o].state \notin {"none", "asked", "open"}
    BY <1>0, <1>2 DEF EndInv, Coming
  <1>7. /\ t.remote \in {0, o} /\ (t.remote = o => device[o].state # "none")
        /\ call'[o].pc = "open" \/ t.state = "Open" => t.remote = o
    BY <1>0, <1>1, <1>6 DEF Held
  <1>8. EndInv(o)'
    <2>1. CASE p.cmd = "READY" /\ t.remote = o /\ t.state = "Open"
      <3>1. Sent("CLSE", o)' => Sent("CLSE", o)
        BY <1>2
      <3> QED BY <1>0, <1>3, <1>4, <1>5, <1>6, <2>1, <3>1 DEF EndInv, Failing
    <2>2. CASE /\ p.cmd = "READY" /\ t.remote = SlotOf(o).remote /\ t.state = SlotOf(o).state
               /\ ~SlotOf(o).failed /\ SlotOf(o).state # "Opening"
      <3>1. Sent("CLSE", o)' => Sent("CLSE", o)
        BY <1>2
      <3>2. ~Broken(o) /\ (SlotOf(o).state \in {"Open", "Closed"})
        BY <2>2, GetFacts DEF Broken, Slots
      <3>3. device[o].state = "open" => t.remote = o
        BY <1>0, <2>2, <3>2 DEF EndInv, Held
      <3> QED BY <1>0, <1>3, <1>4, <1>5, <1>6, <2>2, <3>1, <3>2, <3>3 DEF EndInv, Failing
    <2>3. CASE p.cmd = "CLSE" /\ t.remote = SlotOf(o).remote /\ t.state = "Closed"
      BY <1>0, <1>3, <1>4, <1>5, <1>6, <2>3 DEF EndInv, Failing
    <2> QED BY <1>1, <2>1, <2>2, <2>3
  <1>9. call'[o].pc \in {"open", call[o].pc} /\ reader'.pc # "fail"
    OBVIOUS
  <1> QED BY <1>2, <1>3, <1>7, <1>8, <1>9, SlotMoves

(* Every packet the Reader can receive.                                    *)
LEMMA Received ==
    ASSUME LifeInv, Receive
    PROVE  LifeInv'
  <1>0. /\ TypeOK /\ PacketIds /\ OnInv /\ reader \in ReaderStates /\ reader.pc = "read"
        /\ reader.remote = 0 /\ ~reader.owes /\ call \in [Calls -> CallStates]
        /\ UNCHANGED <<next_local_id, owed, wh, device>> /\ in # <<>> /\ in' = Tail(in)
        /\ UNCHANGED <<ack, scenario, transport, stalled, end_vars>>
    BY DEF LifeInv, TypeOK, Receive, PacketIds, NoteInv
  <1>1. FlagsKept /\ wh' \in Calls \cup {Free, TheReader} /\ Mild(call) /\ Silent
    BY <1>0, FlagsSame, Wakes DEF TypeOK, Silent, ReaderHas
  <1>2. PICK p : p = Head(in)
    OBVIOUS
  <1>3. PICK o \in Calls : o = p.remote
    BY <1>0, <1>2, TakenFacts
  <1>4. p \in Inbound /\ p.local = device[o].local /\ p.local \in 1 .. IdSpace /\ p.local # 0 /\ Owns(o, p.local)
        /\ Sent(p.cmd, o) /\ o = Head(in).remote
    BY <1>0, <1>2, <1>3, TakenFacts
  <1>5. p.cmd \in {"READY", "CLSE"} /\ p.payload \in {0, 1, ShortPayload} /\ p.local \in 0 .. IdSpace
        /\ device[o].state # "none" /\ o \in Nat
    <2>1. p.cmd \in {"READY", "CLSE"} /\ p.payload \in {0, 1, ShortPayload}
      BY <1>4 DEF Inbound
    <2>2. CallIds(o)
      BY DEF LifeInv
    <2> QED BY <1>4, <2>1, <2>2, ChannelLifeAssumption DEF CallIds
  <1>6. ASSUME NEW i \in Positions, NEW b \in BOOLEAN, p.cmd = "READY", UNCHANGED <<table, call>>,
               reader' = [reader EXCEPT !.pc = "fail", !.idx = i, !.local = p.local, !.remote = o, !.fails = b],
               Holds(o) => call[o].slot = i
        PROVE  LifeInv'
    <2>1. i \in 0 .. MaxChannels /\ i # 0
      BY <1>6, ChannelLifeAssumption DEF Positions
    <2>2. /\ reader' \in ReaderStates /\ SameUse(reader', reader) /\ reader'.pc = "fail" /\ reader'.idx = i
          /\ reader'.local = p.local /\ reader'.remote = o
      BY <1>0, <1>5, <1>6, <2>1 DEF ReaderStates, SameUse
    <2> QED BY <1>0, <1>1, <1>2, <1>4, <1>6, <2>1, <2>2, ReadNotes
  <1>7. CASE reader.does = "open" /\ p.local = call[reader.on].local
    <2>1. PICK c \in Calls : c = reader.on /\ call[c].pc = "reading" /\ Holds(c)
      BY <1>0, <1>7 DEF OnInv, Holds, OpenPcs
    <2>2. c = o
      <3>1. Owns(c, p.local)
        BY <1>4, <1>7, <2>1 DEF Owns
      <3> QED BY <1>4, <3>1 DEF LifeInv, IdInv
    <2>3. OpenAnswered(p)
      BY <1>2, <1>7 DEF Receive
    <2>4. call[o].slot \in Positions /\ SlotOf(o) \in Slots /\ SlotOf(o) = table[call[o].slot] /\ table \in [Positions -> Slots]
      BY <1>0, <2>1, <2>2, GetFacts DEF TypeOK
    <2>5. CASE /\ p.cmd = "READY" /\ UNCHANGED <<table, call>>
               /\ reader' = [reader EXCEPT !.pc = "fail", !.idx = call[o].slot, !.local = p.local,
                                           !.remote = p.remote, !.fails = TRUE]
      BY <1>3, <1>6, <2>4, <2>5
    <2>6. CASE /\ p.cmd = "READY" /\ reader' = IdleReader /\ call' = To(o, "open")
               /\ table' = [table EXCEPT ![call[o].slot] = accept_open_ready(@, p.remote, p.payload)]
      <3>1. PICK t : t = accept_open_ready(SlotOf(o), o, p.payload)
        OBVIOUS
      <3>2. t \in Slots /\ t.local = SlotOf(o).local /\ t.remote = o /\ t.failed = SlotOf(o).failed /\ t.state = "Open"
        <4>1. SlotOf(o) \in Slots
          BY <2>4
        <4> QED BY <1>5, <3>1, <4>1, SlotOps
      <3>3. table' = [table EXCEPT ![call[o].slot] = t]
        BY <1>3, <2>4, <2>6, <3>1
      <3>4. call[o] \in CallStates
        BY <1>0
      <3>5. /\ call' \in [Calls -> CallStates] /\ \A d \in Calls \ {o} : call'[d] = call[d]
            /\ call'[o].slot = call[o].slot /\ call'[o].local = call[o].local /\ call'[o].pc = "open"
        BY <1>0, <2>6, <3>4 DEF To, CallStates
      <3>6. /\ reader' \in ReaderStates /\ reader'.pc = "idle" /\ reader'.remote = 0 /\ ~reader'.owes
            /\ reader'.on = 0 /\ reader'.does = "none"
        BY <2>6, IdleFacts
      <3>7. NoteInv'
        BY <3>6 DEF NoteInv, ReaderHas
      <3>8. OnInv'
        <4>1. \A d \in Calls : call'[d].pc # "reading"
          BY <1>0, <2>1, <2>2, <3>5 DEF OnInv
        <4> QED BY <1>0, <3>6, <4>1, Typed DEF OnInv
      <3> QED BY <1>0, <1>1, <1>2, <1>4, <2>1, <2>2, <2>6, <3>2, <3>3, <3>5, <3>6, <3>7, <3>8, SlotRead
    <2>7. CASE p.cmd = "CLSE" /\ GiveUp(call, o) /\ UNCHANGED table
      <3>1. QuietStep
        <4>1. call[o].pc \in OpenPcs
          BY <2>1, <2>2 DEF OpenPcs
        <4> QED BY <1>0, <1>1, <2>7, <4>1, GiveUpQuiet
      <3> QED BY <1>0, <1>1, <1>2, <2>7, <3>1, ReadQuiet
    <2> QED BY <2>1, <2>2, <2>3, <2>5, <2>6, <2>7 DEF OpenAnswered
  <1>8. CASE ~(reader.does = "open" /\ p.local = call[reader.on].local)
    <2>0. Dispatch(p)
      BY <1>2, <1>8 DEF Receive
    <2>1. CASE matching(p.local) = {}
      <3>1. ~Holds(o)
        BY <1>4, <1>5, <2>1, HolderMatches
      <3>2. CASE p.cmd = "READY"
        <4>1. /\ reader' = [reader EXCEPT !.pc = "owe", !.local = p.local, !.remote = p.remote]
              /\ UNCHANGED <<table, call>>
          BY <2>0, <2>1, <3>2 DEF Dispatch
        <4>2. /\ reader' \in ReaderStates /\ SameUse(reader', reader) /\ reader'.pc = "owe"
              /\ reader'.local = p.local /\ reader'.remote = o
          BY <1>0, <1>3, <1>5, <4>1 DEF ReaderStates, SameUse
        <4> QED BY <1>0, <1>1, <1>2, <1>4, <3>1, <3>2, <4>1, <4>2, ReadNotes
      <3>3. CASE p.cmd = "CLSE"
        <4>1. ReaderContinues(call) /\ UNCHANGED table
          BY <2>0, <2>1, <3>3 DEF Dispatch
        <4>2. QuietStep
          BY <1>0, <1>1, <4>1, ReaderContinuesRests, RestsQuiet
        <4> QED BY <1>0, <1>1, <1>2, <3>3, <4>1, <4>2, ReadQuiet
      <3> QED BY <1>5, <3>2, <3>3
    <2>2. CASE matching(p.local) # {}
      <3>1. PICK i \in Positions : i = first(matching(p.local)) /\ i \in matching(p.local)
        BY <2>2, FirstIn DEF matching
      <3>2. table[i] # NoSlot /\ table[i].local = p.local
        BY <3>1 DEF matching, is_some
      <3>3. Holds(o) /\ call[o].slot = i /\ SlotOf(o) = table[i] /\ SlotOf(o) \in Slots
        BY <1>0, <1>4, <3>2, SlotIsOurs, Typed DEF SlotOf
      <3>4. ASSUME NEW t \in Slots, table' = [table EXCEPT ![i] = t], call' = call,
                   reader' = [reader EXCEPT !.pc = "wake", !.idx = i, !.local = p.local],
                   t.local = SlotOf(o).local, t.failed = SlotOf(o).failed,
                   \/ p.cmd = "READY" /\ t.remote = o /\ t.state = "Open"
                   \/ /\ p.cmd = "READY" /\ t.remote = SlotOf(o).remote /\ t.state = SlotOf(o).state
                      /\ ~SlotOf(o).failed /\ SlotOf(o).state # "Opening"
                   \/ p.cmd = "CLSE" /\ t.remote = SlotOf(o).remote /\ t.state = "Closed"
            PROVE  LifeInv'
        <4>1. i \in 0 .. MaxChannels
          BY ChannelLifeAssumption DEF Positions
        <4>2. /\ reader' \in ReaderStates /\ SameUse(reader', reader) /\ reader'.pc = "wake"
              /\ reader'.remote = 0 /\ ~reader'.owes
          BY <1>0, <1>5, <3>4, <4>1 DEF ReaderStates, SameUse
        <4>3. NoteInv'
          BY <4>2 DEF NoteInv
        <4>4. OnInv'
          BY <1>0, <3>4, <4>2 DEF OnInv, SameUse
        <4>5. table' = [table EXCEPT ![call[o].slot] = t] /\ call' \in [Calls -> CallStates]
          BY <1>0, <3>3, <3>4
        <4> QED BY <1>0, <1>1, <1>2, <1>4, <3>3, <3>4, <4>2, <4>3, <4>4, <4>5, SlotRead
      <3>5. CASE p.cmd = "CLSE"
        <4>1. /\ table' = [table EXCEPT ![i] = apply_close(table[i])] /\ call' = call
              /\ reader' = [reader EXCEPT !.pc = "wake", !.idx = i, !.local = p.local]
          BY <2>0, <2>2, <3>1, <3>5 DEF Dispatch
        <4>2. PICK t : t = apply_close(SlotOf(o))
          OBVIOUS
        <4>3. /\ t \in Slots /\ t.local = SlotOf(o).local /\ t.remote = SlotOf(o).remote
              /\ t.failed = SlotOf(o).failed /\ t.state = "Closed"
          BY <1>5, <3>3, <4>2, SlotOps
        <4> QED BY <3>3, <3>4, <3>5, <4>1, <4>2, <4>3
      <3>6. CASE p.cmd = "READY" /\ table[i].failed
        <4>1. ReaderContinues(call) /\ UNCHANGED table
          BY <2>0, <2>2, <3>1, <3>6 DEF Dispatch
        <4>2. QuietStep
          BY <1>0, <1>1, <4>1, ReaderContinuesRests, RestsQuiet
        <4>3. Broken(Head(in).remote)
          BY <1>4, <3>3, <3>6 DEF Broken
        <4> QED BY <1>0, <1>1, <4>1, <4>2, <4>3, ReadQuiet
      <3>7. CASE p.cmd = "READY" /\ ~table[i].failed /\ table[i].state = "Opening"
        <4>1. CASE ready_is_short(table[i], p.payload)
          <5>1. PICK b \in BOOLEAN : b = (reader.does = "open")
            OBVIOUS
          <5>2. /\ reader' = [reader EXCEPT !.pc = "fail", !.idx = i, !.local = p.local, !.remote = o, !.fails = b]
                /\ UNCHANGED <<table, call>>
            BY <1>3, <2>0, <2>2, <3>1, <3>7, <4>1, <5>1 DEF Dispatch
          <5> QED BY <1>6, <3>3, <3>7, <5>2
        <4>2. CASE ~ready_is_short(table[i], p.payload)
          <5>1. /\ table' = [table EXCEPT ![i] = accept_open_ready(table[i], o, p.payload)] /\ call' = call
                /\ reader' = [reader EXCEPT !.pc = "wake", !.idx = i, !.local = p.local]
            BY <1>3, <2>0, <2>2, <3>1, <3>7, <4>2 DEF Dispatch
          <5>2. PICK t : t = accept_open_ready(SlotOf(o), o, p.payload)
            OBVIOUS
          <5>3. /\ t \in Slots /\ t.local = SlotOf(o).local /\ t.remote = o
                /\ t.failed = SlotOf(o).failed /\ t.state = "Open"
            BY <1>5, <3>3, <5>2, SlotOps
          <5> QED BY <3>3, <3>4, <3>7, <5>1, <5>2, <5>3
        <4> QED BY <4>1, <4>2
      <3>8. CASE p.cmd = "READY" /\ ~table[i].failed /\ table[i].state # "Opening"
        <4>1. /\ table' = [table EXCEPT ![i] = apply_ready(table[i], p.payload)] /\ call' = call
              /\ reader' = [reader EXCEPT !.pc = "wake", !.idx = i, !.local = p.local]
          BY <2>0, <2>2, <3>1, <3>8 DEF Dispatch
        <4>2. PICK t : t = apply_ready(SlotOf(o), p.payload)
          OBVIOUS
        <4>3. /\ t \in Slots /\ t.local = SlotOf(o).local /\ t.remote = SlotOf(o).remote
              /\ t.failed = SlotOf(o).failed /\ t.state = SlotOf(o).state
          BY <1>5, <3>3, <4>2, SlotOps
        <4> QED BY <3>3, <3>4, <3>8, <4>1, <4>2, <4>3
      <3> QED BY <1>5, <3>5, <3>6, <3>7, <3>8
    <2> QED BY <2>1, <2>2
  <1> QED BY <1>7, <1>8

-----------------------------------------------------------------------------
(* A slot is freed.                                                        *)

(* The other holders are not disturbed.                                    *)
LEMMA SlotFreed ==
    ASSUME LifeInv, UNCHANGED device, NEW c \in Calls, Holds(c), ~Holds(c)',
           table' = [table EXCEPT ![call[c].slot] = NoSlot],
           \A d \in Calls \ {c} : SameCall(call'[d], call[d])
    PROVE  /\ table' \in [Positions -> Slots] /\ SlotInv'
           /\ \A d \in Calls \ {c} : /\ (Holds(d)' <=> Holds(d)) /\ (Broken(d)' <=> Broken(d))
                                     /\ (Known(d)' <=> Known(d)) /\ (Holds(d) => SlotOf(d)' = SlotOf(d))
           /\ ~Broken(c)' /\ ~Known(c)'
  <1>0. TypeOK /\ SlotInv /\ table \in [Positions -> Slots] /\ call[c].slot \in Positions
    BY GetFacts DEF LifeInv, TypeOK
  <1>1. table' \in [Positions -> Slots] /\ table'[call[c].slot] = NoSlot
        /\ \A i \in Positions \ {call[c].slot} : table'[i] = table[i]
    BY <1>0, NoSlotFacts
  <1>2. ASSUME NEW d \in Calls \ {c}, Holds(d)
        PROVE  SlotOf(d)' = SlotOf(d) /\ call[d].slot # call[c].slot
    <2>1. call[d].slot \in Positions /\ call[d].slot # call[c].slot
      BY <1>2, HoldersApart, GetFacts
    <2> QED BY <1>1, <2>1 DEF SlotOf, SameCall
  <1>3. \A d \in Calls \ {c} : (Holds(d)' <=> Holds(d))
    BY DEF Holds, SameCall
  <1>4. \A d \in Calls : Held(d)'
    <2>1. ASSUME NEW d \in Calls \ {c}, Holds(d) PROVE Held(d)'
      <3>1. Held(d) /\ SameCall(call'[d], call[d])
        BY <1>0 DEF SlotInv
      <3> QED BY <1>2, <2>1, <3>1 DEF Held, SameCall
    <2> QED BY <1>3, <2>1 DEF Held
  <1>5. ASSUME NEW i \in Positions PROVE table'[i] = NoSlot \/ \E d \in Calls : HolderOf(d, i)'
    <2>1. CASE i # call[c].slot /\ table[i] # NoSlot
      <3>1. PICK d \in Calls : HolderOf(d, i)
        BY <1>0, <2>1 DEF SlotInv
      <3>2. d # c
        BY <2>1, <3>1 DEF HolderOf
      <3>3. HolderOf(d, i)'
        BY <1>1, <1>3, <2>1, <3>1, <3>2 DEF HolderOf, SameCall
      <3> QED BY <3>3
    <2>2. CASE i = call[c].slot \/ table[i] = NoSlot
      BY <1>1, <2>2
    <2> QED BY <2>1, <2>2
  <1>6. SlotInv'
    BY <1>4, <1>5 DEF SlotInv
  <1> QED BY <1>1, <1>2, <1>3, <1>6 DEF Broken, Known

(* What the invariant needs when c lets its slot go.                       *)
LEMMA FreedLife ==
    ASSUME LifeInv, FlagsKept, UNCHANGED <<next_local_id, in, device, reader, wh>>,
           NEW c \in Calls, Holds(c), ~Holds(c)', call' \in [Calls -> CallStates],
           table' = [table EXCEPT ![call[c].slot] = NoSlot],
           \A d \in Calls \ {c} : SameCall(call'[d], call[d]),
           call[c].pc \in {"guard", "open"}, call'[c].pc \notin {"new", "reading"} \cup Early,
           call'[c].pc = "closeOwe" => call'[c].local # 0 /\ device[c].state # "none",
           call'[c].local \in {0, call[c].local},
           owed' \in Seq(ChannelIds), Items(owed) \subseteq Items(owed)',
           \A p \in Items(owed)' : NamesPeer(p) /\ (p \in Items(owed) \/ p.remote = c),
           ~Broken(c) /\ Known(c) => (\E p \in Items(owed)' : p.remote = c) \/ call'[c].pc = "closeOwe"
    PROVE  LifeInv'
  <1>0. TypeOK /\ PacketIds /\ OnInv
    BY DEF LifeInv
  <1>1. /\ table' \in [Positions -> Slots] /\ SlotInv'
        /\ \A d \in Calls \ {c} : /\ (Holds(d)' <=> Holds(d)) /\ (Broken(d)' <=> Broken(d))
                                  /\ (Known(d)' <=> Known(d)) /\ (Holds(d) => SlotOf(d)' = SlotOf(d))
        /\ ~Broken(c)' /\ ~Known(c)'
    BY SlotFreed
  <1>2. TypeOK'
    BY <1>0, <1>1 DEF TypeOK, FlagsKept
  <1>3. IdInv'
    <2>1. Started' = Started
      BY DEF Started, SameCall
    <2>2. \A d \in Calls : call'[d].local \in {0, call[d].local}
      BY DEF SameCall
    <2> QED BY <1>2, <2>1, <2>2, IdsKept
  <1>4. PacketIds'
    <2>1. Items(in)' = Items(in)
      BY DEF Items
    <2> QED BY <1>0, <2>1 DEF PacketIds, NoteInv, NamesPeer, ReaderHas
  <1>5. OnInv'
    <2>1. reader.on # c
      BY <1>0 DEF OnInv, Early
    <2> QED BY <1>0, <2>1 DEF OnInv, SameCall
  <1>6. ASSUME NEW d \in Calls PROVE CallIds(d)' /\ EndInv(d)'
    <2>1. CallIds(d) /\ EndInv(d)
      BY DEF LifeInv
    <2>2. (\A cmd : Sent(cmd, d)' <=> Sent(cmd, d)) /\ (Coming(d)' <=> Coming(d)) /\ (Owing(d) => Owing(d)')
          /\ (d # c => (Owing(d)' <=> Owing(d)))
      BY DEF Sent, Coming, Owing, Items
    <2>3. CASE d = c
      <3>1. CallIds(d)'
        BY <2>1, <2>3 DEF CallIds
      <3>2. EndInv(d)'
        BY <1>1, <2>1, <2>2, <2>3 DEF EndInv, Owing, FlagsKept
      <3> QED BY <3>1, <3>2
    <2>4. CASE d # c
      <3>1. SameCall(call'[d], call[d])
        BY <2>4
      <3>2. CallIds(d)'
        BY <1>1, <2>1, <2>4, <3>1 DEF CallIds, SameCall
      <3>3. EndInv(d)'
        BY <1>1, <2>1, <2>2, <2>4, <3>1 DEF EndInv, FlagsKept, SameCall
      <3> QED BY <3>2, <3>3
    <2> QED BY <2>3, <2>4
  <1> QED BY <1>1, <1>2, <1>3, <1>4, <1>5, <1>6 DEF LifeInv

(* A SlotGuard frees its slot and owes the CLSE of an accepted channel.    *)
LEMMA GuardDropped ==
    ASSUME LifeInv, NEW c \in Calls, DropGuard(c)
    PROVE  LifeInv'
  <1>0. /\ TypeOK /\ PacketIds /\ UNCHANGED <<next_local_id, in, device, reader, wh>> /\ call[c].pc = "guard"
        /\ UNCHANGED <<ack, scenario, transport, stalled, end_vars>> /\ Holds(c)
        /\ table' = [table EXCEPT ![call[c].slot] = NoSlot]
    BY DEF LifeInv, DropGuard, wire_vars, Holds, OpenPcs
  <1>1. FlagsKept /\ Mild(call) /\ Mild(wake_receive(call)) /\ owed \in Seq(ChannelIds)
    BY <1>0, FlagsSame, Wakes DEF TypeOK
  <1>2. PICK s : s = SlotOf(c)
    OBVIOUS
  <1>3. s = get(call[c]) /\ s.local = call[c].local /\ s.remote \in {0, c} /\ (s.remote = c => device[c].state # "none")
    BY <1>0, <1>2, GetFacts DEF LifeInv, SlotInv, Held
  <1>4. PICK cs : /\ cs = IF has_ids(s) /\ ~s.failed THEN wake_receive(call) ELSE call
                  /\ call' = [cs EXCEPT ![c] = Ended("failed", "none")]
    BY <1>3 DEF DropGuard
  <1>5. Mild(cs)
    BY <1>1, <1>4
  <1>6. PICK e : e = Ended("failed", "none")
    OBVIOUS
  <1>7. e \in CallStates /\ e.pc = "failed" /\ e.local = 0
    <2>1. "failed" \in CallPcs
      BY DEF CallPcs
    <2> QED BY <1>6, <2>1, EndedFacts
  <1>8. /\ call' \in [Calls -> CallStates] /\ call'[c] = e
        /\ \A d \in Calls \ {c} : SameCall(call'[d], call[d])
    BY <1>4, <1>5, <1>6, <1>7 DEF Mild
  <1>9. ~Holds(c)' /\ call'[c].pc = "failed" /\ call'[c].local = 0 /\ call'[c].pc \notin {"new", "reading"} \cup Early
    BY <1>7, <1>8 DEF Holds, OpenPcs, Early
  <1>10. CASE has_ids(s) /\ ~s.failed
    <2>1. s.remote = c /\ owed' = Append(owed, Ids(s))
      BY <1>3, <1>10 DEF DropGuard, has_ids, NoRemote
    <2>2. call[c].local = device[c].local /\ call[c].local \in 1 .. IdSpace
      <3>1. call[c].local # 0
        BY <1>0 DEF LifeInv, CallIds
      <3> QED BY <1>0, <1>3, <2>1, <3>1, HolderMatches, Typed
    <2>3. PICK q : q = Ids(s)
      OBVIOUS
    <2>4. q \in ChannelIds /\ q.remote = c /\ q.local = call[c].local /\ NamesPeer(q)
      BY <1>3, <2>1, <2>2, <2>3 DEF Ids, ChannelIds, NamesPeer
    <2>5. Append(owed, q) \in Seq(ChannelIds) /\ Items(Append(owed, q)) = Items(owed) \cup {q}
      BY <1>1, <2>4, ItemsAppend
    <2>6. owed' \in Seq(ChannelIds) /\ Items(owed)' = Items(owed) \cup {q}
      BY <2>1, <2>3, <2>5 DEF Items
    <2>7. \A p \in Items(owed)' : NamesPeer(p) /\ (p \in Items(owed) \/ p.remote = c)
      BY <1>0, <2>4, <2>6 DEF PacketIds
    <2>8. (\E p \in Items(owed)' : p.remote = c) /\ Items(owed) \subseteq Items(owed)'
      BY <2>4, <2>6
    <2> QED BY <1>0, <1>1, <1>8, <1>9, <2>6, <2>7, <2>8, FreedLife
  <1>11. CASE ~(has_ids(s) /\ ~s.failed)
    <2>1. owed' = owed
      BY <1>3, <1>11 DEF DropGuard
    <2>2. Items(owed)' = Items(owed) /\ owed' \in Seq(ChannelIds)
      BY <1>1, <2>1 DEF Items
    <2>3. \A p \in Items(owed)' : NamesPeer(p) /\ (p \in Items(owed) \/ p.remote = c)
      BY <1>0, <2>2 DEF PacketIds
    <2>4. ~(~Broken(c) /\ Known(c))
      <3>1. c # 0
        BY <1>0, Typed
      <3> QED BY <1>0, <1>2, <1>11, <3>1 DEF Broken, Known, has_ids, NoRemote
    <2> QED BY <1>0, <1>1, <1>8, <1>9, <2>2, <2>3, <2>4, FreedLife
  <1> QED BY <1>10, <1>11

(* A close frees its slot.                                                 *)
LEMMA CloseStarted ==
    ASSUME LifeInv, NEW c \in Calls, StartClose(c)
    PROVE  LifeInv'
  <1>0. /\ TypeOK /\ PacketIds /\ UNCHANGED <<next_local_id, in, device, reader, wh, owed>> /\ call[c].pc = "open"
        /\ UNCHANGED <<ack, scenario, transport, stalled, end_vars>> /\ Holds(c)
        /\ table' = [table EXCEPT ![call[c].slot] = NoSlot] /\ call' = To(c, "closeOwe")
    BY DEF LifeInv, StartClose, wire_vars, Holds
  <1>1. FlagsKept /\ owed \in Seq(ChannelIds) /\ call \in [Calls -> CallStates] /\ call[c] \in CallStates
    BY <1>0, FlagsSame DEF TypeOK
  <1>2. /\ call' \in [Calls -> CallStates] /\ call'[c].pc = "closeOwe" /\ call'[c].local = call[c].local
        /\ \A d \in Calls \ {c} : SameCall(call'[d], call[d])
    BY <1>0, <1>1 DEF To, CallStates, ClosePcs, SameCall
  <1>3. call[c].local # 0 /\ device[c].state # "none"
    BY <1>0 DEF LifeInv, CallIds, SlotInv, Held
  <1>4. ~Holds(c)' /\ call'[c].pc \notin {"new", "reading"} \cup Early
    BY <1>2 DEF Holds, OpenPcs, Early
  <1>5. Items(owed)' = Items(owed) /\ owed' \in Seq(ChannelIds)
    BY <1>0, <1>1 DEF Items
  <1>6. \A p \in Items(owed)' : NamesPeer(p) /\ (p \in Items(owed) \/ p.remote = c)
    BY <1>0, <1>5 DEF PacketIds
  <1> QED BY <1>0, <1>1, <1>2, <1>3, <1>4, <1>5, <1>6, FreedLife

-----------------------------------------------------------------------------
(* An open takes a free slot and the next id.                              *)
LEMMA OpenStarted ==
    ASSUME LifeInv, IdsSuffice, NEW c \in Calls, StartOpen(c)
    PROVE  LifeInv'
  <1>0. /\ TypeOK /\ PacketIds /\ OnInv /\ IdInv /\ SlotInv /\ CallIds(c) /\ EndInv(c)
        /\ UNCHANGED <<owed, wh, in, device, ack, scenario, transport, stalled, end_vars>> /\ call[c].pc = "new"
    BY DEF LifeInv, StartOpen, wire_vars
  <1>1. /\ FlagsKept /\ table \in [Positions -> Slots] /\ call \in [Calls -> CallStates] /\ call[c] \in CallStates
        /\ next_local_id \in 1 .. IdSpace /\ ack \in {"Classic", "Delayed"}
    BY <1>0, FlagsSame, ConfigAssumption DEF TypeOK
  <1>2. PICK l \in 1 .. IdSpace : l = next_local_id
    BY <1>1
  <1>3. l \in Nat /\ l # 0 /\ l \in 0 .. IdSpace
    BY <1>2, ChannelLifeAssumption
  <1>4. PICK i \in Positions : i = first(free_positions) /\ table[i] = NoSlot
    <2>1. free_positions \in SUBSET Positions /\ free_positions # {}
      BY DEF StartOpen, free_positions
    <2>2. first(free_positions) \in free_positions
      BY <2>1, FirstIn
    <2> QED BY <2>2 DEF free_positions, is_some
  <1>5. i \in 0 .. MaxChannels
    BY ChannelLifeAssumption DEF Positions
  <1>6. PICK t : t = opening(l, ack)
    OBVIOUS
  <1>7. /\ t \in Slots /\ t.local = l /\ t.remote = 0 /\ t.state = "Opening" /\ ~t.failed
    BY <1>1, <1>3, <1>6 DEF opening, Slots, NoRemote
  <1> DEFINE r == [call[c] EXCEPT !.pc = "lock", !.slot = i, !.local = l]
  <1>8. r \in CallStates /\ r.pc = "lock" /\ r.slot = i /\ r.local = l
    BY <1>1, <1>3, <1>5 DEF CallStates, OpenPcs
  <1>9. table' = [table EXCEPT ![i] = t] /\ call' = [call EXCEPT ![c] = r] /\ next_local_id' = following_id
    BY <1>1, <1>2, <1>4, <1>6 DEF StartOpen, allocated_local
  <1> HIDE DEF r
  <1>10. /\ table' \in [Positions -> Slots] /\ table'[i] = t
         /\ \A j \in Positions \ {i} : table'[j] = table[j]
         /\ call' \in [Calls -> CallStates] /\ call'[c] = r /\ \A d \in Calls \ {c} : call'[d] = call[d]
    BY <1>1, <1>7, <1>8, <1>9
  <1>11. device[c].state = "none" /\ device[c].local = 0 /\ call[c].local = 0 /\ ~Holds(c) /\ reader.on # c
         /\ ~Owing(c) /\ ~Coming(c) /\ ~Noted(c) /\ ~Failing(c)
    <2>1. device[c].state = "none" /\ call[c].local = 0 /\ ~Holds(c) /\ reader.on # c
      BY <1>0 DEF CallIds, Holds, OpenPcs, OnInv, Early
    <2> QED BY <2>1, NothingYet
  <1>12. /\ Holds(c)' /\ SlotOf(c)' = t
         /\ \A d \in Calls \ {c} : (Holds(d)' <=> Holds(d))
    BY <1>8, <1>10 DEF Holds, SlotOf, OpenPcs
  <1>13. ASSUME NEW d \in Calls \ {c}, Holds(d)
         PROVE  SlotOf(d)' = SlotOf(d) /\ call[d].slot # i
    <2>1. call[d].slot \in Positions /\ call[d].slot # i
      BY <1>4, <1>13, GetFacts DEF is_some, SlotOf
    <2> QED BY <1>10, <2>1 DEF SlotOf
  <1>14. /\ reader' \in ReaderStates /\ OnInv' /\ NoteInv'
         /\ reader'.pc = "fail" => reader'.idx = reader.idx
         /\ \A d \in Calls : (Noted(d)' <=> Noted(d)) /\ (Failing(d)' <=> Failing(d))
    <2>1. CASE reader' = reader
      <3>1. OnInv'
        BY <1>0, <1>8, <1>10, <1>11, <2>1 DEF OnInv
      <3>2. NoteInv'
        BY <1>0, <2>1 DEF PacketIds, NoteInv, NamesPeer, ReaderHas
      <3> QED BY <1>0, <2>1, <3>1, <3>2 DEF TypeOK, Noted, Failing
    <2>2. CASE reader.pc = "idle" /\ reader' = [IdleReader EXCEPT !.pc = "busy", !.does = "open", !.on = c]
      <3>1. reader' = Using("busy", "open", c) /\ "busy" \in ReaderPcs
        BY <2>2 DEF Using, ReaderPcs
      <3>2. /\ reader' \in ReaderStates /\ reader'.pc = "busy" /\ reader'.does = "open" /\ reader'.on = c
            /\ reader'.remote = 0 /\ ~reader'.owes
        BY <3>1, ReaderStarts
      <3>3. \A d \in Calls : call[d].pc # "reading"
        BY <1>0, <2>2 DEF OnInv
      <3>4. OnInv'
        BY <1>8, <1>10, <3>2, <3>3 DEF OnInv, Early
      <3>5. NoteInv'
        BY <3>2 DEF NoteInv, ReaderHas
      <3> QED BY <2>2, <3>2, <3>4, <3>5 DEF Noted, Failing
    <2> QED BY <2>1, <2>2 DEF StartOpen
  <1>15. IdInv'
    <2>1. c \notin Started /\ Started' = Started \cup {c}
      BY <1>0, <1>8, <1>10 DEF Started
    <2>2. /\ Cardinality(Started) + 1 = l
          /\ \A d \in Calls : \A k \in 1 .. IdSpace : Owns(d, k) => k < l
      BY <1>0, <1>2, <2>1 DEF IdInv
    <2>3. \A k : Owns(c, k)' => k = l
      BY <1>0, <1>8, <1>10, <1>11 DEF Owns
    <2>4. \A d \in Calls \ {c} : \A k : Owns(d, k)' => Owns(d, k)
      BY <1>0, <1>10 DEF Owns
    <2>5. \A k \in 1 .. IdSpace : k < l => k # l
      BY <1>3
    <2>6. \A d, e \in Calls : \A k \in 1 .. IdSpace : Owns(d, k)' /\ Owns(e, k)' => d = e
      BY <1>0, <2>2, <2>3, <2>4, <2>5 DEF IdInv
    <2>7. \A d \in Calls : device'[d].local # 0 => call'[d].local \in {0, device'[d].local}
      BY <1>0, <1>10, <1>11 DEF IdInv
    <2>8. ASSUME Started' # Calls
          PROVE  /\ Cardinality(Started') + 1 = next_local_id'
                 /\ \A d \in Calls : \A k \in 1 .. IdSpace : Owns(d, k)' => k < next_local_id'
      <3>1. IsFiniteSet(Calls) /\ Started' \subseteq Calls /\ Started \subseteq Calls
        BY DEF IdsSuffice, Started
      <3>2. IsFiniteSet(Started) /\ Cardinality(Started) \in Nat /\ Cardinality(Calls) \in Nat
        BY <3>1, FS_Subset, FS_CardinalityType
      <3>3. Cardinality(Started') = Cardinality(Started) + 1
        BY <2>1, <3>2, FS_AddElement
      <3>4. Cardinality(Started') < Cardinality(Calls)
        <4>1. Cardinality(Started') <= Cardinality(Calls) /\ (Cardinality(Started') = Cardinality(Calls) => Started' = Calls)
          BY <3>1, FS_Subset
        <4> QED BY <2>8, <3>2, <3>3, <4>1
      <3>5. l < IdSpace
        <4>1. IdSpace \in Nat /\ Cardinality(Calls) <= IdSpace
          BY ChannelLifeAssumption DEF IdsSuffice
        <4> QED BY <1>3, <2>2, <3>2, <3>3, <3>4, <4>1
      <3>6. next_local_id' = l + 1
        BY <1>2, <1>3, <1>9, <3>5, ChannelLifeAssumption DEF following_id
      <3>7. Cardinality(Started') + 1 = next_local_id'
        BY <2>2, <3>2, <3>3, <3>6
      <3>8. \A k \in 1 .. IdSpace : k <= l => k < l + 1
        BY <1>3
      <3>9. \A k \in 1 .. IdSpace : k < l => k <= l
        BY <1>3
      <3>10. \A d \in Calls : \A k \in 1 .. IdSpace : Owns(d, k)' => k <= l
        BY <1>3, <2>2, <2>3, <2>4, <3>9
      <3> QED BY <3>6, <3>7, <3>8, <3>10
    <2> QED BY <2>6, <2>7, <2>8 DEF IdInv
  <1>16. TypeOK'
    <2>1. next_local_id' \in 1 .. IdSpace
      BY <1>2, <1>9, ChannelLifeAssumption DEF following_id
    <2> QED BY <1>0, <1>1, <1>10, <1>14, <2>1 DEF TypeOK, FlagsKept
  <1>17. PacketIds'
    <2>1. Items(in)' = Items(in) /\ Items(owed)' = Items(owed)
      BY <1>0 DEF Items
    <2> QED BY <1>0, <1>14, <2>1 DEF PacketIds, NamesPeer
  <1>18. SlotInv'
    <2>1. Held(c)'
      <3>1. 0 # c
        BY <1>0, Typed
      <3> QED BY <1>7, <1>8, <1>10, <1>12, <3>1 DEF Held
    <2>2. ASSUME NEW d \in Calls \ {c} PROVE Held(d)'
      BY <1>0, <1>10, <1>12, <1>13 DEF Held, SlotInv
    <2>3. ASSUME NEW j \in Positions PROVE table'[j] = NoSlot \/ \E d \in Calls : HolderOf(d, j)'
      <3>1. CASE j = i
        <4>1. HolderOf(c, j)'
          BY <1>7, <1>8, <1>10, <1>12, <3>1 DEF HolderOf
        <4> QED BY <4>1
      <3>2. CASE j # i /\ table[j] # NoSlot
        <4>1. PICK d \in Calls : HolderOf(d, j)
          BY <1>0, <3>2 DEF SlotInv
        <4>2. d # c
          BY <1>11, <4>1 DEF HolderOf
        <4>3. HolderOf(d, j)'
          BY <1>10, <1>12, <3>2, <4>1, <4>2 DEF HolderOf
        <4> QED BY <4>3
      <3>3. CASE j # i /\ table[j] = NoSlot
        BY <1>10, <3>3
      <3> QED BY <3>1, <3>2, <3>3
    <2> QED BY <2>1, <2>2, <2>3 DEF SlotInv
  <1>19. ASSUME NEW d \in Calls PROVE CallIds(d)' /\ EndInv(d)'
    <2>1. CallIds(d) /\ EndInv(d)
      BY DEF LifeInv
    <2>2. (Owing(d)' <=> Owing(d)) /\ (Coming(d)' <=> Coming(d)) /\ (\A cmd : Sent(cmd, d)' <=> Sent(cmd, d))
      BY <1>0, <1>14 DEF Owing, Coming, Sent, Items, Noted, Failing
    <2>3. CASE d = c
      <3>1. CallIds(d)'
        BY <1>0, <1>3, <1>8, <1>10, <1>11, <2>3 DEF CallIds
      <3>2. ~Broken(d)'
        BY <1>7, <1>12, <2>3 DEF Broken
      <3>3. ~Failing(d)'
        BY <1>11, <1>14, <2>3
      <3> QED BY <1>0, <1>7, <1>11, <1>12, <2>1, <2>2, <2>3, <3>1, <3>2, <3>3 DEF EndInv, Failing
    <2>4. CASE d # c
      <3>1. /\ (Holds(d)' <=> Holds(d)) /\ (Holds(d) => SlotOf(d)' = SlotOf(d))
            /\ (Broken(d)' <=> Broken(d)) /\ (Known(d)' <=> Known(d)) /\ call'[d] = call[d]
        BY <1>10, <1>12, <1>13, <2>4 DEF Broken, Known
      <3>2. CallIds(d)'
        BY <1>0, <2>1, <3>1 DEF CallIds
      <3>3. EndInv(d)'
        BY <1>0, <1>1, <1>14, <2>1, <2>2, <3>1 DEF EndInv, FlagsKept, Failing
      <3> QED BY <3>2, <3>3
    <2> QED BY <2>3, <2>4
  <1> QED BY <1>14, <1>15, <1>16, <1>17, <1>18, <1>19 DEF LifeInv

-----------------------------------------------------------------------------
(* Every step keeps the invariant.                                         *)
LEMMA LifeStep ==
    ASSUME IdsSuffice, LifeInv, [Next]_lifeVars
    PROVE  LifeInv'
  <1>1. ASSUME NEW c \in Calls, StartOpen(c) PROVE LifeInv'
    BY <1>1, OpenStarted
  <1>2. ASSUME NEW c \in Calls, SendAbandoned(c) \/ SendOpen(c) PROVE LifeInv'
    BY <1>2, OpenSent
  <1>3. ASSUME NEW c \in Calls, StartClose(c) PROVE LifeInv'
    BY <1>3, CloseStarted
  <1>4. ASSUME NEW c \in Calls, DropGuard(c) PROVE LifeInv'
    BY <1>4, GuardDropped
  <1>5. ASSUME NEW c \in Calls, CloseOwes(c) PROVE LifeInv'
    BY <1>5, CloseOwed
  <1>6. ASSUME NEW c \in Calls, CloseWaits(c) PROVE LifeInv'
    BY <1>6, Closing
  <1>7. ASSUME NEW c \in Calls, DeviceReady(c) \/ DeviceCloses(c) PROVE LifeInv'
    BY <1>7, DeviceSends
  <1>8. ASSUME NEW c \in Calls,
               \/ LockCall(c) \/ SendRefused(c) \/ Listen(c) \/ Look(c) \/ Park(c) \/ Woken(c)
               \/ DropOpen(c) \/ CloseUntil(c) \/ CloseChecks(c) \/ DropClose(c)
        PROVE  LifeInv'
    BY <1>8, QuietCalls
  <1>9. CASE ReaderStep \/ StartDispatch \/ DropReaderCall \/ DropReader
    BY <1>9, QuietReaders, Received, ChannelFails, ReaderOwed DEF ReaderStep
  <1>10. CASE PayStep \/ PayAbandoned
    BY <1>10, Pays, QuietPays DEF PayStep
  <1>11. CASE TransportFails \/ TransportStalls
    BY <1>11, QuietTransport
  <1>12. CASE UNCHANGED lifeVars
    <2>1. /\ UNCHANGED <<table, next_local_id, in, device, owed, call, reader, wh>>
          /\ UNCHANGED <<ack, scenario, transport, stalled, end_vars>>
      BY <1>12 DEF lifeVars, end_vars
    <2>2. FlagsKept /\ QuietStep
      BY <2>1, FlagsSame, StillQuiet DEF LifeInv
    <2> QED BY <2>1, <2>2, QuietLife
  <1> QED BY <1>1, <1>2, <1>3, <1>4, <1>5, <1>6, <1>7, <1>8, <1>9, <1>10, <1>11, <1>12 DEF Next, CallStep

(* The invariant of every behaviour in which no id is given out twice.     *)
LEMMA LifeAlways ==
    ASSUME IdsSuffice
    PROVE  Spec => []LifeInv
  BY LifeInit, LifeStep, PTL DEF Spec

(* While no local id is given out twice, the slot table is exact however   *)
(* the opens, the closes and the connection end: no slot outlives the      *)
(* SlotGuard or the handle that holds it, none is taken from under one,    *)
(* and no channel the device still holds open is forgotten.                *)
THEOREM SlotsHold ==
    ASSUME IdsSuffice
    PROVE  Spec => []SlotsExact
  BY LifeAlways, LifeMeans, PTL

(* And no ids are mixed up: an open completes with the READY for its own   *)
(* OPEN, never with a late one, and no CLSE is owed or sent for a channel  *)
(* that is being opened or held and has not failed.                        *)
THEOREM IdsHold ==
    ASSUME IdsSuffice
    PROVE  Spec => []IdsExact
  BY LifeAlways, LifeMeans, PTL
==============================================================================
