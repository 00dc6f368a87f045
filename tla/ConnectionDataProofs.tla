------------------------- MODULE ConnectionDataProofs -------------------------
(***************************************************************************)
(* Proofs about Connection: data and credit are exact on every channel,    *)
(* for any number of channels, any limits, and any of the faults together. *)
(* What is in a slot, on the wire and in the hands of the reader is one    *)
(* stream, and the credit of a channel is spread over the same places, so  *)
(* the invariant speaks of all of them at once; ConnectionProofs says      *)
(* which slot a packet on the wire will meet.                              *)
(***************************************************************************)
EXTENDS ConnectionProofs

-----------------------------------------------------------------------------
(* The inductive invariant: the data.                                      *)

(* What a slot owes.                                                       *)
DebtOK(s) ==
    /\ s.state = "Closed" => device[s.remote].state = "closed"
    /\ s.state = "Open" =>
         IF ack = "Delayed" THEN s.unacked = held(s) ELSE s.unacked = 0 => held(s) < rx_watermark

(* A read that waits, or failed, has nothing buffered; one that writes an  *)
(* OKAY for what it takes has set it aside.                                *)
ReadInv ==
    /\ call.op = "read" /\ (call.pc = "recv" \/ (call.pc = "idle" /\ call.result = "err"))
         => ~has_data(get(call.ch))
    /\ call.pc = "send" /\ call.after = "taken" => table[call.ch.slot].settled > 0

(* The WRTEs in flight are pieces of their channel's stream, in order.     *)
PieceOK(p) ==
    p.cmd = "WRTE" =>
      /\ Len(p.data) \in 1 .. MaxPayload /\ From(p) >= 0 /\ To(p) <= device[p.remote].sent
      /\ \A j \in DOMAIN p.data : p.data[j] = <<p.remote, From(p) + j>>
WireInv ==
    /\ \A k \in DOMAIN in : PieceOK(in[k])
    /\ \A k, m \in DOMAIN in :
         k < m /\ in[k].cmd = "WRTE" /\ in[m].cmd = "WRTE" /\ in[k].remote = in[m].remote
           => To(in[k]) <= From(in[m])
    /\ \A c \in Ids :
         /\ device[c].local = 0 \/ device[c].state = "asked" => device[c].sent = 0
         /\ device[c].state \in {"unused", "asked", "offered"} => device[c].owes = 0

(* The bytes read, buffered and in flight follow one another.              *)
Grows(q) == \A j, k \in DOMAIN q : j < k => q[j][2] < q[k][2]
GotInv ==
    /\ \A h \in handles :
         /\ \A k \in DOMAIN got[h.local] : got[h.local][k][1] = h.remote
         /\ Grows(got[h.local])
         /\ ~Overruns => \A k \in DOMAIN got[h.local] : got[h.local][k][2] = k
    /\ \A l \in 1 .. MaxLocal : (\A h \in handles : h.local # l) => got[l] = <<>>
StreamOK(c, g, b) ==
    /\ \A k \in DOMAIN b : b[k][1] = c
    /\ Grows(b) /\ \A j \in DOMAIN g, k \in DOMAIN b : g[j][2] < b[k][2]
    /\ \A k \in DOMAIN g : g[k][2] <= device[c].sent
    /\ \A k \in DOMAIN b : b[k][2] <= device[c].sent
    /\ \A m \in DOMAIN in : in[m].cmd = "WRTE" /\ in[m].remote = c =>
         /\ \A k \in DOMAIN g : g[k][2] <= From(in[m])
         /\ \A k \in DOMAIN b : b[k][2] <= From(in[m])

(* Without overruns there are no gaps: what is in flight of channel c is   *)
(* all that the device has written of it after the first n bytes.          *)
CoverOK(c, n) ==
    /\ n <= device[c].sent
    /\ \A k \in DOMAIN in : in[k].cmd = "WRTE" /\ in[k].remote = c => n <= From(in[k])
    /\ \A j \in n + 1 .. device[c].sent : \E k \in DOMAIN in :
         in[k].cmd = "WRTE" /\ in[k].remote = c /\ From(in[k]) < j /\ j <= To(in[k])

(* The device's credit: c has `flying` bytes on their way to a place that  *)
(* holds `kept`, and owes an OKAY for `debt` of them.                      *)
OneWrite(c) == \A k, m \in DOMAIN in : in[k].cmd = "WRTE" /\ in[m].cmd = "WRTE"
                                        /\ in[k].remote = c /\ in[m].remote = c => k = m
RoomOK(c, flying, kept) ==
    IF ack = "Delayed" THEN flying + kept <= rx_cap
    ELSE OneWrite(c) /\ (flying > 0 => kept < rx_watermark)
One(b) == IF b THEN 1 ELSE 0
CreditOK(c, flying, debt) ==
    device[c].state \in {"asked", "open"} /\ ~gone =>
        IF ack = "Delayed"
        THEN device[c].asb + flying + debt + (IF Sending(c, "OKAY") THEN call.frame.len ELSE 0) = advertised_ack_bytes
        ELSE /\ device[c].asb >= 0
             /\ device[c].asb + One(flying > 0) + One(debt > 0) + One(Sending(c, "OKAY")) = 1

(* The host's credit.                                                      *)
BudgetOK(c, budget, acked) ==
    device[c].state = "open" /\ ~gone =>
        IF ack = "Delayed"
        THEN budget >= 0 /\ budget + Sum(Credits(c)) + device[c].owes = Grant
        ELSE One(acked) + Sum(Credits(c)) + One(device[c].owes > 0) = 1

(* A place where c's packets go: a slot, or the open that waits for it.    *)
PlaceOK(c, have, kept, debt, budget, acked) ==
    /\ ~Overruns => /\ CoverOK(c, have)
                    /\ ~desync => /\ RoomOK(c, device[c].sent - have, kept)
                                  /\ CreditOK(c, device[c].sent - have, debt)
    /\ ~Shorts /\ ~desync => BudgetOK(c, budget, acked)
SlotData(i) ==
    LET s == table[i]
        g == got[s.local]
    IN /\ DebtOK(s) /\ StreamOK(s.remote, g, stored[i])
       /\ ~Overruns => \A k \in DOMAIN stored[i] : stored[i][k][2] = Len(g) + k
       /\ PlaceOK(s.remote, Len(g) + s.rx_buf, held(s), s.unacked, s.send_budget, s.wrte_acked)

(* The READY that opens a channel is the first packet of it.               *)
Awaited(c) == /\ call.op = "open" /\ (call.pc = "recv" \/ call.after = "dispatched")
              /\ device[c].local = call.ch.local
AwaitData(c) ==
    Awaited(c) =>
      /\ PlaceOK(c, 0, 0, 0, 0, FALSE)
      /\ device[c].owes = 0 /\ ~Sending(c, "CLSE")
      /\ \A k \in DOMAIN in : in[k].cmd = "WRTE" /\ in[k].remote = c =>
           \E j \in DOMAIN in : j < k /\ in[j].cmd = "READY" /\ in[j].remote = c

CreditsInv ==
    ~Shorts => /\ \A k \in DOMAIN in : in[k].len >= 0
               /\ \A c \in Ids : IsFiniteSet(Units(Credits(c)))
SpentInv ==
    ~Shorts /\ call.pc = "send" /\ call.after = "spent" =>
        IF ack = "Delayed" THEN call.frame.len <= table[call.ch.slot].send_budget
        ELSE table[call.ch.slot].wrte_acked

(* The slot of an answer that cannot be written: an answer before it, of   *)
(* which nobody knows whether it was, may have opened the channel.         *)
Doubtful(i) == desync /\ Reserved(i)
PlacesData ==
    /\ \A i \in Positions : table[i].local # 0 /\ ~Doubtful(i) => SlotData(i)
    /\ \A c \in Ids : AwaitData(c)
DataInv == ReadInv /\ WireInv /\ GotInv /\ CreditsInv /\ SpentInv /\ PlacesData

-----------------------------------------------------------------------------
(* The data.  What is in flight for a channel, and the credit it brings.   *)

Brings(p, c) == IF p.remote = c /\ p.cmd = "READY" THEN IF ack = "Delayed" THEN p.len ELSE 1 ELSE 0
Above(n) == IF n > 0 THEN n ELSE 0

(* Each packet in flight brings its channel some credit or none.           *)
LEMMA CreditsAre ==
    ASSUME in \in Seq(Inbound), NEW c
    PROVE  /\ Credits(c) \in Seq(Int) /\ Len(Credits(c)) = Len(in) /\ Len(in) \in Nat
           /\ DOMAIN in = 1 .. Len(in) /\ DOMAIN Credits(c) = 1 .. Len(in)
           /\ \A k \in DOMAIN in : Credits(c)[k] = Brings(in[k], c)
  <1>1. DOMAIN in = 1 .. Len(in) /\ Len(in) \in Nat
    OBVIOUS
  <1>2. \A k \in DOMAIN in : Brings(in[k], c) \in Int
    <2>1. ASSUME NEW k \in DOMAIN in PROVE Brings(in[k], c) \in Int
      <3>1. in[k] \in Inbound
        BY ElementsOf
      <3>2. in[k].len \in Int
        BY <3>1 DEF Inbound
      <3> QED BY <3>2 DEF Brings
    <2> QED BY <2>1
  <1>3. Credits(c) = [k \in 1 .. Len(in) |-> Brings(in[k], c)]
    BY <1>1 DEF Credits, Brings
  <1> QED BY <1>1, <1>2, <1>3

(* Two sequences with the same elements are the same.                      *)
LEMMA SameSeq ==
    ASSUME NEW T, NEW s \in Seq(T), NEW t \in Seq(T), Len(t) = Len(s),
           \A k \in 1 .. Len(s) : t[k] = s[k]
    PROVE  t = s
  <1>1. s = [k \in 1 .. Len(s) |-> s[k]] /\ t = [k \in 1 .. Len(s) |-> t[k]]
    OBVIOUS
  <1> QED BY <1>1

(* A packet that joins the queue adds the credit it brings.                *)
LEMMA CreditsAppend ==
    ASSUME in \in Seq(Inbound), NEW p \in Inbound, in' = Append(in, p), ack' = ack, NEW c,
           IsFiniteSet(Units(Credits(c)))
    PROVE  IsFiniteSet(Units(Credits(c))') /\ Sum(Credits(c))' = Sum(Credits(c)) + Above(Brings(p, c))
  <1> DEFINE f == Credits(c)
             x == Brings(p, c)
  <1>1. /\ f \in Seq(Int) /\ Len(f) = Len(in) /\ Len(in) \in Nat /\ DOMAIN in = 1 .. Len(in)
        /\ DOMAIN f = 1 .. Len(in) /\ \A k \in DOMAIN in : f[k] = Brings(in[k], c)
    BY CreditsAre
  <1>2. x \in Int
    BY DEF Brings, Inbound
  <1>3. Credits(c)' = Append(f, x)
    <2>1. in' \in Seq(Inbound) /\ Len(in') = Len(in) + 1 /\ DOMAIN in' = 1 .. Len(in) + 1
          /\ in'[Len(in) + 1] = p /\ \A k \in 1 .. Len(in) : in'[k] = in[k]
      OBVIOUS
    <2>2. Credits(c)' = [k \in 1 .. Len(in) + 1 |-> Brings(in'[k], c)]
      <3>1. Credits(c)' = [k \in DOMAIN in' |-> IF in'[k].remote = c /\ in'[k].cmd = "READY"
                                               THEN IF ack' = "Delayed" THEN in'[k].len ELSE 1 ELSE 0]
        BY DEF Credits
      <3>2. \A k \in DOMAIN in' : Brings(in'[k], c) = IF in'[k].remote = c /\ in'[k].cmd = "READY"
                                               THEN IF ack' = "Delayed" THEN in'[k].len ELSE 1 ELSE 0
        BY DEF Brings
      <3> QED BY <2>1, <3>1, <3>2
    <2> HIDE DEF f, x
    <2>3. Append(f, x) = [k \in 1 .. Len(in) + 1 |-> IF k = Len(in) + 1 THEN x ELSE f[k]]
      <3> DEFINE s == Append(f, x)
                 t == [k \in 1 .. Len(in) + 1 |-> IF k = Len(in) + 1 THEN x ELSE f[k]]
      <3>1. s \in Seq(Int) /\ Len(s) = Len(in) + 1 /\ s[Len(in) + 1] = x /\ \A k \in 1 .. Len(in) : s[k] = f[k]
        BY <1>1, <1>2
      <3>2. \A k \in 1 .. Len(in) + 1 : k # Len(in) + 1 => k \in 1 .. Len(in)
        BY <1>1
      <3>3. t \in Seq(Int) /\ Len(t) = Len(in) + 1
            /\ \A k \in 1 .. Len(in) + 1 : t[k] = IF k = Len(in) + 1 THEN x ELSE f[k]
        <4>1. \A k \in 1 .. Len(in) + 1 : (IF k = Len(in) + 1 THEN x ELSE f[k]) \in Int
          BY <1>1, <1>2, <3>2
        <4> QED BY <1>1, <4>1
      <3> HIDE DEF s, t
      <3>4. t = s
        BY <3>1, <3>2, <3>3, SameSeq
      <3> QED BY <3>4 DEF s, t
    <2>4. \A k \in 1 .. Len(in) + 1 : Brings(in'[k], c) = IF k = Len(in) + 1 THEN x ELSE f[k]
      <3>1. ASSUME NEW k \in 1 .. Len(in) + 1, k # Len(in) + 1 PROVE k \in 1 .. Len(in)
        BY <1>1, <3>1
      <3> QED BY <1>1, <2>1, <3>1 DEF x
    <2> QED BY <2>2, <2>3, <2>4
  <1> HIDE DEF f, x
  <1>4. IsFiniteSet(Units(f))
    BY DEF f
  <1>5. IsFiniteSet(Units(Append(f, x))) /\ Sum(Append(f, x)) = Sum(f) + Above(x)
    BY <1>1, <1>2, <1>4, SumAppend DEF Above
  <1>6. Units(Credits(c))' = Units(Append(f, x)) /\ Sum(Credits(c))' = Sum(Append(f, x))
    BY <1>3 DEF Units, Sum
  <1> QED BY <1>5, <1>6 DEF f, x

(* A packet that leaves the queue takes the credit it brings with it.      *)
LEMMA CreditsTail ==
    ASSUME in \in Seq(Inbound), in # <<>>, in' = Tail(in), ack' = ack, NEW c,
           IsFiniteSet(Units(Credits(c)))
    PROVE  IsFiniteSet(Units(Credits(c))') /\ Sum(Credits(c)) = Sum(Credits(c))' + Above(Brings(in[1], c))
  <1> DEFINE f == Credits(c)
  <1>1. /\ f \in Seq(Int) /\ Len(f) = Len(in) /\ Len(in) \in Nat /\ DOMAIN in = 1 .. Len(in)
        /\ DOMAIN f = 1 .. Len(in) /\ \A k \in DOMAIN in : f[k] = Brings(in[k], c)
    BY CreditsAre
  <1>2. f # <<>> /\ 1 \in 1 .. Len(in) /\ Len(in) # 0
    <2>1. Len(in) # 0
      OBVIOUS
    <2>2. Len(f) # 0
      BY <1>1, <2>1
    <2> HIDE DEF f
    <2> QED BY <1>1, <2>1, <2>2
  <1>3. Credits(c)' = Tail(f)
    <2>1. in' \in Seq(Inbound) /\ DOMAIN in' = 1 .. Len(in) - 1 /\ Len(in) - 1 \in Nat
      BY <1>1, <1>2, TailIs
    <2>2. \A k \in 1 .. Len(in) - 1 : k + 1 \in 1 .. Len(in) /\ in'[k] = in[k + 1]
      BY <1>1, TailIs
    <2>3. Credits(c)' = [k \in 1 .. Len(in) - 1 |-> Brings(in'[k], c)]
      <3>1. Credits(c)' = [k \in DOMAIN in' |-> IF in'[k].remote = c /\ in'[k].cmd = "READY"
                                               THEN IF ack' = "Delayed" THEN in'[k].len ELSE 1 ELSE 0]
        BY DEF Credits
      <3>2. \A k \in DOMAIN in' : Brings(in'[k], c) = IF in'[k].remote = c /\ in'[k].cmd = "READY"
                                               THEN IF ack' = "Delayed" THEN in'[k].len ELSE 1 ELSE 0
        BY DEF Brings
      <3> QED BY <2>1, <3>1, <3>2
    <2> HIDE DEF f
    <2>4. Tail(f) = [k \in 1 .. Len(in) - 1 |-> f[k + 1]]
      <3> DEFINE s == Tail(f)
                 t == [k \in 1 .. Len(in) - 1 |-> f[k + 1]]
      <3>1. s \in Seq(Int) /\ Len(s) = Len(in) - 1 /\ \A k \in 1 .. Len(in) - 1 : s[k] = f[k + 1]
        BY <1>1, <1>2
      <3>2. t \in Seq(Int) /\ Len(t) = Len(in) - 1 /\ \A k \in 1 .. Len(in) - 1 : t[k] = f[k + 1]
        <4>1. \A k \in 1 .. Len(in) - 1 : f[k + 1] \in Int
          BY <1>1, <2>2
        <4> QED BY <2>1, <4>1
      <3> HIDE DEF s, t
      <3>3. t = s
        BY <3>1, <3>2, SameSeq
      <3> QED BY <3>3 DEF s, t
    <2>5. \A k \in 1 .. Len(in) - 1 : Brings(in'[k], c) = f[k + 1]
      BY <1>1, <2>2
    <2> QED BY <2>3, <2>4, <2>5
  <1>4. Head(f) = Brings(in[1], c)
    <2>1. f[1] = Brings(in[1], c)
      BY <1>1, <1>2
    <2> HIDE DEF f
    <2> QED BY <1>1, <1>2, <2>1
  <1> HIDE DEF f
  <1>5. IsFiniteSet(Units(f))
    BY DEF f
  <1>6. IsFiniteSet(Units(Tail(f))) /\ Sum(f) = Sum(Tail(f)) + Above(Head(f))
    BY <1>1, <1>2, <1>5, SumTail DEF Above
  <1>7. Units(Credits(c))' = Units(Tail(f)) /\ Sum(Credits(c))' = Sum(Tail(f))
    BY <1>3 DEF Units, Sum
  <1> QED BY <1>4, <1>6, <1>7 DEF f

(* The credit in flight depends on the queue alone.                        *)
LEMMA CreditsSame ==
    ASSUME in' = in, ack' = ack, NEW c
    PROVE  Units(Credits(c))' = Units(Credits(c)) /\ Sum(Credits(c))' = Sum(Credits(c))
  <1>1. Credits(c)' = Credits(c)
    BY DEF Credits
  <1> QED BY <1>1 DEF Units, Sum

(* No credit in flight.                                                    *)
LEMMA NoCredits ==
    ASSUME in \in Seq(Inbound), NEW c, \A k \in DOMAIN in : ~(in[k].remote = c /\ in[k].cmd = "READY")
    PROVE  Sum(Credits(c)) = 0
  <1>1. \A k \in DOMAIN Credits(c) : Credits(c)[k] = 0
    BY CreditsAre DEF Brings
  <1>2. Units(Credits(c)) = {}
    BY <1>1 DEF Units
  <1> QED BY <1>2, FS_EmptySet DEF Sum

(* The credit in flight is a number.                                       *)
LEMMA SumNat ==
    ASSUME NEW c, IsFiniteSet(Units(Credits(c)))
    PROVE  Sum(Credits(c)) \in Nat
  BY FS_CardinalityType DEF Sum

(* Nothing of channel c's data or credit enters or leaves the wire.        *)
Carries(p, c) == p.remote = c /\ p.cmd \in {"WRTE", "READY"}
Shifted(c, d) ==
    /\ \A k \in DOMAIN in' : Carries(in'[k], c) => k + d \in DOMAIN in /\ in[k + d] = in'[k]
    /\ \A k \in DOMAIN in : Carries(in[k], c) => k - d \in DOMAIN in' /\ in'[k - d] = in[k]
SameFlight(c) ==
    /\ \E d \in {0, 1} : Shifted(c, d)
    /\ IsFiniteSet(Units(Credits(c))) => Sum(Credits(c))' = Sum(Credits(c))

(* The positions of a sequence are numbers.                                *)
LEMMA SeqNats ==
    ASSUME NEW T, NEW s \in Seq(T), NEW k \in DOMAIN s
    PROVE  k \in Nat /\ k \in Int /\ k > 0 /\ k <= Len(s)
  OBVIOUS

(* A packet of another channel, or without data and credit, leaves what is *)
(* in flight of this one alone.                                            *)
LEMMA FlightKept ==
    ASSUME ConnTypeOK, ack' = ack, NEW c,
           \/ in' = in
           \/ in # <<>> /\ in' = Tail(in) /\ ~Carries(in[1], c)
           \/ \E p \in Inbound : in' = Append(in, p) /\ ~Carries(p, c)
    PROVE  SameFlight(c)
  <1>1. in \in Seq(Inbound) /\ \A k \in DOMAIN in : k \in Nat
    BY SeqNats DEF ConnTypeOK
  <1>2. CASE in' = in
    <2>1. Shifted(c, 0)
      BY <1>1, <1>2 DEF Shifted
    <2> QED BY <1>2, <2>1, CreditsSame DEF SameFlight
  <1>3. CASE in # <<>> /\ in' = Tail(in) /\ ~Carries(in[1], c)
    <2>1. Shifted(c, 1)
      BY <1>1, <1>3, TailIs DEF Shifted
    <2>2. Brings(in[1], c) = 0
      BY <1>3 DEF Carries, Brings
    <2>3. ASSUME IsFiniteSet(Units(Credits(c))) PROVE Sum(Credits(c))' = Sum(Credits(c))
      <3>1. IsFiniteSet(Units(Credits(c))') /\ Sum(Credits(c)) = Sum(Credits(c))' + 0
        BY <1>1, <1>3, <2>2, <2>3, CreditsTail DEF Above
      <3>2. Sum(Credits(c))' \in Nat
        BY <3>1, FS_CardinalityType DEF Sum
      <3> QED BY <3>1, <3>2
    <2> QED BY <2>1, <2>3 DEF SameFlight
  <1>4. ASSUME NEW p \in Inbound, in' = Append(in, p), ~Carries(p, c) PROVE SameFlight(c)
    <2>1. Shifted(c, 0)
      BY <1>1, <1>4, AppendIs DEF Shifted
    <2>2. Brings(p, c) = 0
      BY <1>4 DEF Carries, Brings
    <2>3. ASSUME IsFiniteSet(Units(Credits(c))) PROVE Sum(Credits(c))' = Sum(Credits(c))
      <3>1. Sum(Credits(c))' = Sum(Credits(c)) + 0
        BY <1>1, <1>4, <2>2, <2>3, CreditsAppend DEF Above
      <3>2. Sum(Credits(c)) \in Nat
        BY <2>3, SumNat
      <3> QED BY <3>1, <3>2
    <2> QED BY <2>1, <2>3 DEF SameFlight
  <1> QED BY <1>2, <1>3, <1>4

(* ... and the device's end of it stays as it is, or closes.               *)
SameOkay(c) ==
    /\ Sending(c, "OKAY")' <=> Sending(c, "OKAY")
    /\ Sending(c, "OKAY") => call'.frame.len = call.frame.len
SameEnd(c) == /\ device'[c].sent = device[c].sent /\ (device[c].state = "closed" => device'[c].state = "closed")
              /\ ~desync' => /\ device'[c].asb = device[c].asb /\ device'[c].owes = device[c].owes
                             /\ device'[c].state \in {device[c].state, "closed"}
Steady == /\ UNCHANGED <<ack, scenario>> /\ ConnTypeOK /\ ConnTypeOK' /\ CreditsInv
          /\ (~desync' => ~desync) /\ (~gone' => ~gone)
Calm(c) == /\ Steady /\ c \in Ids /\ SameFlight(c) /\ SameEnd(c)
           /\ ~desync' /\ ~gone' => SameOkay(c)

(* The WRTEs of a channel whose flight stays are the same ones.            *)
LEMMA WritesKept ==
    ASSUME NEW c, ConnTypeOK, ConnTypeOK', SameFlight(c)
    PROVE  /\ \A k \in DOMAIN in' : in'[k].cmd = "WRTE" /\ in'[k].remote = c =>
                \E m \in DOMAIN in : in[m] = in'[k]
           /\ \A k \in DOMAIN in : in[k].cmd = "WRTE" /\ in[k].remote = c =>
                \E m \in DOMAIN in' : in'[m] = in[k]
           /\ OneWrite(c) => OneWrite(c)'
  <1>1. PICK d \in {0, 1} : Shifted(c, d)
    BY DEF SameFlight
  <1>2. \A k \in DOMAIN in' : k \in Nat
    BY SeqNats DEF ConnTypeOK
  <1>3. OneWrite(c) => OneWrite(c)'
    <2> SUFFICES ASSUME OneWrite(c), NEW k \in DOMAIN in', NEW m \in DOMAIN in', in'[k].cmd = "WRTE", in'[m].cmd = "WRTE",
                        in'[k].remote = c, in'[m].remote = c
                 PROVE  k = m
      BY DEF OneWrite
    <2>1. k + d = m + d
      BY <1>1 DEF Shifted, Carries, OneWrite
    <2> QED BY <1>2, <2>1
  <1> QED BY <1>1, <1>3 DEF Shifted, Carries

(* What is in flight of the stream still has no gap.                       *)
LEMMA CoverKept ==
    ASSUME NEW c, ConnTypeOK, ConnTypeOK', SameFlight(c), device'[c].sent = device[c].sent, NEW n, CoverOK(c, n)
    PROVE  CoverOK(c, n)'
  <1>1. \A k \in DOMAIN in' : in'[k].cmd = "WRTE" /\ in'[k].remote = c => n <= From(in'[k])
    BY WritesKept DEF CoverOK
  <1>2. ASSUME NEW j \in n + 1 .. device[c].sent
        PROVE  \E k \in DOMAIN in' : in'[k].cmd = "WRTE" /\ in'[k].remote = c /\ From(in'[k]) < j /\ j <= To(in'[k])
    BY WritesKept DEF CoverOK
  <1> QED BY <1>1, <1>2 DEF CoverOK, From, To

(* A place keeps its room and its credit while its channel is calm.        *)
LEMMA PlaceKept ==
    ASSUME NEW c, Calm(c), NEW have, NEW kept, NEW debt, NEW budget, NEW acked,
           PlaceOK(c, have, kept, debt, budget, acked)
    PROVE  PlaceOK(c, have, kept, debt, budget, acked)'
  <1>1. /\ UNCHANGED <<ack, scenario>> /\ ConnTypeOK /\ ConnTypeOK' /\ CreditsInv /\ SameFlight(c) /\ SameEnd(c)
        /\ (~desync' => ~desync) /\ (~gone' => ~gone) /\ (~desync' /\ ~gone' => SameOkay(c)) /\ c \in Ids
    BY DEF Calm, Steady
  <1>2. Overruns' = Overruns /\ Shorts' = Shorts
    BY <1>1, TypesKept
  <1>3. ~Overruns => CoverOK(c, have)'
    BY <1>1, CoverKept DEF PlaceOK, SameEnd
  <1> DEFINE flying == device[c].sent - have
  <1>4. ASSUME ~Overruns, ~desync'
        PROVE  RoomOK(c, flying, kept)' /\ CreditOK(c, flying, debt)'
    <2>1. RoomOK(c, flying, kept) /\ CreditOK(c, flying, debt)
      BY <1>1, <1>4 DEF PlaceOK
    <2>2. flying' = flying
      BY <1>1 DEF SameEnd
    <2>3. OneWrite(c) => OneWrite(c)'
      BY <1>1, WritesKept
    <2> HIDE DEF flying
    <2>4. RoomOK(c, flying, kept)'
      BY <1>1, <2>1, <2>2, <2>3 DEF RoomOK
    <2>5. CreditOK(c, flying, debt)'
      <3> SUFFICES ASSUME device'[c].state \in {"asked", "open"}, ~gone'
                   PROVE  IF ack' = "Delayed"
                          THEN device'[c].asb + flying' + debt + (IF Sending(c, "OKAY")' THEN call'.frame.len ELSE 0) = advertised_ack_bytes
                          ELSE /\ device'[c].asb >= 0
                               /\ device'[c].asb + One(flying' > 0) + One(debt > 0) + One(Sending(c, "OKAY")') = 1
        BY DEF CreditOK, One
      <3>1. device[c].state \in {"asked", "open"} /\ ~gone /\ device'[c].asb = device[c].asb
        BY <1>1, <1>4 DEF SameEnd
      <3>2. Sending(c, "OKAY")' <=> Sending(c, "OKAY")
        BY <1>1, <1>4 DEF SameOkay
      <3>3. Sending(c, "OKAY") => call'.frame.len = call.frame.len
        BY <1>1, <1>4 DEF SameOkay
      <3>4. One(Sending(c, "OKAY")') = One(Sending(c, "OKAY"))
        BY <3>2 DEF One
      <3> QED BY <1>1, <2>1, <2>2, <3>1, <3>2, <3>3, <3>4 DEF CreditOK
    <2> QED BY <2>4, <2>5
  <1>5. ASSUME ~Shorts, ~desync' PROVE BudgetOK(c, budget, acked)'
    <2>1. BudgetOK(c, budget, acked)
      BY <1>1, <1>5 DEF PlaceOK
    <2>2. Sum(Credits(c))' = Sum(Credits(c))
      BY <1>1, <1>5 DEF CreditsInv, SameFlight
    <2>3. /\ device'[c].owes = device[c].owes /\ (device'[c].state = "open" => device[c].state = "open")
      BY <1>1, <1>5 DEF SameEnd
    <2> QED BY <1>1, <2>1, <2>2, <2>3 DEF BudgetOK
  <1> QED BY <1>2, <1>3, <1>4, <1>5 DEF PlaceOK

(* What is read and buffered stays before what is in flight.               *)
LEMMA StreamKept ==
    ASSUME ConnTypeOK, ConnTypeOK', NEW c, SameFlight(c), device'[c].sent = device[c].sent,
           NEW g, NEW b, StreamOK(c, g, b)
    PROVE  StreamOK(c, g, b)'
  <1>1. ASSUME NEW m \in DOMAIN in', in'[m].cmd = "WRTE", in'[m].remote = c
        PROVE  /\ \A k \in DOMAIN g : g[k][2] <= From(in'[m])
               /\ \A k \in DOMAIN b : b[k][2] <= From(in'[m])
    <2>1. PICK k \in DOMAIN in : in[k] = in'[m]
      BY <1>1, WritesKept
    <2> QED BY <1>1, <2>1 DEF StreamOK
  <1> QED BY <1>1 DEF StreamOK, From, Grows

(* What a slot's data must be, slot by slot.                               *)
Whole(s, g, b) ==
    /\ DebtOK(s) /\ StreamOK(s.remote, g, b)
    /\ ~Overruns => \A k \in DOMAIN b : b[k][2] = Len(g) + k
    /\ PlaceOK(s.remote, Len(g) + s.rx_buf, held(s), s.unacked, s.send_budget, s.wrte_acked)

(* A slot's data, said of the slot and its bytes rather than of its        *)
(* position.                                                               *)
LEMMA SlotDataIs ==
    ASSUME NEW i
    PROVE  /\ SlotData(i) <=> Whole(table[i], got[table[i].local], stored[i])
           /\ \A s, g, b : s = table'[i] /\ g = got'[s.local] /\ b = stored'[i] => (SlotData(i)' <=> Whole(s, g, b)')
  <1>1. SlotData(i) <=> Whole(table[i], got[table[i].local], stored[i])
    BY DEF SlotData, Whole
  <1>2. ASSUME NEW s, NEW g, NEW b, s = table'[i], g = got'[s.local], b = stored'[i]
        PROVE  SlotData(i)' <=> Whole(s, g, b)'
    BY <1>2 DEF SlotData, Whole
  <1> QED BY <1>1, <1>2

(* A slot with its bytes stays as it should while its channel is calm.     *)
LEMMA WholeKept ==
    ASSUME NEW s, Calm(s.remote), NEW g, NEW b, Whole(s, g, b)
    PROVE  Whole(s, g, b)'
  <1>1. /\ ConnTypeOK /\ ConnTypeOK' /\ SameFlight(s.remote) /\ SameEnd(s.remote) /\ UNCHANGED <<ack, scenario>>
    BY DEF Calm, Steady
  <1>2. DebtOK(s)'
    <2>1. DebtOK(s)
      BY DEF Whole
    <2> QED BY <1>1, <2>1 DEF DebtOK, SameEnd, held
  <1>3. StreamOK(s.remote, g, b)'
    <2>1. device'[s.remote].sent = device[s.remote].sent /\ StreamOK(s.remote, g, b)
      BY <1>1 DEF SameEnd, Whole
    <2> QED BY <1>1, <2>1, StreamKept
  <1>4. Overruns' = Overruns
    BY <1>1, TypesKept
  <1>5. PlaceOK(s.remote, Len(g) + s.rx_buf, held(s), s.unacked, s.send_budget, s.wrte_acked)'
    <2>1. PlaceOK(s.remote, Len(g) + s.rx_buf, held(s), s.unacked, s.send_budget, s.wrte_acked)
      BY DEF Whole
    <2> QED BY <2>1, PlaceKept
  <1> QED BY <1>2, <1>3, <1>4, <1>5 DEF Whole

(* A slot that the step leaves alone keeps its data.                       *)
LEMMA SlotKept ==
    ASSUME NEW i, table'[i] = table[i], stored'[i] = stored[i],
           got'[table[i].local] = got[table[i].local], Calm(table[i].remote), SlotData(i)
    PROVE  SlotData(i)'
  <1>1. PICK s : s = table[i]
    OBVIOUS
  <1>2. PICK g : g = got[table[i].local]
    OBVIOUS
  <1>3. PICK b : b = stored[i]
    OBVIOUS
  <1>4. s = table'[i] /\ g = got'[s.local] /\ b = stored'[i]
    BY <1>1, <1>2, <1>3
  <1>5. Whole(s, g, b) /\ Calm(s.remote)
    BY <1>1, <1>2, <1>3, SlotDataIs
  <1>6. Whole(s, g, b)'
    BY <1>5, WholeKept
  <1> QED BY <1>4, <1>6, SlotDataIs

(* A channel that an open waits for keeps its credit while it is calm.     *)
LEMMA AwaitKept ==
    ASSUME NEW c, BaseInv', Calm(c), AwaitData(c), Awaited(c)' => Awaited(c) /\ ~Sending(c, "CLSE")'
    PROVE  AwaitData(c)'
  <1> SUFFICES ASSUME Awaited(c)' PROVE
      /\ PlaceOK(c, 0, 0, 0, 0, FALSE)'
      /\ device'[c].owes = 0 /\ ~Sending(c, "CLSE")'
      /\ \A k \in DOMAIN in' : in'[k].cmd = "WRTE" /\ in'[k].remote = c =>
           \E j \in DOMAIN in' : j < k /\ in'[j].cmd = "READY" /\ in'[j].remote = c
    BY DEF AwaitData
  <1>0. ~desync'
    BY DEF BaseInv, CallInv, OpenInv, DesyncInv, Awaited
  <1>1. /\ ConnTypeOK /\ ConnTypeOK' /\ SameFlight(c) /\ SameEnd(c)
    BY DEF Calm, Steady
  <1>2. PlaceOK(c, 0, 0, 0, 0, FALSE)'
    <2>1. PlaceOK(c, 0, 0, 0, 0, FALSE)
      BY DEF AwaitData
    <2> QED BY <2>1, PlaceKept
  <1>3. PICK d \in {0, 1} : Shifted(c, d)
    BY <1>1 DEF SameFlight
  <1>4. ASSUME NEW k \in DOMAIN in', in'[k].cmd = "WRTE", in'[k].remote = c
        PROVE  \E j \in DOMAIN in' : j < k /\ in'[j].cmd = "READY" /\ in'[j].remote = c
    <2>1. k + d \in DOMAIN in /\ in[k + d] = in'[k] /\ k \in Nat
      BY <1>1, <1>3, <1>4, SeqNats DEF Shifted, Carries, ConnTypeOK
    <2>2. PICK j \in DOMAIN in : j < k + d /\ in[j].cmd = "READY" /\ in[j].remote = c
      BY <1>4, <2>1 DEF AwaitData
    <2>3. j - d \in DOMAIN in' /\ in'[j - d] = in[j] /\ j \in Nat
      BY <1>1, <1>3, <2>2, SeqNats DEF Shifted, Carries, ConnTypeOK
    <2>4. j - d < k
      BY <2>1, <2>2, <2>3
    <2> QED BY <2>2, <2>3, <2>4
  <1> QED BY <1>0, <1>1, <1>2, <1>4 DEF SameEnd, AwaitData

(* An answer that cannot be written is not written later.                  *)
Undoubted == \A i \in Positions : table'[i].local # 0 /\ Doubtful(i) => Doubtful(i)'

(* Only an answer may be in doubt.                                         *)
LEMMA UndoubtedIs ==
    ASSUME BaseInv, call.op # "answer" \/ ~desync
    PROVE  Undoubted /\ \A i \in Positions : ~Doubtful(i)
  <1>1. ASSUME NEW i \in Positions PROVE ~Doubtful(i)
    <2>1. CASE call.op # "answer"
      <3>1. incoming.reserved = NoChannel
        BY <2>1 DEF BaseInv, CallInv, AnswerInv, NoIncoming
      <3>2. i # 0
        BY DEF Positions
      <3> QED BY <3>1, <3>2 DEF Doubtful, Reserved, NoChannel
    <2> QED BY <2>1 DEF Doubtful
  <1> QED BY <1>1 DEF Undoubted

(* A step that concerns channel c0 at most.                                *)
LEMMA DataMoves ==
    ASSUME DataInv, BaseInv, BaseInv', NEW c0, scenario' = scenario, Undoubted,
           \A c \in Ids : c # c0 => Calm(c),
           ReadInv', WireInv', GotInv', CreditsInv', SpentInv',
           \A i \in Positions : table'[i].local # 0 /\ table'[i].remote # c0 =>
              table'[i] = table[i] /\ stored'[i] = stored[i] /\ got'[table[i].local] = got[table[i].local],
           \A i \in Positions : table'[i].local # 0 /\ table'[i].remote = c0 /\ ~Doubtful(i)' => SlotData(i)',
           \A c \in Ids : c # c0 /\ Awaited(c)' => Awaited(c) /\ ~Sending(c, "CLSE")',
           c0 \in Ids => AwaitData(c0)'
    PROVE  DataInv'
  <1>1. Positions' = Positions
    BY TypesKept
  <1>2. ASSUME NEW i \in Positions, table'[i].local # 0, ~Doubtful(i)' PROVE SlotData(i)'
    <2>1. CASE table'[i].remote = c0
      BY <1>2, <2>1
    <2>2. CASE table'[i].remote # c0
      <3>1. table'[i] = table[i] /\ stored'[i] = stored[i] /\ got'[table[i].local] = got[table[i].local]
        BY <1>2, <2>2
      <3>2. SlotData(i) /\ table[i].remote \in Ids
        <4>1. ~Doubtful(i)
          BY <1>2 DEF Undoubted
        <4> QED BY <1>2, <3>1, <4>1, LiveIs DEF DataInv, PlacesData, Live
      <3> QED BY <2>2, <3>1, <3>2, SlotKept
    <2> QED BY <2>1, <2>2
  <1>3. ASSUME NEW c \in Ids PROVE AwaitData(c)'
    <2>1. CASE c # c0
      <3>1. AwaitData(c)
        BY DEF DataInv, PlacesData
      <3> QED BY <2>1, <3>1, AwaitKept
    <2> QED BY <2>1
  <1>4. PlacesData'
    BY <1>1, <1>2, <1>3 DEF PlacesData
  <1> QED BY <1>4 DEF DataInv

-----------------------------------------------------------------------------
(* Steps that move no packet and no byte.                                  *)

(* The pieces on the wire stay in order when the queue shrinks or gains a  *)
(* packet without data.                                                    *)
LEMMA WireKept ==
    ASSUME ConnTypeOK, ConnTypeOK', WireInv, InKept, \A c \in Ids : device'[c].sent = device[c].sent,
           \A c \in Ids :
             /\ device'[c].local = 0 \/ device'[c].state = "asked" => device'[c].sent = 0
             /\ device'[c].state \in {"unused", "asked", "offered"} => device'[c].owes = 0
    PROVE  WireInv'
  <1>1. PICK d \in {0, 1} : \A k \in DOMAIN in' : k \in Nat /\ k + d \in DOMAIN in /\ in'[k] = in[k + d]
    BY InKeptIs
  <1>3. ASSUME NEW k \in DOMAIN in' PROVE PieceOK(in[k])'
    <2>1. PICK p : p = in[k + d]
      OBVIOUS
    <2>2. PieceOK(p) /\ p.remote \in Ids /\ p = in'[k]
      BY <1>1, <2>1, PacketTypes DEF WireInv
    <2>3. PieceOK(p)'
      BY <2>2 DEF PieceOK, From, To
    <2> QED BY <2>2, <2>3 DEF PieceOK, From, To
  <1>4. ASSUME NEW k \in DOMAIN in', NEW m \in DOMAIN in', k < m, in'[k].cmd = "WRTE", in'[m].cmd = "WRTE",
               in'[k].remote = in'[m].remote
        PROVE  To(in'[k]) <= From(in'[m])
    <2>1. k + d \in DOMAIN in /\ m + d \in DOMAIN in /\ k + d < m + d /\ in'[k] = in[k + d] /\ in'[m] = in[m + d]
      BY <1>1, <1>4
    <2> QED BY <1>4, <2>1 DEF WireInv
  <1> QED BY <1>3, <1>4 DEF WireInv, To, From

(* The READYs that stay in flight stay good.                               *)
LEMMA CreditsKept ==
    ASSUME ConnTypeOK, CreditsInv, InKept, UNCHANGED <<ack, scenario>>
    PROVE  CreditsInv'
  <1> SUFFICES ASSUME ~Shorts' PROVE /\ \A k \in DOMAIN in' : in'[k].len >= 0
                                     /\ \A c \in Ids : IsFiniteSet(Units(Credits(c)))'
    BY DEF CreditsInv
  <1>1. ~Shorts
    BY TypesKept
  <1>2. \A k \in DOMAIN in' : in'[k].len >= 0
    BY <1>1, InKeptIs DEF CreditsInv
  <1>3. ASSUME NEW c \in Ids PROVE IsFiniteSet(Units(Credits(c)))'
    <2>1. IsFiniteSet(Units(Credits(c)))
      BY <1>1 DEF CreditsInv
    <2>2. CASE in' = in
      <3>1. Units(Credits(c))' = Units(Credits(c))
        BY <2>2, CreditsSame
      <3> QED BY <2>1, <3>1
    <2>3. CASE in # <<>> /\ in' = Tail(in)
      <3>1. IsFiniteSet(Units(Credits(c))')
        BY <2>1, <2>3, CreditsTail DEF ConnTypeOK
      <3> QED BY <3>1
    <2> QED BY <2>2, <2>3 DEF InKept
  <1> QED BY <1>2, <1>3 DEF CreditsInv

(* What was read stays as it is.                                           *)
LEMMA GotKept ==
    ASSUME GotInv, UNCHANGED <<scenario, got, handles>>
    PROVE  GotInv'
  <1>1. Overruns' = Overruns
    BY TypesKept
  <1> QED BY <1>1 DEF GotInv, Grows

(* A channel is calm when its end, its OKAY and its flight are left alone. *)
LEMMA CalmIs ==
    ASSUME ConnTypeOK, ConnTypeOK', CreditsInv, UNCHANGED <<ack, scenario>>, ~desync' => ~desync, ~gone' => ~gone,
           NEW c \in Ids, SameEnd(c), ~desync' /\ ~gone' => SameOkay(c),
           \/ in' = in
           \/ in # <<>> /\ in' = Tail(in) /\ ~Carries(in[1], c)
           \/ \E p \in Inbound : in' = Append(in, p) /\ ~Carries(p, c)
    PROVE  Calm(c)
  <1>1. SameFlight(c)
    BY FlightKept
  <1> QED BY <1>1 DEF Calm, Steady

(* The device's ends stay, or a frame whose write was abandoned has come.  *)
LateEnds ==
    \A c \in Ids :
      /\ device'[c].sent = device[c].sent /\ (device[c].state = "closed" => device'[c].state = "closed")
      /\ device'[c].local = 0 \/ device'[c].state = "asked" => device'[c].sent = 0
      /\ device'[c].state \in {"unused", "asked", "offered"} => device'[c].owes = 0
EndsStay == device' = device \/ (desync' /\ LateEnds)

(* A step of the host that takes no packet and at most frees slots.        *)
LEMMA DataStill ==
    ASSUME BaseInv, BaseInv', DataInv, UNCHANGED <<ack, scenario, handles, got, in>>, EndsStay, Undoubted,
           ~desync' => ~desync, ~gone' => ~gone, ReadInv', SpentInv',
           \A i \in Positions : table'[i].local # 0 => table'[i] = table[i] /\ stored'[i] = stored[i],
           \A c \in Ids : ~desync' /\ ~gone' => SameOkay(c),
           \A c \in Ids : Awaited(c)' => Awaited(c) /\ ~Sending(c, "CLSE")'
    PROVE  DataInv'
  <1>1. ConnTypeOK /\ ConnTypeOK' /\ CreditsInv /\ InKept /\ WireInv /\ GotInv
    BY DEF BaseInv, DataInv, InKept
  <1>2. ASSUME NEW c \in Ids PROVE Calm(c)
    <2>1. SameEnd(c) /\ (~desync' /\ ~gone' => SameOkay(c))
      BY DEF SameEnd, EndsStay, LateEnds
    <2> QED BY <1>1, <2>1, CalmIs
  <1>3. WireInv'
    <2>1. \A c \in Ids : /\ device'[c].sent = device[c].sent
                         /\ device'[c].local = 0 \/ device'[c].state = "asked" => device'[c].sent = 0
                         /\ device'[c].state \in {"unused", "asked", "offered"} => device'[c].owes = 0
      BY <1>1 DEF WireInv, EndsStay, LateEnds
    <2> QED BY <1>1, <2>1, WireKept
  <1>4. CreditsInv' /\ GotInv'
    BY <1>1, CreditsKept, GotKept
  <1>5. 0 \notin Ids
    BY IdsAre
  <1>6. \A i \in Positions : table'[i].local # 0 => table'[i].remote # 0
    <2>1. ASSUME NEW i \in Positions, table'[i].local # 0 PROVE table'[i].remote # 0
      <3>1. table[i] = table'[i] /\ Live(i)
        BY <2>1 DEF Live
      <3> QED BY <1>5, <3>1, LiveIs
    <2> QED BY <2>1
  <1> DEFINE c0 == 0
  <1>7. /\ \A c \in Ids : c # c0 => Calm(c)
        /\ \A i \in Positions : table'[i].local # 0 /\ table'[i].remote # c0 =>
              table'[i] = table[i] /\ stored'[i] = stored[i] /\ got'[table[i].local] = got[table[i].local]
        /\ \A i \in Positions : table'[i].local # 0 /\ table'[i].remote = c0 => SlotData(i)'
        /\ \A c \in Ids : c # c0 /\ Awaited(c)' => Awaited(c) /\ ~Sending(c, "CLSE")'
        /\ c0 \in Ids => AwaitData(c0)'
    BY <1>2, <1>5, <1>6
  <1> HIDE DEF c0
  <1> QED BY <1>3, <1>4, <1>7, DataMoves

(* ... and writes no OKAY.                                                 *)
LEMMA DataQuiet ==
    ASSUME BaseInv, BaseInv', DataInv, UNCHANGED <<ack, scenario, handles, got, in>>, EndsStay, Undoubted,
           ~desync' => ~desync, ~gone' => ~gone, ReadInv', SpentInv',
           \A i \in Positions : table'[i].local # 0 => table'[i] = table[i] /\ stored'[i] = stored[i],
           \A c \in Ids : ~desync' /\ ~gone' => ~Sending(c, "OKAY") /\ ~Sending(c, "OKAY")',
           \A c \in Ids : Awaited(c)' => Awaited(c) /\ ~Sending(c, "CLSE")'
    PROVE  DataInv'
  <1>1. \A c \in Ids : ~desync' /\ ~gone' => SameOkay(c)
    BY DEF SameOkay
  <1> QED BY <1>1, DataStill

(* ... by a call that neither waits with a channel nor failed to read it.  *)
LEMMA DataCall ==
    ASSUME BaseInv, BaseInv', DataInv, UNCHANGED <<ack, scenario, handles, got, in>>, EndsStay, Undoubted,
           ~desync' => ~desync, ~gone' => ~gone,
           \A i \in Positions : table'[i].local # 0 => table'[i] = table[i] /\ stored'[i] = stored[i],
           ~desync' /\ ~gone' /\ call.pc = "send" => call.frame.cmd # "OKAY",
           call'.pc = "send" => call'.after \notin {"taken", "spent"} /\ call'.frame.cmd # "OKAY",
           call'.op = "read" => call'.pc # "recv" /\ (call'.pc = "idle" => call'.result # "err"),
           call'.op = "open" => call'.pc = "send" /\ call'.after = "await"
    PROVE  DataInv'
  <1>1. ReadInv' /\ SpentInv'
    BY DEF ReadInv, SpentInv
  <1>2. \A c \in Ids : ~desync' /\ ~gone' => ~Sending(c, "OKAY") /\ ~Sending(c, "OKAY")'
    BY DEF Sending
  <1>3. \A c \in Ids : ~Awaited(c)'
    BY DEF Awaited
  <1> QED BY <1>1, <1>2, <1>3, DataQuiet

(* A call that starts changes nothing of the data.                         *)
LEMMA StartData ==
    ASSUME BaseInv, BaseInv', DataInv, StartOpen \/ StartRead \/ StartWrite \/ StartAccept
    PROVE  DataInv'
  <1>1. UNCHANGED <<ack, scenario, device, handles, got, in, table, stored, desync, gone>> /\ call.pc = "idle"
    BY DEF StartOpen, StartRead, StartWrite, StartAccept, wireVars
  <1>2. /\ call'.pc = "send" => call'.after = "await" /\ call'.frame.cmd = "OPEN"
        /\ call'.op = "read" => call'.pc = "take"
        /\ call'.op = "open" => call'.pc = "send" /\ call'.after = "await"
    <2>1. CASE StartOpen
      BY <2>1 DEF StartOpen, Starts, NoCall, Frame
    <2>2. CASE StartRead
      BY <2>2 DEF StartRead, Starts, NoCall
    <2>3. CASE StartWrite
      BY <2>3 DEF StartWrite, Starts, NoCall
    <2>4. CASE StartAccept
      BY <2>4 DEF StartAccept, Starts, NoCall
    <2> QED BY <2>1, <2>2, <2>3, <2>4
  <1>3. EndsStay /\ Undoubted
    BY <1>1, UndoubtedIs DEF EndsStay, BaseInv, CallInv, AnswerInv
  <1> QED BY <1>1, <1>2, <1>3, DataCall

(* Nor does close, which frees the slot.                                   *)
LEMMA CloseData ==
    ASSUME BaseInv, BaseInv', DataInv, StartClose
    PROVE  DataInv'
  <1>1. /\ UNCHANGED <<ack, scenario, device, handles, got, in, desync, gone>> /\ call.pc = "idle"
    BY DEF StartClose, wireVars
  <1>2. PICK h \in handles :
             /\ table' = [table EXCEPT ![h.slot] = NoSlot]
             /\ stored' = [stored EXCEPT ![h.slot] = <<>>]
             /\ call' = [Starts("close", [slot |-> h.slot, local |-> h.local], 0) EXCEPT !.pc = "send", !.after = "closed",
                                      !.frame = close(h.local, get([slot |-> h.slot, local |-> h.local]).remote)]
    BY DEF StartClose
  <1>3. call'.pc = "send" /\ call'.after = "closed" /\ call'.frame.cmd = "CLSE" /\ call'.op = "close"
    BY <1>2 DEF Starts, NoCall, close, Frame
  <1>4. ASSUME NEW i \in Positions, table'[i].local # 0 PROVE table'[i] = table[i] /\ stored'[i] = stored[i]
    <2>1. i # h.slot
      BY <1>2, <1>4, NoSlotIs DEF BaseInv, ConnTypeOK
    <2> QED BY <1>2, <2>1 DEF BaseInv, ConnTypeOK
  <1>5. EndsStay /\ Undoubted
    BY <1>1, UndoubtedIs DEF EndsStay, BaseInv, CallInv, AnswerInv
  <1> QED BY <1>1, <1>3, <1>4, <1>5, DataCall

(* Nor does handing an Incoming over.                                      *)
LEMMA HandOverData ==
    ASSUME BaseInv, BaseInv', DataInv, HandOver
    PROVE  DataInv'
  <1>1. /\ UNCHANGED <<ack, scenario, device, handles, got, in, table, stored, desync, gone>> /\ call.pc # "send"
    BY DEF HandOver, wireVars
  <1>2. call'.pc # "send" /\ call'.op \notin {"read", "open"}
    <2>1. CASE queue = <<>>
      <3>1. call.op = "accept" /\ call' = [call EXCEPT !.pc = "recv"]
        BY <2>1 DEF HandOver
      <3> QED BY <3>1 DEF BaseInv, ConnTypeOK, CallStates
    <2>2. CASE queue # <<>>
      BY <2>2 DEF HandOver, Starts, NoCall
    <2> QED BY <2>1, <2>2
  <1>3. EndsStay /\ Undoubted
    BY <1>1, UndoubtedIs DEF EndsStay, BaseInv, CallInv, AnswerInv
  <1> QED BY <1>1, <1>2, <1>3, DataCall

(* Nor does refusing a request, or accepting it with a full table.         *)
LEMMA RefuseData ==
    ASSUME BaseInv, BaseInv', DataInv, Reject \/ (Accept /\ FreePositions = {})
    PROVE  DataInv'
  <1>1. /\ UNCHANGED <<ack, scenario, device, handles, got, in, table, stored, desync, gone>> /\ call.pc # "send"
    BY DEF Reject, Accept, wireVars
  <1>2. call'.pc = "send" /\ call'.op = "answer" /\ call'.after \in {"answered", "refused"} /\ call'.frame.cmd = "CLSE"
    <2>1. CASE Reject
      BY <2>1 DEF Reject, Starts, NoCall, refuse, close, Frame
    <2>2. CASE Accept /\ FreePositions = {}
      <3>1. call' = [Starts("answer", NoChannel, 0) EXCEPT !.pc = "send", !.frame = refuse(incoming.pending),
                                                          !.after = "refused"]
        BY <2>2 DEF Accept
      <3> QED BY <3>1 DEF Starts, NoCall, refuse, close, Frame
    <2> QED BY <2>1, <2>2
  <1>3. EndsStay /\ Undoubted
    BY <1>1, UndoubtedIs DEF EndsStay, BaseInv, CallInv, AnswerInv
  <1> QED BY <1>1, <1>2, <1>3, DataCall

(* The Incoming goes, and its slot with it.                                *)
LEMMA UnreservedData ==
    ASSUME BaseInv, BaseInv', DataInv, UNCHANGED <<ack, scenario, handles, got, in, stored>>, EndsStay,
           ~desync' => ~desync, ~gone' => ~gone, table' = Unreserved,
           ~desync' /\ ~gone' => call.pc # "send",
           NEW x \in {"ok", "err", "dropped"}, call' = Returns(x), call.op = "read" => x # "err"
    PROVE  DataInv'
  <1>2. ASSUME NEW i \in Positions, table'[i].local # 0 PROVE table'[i] = table[i] /\ stored'[i] = stored[i]
    <2>1. i = incoming.reserved.slot => incoming.reserved = NoChannel
      BY <1>2, NoSlotIs DEF BaseInv, ConnTypeOK, Unreserved
    <2> QED BY <2>1 DEF BaseInv, ConnTypeOK, Unreserved
  <1>3. call'.pc = "idle" /\ call'.op # "open" /\ call'.op # "read"
    BY ReturnsIs DEF BaseInv
  <1>4. Undoubted
    <2>1. ASSUME NEW i \in Positions, Reserved(i) PROVE table'[i].local = 0
      <3>1. i # 0 /\ incoming.reserved.slot = i
        BY <2>1 DEF Reserved, Positions
      <3>2. incoming.reserved # NoChannel
        BY <3>1 DEF NoChannel
      <3> QED BY <3>1, <3>2, NoSlotIs DEF BaseInv, ConnTypeOK, Unreserved
    <2> QED BY <2>1 DEF Undoubted, Doubtful
  <1> QED BY <1>2, <1>3, <1>4, DataCall

(* get depends on the table alone.                                         *)
LEMMA GetKept ==
    ASSUME UNCHANGED <<scenario, table>>
    PROVE  \A ch : get(ch)' = get(ch)
  BY TypesKept DEF get

(* A call that returns keeps the data as it is.                            *)
LEMMA EndData ==
    ASSUME BaseInv, BaseInv', DataInv, UNCHANGED <<ack, scenario, handles, got, in, table, stored>>, EndsStay,
           ~desync' => ~desync, ~gone' => ~gone, call.op # "answer",
           ~desync' /\ ~gone' /\ call.pc = "send" => call.frame.cmd # "OKAY",
           NEW x \in {"ok", "err", "dropped"}, call' = Returns(x),
           call.op = "read" /\ x = "err" => ~has_data(get(call.ch))
    PROVE  DataInv'
  <1>1. /\ call'.pc = "idle" /\ call'.op \in {"none", "read"} /\ call'.op # "open"
        /\ call'.op = "read" => call.op = "read" /\ call'.ch = call.ch /\ x = "err"
    BY ReturnsIs DEF BaseInv
  <1>2. ReadInv'
    <2> SUFFICES ASSUME call'.op = "read" PROVE ~has_data(get(call.ch)')
      BY <1>1 DEF ReadInv
    <2>1. PICK ch : ch = call.ch
      OBVIOUS
    <2>2. call'.ch = ch /\ ~has_data(get(ch)) /\ get(ch)' = get(ch)
      BY <1>1, <2>1, GetKept
    <2> QED BY <2>2 DEF get
  <1>3. SpentInv' /\ \A c \in Ids : ~Awaited(c)'
    BY <1>1 DEF SpentInv, Awaited
  <1>4. \A c \in Ids : ~desync' /\ ~gone' => ~Sending(c, "OKAY") /\ ~Sending(c, "OKAY")'
    BY <1>1 DEF Sending
  <1> QED BY <1>2, <1>3, <1>4, UndoubtedIs, DataQuiet

(* A call that begins to wait has nothing of its channel buffered.         *)
LEMMA WaitData ==
    ASSUME BaseInv, BaseInv', DataInv, UNCHANGED <<ack, scenario, device, handles, got, in, table, stored, desync, gone>>,
           call.op \in {"read", "write"}, call.pc # "send", call' = [call EXCEPT !.pc = "recv"],
           call.op = "read" => ~has_data(get(call.ch))
    PROVE  DataInv'
  <1>1. call'.pc = "recv" /\ call'.op = call.op /\ call'.ch = call.ch
    BY DEF BaseInv, ConnTypeOK, CallStates
  <1>2. ReadInv'
    <2> SUFFICES ASSUME call'.op = "read" PROVE ~has_data(get(call.ch)')
      BY <1>1 DEF ReadInv
    <2>1. PICK ch : ch = call.ch
      OBVIOUS
    <2>2. call'.ch = ch /\ ~has_data(get(ch)) /\ get(ch)' = get(ch)
      BY <1>1, <2>1, GetKept
    <2> QED BY <2>2 DEF get
  <1>3. SpentInv' /\ \A c \in Ids : ~Awaited(c)'
    BY <1>1 DEF SpentInv, Awaited
  <1>4. \A c \in Ids : ~desync' /\ ~gone' => ~Sending(c, "OKAY") /\ ~Sending(c, "OKAY")'
    BY <1>1 DEF Sending
  <1>5. EndsStay /\ Undoubted
    BY UndoubtedIs DEF EndsStay
  <1> QED BY <1>2, <1>3, <1>4, <1>5, DataQuiet

(* An Incoming that is dropped undecided.                                  *)
LEMMA UndecidedData ==
    ASSUME BaseInv, BaseInv', DataInv, Undecided
    PROVE  DataInv'
  <1>1. /\ UNCHANGED <<ack, scenario, device, handles, got, in, stored, desync, gone>> /\ call.pc = "held"
        /\ call' = Returns("ok") /\ table' = Unreserved
    BY DEF Undecided, DropIncoming, Unreserved, wireVars
  <1>2. EndsStay /\ call.op # "read"
    BY <1>1 DEF EndsStay, BaseInv, CallInv, AnswerInv
  <1> QED BY <1>1, <1>2, UnreservedData

(* What a frame does to the device's ends leaves the stream alone.         *)
LEMMA FrameLate ==
    ASSUME BaseInv, WireInv, call.pc = "send", ~desync, device' = DeviceGets(call.frame)
    PROVE  LateEnds
  <1> SUFFICES ASSUME NEW c \in Ids
               PROVE  /\ device'[c].sent = device[c].sent
                      /\ device[c].state = "closed" => device'[c].state = "closed"
                      /\ device'[c].local = 0 \/ device'[c].state = "asked" => device'[c].sent = 0
                      /\ device'[c].state \in {"unused", "asked", "offered"} => device'[c].owes = 0
    BY DEF LateEnds
  <1>1. /\ device \in [Ids -> DeviceEnds] /\ device[c] \in DeviceEnds /\ call.frame \in Frames
        /\ device[c].sent \in Nat /\ device[c].state \in {"unused", "asked", "offered", "open", "closed"}
    BY DeviceEndIs DEF BaseInv, ConnTypeOK, CallStates
  <1>2. /\ device[c].local = 0 \/ device[c].state = "asked" => device[c].sent = 0
        /\ device[c].state \in {"unused", "asked", "offered"} => device[c].owes = 0
    BY DEF WireInv
  <1> DEFINE d == device[c]
             f == call.frame
             asb == IF ack = "Delayed" THEN f.len ELSE 1
  <1>3. CASE f.cmd = "OPEN"
    <2>1. call.after = "await"
      BY <1>3 DEF BaseInv, CallInv, FrameInv, AnswerInv, Frame
    <2>2. Unused # {}
      BY <2>1 DEF BaseInv, CallInv, FrameInv
    <2>3. first(Unused) \in Ids /\ device[first(Unused)].state = "unused" /\ device[first(Unused)].local = 0
      BY <2>2, UnusedIs
    <2>4. device' = [device EXCEPT ![first(Unused)] = [@ EXCEPT !.state = "asked", !.local = f.local, !.asb = asb]]
      BY <1>3 DEF DeviceGets
    <2> HIDE DEF f, asb
    <2>5. CASE c # first(Unused)
      BY <1>1, <1>2, <2>4, <2>5
    <2>6. CASE c = first(Unused)
      <3>1. device'[c] = [d EXCEPT !.state = "asked", !.local = f.local, !.asb = asb]
        BY <1>1, <2>4, <2>6
      <3>2. device'[c].state = "asked" /\ device'[c].sent = d.sent /\ device'[c].owes = d.owes
        BY <1>1, <3>1 DEF DeviceEnds
      <3> QED BY <1>2, <2>3, <2>6, <3>2
    <2> QED BY <2>5, <2>6
  <1>4. CASE f.cmd = "READY"
    <2>1. call.op = "answer"
      BY <1>4 DEF BaseInv, CallInv, FrameInv, Frame
    <2>2. f.local # 0
      <3>1. incoming.reserved # NoChannel
        BY <1>4, <2>1 DEF BaseInv, CallInv, AnswerInv
      <3>2. f.local = incoming.reserved.local /\ incoming.reserved.local # 0
        BY <2>1, <3>1 DEF BaseInv, CallInv, AnswerInv, Frame
      <3> QED BY <3>2
    <2>3. device' = IF device[f.remote].state # "offered" THEN device
                    ELSE [device EXCEPT ![f.remote] = [@ EXCEPT !.state = "open", !.local = f.local, !.asb = asb]]
      BY <1>4 DEF DeviceGets
    <2> HIDE DEF f, asb
    <2>4. CASE c # f.remote \/ device' = device
      BY <1>1, <1>2, <2>3, <2>4
    <2>5. CASE c = f.remote /\ device' # device
      <3>1. device'[c] = [d EXCEPT !.state = "open", !.local = f.local, !.asb = asb] /\ d.state = "offered"
        BY <1>1, <2>3, <2>5
      <3>2. device'[c].state = "open" /\ device'[c].sent = d.sent /\ device'[c].local = f.local
        BY <1>1, <3>1 DEF DeviceEnds
      <3> QED BY <2>2, <3>1, <3>2
    <2> QED BY <2>4, <2>5
  <1>5. CASE f.cmd = "OKAY"
    <2>1. device' = [device EXCEPT ![f.remote].asb = @ + asb]
      BY <1>5 DEF DeviceGets
    <2> HIDE DEF f, asb
    <2>2. device'[c].state = d.state /\ device'[c].sent = d.sent /\ device'[c].local = d.local /\ device'[c].owes = d.owes
      BY <1>1, <2>1 DEF DeviceEnds
    <2> QED BY <1>2, <2>2
  <1>6. CASE f.cmd = "WRTE"
    <2>1. call.after = "spent"
      BY <1>6 DEF BaseInv, CallInv, FrameInv, AnswerInv, Frame
    <2>2. call.op = "write" /\ f.remote = table[call.ch.slot].remote
      BY <2>1 DEF BaseInv, CallInv, FrameInv
    <2>3. PICK h \in handles : h.slot = call.ch.slot /\ h.local = call.ch.local
      BY <2>2 DEF BaseInv, CallInv, UseInv, HandleOf
    <2>4. call.ch.slot \in Positions /\ table[call.ch.slot].local = call.ch.local
      BY <2>2, UserIs DEF Live
    <2>5. device[f.remote].state \in {"open", "closed"}
      BY <2>2, <2>3, <2>4 DEF BaseInv, IdsInv, HandlesInv
    <2>6. device' = [device EXCEPT ![f.remote].has = @ + f.len, ![f.remote].owes = @ + f.len]
      BY <1>6 DEF DeviceGets
    <2> HIDE DEF f
    <2>7. CASE c # f.remote
      BY <1>1, <1>2, <2>6, <2>7
    <2>8. CASE c = f.remote
      <3>1. device'[c] = [d EXCEPT !.has = d.has + f.len, !.owes = d.owes + f.len]
        BY <1>1, <2>6, <2>8 DEF DeviceEnds
      <3>2. device'[c].state = d.state /\ device'[c].sent = d.sent /\ device'[c].local = d.local
        BY <1>1, <3>1 DEF DeviceEnds
      <3> QED BY <1>2, <2>5, <2>8, <3>2
    <2> QED BY <2>7, <2>8
  <1>7. CASE f.cmd \notin {"OPEN", "READY", "OKAY", "WRTE"}
    <2>1. device' = [device EXCEPT ![f.remote].state = "closed"]
      BY <1>7 DEF DeviceGets
    <2> HIDE DEF f
    <2>2. CASE c # f.remote
      BY <1>1, <1>2, <2>1, <2>2
    <2>3. CASE c = f.remote
      <3>1. device'[c] = [d EXCEPT !.state = "closed"]
        BY <1>1, <2>1, <2>3
      <3>2. device'[c].state = "closed" /\ device'[c].sent = d.sent /\ device'[c].local = d.local
        BY <1>1, <3>1 DEF DeviceEnds
      <3> QED BY <1>2, <3>2
    <2> QED BY <2>2, <2>3
  <1> QED BY <1>3, <1>4, <1>5, <1>6, <1>7

(* A call that is dropped while it writes.                                 *)
LEMMA SendDroppedData ==
    ASSUME BaseInv, BaseInv', DataInv, SendDropped
    PROVE  DataInv'
  <1>1. /\ UNCHANGED <<ack, scenario, handles, got, in, stored, gone>> /\ desync' /\ ~desync
        /\ call.pc = "send" /\ Abandoned /\ call' = Returns("dropped") /\ table' = Unreserved
    BY DEF SendDropped, DropIncoming, Unreserved
  <1>2. EndsStay
    BY <1>1, FrameLate DEF EndsStay, Abandoned, DataInv
  <1> QED BY <1>1, <1>2, UnreservedData

(* A call whose receive fails, or that is dropped while it waits.          *)
LEMMA ReceiveEndsData ==
    ASSUME BaseInv, BaseInv', DataInv, ReceiveFails \/ ReceiveDropped
    PROVE  DataInv'
  <1>1. /\ UNCHANGED <<ack, scenario, device, handles, got, in, table, stored, desync, gone>> /\ call.pc = "recv"
        /\ call' = Returns("err") \/ call' = Returns("dropped")
    BY DEF ReceiveFails, ReceiveDropped, wireVars
  <1>2. call.op = "read" => ~has_data(get(call.ch))
    BY <1>1 DEF DataInv, ReadInv
  <1>3. EndsStay /\ call.op # "answer"
    BY <1>1 DEF EndsStay, BaseInv, CallInv, AnswerInv
  <1> QED BY <1>1, <1>2, <1>3, EndData

(* A step that changes nothing of the channels.                            *)
LEMMA SameData ==
    ASSUME BaseInv, BaseInv', DataInv, ~gone' => ~gone,
           UNCHANGED <<ack, scenario, device, handles, got, in, table, stored, call, incoming, desync>>
    PROVE  DataInv'
  <1>1. ConnTypeOK /\ ConnTypeOK' /\ CreditsInv /\ InKept /\ WireInv /\ GotInv /\ ReadInv /\ SpentInv
    BY DEF BaseInv, DataInv, InKept
  <1>2. \A c : (Sending(c, "OKAY")' <=> Sending(c, "OKAY")) /\ (Sending(c, "CLSE")' <=> Sending(c, "CLSE"))
               /\ (Awaited(c)' <=> Awaited(c))
    BY DEF Sending, Awaited
  <1>3. \A c \in Ids : ~desync' /\ ~gone' => SameOkay(c)
    BY <1>2 DEF SameOkay
  <1>6. ReadInv' /\ SpentInv'
    <2>1. \A ch : get(ch)' = get(ch)
      BY GetKept
    <2>2. Shorts' = Shorts
      BY TypesKept
    <2>3. ReadInv'
      <3>1. PICK ch : ch = call.ch
        OBVIOUS
      <3>2. get(ch)' = get(call.ch)
        BY <2>1, <3>1
      <3>3. get(call.ch)' = get(call.ch)
        BY <3>1, <3>2 DEF get
      <3> QED BY <1>1, <3>3 DEF ReadInv
    <2> QED BY <1>1, <2>2, <2>3 DEF SpentInv
  <1>7. \A c \in Ids : Awaited(c)' => Awaited(c) /\ ~Sending(c, "CLSE")'
    BY <1>2 DEF DataInv, PlacesData, AwaitData
  <1>8. EndsStay /\ Undoubted
    BY DEF EndsStay, Undoubted, Doubtful, Reserved
  <1> QED BY <1>3, <1>6, <1>7, <1>8, DataStill

(* A write cuts its next piece, within the budget of its slot.             *)
LEMMA ChunkData ==
    ASSUME BaseInv, BaseInv', DataInv, Chunk
    PROVE  DataInv'
  <1> DEFINE s == get(call.ch)
  <1>1. /\ UNCHANGED <<ack, scenario, device, handles, got, in, table, stored, desync, gone>>
        /\ call.pc = "top" /\ call.op = "write"
    BY DEF Chunk, wireVars
  <1>0. EndsStay /\ Undoubted /\ call.op # "answer"
    BY <1>1, UndoubtedIs DEF EndsStay
  <1>2. CASE s = NoSlot \/ is_closed(s)
    BY <1>0, <1>1, <1>2, EndData DEF Chunk
  <1>3. CASE s # NoSlot /\ ~is_closed(s) /\ ~has_budget(s)
    BY <1>1, <1>3, WaitData DEF Chunk
  <1>4. CASE s # NoSlot /\ ~is_closed(s) /\ has_budget(s)
    <2> DEFINE f == Frame("WRTE", s.local, s.remote, chunk(s))
    <2>1. call' = Sends(f, "spent")
      BY <1>4 DEF Chunk
    <2>2. /\ call.ch.slot \in Positions /\ s = table[call.ch.slot]
          /\ s.local = call.ch.local /\ s.local # 0
      BY <1>4, GetIs DEF BaseInv, ConnTypeOK, CallStates
    <2>3. s.local \in 0 .. MaxLocal /\ s.remote \in Ids /\ s.ack = ack
      BY <2>2, SMTT(60) DEF BaseInv, SlotsInv, SlotOK, ConnTypeOK, CallStates, ChannelIds
    <2>4. chunk(s) \in Nat \ {0} /\ (s.ack = "Delayed" => chunk(s) <= s.send_budget)
      BY <1>1, <1>4, ChunkLen
    <2>5. f \in Frames /\ f.cmd = "WRTE" /\ f.len = chunk(s)
      BY <2>3, <2>4, FramesAre
    <2> HIDE DEF f, s
    <2>6. /\ call'.pc = "send" /\ call'.after = "spent" /\ call'.op = "write"
          /\ call'.ch = call.ch /\ call'.frame = f
      BY <1>1, <2>1, <2>5, SendsIs DEF BaseInv, Afters
    <2>7. ReadInv' /\ \A c \in Ids : ~Awaited(c)'
      BY <2>6 DEF ReadInv, Awaited
    <2>8. SpentInv'
      <3>1. table'[call'.ch.slot] = s
        BY <1>1, <2>2, <2>6
      <3> QED BY <1>1, <1>4, <2>3, <2>4, <2>5, <2>6, <3>1 DEF SpentInv, has_budget
    <2>9. \A c \in Ids : ~desync' /\ ~gone' => ~Sending(c, "OKAY") /\ ~Sending(c, "OKAY")'
      BY <1>1, <2>5, <2>6 DEF Sending
    <2> QED BY <1>0, <1>1, <2>7, <2>8, <2>9, DataQuiet
  <1> QED BY <1>2, <1>3, <1>4

(* A call goes on after a send that failed.                                *)
LEMMA LoopData ==
    ASSUME BaseInv, BaseInv', DataInv, UNCHANGED <<ack, scenario, handles, got, in, table, stored, gone>>, EndsStay,
           ~desync' => ~desync, call.pc = "send", call.after = "dispatched", desync' \/ gone',
           call' = Loop \/ call' = LoopFailing
    PROVE  DataInv'
  <1>1. call.op \in {"open", "read", "write", "accept"}
    BY DEF BaseInv, CallInv, FrameInv
  <1>2. /\ call'.pc \in {"take", "top", "recv", "idle"} /\ (call'.op = "read" => call'.pc = "take")
        /\ call'.op = "open" => call'.pc = "recv" /\ call.op = "open" /\ call'.ch = call.ch
    <2>1. CASE call' = Loop
      BY <1>1, <2>1, LoopIs DEF BaseInv
    <2>2. CASE call' = LoopFailing
      BY <1>1, <2>2, LoopFailingIs, NoCallIs DEF BaseInv
    <2> QED BY <2>1, <2>2
  <1>3. ReadInv' /\ SpentInv'
    BY <1>2 DEF ReadInv, SpentInv
  <1>4. \A c \in Ids : Awaited(c)' => Awaited(c) /\ ~Sending(c, "CLSE")'
    <2>1. CASE device' = device
      BY <1>2, <2>1 DEF Awaited, Sending
    <2>2. CASE desync'
      BY <1>2, <2>2 DEF BaseInv, CallInv, OpenInv, DesyncInv, Awaited
    <2> QED BY <2>1, <2>2 DEF EndsStay
  <1>5. \A c \in Ids : ~desync' /\ ~gone' => ~Sending(c, "OKAY") /\ ~Sending(c, "OKAY")'
    OBVIOUS
  <1> QED BY <1>1, <1>3, <1>4, <1>5, UndoubtedIs, DataQuiet

(* A frame that is not written.                                            *)
LEMMA LostData ==
    ASSUME BaseInv, BaseInv', DataInv, NEW sent, Written(sent), sent # "ok", call.after # "taken"
    PROVE  DataInv'
  <1>1. /\ call.pc = "send" /\ UNCHANGED <<ack, scenario, in, gone>> /\ AfterSend(sent)
        /\ (~desync' => ~desync) /\ (desync' \/ gone')
        /\ device' = device \/ (device' = DeviceGets(call.frame) /\ ~desync /\ desync')
    BY DEF Written, Abandoned
  <1>0. EndsStay
    BY <1>1, FrameLate DEF EndsStay, DataInv
  <1>2. CASE call.after = "delivered"
    <2>1. call' = Returns("ok") /\ UNCHANGED <<table, stored, handles, got>>
      BY <1>1, <1>2 DEF AfterSend
    <2>2. call.op = "read"
      BY <1>1, <1>2 DEF BaseInv, CallInv, FrameInv
    <2> QED BY <1>0, <1>1, <2>1, <2>2, EndData
  <1>3. CASE call.after = "dispatched"
    <2>1. call' = (IF sent = "failed" THEN LoopFailing ELSE Loop) /\ UNCHANGED <<table, stored, handles, got>>
      BY <1>1, <1>3 DEF AfterSend
    <2> QED BY <1>0, <1>1, <1>3, <2>1, LoopData
  <1>4. CASE call.after \in {"await", "spent", "closed", "short"}
    <2>1. call' = Returns("err") /\ UNCHANGED <<table, stored, handles, got>>
      BY <1>1, <1>4 DEF AfterSend
    <2>2. call.op # "read" /\ call.op # "answer"
      BY <1>1, <1>4 DEF BaseInv, CallInv, FrameInv
    <2> QED BY <1>0, <1>1, <2>1, <2>2, EndData
  <1>5. CASE call.after \notin {"taken", "delivered", "dispatched", "await", "spent", "closed", "short"}
    <2>1. call.op = "answer" /\ call.after \in {"answered", "refused"}
      BY <1>1, <1>5 DEF BaseInv, CallInv, FrameInv, AnswerInv
    <2>2. call' = Returns("err") /\ UNCHANGED <<stored, handles, got>>
      BY <1>1, <2>1 DEF AfterSend
    <2>3. table' = Unreserved
      BY <1>1, <2>1 DEF AfterSend, DropIncoming, Unreserved
    <2> QED BY <1>0, <1>1, <2>1, <2>2, <2>3, UnreservedData
  <1> QED BY <1>2, <1>3, <1>4, <1>5

-----------------------------------------------------------------------------
(* A read takes bytes from the buffer.                                     *)

(* The host's credit stays while nothing of it moves.                      *)
LEMMA BudgetKept ==
    ASSUME UNCHANGED <<ack, scenario>>, CreditsInv, ~gone' => ~gone, ~Shorts,
           NEW c \in Ids, SameFlight(c), device'[c].owes = device[c].owes,
           device'[c].state = "open" => device[c].state = "open",
           NEW budget, NEW acked, BudgetOK(c, budget, acked)
    PROVE  BudgetOK(c, budget, acked)'
  <1>1. Sum(Credits(c))' = Sum(Credits(c))
    BY DEF CreditsInv, SameFlight
  <1> QED BY <1>1 DEF BudgetOK

(* A place that holds less still has the room.                             *)
LEMMA RoomKept ==
    ASSUME ack' = ack, ConnTypeOK, ConnTypeOK', NEW c, SameFlight(c), NEW flying, NEW kept \in Int, NEW less \in Int,
           less <= kept, flying \in Int, RoomOK(c, flying, kept)
    PROVE  RoomOK(c, flying, less)'
  <1>1. OneWrite(c) => OneWrite(c)'
    BY WritesKept
  <1> QED BY <1>1, Limits DEF RoomOK

(* One slot is kept, with its bytes: what it owes and may send may change. *)
LEMMA SlotMoved ==
    ASSUME ConnTypeOK, ConnTypeOK', UNCHANGED <<ack, scenario>>, NEW i,
           NEW s, s = table[i], NEW t, t = table'[i], t.local = s.local, t.remote = s.remote, t.rx_buf = s.rx_buf,
           stored'[i] = stored[i], got'[s.local] = got[s.local],
           SameFlight(s.remote), device'[s.remote].sent = device[s.remote].sent, SlotData(i), DebtOK(t)',
           \A have : have = Len(got[s.local]) + s.rx_buf =>
             /\ ~Overruns /\ ~desync' => /\ RoomOK(s.remote, device[s.remote].sent - have, held(t))'
                                         /\ CreditOK(s.remote, device[s.remote].sent - have, t.unacked)'
             /\ ~Shorts /\ ~desync' => BudgetOK(s.remote, t.send_budget, t.wrte_acked)'
    PROVE  SlotData(i)'
  <1>1. PICK g : g = got[s.local]
    OBVIOUS
  <1>2. PICK b : b = stored[i]
    OBVIOUS
  <1>3. PICK c : c = s.remote
    OBVIOUS
  <1>4. Whole(s, g, b)
    BY <1>1, <1>2, SlotDataIs
  <1>5. StreamOK(c, g, b)'
    <2>1. StreamOK(c, g, b) /\ device'[c].sent = device[c].sent /\ SameFlight(c)
      BY <1>3, <1>4 DEF Whole
    <2> QED BY <2>1, StreamKept
  <1>6. Overruns' = Overruns /\ Shorts' = Shorts
    BY TypesKept
  <1>7. PICK have : have = Len(g) + s.rx_buf
    OBVIOUS
  <1>8. ~Overruns => CoverOK(c, have)'
    <2>1. ~Overruns => CoverOK(c, have)
      BY <1>3, <1>4, <1>7 DEF Whole, PlaceOK
    <2> QED BY <1>3, <2>1, CoverKept
  <1>9. PlaceOK(c, have, held(t), t.unacked, t.send_budget, t.wrte_acked)'
    <2>1. ASSUME ~Overruns, ~desync'
          PROVE  RoomOK(c, device[c].sent - have, held(t))' /\ CreditOK(c, device[c].sent - have, t.unacked)'
      BY <1>1, <1>3, <1>7, <2>1
    <2>2. ~Shorts /\ ~desync' => BudgetOK(c, t.send_budget, t.wrte_acked)'
      BY <1>1, <1>3, <1>7
    <2> QED BY <1>6, <1>8, <2>1, <2>2 DEF PlaceOK
  <1>10. Whole(t, g, b)'
    <2>1. ~Overruns => \A k \in DOMAIN b : b[k][2] = Len(g) + k
      BY <1>4 DEF Whole
    <2> QED BY <1>3, <1>5, <1>6, <1>7, <1>9, <2>1 DEF Whole
  <1>11. g = got'[t.local] /\ b = stored'[i]
    BY <1>1, <1>2
  <1> QED BY <1>10, <1>11, SlotDataIs

(* What is known of a live slot, by its parts.                             *)
At(i, s, g, c, have) ==
    /\ Live(i) /\ ~Doubtful(i)
    /\ s = table[i] /\ g = got[s.local] /\ c = s.remote /\ have = Len(g) + s.rx_buf

NoGap(g, b) == \A k \in DOMAIN b : b[k][2] = Len(g) + k
Parts(i, s, g, c, have) ==
    /\ SlotData(i) /\ DebtOK(s) /\ StreamOK(c, g, stored[i]) /\ (~Overruns => NoGap(g, stored[i]))
    /\ ~Overruns => CoverOK(c, have)
    /\ ~Overruns /\ ~desync => RoomOK(c, device[c].sent - have, held(s)) /\ CreditOK(c, device[c].sent - have, s.unacked)
    /\ ~Shorts /\ ~desync => BudgetOK(c, s.send_budget, s.wrte_acked)
    /\ g \in Seq(Bytes) /\ Len(g) \in Nat /\ have \in Nat /\ held(s) \in Nat /\ s.unacked \in Nat /\ s.rx_buf \in Nat
    /\ s \in Slots /\ c \in Ids /\ device[c].sent \in Nat /\ device[c].asb \in Int /\ device[c].owes \in Nat

(* The data of a live slot holds by its parts.                             *)
LEMMA PartsAre ==
    ASSUME BaseInv, DataInv, NEW i, NEW s, NEW g, NEW c, NEW have, At(i, s, g, c, have)
    PROVE  Parts(i, s, g, c, have)
  <1> Live(i) /\ ~Doubtful(i) /\ s = table[i] /\ g = got[s.local] /\ c = s.remote /\ have = Len(g) + s.rx_buf
    BY DEF At
  <1>1. SlotData(i)
    BY DEF DataInv, PlacesData, Live
  <1>2. Whole(s, g, stored[i])
    BY <1>1, SlotDataIs
  <1>3. /\ s \in Slots /\ s.remote \in Ids /\ s.local \in 1 .. MaxLocal /\ s.settled <= s.rx_buf
    BY LiveIs
  <1>4. g \in Seq(Bytes)
    BY <1>3 DEF BaseInv, ConnTypeOK
  <1>5. Len(g) \in Nat /\ s.rx_buf \in Nat /\ s.unacked \in Nat /\ s.settled \in Nat
    BY <1>3, <1>4 DEF Slots
  <1>6. held(s) \in Nat /\ have \in Nat
    BY <1>3, <1>5 DEF held
  <1>7. device[c].sent \in Nat /\ device[c].asb \in Int /\ device[c].owes \in Nat
    BY <1>3, DeviceEndIs
  <1>8. /\ DebtOK(s) /\ StreamOK(c, g, stored[i]) /\ (~Overruns => NoGap(g, stored[i]))
        /\ PlaceOK(c, have, held(s), s.unacked, s.send_budget, s.wrte_acked)
    BY <1>2 DEF Whole, NoGap
  <1> QED BY <1>1, <1>3, <1>4, <1>5, <1>6, <1>7, <1>8 DEF Parts, PlaceOK

(* No two slots are of the same channel.                                   *)
LEMMA Apart ==
    ASSUME BaseInv, NEW i, Live(i)
    PROVE  \A j \in Positions : table[j].remote = table[i].remote => j = i
  BY DEF BaseInv, IdsInv, TableInv, Live

(* A slot that an OKAY is about to be written for.                         *)
LEMMA SettleData ==
    ASSUME BaseInv, BaseInv', DataInv, call.pc = "take", NEW i, i = call.ch.slot, Live(i),
           table[i].local = call.ch.local, NEW s, s = table[i], call.op = "read", call.want \in Nat \ {0}, s.rx_buf > 0,
           settle_ack(s, call.want) # NoAck,
           table' = [table EXCEPT ![i] = settle_take(s, call.want)],
           call' = Sends(Frame("OKAY", s.local, s.remote, settle_ack(s, call.want)), "taken"),
           UNCHANGED <<ack, scenario, stored, got, handles, wireVars>>
    PROVE  DataInv'
  <1>0. Undoubted /\ \A j \in Positions : ~Doubtful(j)
    BY UndoubtedIs
  <1>1. PICK c : c = s.remote
    OBVIOUS
  <1>2. PICK a : a = settle_ack(s, call.want)
    OBVIOUS
  <1>3. PICK t : t = settle_take(s, call.want)
    OBVIOUS
  <1>4. PICK g : g = got[s.local]
    OBVIOUS
  <1>5. PICK have : have = Len(g) + s.rx_buf
    OBVIOUS
  <1>6. /\ SlotData(i) /\ DebtOK(s)
        /\ ~Overruns /\ ~desync => RoomOK(c, device[c].sent - have, held(s)) /\ CreditOK(c, device[c].sent - have, s.unacked)
        /\ ~Shorts /\ ~desync => BudgetOK(c, s.send_budget, s.wrte_acked)
        /\ have \in Nat /\ held(s) \in Nat /\ s.unacked \in Nat /\ s.rx_buf \in Nat
        /\ s \in Slots /\ c \in Ids /\ device[c].sent \in Nat /\ device[c].asb \in Int
    <2>1. At(i, s, g, c, have)
      BY <1>0, <1>1, <1>4, <1>5 DEF At, Live
    <2>2. Parts(i, s, g, c, have)
      BY <2>1, PartsAre
    <2> QED BY <2>2 DEF Parts
  <1>7. s.ack = ack /\ s.settled <= s.rx_buf /\ s.local \in 0 .. MaxLocal /\ s.local # 0
    <2>1. s.ack = ack /\ s.settled <= s.rx_buf /\ s.local \in 1 .. MaxLocal
      BY LiveIs
    <2> QED BY <2>1
  <1>8. /\ a \in Nat \ {0} /\ a <= s.unacked /\ t \in Slots /\ SameChannel(s, t) /\ SameBudget(s, t)
        /\ t.state = s.state /\ t.rx_buf = s.rx_buf /\ t.unacked = s.unacked - a
        /\ s.settled = 0 /\ t.settled = AtMost(call.want, s.rx_buf) /\ held(t) \in Nat /\ held(t) <= held(s)
        /\ IF s.ack = "Delayed" THEN a = AtMost(AtMost(call.want, s.rx_buf), s.unacked)
           ELSE a = s.unacked /\ held(t) < rx_watermark
    BY <1>2, <1>3, <1>6, <1>7, SettleIs
  <1>9. table'[i] = t /\ \A j \in Positions : j # i => table'[j] = table[j]
    BY <1>3 DEF BaseInv, ConnTypeOK, Live
  <1>10. /\ UNCHANGED <<device, in, desync, gone>>
    BY DEF wireVars
  <1> DEFINE f == Frame("OKAY", s.local, s.remote, a)
  <1>11. f \in Frames /\ f.cmd = "OKAY" /\ f.remote = c /\ f.len = a
    <2>1. s.local \in 0 .. MaxLocal /\ s.remote \in Ids \cup {0} /\ a \in Nat
      BY <1>1, <1>6, <1>7, <1>8
    <2> QED BY <1>1, <2>1 DEF Frame, Frames
  <1>12. call' = Sends(f, "taken")
    BY <1>2
  <1> HIDE DEF f
  <1>13. call'.pc = "send" /\ call'.after = "taken" /\ call'.op = "read" /\ call'.ch = call.ch /\ call'.frame = f
    BY <1>11, <1>12, SendsIs DEF BaseInv, Afters
  <1>14. ConnTypeOK /\ ConnTypeOK' /\ InKept /\ CreditsInv /\ WireInv /\ GotInv
    BY <1>10 DEF BaseInv, DataInv, InKept
  <1>15. \A q \in Ids : SameFlight(q) /\ SameEnd(q)
    BY <1>10, <1>14, FlightKept DEF SameEnd
  <1>16. Sending(c, "OKAY")' /\ call'.frame.len = a /\ \A q : ~Sending(q, "OKAY") /\ (q # c => ~Sending(q, "OKAY")')
    BY <1>11, <1>13 DEF Sending
  <1>17. DebtOK(t)'
    <2>1. t.state = "Closed" => device'[t.remote].state = "closed"
      BY <1>6, <1>8, <1>10 DEF DebtOK, SameChannel
    <2>2. ASSUME t.state = "Open", ack' = "Delayed" PROVE t.unacked = held(t)
      <3>1. s.unacked = held(s) /\ s.ack = "Delayed" /\ held(s) = s.rx_buf - s.settled /\ held(t) = t.rx_buf - t.settled
        BY <1>6, <1>7, <1>8, <2>2 DEF DebtOK, held
      <3>2. PICK w, n : w = call.want /\ n = s.rx_buf
        OBVIOUS
      <3>3. w \in Nat /\ n \in Nat
        BY <1>6, <3>2
      <3>4. PICK m : m = AtMost(w, n)
        OBVIOUS
      <3>5. m \in Nat /\ m <= n /\ AtMost(m, n) = m
        BY <3>3, <3>4 DEF AtMost
      <3>6. s.settled = 0 /\ t.settled = m /\ t.rx_buf = n /\ t.unacked = s.unacked - a /\ a = AtMost(m, s.unacked)
        BY <1>8, <3>1, <3>2, <3>4
      <3>7. s.unacked = n
        BY <3>1, <3>2, <3>3, <3>6
      <3>8. t.unacked = n - m /\ held(t) = n - m
        BY <3>1, <3>5, <3>6, <3>7
      <3> QED BY <3>8
    <2>3. ASSUME t.state = "Open", ack' # "Delayed" PROVE held(t) < rx_watermark
      BY <1>7, <1>8, <2>3
    <2>4. held(t)' = held(t)
      BY DEF held
    <2> QED BY <2>1, <2>2, <2>3, <2>4 DEF DebtOK
  <1>18. ASSUME ~Overruns, ~desync'
         PROVE  /\ RoomOK(c, device[c].sent - have, held(t))'
                /\ CreditOK(c, device[c].sent - have, t.unacked)'
    <2>1. PICK flying : flying = device[c].sent - have
      OBVIOUS
    <2>2. RoomOK(c, flying, held(s)) /\ CreditOK(c, flying, s.unacked) /\ flying \in Int
      BY <1>6, <1>10, <1>18, <2>1
    <2>3. RoomOK(c, flying, held(t))'
      BY <1>6, <1>8, <1>14, <1>15, <2>2, RoomKept
    <2>4. CreditOK(c, flying, t.unacked)'
      <3>1. t.unacked \in Nat /\ (ack # "Delayed" => t.unacked = 0 /\ s.unacked > 0)
        BY <1>6, <1>7, <1>8
      <3> QED BY <1>6, <1>8, <1>10, <1>16, <2>2, <3>1, Limits, SMTT(60) DEF CreditOK, One
    <2>5. device'[c].sent - have = flying
      BY <1>10, <2>1
    <2> QED BY <2>3, <2>4, <2>5 DEF RoomOK, CreditOK
  <1>19. ~Shorts /\ ~desync' => BudgetOK(c, t.send_budget, t.wrte_acked)'
    BY <1>6, <1>8, <1>10, <1>14, <1>15, BudgetKept DEF SameBudget
  <1>20. SlotData(i)'
    <2>1. t.local = s.local /\ t.remote = s.remote /\ t = table'[i] /\ t.rx_buf = s.rx_buf
      BY <1>8, <1>9 DEF SameChannel
    <2>2. SameFlight(s.remote) /\ device'[s.remote].sent = device[s.remote].sent /\ stored'[i] = stored[i]
          /\ got'[s.local] = got[s.local]
      BY <1>1, <1>6, <1>10, <1>15
    <2>3. \A h : h = Len(got[s.local]) + s.rx_buf => h = have
      BY <1>4, <1>5
    <2> QED BY <1>1, <1>6, <1>14, <1>17, <1>18, <1>19, <2>1, <2>2, <2>3, SlotMoved
  <1>21. ReadInv' /\ SpentInv' /\ \A q \in Ids : ~Awaited(q)'
    <2>1. t.settled > 0
      BY <1>6, <1>8 DEF AtMost
    <2> QED BY <1>9, <1>13, <2>1 DEF ReadInv, SpentInv, Awaited
  <1>22. ASSUME NEW q \in Ids, q # c PROVE Calm(q)
    <2>1. SameOkay(q)
      BY <1>16, <1>22 DEF SameOkay
    <2> QED BY <1>10, <1>14, <1>15, <2>1 DEF Calm, Steady
  <1>23. WireInv' /\ CreditsInv' /\ GotInv'
    <2>1. \A q \in Ids : /\ device'[q].sent = device[q].sent
                         /\ device'[q].local = 0 \/ device'[q].state = "asked" => device'[q].sent = 0
                         /\ device'[q].state \in {"unused", "asked", "offered"} => device'[q].owes = 0
      BY <1>10, <1>14 DEF WireInv
    <2> QED BY <1>14, <2>1, WireKept, CreditsKept, GotKept
  <1>24. \A j \in Positions : table'[j].local # 0 /\ table'[j].remote # c => j # i
    BY <1>1, <1>8, <1>9 DEF SameChannel
  <1>25. \A j \in Positions : table'[j].local # 0 /\ table'[j].remote = c => j = i
    BY <1>1, <1>9, Apart
  <1>26. AwaitData(c)'
    BY <1>6, <1>21 DEF AwaitData
  <1> QED BY <1>0, <1>9, <1>20, <1>21, <1>22, <1>23, <1>24, <1>25, <1>26, DataMoves

(* Every live slot has its bytes, its channel and its count.               *)
LEMMA AtIs ==
    ASSUME NEW i, Live(i), ~Doubtful(i)
    PROVE  \E s, g, c, have : At(i, s, g, c, have)
  <1>1. PICK s : s = table[i]
    OBVIOUS
  <1>2. PICK g : g = got[s.local]
    OBVIOUS
  <1>3. PICK c : c = s.remote
    OBVIOUS
  <1>4. PICK have : have = Len(g) + s.rx_buf
    OBVIOUS
  <1> QED BY <1>1, <1>2, <1>3, <1>4 DEF At

(* The bytes of b, cut after n and the first of them moved to the end of g. *)
Cuts(g, b, n, g2, b2) == n \in 0 .. Len(b) /\ g2 = g \o SubSeq(b, 1, n) /\ b2 = SubSeq(b, n + 1, Len(b))

(* What that does to each byte.                                            *)
Moved(g, b, n, g2, b2) ==
    /\ Len(g2) = Len(g) + n /\ Len(b2) = Len(b) - n
    /\ \A k \in DOMAIN g2 : k \in Nat /\ \/ k \in DOMAIN g /\ g2[k] = g[k]
                                         \/ /\ k - Len(g) \in DOMAIN b /\ g2[k] = b[k - Len(g)]
                                            /\ k - Len(g) <= n /\ k > Len(g)
    /\ \A k \in DOMAIN g : k <= Len(g) /\ k \in Nat
    /\ \A k \in DOMAIN b : k > 0 /\ k \in Nat
    /\ \A k \in DOMAIN b2 : k > 0 /\ k \in Nat /\ n + k \in DOMAIN b /\ b2[k] = b[n + k]
    /\ n \in Nat /\ Len(g) \in Nat /\ Len(b) \in Nat

Joins(q, r, s) == s = q \o r

(* The elements of two sequences that are joined.                          *)
LEMMA JoinIs ==
    ASSUME NEW T, NEW q \in Seq(T), NEW r \in Seq(T), NEW s, Joins(q, r, s)
    PROVE  /\ s \in Seq(T) /\ Len(s) = Len(q) + Len(r) /\ DOMAIN s = 1 .. Len(q) + Len(r)
           /\ Len(q) \in Nat /\ Len(r) \in Nat /\ DOMAIN q = 1 .. Len(q) /\ DOMAIN r = 1 .. Len(r)
           /\ \A k \in 1 .. Len(q) : s[k] = q[k]
           /\ \A k \in 1 .. Len(r) : Len(q) + k \in 1 .. Len(q) + Len(r) /\ s[Len(q) + k] = r[k]
           /\ \A k \in 1 .. Len(q) + Len(r) : k > Len(q) => k - Len(q) \in 1 .. Len(r) /\ s[k] = r[k - Len(q)]
  BY DEF Joins

(* The elements of two sequences between which some are moved.             *)
LEMMA CutsAre ==
    ASSUME NEW T, NEW g \in Seq(T), NEW b \in Seq(T), NEW n, NEW g2, NEW b2, Cuts(g, b, n, g2, b2)
    PROVE  g2 \in Seq(T) /\ b2 \in Seq(T) /\ Moved(g, b, n, g2, b2)
  <1> DEFINE d == SubSeq(b, 1, n)
             e == SubSeq(b, n + 1, Len(b))
  <1>1. n \in 0 .. Len(b) /\ g2 = g \o d /\ b2 = e /\ Len(b) \in Nat /\ Len(g) \in Nat /\ n \in Nat
    BY DEF Cuts
  <1>2. /\ d \in Seq(T) /\ Len(d) = n /\ \A k \in 1 .. n : d[k] = b[k]
        /\ e \in Seq(T) /\ Len(e) = Len(b) - n /\ \A k \in 1 .. Len(b) - n : e[k] = b[n + k]
    BY <1>1, CutIs
  <1> HIDE DEF d, e
  <1>3. /\ g2 \in Seq(T) /\ Len(g2) = Len(g) + n /\ DOMAIN g2 = 1 .. Len(g) + n
        /\ DOMAIN g = 1 .. Len(g) /\ DOMAIN b = 1 .. Len(b)
        /\ \A k \in 1 .. Len(g) : g2[k] = g[k]
        /\ \A k \in 1 .. Len(g) + n : k > Len(g) => k - Len(g) \in 1 .. n /\ g2[k] = d[k - Len(g)]
    <2>1. /\ g2 \in Seq(T) /\ Len(g2) = Len(g) + Len(d) /\ DOMAIN g2 = 1 .. Len(g) + Len(d)
          /\ \A k \in 1 .. Len(g) : g2[k] = g[k]
          /\ \A k \in 1 .. Len(g) + Len(d) : k > Len(g) => k - Len(g) \in 1 .. Len(d) /\ g2[k] = d[k - Len(g)]
      <3>1. Joins(g, d, g2)
        BY <1>1 DEF Joins
      <3> QED BY <1>2, <3>1, JoinIs
    <2>2. DOMAIN g = 1 .. Len(g) /\ DOMAIN b = 1 .. Len(b)
      OBVIOUS
    <2> QED BY <1>1, <1>2, <2>1, <2>2
  <1>4. ASSUME NEW k \in DOMAIN g2
        PROVE  /\ k \in Nat
               /\ \/ k \in DOMAIN g /\ g2[k] = g[k]
                  \/ /\ k - Len(g) \in DOMAIN b /\ g2[k] = b[k - Len(g)]
                     /\ k - Len(g) <= n /\ k > Len(g)
    <2>1. CASE k <= Len(g)
      BY <1>1, <1>3, <2>1
    <2>2. CASE k > Len(g)
      <3>1. k - Len(g) \in 1 .. n /\ g2[k] = d[k - Len(g)]
        BY <1>3, <2>2
      <3>2. g2[k] = b[k - Len(g)]
        BY <1>2, <3>1
      <3> QED BY <1>1, <1>3, <2>2, <3>1, <3>2
    <2> QED BY <1>1, <1>3, <2>1, <2>2
  <1>5. ASSUME NEW k \in DOMAIN b2 PROVE k > 0 /\ k \in Nat /\ n + k \in DOMAIN b /\ b2[k] = b[n + k]
    <2>1. DOMAIN b2 = 1 .. Len(b) - n
      BY <1>1, <1>2
    <2> QED BY <1>1, <1>2, <1>3, <2>1
  <1> QED BY <1>1, <1>2, <1>3, <1>4, <1>5 DEF Moved

(* Moving bytes from the buffer to the reader leaves the stream in order.  *)
LEMMA StreamCut ==
    ASSUME NEW c, NEW g \in Seq(Bytes), NEW b \in Seq(Bytes), NEW n, NEW g2, NEW b2, Cuts(g, b, n, g2, b2),
           Grows(g), StreamOK(c, g, b)
    PROVE  Grows(g2) /\ StreamOK(c, g2, b2)
  <1>0. Moved(g, b, n, g2, b2)
    BY CutsAre
  <1>1. /\ Len(g2) = Len(g) + n /\ Len(b2) = Len(b) - n
        /\ \A k \in DOMAIN g2 : k \in Nat /\ \/ k \in DOMAIN g /\ g2[k] = g[k]
                                             \/ /\ k - Len(g) \in DOMAIN b /\ g2[k] = b[k - Len(g)]
                                                /\ k - Len(g) <= n /\ k > Len(g)
        /\ \A k \in DOMAIN g : k <= Len(g) /\ k \in Nat
        /\ \A k \in DOMAIN b : k > 0 /\ k \in Nat
        /\ \A k \in DOMAIN b2 : k > 0 /\ k \in Nat /\ n + k \in DOMAIN b /\ b2[k] = b[n + k]
        /\ n \in Nat /\ Len(g) \in Nat /\ Len(b) \in Nat
    BY <1>0 DEF Moved
  <1>2. /\ \A k \in DOMAIN b : b[k][1] = c
        /\ Grows(b) /\ \A j \in DOMAIN g, k \in DOMAIN b : g[j][2] < b[k][2]
        /\ \A k \in DOMAIN g : g[k][2] <= device[c].sent
        /\ \A k \in DOMAIN b : b[k][2] <= device[c].sent
        /\ \A m \in DOMAIN in : in[m].cmd = "WRTE" /\ in[m].remote = c =>
             /\ \A k \in DOMAIN g : g[k][2] <= From(in[m])
             /\ \A k \in DOMAIN b : b[k][2] <= From(in[m])
    BY DEF StreamOK
  <1>3. Grows(g2)
    <2> SUFFICES ASSUME NEW j \in DOMAIN g2, NEW k \in DOMAIN g2, j < k PROVE g2[j][2] < g2[k][2]
      BY DEF Grows
    <2>1. CASE j \in DOMAIN g /\ g2[j] = g[j] /\ k \in DOMAIN g /\ g2[k] = g[k]
      BY <2>1 DEF Grows
    <2>2. CASE j \in DOMAIN g /\ g2[j] = g[j] /\ k - Len(g) \in DOMAIN b /\ g2[k] = b[k - Len(g)]
      BY <1>2, <2>2
    <2>3. CASE j - Len(g) \in DOMAIN b /\ g2[j] = b[j - Len(g)] /\ j > Len(g)
      <3>1. k \notin DOMAIN g
        BY <1>1, <2>3
      <3>2. k - Len(g) \in DOMAIN b /\ g2[k] = b[k - Len(g)]
        BY <1>1, <3>1
      <3>3. j - Len(g) < k - Len(g)
        BY <1>1
      <3> QED BY <1>2, <2>3, <3>2, <3>3 DEF Grows
    <2> QED BY <1>1, <2>1, <2>2, <2>3
  <1>4. Grows(b2)
    BY <1>1, <1>2, SMTT(60) DEF Grows
  <1>5. ASSUME NEW j \in DOMAIN g2, NEW k \in DOMAIN b2 PROVE g2[j][2] < b2[k][2]
    <2>1. n + k \in DOMAIN b /\ b2[k] = b[n + k]
      BY <1>1
    <2>2. CASE j \in DOMAIN g /\ g2[j] = g[j]
      BY <1>2, <2>1, <2>2
    <2>3. CASE j - Len(g) \in DOMAIN b /\ g2[j] = b[j - Len(g)] /\ j - Len(g) <= n
      <3>1. j - Len(g) < n + k
        BY <1>1, <2>3
      <3> QED BY <1>2, <2>1, <2>3, <3>1 DEF Grows
    <2> QED BY <1>1, <2>2, <2>3
  <1>6. /\ \A k \in DOMAIN b2 : b2[k][1] = c /\ b2[k][2] <= device[c].sent
        /\ \A k \in DOMAIN g2 : g2[k][2] <= device[c].sent
    BY <1>1, <1>2
  <1>7. ASSUME NEW m \in DOMAIN in, in[m].cmd = "WRTE", in[m].remote = c
        PROVE  /\ \A k \in DOMAIN g2 : g2[k][2] <= From(in[m])
               /\ \A k \in DOMAIN b2 : b2[k][2] <= From(in[m])
    BY <1>1, <1>2, <1>7
  <1> QED BY <1>3, <1>4, <1>5, <1>6, <1>7 DEF StreamOK

(* The step hands n bytes of slot i over.                                  *)
Takes(i, s, g, n, g2, b2) ==
    /\ Cuts(g, stored[i], n, g2, b2) /\ got'[s.local] = g2 /\ stored'[i] = b2
    /\ \A j \in Positions : j # i => table'[j] = table[j] /\ stored'[j] = stored[j]
    /\ \A l \in 1 .. MaxLocal : l # s.local => got'[l] = got[l]

(* A read from the buffer takes the bytes that take_len allows.            *)
LEMMA TakenParts ==
    ASSUME BaseInv, Taken, NEW i, i = call.ch.slot, NEW s, NEW g, NEW c, NEW have, At(i, s, g, c, have),
           s.local = call.ch.local, call.want \in Nat
    PROVE  \E n, g2, b2, t :
             /\ Takes(i, s, g, n, g2, b2) /\ n = take_len(s, call.want) /\ t = take_buffered(s, call.want)
             /\ table'[i] = t /\ call' = Returns("ok")
  <1> Live(i) /\ s = table[i] /\ g = got[s.local] /\ c = s.remote /\ have = Len(g) + s.rx_buf
    BY DEF At
  <1>1. get(call.ch) = s
    BY GetIs DEF BaseInv, ConnTypeOK, CallStates, Live
  <1>2. /\ s \in Slots /\ s.local \in 1 .. MaxLocal /\ s.settled <= s.rx_buf
        /\ stored[i] \in Seq(Bytes) /\ Len(stored[i]) = s.rx_buf
    BY LiveIs
  <1>3. PICK n : n = take_len(s, call.want)
    OBVIOUS
  <1>4. PICK t : t = take_buffered(s, call.want)
    OBVIOUS
  <1>5. n \in 0 .. s.rx_buf
    BY <1>2, <1>3, TakeIs
  <1>6. PICK b : b = stored[i]
    OBVIOUS
  <1>7. PICK d : d = SubSeq(b, 1, n)
    OBVIOUS
  <1>8. PICK b2 : b2 = SubSeq(b, n + 1, Len(b))
    OBVIOUS
  <1>9. PICK g2 : g2 = g \o d
    OBVIOUS
  <1>10. /\ got' = [got EXCEPT ![call.ch.local] = @ \o SubSeq(stored[i], 1, n)]
         /\ stored' = [stored EXCEPT ![i] = SubSeq(@, n + 1, Len(@))]
         /\ table' = [table EXCEPT ![i] = t] /\ call' = Returns("ok")
    BY <1>1, <1>3, <1>4 DEF Taken, HandsOver
  <1>11. Cuts(g, stored[i], n, g2, b2)
    BY <1>2, <1>5, <1>6, <1>7, <1>8, <1>9 DEF Cuts
  <1>12. got'[s.local] = g2 /\ \A l \in 1 .. MaxLocal : l # s.local => got'[l] = got[l]
    BY <1>2, <1>6, <1>7, <1>9, <1>10 DEF BaseInv, ConnTypeOK
  <1>13. /\ stored'[i] = b2 /\ table'[i] = t
         /\ \A j \in Positions : j # i => table'[j] = table[j] /\ stored'[j] = stored[j]
    BY <1>6, <1>8, <1>10 DEF BaseInv, ConnTypeOK, Live
  <1> WITNESS n, g2, b2, t
  <1> QED BY <1>3, <1>4, <1>10, <1>11, <1>12, <1>13 DEF Takes

(* What is read then follows what was read before.                         *)
LEMMA GotTaken ==
    ASSUME BaseInv, GotInv, scenario' = scenario, handles' = handles, NEW i, NEW s, NEW g, NEW c, NEW have, At(i, s, g, c, have),
           StreamOK(c, g, stored[i]), ~Overruns => NoGap(g, stored[i]),
           NEW n, NEW g2, NEW b2, Takes(i, s, g, n, g2, b2),
           \E h \in handles : h.local = s.local
    PROVE  GotInv' /\ Grows(g2) /\ StreamOK(c, g2, b2) /\ Len(g2) = Len(g) + n /\ n \in 0 .. s.rx_buf
           /\ (~Overruns => NoGap(g2, b2))
  <1> Live(i) /\ s = table[i] /\ g = got[s.local] /\ c = s.remote /\ have = Len(g) + s.rx_buf
    BY DEF At
  <1>0. /\ Cuts(g, stored[i], n, g2, b2) /\ got'[s.local] = g2
        /\ \A l \in 1 .. MaxLocal : l # s.local => got'[l] = got[l]
    BY DEF Takes
  <1>1. /\ s.local \in 1 .. MaxLocal /\ stored[i] \in Seq(Bytes) /\ Len(stored[i]) = s.rx_buf
    BY LiveIs
  <1>2. PICK b : b = stored[i]
    OBVIOUS
  <1>3. g \in Seq(Bytes) /\ b \in Seq(Bytes) /\ Cuts(g, b, n, g2, b2) /\ Len(b) = s.rx_buf
    BY <1>0, <1>1, <1>2 DEF BaseInv, ConnTypeOK
  <1>4. PICK h \in handles : h.local = s.local
    OBVIOUS
  <1>5. h.remote = c /\ \A e \in handles : e.local = s.local => e.remote = c
    BY <1>4 DEF BaseInv, IdsInv, HandlesInv, Live
  <1>6. \A k \in DOMAIN g : g[k][1] = c
    <2>1. g = got[h.local]
      BY <1>4
    <2>2. \A k \in DOMAIN got[h.local] : got[h.local][k][1] = h.remote
      BY <1>4, Zenon DEF GotInv
    <2> QED BY <1>5, <2>1, <2>2, Zenon
  <1>6a. Grows(g) /\ (~Overruns => \A k \in DOMAIN g : g[k][2] = k) /\ (~Overruns => \A k \in DOMAIN b : b[k][2] = Len(g) + k)
    <2>1. Grows(g) /\ (~Overruns => \A k \in DOMAIN g : g[k][2] = k)
      BY <1>4 DEF GotInv
    <2>2. ~Overruns => \A k \in DOMAIN b : b[k][2] = Len(g) + k
      BY <1>2 DEF NoGap
    <2> QED BY <2>1, <2>2
  <1>7. Grows(g2) /\ StreamOK(c, g2, b2)
    BY <1>2, <1>3, <1>6a, StreamCut
  <1>7a. Moved(g, b, n, g2, b2)
    BY <1>3, CutsAre
  <1>8. /\ Len(g2) = Len(g) + n /\ Len(b2) = Len(b) - n
        /\ \A k \in DOMAIN g2 : k \in Nat /\ \/ k \in DOMAIN g /\ g2[k] = g[k]
                                             \/ /\ k - Len(g) \in DOMAIN b /\ g2[k] = b[k - Len(g)]
                                                /\ k - Len(g) <= n /\ k > Len(g)
        /\ \A k \in DOMAIN g : k <= Len(g) /\ k \in Nat
        /\ \A k \in DOMAIN b : k > 0 /\ k \in Nat
        /\ \A k \in DOMAIN b2 : k > 0 /\ k \in Nat /\ n + k \in DOMAIN b /\ b2[k] = b[n + k]
        /\ n \in Nat /\ Len(g) \in Nat /\ Len(b) \in Nat
    BY <1>7a DEF Moved
  <1>9. ~Overruns => \A k \in DOMAIN b2 : b2[k][2] = Len(g2) + k
    <2> SUFFICES ASSUME ~Overruns, NEW k \in DOMAIN b2 PROVE b2[k][2] = Len(g2) + k
      OBVIOUS
    <2>1. k \in Nat /\ n + k \in DOMAIN b /\ b2[k] = b[n + k] /\ Len(g2) = Len(g) + n
      BY <1>8
    <2>2. b[n + k][2] = Len(g) + (n + k)
      BY <1>6a, <2>1
    <2> QED BY <1>8, <2>1, <2>2
  <1>10. \A k \in DOMAIN g2 : g2[k][1] = c /\ (~Overruns => g2[k][2] = k)
    <2>1. \A k \in DOMAIN b : b[k][1] = c
      BY <1>2 DEF StreamOK
    <2> QED BY <1>6, <1>6a, <1>8, <2>1, SMTT(60)
  <1>11. GotInv'
    <2>1. Overruns' = Overruns
      BY TypesKept
    <2>2. ASSUME NEW e \in handles' PROVE
            /\ \A k \in DOMAIN got'[e.local] : got'[e.local][k][1] = e.remote
            /\ Grows(got[e.local])'
            /\ ~Overruns => \A k \in DOMAIN got'[e.local] : got'[e.local][k][2] = k
      <3>1. CASE e.local = s.local
        BY <1>0, <1>5, <1>7, <1>10, <3>1 DEF Grows
      <3>2. CASE e.local # s.local
        <4>1. got'[e.local] = got[e.local]
          BY <1>0, <3>2, ChannelOf DEF BaseInv
        <4> QED BY <4>1 DEF GotInv, Grows
      <3> QED BY <3>1, <3>2
    <2>3. \A l \in 1 .. MaxLocal : (\A e \in handles' : e.local # l) => got'[l] = <<>>
      BY <1>0, <1>4 DEF GotInv
    <2> QED BY <2>1, <2>2, <2>3 DEF GotInv
  <1>12. n \in 0 .. s.rx_buf
    BY <1>3 DEF Cuts
  <1> QED BY <1>7, <1>8, <1>9, <1>11, <1>12 DEF NoGap

(* A slot with its bytes read and buffered fits what the device has sent.  *)
Fits(t, g, b, c, have) ==
    /\ t.remote = c /\ Len(g) + t.rx_buf = have /\ DebtOK(t) /\ StreamOK(c, g, b)
    /\ ~Overruns => NoGap(g, b)
    /\ PlaceOK(c, have, held(t), t.unacked, t.send_budget, t.wrte_acked)
(* A slot that fits has its data as it should.                             *)
LEMMA FitsIs ==
    ASSUME NEW i, NEW t, NEW g, NEW b, NEW c, NEW have, Fits(t, g, b, c, have)',
           t = table'[i], g = got'[t.local], b = stored'[i]
    PROVE  SlotData(i)'
  <1>1. Whole(t, g, b)'
    BY DEF Fits, Whole, NoGap
  <1> QED BY <1>1, SlotDataIs

(* At most c's credit changes, and what it loses as an OKAY it gains.      *)
OthersKept(c) ==
    \A q \in Ids : /\ device'[q].sent = device[q].sent /\ device'[q].state = device[q].state
                   /\ device'[q].owes = device[q].owes /\ device'[q].local = device[q].local
                   /\ q # c => device'[q].asb = device[q].asb /\ (~desync' /\ ~gone' => SameOkay(q))
CreditKept(c) ==
    \A flying \in Int, debt \in Nat : CreditOK(c, flying, debt) /\ ~desync' => CreditOK(c, flying, debt)'

(* take_buffered makes a slot that owes as much, or as little.             *)
TakesTo(s, t, n) ==
    /\ t \in Slots /\ SameChannel(s, t) /\ SameBudget(s, t) /\ t.state = s.state /\ t.unacked = s.unacked
    /\ t.rx_buf = s.rx_buf - n /\ held(t) \in Nat /\ held(s) \in Nat /\ held(t) <= held(s)
    /\ s.settled > 0 => held(t) = held(s)
(* take_buffered moves what the slot owes or has set aside by the bytes it *)
(* takes.                                                                  *)
LEMMA TakesToIs ==
    ASSUME BaseInv, NEW i, Live(i), NEW s, s = table[i], NEW t, NEW n, NEW want \in Nat, n = take_len(s, want),
           t = take_buffered(s, want)
    PROVE  TakesTo(s, t, n) /\ n \in 0 .. s.rx_buf /\ s.rx_buf \in Nat
  <1>1. s \in Slots /\ s.settled <= s.rx_buf
    BY LiveIs
  <1>2. s.rx_buf \in Nat
    BY <1>1 DEF Slots
  <1>3. n \in 0 .. s.rx_buf
    BY <1>1, TakeIs
  <1>a. t \in Slots
    BY <1>1, TakeIs
  <1>b. SameChannel(s, t) /\ SameBudget(s, t)
    BY <1>1, TakeIs
  <1>c. t.state = s.state /\ t.unacked = s.unacked
    BY <1>1 DEF take_buffered, Slots
  <1>d. t.rx_buf = s.rx_buf - n
    BY <1>1, TakeIs
  <1>e. held(t) \in Nat /\ held(s) \in Nat /\ held(t) <= held(s)
    BY <1>1, TakeIs
  <1>4. s.settled > 0 => held(t) = held(s)
    BY <1>1, TakeIs, ZenonT(60)
  <1> QED BY <1>2, <1>3, <1>4, <1>a, <1>b, <1>c, <1>d, <1>e DEF TakesTo

(* It owes as it should.                                                   *)
LEMMA DebtTaken ==
    ASSUME ack' = ack, NEW s, NEW t, NEW n, NEW c, s.remote = c, TakesTo(s, t, n), DebtOK(s), s.unacked \in Nat,
           s.state = "Open" /\ ack = "Delayed" => s.settled > 0, device'[c].state = device[c].state
    PROVE  DebtOK(t)'
  <1>1. /\ t.remote = c /\ t.state = s.state /\ t.unacked = s.unacked /\ held(t) <= held(s)
        /\ (s.settled > 0 => held(t) = held(s)) /\ held(t) \in Int /\ held(s) \in Int
    BY DEF TakesTo, SameChannel
  <1>2. rx_watermark \in Int
    BY Limits
  <1>3. held(t)' = held(t)
    BY DEF held
  <1> QED BY <1>1, <1>2, <1>3 DEF DebtOK

(* It has room and credit as it should.                                    *)
LEMMA PlaceTaken ==
    ASSUME BaseInv, BaseInv', DataInv, UNCHANGED <<ack, scenario>>, NEW i, NEW s, NEW g, NEW c, NEW have, Parts(i, s, g, c, have),
           NEW t, NEW n, TakesTo(s, t, n), SameFlight(c), OthersKept(c), CreditKept(c),
           ~desync' => ~desync, ~gone' => ~gone
    PROVE  PlaceOK(c, have, held(t), t.unacked, t.send_budget, t.wrte_acked)'
  <1>1. /\ c \in Ids /\ have \in Nat /\ device[c].sent \in Nat /\ s.unacked \in Nat
        /\ ~Overruns => CoverOK(c, have)
    BY DEF Parts
  <1>2. /\ device'[c].sent = device[c].sent /\ device'[c].state = device[c].state /\ device'[c].owes = device[c].owes
    BY <1>1 DEF OthersKept
  <1>3. ConnTypeOK /\ ConnTypeOK' /\ CreditsInv
    BY DEF BaseInv, DataInv
  <1>4. Overruns' = Overruns /\ Shorts' = Shorts
    BY TypesKept
  <1>5. held(t) \in Int /\ held(s) \in Int /\ held(t) <= held(s) /\ t.unacked = s.unacked
    BY DEF TakesTo
  <1>6. ASSUME ~Overruns PROVE CoverOK(c, have)'
    BY <1>1, <1>2, <1>3, <1>6, CoverKept
  <1>7. ASSUME ~Overruns, ~desync'
        PROVE  RoomOK(c, device[c].sent - have, held(t))' /\ CreditOK(c, device[c].sent - have, t.unacked)'
    <2>1. PICK flying : flying = device[c].sent - have
      OBVIOUS
    <2>2. flying \in Int
      BY <1>1, <2>1
    <2>3. RoomOK(c, flying, held(s)) /\ CreditOK(c, flying, s.unacked)
      BY <1>7, <2>1 DEF Parts
    <2>4. PICK less : less = held(t)
      OBVIOUS
    <2>5. RoomOK(c, flying, less)'
      BY <1>3, <1>5, <2>2, <2>3, <2>4, RoomKept
    <2>6. CreditOK(c, flying, t.unacked)'
      <3>1. PICK debt : debt = s.unacked
        OBVIOUS
      <3>2. CreditOK(c, flying, debt)'
        BY <1>1, <1>7, <2>2, <2>3, <3>1 DEF CreditKept
      <3> QED BY <1>5, <3>1, <3>2 DEF CreditOK
    <2>7. device'[c].sent - have = flying
      BY <1>2, <2>1
    <2>8. less = held(t)'
      BY <2>4 DEF held
    <2> QED BY <2>5, <2>6, <2>7, <2>8 DEF RoomOK, CreditOK
  <1>8. ASSUME ~Shorts, ~desync' PROVE BudgetOK(c, t.send_budget, t.wrte_acked)'
    <2>1. BudgetOK(c, t.send_budget, t.wrte_acked)
      BY <1>8 DEF SameBudget, Parts, TakesTo
    <2>2. PICK budget, acked : budget = t.send_budget /\ acked = t.wrte_acked
      OBVIOUS
    <2>3. BudgetOK(c, budget, acked)
      BY <2>1, <2>2
    <2>4. BudgetOK(c, budget, acked)'
      BY <1>1, <1>2, <1>3, <1>8, <2>3, BudgetKept
    <2> QED BY <2>2, <2>4 DEF BudgetOK
  <1> QED BY <1>4, <1>6, <1>7, <1>8 DEF PlaceOK

(* The slot that the caller took bytes of.                                 *)
LEMMA TakenFits ==
    ASSUME BaseInv, BaseInv', DataInv, UNCHANGED <<ack, scenario, handles>>,
           NEW i, NEW s, NEW g, NEW c, NEW have, At(i, s, g, c, have),
           NEW n, NEW g2, NEW b2, Takes(i, s, g, n, g2, b2), NEW t, TakesTo(s, t, n),
           \E h \in handles : h.local = s.local,
           s.state = "Open" /\ ack = "Delayed" => s.settled > 0,
           SameFlight(c), OthersKept(c), CreditKept(c), ~desync' => ~desync, ~gone' => ~gone
    PROVE  GotInv' /\ Fits(t, g2, b2, c, have)'
  <1>1. Parts(i, s, g, c, have)
    BY PartsAre
  <1>2. /\ StreamOK(c, g, stored[i]) /\ (~Overruns => NoGap(g, stored[i])) /\ DebtOK(s)
        /\ c \in Ids /\ s.unacked \in Nat /\ s.rx_buf \in Nat /\ Len(g) \in Nat
    BY <1>1 DEF Parts
  <1>3. ConnTypeOK /\ ConnTypeOK' /\ GotInv
    BY DEF BaseInv, DataInv
  <1>4. /\ GotInv' /\ StreamOK(c, g2, b2) /\ Len(g2) = Len(g) + n /\ n \in 0 .. s.rx_buf
        /\ ~Overruns => NoGap(g2, b2)
    BY <1>2, <1>3, GotTaken
  <1>5. s.remote = c /\ have = Len(g) + s.rx_buf
    BY DEF At
  <1>6. device'[c].sent = device[c].sent /\ device'[c].state = device[c].state
    BY <1>2 DEF OthersKept
  <1>7. DebtOK(t)'
    BY <1>2, <1>5, <1>6, DebtTaken
  <1>8. StreamOK(c, g2, b2)'
    BY <1>3, <1>4, <1>6, StreamKept
  <1>9. PlaceOK(c, have, held(t), t.unacked, t.send_budget, t.wrte_acked)'
    BY <1>1, PlaceTaken
  <1>10. t.remote = c /\ Len(g2) + t.rx_buf = have
    <2>1. t.remote = c /\ t.rx_buf = s.rx_buf - n
      BY <1>5 DEF TakesTo, SameChannel
    <2>2. n \in Int /\ Len(g2) = Len(g) + n
      BY <1>4
    <2> QED BY <1>2, <1>5, <2>1, <2>2
  <1>11. Overruns' = Overruns
    BY TypesKept
  <1>12. (~Overruns => NoGap(g2, b2))'
    BY <1>4, <1>11 DEF NoGap
  <1> QED BY <1>4, <1>7, <1>8, <1>9, <1>10, <1>12 DEF Fits

(* The bytes of a slot that the caller takes.                              *)
LEMMA TakenData ==
    ASSUME BaseInv, BaseInv', DataInv, Taken, NEW i, i = call.ch.slot, NEW s, NEW g, NEW c, NEW have, At(i, s, g, c, have),
           s.local = call.ch.local, call.op = "read", call.want \in Nat \ {0},
           s.state = "Open" /\ ack = "Delayed" => s.settled > 0,
           UNCHANGED <<ack, scenario, handles, in>>, ~desync' => ~desync, ~gone' => ~gone,
           OthersKept(c), CreditKept(c)
    PROVE  DataInv'
  <1>1. PICK n, g2, b2, t :
             /\ Takes(i, s, g, n, g2, b2) /\ n = take_len(s, call.want) /\ t = take_buffered(s, call.want)
             /\ table'[i] = t /\ call' = Returns("ok")
    BY TakenParts
  <1>2. Live(i) /\ s = table[i] /\ c = s.remote /\ c \in Ids
    <2>1. Live(i) /\ s = table[i] /\ c = s.remote
      BY DEF At
    <2> QED BY <2>1, LiveIs
  <1>3. TakesTo(s, t, n)
    <2>1. PICK want : want = call.want
      OBVIOUS
    <2> QED BY <1>1, <1>2, <2>1, TakesToIs
  <1>4. \E h \in handles : h.local = s.local
    BY DEF BaseInv, CallInv, UseInv, HandleOf
  <1>5. ConnTypeOK /\ ConnTypeOK' /\ InKept /\ CreditsInv /\ WireInv
    BY DEF BaseInv, DataInv, InKept
  <1>6. \A q \in Ids : SameFlight(q)
    BY <1>5, FlightKept
  <1>7. GotInv' /\ Fits(t, g2, b2, c, have)'
    BY <1>1, <1>2, <1>3, <1>4, <1>6, TakenFits
  <1>8. SlotData(i)'
    <2>1. t.local = s.local
      BY <1>3 DEF TakesTo, SameChannel
    <2>2. t = table'[i] /\ g2 = got'[t.local] /\ b2 = stored'[i]
      BY <1>1, <2>1 DEF Takes
    <2> QED BY <1>7, <2>2, FitsIs
  <1>9. call'.pc = "idle" /\ call'.op # "read" /\ call'.op # "open"
    BY <1>1, ReturnsIs DEF BaseInv
  <1>10. ReadInv' /\ SpentInv' /\ \A q \in Ids : ~Awaited(q)'
    BY <1>9 DEF ReadInv, SpentInv, Awaited
  <1>11. ASSUME NEW q \in Ids, q # c PROVE Calm(q)
    <2>1. SameEnd(q) /\ (~desync' /\ ~gone' => SameOkay(q))
      BY <1>11 DEF SameEnd, OthersKept
    <2>2. SameFlight(q)
      BY <1>6
    <2> QED BY <1>5, <2>1, <2>2 DEF Calm, Steady
  <1>12. WireInv' /\ CreditsInv'
    <2>1. \A q \in Ids : /\ device'[q].sent = device[q].sent
                         /\ device'[q].local = 0 \/ device'[q].state = "asked" => device'[q].sent = 0
                         /\ device'[q].state \in {"unused", "asked", "offered"} => device'[q].owes = 0
      BY <1>5 DEF WireInv, OthersKept
    <2>2. WireInv'
      BY <1>5, <2>1, WireKept
    <2>3. CreditsInv'
      BY <1>5, CreditsKept
    <2> QED BY <2>2, <2>3
  <1>13. ASSUME NEW j \in Positions, table'[j].local # 0, table'[j].remote # c
         PROVE  table'[j] = table[j] /\ stored'[j] = stored[j] /\ got'[table[j].local] = got[table[j].local]
    <2>0. t.remote = c
      BY <1>2, <1>3 DEF TakesTo, SameChannel
    <2>1. j # i
      BY <1>1, <1>13, <2>0
    <2>2. table'[j] = table[j] /\ stored'[j] = stored[j] /\ Live(j)
      BY <1>1, <1>13, <2>1 DEF Live, Takes
    <2>3. table[j].local \in 1 .. MaxLocal
      BY <2>2, LiveIs
    <2>4. table[j].local # s.local
      BY <1>2, <2>1, <2>2 DEF BaseInv, IdsInv, TableInv, Live
    <2> QED BY <1>1, <2>2, <2>3, <2>4 DEF Takes
  <1>14. \A j \in Positions : table'[j].local # 0 /\ table'[j].remote = c => j = i
    BY <1>1, <1>2, Apart DEF Takes
  <1>15. \A j \in Positions : table'[j].local # 0 /\ table'[j].remote = c => SlotData(j)'
    BY <1>8, <1>14
  <1>16. AwaitData(c)'
    BY <1>2, <1>10 DEF AwaitData
  <1>17. Undoubted
    BY UndoubtedIs
  <1> QED BY <1>7, <1>10, <1>11, <1>12, <1>13, <1>15, <1>16, <1>17, DataMoves

(* The device gets an OKAY for channel c.                                  *)
Paid(c) ==
    /\ ack' = ack /\ c \in Ids /\ device \in [Ids -> DeviceEnds] /\ call.frame \in Frames
    /\ call.pc = "send" /\ call.frame.cmd = "OKAY" /\ call.frame.remote = c
    /\ device' = DeviceGets(call.frame) /\ ~gone /\ ~gone' /\ ~Sending(c, "OKAY")'
    /\ \A q : ~Sending(q, "OKAY")'
(* An OKAY that is out becomes the device's credit.                        *)
LEMMA PaidIs ==
    ASSUME NEW c, Paid(c)
    PROVE  OthersKept(c) /\ CreditKept(c)
  <1>1. /\ c \in Ids /\ device \in [Ids -> DeviceEnds] /\ call.frame.cmd = "OKAY" /\ call.frame.remote = c
        /\ call.frame.len \in Nat /\ call.pc = "send"
    BY DEF Paid, Frames
  <1>2. PICK n : n = IF ack = "Delayed" THEN call.frame.len ELSE 1
    OBVIOUS
  <1>3. device' = [device EXCEPT ![c].asb = @ + n]
    BY <1>1, <1>2 DEF Paid, DeviceGets
  <1>4. \A q \in Ids : device[q] \in DeviceEnds
    BY <1>1
  <1>5. \A q \in Ids : q # c => device'[q] = device[q]
    BY <1>1, <1>3
  <1>6. device'[c] = [device[c] EXCEPT !.asb = device[c].asb + n]
    BY <1>1, <1>3
  <1>7. /\ device'[c].sent = device[c].sent /\ device'[c].state = device[c].state /\ device'[c].owes = device[c].owes
        /\ device'[c].local = device[c].local /\ device'[c].asb = device[c].asb + n
    BY <1>1, <1>4, <1>6 DEF DeviceEnds
  <1>8. ASSUME NEW q \in Ids, q # c PROVE SameOkay(q)
    <2>1. ~Sending(q, "OKAY") /\ ~Sending(q, "OKAY")'
      BY <1>1, <1>8 DEF Sending, Paid
    <2> QED BY <2>1 DEF SameOkay
  <1>9. OthersKept(c)
    BY <1>5, <1>7, <1>8 DEF OthersKept
  <1>10. ASSUME NEW flying \in Int, NEW debt \in Nat, CreditOK(c, flying, debt)
         PROVE  CreditOK(c, flying, debt)'
    <2>1. Sending(c, "OKAY") /\ ~Sending(c, "OKAY")' /\ ack' = ack /\ ~gone
      BY <1>1 DEF Sending, Paid
    <2>2. device[c].asb \in Int /\ advertised_ack_bytes \in Int
      BY <1>1, <1>4, Limits DEF DeviceEnds
    <2>3. advertised_ack_bytes' = advertised_ack_bytes
      BY DEF advertised_ack_bytes
    <2> QED BY <1>1, <1>2, <1>7, <1>10, <2>1, <2>2, <2>3 DEF CreditOK, One
  <1> QED BY <1>9, <1>10 DEF CreditKept

(* Nothing happens to the credit.                                          *)
LEMMA UnpaidIs ==
    ASSUME NEW c, UNCHANGED <<ack, device>>, ~gone' => ~gone,
           \/ desync' \/ gone'
           \/ \A q : ~Sending(q, "OKAY") /\ ~Sending(q, "OKAY")'
    PROVE  OthersKept(c) /\ CreditKept(c)
  <1>1. OthersKept(c)
    BY DEF OthersKept, SameOkay
  <1>2. advertised_ack_bytes' = advertised_ack_bytes
    BY DEF advertised_ack_bytes
  <1>3. CreditKept(c)
    BY <1>2 DEF CreditKept, CreditOK, One
  <1> QED BY <1>1, <1>3

(* With delayed ACK an open channel's bytes are taken once they are set    *)
(* aside.                                                                  *)
LEMMA Settled ==
    ASSUME BaseInv, DataInv, NEW i, NEW s, NEW g, NEW c, NEW have, At(i, s, g, c, have), has_data(s),
           NEW want \in Nat \ {0}, settle_ack(s, want) = NoAck, s.state = "Open", ack = "Delayed"
    PROVE  s.settled > 0
  <1>1. Parts(i, s, g, c, have)
    BY PartsAre
  <1>2. s \in Slots /\ DebtOK(s) /\ s.rx_buf \in Nat /\ s.unacked \in Nat /\ s.settled \in Nat
    BY <1>1 DEF Parts, Slots
  <1>3. s.ack = "Delayed" /\ has_ids(s)
    BY LiveIs DEF At
  <1>4. s.unacked = held(s) /\ s.rx_buf > 0
    BY <1>2 DEF DebtOK, has_data
  <1> SUFFICES ASSUME s.settled = 0 PROVE FALSE
    BY <1>2
  <1>5. s.unacked = s.rx_buf
    BY <1>2, <1>4 DEF held
  <1>6. AtMost(want, s.rx_buf) \in Nat \ {0} /\ AtMost(want, s.rx_buf) <= s.rx_buf
    BY <1>2, <1>4 DEF AtMost
  <1>7. settle_ack(s, want) = AtMost(AtMost(want, s.rx_buf), s.unacked)
    BY <1>2, <1>3, <1>5, <1>6 DEF settle_ack, ack_len, AtMost
  <1>8. settle_ack(s, want) \in Nat \ {0}
    BY <1>2, <1>5, <1>6, <1>7 DEF AtMost
  <1> QED BY <1>8 DEF NoAck

(* recv_data looks into the buffer.                                        *)
LEMMA TakeData ==
    ASSUME BaseInv, BaseInv', DataInv, Take
    PROVE  DataInv'
  <1> DEFINE s == get(call.ch)
             i == call.ch.slot
  <1>1. /\ call.pc = "take" /\ UNCHANGED <<ack, scenario, next_local_id, queue, incoming, handles, wireVars>>
        /\ call.op = "read" /\ call.want \in Nat \ {0}
    BY DEF Take, BaseInv, CallInv, PcInv, UseInv, ConnTypeOK, CallStates
  <1>2. UNCHANGED <<device, in, desync, gone>>
    BY <1>1 DEF wireVars
  <1>3. has_data(s) => Live(i) /\ table[i].local = call.ch.local /\ s = table[i]
    <2>1. call.ch \in ChannelIds
      BY DEF BaseInv, ConnTypeOK, CallStates
    <2> QED BY <2>1, GetIs, NoSlotIs DEF BaseInv, Live
  <1>0. EndsStay /\ call.op # "answer" /\ \A j \in Positions : ~Doubtful(j)
    BY <1>1, <1>2, UndoubtedIs DEF EndsStay
  <1>4. CASE /\ ~has_data(s) /\ call' = Returns("err") /\ UNCHANGED <<table, stored, got>>
    BY <1>0, <1>1, <1>2, <1>4, EndData
  <1>5. CASE /\ ~has_data(s) /\ call' = [call EXCEPT !.pc = "recv"] /\ UNCHANGED <<table, stored, got>>
    BY <1>1, <1>2, <1>5, WaitData
  <1>6. CASE has_data(s) /\ settle_ack(s, call.want) = NoAck /\ Taken
    <2>1. PICK x, g, c, have : At(i, x, g, c, have)
      BY <1>0, <1>3, <1>6, AtIs DEF Live
    <2>2. x = s /\ x.local = call.ch.local
      BY <1>3, <1>6, <2>1 DEF At
    <2>3. has_data(x) /\ settle_ack(x, call.want) = NoAck
      BY <1>6, <2>2
    <2> HIDE DEF s
    <2>4. x.state = "Open" /\ ack = "Delayed" => x.settled > 0
      <3>1. PICK want : want = call.want
        OBVIOUS
      <3> QED BY <1>1, <2>1, <2>3, <3>1, Settled
    <2>5. call'.pc = "idle"
      BY <1>6, ReturnsIs DEF Taken, BaseInv
    <2>6. OthersKept(c) /\ CreditKept(c)
      BY <1>1, <1>2, <2>5, UnpaidIs DEF Sending
    <2> QED BY <1>1, <1>2, <1>6, <2>1, <2>2, <2>4, <2>6, TakenData
  <1>7. CASE /\ has_data(s) /\ settle_ack(s, call.want) # NoAck
             /\ table' = [table EXCEPT ![i] = settle_take(s, call.want)]
             /\ call' = Sends(Frame("OKAY", s.local, s.remote, settle_ack(s, call.want)), "taken")
             /\ UNCHANGED <<stored, got>>
    <2>1. PICK x : x = table[i]
      OBVIOUS
    <2>2. x.rx_buf > 0
      BY <1>3, <1>7, <2>1 DEF has_data
    <2> QED BY <1>1, <1>3, <1>7, <2>1, <2>2, SettleData
  <1> QED BY <1>4, <1>5, <1>6, <1>7 DEF Take

(* The OKAY of a read from the buffer is out, or is not.                   *)
LEMMA TakenSent ==
    ASSUME BaseInv, BaseInv', DataInv, NEW sent, Written(sent), call.after = "taken"
    PROVE  DataInv'
  <1> DEFINE i == call.ch.slot
  <1>1. /\ call.pc = "send" /\ UNCHANGED <<ack, scenario, in, gone>> /\ AfterSend(sent)
        /\ (~desync' => ~desync)
    BY DEF Written
  <1>2. Taken /\ UNCHANGED handles
    BY <1>1 DEF AfterSend
  <1>3. /\ call.op = "read" /\ call.frame.cmd = "OKAY" /\ call.frame.remote = table[i].remote
    BY <1>1 DEF BaseInv, CallInv, FrameInv
  <1>4. Live(i) /\ table[i].local = call.ch.local /\ call.want \in Nat \ {0}
    BY <1>1, <1>3, UserIs
  <1>5. table[i].settled > 0
    BY <1>1 DEF DataInv, ReadInv
  <1>6. PICK s, g, c, have : At(i, s, g, c, have)
    BY <1>3, <1>4, AtIs, UndoubtedIs DEF Live
  <1>7. s.local = call.ch.local /\ s.settled > 0 /\ c = call.frame.remote
    BY <1>3, <1>4, <1>5, <1>6 DEF At
  <1>8. c \in Ids
    BY <1>6, LiveIs DEF At
  <1>9. call'.pc = "idle"
    BY <1>2, ReturnsIs DEF Taken, BaseInv
  <1>10. OthersKept(c) /\ CreditKept(c)
    <2>1. CASE ~gone /\ device' = DeviceGets(call.frame)
      <3>1. device \in [Ids -> DeviceEnds] /\ call.frame \in Frames
        BY DEF BaseInv, ConnTypeOK, CallStates
      <3>2. \A q : ~Sending(q, "OKAY")'
        BY <1>9 DEF Sending
      <3>3. Paid(c)
        BY <1>1, <1>3, <1>7, <1>8, <2>1, <3>1, <3>2 DEF Paid
      <3> QED BY <3>3, PaidIs
    <2>2. CASE device' = device /\ (desync' \/ gone')
      BY <1>1, <2>2, UnpaidIs
    <2> QED BY <2>1, <2>2 DEF Written, Abandoned
  <1> HIDE DEF i
  <1> QED BY <1>1, <1>2, <1>3, <1>4, <1>6, <1>7, <1>10, TakenData DEF i

-----------------------------------------------------------------------------
(* Frames that the host has written.                                       *)

(* A channel with a slot is not one an open waits for.                     *)
LEMMA NotAwaited ==
    ASSUME BaseInv, NEW c \in Ids, HasSlot(c)
    PROVE  ~Awaited(c)
  <1> SUFFICES ASSUME Awaited(c) PROVE FALSE
    OBVIOUS
  <1>1. PICK i \in Positions : table[i].local # 0 /\ table[i].remote = c
    BY DEF HasSlot
  <1>2. call.op = "open" /\ device[c].local = call.ch.local
    BY DEF Awaited
  <1>3. call.ch.local # 0 /\ table[i].local # call.ch.local
    BY <1>2 DEF BaseInv, CallInv, OpenInv
  <1>4. device[c].local \in {0, table[i].local}
    <2>1. incoming.reserved = NoChannel
      BY <1>2 DEF BaseInv, CallInv, AnswerInv, OpenInv, NoIncoming
    <2> QED BY <1>1, <2>1, PairedIs DEF BaseInv, IdsInv
  <1> QED BY <1>2, <1>3, <1>4

(* A channel is closed at the device.                                      *)
LEMMA DataCloses ==
    ASSUME BaseInv, BaseInv', DataInv, UNCHANGED <<ack, scenario, handles, got, in, table, stored>>,
           ~desync, ~gone' => ~gone, ReadInv', SpentInv',
           NEW c0 \in Ids, device' = [device EXCEPT ![c0].state = "closed"],
           \A c \in Ids : ~desync' /\ ~gone' => SameOkay(c),
           \A c \in Ids : Awaited(c)' => Awaited(c) /\ ~Sending(c, "CLSE")'
    PROVE  DataInv'
  <1>1. ConnTypeOK /\ ConnTypeOK' /\ CreditsInv /\ InKept /\ WireInv /\ GotInv
    BY DEF BaseInv, DataInv, InKept
  <1>2. \A c \in Ids : /\ device'[c].sent = device[c].sent /\ device'[c].asb = device[c].asb
                       /\ device'[c].owes = device[c].owes /\ device'[c].state \in {device[c].state, "closed"}
                       /\ device'[c].local = device[c].local
    <2>1. device \in [Ids -> DeviceEnds]
      BY <1>1 DEF ConnTypeOK
    <2> QED BY <2>1 DEF DeviceEnds
  <1>3. ASSUME NEW c \in Ids PROVE Calm(c)
    <2>1. SameEnd(c) /\ (~desync' /\ ~gone' => SameOkay(c))
      BY <1>2 DEF SameEnd
    <2> QED BY <1>1, <2>1, CalmIs
  <1>4. WireInv'
    <2>1. \A c \in Ids : /\ device'[c].sent = device[c].sent
                         /\ device'[c].local = 0 \/ device'[c].state = "asked" => device'[c].sent = 0
                         /\ device'[c].state \in {"unused", "asked", "offered"} => device'[c].owes = 0
      BY <1>1, <1>2 DEF WireInv
    <2> QED BY <1>1, <2>1, WireKept
  <1>5. CreditsInv' /\ GotInv'
    BY <1>1, CreditsKept, GotKept
  <1>6. 0 \notin Ids /\ \A i \in Positions : table'[i].local # 0 => table'[i].remote # 0
    <2>1. 0 \notin Ids
      BY IdsAre
    <2>2. ASSUME NEW i \in Positions, table'[i].local # 0 PROVE table'[i].remote # 0
      <3>1. table[i] = table'[i] /\ Live(i)
        BY <2>2 DEF Live
      <3> QED BY <2>1, <3>1, LiveIs
    <2> QED BY <2>1, <2>2
  <1> DEFINE z == 0
  <1>7. /\ \A c \in Ids : c # z => Calm(c)
        /\ \A i \in Positions : table'[i].local # 0 /\ table'[i].remote # z =>
              table'[i] = table[i] /\ stored'[i] = stored[i] /\ got'[table[i].local] = got[table[i].local]
        /\ \A i \in Positions : table'[i].local # 0 /\ table'[i].remote = z => SlotData(i)'
        /\ \A c \in Ids : c # z /\ Awaited(c)' => Awaited(c) /\ ~Sending(c, "CLSE")'
        /\ z \in Ids => AwaitData(z)'
    BY <1>3, <1>6
  <1> HIDE DEF z
  <1> QED BY <1>4, <1>5, <1>7, UndoubtedIs, DataMoves

(* An OKAY is out, and nothing else happens.                               *)
LEMMA DataPaid ==
    ASSUME BaseInv, BaseInv', DataInv, UNCHANGED <<ack, scenario, handles, got, in, table, stored>>,
           ~desync, ReadInv', SpentInv', NEW c, Paid(c), HasSlot(c),
           \A q \in Ids : Awaited(q)' => Awaited(q) /\ ~Sending(q, "CLSE")'
    PROVE  DataInv'
  <1>1. ConnTypeOK /\ ConnTypeOK' /\ CreditsInv /\ InKept /\ WireInv /\ GotInv
    BY DEF BaseInv, DataInv, InKept
  <1>2. OthersKept(c) /\ CreditKept(c) /\ c \in Ids /\ (~gone' => ~gone)
    BY PaidIs DEF Paid
  <1>3. \A q \in Ids : SameFlight(q)
    BY <1>1, FlightKept
  <1>4. ASSUME NEW q \in Ids, q # c PROVE Calm(q)
    <2>1. SameEnd(q) /\ (~desync' /\ ~gone' => SameOkay(q))
      BY <1>2, <1>4 DEF SameEnd, OthersKept
    <2>2. SameFlight(q)
      BY <1>3
    <2> QED BY <1>1, <1>2, <2>1, <2>2 DEF Calm, Steady
  <1>5. WireInv' /\ CreditsInv' /\ GotInv'
    <2>1. \A q \in Ids : /\ device'[q].sent = device[q].sent
                         /\ device'[q].local = 0 \/ device'[q].state = "asked" => device'[q].sent = 0
                         /\ device'[q].state \in {"unused", "asked", "offered"} => device'[q].owes = 0
      BY <1>1, <1>2 DEF WireInv, OthersKept
    <2>2. WireInv'
      BY <1>1, <2>1, WireKept
    <2>3. CreditsInv' /\ GotInv'
      BY <1>1, CreditsKept, GotKept
    <2> QED BY <2>2, <2>3
  <1>6. ASSUME NEW i \in Positions, table'[i].local # 0, table'[i].remote = c PROVE SlotData(i)'
    <2>1. Live(i)
      BY <1>6 DEF Live
    <2>2. PICK s, g, d, have : At(i, s, g, d, have)
      BY <2>1, AtIs DEF Doubtful
    <2>3. d = c /\ s = table'[i] /\ g = got'[s.local] /\ have = Len(g) + s.rx_buf
      BY <1>6, <2>2 DEF At
    <2>4. Parts(i, s, g, c, have)
      BY <2>2, <2>3, PartsAre
    <2>5. SlotData(i) /\ DebtOK(s) /\ s.unacked \in Nat /\ have \in Nat /\ device[c].sent \in Nat /\ held(s) \in Int
          /\ StreamOK(c, g, stored[i]) /\ (~Overruns => NoGap(g, stored[i]))
      BY <2>4 DEF Parts
    <2>6. /\ device'[c].sent = device[c].sent /\ device'[c].state = device[c].state /\ device'[c].owes = device[c].owes
      BY <1>2 DEF OthersKept
    <2>7. TakesTo(s, s, 0)
      BY <2>4 DEF TakesTo, SameChannel, SameBudget, Parts
    <2>8. PlaceOK(c, have, held(s), s.unacked, s.send_budget, s.wrte_acked)'
      BY <1>2, <1>3, <2>4, <2>7, PlaceTaken
    <2>9. DebtOK(s)'
      <3>1. s.remote = c
        BY <2>2, <2>3 DEF At
      <3>2. held(s)' = held(s)
        BY DEF held
      <3> QED BY <2>5, <2>6, <3>1, <3>2 DEF DebtOK
    <2>10. PICK b : b = stored'[i]
      OBVIOUS
    <2>11. StreamOK(c, g, b)'
      <3>1. StreamOK(c, g, b)
        BY <2>5, <2>10
      <3> QED BY <1>1, <1>2, <1>3, <2>6, <3>1, StreamKept
    <2>12. (~Overruns => NoGap(g, b))'
      BY <2>5, <2>10, TypesKept DEF NoGap
    <2>13. s.remote = c
      BY <2>2, <2>3 DEF At
    <2>14. Fits(s, g, b, c, have)'
      BY <2>3, <2>8, <2>9, <2>11, <2>12, <2>13 DEF Fits
    <2> QED BY <2>3, <2>10, <2>14, FitsIs
  <1>7. AwaitData(c)'
    BY <1>2, NotAwaited DEF AwaitData
  <1> QED BY <1>2, <1>4, <1>5, <1>6, <1>7, UndoubtedIs, DataMoves

(* The OKAY of a packet that went straight to its reader is out.           *)
LEMMA DeliveredSent ==
    ASSUME BaseInv, BaseInv', DataInv, Written("ok"), call.after = "delivered"
    PROVE  DataInv'
  <1> DEFINE i == call.ch.slot
             c == call.frame.remote
  <1>1. /\ call.pc = "send" /\ UNCHANGED <<ack, scenario, in, gone>> /\ ~desync /\ ~gone
        /\ device' = DeviceGets(call.frame) /\ call' = Returns("ok") /\ UNCHANGED <<table, stored, handles, got>>
    BY DEF Written, AfterSend
  <1>2. call.op = "read" /\ call.frame.cmd = "OKAY" /\ call.frame.remote = table[i].remote
    BY <1>1 DEF BaseInv, CallInv, FrameInv
  <1>3. Live(i)
    BY <1>1, <1>2, UserIs
  <1>4. c \in Ids /\ HasSlot(c)
    BY <1>2, <1>3, LiveIs DEF HasSlot, Live
  <1>5. call'.pc = "idle" /\ call'.op # "open" /\ call'.op # "read"
    BY <1>1, ReturnsIs DEF BaseInv
  <1>6. ReadInv' /\ SpentInv' /\ \A q \in Ids : ~Awaited(q)'
    BY <1>5 DEF ReadInv, SpentInv, Awaited
  <1>7. \A q : ~Sending(q, "OKAY")'
    BY <1>5 DEF Sending
  <1>8. device \in [Ids -> DeviceEnds] /\ call.frame \in Frames
    BY DEF BaseInv, ConnTypeOK, CallStates
  <1>9. Paid(c)
    BY <1>1, <1>2, <1>4, <1>7, <1>8 DEF Paid
  <1> HIDE DEF c
  <1> QED BY <1>1, <1>4, <1>6, <1>9, DataPaid

(* A call that goes on after it wrote for another channel.                 *)
LEMMA LoopSays ==
    ASSUME BaseInv, call.pc = "send", call.after = "dispatched", call' = Loop, UNCHANGED scenario,
           \A q \in Ids : device'[q].local = device[q].local
    PROVE  /\ ReadInv' /\ SpentInv' /\ \A q : ~Sending(q, "OKAY")'
           /\ \A q \in Ids : Awaited(q)' => Awaited(q) /\ ~Sending(q, "CLSE")'
  <1>1. call.op \in {"open", "read", "write", "accept"}
    BY DEF BaseInv, CallInv, FrameInv
  <1>2. /\ call'.pc \in {"take", "top", "recv"} /\ (call'.op = "read" => call'.pc = "take")
        /\ call'.op = "open" => call'.pc = "recv" /\ call.op = "open" /\ call'.ch = call.ch
    BY <1>1, LoopIs DEF BaseInv
  <1>3. ReadInv' /\ SpentInv' /\ \A q : ~Sending(q, "OKAY")'
    BY <1>2 DEF ReadInv, SpentInv, Sending
  <1>4. \A q \in Ids : Awaited(q)' => Awaited(q) /\ ~Sending(q, "CLSE")'
    BY <1>2 DEF Awaited, Sending
  <1> QED BY <1>3, <1>4

(* What dispatch had to say is out.                                        *)
LEMMA DispatchedSent ==
    ASSUME BaseInv, BaseInv', DataInv, Written("ok"), call.after = "dispatched"
    PROVE  DataInv'
  <1> DEFINE c == call.frame.remote
  <1>1. /\ call.pc = "send" /\ UNCHANGED <<ack, scenario, in, gone>> /\ ~desync /\ ~gone
        /\ device' = DeviceGets(call.frame) /\ call' = Loop /\ UNCHANGED <<table, stored, handles, got>>
    BY DEF Written, AfterSend
  <1>2. \/ call.frame.cmd = "OKAY" /\ HasSlot(call.frame.remote)
        \/ call.frame.cmd = "CLSE" /\ call.frame.remote \in Ids
    BY <1>1 DEF BaseInv, CallInv, FrameInv
  <1>3. device \in [Ids -> DeviceEnds] /\ call.frame \in Frames
    BY DEF BaseInv, ConnTypeOK, CallStates
  <1>4. CASE call.frame.cmd = "OKAY"
    <2>1. HasSlot(c)
      BY <1>2, <1>4
    <2>2. c \in Ids
      <3>1. PICK i \in Positions : Live(i) /\ table[i].remote = c
        BY <2>1 DEF HasSlot, Live
      <3> QED BY <3>1, LiveIs
    <2>3. \A q \in Ids : device'[q].local = device[q].local
      BY <1>1, <1>3, <1>4, <2>2, DeviceQuiet
    <2>4. /\ ReadInv' /\ SpentInv' /\ \A q : ~Sending(q, "OKAY")'
          /\ \A q \in Ids : Awaited(q)' => Awaited(q) /\ ~Sending(q, "CLSE")'
      BY <1>1, <2>3, LoopSays
    <2>5. Paid(c)
      BY <1>1, <1>3, <1>4, <2>2, <2>4 DEF Paid
    <2> HIDE DEF c
    <2> QED BY <1>1, <2>1, <2>4, <2>5, DataPaid
  <1>5. CASE call.frame.cmd = "CLSE"
    <2>1. c \in Ids
      BY <1>2, <1>5
    <2>2. device' = [device EXCEPT ![c].state = "closed"]
      BY <1>1, <1>5 DEF DeviceGets
    <2>3. \A q \in Ids : device'[q].local = device[q].local
      BY <1>3, <2>1, <2>2 DEF DeviceEnds
    <2>4. /\ ReadInv' /\ SpentInv' /\ \A q : ~Sending(q, "OKAY")'
          /\ \A q \in Ids : Awaited(q)' => Awaited(q) /\ ~Sending(q, "CLSE")'
      BY <1>1, <2>3, LoopSays
    <2>5. \A q \in Ids : SameOkay(q)
      BY <1>5, <2>4 DEF SameOkay, Sending
    <2> HIDE DEF c
    <2> QED BY <1>1, <2>1, <2>2, <2>4, <2>5, DataCloses
  <1> QED BY <1>2, <1>4, <1>5

(* The CLSE of a close, of an open that failed, or of a refusal is out.    *)
LEMMA ClosedSent ==
    ASSUME BaseInv, BaseInv', DataInv, Written("ok"),
           call.after \in {"closed", "short"} \/ (call.op = "answer" /\ incoming.reserved = NoChannel)
    PROVE  DataInv'
  <1> DEFINE c == call.frame.remote
  <1>1. /\ call.pc = "send" /\ UNCHANGED <<ack, scenario, in, gone>> /\ ~desync /\ ~gone
        /\ device' = DeviceGets(call.frame)
    BY DEF Written
  <1>2. call.frame.cmd = "CLSE" /\ c \in Ids /\ call.op # "read"
    <2>1. CASE call.after \in {"closed", "short"}
      BY <1>1, <2>1 DEF BaseInv, CallInv, FrameInv
    <2>2. CASE call.op = "answer" /\ incoming.reserved = NoChannel
      BY <2>2, HeldIs DEF BaseInv, CallInv, AnswerInv
    <2> QED BY <2>1, <2>2
  <1>3. PICK x \in {"ok", "err", "dropped"} : call' = Returns(x)
    <2>1. call.op = "answer" => call.after \in {"answered", "refused"}
      BY DEF BaseInv, CallInv, AnswerInv
    <2> QED BY <2>1 DEF Written, AfterSend
  <1>4. UNCHANGED <<table, stored, handles, got>>
    <2>1. call.op = "answer" => call.after \in {"answered", "refused"}
      BY DEF BaseInv, CallInv, AnswerInv
    <2> QED BY <2>1 DEF Written, AfterSend
  <1>5. call'.pc = "idle" /\ call'.op # "open" /\ call'.op # "read"
    BY <1>2, <1>3, ReturnsIs DEF BaseInv
  <1>6. ReadInv' /\ SpentInv' /\ \A q \in Ids : ~Awaited(q)'
    BY <1>5 DEF ReadInv, SpentInv, Awaited
  <1>7. \A q \in Ids : SameOkay(q)
    BY <1>2, <1>5 DEF SameOkay, Sending
  <1>8. device' = [device EXCEPT ![c].state = "closed"]
    BY <1>1, <1>2 DEF DeviceGets
  <1> HIDE DEF c
  <1> QED BY <1>1, <1>2, <1>4, <1>6, <1>7, <1>8, DataCloses

(* A write is charged to the slot and owed for by the device.              *)
Spends(c, n, s, budget, acked) ==
    /\ UNCHANGED <<ack, in, gone>> /\ n \in Nat \ {0} /\ device'[c].owes = device[c].owes + n
    /\ device'[c].state = device[c].state /\ device[c].owes \in Nat /\ IsFiniteSet(Units(Credits(c)))
    /\ s \in Slots /\ s.ack = ack /\ BudgetOK(c, s.send_budget, s.wrte_acked)
    /\ IF ack = "Delayed" THEN n <= s.send_budget ELSE s.wrte_acked
    /\ budget = (IF ack = "Delayed" THEN s.send_budget - n ELSE s.send_budget)
    /\ acked = (IF ack = "Delayed" THEN s.wrte_acked ELSE FALSE)
(* The host's credit after a write.                                        *)
LEMMA BudgetSpent ==
    ASSUME NEW c, NEW n, NEW s, NEW budget, NEW acked, Spends(c, n, s, budget, acked)
    PROVE  BudgetOK(c, budget, acked)'
  <1> USE DEF Spends
  <1>1. Sum(Credits(c))' = Sum(Credits(c)) /\ Sum(Credits(c)) \in Nat
    BY CreditsSame, SumNat
  <1>2. s.send_budget \in Int /\ Grant \in Nat
    BY IdsAre DEF Slots
  <1>3. PICK total : total = Sum(Credits(c))
    OBVIOUS
  <1> SUFFICES ASSUME device'[c].state = "open", ~gone'
               PROVE  IF ack = "Delayed"
                      THEN budget >= 0 /\ budget + total + device'[c].owes = Grant
                      ELSE One(acked) + total + One(device'[c].owes > 0) = 1
    BY <1>1, <1>3 DEF BudgetOK, One
  <1>4. IF ack = "Delayed"
        THEN s.send_budget >= 0 /\ s.send_budget + total + device[c].owes = Grant
        ELSE One(s.wrte_acked) + total + One(device[c].owes > 0) = 1
    BY <1>3 DEF BudgetOK
  <1>5. CASE ack = "Delayed"
    BY <1>1, <1>2, <1>3, <1>4, <1>5
  <1>6. CASE ack # "Delayed"
    <2>1. s.wrte_acked /\ acked = FALSE
      BY <1>6
    <2>2. One(s.wrte_acked) = 1 /\ One(acked) = 0 /\ One(device'[c].owes > 0) = 1
      BY <2>1 DEF One
    <2>3. One(device[c].owes > 0) \in {0, 1}
      BY DEF One
    <2>4. total = 0
      BY <1>1, <1>3, <1>4, <1>6, <2>2, <2>3
    <2>5. PICK a, o : a = One(acked) /\ o = One(device'[c].owes > 0)
      OBVIOUS
    <2>6. a + total + o = 1
      BY <2>2, <2>4, <2>5
    <2> QED BY <1>6, <2>5, <2>6
  <1> QED BY <1>5, <1>6

(* spend leaves the receive side of the slot alone.                        *)
SpentTo(s, n, t) ==
    /\ SameChannel(s, t) /\ t.state = s.state /\ t.rx_buf = s.rx_buf /\ t.settled = s.settled
    /\ t.unacked = s.unacked
    /\ t.send_budget = (IF s.ack = "Delayed" THEN s.send_budget - n ELSE s.send_budget)
    /\ t.wrte_acked = (IF s.ack = "Delayed" THEN s.wrte_acked ELSE FALSE)
(* spend changes the budget of a slot or its turn, and no more.            *)
LEMMA SpendIs ==
    ASSUME NEW s \in Slots, NEW n \in Nat
    PROVE  SpentTo(s, n, spend(s, n))
  <1> PICK t : t = spend(s, n)
    OBVIOUS
  <1>1. CASE s.ack = "Delayed"
    <2>1. t = [s EXCEPT !.send_budget = s.send_budget - n]
      BY <1>1 DEF spend, Slots
    <2> QED BY <1>1, <2>1 DEF Slots, SameChannel, SpentTo
  <1>2. CASE s.ack # "Delayed"
    <2>1. t = [s EXCEPT !.wrte_acked = FALSE]
      BY <1>2 DEF spend
    <2> QED BY <1>2, <2>1 DEF Slots, SameChannel, SpentTo
  <1> QED BY <1>1, <1>2

(* A slot whose receive side stays fits, once its budget does.             *)
SameReceive(s, t) ==
    /\ SameChannel(s, t) /\ t.state = s.state /\ t.rx_buf = s.rx_buf /\ t.settled = s.settled /\ t.unacked = s.unacked
(* A slot of which only the sending side changes still fits.               *)
LEMMA SendSideFits ==
    ASSUME BaseInv, BaseInv', DataInv, UNCHANGED <<ack, scenario>>,
           NEW i, NEW s, NEW g, NEW c, NEW have, At(i, s, g, c, have), NEW t, SameReceive(s, t),
           SameFlight(c), device'[c].sent = device[c].sent, device'[c].state = device[c].state,
           CreditKept(c), ~desync' => ~desync, NEW b, b = stored[i],
           ~Shorts => BudgetOK(c, t.send_budget, t.wrte_acked)'
    PROVE  Fits(t, g, b, c, have)'
  <1>1. Parts(i, s, g, c, have)
    BY PartsAre
  <1>2. /\ StreamOK(c, g, b) /\ (~Overruns => NoGap(g, b)) /\ DebtOK(s) /\ (~Overruns => CoverOK(c, have))
        /\ c \in Ids /\ s.unacked \in Nat /\ s.rx_buf \in Nat /\ Len(g) \in Nat /\ held(s) \in Int
        /\ have \in Nat /\ device[c].sent \in Nat
    BY <1>1 DEF Parts
  <1>3. ConnTypeOK /\ ConnTypeOK'
    BY DEF BaseInv
  <1>4. s.remote = c /\ have = Len(g) + s.rx_buf
    BY DEF At
  <1>5. /\ t.remote = c /\ t.rx_buf = s.rx_buf /\ t.state = s.state /\ t.unacked = s.unacked /\ held(t) = held(s)
        /\ held(t)' = held(t)
    BY <1>4 DEF SameReceive, SameChannel, held
  <1>6. DebtOK(t)'
    BY <1>2, <1>4, <1>5 DEF DebtOK
  <1>7. StreamOK(c, g, b)'
    BY <1>2, <1>3, StreamKept
  <1>8. Overruns' = Overruns /\ Shorts' = Shorts
    BY TypesKept
  <1>9. (~Overruns => NoGap(g, b))'
    BY <1>2, <1>8 DEF NoGap
  <1>10. ASSUME ~Overruns PROVE CoverOK(c, have)'
    BY <1>2, <1>3, <1>10, CoverKept
  <1>11. ASSUME ~Overruns, ~desync'
        PROVE  RoomOK(c, device[c].sent - have, held(t))' /\ CreditOK(c, device[c].sent - have, t.unacked)'
    <2>1. PICK flying : flying = device[c].sent - have
      OBVIOUS
    <2>2. flying \in Int
      BY <1>2, <2>1
    <2>3. RoomOK(c, flying, held(s)) /\ CreditOK(c, flying, s.unacked)
      BY <1>1, <1>11, <2>1 DEF Parts
    <2>4. PICK less : less = held(s)
      OBVIOUS
    <2>5. RoomOK(c, flying, less)'
      BY <1>2, <1>3, <2>2, <2>3, <2>4, RoomKept
    <2>6. CreditOK(c, flying, t.unacked)'
      <3>1. PICK debt : debt = s.unacked
        OBVIOUS
      <3>2. CreditOK(c, flying, debt)'
        BY <1>2, <1>11, <2>2, <2>3, <3>1 DEF CreditKept
      <3> QED BY <1>5, <3>1, <3>2 DEF CreditOK
    <2>7. device'[c].sent - have = flying
      BY <2>1
    <2>8. less = held(t)'
      BY <1>5, <2>4
    <2> QED BY <2>5, <2>6, <2>7, <2>8 DEF RoomOK, CreditOK
  <1>12. PlaceOK(c, have, held(t), t.unacked, t.send_budget, t.wrte_acked)'
    BY <1>8, <1>10, <1>11 DEF PlaceOK
  <1> QED BY <1>4, <1>5, <1>6, <1>7, <1>9, <1>12 DEF Fits

(* A WRTE is out.                                                          *)
LEMMA SpentSent ==
    ASSUME BaseInv, BaseInv', DataInv, Written("ok"), call.after = "spent"
    PROVE  DataInv'
  <1>1. /\ call.pc = "send" /\ UNCHANGED <<ack, scenario, in, gone>> /\ ~desync /\ ~desync' /\ ~gone
        /\ device' = DeviceGets(call.frame) /\ UNCHANGED <<stored, handles, got>>
        /\ table' = [table EXCEPT ![call.ch.slot] = spend(@, call.frame.len)]
        /\ \/ call' = Returns("ok")
           \/ call' = [call EXCEPT !.pc = "top", !.want = @ - call.frame.len, !.frame = NoFrame, !.after = "none"]
    BY DEF Written, AfterSend
  <1>2. PICK i, n, c : i = call.ch.slot /\ n = call.frame.len /\ c = call.frame.remote
    OBVIOUS
  <1>3. call.op = "write" /\ call.frame.cmd = "WRTE" /\ c = table[i].remote /\ n > 0
    BY <1>1, <1>2 DEF BaseInv, CallInv, FrameInv
  <1>4. Live(i)
    BY <1>1, <1>2, <1>3, UserIs
  <1>5. device \in [Ids -> DeviceEnds] /\ call.frame \in Frames /\ n \in Nat
    BY <1>2 DEF BaseInv, ConnTypeOK, CallStates, Frames
  <1>6. PICK s, g, d, have : At(i, s, g, d, have)
    BY <1>1, <1>4, AtIs DEF Doubtful
  <1>7. d = c /\ s = table[i] /\ s.remote = c /\ g = got[s.local] /\ s \in Slots /\ c \in Ids /\ s.ack = ack
    BY <1>3, <1>4, <1>6, LiveIs DEF At
  <1>8. At(i, s, g, c, have)
    BY <1>6, <1>7
  <1>9. /\ device'[c].owes = device[c].owes + n /\ device[c].owes \in Nat
        /\ \A q \in Ids : /\ device'[q].sent = device[q].sent /\ device'[q].state = device[q].state
                          /\ device'[q].local = device[q].local /\ device'[q].asb = device[q].asb
                          /\ q # c => device'[q].owes = device[q].owes
    <2>1. device' = [device EXCEPT ![c].has = @ + n, ![c].owes = @ + n]
      BY <1>1, <1>2, <1>3 DEF DeviceGets
    <2>2. \A q \in Ids : device[q] \in DeviceEnds
      BY <1>5
    <2>3. \A q \in Ids : q # c => device'[q] = device[q]
      BY <1>5, <2>1
    <2>4. device'[c] = [device[c] EXCEPT !.has = device[c].has + n, !.owes = device[c].owes + n]
      BY <1>5, <1>7, <2>1, <2>2 DEF DeviceEnds
    <2>5. /\ device'[c].owes = device[c].owes + n /\ device[c].owes \in Nat /\ device'[c].sent = device[c].sent
          /\ device'[c].state = device[c].state /\ device'[c].local = device[c].local /\ device'[c].asb = device[c].asb
      BY <1>5, <1>7, <2>2, <2>4 DEF DeviceEnds
    <2>6. ASSUME NEW q \in Ids
          PROVE  /\ device'[q].sent = device[q].sent /\ device'[q].state = device[q].state
                 /\ device'[q].local = device[q].local /\ device'[q].asb = device[q].asb
                 /\ q # c => device'[q].owes = device[q].owes
      BY <2>3, <2>5
    <2> QED BY <2>5, <2>6
  <1>10. PICK t : t = spend(s, n)
    OBVIOUS
  <1>11. /\ SameReceive(s, t) /\ t.local = s.local /\ t.remote = c
         /\ t.send_budget = (IF ack = "Delayed" THEN s.send_budget - n ELSE s.send_budget)
         /\ t.wrte_acked = (IF ack = "Delayed" THEN s.wrte_acked ELSE FALSE)
    <2>1. SpentTo(s, n, t)
      BY <1>5, <1>7, <1>10, SpendIs
    <2> QED BY <1>7, <2>1 DEF SameReceive, SameChannel, SpentTo
  <1>12. table'[i] = t /\ \A j \in Positions : j # i => table'[j] = table[j]
    BY <1>1, <1>2, <1>4, <1>7, <1>10 DEF BaseInv, ConnTypeOK, Live
  <1>13. call'.pc \in {"idle", "top"} /\ call'.op \notin {"read", "open"}
    <2>1. CASE call' = Returns("ok")
      BY <2>1, ReturnsIs DEF BaseInv
    <2>2. CASE call' = [call EXCEPT !.pc = "top", !.want = @ - call.frame.len, !.frame = NoFrame, !.after = "none"]
      BY <1>3, <2>2 DEF BaseInv, ConnTypeOK, CallStates
    <2> QED BY <1>1, <2>1, <2>2
  <1>14. ReadInv' /\ SpentInv' /\ (\A q \in Ids : ~Awaited(q)') /\ \A q : ~Sending(q, "OKAY") /\ ~Sending(q, "OKAY")'
    BY <1>3, <1>13 DEF ReadInv, SpentInv, Awaited, Sending
  <1>15. ConnTypeOK /\ ConnTypeOK' /\ CreditsInv /\ InKept /\ WireInv /\ GotInv
    BY <1>1 DEF BaseInv, DataInv, InKept
  <1>16. \A q \in Ids : SameFlight(q)
    BY <1>1, <1>15, FlightKept
  <1>17. CreditKept(c)
    <2>1. advertised_ack_bytes' = advertised_ack_bytes
      BY DEF advertised_ack_bytes
    <2> QED BY <1>1, <1>7, <1>9, <1>14, <2>1 DEF CreditKept, CreditOK, One
  <1>18. ASSUME ~Shorts PROVE BudgetOK(c, t.send_budget, t.wrte_acked)'
    <2>1. BudgetOK(c, s.send_budget, s.wrte_acked)
      BY <1>1, <1>8, <1>18, PartsAre DEF Parts
    <2>2. IsFiniteSet(Units(Credits(c)))
      BY <1>7, <1>15, <1>18 DEF CreditsInv
    <2>3. IF ack = "Delayed" THEN n <= s.send_budget ELSE s.wrte_acked
      BY <1>1, <1>2, <1>7, <1>18 DEF DataInv, SpentInv
    <2>4. PICK budget, acked : budget = t.send_budget /\ acked = t.wrte_acked
      OBVIOUS
    <2>5. Spends(c, n, s, budget, acked)
      BY <1>1, <1>3, <1>5, <1>7, <1>9, <1>11, <2>1, <2>2, <2>3, <2>4 DEF Spends
    <2>6. BudgetOK(c, budget, acked)'
      BY <2>5, BudgetSpent
    <2> QED BY <2>4, <2>6 DEF BudgetOK
  <1>19. PICK b : b = stored[i]
    OBVIOUS
  <1>20. Fits(t, g, b, c, have)'
    <2>1. SameFlight(c) /\ device'[c].sent = device[c].sent /\ device'[c].state = device[c].state
      BY <1>7, <1>9, <1>16
    <2> QED BY <1>1, <1>8, <1>11, <1>17, <1>18, <1>19, <2>1, SendSideFits
  <1>21. SlotData(i)'
    <2>1. t = table'[i] /\ g = got'[t.local] /\ b = stored'[i]
      BY <1>1, <1>7, <1>11, <1>12, <1>19
    <2> QED BY <1>20, <2>1, FitsIs
  <1>22. ASSUME NEW q \in Ids, q # c PROVE Calm(q)
    <2>1. SameEnd(q) /\ SameOkay(q)
      BY <1>9, <1>14, <1>22 DEF SameEnd, SameOkay
    <2>2. SameFlight(q)
      BY <1>16
    <2> QED BY <1>1, <1>15, <2>1, <2>2 DEF Calm, Steady
  <1>23. WireInv' /\ CreditsInv' /\ GotInv'
    <2>0. device[c].state \notin {"unused", "asked"} /\ (device[c].state = "offered" => FALSE)
      <3>1. PICK h \in handles : h.slot = i /\ h.local = call.ch.local
        BY <1>2, <1>3 DEF BaseInv, CallInv, UseInv, HandleOf
      <3>2. device[h.remote].state \in {"open", "closed"}
        BY DEF BaseInv, IdsInv, HandlesInv
      <3>3. table[i].local = h.local
        BY <1>1, <1>2, <1>3, <3>1, UserIs
      <3>4. table[i].remote = h.remote
        BY <1>4, <3>1, <3>3 DEF BaseInv, IdsInv, HandlesInv, Live
      <3> QED BY <1>3, <3>2, <3>4
    <2>1. \A q \in Ids : /\ device'[q].sent = device[q].sent
                         /\ device'[q].local = 0 \/ device'[q].state = "asked" => device'[q].sent = 0
                         /\ device'[q].state \in {"unused", "asked", "offered"} => device'[q].owes = 0
      BY <1>9, <1>15, <2>0 DEF WireInv
    <2>2. WireInv'
      BY <1>15, <2>1, WireKept
    <2>3. CreditsInv' /\ GotInv'
      BY <1>1, <1>15, CreditsKept, GotKept
    <2> QED BY <2>2, <2>3
  <1>24. ASSUME NEW j \in Positions, table'[j].local # 0, table'[j].remote # c
         PROVE  table'[j] = table[j] /\ stored'[j] = stored[j] /\ got'[table[j].local] = got[table[j].local]
    BY <1>1, <1>11, <1>12, <1>24
  <1>25. ASSUME NEW j \in Positions, table'[j].local # 0, table'[j].remote = c PROVE SlotData(j)'
    <2>1. j = i
      BY <1>3, <1>4, <1>12, <1>25, Apart
    <2> QED BY <1>21, <2>1
  <1>26. AwaitData(c)'
    BY <1>7, <1>14 DEF AwaitData
  <1> QED BY <1>1, <1>14, <1>22, <1>23, <1>24, <1>25, <1>26, UndoubtedIs, DataMoves

(* Nothing of a channel is in flight before its READY.                     *)
LEMMA NoneInFlight ==
    ASSUME BaseInv, NEW c \in Ids, device[c].local = 0
    PROVE  \A k \in DOMAIN in : in[k].remote = c => in[k].cmd \notin {"WRTE", "READY"}
  <1> SUFFICES ASSUME NEW k \in DOMAIN in, in[k].remote = c, in[k].cmd \in {"WRTE", "READY"} PROVE FALSE
    OBVIOUS
  <1>1. PacketOK(in[k])
    BY DEF BaseInv, PacketsInv
  <1> QED BY <1>1 DEF PacketOK

(* An OPEN is out.                                                         *)
LEMMA OpenSent ==
    ASSUME BaseInv, BaseInv', DataInv, Written("ok"), call.after = "await"
    PROVE  DataInv'
  <1>1. /\ call.pc = "send" /\ UNCHANGED <<ack, scenario, in, gone>> /\ ~desync /\ ~desync' /\ ~gone
        /\ device' = DeviceGets(call.frame) /\ UNCHANGED <<table, stored, handles, got>>
        /\ call' = [call EXCEPT !.pc = "recv", !.frame = NoFrame, !.after = "none"]
    BY DEF Written, AfterSend
  <1>2. PICK c, l, n : c = first(Unused) /\ l = call.ch.local /\ n = IF ack = "Delayed" THEN credit ELSE 1
    OBVIOUS
  <1>3. /\ call.op = "open" /\ call.frame = Frame("OPEN", l, 0, credit)
        /\ Unused # {} /\ \A d \in Ids : device[d].local # l
    BY <1>1, <1>2 DEF BaseInv, CallInv, FrameInv
  <1>4. c \in Ids /\ device[c].state = "unused" /\ device[c].local = 0
    BY <1>2, <1>3, UnusedIs
  <1>5. device' = [device EXCEPT ![c] = [@ EXCEPT !.state = "asked", !.local = l, !.asb = n]]
    BY <1>1, <1>2, <1>3 DEF DeviceGets, Frame
  <1>6. device \in [Ids -> DeviceEnds] /\ device[c] \in DeviceEnds
    BY <1>4 DEF BaseInv, ConnTypeOK
  <1>7. \A q \in Ids : q # c => device'[q] = device[q]
    BY <1>5, <1>6
  <1>8. device'[c] = [device[c] EXCEPT !.state = "asked", !.local = l, !.asb = n]
    BY <1>4, <1>5, <1>6
  <1>9. /\ device'[c].sent = device[c].sent /\ device'[c].state = "asked" /\ device'[c].owes = device[c].owes
        /\ device'[c].local = l /\ device'[c].asb = n
    BY <1>6, <1>8 DEF DeviceEnds
  <1>10. device[c].sent = 0 /\ device[c].owes = 0
    BY <1>4 DEF DataInv, WireInv
  <1>11. /\ call'.pc = "recv" /\ call'.op = "open" /\ call'.ch = call.ch /\ call'.frame = NoFrame
    BY <1>1, <1>3 DEF BaseInv, ConnTypeOK, CallStates
  <1>12. ReadInv' /\ SpentInv' /\ \A q, cmd : ~Sending(q, cmd)'
    BY <1>11 DEF ReadInv, SpentInv, Sending
  <1>13. \A q : ~Sending(q, "OKAY")
    <2>1. call.frame.cmd = "OPEN"
      BY <1>3 DEF Frame
    <2> QED BY <2>1 DEF Sending
  <1>14. ConnTypeOK /\ ConnTypeOK' /\ CreditsInv /\ InKept /\ WireInv /\ GotInv
    BY <1>1 DEF BaseInv, DataInv, InKept
  <1>15. \A q \in Ids : SameFlight(q)
    BY <1>1, <1>14, FlightKept
  <1>16. ASSUME NEW q \in Ids, q # c PROVE Calm(q)
    <2>1. SameEnd(q) /\ SameOkay(q)
      BY <1>7, <1>12, <1>13, <1>16 DEF SameEnd, SameOkay
    <2>2. SameFlight(q)
      BY <1>15
    <2> QED BY <1>1, <1>14, <2>1, <2>2 DEF Calm, Steady
  <1>17. WireInv' /\ CreditsInv' /\ GotInv'
    <2>1. \A q \in Ids : /\ device'[q].sent = device[q].sent
                         /\ device'[q].local = 0 \/ device'[q].state = "asked" => device'[q].sent = 0
                         /\ device'[q].state \in {"unused", "asked", "offered"} => device'[q].owes = 0
      BY <1>7, <1>9, <1>10, <1>14 DEF WireInv
    <2>2. WireInv'
      BY <1>14, <2>1, WireKept
    <2>3. CreditsInv' /\ GotInv'
      BY <1>1, <1>14, CreditsKept, GotKept
    <2> QED BY <2>2, <2>3
  <1>18. \A j \in Positions : table'[j].local # 0 => table'[j].remote # c
    BY <1>1, <1>4 DEF BaseInv, IdsInv, TableInv
  <1>19. \A k \in DOMAIN in : in[k].remote = c => in[k].cmd \notin {"WRTE", "READY"}
    BY <1>4, NoneInFlight
  <1>20. AwaitData(c)'
    <2>1. CoverOK(c, 0)'
      BY <1>1, <1>9, <1>10, <1>19 DEF CoverOK
    <2>2. RoomOK(c, device[c].sent - 0, 0)'
      <3>1. rx_cap \in Nat /\ rx_cap' = rx_cap /\ ack' = ack
        BY <1>1, Limits DEF rx_cap
      <3>2. device'[c].sent - 0 = 0
        BY <1>9, <1>10
      <3>3. OneWrite(c)'
        BY <1>1, <1>19 DEF OneWrite
      <3> QED BY <3>1, <3>2, <3>3 DEF RoomOK
    <2>3. CreditOK(c, device[c].sent - 0, 0)'
      <3>1. advertised_ack_bytes \in Nat /\ advertised_ack_bytes' = advertised_ack_bytes /\ ack' = ack
        BY <1>1, Limits DEF advertised_ack_bytes
      <3>2. device'[c].sent - 0 = 0 /\ device'[c].asb = n /\ n = IF ack = "Delayed" THEN advertised_ack_bytes ELSE 1
        BY <1>2, <1>9, <1>10 DEF credit
      <3>3. ~Sending(c, "OKAY")'
        BY <1>12
      <3> QED BY <3>1, <3>2, <3>3 DEF CreditOK, One
    <2>4. BudgetOK(c, 0, FALSE)'
      BY <1>9 DEF BudgetOK
    <2>5. PlaceOK(c, 0, 0, 0, 0, FALSE)'
      BY <2>1, <2>2, <2>3, <2>4 DEF PlaceOK
    <2> QED BY <1>1, <1>9, <1>10, <1>12, <1>19, <2>5 DEF AwaitData
  <1>21. \A q \in Ids : q # c => ~Awaited(q)'
    BY <1>2, <1>3, <1>7, <1>11 DEF Awaited
  <1> QED BY <1>1, <1>12, <1>16, <1>17, <1>18, <1>20, <1>21, UndoubtedIs, DataMoves

(* A channel nothing has happened on yet.                                  *)
Fresh(s, g, b, c) ==
    /\ s.remote = c /\ s.state = "Open" /\ s.rx_buf = 0 /\ s.settled = 0 /\ s.unacked = 0 /\ s.wrte_acked
    /\ ack = "Delayed" => s.send_budget = Grant
    /\ g = <<>> /\ b = <<>> /\ device[c].sent = 0 /\ Sum(Credits(c)) = 0
    /\ \A k \in DOMAIN in : in[k].remote = c => in[k].cmd \notin {"WRTE", "READY"}
    /\ ~Sending(c, "OKAY") /\ device[c].state # "asked"
    /\ device[c].state = "open" => /\ device[c].owes = 0
                                   /\ device[c].asb = IF ack = "Delayed" THEN advertised_ack_bytes ELSE 1
(* A channel nothing has happened on yet fits.                             *)
LEMMA FreshFits ==
    ASSUME NEW s, NEW g, NEW b, NEW c, Fresh(s, g, b, c)', NEW have, have = 0
    PROVE  Fits(s, g, b, c, have)'
  <1>1. /\ s.remote = c /\ s.state = "Open" /\ s.rx_buf = 0 /\ s.settled = 0 /\ s.unacked = 0 /\ s.wrte_acked
        /\ ack' = "Delayed" => s.send_budget = Grant
        /\ g = <<>> /\ b = <<>> /\ device'[c].sent = 0 /\ Sum(Credits(c))' = 0
        /\ \A k \in DOMAIN in' : in'[k].remote = c => in'[k].cmd \notin {"WRTE", "READY"}
        /\ ~Sending(c, "OKAY")' /\ device'[c].state # "asked"
    BY DEF Fresh
  <1>2. Len(g) = 0 /\ Len(b) = 0 /\ DOMAIN g = {} /\ DOMAIN b = {} /\ held(s)' = 0
    BY <1>1 DEF held
  <1>3. rx_watermark' = rx_watermark /\ rx_cap' = rx_cap /\ rx_watermark > 0 /\ rx_cap >= 0
        /\ advertised_ack_bytes' = advertised_ack_bytes /\ advertised_ack_bytes \in Nat
    BY Limits DEF rx_watermark, rx_cap, rx_ceiling, advertised_ack_bytes
  <1>4. DebtOK(s)'
    BY <1>1, <1>2, <1>3 DEF DebtOK
  <1>5. StreamOK(c, g, b)' /\ NoGap(g, b)'
    BY <1>1, <1>2 DEF StreamOK, Grows, NoGap
  <1>6. PICK kept, debt : kept = 0 /\ debt = 0
    OBVIOUS
  <1>7. CoverOK(c, have)'
    BY <1>1, <1>6 DEF CoverOK
  <1>8. RoomOK(c, device[c].sent - have, kept)'
    BY <1>1, <1>3, <1>6 DEF RoomOK, OneWrite
  <1>9. CreditOK(c, device[c].sent - have, debt)'
    BY <1>1, <1>3, <1>6 DEF CreditOK, One, Fresh
  <1>10. BudgetOK(c, s.send_budget, s.wrte_acked)'
    BY <1>1, <1>6, IdsAre DEF BudgetOK, One, Fresh
  <1>11. kept = held(s)' /\ debt = s.unacked
    BY <1>1, <1>2, <1>6
  <1>12. RoomOK(c, device[c].sent - have, held(s))' /\ CreditOK(c, device[c].sent - have, s.unacked)'
    BY <1>8, <1>9, <1>11 DEF RoomOK, CreditOK
  <1>13. PlaceOK(c, have, held(s), s.unacked, s.send_budget, s.wrte_acked)'
    BY <1>7, <1>10, <1>12 DEF PlaceOK
  <1>14. s.remote = c /\ Len(g) + s.rx_buf = have
    BY <1>1, <1>2
  <1> QED BY <1>4, <1>5, <1>13, <1>14 DEF Fits

(* A handle is given out before anything is read through it.               *)
LEMMA GotOpens ==
    ASSUME GotInv, UNCHANGED <<scenario, got>>, NEW h, handles' = handles \cup {h}, got[h.local] = <<>>
    PROVE  GotInv'
  <1>1. Overruns' = Overruns /\ DOMAIN got[h.local] = {}
    BY TypesKept
  <1>2. \A x \in handles' : x \in handles \/ x = h
    OBVIOUS
  <1>3. Grows(got[h.local])
    BY <1>1 DEF Grows
  <1>4. \A l : Grows(got[l])' <=> Grows(got[l])
    BY DEF Grows
  <1> QED BY <1>1, <1>2, <1>3, <1>4 DEF GotInv, Grows

(* What is known of a request whose slot is reserved.                      *)
LEMMA NothingYet ==
    ASSUME BaseInv, DataInv, NEW c \in Ids, device[c].local = 0
    PROVE  /\ device[c].sent = 0 /\ Sum(Credits(c)) = 0
           /\ \A k \in DOMAIN in : in[k].remote = c => in[k].cmd \notin {"WRTE", "READY"}
           /\ device[c].state = "offered" => device[c].owes = 0
  <1>1. \A k \in DOMAIN in : in[k].remote = c => in[k].cmd \notin {"WRTE", "READY"}
    BY NoneInFlight
  <1>2. Sum(Credits(c)) = 0
    BY <1>1, NoCredits DEF BaseInv, ConnTypeOK
  <1> QED BY <1>1, <1>2 DEF DataInv, WireInv

(* A local id no handle has is one nothing was read with.                  *)
LEMMA Unread ==
    ASSUME DataInv, NEW l \in 1 .. MaxLocal, \A h \in handles : h.local # l
    PROVE  got[l] = <<>>
  BY DEF DataInv, GotInv

(* The READY that accepts a request is out.                                *)
LEMMA AnswerSent ==
    ASSUME BaseInv, BaseInv', DataInv, Written("ok"), call.op = "answer", incoming.reserved # NoChannel
    PROVE  DataInv'
  <1>1. PICK r, i, l, h : r = incoming.pending /\ i = incoming.reserved.slot /\ l = incoming.reserved.local
                       /\ h = Handle(incoming.reserved, incoming.pending)
    OBVIOUS
  <1>2. /\ call.pc = "send" /\ call.after = "answered" /\ call.frame = Frame("READY", l, r, credit)
        /\ \A x \in handles : x.local # l
    BY <1>1 DEF BaseInv, CallInv, AnswerInv
  <1>3. /\ UNCHANGED <<table, stored, got>> /\ handles' = handles \cup {h} /\ call' = Returns("ok")
    BY <1>1, <1>2 DEF Written, AfterSend
  <1>4. /\ UNCHANGED <<ack, scenario, in, gone>> /\ ~desync /\ ~desync'
        /\ device' = DeviceGets(call.frame)
    BY DEF Written
  <1>5. r \in Ids /\ device[r].state \in {"offered", "closed"} /\ device[r].local = 0
        /\ Live(i) /\ table[i] = accepted(l, r, Grant, ack) /\ table[i].local = l /\ table[i].remote = r
    BY <1>1, <1>4, HeldIs
  <1>6. l \in 1 .. MaxLocal /\ stored[i] \in Seq(Bytes)
    BY <1>5, LiveIs
  <1>7. PICK n : n = IF ack = "Delayed" THEN credit ELSE 1
    OBVIOUS
  <1>8. device' = IF device[r].state # "offered" THEN device
                  ELSE [device EXCEPT ![r] = [@ EXCEPT !.state = "open", !.local = l, !.asb = n]]
    BY <1>2, <1>4, <1>7 DEF DeviceGets, Frame
  <1>9. device \in [Ids -> DeviceEnds] /\ device[r] \in DeviceEnds
    BY <1>5 DEF BaseInv, ConnTypeOK
  <1>10. \A q \in Ids : q # r => device'[q] = device[q]
    BY <1>8, <1>9
  <1>11. /\ device'[r].sent = device[r].sent /\ device'[r].owes = device[r].owes
         /\ \/ device[r].state = "closed" /\ device'[r] = device[r]
            \/ device[r].state = "offered" /\ device'[r].state = "open" /\ device'[r].asb = n /\ device'[r].local = l
    <2>1. CASE device[r].state # "offered"
      BY <1>5, <1>8, <2>1
    <2>2. CASE device[r].state = "offered"
      <3>1. device'[r] = [device[r] EXCEPT !.state = "open", !.local = l, !.asb = n]
        BY <1>5, <1>8, <1>9, <2>2
      <3> QED BY <1>9, <2>2, <3>1 DEF DeviceEnds
    <2> QED BY <2>1, <2>2
  <1>12. call'.pc = "idle" /\ call'.op # "open" /\ call'.op # "read"
    BY <1>2, <1>3, ReturnsIs DEF BaseInv
  <1>13. ReadInv' /\ SpentInv' /\ (\A q \in Ids : ~Awaited(q)') /\ \A q : ~Sending(q, "OKAY")'
    BY <1>12 DEF ReadInv, SpentInv, Awaited, Sending
  <1>14. \A q : ~Sending(q, "OKAY")
    <2>1. call.frame.cmd = "READY"
      BY <1>2 DEF Frame
    <2> QED BY <2>1 DEF Sending
  <1>15. ConnTypeOK /\ ConnTypeOK' /\ CreditsInv /\ InKept /\ WireInv /\ GotInv
    BY <1>4 DEF BaseInv, DataInv, InKept
  <1>16. ASSUME NEW q \in Ids, q # r PROVE Calm(q)
    <2>1. SameEnd(q) /\ SameOkay(q)
      BY <1>10, <1>13, <1>14, <1>16 DEF SameEnd, SameOkay
    <2> QED BY <1>4, <1>15, <2>1, CalmIs
  <1>17. /\ device[r].sent = 0 /\ Sum(Credits(r)) = 0 /\ (device[r].state = "offered" => device[r].owes = 0)
         /\ \A k \in DOMAIN in : in[k].remote = r => in[k].cmd \notin {"WRTE", "READY"}
    BY <1>5, NothingYet
  <1>18. got[l] = <<>>
    BY <1>2, <1>6, Unread
  <1>19. WireInv' /\ CreditsInv' /\ GotInv'
    <2>1. \A q \in Ids : /\ device'[q].sent = device[q].sent
                         /\ device'[q].local = 0 \/ device'[q].state = "asked" => device'[q].sent = 0
                         /\ device'[q].state \in {"unused", "asked", "offered"} => device'[q].owes = 0
      BY <1>10, <1>11, <1>15, <1>17 DEF WireInv
    <2>2. WireInv'
      BY <1>15, <2>1, WireKept
    <2>3. h.local = l
      BY <1>1 DEF Handle
    <2>4. CreditsInv' /\ GotInv'
      BY <1>3, <1>4, <1>15, <1>18, <2>3, CreditsKept, GotOpens
    <2> QED BY <2>2, <2>4
  <1>20. SlotData(i)'
    <2>1. PICK s, g, b : s = table'[i] /\ g = got'[s.local] /\ b = stored'[i]
      OBVIOUS
    <2>2. /\ s.remote = r /\ s.local = l /\ s.state = "Open" /\ s.rx_buf = 0 /\ s.settled = 0 /\ s.unacked = 0
          /\ s.wrte_acked /\ s.send_budget = IF ack = "Delayed" THEN Grant ELSE 0
      <3>1. l \in Nat /\ r \in Nat /\ Grant \in Nat /\ ack \in {"Classic", "Delayed"}
        BY <1>5, <1>6, IdsAre, ConfigAssumption DEF BaseInv, ConnTypeOK
      <3>2. s = accepted(l, r, Grant, ack)
        BY <1>3, <1>5, <2>1
      <3> QED BY <3>1, <3>2, AcceptedIs
    <2>3. g = <<>> /\ b = <<>>
      <3>1. b = stored[i] /\ Len(b) = 0
        BY <1>1, <1>3, <2>1, HeldIs
      <3> QED BY <1>3, <1>6, <1>18, <2>1, <2>2, <3>1
    <2>4. Sum(Credits(r))' = 0
      BY <1>4, <1>17, CreditsSame
    <2>5. advertised_ack_bytes' = advertised_ack_bytes /\ n = IF ack = "Delayed" THEN advertised_ack_bytes ELSE 1
      BY <1>7 DEF advertised_ack_bytes, credit
    <2>6. Fresh(s, g, b, r)'
      BY <1>4, <1>11, <1>13, <1>17, <2>2, <2>3, <2>4, <2>5 DEF Fresh
    <2>7. PICK have : have = 0
      OBVIOUS
    <2>8. Fits(s, g, b, r, have)'
      BY <2>6, <2>7, FreshFits
    <2> QED BY <2>1, <2>8, FitsIs
  <1>21. ASSUME NEW j \in Positions, table'[j].local # 0, table'[j].remote = r PROVE SlotData(j)'
    <2>1. j = i
      BY <1>3, <1>5, <1>21, Apart
    <2> QED BY <1>20, <2>1
  <1>22. \A j \in Positions : table'[j].local # 0 /\ table'[j].remote # r =>
              table'[j] = table[j] /\ stored'[j] = stored[j] /\ got'[table[j].local] = got[table[j].local]
    BY <1>3
  <1>23. AwaitData(r)'
    BY <1>5, <1>13 DEF AwaitData
  <1> QED BY <1>4, <1>13, <1>16, <1>19, <1>21, <1>22, <1>23, UndoubtedIs, DataMoves

(* A request is accepted: its slot is there before its READY is out.       *)
LEMMA AcceptData ==
    ASSUME BaseInv, BaseInv', DataInv, Accept, FreePositions # {}
    PROVE  DataInv'
  <1>1. PICK r, i, l, t : r = incoming.pending /\ i = allocate.slot /\ l = next_local_id /\ t = accepted(l, r, Grant, ack)
    OBVIOUS
  <1>2. /\ call.pc = "held" /\ l <= MaxLocal
        /\ table' = [table EXCEPT ![i] = t]
        /\ call' = [Starts("answer", allocate, 0) EXCEPT !.pc = "send", !.after = "answered",
                                                         !.frame = Frame("READY", l, r, credit)]
        /\ UNCHANGED <<ack, scenario, stored, handles, got, in, device, desync, gone>>
    BY <1>1 DEF Accept, wireVars
  <1>3. /\ i \in Positions /\ table[i] = NoSlot /\ l \in 1 .. MaxLocal /\ allocate \in ChannelIds
        /\ \A h \in handles : h.local # l
    BY <1>1, <1>2, AllocateIs
  <1>4. /\ r \in Ids /\ (~desync => device[r].local = 0 /\ device[r].state \in {"offered", "closed"})
    BY <1>1, <1>2, HeldIs
  <1>5. t.local = l /\ t.remote = r
    BY <1>1 DEF accepted, opening
  <1>6. table'[i] = t /\ \A j \in Positions : j # i => table'[j] = table[j]
    BY <1>2, <1>3 DEF BaseInv, ConnTypeOK
  <1>7. Live(i)' /\ Positions' = Positions
    BY <1>2, <1>3, <1>5, <1>6, TypesKept DEF Live
  <1>8. call'.pc = "send" /\ call'.op = "answer" /\ call'.after = "answered" /\ call'.frame.cmd = "READY"
    <2>1. PICK x : x = Starts("answer", allocate, 0)
      OBVIOUS
    <2>2. x \in CallStates /\ x.op = "answer"
      BY <1>3, <2>1, StartsIs DEF Ops, BaseInv, ConnTypeOK
    <2>3. call' = [x EXCEPT !.pc = "send", !.after = "answered", !.frame = Frame("READY", l, r, credit)]
      BY <1>2, <2>1
    <2>4. Frame("READY", l, r, credit).cmd = "READY"
      BY DEF Frame
    <2> QED BY <2>2, <2>3, <2>4 DEF CallStates
  <1>9. ReadInv' /\ SpentInv' /\ (\A q \in Ids : ~Awaited(q)') /\ \A q : ~Sending(q, "OKAY")' /\ ~Sending(q, "OKAY")
    BY <1>2, <1>8 DEF ReadInv, SpentInv, Awaited, Sending
  <1>10. ConnTypeOK /\ ConnTypeOK' /\ CreditsInv /\ InKept /\ WireInv /\ GotInv
    BY <1>2 DEF BaseInv, DataInv, InKept
  <1>11. ASSUME NEW q \in Ids PROVE Calm(q)
    <2>1. SameEnd(q) /\ SameOkay(q)
      BY <1>2, <1>9 DEF SameEnd, SameOkay
    <2> QED BY <1>2, <1>10, <2>1, CalmIs
  <1>12. ~desync =>
         /\ device[r].sent = 0 /\ Sum(Credits(r)) = 0
         /\ \A k \in DOMAIN in : in[k].remote = r => in[k].cmd \notin {"WRTE", "READY"}
    BY <1>4, NothingYet
  <1>13. got[l] = <<>>
    BY <1>3, Unread
  <1>14. WireInv' /\ CreditsInv' /\ GotInv'
    <2>1. WireInv'
      BY <1>2, <1>10, WireKept DEF WireInv
    <2> QED BY <1>2, <1>10, <2>1, CreditsKept, GotKept
  <1>15. ASSUME ~desync PROVE SlotData(i)'
    <2>1. PICK g, b : g = got'[t.local] /\ b = stored'[i]
      OBVIOUS
    <2>2. /\ t.state = "Open" /\ t.rx_buf = 0 /\ t.settled = 0 /\ t.unacked = 0
          /\ t.wrte_acked /\ t.send_budget = IF ack = "Delayed" THEN Grant ELSE 0
      <3>1. l \in Nat /\ r \in Nat /\ Grant \in Nat /\ ack \in {"Classic", "Delayed"}
        BY <1>3, <1>4, IdsAre, ConfigAssumption DEF BaseInv, ConnTypeOK
      <3> QED BY <1>1, <3>1, AcceptedIs
    <2>3. g = <<>> /\ b = <<>>
      <3>1. b = stored[i] /\ Len(b) = 0 /\ b \in Seq(Bytes)
        BY <1>2, <1>3, <2>1, NoSlotIs DEF BaseInv, SlotsInv, SlotOK, ConnTypeOK
      <3> QED BY <1>2, <1>5, <1>13, <2>1, <3>1
    <2>4. Sum(Credits(r))' = 0
      BY <1>2, <1>12, <1>15, CreditsSame
    <2>5. Fresh(t, g, b, r)'
      BY <1>2, <1>4, <1>5, <1>9, <1>12, <1>15, <2>2, <2>3, <2>4 DEF Fresh
    <2>6. PICK have : have = 0
      OBVIOUS
    <2>7. Fits(t, g, b, r, have)'
      BY <2>5, <2>6, FreshFits
    <2> QED BY <1>6, <2>1, <2>7, FitsIs
  <1>16. ASSUME NEW j \in Positions, table'[j].local # 0, table'[j].remote = r, ~Doubtful(j)' PROVE SlotData(j)'
    <2>1. j = i
      BY <1>3, <1>5, <1>6, <1>7, <1>16 DEF BaseInv, IdsInv, TableInv
    <2>2. incoming'.reserved = [slot |-> i, local |-> l]
      <3>1. incoming' = [incoming EXCEPT !.reserved = allocate]
        BY DEF Accept
      <3>2. allocate = [slot |-> i, local |-> l]
        BY <1>1 DEF allocate
      <3> QED BY <3>1, <3>2 DEF BaseInv, ConnTypeOK
    <2>3. ~desync
      BY <1>2, <1>5, <1>6, <1>16, <2>1, <2>2 DEF Doubtful, Reserved
    <2> QED BY <1>15, <2>1, <2>3
  <1>17. \A j \in Positions : table'[j].local # 0 /\ table'[j].remote # r =>
              table'[j] = table[j] /\ stored'[j] = stored[j] /\ got'[table[j].local] = got[table[j].local]
    BY <1>2, <1>5, <1>6
  <1>18. AwaitData(r)'
    BY <1>4, <1>9 DEF AwaitData
  <1>19. Undoubted
    BY <1>2, UndoubtedIs DEF BaseInv, CallInv, AnswerInv
  <1> QED BY <1>2, <1>9, <1>11, <1>14, <1>16, <1>17, <1>18, <1>19, DataMoves

(* The frame is written, or fails.                                         *)
LEMMA SendData ==
    ASSUME BaseInv, BaseInv', DataInv, Send \/ SendFails
    PROVE  DataInv'
  <1>1. PICK sent \in {"ok", "gone", "failed"} : Written(sent)
    BY SendIs
  <1>2. CASE call.after = "taken"
    BY <1>1, <1>2, TakenSent
  <1>3. CASE call.after # "taken" /\ sent # "ok"
    BY <1>1, <1>3, LostData
  <1>4. CASE call.after # "taken" /\ sent = "ok"
    <2>1. Written("ok") /\ call.pc = "send" /\ call.after \in Afters
      BY <1>1, <1>4 DEF Written, BaseInv, ConnTypeOK, CallStates
    <2>2. CASE call.after \in {"delivered", "dispatched", "await", "spent"}
      BY <2>1, <2>2, DeliveredSent, DispatchedSent, OpenSent, SpentSent
    <2>3. CASE call.after \in {"closed", "short"}
      BY <2>1, <2>3, ClosedSent
    <2>4. CASE call.after \in {"none", "answered", "refused"}
      <3>1. call.op = "answer"
        BY <2>1, <2>4 DEF BaseInv, CallInv, FrameInv
      <3> QED BY <2>1, <3>1, ClosedSent, AnswerSent
    <2> QED BY <1>4, <2>1, <2>2, <2>3, <2>4 DEF Afters
  <1> QED BY <1>2, <1>3, <1>4

(* What the device's steps have in common.                                 *)
Says(c, p, n) ==
    /\ c \in Ids /\ p \in Inbound /\ p.remote = c /\ n \in DeviceEnds /\ device'[c] = n /\ n.local = device[c].local
    /\ \A q \in Ids : q # c => device'[q] = device[q]
    /\ ~gone /\ in' = Append(in, p)
    /\ UNCHANGED <<ack, scenario, table, stored, call, incoming, handles, got, desync, gone>>
(* Each step of the device's puts one packet on the wire, or none, and     *)
(* touches one channel.                                                    *)
LEMMA SaysIs ==
    ASSUME BaseInv, NEW c \in Ids, NEW p, NEW n, DevicePkt(c, p, n)
    PROVE  Says(c, p, n)
  <1>1. device \in [Ids -> DeviceEnds]
    BY DEF BaseInv, ConnTypeOK
  <1>2. device' = [device EXCEPT ![c] = n]
    BY DEF DevicePkt
  <1>3. device'[c] = n /\ \A q \in Ids : q # c => device'[q] = device[q]
    BY <1>1, <1>2
  <1> QED BY <1>3 DEF DevicePkt, Says, hostVars

(* A step of the device's leaves the other channels alone.                 *)
LEMMA SaysData ==
    ASSUME BaseInv, BaseInv', DataInv, NEW c, NEW p, NEW n, Says(c, p, n), WireInv', CreditsInv',
           \A i \in Positions : table[i].local # 0 /\ table[i].remote = c /\ ~Doubtful(i) => SlotData(i)', AwaitData(c)'
    PROVE  DataInv'
  <1>1. /\ c \in Ids /\ p \in Inbound /\ p.remote = c /\ (\A q \in Ids : q # c => device'[q] = device[q])
        /\ ~gone /\ in' = Append(in, p) /\ device'[c].local = device[c].local
        /\ UNCHANGED <<ack, scenario, table, stored, call, incoming, handles, got, desync, gone>>
    BY DEF Says
  <1>2. ConnTypeOK /\ ConnTypeOK' /\ CreditsInv
    BY DEF BaseInv, DataInv
  <1>3. ASSUME NEW q \in Ids, q # c PROVE Calm(q)
    <2>1. SameEnd(q) /\ SameOkay(q)
      BY <1>1, <1>3 DEF SameEnd, SameOkay, Sending
    <2>2. ~Carries(p, q)
      BY <1>1, <1>3 DEF Carries
    <2> QED BY <1>1, <1>2, <2>1, <2>2, CalmIs
  <1>4. ReadInv' /\ SpentInv' /\ GotInv'
    <2>1. Shorts' = Shorts /\ \A ch : get(ch)' = get(ch)
      BY <1>1, TypesKept, GetKept
    <2>2. ReadInv'
      BY <1>1, <2>1 DEF DataInv, ReadInv
    <2>3. SpentInv'
      BY <1>1, <2>1 DEF DataInv, SpentInv
    <2> QED BY <1>1, <2>2, <2>3, GotKept DEF DataInv
  <1>5. ASSUME NEW q \in Ids, q # c, Awaited(q)' PROVE Awaited(q) /\ ~Sending(q, "CLSE")'
    <2>1. Awaited(q)
      BY <1>1, <1>5 DEF Awaited
    <2>2. ~Sending(q, "CLSE")
      BY <2>1 DEF DataInv, PlacesData, AwaitData
    <2> QED BY <1>1, <2>1, <2>2 DEF Sending
  <1>6. Undoubted /\ \A i \in Positions : ~Doubtful(i)' => ~Doubtful(i)
    BY <1>1 DEF Undoubted, Doubtful, Reserved
  <1> QED BY <1>1, <1>3, <1>4, <1>5, <1>6, DataMoves

(* The packet goes to the end of the queue.                                *)
Last == Len(in) + 1
(* The packets that were in flight stay where they are.                    *)
LEMMA SaysLast ==
    ASSUME BaseInv, NEW c, NEW p, NEW n, Says(c, p, n)
    PROVE  /\ Last \in DOMAIN in' /\ in'[Last] = p /\ Last \in Nat
           /\ \A k \in DOMAIN in : k \in DOMAIN in' /\ in'[k] = in[k] /\ k < Last /\ k \in Nat
           /\ \A k \in DOMAIN in' : k \in DOMAIN in \/ k = Last
  <1>1. in \in Seq(Inbound) /\ p \in Inbound /\ in' = Append(in, p)
    BY DEF BaseInv, ConnTypeOK, Says
  <1> QED BY <1>1, AppendIs DEF Last

(* The stream on the wire stays in order.                                  *)
LEMMA SaysWire ==
    ASSUME BaseInv, DataInv, NEW c, NEW p, NEW n, Says(c, p, n), n.sent >= device[c].sent,
           (n.local = 0 \/ n.state = "asked") => n.sent = 0,
           n.state \in {"unused", "asked", "offered"} => n.owes = 0,
           PieceOK(p)', p.cmd = "WRTE" => From(p) = device[c].sent
    PROVE  WireInv'
  <1>1. WireInv /\ c \in Ids /\ device'[c] = n /\ (\A q \in Ids : q # c => device'[q] = device[q]) /\ n \in DeviceEnds
        /\ p.remote = c /\ device[c] \in DeviceEnds
    BY DEF DataInv, Says, BaseInv, ConnTypeOK
  <1>2. device[c].sent \in Nat /\ n.sent \in Nat
    BY <1>1 DEF DeviceEnds
  <1>3. ASSUME NEW k \in DOMAIN in, in[k].cmd = "WRTE"
        PROVE  To(in[k]) \in Int /\ To(in[k]) <= device[in[k].remote].sent
               /\ device[in[k].remote].sent <= device'[in[k].remote].sent
    <2>1. in[k].remote \in Ids
      BY PacketTypes DEF BaseInv
    <2>2. PieceOK(in[k])
      BY <1>1 DEF WireInv
    <2>3. Len(in[k].data) \in Nat /\ From(in[k]) \in Int
      <3>1. in[k].data \in Seq(Bytes) /\ 1 \in DOMAIN in[k].data
        <4>1. in[k].data \in Seq(Bytes) /\ Len(in[k].data) > 0
          BY <1>3, <2>2, PacketTypes DEF PieceOK, BaseInv
        <4> QED BY <4>1
      <3>2. in[k].data[1] \in Bytes
        BY <3>1, ElementsOf
      <3> QED BY <3>1, <3>2 DEF From, Bytes
    <2>4. device[in[k].remote] \in DeviceEnds
      BY <2>1 DEF BaseInv, ConnTypeOK
    <2>5. To(in[k]) \in Int
      BY <2>3 DEF To
    <2>6. device[in[k].remote].sent <= device'[in[k].remote].sent
      <3>1. CASE in[k].remote = c
        BY <1>1, <1>2, <3>1
      <3>2. CASE in[k].remote # c
        <4>1. device[in[k].remote].sent \in Nat
          BY <2>4 DEF DeviceEnds
        <4> QED BY <1>1, <2>1, <3>2, <4>1
      <3> QED BY <3>1, <3>2
    <2>7. To(in[k]) <= device[in[k].remote].sent
      BY <1>3, <2>2 DEF PieceOK
    <2> QED BY <2>5, <2>6, <2>7
  <1>4. ASSUME NEW k \in DOMAIN in' PROVE PieceOK(in[k])'
    <2>1. CASE k = Last
      BY <2>1, SaysLast DEF PieceOK, From, To
    <2>2. CASE k \in DOMAIN in
      <3>1. in'[k] = in[k] /\ PieceOK(in[k])
        BY <1>1, <2>2, SaysLast DEF WireInv
      <3>2. in[k].cmd = "WRTE" => To(in[k]) <= device'[in[k].remote].sent
        <4>1. PICK a, b, d : a = To(in[k]) /\ b = device[in[k].remote].sent /\ d = device'[in[k].remote].sent
          OBVIOUS
        <4>2. in[k].remote \in Ids
          BY <2>2, PacketTypes DEF BaseInv
        <4>3. device[in[k].remote] \in DeviceEnds /\ device'[in[k].remote] \in DeviceEnds
          BY <1>1, <4>2 DEF BaseInv, ConnTypeOK
        <4>4. b \in Nat /\ d \in Nat
          BY <4>1, <4>3 DEF DeviceEnds
        <4> QED BY <1>3, <2>2, <4>1, <4>4
      <3> QED BY <3>1, <3>2 DEF PieceOK, From, To
    <2> QED BY <2>1, <2>2, SaysLast
  <1>5. ASSUME NEW k \in DOMAIN in', NEW m \in DOMAIN in', k < m, in'[k].cmd = "WRTE", in'[m].cmd = "WRTE",
               in'[k].remote = in'[m].remote
        PROVE  To(in'[k]) <= From(in'[m])
    <2>1. k \in DOMAIN in
      BY <1>5, SaysLast
    <2>2. CASE m \in DOMAIN in
      BY <1>1, <1>5, <2>1, <2>2, SaysLast DEF WireInv
    <2>3. CASE m = Last
      <3>1. in'[m] = p /\ in'[k] = in[k] /\ in[k].remote = c
        BY <1>1, <1>5, <2>1, <2>3, SaysLast
      <3> QED BY <1>3, <1>5, <2>1, <3>1
    <2> QED BY <2>2, <2>3, SaysLast
  <1>6. \A q \in Ids :
         /\ device'[q].local = 0 \/ device'[q].state = "asked" => device'[q].sent = 0
         /\ device'[q].state \in {"unused", "asked", "offered"} => device'[q].owes = 0
    BY <1>1 DEF WireInv
  <1> QED BY <1>4, <1>5, <1>6 DEF WireInv, From, To

-----------------------------------------------------------------------------
(* Steps of the device.                                                    *)

(* The READYs in flight stay good.                                         *)
LEMMA SaysCredits ==
    ASSUME BaseInv, DataInv, NEW c, NEW p, NEW n, Says(c, p, n), ~Shorts => p.len >= 0
    PROVE  CreditsInv'
  <1>1. Shorts' = Shorts
    BY TypesKept DEF Says
  <1> SUFFICES ASSUME ~Shorts PROVE (\A k \in DOMAIN in' : in'[k].len >= 0) /\ \A q \in Ids : IsFiniteSet(Units(Credits(q)))'
    BY <1>1 DEF CreditsInv
  <1>2. (\A k \in DOMAIN in : in[k].len >= 0) /\ \A q \in Ids : IsFiniteSet(Units(Credits(q)))
    BY DEF DataInv, CreditsInv
  <1>3. \A k \in DOMAIN in' : in'[k].len >= 0
    BY <1>2, SaysLast
  <1>4. in \in Seq(Inbound) /\ p \in Inbound /\ in' = Append(in, p) /\ ack' = ack
    BY DEF BaseInv, ConnTypeOK, Says
  <1>5. ASSUME NEW q \in Ids PROVE IsFiniteSet(Units(Credits(q)))'
    BY <1>2, <1>4, CreditsAppend
  <1> QED BY <1>3, <1>5

(* The device writes.                                                      *)
Writes(c, p, n) ==
    /\ Says(c, p, n) /\ device[c].state = "open" /\ n.state = "open" /\ (device[c].asb > 0 \/ Overruns)
    /\ p.cmd = "WRTE" /\ p.local = device[c].local /\ Len(p.data) \in 1 .. MaxPayload /\ p.len = 0
    /\ n.sent = device[c].sent + Len(p.data) /\ n.owes = device[c].owes
    /\ n.asb = device[c].asb - IF ack = "Delayed" THEN Len(p.data) ELSE 1
    /\ \A k \in DOMAIN p.data : p.data[k] = <<c, device[c].sent + k>>
(* What the device changes when it writes.                                 *)
LEMMA WritesAre ==
    ASSUME BaseInv, NEW c, NEW p, NEW n, Writes(c, p, n)
    PROVE  /\ c \in Ids /\ p.remote = c /\ p.data \in Seq(Bytes) /\ Len(p.data) \in Nat \ {0} /\ Len(p.data) <= MaxPayload
           /\ DOMAIN p.data = 1 .. Len(p.data) /\ device[c].sent \in Nat /\ device[c].asb \in Int /\ device[c].owes \in Nat
           /\ device'[c].sent = device[c].sent + Len(p.data) /\ device'[c].owes = device[c].owes
           /\ device'[c].asb = device[c].asb - IF ack = "Delayed" THEN Len(p.data) ELSE 1
           /\ device'[c].state = "open" /\ device'[c].local = device[c].local
           /\ From(p) = device[c].sent /\ To(p) = device[c].sent + Len(p.data)
           /\ UNCHANGED <<ack, scenario, table, stored, call, incoming, handles, got, desync, gone>> /\ ~gone
  <1>1. /\ c \in Ids /\ p.remote = c /\ p \in Inbound /\ Len(p.data) \in 1 .. MaxPayload /\ device'[c] = n
        /\ UNCHANGED <<ack, scenario, table, stored, call, incoming, handles, got, desync, gone>> /\ ~gone
    BY DEF Writes, Says
  <1>2. p.data \in Seq(Bytes) /\ MaxPayload \in Nat
    BY <1>1, Limits DEF Inbound
  <1>3. Len(p.data) \in Nat \ {0} /\ Len(p.data) <= MaxPayload /\ DOMAIN p.data = 1 .. Len(p.data)
    BY <1>1, <1>2
  <1>4. device[c].sent \in Nat /\ device[c].asb \in Int /\ device[c].owes \in Nat
    BY <1>1, DeviceEndIs
  <1>5. From(p) = device[c].sent
    <2>1. 1 \in DOMAIN p.data
      BY <1>3
    <2>2. p.data[1] = <<c, device[c].sent + 1>>
      BY <2>1 DEF Writes
    <2> QED BY <1>4, <2>2 DEF From
  <1>6. To(p) = device[c].sent + Len(p.data)
    BY <1>5 DEF To
  <1>7. /\ device'[c].sent = device[c].sent + Len(p.data) /\ device'[c].owes = device[c].owes
        /\ device'[c].asb = device[c].asb - IF ack = "Delayed" THEN Len(p.data) ELSE 1
        /\ device'[c].state = "open" /\ device'[c].local = device[c].local
    BY <1>1 DEF Writes, Says
  <1> QED BY <1>1, <1>2, <1>3, <1>4, <1>5, <1>6, <1>7

(* What it writes follows what it wrote.                                   *)
LEMMA CoverWrites ==
    ASSUME BaseInv, NEW c, NEW p, NEW n, Writes(c, p, n), NEW have \in Nat, CoverOK(c, have)
    PROVE  CoverOK(c, have)'
  <1> DEFINE a == device[c].sent
             z == device'[c].sent
  <1>1. /\ p.remote = c /\ p.cmd = "WRTE" /\ a \in Nat /\ z \in Nat /\ From(p) = a /\ To(p) = z /\ a < z
    BY WritesAre DEF Writes
  <1>2. have <= a
    BY DEF CoverOK
  <1>3. /\ Last \in DOMAIN in' /\ in'[Last] = p
        /\ \A k \in DOMAIN in : k \in DOMAIN in' /\ in'[k] = in[k]
        /\ \A k \in DOMAIN in' : k \in DOMAIN in \/ k = Last
    BY SaysLast DEF Writes
  <1>4. ASSUME NEW k \in DOMAIN in', in'[k].cmd = "WRTE", in'[k].remote = c PROVE have <= From(in'[k])
    BY <1>1, <1>2, <1>3, <1>4 DEF CoverOK
  <1>5. ASSUME NEW j \in have + 1 .. z
        PROVE  \E k \in DOMAIN in' : in'[k].cmd = "WRTE" /\ in'[k].remote = c /\ From(in'[k]) < j /\ j <= To(in'[k])
    <2>1. CASE j <= a
      <3>1. j \in have + 1 .. a
        BY <1>1, <1>5, <2>1
      <3>2. PICK k \in DOMAIN in : in[k].cmd = "WRTE" /\ in[k].remote = c /\ From(in[k]) < j /\ j <= To(in[k])
        BY <3>1 DEF CoverOK
      <3>3. k \in DOMAIN in' /\ in'[k] = in[k]
        BY <1>3
      <3> QED BY <3>2, <3>3
    <2>2. CASE ~(j <= a)
      <3>1. a < j /\ j <= z
        BY <1>1, <1>5, <2>2
      <3>2. in'[Last].cmd = "WRTE" /\ in'[Last].remote = c /\ From(in'[Last]) < j /\ j <= To(in'[Last])
        BY <1>1, <1>3, <3>1
      <3> QED BY <1>3, <3>2
    <2> QED BY <2>1, <2>2
  <1>6. have <= z
    BY <1>1, <1>2
  <1> QED BY <1>4, <1>5, <1>6 DEF CoverOK, From, To

(* With nothing on its way there is no WRTE on the wire.                   *)
LEMMA NoneFlying ==
    ASSUME BaseInv, WireInv, NEW c \in Ids, NEW have, CoverOK(c, have), have = device[c].sent
    PROVE  \A k \in DOMAIN in : in[k].remote = c => in[k].cmd # "WRTE"
  <1> SUFFICES ASSUME NEW k \in DOMAIN in, in[k].remote = c, in[k].cmd = "WRTE" PROVE FALSE
    OBVIOUS
  <1>1. PieceOK(in[k]) /\ have <= From(in[k])
    BY DEF WireInv, CoverOK
  <1>2. Len(in[k].data) \in 1 .. MaxPayload /\ To(in[k]) <= device[c].sent
    BY <1>1 DEF PieceOK
  <1>3. in[k].data \in Seq(Bytes) /\ MaxPayload \in Nat /\ device[c].sent \in Nat
    BY PacketTypes, Limits, DeviceEndIs DEF BaseInv
  <1>4. in[k].data[1] \in Bytes
    BY <1>2, <1>3, ElementsOf
  <1>5. From(in[k]) \in Int
    BY <1>4 DEF From, Bytes
  <1>6. PICK f, d : f = From(in[k]) /\ d = Len(in[k].data)
    OBVIOUS
  <1>7. To(in[k]) = f + d /\ d \in Nat \ {0} /\ f \in Int
    BY <1>2, <1>3, <1>5, <1>6 DEF To
  <1> QED BY <1>1, <1>2, <1>3, <1>6, <1>7

(* The credit the device spends, and the room there is for what it writes: *)
(* a device with any credit left may write a whole packet.                 *)
Backed(kept, debt) == /\ kept \in Nat /\ debt \in Nat
                      /\ ack = "Delayed" => kept = debt
                      /\ ack # "Delayed" /\ debt = 0 => kept < rx_watermark
(* The credit the device spends goes with the bytes, and the buffer has    *)
(* room for them.                                                          *)
LEMMA RoomWrites ==
    ASSUME BaseInv, DataInv, NEW c, NEW p, NEW n, Writes(c, p, n), ~Overruns, NEW have \in Nat, CoverOK(c, have),
           NEW kept, NEW debt, Backed(kept, debt), NEW flying, flying = device[c].sent - have,
           RoomOK(c, flying, kept), CreditOK(c, flying, debt),
           NEW more, more = device'[c].sent - have
    PROVE  RoomOK(c, more, kept)' /\ CreditOK(c, more, debt)'
  <1>1. PICK len, okay : len = Len(p.data) /\ okay = (IF Sending(c, "OKAY") THEN call.frame.len ELSE 0)
    OBVIOUS
  <1>2. /\ c \in Ids /\ len \in Nat \ {0} /\ len <= MaxPayload /\ MaxPayload \in Nat
        /\ device[c].sent \in Nat /\ device[c].asb \in Int /\ device[c].asb > 0
        /\ device'[c].sent = device[c].sent + len
        /\ device'[c].asb = device[c].asb - IF ack = "Delayed" THEN len ELSE 1
        /\ device'[c].state = "open" /\ device[c].state = "open" /\ p.cmd = "WRTE"
        /\ UNCHANGED <<ack, call, gone>> /\ ~gone
    BY <1>1, WritesAre, Limits DEF Writes
  <1>3. have <= device[c].sent
    BY DEF CoverOK
  <1>4. flying \in Nat /\ more = flying + len /\ more > 0 /\ kept \in Nat /\ debt \in Nat /\ okay \in Nat
    <2>1. call.frame.len \in Nat
      BY DEF BaseInv, ConnTypeOK, CallStates, Frames
    <2>2. okay \in Nat
      BY <1>1, <2>1
    <2>3. flying \in Nat /\ more = flying + len /\ more > 0
      BY <1>2, <1>3
    <2> QED BY <2>2, <2>3 DEF Backed
  <1>5. /\ advertised_ack_bytes' = advertised_ack_bytes /\ rx_cap' = rx_cap /\ rx_watermark' = rx_watermark
        /\ Sending(c, "OKAY")' = Sending(c, "OKAY")
    BY <1>2 DEF advertised_ack_bytes, rx_cap, rx_watermark, rx_ceiling, Sending
  <1>6. CASE ack = "Delayed"
    <2>1. device[c].asb + flying + debt + okay = advertised_ack_bytes
      BY <1>1, <1>2, <1>6 DEF CreditOK
    <2>2. device'[c].asb + more + debt + okay = advertised_ack_bytes
      BY <1>2, <1>4, <1>6, <2>1
    <2>3. CreditOK(c, more, debt)'
      BY <1>1, <1>2, <1>5, <1>6, <2>2 DEF CreditOK
    <2>4. more + kept <= rx_cap
      <3>1. advertised_ack_bytes <= rx_cap - MaxPayload + 1 /\ rx_cap \in Nat /\ advertised_ack_bytes \in Nat /\ kept = debt
        BY <1>6, Limits DEF Backed
      <3> QED BY <1>2, <1>4, <2>1, <3>1
    <2> QED BY <1>2, <1>5, <1>6, <2>3, <2>4 DEF RoomOK
  <1>7. CASE ack # "Delayed"
    <2>1. device[c].asb + One(flying > 0) + One(debt > 0) + One(Sending(c, "OKAY")) = 1
      BY <1>2, <1>7 DEF CreditOK
    <2>2. /\ One(flying > 0) \in {0, 1} /\ One(debt > 0) \in {0, 1} /\ One(Sending(c, "OKAY")) \in {0, 1}
      BY DEF One
    <2>3. device[c].asb = 1 /\ One(flying > 0) = 0 /\ One(debt > 0) = 0 /\ One(Sending(c, "OKAY")) = 0
      BY <1>2, <2>1, <2>2
    <2>4. flying = 0 /\ debt = 0 /\ ~Sending(c, "OKAY")
      BY <1>4, <2>3 DEF One
    <2>5. CreditOK(c, more, debt)'
      BY <1>2, <1>4, <1>5, <1>7, <2>3, <2>4 DEF CreditOK, One
    <2>6. have = device[c].sent
      BY <1>2, <2>4
    <2>7. \A k \in DOMAIN in : in[k].remote = c => in[k].cmd # "WRTE"
      BY <1>2, <2>6, NoneFlying DEF DataInv
    <2>8. OneWrite(c)'
      <3>1. \A k \in DOMAIN in' : in'[k].cmd = "WRTE" /\ in'[k].remote = c => k = Last
        BY <2>7, SaysLast DEF Writes
      <3> QED BY <3>1 DEF OneWrite
    <2> QED BY <1>2, <1>5, <1>7, <2>4, <2>5, <2>8 DEF RoomOK, Backed
  <1> QED BY <1>6, <1>7

(* A READY, or none, joins those in flight.                                *)
LEMMA BudgetSays ==
    ASSUME BaseInv, DataInv, NEW c, NEW p, NEW n, Says(c, p, n), ~Shorts
    PROVE  /\ Sum(Credits(c))' = Sum(Credits(c)) + Above(Brings(p, c)) /\ Sum(Credits(c)) \in Nat
  <1>1. in \in Seq(Inbound) /\ p \in Inbound /\ in' = Append(in, p) /\ ack' = ack /\ c \in Ids
    BY DEF BaseInv, ConnTypeOK, Says
  <1>2. IsFiniteSet(Units(Credits(c)))
    BY <1>1 DEF DataInv, CreditsInv
  <1> QED BY <1>1, <1>2, CreditsAppend, SumNat

(* A place keeps its room and its credit when the device writes to it.     *)
LEMMA PlaceWrites ==
    ASSUME BaseInv, DataInv, NEW c, NEW p, NEW n, Writes(c, p, n), NEW have \in Nat,
           NEW kept, NEW debt, Backed(kept, debt), NEW budget, NEW acked, PlaceOK(c, have, kept, debt, budget, acked)
    PROVE  PlaceOK(c, have, kept, debt, budget, acked)'
  <1>1. UNCHANGED <<ack, scenario, call, desync, gone>> /\ device'[c].owes = device[c].owes
        /\ device'[c].state = "open" /\ device[c].state = "open" /\ Says(c, p, n) /\ p.cmd = "WRTE"
    BY WritesAre DEF Writes
  <1>2. Overruns' = Overruns /\ Shorts' = Shorts
    BY <1>1, TypesKept
  <1>3. ASSUME ~Overruns PROVE CoverOK(c, have)'
    BY <1>3, CoverWrites DEF PlaceOK
  <1>4. ASSUME ~Overruns, ~desync
        PROVE  RoomOK(c, device[c].sent - have, kept)' /\ CreditOK(c, device[c].sent - have, debt)'
    <2>1. PICK flying, more : flying = device[c].sent - have /\ more = device'[c].sent - have
      OBVIOUS
    <2>2. CoverOK(c, have) /\ RoomOK(c, flying, kept) /\ CreditOK(c, flying, debt)
      BY <1>4, <2>1 DEF PlaceOK
    <2>3. RoomOK(c, more, kept)' /\ CreditOK(c, more, debt)'
      BY <1>4, <2>1, <2>2, RoomWrites
    <2> QED BY <2>1, <2>3 DEF RoomOK, CreditOK
  <1>5. ASSUME ~Shorts, ~desync PROVE BudgetOK(c, budget, acked)'
    <2>1. Brings(p, c) = 0
      BY <1>1 DEF Brings
    <2>2. Sum(Credits(c))' = Sum(Credits(c))
      BY <1>1, <1>5, <2>1, BudgetSays DEF Above
    <2> QED BY <1>1, <1>5, <2>2 DEF PlaceOK, BudgetOK, One
  <1> QED BY <1>1, <1>2, <1>3, <1>4, <1>5 DEF PlaceOK

(* What the device writes comes after all that was read or is buffered.    *)
LEMMA StreamWrites ==
    ASSUME BaseInv, NEW c, NEW p, NEW n, Writes(c, p, n), NEW g \in Seq(Bytes), NEW b \in Seq(Bytes), StreamOK(c, g, b)
    PROVE  StreamOK(c, g, b)'
  <1>1. /\ p.remote = c /\ p.cmd = "WRTE" /\ device[c].sent \in Nat /\ device'[c].sent \in Nat
        /\ From(p) = device[c].sent /\ device[c].sent < device'[c].sent
    BY WritesAre DEF Writes
  <1>2. /\ Last \in DOMAIN in' /\ in'[Last] = p
        /\ \A k \in DOMAIN in : k \in DOMAIN in' /\ in'[k] = in[k]
        /\ \A k \in DOMAIN in' : k \in DOMAIN in \/ k = Last
    BY SaysLast DEF Writes
  <1>3. /\ \A k \in DOMAIN g : g[k][2] \in Nat
        /\ \A k \in DOMAIN b : b[k][2] \in Nat
    <2>1. \A k \in DOMAIN g : g[k] \in Bytes
      BY ElementsOf
    <2>2. \A k \in DOMAIN b : b[k] \in Bytes
      BY ElementsOf
    <2> QED BY <2>1, <2>2 DEF Bytes
  <1>4. /\ \A k \in DOMAIN g : g[k][2] <= device[c].sent
        /\ \A k \in DOMAIN b : b[k][2] <= device[c].sent
    BY DEF StreamOK
  <1>5. /\ \A k \in DOMAIN g : g[k][2] <= device'[c].sent
        /\ \A k \in DOMAIN b : b[k][2] <= device'[c].sent
    BY <1>1, <1>3, <1>4
  <1>6. ASSUME NEW m \in DOMAIN in', in'[m].cmd = "WRTE", in'[m].remote = c
        PROVE  /\ \A k \in DOMAIN g : g[k][2] <= From(in'[m])
               /\ \A k \in DOMAIN b : b[k][2] <= From(in'[m])
    <2>1. CASE m = Last
      BY <1>1, <1>2, <1>4, <2>1
    <2>2. CASE m \in DOMAIN in
      <3>1. in'[m] = in[m]
        BY <1>2, <2>2
      <3> QED BY <1>6, <2>2, <3>1 DEF StreamOK
    <2> QED BY <1>2, <2>1, <2>2
  <1>7. /\ \A k \in DOMAIN b : b[k][1] = c
        /\ Grows(b) /\ \A j \in DOMAIN g, k \in DOMAIN b : g[j][2] < b[k][2]
    BY DEF StreamOK
  <1>8. Grows(b)'
    BY <1>7 DEF Grows
  <1> QED BY <1>5, <1>6, <1>7, <1>8 DEF StreamOK, From

(* The slot of an open channel is open, and what it keeps is owed for.     *)
LEMMA OpenBacked ==
    ASSUME BaseInv, DataInv, NEW i, NEW s, NEW g, NEW c, NEW have, At(i, s, g, c, have), device[c].state # "closed"
    PROVE  s.state = "Open" /\ Backed(held(s), s.unacked)
  <1>1. Parts(i, s, g, c, have)
    BY PartsAre
  <1>2. s.remote = c /\ s.state \in {"Open", "Closed"}
    BY LiveIs DEF At
  <1>3. s.state = "Open"
    BY <1>1, <1>2 DEF Parts, DebtOK
  <1>4. held(s) \in Nat /\ s.unacked \in Nat
    BY <1>1 DEF Parts
  <1> QED BY <1>1, <1>3, <1>4 DEF Parts, DebtOK, Backed

(* A slot still fits after the device wrote to it.                         *)
LEMMA WritesFit ==
    ASSUME BaseInv, DataInv, NEW c, NEW p, NEW n, Writes(c, p, n),
           NEW i, NEW s, NEW g, NEW have, At(i, s, g, c, have), NEW b, b = stored[i]
    PROVE  Fits(s, g, b, c, have)'
  <1>1. Parts(i, s, g, c, have)
    BY PartsAre
  <1>2. s.remote = c /\ have = Len(g) + s.rx_buf /\ Live(i)
    BY DEF At
  <1>3. b \in Seq(Bytes)
    BY <1>2, LiveIs
  <1>4. /\ StreamOK(c, g, b) /\ (~Overruns => NoGap(g, b)) /\ DebtOK(s) /\ g \in Seq(Bytes) /\ have \in Nat
    BY <1>1 DEF Parts
  <1>5. device[c].state = "open" /\ device'[c].state = "open" /\ UNCHANGED <<ack, scenario>>
    BY WritesAre DEF Writes
  <1>6. s.state = "Open" /\ Backed(held(s), s.unacked)
    BY <1>5, OpenBacked
  <1>7. DebtOK(s)'
    <2>1. held(s)' = held(s) /\ rx_watermark' = rx_watermark
      BY DEF held, rx_watermark, rx_ceiling, rx_cap
    <2> QED BY <1>4, <1>5, <1>6, <2>1 DEF DebtOK
  <1>8. StreamOK(c, g, b)'
    BY <1>3, <1>4, StreamWrites
  <1>9. (~Overruns => NoGap(g, b))'
    BY <1>4, <1>5, TypesKept DEF NoGap
  <1>10. PICK kept, debt : kept = held(s) /\ debt = s.unacked
    OBVIOUS
  <1>11. PlaceOK(c, have, kept, debt, s.send_budget, s.wrte_acked)
    <2>1. SlotData(i)
      BY <1>1 DEF Parts
    <2>2. s = table[i] /\ g = got[s.local]
      BY DEF At
    <2> QED BY <1>2, <1>10, <2>1, <2>2 DEF SlotData
  <1>12. PICK budget, acked : budget = s.send_budget /\ acked = s.wrte_acked
    OBVIOUS
  <1>13. PlaceOK(c, have, kept, debt, budget, acked)'
    BY <1>4, <1>6, <1>10, <1>11, <1>12, PlaceWrites
  <1>14. PlaceOK(c, have, held(s), s.unacked, s.send_budget, s.wrte_acked)'
    BY <1>10, <1>12, <1>13 DEF PlaceOK, RoomOK, CreditOK, BudgetOK, held
  <1> QED BY <1>2, <1>7, <1>8, <1>9, <1>14 DEF Fits

(* While an open waits nothing is desynchronized, and an open channel's    *)
(* READY is on its way.                                                    *)
LEMMA AwaitedReady ==
    ASSUME BaseInv, DataInv, NEW c \in Ids, Awaited(c), device[c].state = "open", ~gone
    PROVE  \E k \in DOMAIN in : in[k].cmd = "READY" /\ in[k].remote = c
  <1>1. call.op = "open" /\ (call.pc = "recv" \/ call.after = "dispatched")
    BY DEF Awaited
  <1>2. ~desync
    BY <1>1 DEF BaseInv, DesyncInv, CallInv, OpenInv
  <1>3. ~HasSlot(c)
    BY NotAwaited
  <1>4. ~Sending(c, "CLSE")
    BY DEF DataInv, PlacesData, AwaitData
  <1> QED BY <1>2, <1>3, <1>4 DEF BaseInv, OrphanInv

(* DeviceWrites.                                                           *)
LEMMA WritesData ==
    ASSUME BaseInv, BaseInv', DataInv, NEW c, NEW p, NEW n, Writes(c, p, n)
    PROVE  DataInv'
  <1>1. /\ c \in Ids /\ p.remote = c /\ Says(c, p, n) /\ device'[c].state = "open" /\ device[c].state = "open"
        /\ device'[c] = n /\ p.cmd = "WRTE" /\ p.len = 0 /\ n.state = "open" /\ ~gone
        /\ device'[c].owes = device[c].owes
        /\ UNCHANGED <<ack, scenario, table, stored, call, incoming, handles, got, desync, gone>>
    BY WritesAre DEF Writes, Says
  <1>2. WireInv'
    <2>1. /\ From(p) = device[c].sent /\ To(p) = device'[c].sent /\ device[c].sent \in Nat
          /\ Len(p.data) \in 1 .. MaxPayload /\ device'[c].sent >= device[c].sent
      BY WritesAre DEF Writes
    <2>2. \A j \in DOMAIN p.data : p.data[j] = <<c, From(p) + j>>
      BY <2>1 DEF Writes
    <2>3. PieceOK(p)'
      BY <1>1, <2>1, <2>2 DEF PieceOK, From, To
    <2>4. n.local # 0
      <3>1. n.local = device[c].local
        BY <1>1 DEF Says
      <3> QED BY <1>1, <3>1 DEF BaseInv, IdsInv, EndsInv
    <2> QED BY <1>1, <2>1, <2>3, <2>4, SaysWire
  <1>3. CreditsInv'
    BY <1>1, SaysCredits
  <1>4. ASSUME NEW i \in Positions, table[i].local # 0, table[i].remote = c, ~Doubtful(i) PROVE SlotData(i)'
    <2>1. Live(i)
      BY <1>4 DEF Live
    <2>2. PICK s, g, d, have : At(i, s, g, d, have)
      BY <1>4, <2>1, AtIs
    <2>3. d = c /\ s = table'[i] /\ g = got'[s.local]
      BY <1>1, <1>4, <2>2 DEF At
    <2>4. PICK b : b = stored[i]
      OBVIOUS
    <2>5. Fits(s, g, b, c, have)'
      BY <2>2, <2>3, <2>4, WritesFit
    <2> QED BY <1>1, <2>3, <2>4, <2>5, FitsIs
  <1>5. AwaitData(c)'
    <2> SUFFICES ASSUME Awaited(c)'
                 PROVE  /\ PlaceOK(c, 0, 0, 0, 0, FALSE)' /\ device'[c].owes = 0 /\ ~Sending(c, "CLSE")'
                        /\ \A k \in DOMAIN in' : in'[k].cmd = "WRTE" /\ in'[k].remote = c =>
                             \E j \in DOMAIN in' : j < k /\ in'[j].cmd = "READY" /\ in'[j].remote = c
      BY DEF AwaitData
    <2>1. Awaited(c)
      <3>1. device'[c].local = device[c].local
        BY <1>1 DEF Says
      <3> QED BY <1>1, <3>1 DEF Awaited
    <2>2. /\ PlaceOK(c, 0, 0, 0, 0, FALSE) /\ device[c].owes = 0 /\ ~Sending(c, "CLSE")
          /\ \A k \in DOMAIN in : in[k].cmd = "WRTE" /\ in[k].remote = c =>
               \E j \in DOMAIN in : j < k /\ in[j].cmd = "READY" /\ in[j].remote = c
      BY <1>1, <2>1 DEF DataInv, PlacesData, AwaitData
    <2>3. Backed(0, 0)
      BY Limits DEF Backed
    <2>4. PlaceOK(c, 0, 0, 0, 0, FALSE)'
      <3>1. PICK z, no : z = 0 /\ no = FALSE
        OBVIOUS
      <3>2. PlaceOK(c, z, z, z, z, no) /\ Backed(z, z) /\ z \in Nat
        BY <2>2, <2>3, <3>1
      <3>3. PlaceOK(c, z, z, z, z, no)'
        BY <3>2, PlaceWrites
      <3> QED BY <3>1, <3>3
    <2>5. ~Sending(c, "CLSE")'
      BY <1>1, <2>2 DEF Sending
    <2>6. ASSUME NEW k \in DOMAIN in', in'[k].cmd = "WRTE", in'[k].remote = c
          PROVE  \E j \in DOMAIN in' : j < k /\ in'[j].cmd = "READY" /\ in'[j].remote = c
      <3>1. PICK j \in DOMAIN in : j < k /\ in[j].cmd = "READY" /\ in[j].remote = c
        <4>1. CASE k = Last
          <5>1. PICK j \in DOMAIN in : in[j].cmd = "READY" /\ in[j].remote = c
            BY <1>1, <2>1, AwaitedReady
          <5> QED BY <1>1, <4>1, <5>1, SaysLast
        <4>2. CASE k \in DOMAIN in
          <5>1. in'[k] = in[k]
            BY <1>1, <4>2, SaysLast
          <5> QED BY <2>2, <2>6, <4>2, <5>1
        <4> QED BY <1>1, <4>1, <4>2, SaysLast
      <3>2. j \in DOMAIN in' /\ in'[j] = in[j]
        BY <1>1, SaysLast
      <3> QED BY <3>1, <3>2
    <2> QED BY <1>1, <2>2, <2>4, <2>5, <2>6
  <1> QED BY <1>1, <1>2, <1>3, <1>4, <1>5, SaysData

(* DeviceCloses, DeviceWithdraws, and an answer that refuses.              *)
LEMMA SaysClose ==
    ASSUME BaseInv, BaseInv', DataInv, NEW c, NEW p, NEW n, Says(c, p, n), p.cmd = "CLSE", p.len = 0,
           n = [device[c] EXCEPT !.state = "closed"], device[c].state = "asked" => device[c].sent = 0
    PROVE  DataInv'
  <1>1. /\ c \in Ids /\ p.remote = c /\ device'[c] = n /\ p \in Inbound /\ in' = Append(in, p)
        /\ UNCHANGED <<ack, scenario, table, stored, call, incoming, handles, got, desync, gone>>
    BY DEF Says
  <1>2. /\ n.state = "closed" /\ n.local = device[c].local /\ n.asb = device[c].asb /\ n.sent = device[c].sent
        /\ n.owes = device[c].owes /\ device[c].sent \in Nat
    BY <1>1, StateOnly, DeviceEndIs
  <1>3. WireInv'
    <2>1. PieceOK(p)'
      BY DEF PieceOK
    <2>2. n.local = 0 => n.sent = 0
      BY <1>1, <1>2 DEF DataInv, WireInv
    <2>3. n.sent >= device[c].sent
      BY <1>2
    <2>4. (n.local = 0 \/ n.state = "asked") => n.sent = 0
      BY <1>2, <2>2
    <2>5. n.state \notin {"unused", "asked", "offered"}
      BY <1>2
    <2> QED BY <2>1, <2>3, <2>4, <2>5, SaysWire
  <1>4. CreditsInv'
    BY SaysCredits
  <1>5. Calm(c)
    <2>1. SameEnd(c) /\ SameOkay(c) /\ ~Carries(p, c)
      BY <1>1, <1>2 DEF SameEnd, SameOkay, Sending, Carries
    <2>2. ConnTypeOK /\ ConnTypeOK' /\ CreditsInv
      BY DEF BaseInv, DataInv
    <2> QED BY <1>1, <2>1, <2>2, CalmIs
  <1>6. ASSUME NEW i \in Positions, table[i].local # 0, table[i].remote = c, ~Doubtful(i) PROVE SlotData(i)'
    BY <1>1, <1>5, <1>6, SlotKept DEF DataInv, PlacesData
  <1>7. AwaitData(c)'
    <2>1. AwaitData(c)
      BY <1>1 DEF DataInv, PlacesData
    <2>2. Awaited(c)' => Awaited(c)
      BY <1>1, <1>2 DEF Awaited
    <2>3. Awaited(c) => ~Sending(c, "CLSE")'
      BY <1>1, <2>1 DEF AwaitData, Sending
    <2> QED BY <1>5, <2>1, <2>2, <2>3, AwaitKept
  <1> QED BY <1>3, <1>4, <1>6, <1>7, SaysData

(* A packet without data leaves the streams alone.                         *)
Bare(c, p, n) == Says(c, p, n) /\ p.cmd # "WRTE" /\ n.sent = device[c].sent
(* A packet without data adds no WRTE to the wire.                         *)
LEMMA BareWire ==
    ASSUME BaseInv, NEW c, NEW p, NEW n, Bare(c, p, n)
    PROVE  /\ device'[c].sent = device[c].sent
           /\ \A k \in DOMAIN in' : in'[k].cmd = "WRTE" => k \in DOMAIN in /\ in'[k] = in[k]
           /\ \A k \in DOMAIN in : k \in DOMAIN in' /\ in'[k] = in[k]
  BY SaysLast DEF Bare, Says
(* Streams and room stay as they are.                                      *)
LEMMA BareKeeps ==
    ASSUME BaseInv, NEW c, NEW p, NEW n, Bare(c, p, n)
    PROVE  /\ \A have : CoverOK(c, have) => CoverOK(c, have)'
           /\ \A g, b : StreamOK(c, g, b) => StreamOK(c, g, b)'
           /\ \A flying, kept : RoomOK(c, flying, kept) => RoomOK(c, flying, kept)'
  <1>1. /\ device'[c].sent = device[c].sent
        /\ \A k \in DOMAIN in' : in'[k].cmd = "WRTE" => k \in DOMAIN in /\ in'[k] = in[k]
        /\ \A k \in DOMAIN in : k \in DOMAIN in' /\ in'[k] = in[k]
    BY BareWire
  <1>2. ASSUME NEW have, CoverOK(c, have) PROVE CoverOK(c, have)'
    <2>1. have <= device'[c].sent
      BY <1>1, <1>2 DEF CoverOK
    <2>2. ASSUME NEW k \in DOMAIN in', in'[k].cmd = "WRTE", in'[k].remote = c PROVE have <= From(in'[k])
      <3>1. k \in DOMAIN in /\ in'[k] = in[k]
        BY <1>1, <2>2
      <3> QED BY <1>2, <2>2, <3>1 DEF CoverOK
    <2>3. ASSUME NEW j \in have + 1 .. device'[c].sent
          PROVE  \E k \in DOMAIN in' : in'[k].cmd = "WRTE" /\ in'[k].remote = c /\ From(in'[k]) < j /\ j <= To(in'[k])
      <3>1. PICK k \in DOMAIN in : in[k].cmd = "WRTE" /\ in[k].remote = c /\ From(in[k]) < j /\ j <= To(in[k])
        BY <1>1, <1>2, <2>3 DEF CoverOK
      <3> QED BY <1>1, <3>1
    <2> QED BY <2>1, <2>2, <2>3 DEF CoverOK, From, To
  <1>3. ASSUME NEW g, NEW b, StreamOK(c, g, b) PROVE StreamOK(c, g, b)'
    <2>1. Grows(b)'
      BY <1>3 DEF Grows, StreamOK
    <2>2. ASSUME NEW m \in DOMAIN in', in'[m].cmd = "WRTE", in'[m].remote = c
          PROVE  /\ \A k \in DOMAIN g : g[k][2] <= From(in'[m])
                 /\ \A k \in DOMAIN b : b[k][2] <= From(in'[m])
      <3>1. m \in DOMAIN in /\ in'[m] = in[m]
        BY <1>1, <2>2
      <3> QED BY <1>3, <2>2, <3>1 DEF StreamOK
    <2> QED BY <1>1, <1>3, <2>1, <2>2 DEF StreamOK, From
  <1>4. ASSUME NEW flying, NEW kept, RoomOK(c, flying, kept) PROVE RoomOK(c, flying, kept)'
    <2>1. ack' = ack /\ rx_cap' = rx_cap /\ rx_watermark' = rx_watermark
      BY DEF Bare, Says, rx_cap, rx_watermark, rx_ceiling
    <2>2. OneWrite(c) => OneWrite(c)'
      BY <1>1 DEF OneWrite
    <2> QED BY <1>4, <2>1, <2>2 DEF RoomOK
  <1> QED BY <1>2, <1>3, <1>4

(* DeviceAcks.                                                             *)
Acks(c, p, n) ==
    /\ Says(c, p, n) /\ device[c].state = "open" /\ n = [device[c] EXCEPT !.owes = 0] /\ device[c].owes > 0
    /\ p.cmd = "READY" /\ p.len = (IF Shorts THEN ShortPayload ELSE device[c].owes)
(* What the device changes when it acknowledges.                           *)
LEMMA AcksAre ==
    ASSUME BaseInv, NEW c, NEW p, NEW n, Acks(c, p, n)
    PROVE  /\ Bare(c, p, n) /\ Says(c, p, n) /\ c \in Ids /\ p.remote = c /\ device'[c] = n
           /\ n.state = "open" /\ n.local = device[c].local /\ n.asb = device[c].asb /\ n.sent = device[c].sent
           /\ n.owes = 0 /\ device[c].owes \in Nat \ {0} /\ device[c].sent \in Nat /\ device[c].state = "open"
           /\ UNCHANGED <<ack, scenario, table, stored, call, incoming, handles, got, desync, gone>>
  <1>1. Says(c, p, n) /\ c \in Ids /\ p.remote = c /\ device'[c] = n /\ p.cmd = "READY"
        /\ UNCHANGED <<ack, scenario, table, stored, call, incoming, handles, got, desync, gone>>
    BY DEF Acks, Says
  <1>2. device[c] \in DeviceEnds /\ device[c].owes \in Nat /\ device[c].sent \in Nat
    BY <1>1, DeviceEndIs
  <1>3. n = [device[c] EXCEPT !.owes = 0] /\ device[c].state = "open" /\ device[c].owes > 0
    BY DEF Acks
  <1>4. n.state = "open" /\ n.local = device[c].local /\ n.asb = device[c].asb /\ n.sent = device[c].sent /\ n.owes = 0
    BY <1>2, <1>3 DEF DeviceEnds
  <1> QED BY <1>1, <1>2, <1>3, <1>4 DEF Bare
(* What the device owed is on its way to the host.                         *)
LEMMA BudgetAcks ==
    ASSUME BaseInv, DataInv, NEW c, NEW p, NEW n, Acks(c, p, n), ~Shorts, NEW budget, NEW acked, BudgetOK(c, budget, acked),
           budget \in Int
    PROVE  BudgetOK(c, budget, acked)'
  <1>1. /\ Says(c, p, n) /\ p.remote = c /\ device'[c].owes = 0 /\ device[c].owes \in Nat \ {0} /\ device[c].state = "open"
        /\ UNCHANGED <<ack, gone>> /\ p.cmd = "READY" /\ p.len = device[c].owes
    BY AcksAre DEF Acks
  <1>2. PICK total, now, owes : total = Sum(Credits(c)) /\ now = Sum(Credits(c))' /\ owes = device[c].owes
    OBVIOUS
  <1>3. now = total + (IF ack = "Delayed" THEN owes ELSE 1) /\ total \in Nat /\ owes \in Nat \ {0}
    <2>1. Brings(p, c) = IF ack = "Delayed" THEN owes ELSE 1
      BY <1>1, <1>2 DEF Brings
    <2>2. Above(Brings(p, c)) = IF ack = "Delayed" THEN owes ELSE 1
      BY <1>1, <1>2, <2>1 DEF Above
    <2> QED BY <1>1, <1>2, <2>2, BudgetSays
  <1> SUFFICES ASSUME ~gone PROVE IF ack = "Delayed" THEN budget >= 0 /\ budget + now + 0 = Grant
                                  ELSE One(acked) + now + One(0 > 0) = 1
    BY <1>1, <1>2 DEF BudgetOK, One
  <1>4. IF ack = "Delayed" THEN budget >= 0 /\ budget + total + owes = Grant
        ELSE One(acked) + total + One(owes > 0) = 1
    BY <1>1, <1>2 DEF BudgetOK
  <1>5. One(owes > 0) = 1 /\ One(0 > 0) = 0 /\ One(acked) \in {0, 1}
    BY <1>3 DEF One
  <1> QED BY <1>3, <1>4, <1>5

(* The device acknowledges what it was written.                            *)
LEMMA AcksFit ==
    ASSUME BaseInv, DataInv, NEW c, NEW p, NEW n, Acks(c, p, n),
           NEW i, NEW s, NEW g, NEW have, At(i, s, g, c, have), NEW b, b = stored[i]
    PROVE  Fits(s, g, b, c, have)'
  <1>1. Parts(i, s, g, c, have)
    BY PartsAre
  <1>2. s.remote = c /\ have = Len(g) + s.rx_buf /\ Live(i) /\ s \in Slots
    BY LiveIs DEF At
  <1>3. /\ StreamOK(c, g, b) /\ (~Overruns => NoGap(g, b)) /\ DebtOK(s) /\ (~Overruns => CoverOK(c, have))
    BY <1>1 DEF Parts
  <1>4. /\ device[c].state = "open" /\ device'[c].state = "open" /\ UNCHANGED <<ack, scenario, call, gone, desync>>
        /\ device'[c].sent = device[c].sent /\ device'[c].asb = device[c].asb /\ Bare(c, p, n)
    BY AcksAre
  <1>5. DebtOK(s)'
    <2>1. held(s)' = held(s) /\ rx_watermark' = rx_watermark
      BY DEF held, rx_watermark, rx_ceiling, rx_cap
    <2> QED BY <1>3, <1>4, <1>2, <2>1 DEF DebtOK
  <1>6. StreamOK(c, g, b)' /\ (~Overruns => CoverOK(c, have)')
    BY <1>3, <1>4, BareKeeps
  <1>7. (~Overruns => NoGap(g, b))' /\ Overruns' = Overruns /\ Shorts' = Shorts
    BY <1>3, <1>4, TypesKept DEF NoGap
  <1>8. PICK flying, kept, debt : flying = device[c].sent - have /\ kept = held(s) /\ debt = s.unacked
    OBVIOUS
  <1>9. ASSUME ~Overruns, ~desync PROVE RoomOK(c, flying, kept)' /\ CreditOK(c, flying, debt)'
    <2>1. RoomOK(c, flying, kept) /\ CreditOK(c, flying, debt)
      BY <1>1, <1>8, <1>9 DEF Parts
    <2>2. RoomOK(c, flying, kept)'
      BY <1>4, <2>1, BareKeeps
    <2>3. CreditOK(c, flying, debt)'
      <3>1. advertised_ack_bytes' = advertised_ack_bytes /\ (Sending(c, "OKAY")' <=> Sending(c, "OKAY"))
        BY <1>4 DEF advertised_ack_bytes, Sending
      <3> QED BY <1>4, <2>1, <3>1 DEF CreditOK, One
    <2> QED BY <2>2, <2>3
  <1>10. PICK budget, acked : budget = s.send_budget /\ acked = s.wrte_acked
    OBVIOUS
  <1>11. ASSUME ~Shorts, ~desync PROVE BudgetOK(c, budget, acked)'
    <2>1. BudgetOK(c, budget, acked)
      BY <1>1, <1>10, <1>11 DEF Parts
    <2>2. budget \in Int
      BY <1>2, <1>10 DEF Slots
    <2> QED BY <1>11, <2>1, <2>2, BudgetAcks
  <1>12. ~Overruns /\ ~desync => RoomOK(c, device[c].sent - have, held(s))' /\ CreditOK(c, device[c].sent - have, s.unacked)'
    <2>1. kept = held(s)' /\ flying = device'[c].sent - have
      BY <1>4, <1>8 DEF held
    <2> QED BY <1>8, <1>9, <2>1 DEF RoomOK, CreditOK
  <1>13. ~Shorts /\ ~desync => BudgetOK(c, s.send_budget, s.wrte_acked)'
    BY <1>10, <1>11 DEF BudgetOK
  <1>14. PlaceOK(c, have, held(s), s.unacked, s.send_budget, s.wrte_acked)'
    BY <1>4, <1>6, <1>7, <1>12, <1>13 DEF PlaceOK
  <1> QED BY <1>2, <1>5, <1>6, <1>7, <1>14 DEF Fits

(* The device acknowledges: the data stays exact.                          *)
LEMMA AcksData ==
    ASSUME BaseInv, BaseInv', DataInv, NEW c, NEW p, NEW n, Acks(c, p, n)
    PROVE  DataInv'
  <1>1. /\ c \in Ids /\ p.remote = c /\ Says(c, p, n) /\ device'[c] = n /\ n.state = "open" /\ n.sent = device[c].sent
        /\ n.local = device[c].local /\ device[c].sent \in Nat /\ device[c].owes \in Nat \ {0} /\ device[c].state = "open"
        /\ UNCHANGED <<ack, scenario, table, stored, call, incoming, handles, got, desync, gone>>
    BY AcksAre
  <1>2. WireInv'
    <2>1. PieceOK(p)' /\ p.cmd # "WRTE"
      BY DEF PieceOK, Acks
    <2>2. n.local # 0
      BY <1>1 DEF BaseInv, IdsInv, EndsInv
    <2>3. n.sent >= device[c].sent
      BY <1>1
    <2>4. (n.local = 0 \/ n.state = "asked") => n.sent = 0
      BY <1>1, <2>2
    <2>5. n.state \notin {"unused", "asked", "offered"}
      BY <1>1
    <2> QED BY <1>1, <2>1, <2>3, <2>4, <2>5, SaysWire
  <1>3. CreditsInv'
    <2>1. ~Shorts => p.len >= 0
      BY <1>1 DEF Acks
    <2> QED BY <1>1, <2>1, SaysCredits
  <1>4. ASSUME NEW i \in Positions, table[i].local # 0, table[i].remote = c, ~Doubtful(i) PROVE SlotData(i)'
    <2>1. Live(i)
      BY <1>4 DEF Live
    <2>2. PICK s, g, d, have : At(i, s, g, d, have)
      BY <1>4, <2>1, AtIs
    <2>3. d = c /\ s = table'[i] /\ g = got'[s.local]
      BY <1>1, <1>4, <2>2 DEF At
    <2>4. PICK b : b = stored[i]
      OBVIOUS
    <2>5. Fits(s, g, b, c, have)'
      BY <2>2, <2>3, <2>4, AcksFit
    <2> QED BY <1>1, <2>3, <2>4, <2>5, FitsIs
  <1>5. AwaitData(c)'
    <2>1. Awaited(c)' => Awaited(c)
      BY <1>1 DEF Awaited
    <2>2. Awaited(c) => device[c].owes = 0
      BY <1>1 DEF DataInv, PlacesData, AwaitData
    <2> QED BY <1>1, <2>1, <2>2 DEF AwaitData
  <1> QED BY <1>1, <1>2, <1>3, <1>4, <1>5, SaysData

(* DeviceOffers.                                                           *)
LEMMA SaysOffer ==
    ASSUME BaseInv, BaseInv', DataInv, NEW c, NEW p, NEW n, Says(c, p, n), device[c].state = "unused",
           n = [device[c] EXCEPT !.state = "offered"], p.cmd = "OPEN", p.len = 0
    PROVE  DataInv'
  <1>1. /\ c \in Ids /\ p.remote = c /\ device'[c] = n
        /\ UNCHANGED <<ack, scenario, table, stored, call, incoming, handles, got, desync, gone>>
    BY DEF Says
  <1>2. /\ n.state = "offered" /\ n.local = device[c].local /\ n.sent = device[c].sent /\ n.owes = device[c].owes
        /\ device[c].sent \in Nat /\ device[c].local = 0 /\ device[c].owes = 0 /\ device[c].sent = 0
    <2>1. device[c].local = 0
      BY <1>1 DEF BaseInv, IdsInv, EndsInv
    <2> QED BY <1>1, <2>1, StateOnly, DeviceEndIs DEF DataInv, WireInv
  <1>3. WireInv'
    <2>1. PieceOK(p)'
      BY DEF PieceOK
    <2>2. n.sent >= device[c].sent /\ n.sent = 0 /\ n.owes = 0
      BY <1>2
    <2> QED BY <2>1, <2>2, SaysWire
  <1>4. CreditsInv'
    BY SaysCredits
  <1>5. ASSUME NEW i \in Positions, table[i].local # 0, table[i].remote = c PROVE FALSE
    BY <1>5 DEF BaseInv, IdsInv, TableInv
  <1>6. ~Awaited(c)'
    <2>1. call.op = "open" => call.ch.local # 0
      BY DEF BaseInv, CallInv, OpenInv
    <2> QED BY <1>1, <1>2, <2>1 DEF Awaited
  <1>7. AwaitData(c)'
    BY <1>6 DEF AwaitData
  <1> QED BY <1>3, <1>4, <1>5, <1>7, SaysData

(* The READY that opens the channel the host asked for.                    *)
LEMMA SaysReady ==
    ASSUME BaseInv, BaseInv', DataInv, NEW c, NEW p, NEW n, Says(c, p, n), device[c].state = "asked",
           n = [device[c] EXCEPT !.state = "open"], p.cmd = "READY", p.len = Grant \/ (Shorts /\ p.len = ShortPayload)
    PROVE  DataInv'
  <1>1. /\ c \in Ids /\ p.remote = c /\ device'[c] = n
        /\ UNCHANGED <<ack, scenario, table, stored, call, incoming, handles, got, desync, gone>>
    BY DEF Says
  <1>2. /\ n.state = "open" /\ n.local = device[c].local /\ n.sent = device[c].sent /\ n.owes = device[c].owes
        /\ n.asb = device[c].asb /\ device[c].sent \in Nat /\ device[c].local # 0 /\ device[c].owes = 0 /\ device[c].sent = 0
    <2>1. device[c].local # 0
      BY <1>1 DEF BaseInv, IdsInv, EndsInv
    <2> QED BY <1>1, <2>1, StateOnly, DeviceEndIs DEF DataInv, WireInv
  <1>3. WireInv'
    <2>1. PieceOK(p)' /\ p.cmd # "WRTE"
      BY DEF PieceOK
    <2>2. n.sent >= device[c].sent /\ n.sent = 0 /\ n.owes = 0
      BY <1>2
    <2> QED BY <2>1, <2>2, SaysWire
  <1>4. CreditsInv'
    <2>1. ~Shorts => p.len >= 0
      BY IdsAre
    <2> QED BY <2>1, SaysCredits
  <1>5. ASSUME NEW i \in Positions, table[i].local # 0, table[i].remote = c PROVE FALSE
    BY <1>5 DEF BaseInv, IdsInv, TableInv
  <1>6. \A k \in DOMAIN in : in[k].remote = c => in[k].cmd \notin {"WRTE", "READY"}
    <2> SUFFICES ASSUME NEW k \in DOMAIN in, in[k].remote = c, in[k].cmd \in {"WRTE", "READY"} PROVE FALSE
      OBVIOUS
    <2>1. PacketOK(in[k])
      BY DEF BaseInv, PacketsInv
    <2> QED BY <2>1 DEF PacketOK
  <1>7. \A k \in DOMAIN in' : in'[k].remote = c => in'[k].cmd # "WRTE"
    BY <1>6, SaysLast
  <1>8. AwaitData(c)'
    <2> SUFFICES ASSUME Awaited(c)'
                 PROVE  /\ PlaceOK(c, 0, 0, 0, 0, FALSE)' /\ device'[c].owes = 0 /\ ~Sending(c, "CLSE")'
      BY <1>7 DEF AwaitData
    <2>1. Awaited(c)
      BY <1>1, <1>2 DEF Awaited
    <2>2. PlaceOK(c, 0, 0, 0, 0, FALSE) /\ ~Sending(c, "CLSE")
      BY <1>1, <2>1 DEF DataInv, PlacesData, AwaitData
    <2>3. PICK z, no : z = 0 /\ no = FALSE
      OBVIOUS
    <2>4. PlaceOK(c, z, z, z, z, no)
      BY <2>2, <2>3
    <2>5. Bare(c, p, n)
      BY <1>2 DEF Bare
    <2>6. Overruns' = Overruns /\ Shorts' = Shorts
      BY <1>1, TypesKept
    <2>7. ASSUME ~Overruns PROVE CoverOK(c, z)'
      BY <2>4, <2>5, <2>7, BareKeeps DEF PlaceOK
    <2>8. PICK flying : flying = device[c].sent - z
      OBVIOUS
    <2>9. ASSUME ~Overruns, ~desync PROVE RoomOK(c, flying, z)' /\ CreditOK(c, flying, z)'
      <3>1. RoomOK(c, flying, z) /\ CreditOK(c, flying, z)
        BY <2>4, <2>8, <2>9 DEF PlaceOK
      <3>2. RoomOK(c, flying, z)'
        BY <2>5, <3>1, BareKeeps
      <3>3. advertised_ack_bytes' = advertised_ack_bytes /\ (Sending(c, "OKAY")' <=> Sending(c, "OKAY"))
        BY <1>1 DEF advertised_ack_bytes, Sending
      <3>4. CreditOK(c, flying, z)'
        BY <1>1, <1>2, <3>1, <3>3 DEF CreditOK, One
      <3> QED BY <3>2, <3>4
    <2>10. ASSUME ~Shorts PROVE BudgetOK(c, z, no)'
      <3>1. p.len = Grant /\ Grant \in Nat \ {0}
        BY <2>10, IdsAre
      <3>2. Sum(Credits(c)) = 0
        BY <1>6, NoCredits DEF BaseInv, ConnTypeOK
      <3>3. Above(Brings(p, c)) = IF ack = "Delayed" THEN Grant ELSE 1
        BY <1>1, <3>1 DEF Above, Brings
      <3>4. Sum(Credits(c))' = IF ack = "Delayed" THEN Grant ELSE 1
        BY <2>10, <3>1, <3>2, <3>3, BudgetSays
      <3>5. device'[c].owes = 0 /\ ack' = ack
        BY <1>1, <1>2
      <3> QED BY <2>3, <3>1, <3>4, <3>5 DEF BudgetOK, One
    <2>11. ~Overruns /\ ~desync => RoomOK(c, device[c].sent - z, z)' /\ CreditOK(c, device[c].sent - z, z)'
      <3>1. flying = device'[c].sent - z
        BY <1>1, <1>2, <2>8
      <3> QED BY <2>9, <3>1 DEF RoomOK, CreditOK
    <2>12. PlaceOK(c, z, z, z, z, no)'
      BY <1>1, <2>6, <2>7, <2>10, <2>11 DEF PlaceOK
    <2>13. PlaceOK(c, 0, 0, 0, 0, FALSE)'
      BY <2>3, <2>12
    <2>14. ~Sending(c, "CLSE")'
      BY <1>1, <2>2 DEF Sending
    <2> QED BY <1>1, <1>2, <2>13, <2>14
  <1> QED BY <1>3, <1>4, <1>5, <1>8, SaysData

(* The device's steps.                                                     *)
LEMMA DeviceData ==
    ASSUME BaseInv, BaseInv', DataInv, NEW c \in Ids, DeviceActs(c)
    PROVE  DataInv'
  <1>1. PICK p \in Inbound, n \in DeviceEnds : DevicePkt(c, p, n)
    BY DevicePktIs
  <1>2. Says(c, p, n)
    BY <1>1, SaysIs
  <1>3. \/ /\ device[c].state = "asked" /\ n = [device[c] EXCEPT !.state = "open"] /\ p.cmd = "READY"
           /\ p.len = Grant \/ (Shorts /\ p.len = ShortPayload)
        \/ /\ device[c].state \in {"asked", "offered", "open"} /\ n = [device[c] EXCEPT !.state = "closed"]
           /\ p.cmd = "CLSE" /\ p.len = 0
        \/ /\ device[c].state = "unused" /\ n = [device[c] EXCEPT !.state = "offered"] /\ p.cmd = "OPEN" /\ p.len = 0
        \/ Writes(c, p, n)
        \/ Acks(c, p, n)
    BY <1>1, <1>2 DEF DevicePkt, Writes, Acks
  <1>4. CASE /\ device[c].state = "asked" /\ n = [device[c] EXCEPT !.state = "open"] /\ p.cmd = "READY"
             /\ p.len = Grant \/ (Shorts /\ p.len = ShortPayload)
    BY <1>2, <1>4, SaysReady
  <1>5. CASE /\ device[c].state \in {"asked", "offered", "open"} /\ n = [device[c] EXCEPT !.state = "closed"]
             /\ p.cmd = "CLSE" /\ p.len = 0
    <2>1. device[c].state = "asked" => device[c].sent = 0
      BY DEF DataInv, WireInv
    <2> QED BY <1>2, <1>5, <2>1, SaysClose
  <1>6. CASE device[c].state = "unused" /\ n = [device[c] EXCEPT !.state = "offered"] /\ p.cmd = "OPEN" /\ p.len = 0
    BY <1>2, <1>6, SaysOffer
  <1>7. CASE Writes(c, p, n)
    BY <1>7, WritesData
  <1>8. CASE Acks(c, p, n)
    BY <1>8, AcksData
  <1> QED BY <1>3, <1>4, <1>5, <1>6, <1>7, <1>8

-----------------------------------------------------------------------------
(* Packets that arrive: without data.                                      *)

(* A packet that arrives is of one channel, and leaves the others alone.   *)
LEMMA ArriveData ==
    ASSUME BaseInv, BaseInv', DataInv, NEW p, Arrives(p), NEW c, c = p.remote, ReadInv', SpentInv', GotInv',
           \A q : q # c => ~Sending(q, "OKAY")',
           \A j \in Positions : table'[j].local # 0 /\ table'[j].remote # c =>
              table'[j] = table[j] /\ stored'[j] = stored[j] /\ got'[table[j].local] = got[table[j].local],
           \A j \in Positions : table'[j].local # 0 /\ table'[j].remote = c => SlotData(j)',
           \A q \in Ids : q # c /\ Awaited(q)' => Awaited(q) /\ ~Sending(q, "CLSE")',
           AwaitData(c)'
    PROVE  DataInv'
  <1>1. c \in Ids /\ p = in[1] /\ in # <<>> /\ in' = Tail(in) /\ UNCHANGED <<ack, scenario, device, desync, gone>>
        /\ call.pc = "recv" /\ InKept
    BY ArrivesIs DEF Arrives
  <1>2. ConnTypeOK /\ ConnTypeOK' /\ CreditsInv /\ WireInv
    BY DEF BaseInv, DataInv
  <1>3. ASSUME NEW q \in Ids, q # c PROVE Calm(q)
    <2>1. SameEnd(q) /\ SameOkay(q)
      BY <1>1, <1>3 DEF SameEnd, SameOkay, Sending
    <2>2. ~Carries(in[1], q)
      BY <1>1, <1>3 DEF Carries
    <2> QED BY <1>1, <1>2, <2>1, <2>2, CalmIs
  <1>4. WireInv'
    <2>1. \A q \in Ids : /\ device'[q].sent = device[q].sent
                         /\ device'[q].local = 0 \/ device'[q].state = "asked" => device'[q].sent = 0
                         /\ device'[q].state \in {"unused", "asked", "offered"} => device'[q].owes = 0
      BY <1>1, <1>2 DEF WireInv
    <2> QED BY <1>1, <1>2, <2>1, WireKept
  <1>5. CreditsInv'
    BY <1>1, <1>2, CreditsKept
  <1>6. Undoubted
    BY ArrivesIs, UndoubtedIs
  <1> QED BY <1>1, <1>3, <1>4, <1>5, <1>6, DataMoves

(* A connection that receives is in step, and no slot of it in doubt.      *)
LEMMA ArriveAt ==
    ASSUME BaseInv, NEW p, Arrives(p), NEW i, Live(i)
    PROVE  \E s, g, c, have : At(i, s, g, c, have)
  <1>1. ~Doubtful(i)
    BY ArrivesIs DEF Doubtful
  <1> QED BY <1>1, AtIs

(* A packet without data leaves the streams alone.                         *)
LEMMA ArriveKeeps ==
    ASSUME BaseInv, NEW p, Arrives(p), NEW c, p.cmd # "WRTE"
    PROVE  /\ \A have : CoverOK(c, have) => CoverOK(c, have)'
           /\ \A g, b : StreamOK(c, g, b) => StreamOK(c, g, b)'
           /\ \A flying, kept : RoomOK(c, flying, kept) => RoomOK(c, flying, kept)'
  <1>1. UNCHANGED <<ack, device>>
    BY DEF Arrives
  <1>2. /\ \A k \in DOMAIN in' : k \in Nat /\ k + 1 \in DOMAIN in /\ in'[k] = in[k + 1]
        /\ \A k \in DOMAIN in : in[k].cmd = "WRTE" => k - 1 \in DOMAIN in' /\ in'[k - 1] = in[k]
    <2>1. in[1] = p
      BY ArriveShift
    <2> QED BY <2>1, ArriveShift
  <1>3. ASSUME NEW have, CoverOK(c, have) PROVE CoverOK(c, have)'
    <2>1. have <= device'[c].sent
      BY <1>1, <1>3 DEF CoverOK
    <2>2. ASSUME NEW k \in DOMAIN in', in'[k].cmd = "WRTE", in'[k].remote = c PROVE have <= From(in'[k])
      <3>1. k + 1 \in DOMAIN in /\ in'[k] = in[k + 1]
        BY <1>2
      <3> QED BY <1>3, <2>2, <3>1 DEF CoverOK
    <2>3. ASSUME NEW j \in have + 1 .. device'[c].sent
          PROVE  \E k \in DOMAIN in' : in'[k].cmd = "WRTE" /\ in'[k].remote = c /\ From(in'[k]) < j /\ j <= To(in'[k])
      <3>1. PICK k \in DOMAIN in : in[k].cmd = "WRTE" /\ in[k].remote = c /\ From(in[k]) < j /\ j <= To(in[k])
        BY <1>1, <1>3, <2>3 DEF CoverOK
      <3>2. k - 1 \in DOMAIN in' /\ in'[k - 1] = in[k]
        BY <1>2, <3>1
      <3> QED BY <3>1, <3>2
    <2> QED BY <2>1, <2>2, <2>3 DEF CoverOK, From, To
  <1>4. ASSUME NEW g, NEW b, StreamOK(c, g, b) PROVE StreamOK(c, g, b)'
    <2>1. Grows(b)'
      BY <1>4 DEF Grows, StreamOK
    <2>2. ASSUME NEW m \in DOMAIN in', in'[m].cmd = "WRTE", in'[m].remote = c
          PROVE  /\ \A k \in DOMAIN g : g[k][2] <= From(in'[m])
                 /\ \A k \in DOMAIN b : b[k][2] <= From(in'[m])
      <3>1. m + 1 \in DOMAIN in /\ in'[m] = in[m + 1]
        BY <1>2, <2>2
      <3> QED BY <1>4, <2>2, <3>1 DEF StreamOK
    <2> QED BY <1>1, <1>4, <2>1, <2>2 DEF StreamOK, From
  <1>5. ASSUME NEW flying, NEW kept, RoomOK(c, flying, kept) PROVE RoomOK(c, flying, kept)'
    <2>1. ack' = ack /\ rx_cap' = rx_cap /\ rx_watermark' = rx_watermark
      BY <1>1 DEF rx_cap, rx_watermark, rx_ceiling
    <2>2. OneWrite(c) => OneWrite(c)'
      <3> SUFFICES ASSUME OneWrite(c), NEW k \in DOMAIN in', NEW m \in DOMAIN in', in'[k].cmd = "WRTE",
                          in'[m].cmd = "WRTE", in'[k].remote = c, in'[m].remote = c
                   PROVE  k = m
        BY DEF OneWrite
      <3>1. k + 1 = m + 1
        BY <1>2 DEF OneWrite
      <3>2. k \in Nat /\ m \in Nat
        BY <1>2
      <3> QED BY <3>1, <3>2
    <2> QED BY <1>5, <2>1, <2>2 DEF RoomOK
  <1> QED BY <1>3, <1>4, <1>5

(* What a READY brings moves from the wire to the slot.                    *)
LEMMA ArriveCredits ==
    ASSUME BaseInv, DataInv, NEW p, Arrives(p), ~Shorts, NEW c \in Ids
    PROVE  /\ Sum(Credits(c)) = Sum(Credits(c))' + Above(Brings(p, c))
           /\ Sum(Credits(c)) \in Nat /\ Sum(Credits(c))' \in Nat /\ p.len >= 0
  <1>1. in \in Seq(Inbound) /\ in # <<>> /\ in' = Tail(in) /\ ack' = ack /\ p = in[1] /\ 1 \in DOMAIN in
    BY ArrivesIs DEF BaseInv, ConnTypeOK, Arrives
  <1>2. IsFiniteSet(Units(Credits(c))) /\ p.len >= 0
    BY <1>1 DEF DataInv, CreditsInv
  <1>3. IsFiniteSet(Units(Credits(c))') /\ Sum(Credits(c)) = Sum(Credits(c))' + Above(Brings(p, c))
    BY <1>1, <1>2, CreditsTail
  <1>4. Sum(Credits(c)) \in Nat
    BY <1>2, SumNat
  <1>5. Sum(Credits(c))' \in Nat
    <2>1. IsFiniteSet(Units(Credits(c)')) => Cardinality(Units(Credits(c)')) \in Nat
      BY FS_CardinalityType
    <2> QED BY <1>3, <2>1 DEF Sum, Units
  <1> QED BY <1>2, <1>3, <1>4, <1>5

(* A slot whose channel gets a packet without data.                        *)
CreditMoves(c, s, t) == \A flying \in Int : CreditOK(c, flying, s.unacked) => CreditOK(c, flying, t.unacked)'
SameBuffer(s, t) == SameChannel(s, t) /\ t.rx_buf = s.rx_buf /\ t.settled = s.settled
(* A slot still fits after a packet without data, once its budget does.    *)
LEMMA BareFits ==
    ASSUME BaseInv, DataInv, NEW p, Arrives(p), NEW i, NEW s, NEW g, NEW c, NEW have, At(i, s, g, c, have),
           p.cmd # "WRTE", NEW t, SameBuffer(s, t), NEW b, b = stored[i],
           DebtOK(t)', CreditMoves(c, s, t), ~Shorts => BudgetOK(c, t.send_budget, t.wrte_acked)'
    PROVE  Fits(t, g, b, c, have)'
  <1>1. Parts(i, s, g, c, have)
    BY PartsAre
  <1>2. /\ StreamOK(c, g, b) /\ (~Overruns => NoGap(g, b)) /\ (~Overruns => CoverOK(c, have))
        /\ c \in Ids /\ s.rx_buf \in Nat /\ Len(g) \in Nat /\ have \in Nat /\ device[c].sent \in Nat
    BY <1>1 DEF Parts
  <1>3. s.remote = c /\ have = Len(g) + s.rx_buf
    BY DEF At
  <1>4. t.remote = c /\ t.rx_buf = s.rx_buf /\ held(t) = held(s) /\ held(t)' = held(t)
    BY <1>3 DEF SameBuffer, SameChannel, held
  <1>5. UNCHANGED <<ack, scenario, device, desync>>
    BY DEF Arrives
  <1>6. Overruns' = Overruns /\ Shorts' = Shorts
    BY <1>5, TypesKept
  <1>7. StreamOK(c, g, b)' /\ (~Overruns => CoverOK(c, have)')
    BY <1>2, ArriveKeeps
  <1>8. (~Overruns => NoGap(g, b))'
    BY <1>2, <1>6 DEF NoGap
  <1>9. ASSUME ~Overruns, ~desync
        PROVE  RoomOK(c, device[c].sent - have, held(t))' /\ CreditOK(c, device[c].sent - have, t.unacked)'
    <2>1. PICK flying, kept : flying = device[c].sent - have /\ kept = held(s)
      OBVIOUS
    <2>2. flying \in Int
      BY <1>2, <2>1
    <2>3. RoomOK(c, flying, kept) /\ CreditOK(c, flying, s.unacked)
      BY <1>1, <1>9, <2>1 DEF Parts
    <2>4. RoomOK(c, flying, kept)'
      BY <2>3, ArriveKeeps
    <2>5. CreditOK(c, flying, t.unacked)'
      BY <2>2, <2>3 DEF CreditMoves
    <2>6. flying = device'[c].sent - have /\ kept = held(t)'
      BY <1>4, <1>5, <2>1
    <2> QED BY <2>4, <2>5, <2>6 DEF RoomOK, CreditOK
  <1>10. PlaceOK(c, have, held(t), t.unacked, t.send_budget, t.wrte_acked)'
    BY <1>5, <1>6, <1>7, <1>9 DEF PlaceOK
  <1>11. Len(g) + t.rx_buf = have
    BY <1>3, <1>4
  <1> QED BY <1>4, <1>7, <1>8, <1>10, <1>11 DEF Fits

(* apply_ready.                                                            *)
LEMMA ReadyFits ==
    ASSUME BaseInv, DataInv, NEW p, Arrives(p), NEW i, NEW s, NEW g, NEW c, NEW have, At(i, s, g, c, have), c = p.remote,
           p.cmd = "READY", NEW t, t = apply_ready(s, p.len), NEW b, b = stored[i], ~Sending(c, "OKAY")'
    PROVE  Fits(t, g, b, c, have)'
  <1>1. Parts(i, s, g, c, have)
    BY PartsAre
  <1>2. s \in Slots /\ c \in Ids /\ s.remote = c /\ s.ack = ack /\ p.len \in Int /\ DebtOK(s) /\ s.send_budget \in Int
        /\ device[c].owes \in Nat
    <2>1. s \in Slots /\ c \in Ids /\ DebtOK(s) /\ device[c].owes \in Nat
      BY <1>1 DEF Parts
    <2>2. s.remote = c /\ s.ack = ack
      BY LiveIs DEF At
    <2>3. p.len \in Int
      BY ArrivesIs
    <2>4. s.send_budget \in Int
      BY <2>1 DEF Slots
    <2> QED BY <2>1, <2>2, <2>3, <2>4
  <1>3. /\ SameChannel(s, t) /\ t.state = s.state /\ t.unacked = s.unacked /\ t.rx_buf = s.rx_buf /\ t.settled = s.settled
        /\ IF ack = "Delayed" THEN t.send_budget = s.send_budget + p.len /\ t.wrte_acked = s.wrte_acked
           ELSE t.send_budget = s.send_budget /\ t.wrte_acked
    <2>1. PICK n \in Int : n = p.len
      BY <1>2
    <2>2. s \in Slots /\ t = apply_ready(s, n)
      BY <1>2, <2>1
    <2>3. SameChannel(s, t) /\ t.state = s.state /\ t.unacked = s.unacked /\ t.rx_buf = s.rx_buf /\ t.settled = s.settled
      BY <2>2, ReadySlotIs
    <2>4. IF s.ack = "Delayed" THEN t.send_budget = s.send_budget + n /\ t.wrte_acked = s.wrte_acked
          ELSE t.send_budget = s.send_budget /\ t.wrte_acked
      BY <2>2, ReadySlotIs
    <2> QED BY <1>2, <2>1, <2>3, <2>4
  <1>4. UNCHANGED <<ack, device, gone>> /\ call.pc = "recv"
    BY DEF Arrives
  <1>5. DebtOK(t)'
    <2>1. held(t)' = held(s) /\ rx_watermark' = rx_watermark /\ t.remote = c
      BY <1>2, <1>3 DEF held, rx_watermark, rx_ceiling, rx_cap, SameChannel
    <2> QED BY <1>2, <1>3, <1>4, <2>1 DEF DebtOK
  <1>6. CreditMoves(c, s, t)
    <2>1. ~Sending(c, "OKAY") /\ advertised_ack_bytes' = advertised_ack_bytes
      BY <1>4 DEF Sending, advertised_ack_bytes
    <2> QED BY <1>3, <1>4, <2>1 DEF CreditMoves, CreditOK, One
  <1>7. ASSUME ~Shorts PROVE BudgetOK(c, t.send_budget, t.wrte_acked)'
    <2>1. BudgetOK(c, s.send_budget, s.wrte_acked)
      BY <1>1, <1>7, ArrivesIs DEF Parts
    <2>2. PICK total, now, len, owes : total = Sum(Credits(c)) /\ now = Sum(Credits(c))' /\ len = p.len /\ owes = device[c].owes
      OBVIOUS
    <2>3. total = now + (IF ack = "Delayed" THEN len ELSE 1) /\ total \in Nat /\ now \in Nat /\ len \in Int /\ len >= 0
      <3>1. Above(Brings(p, c)) = IF ack = "Delayed" THEN len ELSE 1
        <4>1. len >= 0
          BY <1>2, <1>7, <2>2, ArriveCredits
        <4> QED BY <1>2, <2>2, <4>1 DEF Above, Brings
      <3> QED BY <1>2, <1>7, <2>2, <3>1, ArriveCredits
    <2> SUFFICES ASSUME device[c].state = "open", ~gone
                 PROVE  IF ack = "Delayed" THEN t.send_budget >= 0 /\ t.send_budget + now + owes = Grant
                        ELSE One(t.wrte_acked) + now + One(owes > 0) = 1
      BY <1>4, <2>2 DEF BudgetOK, One
    <2>4. IF ack = "Delayed" THEN s.send_budget >= 0 /\ s.send_budget + total + owes = Grant
          ELSE One(s.wrte_acked) + total + One(owes > 0) = 1
      BY <2>1, <2>2 DEF BudgetOK
    <2>5. CASE ack = "Delayed"
      BY <1>2, <1>3, <2>2, <2>3, <2>4, <2>5
    <2>6. CASE ack # "Delayed"
      <3>1. One(s.wrte_acked) \in {0, 1} /\ One(owes > 0) \in {0, 1} /\ One(t.wrte_acked) = 1
        BY <1>3, <2>6 DEF One
      <3> QED BY <2>3, <2>4, <2>6, <3>1
    <2> QED BY <2>5, <2>6
  <1>8. SameBuffer(s, t)
    BY <1>3 DEF SameBuffer
  <1> QED BY <1>5, <1>6, <1>7, <1>8, BareFits

(* A READY that is too short.                                              *)
LEMMA ShortFits ==
    ASSUME BaseInv, DataInv, NEW p, Arrives(p), NEW i, NEW s, NEW g, NEW c, NEW have, At(i, s, g, c, have), c = p.remote,
           p.cmd = "READY", ready_is_short(s, p.len), NEW b, b = stored[i], ~Sending(c, "OKAY")'
    PROVE  Fits(s, g, b, c, have)'
  <1>1. Parts(i, s, g, c, have)
    BY PartsAre
  <1>2. DebtOK(s) /\ c \in Ids /\ s.remote = c
    BY <1>1 DEF Parts, At
  <1>3. UNCHANGED <<ack, device, gone>> /\ call.pc = "recv"
    BY DEF Arrives
  <1>4. Shorts
    <2>1. p.len = -1
      BY DEF ready_is_short, ShortPayload
    <2> QED BY <1>2, <2>1, ArriveCredits
  <1>5. DebtOK(s)'
    <2>1. held(s)' = held(s) /\ rx_watermark' = rx_watermark
      BY DEF held, rx_watermark, rx_ceiling, rx_cap
    <2> QED BY <1>2, <1>3, <2>1 DEF DebtOK
  <1>6. CreditMoves(c, s, s)
    <2>1. ~Sending(c, "OKAY") /\ advertised_ack_bytes' = advertised_ack_bytes
      BY <1>3 DEF Sending, advertised_ack_bytes
    <2> QED BY <1>3, <2>1 DEF CreditMoves, CreditOK, One
  <1>7. SameBuffer(s, s)
    BY DEF SameBuffer, SameChannel
  <1> QED BY <1>4, <1>5, <1>6, <1>7, BareFits

(* apply_close.                                                            *)
LEMMA CloseFits ==
    ASSUME BaseInv, DataInv, NEW p, Arrives(p), NEW i, NEW s, NEW g, NEW c, NEW have, At(i, s, g, c, have), c = p.remote,
           p.cmd = "CLSE", NEW t, t = apply_close(s), NEW b, b = stored[i]
    PROVE  Fits(t, g, b, c, have)'
  <1>1. s \in Slots /\ s.remote = c
    BY LiveIs DEF At
  <1>2. SameChannel(s, t) /\ t.state = "Closed" /\ t.rx_buf = s.rx_buf /\ t.settled = s.settled
    BY <1>1, CloseSlotIs
  <1>3. device[c].state = "closed" /\ device' = device
    <2>1. PacketOK(p)
      BY ArrivesIs
    <2> QED BY <2>1 DEF PacketOK, Arrives
  <1>4. DebtOK(t)'
    BY <1>1, <1>2, <1>3 DEF DebtOK, SameChannel
  <1>5. CreditMoves(c, s, t) /\ BudgetOK(c, t.send_budget, t.wrte_acked)'
    BY <1>3 DEF CreditMoves, CreditOK, BudgetOK
  <1>6. SameBuffer(s, t)
    BY <1>2 DEF SameBuffer
  <1> QED BY <1>4, <1>5, <1>6, BareFits

-----------------------------------------------------------------------------
(* Packets that arrive: data.                                              *)

(* The WRTE that arrives is the next piece of its channel's stream.        *)
Fronts(c, p) ==
    /\ From(p) \in Nat /\ Len(p.data) \in Nat \ {0} /\ Len(p.data) <= MaxPayload
    /\ p.data \in Seq(Bytes) /\ DOMAIN p.data = 1 .. Len(p.data)
    /\ To(p) = From(p) + Len(p.data) /\ To(p) <= device[c].sent
    /\ \A j \in DOMAIN p.data : j \in Nat /\ p.data[j][1] = c /\ p.data[j][2] = From(p) + j
    /\ \A k \in DOMAIN in' : in'[k].cmd = "WRTE" /\ in'[k].remote = c => To(p) <= From(in'[k])
(* The first WRTE on the wire is its channel's first in flight.            *)
LEMMA FrontIs ==
    ASSUME BaseInv, DataInv, NEW p, Arrives(p), p.cmd = "WRTE", NEW c, c = p.remote
    PROVE  Fronts(c, p)
  <1>1. p = in[1] /\ 1 \in DOMAIN in /\ p.data \in Seq(Bytes) /\ MaxPayload \in Nat \ {0}
    BY ArrivesIs, Limits
  <1>2. WireInv
    BY DEF DataInv
  <1>3. PieceOK(p)
    BY <1>1, <1>2 DEF WireInv
  <1>4. /\ Len(p.data) \in 1 .. MaxPayload /\ From(p) >= 0 /\ To(p) <= device[c].sent
        /\ \A j \in DOMAIN p.data : p.data[j] = <<c, From(p) + j>>
    BY <1>3 DEF PieceOK
  <1>5. DOMAIN p.data = 1 .. Len(p.data) /\ Len(p.data) \in Nat \ {0} /\ Len(p.data) <= MaxPayload
    BY <1>1, <1>4
  <1>6. p.data[1] \in Bytes
    BY <1>1, <1>5, ElementsOf
  <1>7. From(p) \in Nat
    BY <1>4, <1>6 DEF From, Bytes
  <1>8. To(p) = From(p) + Len(p.data)
    BY DEF To
  <1>9. ASSUME NEW k \in DOMAIN in', in'[k].cmd = "WRTE", in'[k].remote = c PROVE To(p) <= From(in'[k])
    <2>1. k + 1 \in DOMAIN in /\ k + 1 > 1 /\ in'[k] = in[k + 1]
      BY ArriveShift
    <2> QED BY <1>1, <1>2, <1>9, <2>1 DEF WireInv
  <1>10. \A j \in DOMAIN p.data : j \in Nat /\ p.data[j][1] = c /\ p.data[j][2] = From(p) + j
    BY <1>4, <1>5
  <1> QED BY <1>1, <1>4, <1>5, <1>7, <1>8, <1>9, <1>10 DEF Fronts

(* What is left of the stream after it.                                    *)
LEMMA CoverArrives ==
    ASSUME BaseInv, DataInv, NEW p, Arrives(p), p.cmd = "WRTE", NEW c, c = p.remote, NEW have \in Nat, CoverOK(c, have),
           NEW more, more = have + Len(p.data)
    PROVE  From(p) = have /\ CoverOK(c, more)' /\ more <= device[c].sent /\ more \in Nat
  <1>1. Fronts(c, p)
    BY FrontIs
  <1>2. PICK f, d : f = From(p) /\ d = Len(p.data)
    OBVIOUS
  <1>3. f \in Nat /\ d \in Nat \ {0} /\ To(p) = f + d /\ f + d <= device[c].sent /\ c \in Ids /\ device[c].sent \in Nat
    <2>1. c \in Ids
      BY ArrivesIs
    <2> QED BY <1>1, <1>2, <2>1, DeviceEndIs DEF Fronts
  <1>4. p = in[1] /\ 1 \in DOMAIN in /\ device' = device
    BY ArrivesIs DEF Arrives
  <1>5. have <= f
    BY <1>2, <1>4 DEF CoverOK
  <1>6. ASSUME NEW k \in DOMAIN in, k # 1, in[k].cmd = "WRTE", in[k].remote = c
        PROVE  f + d <= From(in[k])
    <2>1. k - 1 \in DOMAIN in' /\ in'[k - 1] = in[k]
      BY <1>6, ArriveShift
    <2> QED BY <1>1, <1>2, <1>3, <1>6, <2>1 DEF Fronts
  <1>7. ASSUME NEW k \in DOMAIN in, in[k].cmd = "WRTE", in[k].remote = c
        PROVE  From(in[k]) \in Int
    <2>1. in[k].data \in Seq(Bytes) /\ PieceOK(in[k])
      BY PacketTypes DEF BaseInv, DataInv, WireInv
    <2>2. 1 \in DOMAIN in[k].data
      BY <1>7, <2>1 DEF PieceOK
    <2>3. in[k].data[1] \in Bytes
      BY <2>1, <2>2, ElementsOf
    <2> QED BY <2>3 DEF From, Bytes
  <1>8. f = have
    <2> SUFFICES ASSUME f > have PROVE FALSE
      BY <1>3, <1>5
    <2>1. have + 1 \in have + 1 .. device[c].sent
      BY <1>3
    <2>2. PICK k \in DOMAIN in : in[k].cmd = "WRTE" /\ in[k].remote = c /\ From(in[k]) < have + 1 /\ have + 1 <= To(in[k])
      BY <2>1 DEF CoverOK
    <2>3. From(in[k]) \in Int
      BY <1>7, <2>2
    <2>4. k # 1
      BY <1>2, <1>3, <1>4, <2>2
    <2>5. f + d <= From(in[k])
      BY <1>6, <2>2, <2>4
    <2> QED BY <1>3, <2>2, <2>3, <2>5
  <1>9. more = f + d
    BY <1>2, <1>8
  <1>10. CoverOK(c, more)'
    <2>1. more <= device'[c].sent
      BY <1>3, <1>4, <1>9
    <2>2. \A k \in DOMAIN in' : in'[k].cmd = "WRTE" /\ in'[k].remote = c => more <= From(in'[k])
      BY <1>1, <1>3, <1>9 DEF Fronts
    <2>3. ASSUME NEW j \in more + 1 .. device'[c].sent
          PROVE  \E k \in DOMAIN in' : in'[k].cmd = "WRTE" /\ in'[k].remote = c /\ From(in'[k]) < j /\ j <= To(in'[k])
      <3>1. j \in have + 1 .. device[c].sent /\ j > f + d
        BY <1>3, <1>4, <1>8, <1>9, <2>3
      <3>2. PICK k \in DOMAIN in : in[k].cmd = "WRTE" /\ in[k].remote = c /\ From(in[k]) < j /\ j <= To(in[k])
        BY <3>1 DEF CoverOK
      <3>3. k # 1
        BY <1>3, <1>4, <3>1, <3>2
      <3>4. k - 1 \in DOMAIN in' /\ in'[k - 1] = in[k]
        BY <3>2, <3>3, ArriveShift
      <3> QED BY <3>2, <3>4
    <2> QED BY <2>1, <2>2, <2>3 DEF CoverOK, From, To
  <1> QED BY <1>2, <1>3, <1>8, <1>9, <1>10

(* What is read and buffered is before what is still in flight.            *)
LEMMA StreamTail ==
    ASSUME BaseInv, NEW p, Arrives(p), NEW c, NEW g, NEW b, StreamOK(c, g, b)
    PROVE  StreamOK(c, g, b)'
  <1>1. UNCHANGED device
    BY DEF Arrives
  <1>2. Grows(b)'
    BY DEF Grows, StreamOK
  <1>3. ASSUME NEW m \in DOMAIN in', in'[m].cmd = "WRTE", in'[m].remote = c
        PROVE  /\ \A k \in DOMAIN g : g[k][2] <= From(in'[m])
               /\ \A k \in DOMAIN b : b[k][2] <= From(in'[m])
    <2>1. m + 1 \in DOMAIN in /\ in'[m] = in[m + 1]
      BY <1>3, ArriveShift
    <2> QED BY <1>3, <2>1 DEF StreamOK
  <1> QED BY <1>1, <1>2, <1>3 DEF StreamOK, From

(* With classic ACK there is at most one WRTE of a channel in flight, so   *)
(* none after it.                                                          *)
LEMMA OneTail ==
    ASSUME BaseInv, NEW p, Arrives(p), NEW c, OneWrite(c)
    PROVE  OneWrite(c)' /\ (p.cmd = "WRTE" /\ p.remote = c =>
                              \A k \in DOMAIN in' : in'[k].remote = c => in'[k].cmd # "WRTE")
  <1>1. p = in[1] /\ 1 \in DOMAIN in
    BY ArrivesIs
  <1>2. \A k \in DOMAIN in' : k \in Nat /\ k + 1 \in DOMAIN in /\ k + 1 > 1 /\ in'[k] = in[k + 1]
    BY ArriveShift
  <1>3. OneWrite(c)'
    <2> SUFFICES ASSUME NEW k \in DOMAIN in', NEW m \in DOMAIN in', in'[k].cmd = "WRTE",
                        in'[m].cmd = "WRTE", in'[k].remote = c, in'[m].remote = c
                 PROVE  k = m
      BY DEF OneWrite
    <2>1. k + 1 = m + 1
      BY <1>2 DEF OneWrite
    <2> QED BY <1>2, <2>1
  <1>4. ASSUME p.cmd = "WRTE", p.remote = c, NEW k \in DOMAIN in', in'[k].remote = c, in'[k].cmd = "WRTE" PROVE FALSE
    <2>1. k + 1 = 1
      BY <1>1, <1>2, <1>4 DEF OneWrite
    <2> QED BY <1>2, <2>1
  <1> QED BY <1>3, <1>4

(* The bytes that arrive join those of their channel.                      *)
LEMMA LaterNat ==
    ASSUME BaseInv, DataInv, NEW p, Arrives(p), NEW m \in DOMAIN in', in'[m].cmd = "WRTE"
    PROVE  From(in'[m]) \in Int
  <1>1. m + 1 \in DOMAIN in /\ in'[m] = in[m + 1]
    BY ArriveShift
  <1>2. PICK q : q = in[m + 1]
    OBVIOUS
  <1>3. q.data \in Seq(Bytes) /\ PieceOK(q) /\ q.cmd = "WRTE"
    BY <1>1, <1>2, PacketTypes DEF BaseInv, DataInv, WireInv
  <1>4. 1 \in DOMAIN q.data
    BY <1>3 DEF PieceOK
  <1>5. q.data[1] \in Bytes
    BY <1>3, <1>4, ElementsOf
  <1>6. From(q) \in Int
    BY <1>5 DEF From, Bytes
  <1> QED BY <1>1, <1>2, <1>6

(* What joins q are bytes of p: after all that q has, before all in flight.*)
Added(c, p, q, r) ==
    /\ r \in Seq(Bytes) /\ Len(r) = Len(q) + Len(p.data) /\ Len(q) \in Nat
    /\ \A k \in DOMAIN q : k \in Nat /\ k <= Len(q) /\ q[k][2] \in Int /\ q[k][2] <= From(p)
    /\ \A k \in DOMAIN r : k \in Nat /\ r[k][2] \in Int /\ r[k][2] <= To(p)
    /\ \A k \in DOMAIN r : \/ k \in DOMAIN q /\ r[k] = q[k]
                           \/ k > Len(q) /\ r[k][1] = c /\ r[k][2] = From(p) + (k - Len(q))
(* The bytes of a packet go on where those before them end.                *)
LEMMA AddedIs ==
    ASSUME BaseInv, DataInv, NEW p, Arrives(p), p.cmd = "WRTE", NEW c, c = p.remote,
           NEW q \in Seq(Bytes), \A k \in DOMAIN q : q[k][2] <= From(p), NEW r, Joins(q, p.data, r)
    PROVE  Added(c, p, q, r)
  <1>1. Fronts(c, p)
    BY FrontIs
  <1>2. PICK d, f, n : d = p.data /\ f = From(p) /\ n = Len(q)
    OBVIOUS
  <1>3. d \in Seq(Bytes) /\ f \in Nat /\ Len(d) \in Nat /\ To(p) = f + Len(d) /\ DOMAIN d = 1 .. Len(d)
        /\ \A j \in DOMAIN d : j \in Nat /\ d[j][1] = c /\ d[j][2] = f + j
    BY <1>1, <1>2 DEF Fronts
  <1>4. /\ r \in Seq(Bytes) /\ Len(r) = n + Len(d) /\ DOMAIN r = 1 .. n + Len(d) /\ n \in Nat /\ DOMAIN q = 1 .. n
        /\ \A k \in 1 .. n : r[k] = q[k]
        /\ \A k \in 1 .. n + Len(d) : k > n => k - n \in 1 .. Len(d) /\ r[k] = d[k - n]
    BY <1>2, <1>3, JoinIs
  <1>5. \A k \in DOMAIN q : k \in Nat /\ k <= n /\ q[k][2] \in Int /\ q[k][2] <= f
    <2> SUFFICES ASSUME NEW k \in DOMAIN q PROVE k \in Nat /\ k <= n /\ q[k][2] \in Int /\ q[k][2] <= f
      OBVIOUS
    <2>1. q[k] \in Bytes
      BY ElementsOf
    <2> QED BY <1>2, <1>4, <2>1 DEF Bytes
  <1>6. ASSUME NEW k \in DOMAIN r
        PROVE  /\ k \in Nat /\ r[k][2] \in Int /\ r[k][2] <= f + Len(d)
               /\ \/ k \in DOMAIN q /\ r[k] = q[k]
                  \/ k > n /\ r[k][1] = c /\ r[k][2] = f + (k - n)
    <2>1. k \in Nat /\ k > 0 /\ k <= n + Len(d)
      BY <1>3, <1>4
    <2>2. CASE k <= n
      <3>1. k \in DOMAIN q /\ r[k] = q[k]
        BY <1>4, <2>1, <2>2
      <3>2. q[k][2] \in Int /\ q[k][2] <= f
        BY <1>5, <3>1
      <3> QED BY <1>3, <2>1, <3>1, <3>2
    <2>3. CASE k > n
      <3>1. k - n \in 1 .. Len(d) /\ r[k] = d[k - n]
        BY <1>4, <2>3
      <3>2. d[k - n][1] = c /\ d[k - n][2] = f + (k - n)
        BY <1>3, <3>1
      <3>3. r[k][1] = c /\ r[k][2] = f + (k - n)
        BY <3>1, <3>2
      <3> QED BY <1>3, <1>4, <2>1, <2>3, <3>3
    <2> QED BY <1>4, <2>1, <2>2, <2>3
  <1> QED BY <1>2, <1>3, <1>4, <1>5, <1>6 DEF Added

(* The stream stays in order when the bytes are buffered.                  *)
LEMMA StreamBuffers ==
    ASSUME BaseInv, DataInv, NEW p, Arrives(p), p.cmd = "WRTE", NEW c, c = p.remote,
           NEW g \in Seq(Bytes), NEW b \in Seq(Bytes), StreamOK(c, g, b), NEW r, Joins(b, p.data, r)
    PROVE  StreamOK(c, g, r)' /\ Len(r) = Len(b) + Len(p.data)
           /\ (NoGap(g, b) /\ From(p) = Len(g) + Len(b) => NoGap(g, r))
  <1>1. Fronts(c, p) /\ device' = device
    BY FrontIs DEF Arrives
  <1>2. p = in[1] /\ 1 \in DOMAIN in /\ c \in Ids
    BY ArrivesIs
  <1>3. /\ \A k \in DOMAIN g : g[k][2] <= From(p)
        /\ \A k \in DOMAIN b : b[k][2] <= From(p)
    BY <1>2 DEF StreamOK
  <1>4. Added(c, p, b, r)
    BY <1>3, AddedIs
  <1>5. PICK f, t, n : f = From(p) /\ t = To(p) /\ n = Len(b)
    OBVIOUS
  <1>6. /\ f \in Nat /\ n \in Nat /\ t \in Nat /\ t <= device[c].sent /\ device[c].sent \in Nat
        /\ Len(g) \in Nat /\ Len(p.data) \in Nat /\ t = f + Len(p.data)
    BY <1>1, <1>2, <1>4, <1>5, DeviceEndIs DEF Fronts, Added
  <1>7. \A k \in DOMAIN r : /\ k \in Nat /\ r[k][2] \in Int /\ r[k][2] <= t
                            /\ \/ k \in DOMAIN b /\ r[k] = b[k]
                               \/ k > n /\ r[k][1] = c /\ r[k][2] = f + (k - n)
    BY <1>4, <1>5 DEF Added
  <1>8. \A k \in DOMAIN b : k \in Nat /\ k <= n /\ b[k][2] \in Int /\ b[k][2] <= f
    BY <1>4, <1>5 DEF Added
  <1>9. \A k \in DOMAIN r : r[k][1] = c
    BY <1>7 DEF StreamOK
  <1>10. Grows(r)
    <2> SUFFICES ASSUME NEW j \in DOMAIN r, NEW k \in DOMAIN r, j < k PROVE r[j][2] < r[k][2]
      BY DEF Grows
    <2>1. CASE k \in DOMAIN b /\ r[k] = b[k]
      <3>1. j \in DOMAIN b /\ r[j] = b[j]
        BY <1>6, <1>7, <1>8, <2>1
      <3> QED BY <2>1, <3>1 DEF StreamOK, Grows
    <2>2. CASE k > n /\ r[k][2] = f + (k - n)
      <3>1. CASE j \in DOMAIN b /\ r[j] = b[j]
        <4>1. r[j][2] \in Int /\ r[j][2] <= f
          BY <1>8, <3>1
        <4> QED BY <1>6, <1>7, <2>2, <4>1
      <3>2. CASE j > n /\ r[j][2] = f + (j - n)
        BY <1>6, <1>7, <2>2, <3>2
      <3> QED BY <1>7, <3>1, <3>2
    <2> QED BY <1>7, <2>1, <2>2
  <1>11. ASSUME NEW j \in DOMAIN g, NEW k \in DOMAIN r PROVE g[j][2] < r[k][2]
    <2>1. g[j] \in Bytes
      BY ElementsOf
    <2>2. g[j][2] \in Int /\ g[j][2] <= f
      BY <1>3, <1>5, <2>1 DEF Bytes
    <2>3. CASE k \in DOMAIN b /\ r[k] = b[k]
      BY <2>3 DEF StreamOK
    <2>4. CASE k > n /\ r[k][2] = f + (k - n)
      BY <1>6, <1>7, <2>2, <2>4
    <2> QED BY <1>7, <2>3, <2>4
  <1>12. \A k \in DOMAIN r : r[k][2] <= device'[c].sent
    BY <1>1, <1>6, <1>7
  <1>13. \A k \in DOMAIN g : g[k][2] <= device'[c].sent
    BY <1>1 DEF StreamOK
  <1>14. ASSUME NEW m \in DOMAIN in', in'[m].cmd = "WRTE", in'[m].remote = c
         PROVE  /\ \A k \in DOMAIN g : g[k][2] <= From(in'[m])
                /\ \A k \in DOMAIN r : r[k][2] <= From(in'[m])
    <2>1. m + 1 \in DOMAIN in /\ in'[m] = in[m + 1]
      BY <1>14, ArriveShift
    <2>2. \A k \in DOMAIN g : g[k][2] <= From(in'[m])
      BY <1>14, <2>1 DEF StreamOK
    <2>3. t <= From(in'[m]) /\ From(in'[m]) \in Int
      BY <1>1, <1>5, <1>14, LaterNat DEF Fronts
    <2>4. \A k \in DOMAIN r : r[k][2] <= From(in'[m])
      BY <1>6, <1>7, <2>3
    <2> QED BY <2>2, <2>4
  <1>15. StreamOK(c, g, r)'
    <2>1. Grows(r)'
      BY <1>10 DEF Grows
    <2> QED BY <1>9, <2>1, <1>11, <1>12, <1>13, <1>14 DEF StreamOK, From
  <1>16. ASSUME NoGap(g, b), From(p) = Len(g) + Len(b) PROVE NoGap(g, r)
    <2> SUFFICES ASSUME NEW k \in DOMAIN r PROVE r[k][2] = Len(g) + k
      BY DEF NoGap
    <2>1. CASE k \in DOMAIN b /\ r[k] = b[k]
      BY <1>16, <2>1 DEF NoGap
    <2>2. CASE k > n /\ r[k][2] = f + (k - n)
      <3>1. k \in Nat /\ f = Len(g) + n
        BY <1>5, <1>7, <1>16
      <3> QED BY <1>6, <2>2, <3>1
    <2> QED BY <1>7, <2>1, <2>2
  <1>17. Len(r) = Len(b) + Len(p.data)
    BY <1>4 DEF Added
  <1> QED BY <1>15, <1>16, <1>17

(* The stream stays in order when the bytes go straight to the reader.     *)
LEMMA StreamReads ==
    ASSUME BaseInv, DataInv, NEW p, Arrives(p), p.cmd = "WRTE", NEW c, c = p.remote,
           NEW g \in Seq(Bytes), NEW b, b = <<>>, StreamOK(c, g, b), Grows(g), NEW r, Joins(g, p.data, r)
    PROVE  StreamOK(c, r, b)' /\ Grows(r) /\ Len(r) = Len(g) + Len(p.data) /\ r \in Seq(Bytes)
           /\ \A k \in DOMAIN r : \/ k \in DOMAIN g /\ r[k] = g[k]
                                  \/ r[k][1] = c /\ (From(p) = Len(g) => r[k][2] = k)
  <1>1. Fronts(c, p) /\ device' = device
    BY FrontIs DEF Arrives
  <1>2. p = in[1] /\ 1 \in DOMAIN in /\ c \in Ids
    BY ArrivesIs
  <1>3. \A k \in DOMAIN g : g[k][2] <= From(p)
    BY <1>2 DEF StreamOK
  <1>4. Added(c, p, g, r)
    BY <1>3, AddedIs
  <1>5. PICK f, t, n : f = From(p) /\ t = To(p) /\ n = Len(g)
    OBVIOUS
  <1>6. /\ f \in Nat /\ n \in Nat /\ t \in Nat /\ t <= device[c].sent /\ device[c].sent \in Nat
        /\ Len(p.data) \in Nat /\ t = f + Len(p.data)
    BY <1>1, <1>2, <1>4, <1>5, DeviceEndIs DEF Fronts, Added
  <1>7. \A k \in DOMAIN r : /\ k \in Nat /\ r[k][2] \in Int /\ r[k][2] <= t
                            /\ \/ k \in DOMAIN g /\ r[k] = g[k]
                               \/ k > n /\ r[k][1] = c /\ r[k][2] = f + (k - n)
    BY <1>4, <1>5 DEF Added
  <1>8. \A k \in DOMAIN g : k \in Nat /\ k <= n /\ g[k][2] \in Int /\ g[k][2] <= f
    BY <1>4, <1>5 DEF Added
  <1>9. Grows(r)
    <2> SUFFICES ASSUME NEW j \in DOMAIN r, NEW k \in DOMAIN r, j < k PROVE r[j][2] < r[k][2]
      BY DEF Grows
    <2>1. CASE k \in DOMAIN g /\ r[k] = g[k]
      <3>1. j \in DOMAIN g /\ r[j] = g[j]
        BY <1>6, <1>7, <1>8, <2>1
      <3> QED BY <2>1, <3>1 DEF Grows
    <2>2. CASE k > n /\ r[k][2] = f + (k - n)
      <3>1. CASE j \in DOMAIN g /\ r[j] = g[j]
        <4>1. r[j][2] \in Int /\ r[j][2] <= f
          BY <1>8, <3>1
        <4> QED BY <1>6, <1>7, <2>2, <4>1
      <3>2. CASE j > n /\ r[j][2] = f + (j - n)
        BY <1>6, <1>7, <2>2, <3>2
      <3> QED BY <1>7, <3>1, <3>2
    <2> QED BY <1>7, <2>1, <2>2
  <1>10. DOMAIN b = {}
    OBVIOUS
  <1>11. \A k \in DOMAIN r : r[k][2] <= device'[c].sent
    BY <1>1, <1>6, <1>7
  <1>12. ASSUME NEW m \in DOMAIN in', in'[m].cmd = "WRTE", in'[m].remote = c
         PROVE  \A k \in DOMAIN r : r[k][2] <= From(in'[m])
    <2>1. t <= From(in'[m]) /\ From(in'[m]) \in Int
      BY <1>1, <1>5, <1>12, LaterNat DEF Fronts
    <2> QED BY <1>6, <1>7, <2>1
  <1>13. StreamOK(c, r, b)'
    <2>1. Grows(b)'
      BY <1>10 DEF Grows
    <2> QED BY <1>10, <1>11, <1>12, <2>1 DEF StreamOK, From
  <1>14. Len(r) = Len(g) + Len(p.data) /\ r \in Seq(Bytes)
    BY <1>4 DEF Added
  <1>15. ASSUME NEW k \in DOMAIN r
         PROVE  \/ k \in DOMAIN g /\ r[k] = g[k]
                \/ r[k][1] = c /\ (From(p) = Len(g) => r[k][2] = k)
    BY <1>5, <1>6, <1>7
  <1> QED BY <1>9, <1>13, <1>14, <1>15

(* The host's credit does not depend on data.                              *)
LEMMA BudgetArrives ==
    ASSUME BaseInv, DataInv, NEW p, Arrives(p), ~Shorts, NEW c \in Ids, p.cmd # "READY",
           NEW budget, NEW acked, BudgetOK(c, budget, acked)
    PROVE  BudgetOK(c, budget, acked)'
  <1>1. UNCHANGED <<ack, device, gone>>
    BY DEF Arrives
  <1>2. Above(Brings(p, c)) = 0
    BY DEF Above, Brings
  <1>3. Sum(Credits(c))' = Sum(Credits(c))
    BY <1>2, ArriveCredits
  <1> QED BY <1>1, <1>3 DEF BudgetOK

(* A device that keeps to its credit does not overflow the buffer.         *)
LEMMA NoOverflow ==
    ASSUME BaseInv, DataInv, NEW p, Arrives(p), p.cmd = "WRTE", NEW c, c = p.remote,
           NEW i, NEW s, NEW g, NEW have, At(i, s, g, c, have), ~Overruns
    PROVE  ~rx_overflows(s, Len(p.data))
  <1>1. Parts(i, s, g, c, have)
    BY PartsAre
  <1>2. ~desync
    BY ArrivesIs
  <1>3. PICK flying, kept, n, more : flying = device[c].sent - have /\ kept = held(s) /\ n = Len(p.data) /\ more = have + n
    OBVIOUS
  <1>4. RoomOK(c, flying, kept) /\ CoverOK(c, have) /\ have \in Nat /\ kept \in Nat /\ device[c].sent \in Nat
    BY <1>1, <1>2, <1>3 DEF Parts
  <1>5. more <= device[c].sent
    BY <1>3, <1>4, CoverArrives
  <1>6. n \in Nat \ {0} /\ n <= MaxPayload
    BY <1>3, FrontIs DEF Fronts
  <1>7. n <= flying /\ flying \in Nat /\ flying > 0
    BY <1>3, <1>4, <1>5, <1>6
  <1>8. kept + n <= rx_cap
    <2>1. CASE ack = "Delayed"
      <3>1. flying + kept <= rx_cap /\ rx_cap \in Nat
        BY <1>4, <2>1, Limits DEF RoomOK
      <3> QED BY <1>4, <1>6, <1>7, <3>1
    <2>2. CASE ack # "Delayed"
      <3>1. kept < rx_watermark
        BY <1>4, <1>7, <2>2 DEF RoomOK
      <3>2. rx_watermark <= rx_cap - MaxPayload + 1 /\ rx_watermark \in Nat /\ rx_cap \in Nat /\ MaxPayload \in Nat
        BY Limits
      <3> QED BY <1>4, <1>6, <3>1, <3>2
    <2> QED BY <2>1, <2>2
  <1>9. rx_cap \in Nat
    BY Limits
  <1> QED BY <1>3, <1>4, <1>6, <1>8, <1>9 DEF rx_overflows

(* The credit of the bytes that arrive is owed, or its OKAY is written.    *)
Absorbs(c, p, s, kept, debt) ==
    /\ kept \in Nat /\ debt \in Nat
    /\ IF ack = "Delayed"
       THEN /\ kept <= held(s) + Len(p.data)
            /\ debt + (IF Sending(c, "OKAY")' THEN call'.frame.len ELSE 0) = s.unacked + Len(p.data)
       ELSE One(debt > 0) + One(Sending(c, "OKAY")') = 1
(* Room and credit after the bytes arrived.                                *)
LEMMA PlaceArrives ==
    ASSUME BaseInv, BaseInv', DataInv, NEW p, Arrives(p), p.cmd = "WRTE", NEW c, c = p.remote,
           NEW i, NEW s, NEW g, NEW have, At(i, s, g, c, have), ~Overruns,
           NEW kept, NEW debt, Absorbs(c, p, s, kept, debt), NEW more, more = have + Len(p.data),
           NEW flying, flying = device'[c].sent - more
    PROVE  RoomOK(c, flying, kept)' /\ CreditOK(c, flying, debt)'
  <1>1. Parts(i, s, g, c, have)
    BY PartsAre
  <1>2. ~desync /\ c \in Ids
    BY ArrivesIs
  <1>3. UNCHANGED <<ack, device, gone>> /\ call.pc = "recv"
    BY DEF Arrives
  <1>4. PICK before, n, okay : /\ before = device[c].sent - have /\ n = Len(p.data)
                               /\ okay = (IF Sending(c, "OKAY")' THEN call'.frame.len ELSE 0)
    OBVIOUS
  <1>5. RoomOK(c, before, held(s)) /\ CreditOK(c, before, s.unacked) /\ CoverOK(c, have)
    BY <1>1, <1>2, <1>4 DEF Parts
  <1>6. have \in Nat /\ held(s) \in Nat /\ s.unacked \in Nat /\ device[c].sent \in Nat /\ device[c].asb \in Int
    BY <1>1 DEF Parts
  <1>7. more <= device[c].sent /\ more \in Nat /\ CoverOK(c, more)'
    BY <1>5, <1>6, CoverArrives
  <1>8. n \in Nat \ {0}
    BY <1>4, FrontIs DEF Fronts
  <1>9. flying = before - n /\ flying \in Nat /\ before \in Nat /\ before > 0
    <2>1. PICK total : total = device[c].sent
      OBVIOUS
    <2>2. flying = total - more /\ more = have + n /\ before = total - have /\ total \in Nat /\ have \in Nat /\ more <= total
      BY <1>3, <1>4, <1>6, <1>7, <2>1
    <2> QED BY <1>8, <2>2
  <1>10. okay \in Nat
    <2>1. call'.frame.len \in Nat
      BY DEF BaseInv, ConnTypeOK, CallStates, Frames
    <2> QED BY <1>4, <2>1
  <1>11. ~Sending(c, "OKAY") /\ advertised_ack_bytes' = advertised_ack_bytes /\ rx_cap' = rx_cap /\ rx_watermark' = rx_watermark
    BY <1>3 DEF Sending, advertised_ack_bytes, rx_cap, rx_watermark, rx_ceiling
  <1>12. CASE ack = "Delayed"
    <2>1. kept \in Nat /\ debt \in Nat /\ kept <= held(s) + n /\ debt + okay = s.unacked + n
      BY <1>4, <1>12 DEF Absorbs
    <2>2. before + held(s) <= rx_cap /\ rx_cap \in Nat
      BY <1>5, <1>12, Limits DEF RoomOK
    <2>3. flying + kept <= rx_cap
      BY <1>6, <1>8, <1>9, <2>1, <2>2
    <2>4. RoomOK(c, flying, kept)'
      BY <1>3, <1>11, <1>12, <2>3 DEF RoomOK
    <2>5. ASSUME device[c].state \in {"asked", "open"}, ~gone
          PROVE  device[c].asb + flying + debt + okay = advertised_ack_bytes
      <3>1. device[c].asb + before + s.unacked + 0 = advertised_ack_bytes
        BY <1>5, <1>11, <1>12, <2>5 DEF CreditOK
      <3>2. advertised_ack_bytes \in Nat
        BY Limits
      <3>3. PICK left, owed, all : left = device[c].asb /\ owed = s.unacked /\ all = advertised_ack_bytes
        OBVIOUS
      <3>4. /\ left + before + owed + 0 = all /\ debt + okay = owed + n /\ flying = before - n
            /\ left \in Int /\ owed \in Nat /\ before \in Nat /\ n \in Nat /\ debt \in Nat /\ okay \in Nat
        BY <1>6, <1>8, <1>9, <1>10, <2>1, <3>1, <3>3
      <3>5. left + flying + debt + okay = all
        BY <3>4
      <3> QED BY <3>3, <3>5
    <2>6. CreditOK(c, flying, debt)'
      BY <1>3, <1>4, <1>11, <1>12, <2>5 DEF CreditOK
    <2> QED BY <2>4, <2>6
  <1>13. CASE ack # "Delayed"
    <2>1. One(debt > 0) + One(Sending(c, "OKAY")') = 1
      BY <1>13 DEF Absorbs
    <2>2. OneWrite(c)
      BY <1>5, <1>13 DEF RoomOK
    <2>3. OneWrite(c)' /\ \A k \in DOMAIN in' : in'[k].remote = c => in'[k].cmd # "WRTE"
      BY <2>2, OneTail
    <2>4. flying = 0
      <3> SUFFICES ASSUME flying # 0 PROVE FALSE
        OBVIOUS
      <3>1. more + 1 \in more + 1 .. device'[c].sent
        <4>1. PICK total : total = device'[c].sent
          OBVIOUS
        <4>2. total \in Nat /\ more \in Nat /\ flying = total - more /\ flying \in Nat
          BY <1>3, <1>6, <1>7, <1>9, <4>1
        <4> QED BY <4>1, <4>2
      <3>2. \E k \in DOMAIN in' : in'[k].cmd = "WRTE" /\ in'[k].remote = c
        BY <1>7, <3>1 DEF CoverOK
      <3> QED BY <2>3, <3>2
    <2>5. RoomOK(c, flying, kept)'
      BY <1>3, <1>13, <2>3, <2>4 DEF RoomOK
    <2>6. ASSUME device[c].state \in {"asked", "open"}, ~gone
          PROVE  device[c].asb = 0
      <3>1. device[c].asb >= 0 /\ device[c].asb + One(before > 0) + One(s.unacked > 0) + One(Sending(c, "OKAY")) = 1
        BY <1>5, <1>13, <2>6 DEF CreditOK
      <3>2. One(before > 0) = 1 /\ One(s.unacked > 0) \in {0, 1} /\ One(Sending(c, "OKAY")) \in {0, 1}
        BY <1>9 DEF One
      <3> QED BY <1>6, <3>1, <3>2
    <2>7. One(flying > 0) = 0
      BY <2>4 DEF One
    <2>8. One(debt > 0) \in {0, 1} /\ One(Sending(c, "OKAY")') \in {0, 1}
      BY DEF One
    <2>9. One(Sending(c, "OKAY"))' = One(Sending(c, "OKAY")')
      BY DEF One
    <2>10. CreditOK(c, flying, debt)'
      <3> SUFFICES ASSUME device[c].state \in {"asked", "open"}, ~gone
                   PROVE  /\ device[c].asb >= 0
                          /\ device[c].asb + One(flying > 0) + One(debt > 0) + One(Sending(c, "OKAY")') = 1
        BY <1>3, <1>13, <2>9 DEF CreditOK, One
      <3>1. device[c].asb = 0
        BY <2>6
      <3> QED BY <2>1, <2>7, <2>8, <3>1
    <2> QED BY <2>5, <2>10
  <1> QED BY <1>12, <1>13

(* A WRTE that the buffer has no room for is dropped.                      *)
LEMMA OverflowFits ==
    ASSUME BaseInv, DataInv, NEW p, Arrives(p), p.cmd = "WRTE", NEW c, c = p.remote,
           NEW i, NEW s, NEW g, NEW have, At(i, s, g, c, have), rx_overflows(s, Len(p.data)), NEW b, b = stored[i]
    PROVE  Fits(s, g, b, c, have)'
  <1>1. Parts(i, s, g, c, have)
    BY PartsAre
  <1>2. Overruns
    BY NoOverflow
  <1>3. DebtOK(s) /\ StreamOK(c, g, b) /\ c \in Ids
    BY <1>1 DEF Parts
  <1>4. UNCHANGED <<ack, scenario, device>>
    BY DEF Arrives
  <1>5. Overruns' /\ Shorts' = Shorts
    BY <1>2, <1>4, TypesKept
  <1>6. s.remote = c
    BY DEF At
  <1>7. DebtOK(s)'
    <2>1. held(s)' = held(s) /\ rx_watermark' = rx_watermark
      BY DEF held, rx_watermark, rx_ceiling, rx_cap
    <2> QED BY <1>3, <1>4, <2>1 DEF DebtOK
  <1>8. StreamOK(c, g, b)'
    BY <1>3, StreamTail
  <1>9. ~Shorts => BudgetOK(c, s.send_budget, s.wrte_acked)'
    BY <1>1, <1>3, ArrivesIs, BudgetArrives DEF Parts
  <1>10. PlaceOK(c, have, held(s), s.unacked, s.send_budget, s.wrte_acked)'
    BY <1>5, <1>9 DEF PlaceOK
  <1>11. Len(g) + s.rx_buf = have
    BY DEF At
  <1> QED BY <1>5, <1>6, <1>7, <1>8, <1>10, <1>11 DEF Fits

(* A place that takes in the bytes.                                        *)
TakesIn(s, g, b, t, g2, b2, p) ==
    /\ t.remote = s.remote /\ t.send_budget = s.send_budget /\ t.wrte_acked = s.wrte_acked
    /\ Len(g2) + t.rx_buf = Len(g) + s.rx_buf + Len(p.data)
(* A slot that takes the bytes in, or hands them on, fits.                 *)
LEMMA TakenInFits ==
    ASSUME BaseInv, BaseInv', DataInv, NEW p, Arrives(p), p.cmd = "WRTE", NEW c, c = p.remote,
           NEW i, NEW s, NEW g, NEW have, At(i, s, g, c, have), NEW b, b = stored[i],
           NEW t, NEW g2, NEW b2, TakesIn(s, g, b, t, g2, b2, p),
           DebtOK(t)', StreamOK(c, g2, b2)', ~Overruns => NoGap(g2, b2), NEW kept, kept = held(t),
           ~Overruns => Absorbs(c, p, s, kept, t.unacked), NEW more, more = have + Len(p.data)
    PROVE  Fits(t, g2, b2, c, more)'
  <1>1. Parts(i, s, g, c, have)
    BY PartsAre
  <1>2. c \in Ids /\ have \in Nat
    BY <1>1 DEF Parts
  <1>3. UNCHANGED <<ack, scenario, device>>
    BY DEF Arrives
  <1>4. Overruns' = Overruns /\ Shorts' = Shorts
    BY <1>3, TypesKept
  <1>5. t.remote = c /\ Len(g2) + t.rx_buf = more
    BY DEF At, TakesIn
  <1>6. ~Shorts => BudgetOK(c, t.send_budget, t.wrte_acked)'
    <2>1. PICK budget, acked : budget = s.send_budget /\ acked = s.wrte_acked
      OBVIOUS
    <2>2. budget = t.send_budget /\ acked = t.wrte_acked
      BY <2>1 DEF TakesIn
    <2>3. ~Shorts => BudgetOK(c, budget, acked)
      BY <1>1, <2>1, ArrivesIs DEF Parts
    <2>4. ~Shorts => BudgetOK(c, budget, acked)'
      BY <1>2, <2>3, BudgetArrives
    <2> QED BY <2>2, <2>4 DEF BudgetOK
  <1>7. ASSUME ~Overruns PROVE CoverOK(c, more)'
    BY <1>1, <1>2, <1>7, CoverArrives DEF Parts
  <1>8. ASSUME ~Overruns
        PROVE  RoomOK(c, device[c].sent - more, held(t))' /\ CreditOK(c, device[c].sent - more, t.unacked)'
    <2>1. PICK flying, debt : flying = device'[c].sent - more /\ debt = t.unacked
      OBVIOUS
    <2>2. Absorbs(c, p, s, kept, debt)
      BY <1>8, <2>1
    <2>3. RoomOK(c, flying, kept)' /\ CreditOK(c, flying, debt)'
      BY <1>8, <2>1, <2>2, PlaceArrives
    <2>4. held(t)' = kept
      BY DEF held
    <2> QED BY <2>1, <2>3, <2>4 DEF RoomOK, CreditOK
  <1>9. PlaceOK(c, more, held(t), t.unacked, t.send_budget, t.wrte_acked)'
    BY <1>3, <1>4, <1>6, <1>7, <1>8 DEF PlaceOK
  <1>10. (~Overruns => NoGap(g2, b2))'
    BY <1>4 DEF NoGap
  <1> QED BY <1>5, <1>9, <1>10 DEF Fits

(* apply_write.                                                            *)
OkayIf(x, c, n) == IF x THEN Sending(c, "OKAY")' /\ call'.frame.len = n ELSE ~Sending(c, "OKAY")'
(* apply_write: the bytes are buffered, and owed for or acknowledged at    *)
(* once.                                                                   *)
LEMMA WriteFits ==
    ASSUME BaseInv, BaseInv', DataInv, NEW p, Arrives(p), p.cmd = "WRTE", NEW c, c = p.remote,
           NEW i, NEW s, NEW g, NEW have, At(i, s, g, c, have), NEW b, b = stored[i],
           NEW t, t = apply_write(s, Len(p.data)), NEW b2, Joins(b, p.data, b2),
           OkayIf(acks_write_now(s, Len(p.data)), c, Len(p.data)), NEW more, more = have + Len(p.data)
    PROVE  Fits(t, g, b2, c, more)'
  <1>1. Parts(i, s, g, c, have)
    BY PartsAre
  <1>2. /\ s \in Slots /\ s.settled <= s.rx_buf /\ has_ids(s) /\ s.ack = ack /\ b \in Seq(Bytes) /\ Len(b) = s.rx_buf
        /\ s.state \in {"Open", "Closed"} /\ ack \in {"Classic", "Delayed"}
    <2>1. Live(i) /\ s = table[i]
      BY DEF At
    <2>2. ack \in {"Classic", "Delayed"}
      BY ConfigAssumption DEF BaseInv, ConnTypeOK
    <2> QED BY <2>1, <2>2, LiveIs
  <1>3. PICK n : n = Len(p.data)
    OBVIOUS
  <1>4. n \in Nat \ {0}
    BY <1>3, FrontIs DEF Fronts
  <1>5. /\ SameChannel(s, t) /\ SameBudget(s, t) /\ t.state = s.state /\ t.rx_buf = s.rx_buf + n
        /\ held(t) = held(s) + n /\ held(s) \in Nat
        /\ t.unacked = (IF s.ack = "Classic" /\ held(s) + n < rx_watermark THEN 0 ELSE s.unacked + n)
        /\ acks_write_now(s, n) <=> s.ack = "Classic" /\ held(s) + n < rx_watermark
    <2>1. n \in Nat /\ t = apply_write(s, n)
      BY <1>3, <1>4
    <2> QED BY <1>2, <2>1, WriteSlotIs
  <1>6. g \in Seq(Bytes) /\ StreamOK(c, g, b) /\ DebtOK(s) /\ s.unacked \in Nat /\ Len(g) \in Nat /\ s.rx_buf \in Nat /\ have \in Nat
    BY <1>1 DEF Parts
  <1>7. s.remote = c /\ have = Len(g) + s.rx_buf
    BY DEF At
  <1>8. /\ StreamOK(c, g, b2)' /\ (NoGap(g, b) /\ From(p) = Len(g) + Len(b) => NoGap(g, b2))
    BY <1>2, <1>6, StreamBuffers
  <1>9. ~Overruns => NoGap(g, b2)
    <2> SUFFICES ASSUME ~Overruns PROVE NoGap(g, b2)
      OBVIOUS
    <2>1. NoGap(g, b) /\ CoverOK(c, have)
      BY <1>1 DEF Parts
    <2>2. From(p) = have
      BY <1>6, <2>1, CoverArrives
    <2> QED BY <1>2, <1>7, <1>8, <2>1, <2>2
  <1>10. UNCHANGED <<ack, device>>
    BY DEF Arrives
  <1>11. DebtOK(t)'
    <2>1. held(t)' = held(t) /\ rx_watermark' = rx_watermark
      BY DEF held, rx_watermark, rx_ceiling, rx_cap
    <2>2. ASSUME s.state = "Open", ack = "Delayed" PROVE t.unacked = held(t)
      BY <1>2, <1>5, <1>6, <2>2 DEF DebtOK
    <2>3. ASSUME ack # "Delayed", t.unacked = 0 PROVE held(t) < rx_watermark
      BY <1>2, <1>4, <1>5, <1>6, <2>3
    <2> QED BY <1>5, <1>6, <1>7, <1>10, <2>1, <2>2, <2>3 DEF DebtOK, SameChannel
  <1>12. PICK kept : kept = held(t)
    OBVIOUS
  <1>13. Absorbs(c, p, s, kept, t.unacked)
    <2>1. OkayIf(acks_write_now(s, n), c, n)
      BY <1>3
    <2>2. kept \in Nat /\ t.unacked \in Nat
      BY <1>4, <1>5, <1>6, <1>12
    <2>3. CASE ack = "Delayed"
      <3>1. ~Sending(c, "OKAY")' /\ t.unacked = s.unacked + n /\ kept <= held(s) + n
        BY <1>2, <1>4, <1>5, <1>12, <2>1, <2>3 DEF OkayIf
      <3> QED BY <1>3, <1>4, <1>6, <2>2, <2>3, <3>1 DEF Absorbs
    <2>4. CASE ack # "Delayed"
      <3>1. CASE acks_write_now(s, n)
        <4>1. t.unacked = 0 /\ Sending(c, "OKAY")'
          BY <1>5, <2>1, <3>1 DEF OkayIf
        <4>2. One(t.unacked > 0) + One(Sending(c, "OKAY")') = 1
          BY <4>1 DEF One
        <4> QED BY <2>2, <2>4, <4>2 DEF Absorbs
      <3>2. CASE ~acks_write_now(s, n)
        <4>1. t.unacked > 0 /\ ~Sending(c, "OKAY")'
          BY <1>4, <1>5, <1>6, <2>1, <3>2 DEF OkayIf
        <4>2. One(t.unacked > 0) + One(Sending(c, "OKAY")') = 1
          BY <4>1 DEF One
        <4> QED BY <2>2, <2>4, <4>2 DEF Absorbs
      <3> QED BY <3>1, <3>2
    <2> QED BY <2>3, <2>4
  <1>14. TakesIn(s, g, b, t, g, b2, p)
    <2>1. Len(g) + t.rx_buf = Len(g) + s.rx_buf + Len(p.data)
      BY <1>3, <1>4, <1>5, <1>6
    <2> QED BY <1>5, <2>1 DEF TakesIn, SameChannel, SameBudget
  <1> QED BY <1>8, <1>9, <1>11, <1>12, <1>13, <1>14, TakenInFits

(* The bytes of a packet that goes straight to the reader.                 *)
Reads(s, g, r, p) ==
    /\ Joins(g, p.data, r) /\ got'[s.local] = r /\ handles' = handles
    /\ \A l \in 1 .. MaxLocal : l # s.local => got'[l] = got[l]
    /\ \E h \in handles : h.local = s.local
Handed(i, s, g, c, have, b, r, p) ==
    /\ p.cmd = "WRTE" /\ c = p.remote /\ At(i, s, g, c, have) /\ s.rx_buf = 0 /\ b = stored[i]
    /\ Reads(s, g, r, p)
(* What is delivered follows what was read before.                         *)
LEMMA GotDelivered ==
    ASSUME BaseInv, DataInv, NEW p, Arrives(p), NEW i, NEW s, NEW g, NEW c, NEW have, NEW b, NEW r,
           Handed(i, s, g, c, have, b, r, p)
    PROVE  GotInv' /\ StreamOK(c, r, b)' /\ Len(r) = Len(g) + Len(p.data) /\ b = <<>>
  <1> p.cmd = "WRTE" /\ c = p.remote /\ At(i, s, g, c, have) /\ s.rx_buf = 0 /\ b = stored[i] /\ Reads(s, g, r, p)
    BY DEF Handed
  <1>1. Parts(i, s, g, c, have) /\ GotInv
    BY PartsAre DEF DataInv
  <1>2. Live(i) /\ s = table[i] /\ g = got[s.local] /\ have = Len(g) + s.rx_buf /\ s.remote = c
    BY DEF At
  <1>3. s.local \in 1 .. MaxLocal /\ b \in Seq(Bytes) /\ Len(b) = 0
    BY <1>2, LiveIs
  <1>4. b = <<>>
    BY <1>3
  <1>5. g \in Seq(Bytes) /\ StreamOK(c, g, b) /\ Len(g) \in Nat /\ have \in Nat /\ (~Overruns => CoverOK(c, have))
    BY <1>1 DEF Parts
  <1>6. PICK h \in handles : h.local = s.local
    BY DEF Reads
  <1>7. h.remote = c /\ \A e \in handles : e.local = s.local => e.remote = c
    BY <1>2, <1>6 DEF BaseInv, IdsInv, HandlesInv, Live
  <1>8. (\A k \in DOMAIN g : g[k][1] = c) /\ Grows(g) /\ (~Overruns => \A k \in DOMAIN g : g[k][2] = k)
    <2>1. \A k \in DOMAIN g : g[k][1] = c
      BY <1>1, <1>2, <1>6, <1>7 DEF GotInv
    <2>2. Grows(g)
      BY <1>1, <1>2, <1>6 DEF GotInv
    <2>3. ~Overruns => \A k \in DOMAIN g : g[k][2] = k
      BY <1>1, <1>2, <1>6 DEF GotInv
    <2> QED BY <2>1, <2>2, <2>3
  <1>9. Joins(g, p.data, r)
    BY DEF Reads
  <1>10. /\ StreamOK(c, r, b)' /\ Grows(r) /\ Len(r) = Len(g) + Len(p.data)
         /\ \A k \in DOMAIN r : \/ k \in DOMAIN g /\ r[k] = g[k]
                                \/ r[k][1] = c /\ (From(p) = Len(g) => r[k][2] = k)
    BY <1>4, <1>5, <1>8, <1>9, StreamReads
  <1>11. ~Overruns => From(p) = Len(g)
    <2>1. PICK more : more = have + Len(p.data)
      OBVIOUS
    <2>2. ~Overruns => From(p) = have
      BY <1>5, <2>1, CoverArrives
    <2>3. have = Len(g)
      BY <1>2, <1>5
    <2> QED BY <2>2, <2>3
  <1>12. \A k \in DOMAIN r : r[k][1] = c /\ (~Overruns => r[k][2] = k)
    BY <1>8, <1>10, <1>11
  <1>13. GotInv'
    <2>1. Overruns' = Overruns
      BY TypesKept DEF Arrives
    <2>2. /\ got'[s.local] = r /\ handles' = handles
          /\ \A l \in 1 .. MaxLocal : l # s.local => got'[l] = got[l]
      BY DEF Reads
    <2>3. ASSUME NEW e \in handles' PROVE
            /\ \A k \in DOMAIN got'[e.local] : got'[e.local][k][1] = e.remote
            /\ Grows(got[e.local])'
            /\ ~Overruns => \A k \in DOMAIN got'[e.local] : got'[e.local][k][2] = k
      <3>1. CASE e.local = s.local
        BY <1>7, <1>10, <1>12, <2>2, <3>1 DEF Grows
      <3>2. CASE e.local # s.local
        <4>1. got'[e.local] = got[e.local]
          BY <2>2, <3>2, ChannelOf DEF BaseInv
        <4> QED BY <1>1, <2>2, <4>1 DEF GotInv, Grows
      <3> QED BY <3>1, <3>2
    <2>4. \A l \in 1 .. MaxLocal : (\A e \in handles' : e.local # l) => got'[l] = <<>>
      BY <1>1, <1>6, <2>2 DEF GotInv
    <2> QED BY <2>1, <2>3, <2>4 DEF GotInv
  <1> QED BY <1>4, <1>10, <1>13

(* deliver.                                                                *)
Delivered(s, t) ==
    /\ SameChannel(s, t) /\ SameBudget(s, t) /\ t.state = s.state /\ t.rx_buf = s.rx_buf
    /\ held(t) = held(s) /\ t.unacked = (IF ack = "Delayed" THEN s.unacked ELSE 0)
(* deliver: the bytes are read and their OKAY is about to be written.      *)
LEMMA DeliverFits ==
    ASSUME BaseInv, BaseInv', DataInv, NEW p, Arrives(p), NEW i, NEW s, NEW g, NEW c, NEW have, NEW b, NEW r,
           Handed(i, s, g, c, have, b, r, p), NEW t, Delivered(s, t), Sending(c, "OKAY")',
           ack = "Delayed" => call'.frame.len = Len(p.data), NEW more, more = have + Len(p.data)
    PROVE  Fits(t, r, b, c, more)'
  <1>0. p.cmd = "WRTE" /\ c = p.remote /\ At(i, s, g, c, have) /\ s.rx_buf = 0 /\ b = stored[i]
    BY DEF Handed
  <1>1. Parts(i, s, g, c, have)
    BY <1>0, PartsAre
  <1>2. DebtOK(s) /\ held(s) \in Nat /\ s.unacked \in Nat /\ Len(g) \in Nat
    BY <1>1 DEF Parts
  <1>3. StreamOK(c, r, b)' /\ Len(r) = Len(g) + Len(p.data) /\ b = <<>>
    BY GotDelivered
  <1>4. Len(p.data) \in Nat
    BY <1>0, FrontIs DEF Fronts
  <1>5. /\ t.state = s.state /\ t.rx_buf = s.rx_buf /\ held(t) = held(s) /\ t.remote = s.remote
        /\ t.send_budget = s.send_budget /\ t.wrte_acked = s.wrte_acked
        /\ t.unacked = (IF ack = "Delayed" THEN s.unacked ELSE 0)
    BY DEF Delivered, SameChannel, SameBudget
  <1>6. ~Overruns => NoGap(r, b)
    BY <1>3 DEF NoGap
  <1>7. held(t) = 0
    <2>1. s \in Slots /\ s.settled <= s.rx_buf
      BY <1>0, LiveIs DEF At
    <2>2. s.settled \in Nat
      BY <2>1 DEF Slots
    <2> QED BY <1>0, <1>5, <2>1, <2>2 DEF held
  <1>8. UNCHANGED <<ack, device>>
    BY DEF Arrives
  <1>9. DebtOK(t)'
    <2>1. held(t)' = held(t) /\ rx_watermark' = rx_watermark /\ rx_watermark \in Nat \ {0}
      BY Limits DEF held, rx_watermark, rx_ceiling, rx_cap
    <2>2. ASSUME s.state = "Open", ack = "Delayed" PROVE t.unacked = held(t)
      BY <1>2, <1>5, <2>2 DEF DebtOK
    <2>3. held(t) < rx_watermark
      BY <1>7, <2>1
    <2>4. t.state = "Closed" => device'[t.remote].state = "closed"
      BY <1>2, <1>5, <1>8 DEF DebtOK
    <2> QED BY <1>5, <1>8, <2>1, <2>2, <2>3, <2>4 DEF DebtOK
  <1>10. PICK kept : kept = held(t)
    OBVIOUS
  <1>11. Absorbs(c, p, s, kept, t.unacked)
    <2>1. kept \in Nat /\ t.unacked \in Nat
      BY <1>2, <1>5, <1>7, <1>10
    <2>2. CASE ack = "Delayed"
      <3>1. kept <= held(s) + Len(p.data)
        BY <1>2, <1>4, <1>7, <1>10
      <3>2. t.unacked + call'.frame.len = s.unacked + Len(p.data)
        BY <1>5, <2>2
      <3> QED BY <2>1, <2>2, <3>1, <3>2 DEF Absorbs
    <2>3. CASE ack # "Delayed"
      <3>1. One(t.unacked > 0) + One(Sending(c, "OKAY")') = 1
        BY <1>5, <2>3 DEF One
      <3> QED BY <2>1, <2>3, <3>1 DEF Absorbs
    <2> QED BY <2>2, <2>3
  <1>12. TakesIn(s, g, b, t, r, b, p)
    BY <1>0, <1>2, <1>3, <1>4, <1>5 DEF TakesIn
  <1> QED BY <1>0, <1>3, <1>6, <1>9, <1>10, <1>11, <1>12, TakenInFits

(* A read gets the bytes it waits for.                                     *)
LEMMA DeliversData ==
    ASSUME BaseInv, BaseInv', DataInv, NEW p, Arrives(p), Delivers(p)
    PROVE  DataInv'
  <1>1. PICK i, c, n : i = call.ch.slot /\ c = p.remote /\ n = Len(p.data)
    OBVIOUS
  <1>2. /\ i \in Named(p) /\ call.op = "read" /\ call.pc = "recv" /\ call.ch.local \in 1 .. MaxLocal
        /\ table[i].local = call.ch.local /\ Live(i) /\ table[i].remote = c
    BY <1>1, OwnNamed DEF Delivers
  <1>3. PICK s, g, d, have : At(i, s, g, d, have)
    BY <1>2, ArriveAt
  <1>4. s = table[i] /\ g = got[s.local] /\ d = c /\ s.local = call.ch.local /\ s.remote = c
    BY <1>2, <1>3 DEF At
  <1>5. At(i, s, g, c, have)
    BY <1>3, <1>4
  <1>6. /\ s \in Slots /\ s.ack = ack /\ has_ids(s) /\ s.local \in 1 .. MaxLocal /\ s.remote \in Ids /\ ack \in {"Classic", "Delayed"}
    <2>1. ack \in {"Classic", "Delayed"}
      BY ConfigAssumption DEF BaseInv, ConnTypeOK
    <2> QED BY <1>2, <1>4, <2>1, LiveIs
  <1>7. s.rx_buf = 0
    <2>1. ~has_data(get(call.ch))
      BY <1>2 DEF DataInv, ReadInv
    <2>2. get(call.ch) = s
      BY <1>1, <1>2, <1>4, UserIs
    <2>3. s.rx_buf \in Nat
      BY <1>6 DEF Slots
    <2> QED BY <1>6, <2>1, <2>2, <2>3 DEF has_data
  <1>8. p.cmd = "WRTE" /\ HandsOver(p.data) /\ UNCHANGED <<stored, queue, handles>>
    BY DEF Delivers
  <1>9. PICK t : t = [s EXCEPT !.unacked = IF s.ack = "Classic" /\ s.rx_buf < rx_watermark THEN 0 ELSE s.unacked]
    OBVIOUS
  <1>10. table'[i] = t /\ \A j \in Positions : j # i => table'[j] = table[j]
    <2>1. table \in [Positions -> Slots] /\ i \in Positions
      BY <1>2 DEF BaseInv, ConnTypeOK, Live
    <2>2. table' = [table EXCEPT ![i].unacked = IF s.ack = "Classic" /\ s.rx_buf < rx_watermark THEN 0 ELSE s.unacked]
      BY <1>1, <1>4 DEF Delivers
    <2> QED BY <1>4, <1>9, <2>1, <2>2
  <1>11. Delivered(s, t)
    <2>1. rx_watermark > 0
      BY Limits
    <2>2. /\ SameChannel(s, t) /\ SameBudget(s, t) /\ t.state = s.state /\ t.rx_buf = s.rx_buf /\ held(t) = held(s)
          /\ t.unacked = IF s.ack = "Classic" /\ s.rx_buf < rx_watermark THEN 0 ELSE s.unacked
      BY <1>6, <1>9, DeliverSlotIs
    <2>3. t.unacked = IF ack = "Delayed" THEN s.unacked ELSE 0
      BY <1>6, <1>7, <2>1, <2>2
    <2> QED BY <2>2, <2>3 DEF Delivered
  <1>12. n \in Nat \ {0}
    BY <1>1, <1>8, FrontIs DEF Fronts
  <1>13. PICK a : a = deliver_ack(s, n)
    OBVIOUS
  <1>14. a \in Nat /\ (ack = "Delayed" => a = n) /\ a # NoAck
    <2>1. s.unacked \in Nat
      BY <1>6 DEF Slots
    <2>2. rx_watermark > 0 /\ rx_watermark \in Nat
      BY Limits
    <2>3. a = IF ack = "Delayed" THEN n ELSE s.unacked
      BY <1>6, <1>7, <1>12, <1>13, <2>2, SMT DEF deliver_ack
    <2> QED BY <1>12, <2>1, <2>3 DEF NoAck
  <1>15. PICK f : f = Frame("OKAY", s.local, s.remote, a)
    OBVIOUS
  <1>16. call' = Sends(f, "delivered")
    BY <1>1, <1>4, <1>13, <1>14, <1>15 DEF Delivers
  <1>17. f \in Frames /\ f.cmd = "OKAY" /\ f.remote = c /\ f.len = a
    <2>1. PICK x, y : x = s.local /\ y = s.remote
      OBVIOUS
    <2>2. x \in 0 .. MaxLocal /\ y \in Ids \cup {0} /\ a \in Nat /\ f = Frame("OKAY", x, y, a)
      BY <1>6, <1>14, <1>15, <2>1
    <2> QED BY <1>4, <2>1, <2>2, FramesAre
  <1>18. call'.pc = "send" /\ call'.after = "delivered" /\ call'.op = "read" /\ call'.frame = f
    BY <1>2, <1>16, <1>17, SendsIs DEF BaseInv, Afters
  <1>19. /\ ReadInv' /\ SpentInv' /\ (\A q : Sending(q, "OKAY")' <=> q = c) /\ \A q \in Ids : ~Awaited(q)'
    BY <1>17, <1>18 DEF ReadInv, SpentInv, Sending, Awaited
  <1>20. PICK r, b, more : r = g \o p.data /\ b = stored[i] /\ more = have + Len(p.data)
    OBVIOUS
  <1>21. /\ got'[s.local] = r /\ \A l \in 1 .. MaxLocal : l # s.local => got'[l] = got[l]
    <2>1. got \in [1 .. MaxLocal -> Seq(Bytes)]
      BY DEF BaseInv, ConnTypeOK
    <2> QED BY <1>4, <1>6, <1>8, <1>20, <2>1 DEF HandsOver
  <1>22. Reads(s, g, r, p)
    <2>1. \E h \in handles : h.local = s.local
      BY <1>2, <1>4 DEF BaseInv, CallInv, UseInv, HandleOf
    <2>2. Joins(g, p.data, r)
      BY <1>20 DEF Joins
    <2> QED BY <1>8, <1>21, <2>1, <2>2 DEF Reads
  <1>23. Handed(i, s, g, c, have, b, r, p) /\ GotInv'
    <2>1. Handed(i, s, g, c, have, b, r, p)
      BY <1>1, <1>5, <1>7, <1>8, <1>20, <1>22 DEF Handed
    <2> QED BY <2>1, GotDelivered
  <1>24. Fits(t, r, b, c, more)'
    <2>1. ack = "Delayed" => call'.frame.len = Len(p.data)
      BY <1>1, <1>14, <1>17, <1>18
    <2>2. Sending(c, "OKAY")'
      BY <1>19
    <2> QED BY <1>11, <1>20, <1>23, <2>1, <2>2, DeliverFits
  <1>25. SlotData(i)'
    <2>1. t.local = s.local
      BY <1>11 DEF Delivered, SameChannel
    <2>2. t = table'[i] /\ r = got'[t.local] /\ b = stored'[i]
      BY <1>8, <1>10, <1>20, <1>21, <2>1
    <2> QED BY <1>24, <2>2, FitsIs
  <1>26. ASSUME NEW j \in Positions, table'[j].local # 0, j # i
         PROVE  /\ table'[j].remote # c /\ table'[j] = table[j] /\ stored'[j] = stored[j]
                /\ got'[table[j].local] = got[table[j].local]
    <2>1. table'[j] = table[j]
      BY <1>10, <1>26
    <2>2. Live(j)
      BY <1>26, <2>1 DEF Live
    <2>3. table[j].remote # c
      BY <1>2, <1>4, <1>26, Apart
    <2>4. table[j].local # s.local
      BY <1>2, <1>4, <1>26 DEF BaseInv, IdsInv, TableInv, Live
    <2>5. table[j].local \in 1 .. MaxLocal
      BY <2>2, LiveIs
    <2> QED BY <1>8, <1>21, <2>1, <2>3, <2>4, <2>5
  <1>27. table'[i].remote = c
    BY <1>4, <1>10, <1>11 DEF Delivered, SameChannel
  <1>28. \A j \in Positions : table'[j].local # 0 /\ table'[j].remote # c =>
              table'[j] = table[j] /\ stored'[j] = stored[j] /\ got'[table[j].local] = got[table[j].local]
    BY <1>26, <1>27
  <1>29. \A j \in Positions : table'[j].local # 0 /\ table'[j].remote = c => SlotData(j)'
    BY <1>25, <1>26
  <1>30. AwaitData(c)' /\ \A q : q # c => ~Sending(q, "OKAY")'
    BY <1>1, <1>19, ArrivesIs DEF AwaitData
  <1> QED BY <1>1, <1>19, <1>23, <1>28, <1>29, <1>30, ArriveData

-----------------------------------------------------------------------------
(* Packets that arrive: dispatch and the answers a call waits for.         *)

(* How the call goes on.                                                   *)
Onward(f) == f \in Frames /\ (call' = Loop \/ call' = LoopFailing \/ call' = Sends(f, "dispatched"))
(* A call that goes on after dispatch writes at most the frame it was      *)
(* given.                                                                  *)
LEMMA OnwardIs ==
    ASSUME BaseInv, NEW p, Arrives(p), NEW f, Onward(f)
    PROVE  /\ ReadInv' /\ SpentInv' /\ \A q : Awaited(q)' => Awaited(q)
           /\ \A q, x : Sending(q, x)' => call' = Sends(f, "dispatched") /\ f.cmd = x /\ f.remote = q /\ call'.frame = f
  <1>1. ConnTypeOK /\ call.pc = "recv" /\ UNCHANGED device
    BY DEF BaseInv, Arrives
  <1>2. CASE call' = Loop
    <2>1. /\ call'.op = call.op /\ call'.ch = call.ch /\ call'.after = "none"
          /\ call'.pc = IF call.op = "read" THEN "take" ELSE IF call.op \in {"write", "accept"} THEN "top" ELSE "recv"
      BY <1>1, <1>2, LoopIs
    <2>2. ReadInv' /\ SpentInv'
      BY <2>1 DEF ReadInv, SpentInv
    <2>3. \A q : Awaited(q)' => Awaited(q)
      BY <1>1, <2>1 DEF Awaited
    <2>4. \A q, x : ~Sending(q, x)'
      BY <2>1 DEF Sending
    <2> QED BY <2>2, <2>3, <2>4
  <1>3. CASE call' = LoopFailing
    <2>1. call'.pc \in {"take", "idle"} /\ call'.op \in {"read", "none"} /\ (call'.op = "read" => call'.pc = "take")
      BY <1>1, <1>3, LoopFailingIs, NoCallIs
    <2>2. ReadInv' /\ SpentInv' /\ (\A q : ~Awaited(q)') /\ \A q, x : ~Sending(q, x)'
      BY <2>1 DEF ReadInv, SpentInv, Awaited, Sending
    <2> QED BY <2>2
  <1>4. CASE call' = Sends(f, "dispatched")
    <2>1. call'.pc = "send" /\ call'.after = "dispatched" /\ call'.op = call.op /\ call'.ch = call.ch /\ call'.frame = f
      BY <1>1, <1>4, SendsIs DEF Onward, Afters
    <2>2. ReadInv' /\ SpentInv'
      BY <2>1 DEF ReadInv, SpentInv
    <2>3. \A q : Awaited(q)' => Awaited(q)
      BY <1>1, <2>1 DEF Awaited
    <2>4. \A q, x : Sending(q, x)' => f.cmd = x /\ f.remote = q
      BY <2>1 DEF Sending
    <2> QED BY <1>4, <2>1, <2>2, <2>3, <2>4
  <1> QED BY <1>2, <1>3, <1>4 DEF Onward

(* A packet for a slot.                                                    *)
Becomes(i, s, t, b) ==
    /\ table'[i] = t /\ stored'[i] = b /\ SameChannel(s, t) /\ UNCHANGED <<handles, got>>
    /\ \A j \in Positions : j # i => table'[j] = table[j] /\ stored'[j] = stored[j]
(* Only the slot of the packet's channel changes.                          *)
LEMMA SlotArriveData ==
    ASSUME BaseInv, BaseInv', DataInv, NEW p, Arrives(p), NEW i, NEW s, NEW g, NEW c, NEW have, At(i, s, g, c, have),
           c = p.remote, NEW t, NEW b, Becomes(i, s, t, b), NEW more, Fits(t, g, b, c, more)',
           ReadInv', SpentInv', \A q \in Ids : Awaited(q)' => Awaited(q) /\ ~Sending(q, "CLSE")',
           \A q : q # c => ~Sending(q, "OKAY")'
    PROVE  DataInv'
  <1>1. Live(i) /\ s = table[i] /\ g = got[s.local] /\ s.remote = c
    BY DEF At
  <1>2. /\ table'[i] = t /\ stored'[i] = b /\ t.local = s.local /\ t.remote = c /\ UNCHANGED <<handles, got>>
        /\ \A j \in Positions : j # i => table'[j] = table[j] /\ stored'[j] = stored[j]
    BY <1>1 DEF Becomes, SameChannel
  <1>3. SlotData(i)'
    BY <1>1, <1>2, FitsIs
  <1>4. \A j \in Positions : j # i => table'[j].remote # c
    BY <1>1, <1>2, Apart
  <1>5. \A j \in Positions : table'[j].local # 0 /\ table'[j].remote # c =>
              table'[j] = table[j] /\ stored'[j] = stored[j] /\ got'[table[j].local] = got[table[j].local]
    BY <1>2
  <1>6. \A j \in Positions : table'[j].local # 0 /\ table'[j].remote = c => SlotData(j)'
    BY <1>3, <1>4
  <1>7. c \in Ids /\ HasSlot(c)
    BY <1>1, ArrivesIs DEF HasSlot, Live
  <1>8. AwaitData(c)'
    BY <1>7, NotAwaited DEF AwaitData
  <1>9. GotInv'
    BY <1>2, GotKept DEF Arrives, DataInv
  <1> QED BY <1>5, <1>6, <1>8, <1>9, ArriveData

(* The other slots are as they were.                                       *)
LEMMA SlotMovesIs ==
    ASSUME BaseInv, NEW i, Live(i), NEW s, s = table[i], NEW t, NEW b, SlotMoves(i, t, b), SameChannel(s, t),
           UNCHANGED <<handles, got>>
    PROVE  Becomes(i, s, t, b)
  <1>1. table \in [Positions -> Slots] /\ stored \in [Positions -> Seq(Bytes)] /\ i \in Positions
    BY DEF BaseInv, ConnTypeOK, Live
  <1> QED BY <1>1 DEF SlotMoves, Becomes

(* dispatch to a slot keeps the data exact.                                *)
LEMMA ToSlotData ==
    ASSUME BaseInv, BaseInv', DataInv, NEW p, Arrives(p), NEW i \in Named(p), ToSlot(p, i)
    PROVE  DataInv'
  <1>1. PICK c, n : c = p.remote /\ n = Len(p.data)
    OBVIOUS
  <1>2. Live(i) /\ table[i].remote = c /\ UNCHANGED <<handles, got>>
    BY <1>1, NamedIs DEF ToSlot
  <1>3. PICK s, g, d, have : At(i, s, g, d, have)
    BY <1>2, ArriveAt
  <1>4. s = table[i] /\ At(i, s, g, c, have) /\ s.remote = c
    BY <1>2, <1>3 DEF At
  <1>5. /\ s \in Slots /\ s.local \in 0 .. MaxLocal /\ s.remote \in Ids \cup {0} /\ n \in Nat
        /\ s.settled <= s.rx_buf /\ has_ids(s) /\ p.len \in Int
    BY <1>1, <1>2, <1>4, LiveIs, ArrivesIs
  <1>6. PICK f, b : f = Frame("OKAY", s.local, s.remote, n) /\ b = stored[i]
    OBVIOUS
  <1>7. f \in Frames /\ f.cmd = "OKAY" /\ f.remote = c /\ f.len = n
    <2>1. PICK x, y : x = s.local /\ y = s.remote
      OBVIOUS
    <2>2. x \in 0 .. MaxLocal /\ y \in Ids \cup {0} /\ f = Frame("OKAY", x, y, n)
      BY <1>5, <1>6, <2>1
    <2>3. n \in Nat /\ y = c
      BY <1>4, <1>5, <2>1
    <2> QED BY <2>2, <2>3, FramesAre
  <1>8. Onward(f)
    <2>1. call' = Loop \/ call' = LoopFailing \/ call' = Sends(f, "dispatched")
      BY <1>1, <1>4, <1>6 DEF ToSlot
    <2> QED BY <1>7, <2>1 DEF Onward
  <1>9. /\ ReadInv' /\ SpentInv' /\ \A q : Awaited(q)' => Awaited(q)
        /\ \A q, x : Sending(q, x)' => call' = Sends(f, "dispatched") /\ f.cmd = x /\ f.remote = q /\ call'.frame = f
    BY <1>8, OnwardIs
  <1>10. (\A q \in Ids : Awaited(q)' => Awaited(q) /\ ~Sending(q, "CLSE")') /\ \A q : q # c => ~Sending(q, "OKAY")'
    BY <1>7, <1>9
  <1>11. \A t, b2, more : Becomes(i, s, t, b2) /\ Fits(t, g, b2, c, more)' => DataInv'
    BY <1>1, <1>4, <1>9, <1>10, SlotArriveData
  <1>12. ASSUME UNCHANGED <<table, stored>> PROVE Becomes(i, s, s, b)
    BY <1>2, <1>4, <1>6, <1>12 DEF Becomes, SameChannel
  <1>13. ASSUME call' = Loop \/ call' = LoopFailing PROVE ~Sending(c, "OKAY")'
    <2>1. call'.pc # "send"
      BY <1>13, LoopIs, LoopFailingIs, NoCallIs DEF BaseInv
    <2> QED BY <2>1 DEF Sending
  <1>14. CASE p.cmd = "WRTE" /\ rx_overflows(s, n) /\ call' = LoopFailing /\ UNCHANGED <<table, stored>>
    <2>1. Fits(s, g, b, c, have)'
      BY <1>1, <1>4, <1>6, <1>14, OverflowFits
    <2> QED BY <1>11, <1>12, <1>14, <2>1
  <1>15. CASE p.cmd = "READY" /\ ready_is_short(s, p.len) /\ call' = LoopFailing /\ UNCHANGED <<table, stored>>
    <2>1. Fits(s, g, b, c, have)'
      BY <1>1, <1>4, <1>6, <1>13, <1>15, ShortFits
    <2> QED BY <1>11, <1>12, <1>15, <2>1
  <1>16. CASE /\ p.cmd = "WRTE" /\ SlotMoves(i, apply_write(s, n), b \o p.data)
              /\ call' = IF acks_write_now(s, n) THEN Sends(f, "dispatched") ELSE Loop
    <2>1. PICK t, b2, more : t = apply_write(s, n) /\ b2 = b \o p.data /\ more = have + Len(p.data)
      OBVIOUS
    <2>2. SameChannel(s, t)
      BY <1>5, <2>1, WriteSlotIs
    <2>3. Becomes(i, s, t, b2)
      BY <1>2, <1>4, <1>16, <2>1, <2>2, SlotMovesIs
    <2>4. Joins(b, p.data, b2)
      BY <2>1 DEF Joins
    <2>5. OkayIf(acks_write_now(s, n), c, n)
      <3>1. ASSUME acks_write_now(s, n) PROVE Sending(c, "OKAY")' /\ call'.frame.len = n
        <4>1. call' = Sends(f, "dispatched")
          BY <1>16, <3>1
        <4>2. call'.pc = "send" /\ call'.frame = f
          BY <1>7, <4>1, SendsIs DEF BaseInv, Afters
        <4> QED BY <1>7, <4>2 DEF Sending
      <3>2. ASSUME ~acks_write_now(s, n) PROVE ~Sending(c, "OKAY")'
        BY <1>13, <1>16, <3>2
      <3> QED BY <3>1, <3>2 DEF OkayIf
    <2>6. Fits(t, g, b2, c, more)'
      BY <1>1, <1>4, <1>6, <1>16, <2>1, <2>4, <2>5, WriteFits
    <2> QED BY <1>11, <2>3, <2>6
  <1>17. CASE p.cmd = "READY" /\ SlotMoves(i, apply_ready(s, p.len), b) /\ call' = Loop
    <2>1. PICK t : t = apply_ready(s, p.len)
      OBVIOUS
    <2>2. SameChannel(s, t)
      BY <1>5, <2>1, ReadySlotIs
    <2>3. Becomes(i, s, t, b)
      BY <1>2, <1>4, <1>17, <2>1, <2>2, SlotMovesIs
    <2>4. Fits(t, g, b, c, have)'
      BY <1>1, <1>4, <1>6, <1>13, <1>17, <2>1, ReadyFits
    <2> QED BY <1>11, <2>3, <2>4
  <1>18. CASE p.cmd \notin {"WRTE", "READY"} /\ SlotMoves(i, apply_close(s), b) /\ call' = Loop
    <2>1. PICK t : t = apply_close(s)
      OBVIOUS
    <2>2. p.cmd = "CLSE"
      BY <1>18, ArrivesIs, NamedIs
    <2>3. SameChannel(s, t)
      BY <1>5, <2>1, CloseSlotIs
    <2>4. Becomes(i, s, t, b)
      BY <1>2, <1>4, <1>18, <2>1, <2>3, SlotMovesIs
    <2>5. Fits(t, g, b, c, have)'
      BY <1>1, <1>4, <1>6, <2>1, <2>2, CloseFits
    <2> QED BY <1>11, <2>4, <2>5
  <1> QED BY <1>1, <1>4, <1>6, <1>14, <1>15, <1>16, <1>17, <1>18 DEF ToSlot

(* The device knows a channel that has a slot by the slot's id, or not yet.*)
LEMMA KnownEnd ==
    ASSUME BaseInv, NEW p, Arrives(p), NEW i \in Positions, table[i].local # 0
    PROVE  device[table[i].remote].local \in {0, table[i].local}
  <1>1. incoming = NoIncoming
    BY ArrivesIs
  <1>2. incoming.reserved.local = 0
    BY <1>1 DEF NoIncoming, NoChannel
  <1>3. incoming.reserved # [slot |-> i, local |-> table[i].local]
    BY <1>2
  <1>4. TableInv
    BY DEF BaseInv, IdsInv
  <1> QED BY <1>3, <1>4 DEF TableInv

(* A packet that names no slot is of a channel without one, and that no    *)
(* open waits for.                                                         *)
LEMMA NoneNamed ==
    ASSUME BaseInv, NEW p, Arrives(p), NEW c, c = p.remote, Named(p) = {}
    PROVE  ~HasSlot(c)
  <1> SUFFICES ASSUME NEW i \in Positions, table[i].local # 0, table[i].remote = c PROVE FALSE
    BY DEF HasSlot
  <1>1. PacketOK(p) /\ c \in Ids /\ p = in[1] /\ 1 \in DOMAIN in
    BY ArrivesIs
  <1>2. table[i] # NoSlot
    BY NoSlotIs
  <1>3. device[c].local \in {0, table[i].local}
    BY KnownEnd
  <1>4. CASE p.cmd = "OPEN"
    <2>1. OnWire(c) /\ c \in Requests
      BY <1>1, <1>4 DEF OnWire, PacketOK
    <2> QED BY <2>1 DEF BaseInv, PlacesInv, HasSlot
  <1>5. CASE p.cmd = "CLSE" /\ p.local = 0
    BY <1>2, <1>5 DEF Named
  <1>6. CASE p.cmd # "OPEN" /\ ~(p.cmd = "CLSE" /\ p.local = 0)
    <2>1. p.local # 0 /\ p.local = device[c].local
      BY <1>1, <1>6 DEF PacketOK
    <2> QED BY <1>2, <1>3, <2>1 DEF Named
  <1> QED BY <1>4, <1>5, <1>6

(* A packet that is not the call's own is of a channel that no open waits  *)
(* for.                                                                    *)
LEMMA NoneAwaited ==
    ASSUME BaseInv, DataInv, NEW p, Arrives(p), NEW c, c = p.remote, ~IsOwn(p)
    PROVE  ~Awaited(c)
  <1> SUFFICES ASSUME Awaited(c) PROVE FALSE
    OBVIOUS
  <1>1. PacketOK(p) /\ c \in Ids /\ p = in[1] /\ 1 \in DOMAIN in /\ p.cmd \in {"OPEN", "READY", "WRTE", "CLSE"}
    BY ArrivesIs
  <1>2. call.op = "open" /\ device[c].local = call.ch.local /\ call.ch.local # 0
    BY DEF Awaited, BaseInv, CallInv, OpenInv
  <1>3. p.local # 0 /\ p.local = call.ch.local
    BY <1>1, <1>2 DEF PacketOK
  <1>4. p.cmd \notin {"READY", "CLSE"}
    BY <1>2, <1>3 DEF IsOwn
  <1>5. p.cmd # "OPEN"
    BY <1>1, <1>3 DEF PacketOK
  <1>6. p.cmd = "WRTE"
    BY <1>1, <1>4, <1>5
  <1>7. AwaitData(c)
    BY <1>1 DEF DataInv, PlacesData
  <1>8. PICK j \in DOMAIN in : j < 1
    BY <1>1, <1>6, <1>7 DEF AwaitData
  <1>9. j \in Nat /\ j > 0
    <2>1. in \in Seq(Inbound)
      BY DEF BaseInv, ConnTypeOK
    <2> QED BY <2>1, SeqNats
  <1> QED BY <1>8, <1>9

(* A packet of a channel that has no slot before or after.                 *)
LEMMA NoSlotData ==
    ASSUME BaseInv, BaseInv', DataInv, NEW p, Arrives(p), NEW c, c = p.remote, ~HasSlot(c),
           UNCHANGED <<table, stored, handles, got>>, ReadInv', SpentInv', ~Awaited(c)',
           \A q \in Ids : q # c /\ Awaited(q)' => Awaited(q) /\ ~Sending(q, "CLSE")',
           \A q : ~Sending(q, "OKAY")'
    PROVE  DataInv'
  <1>1. \A j \in Positions : table'[j].local # 0 => table'[j].remote # c
    BY DEF HasSlot
  <1>2. AwaitData(c)'
    BY DEF AwaitData
  <1>3. GotInv'
    BY GotKept DEF Arrives, DataInv
  <1> QED BY <1>1, <1>2, <1>3, ArriveData

(* A packet for no slot is answered or dropped.                            *)
LEMMA ToNoneData ==
    ASSUME BaseInv, BaseInv', DataInv, NEW p, Arrives(p), ~IsOwn(p), ToNone(p)
    PROVE  DataInv'
  <1>1. PICK c, l : c = p.remote /\ l = p.local
    OBVIOUS
  <1>2. c \in Ids /\ l \in 0 .. MaxLocal /\ Named(p) = {} /\ UNCHANGED <<table, stored, handles, got>>
    BY <1>1, ArrivesIs DEF ToNone
  <1>3. ~HasSlot(c) /\ ~Awaited(c)
    BY <1>1, <1>2, NoneNamed, NoneAwaited
  <1>4. \E f : Onward(f) /\ f.cmd = "CLSE" /\ f.remote = c
    <2>1. /\ refuse(c) \in Frames /\ refuse(c).cmd = "CLSE" /\ refuse(c).remote = c
          /\ close(l, c) \in Frames /\ close(l, c).cmd = "CLSE" /\ close(l, c).remote = c
      BY <1>2, RefuseIs, CloseIs
    <2>2. call' = Loop \/ call' = Sends(refuse(c), "dispatched") \/ call' = Sends(close(l, c), "dispatched")
      BY <1>1 DEF ToNone
    <2>3. Onward(refuse(c)) \/ Onward(close(l, c))
      BY <2>1, <2>2 DEF Onward
    <2> QED BY <2>1, <2>3
  <1>5. PICK f : Onward(f) /\ f.cmd = "CLSE" /\ f.remote = c
    BY <1>4
  <1>6. /\ ReadInv' /\ SpentInv' /\ \A q : Awaited(q)' => Awaited(q)
        /\ \A q, x : Sending(q, x)' => call' = Sends(f, "dispatched") /\ f.cmd = x /\ f.remote = q /\ call'.frame = f
    BY <1>5, OnwardIs
  <1>7. /\ \A q \in Ids : q # c /\ Awaited(q)' => Awaited(q) /\ ~Sending(q, "CLSE")'
        /\ \A q : ~Sending(q, "OKAY")'
        /\ ~Awaited(c)'
    BY <1>3, <1>5, <1>6
  <1> QED BY <1>1, <1>2, <1>3, <1>6, <1>7, NoSlotData

(* An open that fails.                                                     *)
LEMMA OpenFailsData ==
    ASSUME BaseInv, BaseInv', DataInv, NEW p, Arrives(p), OpenFails(p)
    PROVE  DataInv'
  <1>1. PICK c, l : c = p.remote /\ l = call.ch.local
    OBVIOUS
  <1>2. /\ c \in Ids /\ PacketOK(p) /\ call.op = "open" /\ p.local = l /\ p.cmd \in {"CLSE", "READY"}
        /\ UNCHANGED <<table, stored, handles, got>>
    BY <1>1, ArrivesIs DEF OpenFails
  <1>3. l # 0 /\ l \in 0 .. MaxLocal /\ \A i \in Positions : table[i].local # l
    <2>1. l \in 0 .. MaxLocal
      BY <1>1 DEF BaseInv, ConnTypeOK, CallStates, ChannelIds
    <2> QED BY <1>1, <1>2, <2>1 DEF BaseInv, CallInv, OpenInv
  <1>4. device[c].local = l
    BY <1>1, <1>2, <1>3 DEF PacketOK
  <1>5. ~HasSlot(c)
    <2> SUFFICES ASSUME NEW i \in Positions, table[i].local # 0, table[i].remote = c PROVE FALSE
      BY DEF HasSlot
    <2>1. device[c].local \in {0, table[i].local}
      BY KnownEnd
    <2> QED BY <1>3, <1>4, <2>1
  <1>6. call' = Returns("err") \/ call' = Sends(close(l, c), "short")
    BY <1>1 DEF OpenFails
  <1>7. ReadInv' /\ SpentInv' /\ (\A q : ~Awaited(q)') /\ \A q : ~Sending(q, "OKAY")'
    <2>1. CASE call' = Returns("err")
      <3>1. call'.pc = "idle" /\ call'.op = "none"
        BY <1>2, <2>1, ReturnsIs DEF BaseInv
      <3> QED BY <3>1 DEF ReadInv, SpentInv, Awaited, Sending
    <2>2. CASE call' = Sends(close(l, c), "short")
      <3>1. close(l, c) \in Frames /\ close(l, c).cmd = "CLSE"
        BY <1>2, <1>3, CloseIs
      <3>2. call'.pc = "send" /\ call'.after = "short" /\ call'.frame.cmd = "CLSE"
        BY <2>2, <3>1, SendsIs DEF BaseInv, Afters
      <3> QED BY <3>2 DEF ReadInv, SpentInv, Awaited, Sending
    <2> QED BY <1>6, <2>1, <2>2
  <1> QED BY <1>1, <1>2, <1>5, <1>7, NoSlotData

(* A write's own READY, and the CLSE a read or a write waits for.          *)
LEMMA AckedData ==
    ASSUME BaseInv, BaseInv', DataInv, NEW p, Arrives(p), Acked(p)
    PROVE  DataInv'
  <1>1. PICK i, c : i = call.ch.slot /\ c = p.remote
    OBVIOUS
  <1>2. Live(i) /\ table[i].remote = c /\ UNCHANGED <<stored, handles, got>> /\ p.cmd = "READY" /\ call.op = "write"
    BY <1>1, OwnNamed DEF Acked
  <1>3. PICK s, g, d, have : At(i, s, g, d, have)
    BY <1>2, ArriveAt
  <1>4. s = table[i] /\ At(i, s, g, c, have) /\ s.remote = c
    BY <1>2, <1>3 DEF At
  <1>5. s \in Slots /\ p.len \in Int
    BY <1>2, <1>4, LiveIs, ArrivesIs
  <1>6. PICK b : b = stored[i]
    OBVIOUS
  <1>7. call'.op \in {"write", "none"} /\ call'.pc \in {"idle", "top"}
    <2>1. CASE call' = Returns("err")
      BY <1>2, <2>1, ReturnsIs DEF BaseInv
    <2>2. CASE call' = [call EXCEPT !.pc = "top"]
      BY <1>2, <2>2 DEF BaseInv, ConnTypeOK, CallStates
    <2> QED BY <2>1, <2>2 DEF Acked
  <1>8. ReadInv' /\ SpentInv' /\ (\A q : ~Awaited(q)') /\ \A q, x : ~Sending(q, x)'
    BY <1>7 DEF ReadInv, SpentInv, Awaited, Sending
  <1>9. \A t, more : Becomes(i, s, t, b) /\ Fits(t, g, b, c, more)' => DataInv'
    BY <1>1, <1>4, <1>8, SlotArriveData
  <1>10. CASE ready_is_short(s, p.len) /\ table' = table
    <2>1. Becomes(i, s, s, b)
      BY <1>2, <1>4, <1>6, <1>10 DEF Becomes, SameChannel
    <2>2. Fits(s, g, b, c, have)'
      BY <1>1, <1>2, <1>4, <1>6, <1>8, <1>10, ShortFits
    <2> QED BY <1>9, <2>1, <2>2
  <1>11. CASE table' = [table EXCEPT ![i] = apply_ready(s, p.len)]
    <2>1. PICK t : t = apply_ready(s, p.len)
      OBVIOUS
    <2>2. SameChannel(s, t)
      BY <1>5, <2>1, ReadySlotIs
    <2>3. table \in [Positions -> Slots] /\ i \in Positions
      BY <1>2 DEF BaseInv, ConnTypeOK, Live
    <2>4. Becomes(i, s, t, b)
      BY <1>2, <1>6, <1>11, <2>1, <2>2, <2>3 DEF Becomes
    <2>5. Fits(t, g, b, c, have)'
      BY <1>1, <1>2, <1>4, <1>6, <1>8, <2>1, ReadyFits
    <2> QED BY <1>9, <2>4, <2>5
  <1> QED BY <1>1, <1>4, <1>10, <1>11 DEF Acked

(* The CLSE that a read or a write waits for.                              *)
LEMMA ClosesData ==
    ASSUME BaseInv, BaseInv', DataInv, NEW p, Arrives(p), Closes(p)
    PROVE  DataInv'
  <1>1. PICK i, c : i = call.ch.slot /\ c = p.remote
    OBVIOUS
  <1>2. /\ Live(i) /\ table[i].remote = c /\ UNCHANGED <<stored, handles, got>> /\ p.cmd = "CLSE"
        /\ call.op \in {"read", "write"} /\ call.pc = "recv" /\ table[i].local = call.ch.local
    BY <1>1, OwnNamed DEF Closes, closed_by
  <1>3. PICK s, g, d, have : At(i, s, g, d, have)
    BY <1>2, ArriveAt
  <1>4. s = table[i] /\ At(i, s, g, c, have) /\ s.remote = c
    BY <1>2, <1>3 DEF At
  <1>5. s \in Slots /\ has_ids(s)
    BY <1>2, <1>4, LiveIs
  <1>6. PICK b, t : b = stored[i] /\ t = apply_close(s)
    OBVIOUS
  <1>7. SameChannel(s, t) /\ t.rx_buf = s.rx_buf
    BY <1>5, <1>6, CloseSlotIs
  <1>8. Becomes(i, s, t, b)
    <2>1. table \in [Positions -> Slots] /\ i \in Positions
      BY <1>2 DEF BaseInv, ConnTypeOK, Live
    <2>2. table' = [table EXCEPT ![i] = t]
      BY <1>1, <1>4, <1>6 DEF Closes
    <2> QED BY <1>2, <1>6, <1>7, <2>1, <2>2 DEF Becomes
  <1>9. Fits(t, g, b, c, have)'
    BY <1>1, <1>2, <1>4, <1>6, CloseFits
  <1>10. call'.pc = "idle" /\ call'.op \in {"none", "read"} /\ (call'.op = "read" => call.op = "read" /\ call'.ch = call.ch)
    BY ReturnsIs DEF Closes, BaseInv
  <1>11. SpentInv' /\ (\A q : ~Awaited(q)') /\ \A q, x : ~Sending(q, x)'
    BY <1>10 DEF SpentInv, Awaited, Sending
  <1>12. ReadInv'
    <2>1. ASSUME call'.op = "read" PROVE ~has_data(get(call.ch))'
      <3>1. ~has_data(get(call.ch)) /\ get(call.ch) = s
        BY <1>1, <1>2, <1>4, <1>10, <2>1, UserIs DEF DataInv, ReadInv
      <3>2. ~(s.rx_buf > 0)
        BY <1>5, <3>1 DEF has_data
      <3>3. get(call.ch)' = t
        <4>1. table'[i] = t /\ t.local = call.ch.local /\ Positions' = Positions /\ i \in Positions /\ call'.ch = call.ch
          BY <1>2, <1>4, <1>7, <1>8, <1>10, <2>1, ArrivesIs DEF Becomes, SameChannel, Live
        <4> QED BY <1>1, <4>1 DEF get
      <3>4. ~has_data(t)
        BY <1>7, <3>2 DEF has_data
      <3> QED BY <3>3, <3>4 DEF has_data, has_ids
    <2> QED BY <1>10, <2>1 DEF ReadInv
  <1>13. (\A q \in Ids : Awaited(q)' => Awaited(q) /\ ~Sending(q, "CLSE")') /\ \A q : q # c => ~Sending(q, "OKAY")'
    BY <1>11
  <1> QED BY <1>1, <1>4, <1>8, <1>9, <1>11, <1>12, <1>13, SlotArriveData

(* The READY that opens a channel: its place becomes a slot.               *)
Opened(t, c, p) ==
    /\ t.remote = c /\ t.state = "Open" /\ t.rx_buf = 0 /\ t.unacked = 0 /\ held(t) = 0 /\ t.wrte_acked
    /\ t.send_budget = IF ack = "Delayed" THEN p.len ELSE 0
(* The slot of a channel that has just opened has the credit the READY     *)
(* brought.                                                                *)
LEMMA OpenedFits ==
    ASSUME BaseInv, DataInv, NEW p, Arrives(p), p.cmd = "READY", NEW c, c = p.remote, Awaited(c),
           NEW t, Opened(t, c, p), ~Sending(c, "OKAY")', NEW g, g = <<>>, NEW have, have = 0
    PROVE  Fits(t, g, g, c, have)'
  <1>1. c \in Ids /\ p.len \in Int /\ ~desync /\ UNCHANGED <<ack, scenario, device, gone, desync>> /\ call.pc = "recv"
    BY ArrivesIs DEF Arrives
  <1>2. Overruns' = Overruns /\ Shorts' = Shorts
    BY <1>1, TypesKept
  <1>3. AwaitData(c)
    BY <1>1 DEF DataInv, PlacesData
  <1>4. PICK no : no = FALSE
    OBVIOUS
  <1>5. PlaceOK(c, have, have, have, have, no)
    BY <1>3, <1>4 DEF AwaitData
  <1>6. device[c].sent \in Nat /\ device[c].owes \in Nat
    BY <1>1, DeviceEndIs
  <1>7. ~Overruns => CoverOK(c, have)'
    BY <1>5, ArriveKeeps DEF PlaceOK
  <1>8. held(t)' = have /\ t.unacked = have
    <2>1. held(t)' = held(t)
      BY DEF held
    <2> QED BY <2>1 DEF Opened
  <1>9. ASSUME ~Overruns
        PROVE  RoomOK(c, device[c].sent - have, held(t))' /\ CreditOK(c, device[c].sent - have, t.unacked)'
    <2>1. PICK flying : flying = device[c].sent - have
      OBVIOUS
    <2>2. RoomOK(c, flying, have) /\ CreditOK(c, flying, have)
      BY <1>1, <1>5, <1>9, <2>1 DEF PlaceOK
    <2>3. RoomOK(c, flying, have)'
      BY <2>2, ArriveKeeps
    <2>4. CreditOK(c, flying, have)'
      <3>1. ~Sending(c, "OKAY") /\ advertised_ack_bytes' = advertised_ack_bytes
        BY <1>1 DEF Sending, advertised_ack_bytes
      <3> QED BY <1>1, <2>2, <3>1 DEF CreditOK, One
    <2>5. flying = device'[c].sent - have
      BY <1>1, <2>1
    <2> QED BY <1>8, <2>3, <2>4, <2>5 DEF RoomOK, CreditOK
  <1>10. ASSUME ~Shorts PROVE BudgetOK(c, t.send_budget, t.wrte_acked)'
    <2>1. BudgetOK(c, have, no)
      BY <1>1, <1>5, <1>10 DEF PlaceOK
    <2>2. PICK total, now, len, owes : total = Sum(Credits(c)) /\ now = Sum(Credits(c))' /\ len = p.len /\ owes = device[c].owes
      OBVIOUS
    <2>3. total = now + (IF ack = "Delayed" THEN len ELSE 1) /\ total \in Nat /\ now \in Nat /\ len \in Int /\ len >= 0
      <3>1. len >= 0
        BY <1>1, <1>10, <2>2, ArriveCredits
      <3>2. Above(Brings(p, c)) = IF ack = "Delayed" THEN len ELSE 1
        BY <1>1, <2>2, <3>1 DEF Above, Brings
      <3> QED BY <1>1, <1>10, <2>2, <3>1, <3>2, ArriveCredits
    <2>4. t.wrte_acked /\ t.send_budget = IF ack = "Delayed" THEN len ELSE 0
      BY <2>2 DEF Opened
    <2> SUFFICES ASSUME device[c].state = "open", ~gone
                 PROVE  IF ack = "Delayed" THEN t.send_budget >= 0 /\ t.send_budget + now + owes = Grant
                        ELSE One(t.wrte_acked) + now + One(owes > 0) = 1
      BY <1>1, <2>2 DEF BudgetOK, One
    <2>5. IF ack = "Delayed" THEN have + total + owes = Grant ELSE One(no) + total + One(owes > 0) = 1
      BY <2>1, <2>2 DEF BudgetOK
    <2>6. CASE ack = "Delayed"
      BY <1>6, <2>2, <2>3, <2>4, <2>5, <2>6
    <2>7. CASE ack # "Delayed"
      <3>1. One(no) = 0 /\ One(owes > 0) \in {0, 1} /\ One(t.wrte_acked) = 1
        BY <1>4, <2>4 DEF One
      <3> QED BY <2>3, <2>5, <2>7, <3>1
    <2> QED BY <2>6, <2>7
  <1>11. PlaceOK(c, have, held(t), t.unacked, t.send_budget, t.wrte_acked)'
    BY <1>1, <1>2, <1>7, <1>9, <1>10 DEF PlaceOK
  <1>12. DebtOK(t)'
    <2>1. rx_watermark' > 0
      BY Limits DEF rx_watermark, rx_ceiling, rx_cap
    <2> QED BY <1>8, <2>1 DEF DebtOK, Opened
  <1>13. DOMAIN g = {} /\ Len(g) = 0
    OBVIOUS
  <1>14. StreamOK(c, g, g)' /\ (~Overruns => NoGap(g, g))'
    BY <1>13 DEF StreamOK, NoGap, Grows
  <1>15. t.remote = c /\ Len(g) + t.rx_buf = have
    BY <1>13 DEF Opened
  <1> QED BY <1>11, <1>12, <1>14, <1>15 DEF Fits

(* open_channel gets its READY.                                            *)
LEMMA OpensData ==
    ASSUME BaseInv, BaseInv', DataInv, NEW p, Arrives(p), OpensWith(p)
    PROVE  DataInv'
  <1>1. PICK i, c, l, h, t, g, have : /\ i = call.ch.slot /\ c = p.remote /\ l = call.ch.local
                                      /\ h = Handle(call.ch, p.remote) /\ t = table'[i] /\ g = <<>> /\ have = 0
    OBVIOUS
  <1>2. /\ i \in Positions /\ table[i] = NoSlot /\ l \in 1 .. MaxLocal /\ \A e \in handles : e.local # l
        /\ c \in Ids /\ device[c].local = l /\ \A j \in Positions : table[j].local # 0 => table[j].remote # c
        /\ \A j \in Positions : j # i => table'[j] = table[j]
    BY <1>1, OpensSlot
  <1>3. t.local = l /\ Opened(t, c, p)
    BY <1>1, OpensSlot DEF Opened
  <1>4. call.op = "open" /\ p.cmd = "READY" /\ handles' = handles \cup {h} /\ call' = Returns("ok") /\ UNCHANGED <<stored, got>>
        /\ call.pc = "recv"
    BY <1>1 DEF OpensWith, Arrives
  <1>5. call'.pc = "idle" /\ call'.op = "none"
    BY <1>4, ReturnsIs DEF BaseInv
  <1>6. ReadInv' /\ SpentInv' /\ (\A q : ~Awaited(q)') /\ \A q, x : ~Sending(q, x)'
    BY <1>5 DEF ReadInv, SpentInv, Awaited, Sending
  <1>7. Awaited(c)
    BY <1>1, <1>2, <1>4 DEF Awaited
  <1>8. got[l] = g
    BY <1>1, <1>2, Unread
  <1>9. stored[i] = g
    <2>1. Len(stored[i]) = 0 /\ stored[i] \in Seq(Bytes)
      BY <1>2, NoSlotIs DEF BaseInv, SlotsInv, SlotOK, ConnTypeOK
    <2> QED BY <1>1, <2>1
  <1>10. GotInv'
    <2>1. h.local = l
      BY <1>1 DEF Handle
    <2> QED BY <1>1, <1>4, <1>8, <2>1, GotOpens DEF Arrives, DataInv
  <1>11. Fits(t, g, g, c, have)'
    BY <1>1, <1>3, <1>4, <1>6, <1>7, OpenedFits
  <1>12. SlotData(i)'
    <2>1. g = got'[t.local] /\ g = stored'[i]
      BY <1>3, <1>4, <1>8, <1>9
    <2> QED BY <1>1, <1>11, <2>1, FitsIs
  <1>13. \A j \in Positions : table'[j].local # 0 /\ table'[j].remote = c => SlotData(j)'
    BY <1>2, <1>12
  <1>14. \A j \in Positions : table'[j].local # 0 /\ table'[j].remote # c =>
              table'[j] = table[j] /\ stored'[j] = stored[j] /\ got'[table[j].local] = got[table[j].local]
    BY <1>1, <1>2, <1>3, <1>4 DEF Opened
  <1>15. AwaitData(c)'
    BY <1>6 DEF AwaitData
  <1>16. (\A q : q # c => ~Sending(q, "OKAY")') /\ \A q \in Ids : q # c /\ Awaited(q)' => Awaited(q) /\ ~Sending(q, "CLSE")'
    BY <1>6
  <1> QED BY <1>1, <1>6, <1>10, <1>13, <1>14, <1>15, <1>16, ArriveData

(* Whatever a call receives, the data stays exact.                         *)
LEMMA ReceiveData ==
    ASSUME BaseInv, BaseInv', DataInv, Receive
    PROVE  DataInv'
  <1>1. PICK p : /\ Arrives(p)
                 /\ \/ ~IsOwn(p) /\ Dispatches(p)
                    \/ OpensWith(p) \/ OpenFails(p) \/ Delivers(p) \/ Closes(p) \/ Acked(p)
    BY ReceiveIs
  <1>2. CASE ~IsOwn(p) /\ Dispatches(p)
    <2>1. ToNone(p) \/ \E i \in Named(p) : ToSlot(p, i)
      BY <1>1, <1>2, DispatchesIs
    <2> QED BY <1>1, <1>2, <2>1, ToNoneData, ToSlotData
  <1> QED BY <1>1, <1>2, OpensData, OpenFailsData, DeliversData, ClosesData, AckedData

-----------------------------------------------------------------------------
(* The theorem.                                                            *)

(* A new connection has no data yet.                                       *)
LEMMA InitData ==
    ASSUME Init
    PROVE  DataInv
  <1>1. /\ in = <<>> /\ handles = {} /\ call = NoCall /\ got = [l \in 1 .. MaxLocal |-> <<>>]
        /\ table = [i \in Positions |-> NoSlot]
        /\ device = [c \in Ids |-> [state |-> "unused", local |-> 0, asb |-> 0, sent |-> 0, owes |-> 0, has |-> 0]]
    BY DEF Init
  <1>2. call.op = "none" /\ call.pc = "idle" /\ DOMAIN in = {}
    BY <1>1, NoCallIs
  <1>3. ReadInv /\ SpentInv
    BY <1>2 DEF ReadInv, SpentInv
  <1>4. WireInv
    <2>1. \A c \in Ids : device[c].sent = 0 /\ device[c].owes = 0
      BY <1>1
    <2> QED BY <1>2, <2>1 DEF WireInv
  <1>5. GotInv
    BY <1>1 DEF GotInv
  <1>6. CreditsInv
    <2>1. ASSUME NEW c \in Ids PROVE IsFiniteSet(Units(Credits(c)))
      <3>1. DOMAIN Credits(c) = {}
        BY <1>2 DEF Credits
      <3>2. Units(Credits(c)) = {}
        BY <3>1 DEF Units
      <3> QED BY <3>2, FS_EmptySet
    <2> QED BY <1>2, <2>1 DEF CreditsInv
  <1>7. PlacesData
    <2>1. \A i \in Positions : table[i].local = 0
      BY <1>1, NoSlotIs
    <2>2. \A c \in Ids : AwaitData(c)
      BY <1>2 DEF AwaitData, Awaited
    <2> QED BY <2>1, <2>2 DEF PlacesData
  <1> QED BY <1>3, <1>4, <1>5, <1>6, <1>7 DEF DataInv

(* Every step keeps the invariant of the data.                             *)
LEMMA DataStep ==
    ASSUME BaseInv, DataInv, [Next]_connVars
    PROVE  BaseInv' /\ DataInv'
  <1>1. BaseInv'
    BY BaseStep
  <1>2. CASE StartOpen \/ StartRead \/ StartWrite \/ StartAccept \/ StartClose
    BY <1>1, <1>2, StartData, CloseData
  <1>3. CASE HandOver \/ Accept \/ Reject \/ Undecided
    <2>1. CASE Accept /\ FreePositions # {}
      BY <1>1, <2>1, AcceptData
    <2>2. CASE Reject \/ (Accept /\ FreePositions = {})
      BY <1>1, <2>2, RefuseData
    <2> QED BY <1>1, <1>3, <2>1, <2>2, HandOverData, UndecidedData
  <1>4. CASE Take \/ Chunk
    BY <1>1, <1>4, TakeData, ChunkData
  <1>5. CASE Send \/ SendFails \/ SendDropped
    BY <1>1, <1>5, SendData, SendDroppedData
  <1>6. CASE Receive \/ ReceiveFails \/ ReceiveDropped
    BY <1>1, <1>6, ReceiveData, ReceiveEndsData
  <1>7. CASE \E c \in Ids : DeviceActs(c)
    BY <1>1, <1>7, DeviceData
  <1>8. CASE TransportFails
    <2>1. UNCHANGED <<ack, scenario, device, handles, got, in, table, stored, call, incoming, desync>> /\ (~gone' => ~gone)
      BY <1>8 DEF TransportFails, hostVars
    <2> QED BY <1>1, <2>1, SameData
  <1>9. CASE UNCHANGED connVars
    <2>1. UNCHANGED <<ack, scenario, device, handles, got, in, table, stored, call, incoming, desync>> /\ (~gone' => ~gone)
      BY <1>9 DEF connVars, hostVars, wireVars
    <2> QED BY <1>1, <2>1, SameData
  <1> QED BY <1>1, <1>2, <1>3, <1>4, <1>5, <1>6, <1>7, <1>8, <1>9 DEF Next, DeviceActs

(* What was read and what is buffered of a channel without overruns.       *)
ReadBy(h, i, s, g, c, have, b, r) ==
    At(i, s, g, c, have) /\ h \in handles /\ h.local = s.local /\ b = stored[i] /\ Joins(g, b, r)

(* They are the stream's first bytes.                                      *)
LEMMA WholeStream ==
    ASSUME BaseInv, DataInv, ~Overruns, NEW h, NEW i, NEW s, NEW g, NEW c, NEW have, NEW b, NEW r,
           ReadBy(h, i, s, g, c, have, b, r)
    PROVE  r = Numbered(c, Len(r)) /\ Len(r) = have
  <1>0. At(i, s, g, c, have) /\ h \in handles /\ h.local = s.local /\ b = stored[i] /\ Joins(g, b, r)
    BY DEF ReadBy
  <1>1. Parts(i, s, g, c, have)
    BY <1>0, PartsAre
  <1>2. g \in Seq(Bytes) /\ StreamOK(c, g, b) /\ NoGap(g, b) /\ Len(g) \in Nat
    BY <1>0, <1>1 DEF Parts
  <1>3. Live(i) /\ s = table[i] /\ g = got[s.local] /\ c = s.remote /\ have = Len(g) + s.rx_buf
    BY <1>0 DEF At
  <1>4. b \in Seq(Bytes) /\ Len(b) = s.rx_buf
    BY <1>0, <1>3, LiveIs
  <1>5. h.remote = c
    BY <1>0, <1>3 DEF BaseInv, IdsInv, HandlesInv, Live
  <1>6. \A k \in DOMAIN g : g[k][1] = c /\ g[k][2] = k
    BY <1>0, <1>3, <1>5 DEF DataInv, GotInv
  <1>7. \A k \in DOMAIN b : b[k][1] = c /\ b[k][2] = Len(g) + k
    BY <1>2 DEF StreamOK, NoGap
  <1>8. /\ r \in Seq(Bytes) /\ Len(r) = Len(g) + Len(b) /\ DOMAIN r = 1 .. Len(g) + Len(b)
        /\ Len(b) \in Nat /\ DOMAIN g = 1 .. Len(g) /\ DOMAIN b = 1 .. Len(b)
        /\ \A k \in 1 .. Len(g) : r[k] = g[k]
        /\ \A k \in 1 .. Len(g) + Len(b) : k > Len(g) => k - Len(g) \in 1 .. Len(b) /\ r[k] = b[k - Len(g)]
    <2>1. Joins(g, b, r) /\ g \in Seq(Bytes) /\ b \in Seq(Bytes)
      BY <1>0, <1>2, <1>4
    <2> QED BY <2>1, JoinIs
  <1>9. ASSUME NEW k \in 1 .. Len(r) PROVE r[k] = <<c, k>>
    <2>1. r[k] \in Bytes
      BY <1>8, ElementsOf
    <2>2. r[k][1] = c /\ r[k][2] = k
      <3>1. CASE k <= Len(g)
        <4>1. k \in DOMAIN g /\ r[k] = g[k]
          BY <1>2, <1>8, <3>1
        <4> QED BY <1>6, <4>1
      <3>2. CASE k > Len(g)
        <4>1. k - Len(g) \in DOMAIN b /\ r[k] = b[k - Len(g)]
          BY <1>8, <3>2
        <4>2. b[k - Len(g)][1] = c /\ b[k - Len(g)][2] = Len(g) + (k - Len(g))
          BY <1>7, <4>1
        <4> QED BY <1>2, <1>8, <4>1, <4>2
      <3> QED BY <1>2, <1>8, <3>1, <3>2
    <2> QED BY <2>1, <2>2 DEF Bytes
  <1>10. r = Numbered(c, Len(r))
    <2>1. r = [k \in 1 .. Len(r) |-> r[k]]
      BY <1>8
    <2> QED BY <1>9, <2>1 DEF Numbered
  <1> QED BY <1>3, <1>4, <1>8, <1>10

(* The rest of the stream is on the wire.                                  *)
LEMMA RestIs ==
    ASSUME BaseInv, DataInv, NEW c \in Ids, NEW n, CoverOK(c, n)
    PROVE  RestInFlight(c, n)
  <1>1. WireInv
    BY DEF DataInv
  <1>2. ASSUME NEW k \in InFlight(c, "WRTE")
        PROVE  /\ in[k].data = [j \in 1 .. Len(in[k].data) |-> <<c, From(in[k]) + j>>]
               /\ n <= From(in[k]) /\ To(in[k]) <= device[c].sent
    <2>1. k \in DOMAIN in /\ in[k].cmd = "WRTE" /\ in[k].remote = c
      BY DEF InFlight
    <2>2. PieceOK(in[k])
      BY <1>1, <2>1 DEF WireInv
    <2>3. in[k].data \in Seq(Bytes)
      BY <2>1, PacketTypes DEF BaseInv
    <2>4. PICK d, f : d = in[k].data /\ f = From(in[k])
      OBVIOUS
    <2>5. d \in Seq(Bytes) /\ \A j \in DOMAIN d : d[j] = <<c, f + j>>
      BY <2>1, <2>2, <2>3, <2>4 DEF PieceOK
    <2>6. d = [j \in 1 .. Len(d) |-> <<c, f + j>>]
      <3>1. d = [j \in 1 .. Len(d) |-> d[j]] /\ DOMAIN d = 1 .. Len(d)
        BY <2>5
      <3> QED BY <2>5, <3>1
    <2>7. n <= From(in[k]) /\ To(in[k]) <= device[c].sent
      BY <2>1, <2>2 DEF CoverOK, PieceOK
    <2> QED BY <2>4, <2>6, <2>7
  <1>3. \A k, m \in InFlight(c, "WRTE") : k < m => To(in[k]) <= From(in[m])
    BY <1>1 DEF InFlight, WireInv
  <1>4. n <= device[c].sent
    BY DEF CoverOK
  <1>5. \A j \in n + 1 .. device[c].sent : \E k \in InFlight(c, "WRTE") : From(in[k]) < j /\ j <= To(in[k])
    BY DEF CoverOK, InFlight
  <1> QED BY <1>2, <1>3, <1>4, <1>5 DEF RestInFlight

(* The invariant of the data says that every stream is exact.              *)
LEMMA StreamIs ==
    ASSUME BaseInv, DataInv
    PROVE  StreamExact
  <1>1. \A i \in Positions : Len(stored[i]) = table[i].rx_buf
    BY DEF BaseInv, SlotsInv, SlotOK
  <1>2. ASSUME NEW h \in handles, NEW k \in DOMAIN got[h.local]
        PROVE  /\ got[h.local][k][1] = h.remote
               /\ IF Overruns THEN k = 1 \/ got[h.local][k][2] > got[h.local][k - 1][2] ELSE got[h.local][k][2] = k
    <2>1. PICK g : g = got[h.local]
      OBVIOUS
    <2>2. (\A j \in DOMAIN g : g[j][1] = h.remote) /\ Grows(g) /\ (~Overruns => \A j \in DOMAIN g : g[j][2] = j)
      BY <2>1 DEF DataInv, GotInv
    <2>3. g \in Seq(Bytes)
      BY <2>1, ChannelOf DEF BaseInv, ConnTypeOK
    <2>4. ASSUME k # 1 PROVE g[k][2] > g[k - 1][2]
      <3>1. k \in DOMAIN g /\ k - 1 \in DOMAIN g /\ k - 1 < k
        BY <2>1, <2>3, <2>4
      <3>2. g[k - 1][2] < g[k][2]
        BY <2>2, <3>1 DEF Grows
      <3> QED BY <3>2
    <2> QED BY <2>1, <2>2, <2>4
  <1>3. ASSUME NEW h \in handles, get([slot |-> h.slot, local |-> h.local]) # NoSlot, ~Overruns,
               NEW r, r = got[h.local] \o stored[h.slot]
        PROVE  r = Numbered(h.remote, Len(r)) /\ RestInFlight(h.remote, Len(r))
    <2>1. PICK i, b : i = h.slot /\ b = stored[i]
      OBVIOUS
    <2>2. i \in Positions /\ table[i].local = h.local /\ h.local # 0
      <3>1. PICK ch : ch = [slot |-> h.slot, local |-> h.local]
        OBVIOUS
      <3>2. ch \in ChannelIds /\ ch.slot = i /\ ch.local = h.local
        BY <2>1, <3>1, ChannelOf DEF BaseInv
      <3>3. get(ch) # NoSlot
        BY <1>3, <3>1
      <3> HIDE <3>1
      <3>4. SlotsInv
        BY DEF BaseInv
      <3> QED BY <3>2, <3>3, <3>4, GetIs
    <2>3. Live(i)
      BY <2>2 DEF Live
    <2>4. PICK s, g, c, have : At(i, s, g, c, have)
      <3>1. ~Reserved(i)
        BY <1>3, <2>1, <2>2 DEF Reserved, BaseInv, CallInv, AnswerInv, NoIncoming, NoChannel
      <3> QED BY <2>3, <3>1, AtIs DEF Doubtful
    <2>5. s = table[i] /\ g = got[h.local] /\ h.local = s.local /\ c = s.remote
      BY <2>2, <2>4 DEF At
    <2>6. h.remote = c
      BY <2>2, <2>5 DEF BaseInv, IdsInv, HandlesInv
    <2>7. Joins(g, b, r)
      BY <1>3, <2>1, <2>5 DEF Joins
    <2>8. r = Numbered(c, Len(r)) /\ Len(r) = have
      <3>1. ~Overruns /\ b = stored[i] /\ h.local = s.local
        BY <1>3, <2>1, <2>5
      <3>2. ReadBy(h, i, s, g, c, have, b, r)
        BY <2>4, <2>7, <3>1 DEF ReadBy
      <3> QED BY <3>1, <3>2, WholeStream
    <2>9. CoverOK(c, have) /\ c \in Ids
      BY <1>3, <2>4, PartsAre DEF Parts
    <2>10. RestInFlight(c, have)
      BY <2>9, RestIs
    <2> QED BY <2>6, <2>8, <2>10
  <1> QED BY <1>1, <1>2, <1>3 DEF StreamExact

(* A slot of channel c is live.                                            *)
LEMMA SlotsOfIs ==
    ASSUME BaseInv, NEW c, NEW i \in SlotsOf(c)
    PROVE  Live(i) /\ table[i].remote = c
  BY FreeIs DEF SlotsOf, Live, BaseInv

(* The invariant of the data says that the device's credit is exact.       *)
LEMMA WindowIs ==
    ASSUME BaseInv, DataInv
    PROVE  WindowExact
  <1> SUFFICES ASSUME NEW c \in Ids, NEW i \in SlotsOf(c), device[c].state = "open", ~desync, ~gone, ~Overruns,
                      NEW flying, flying = device[c].sent - Len(got[table[i].local]) - table[i].rx_buf,
                      NEW okay, okay = IF Sending(c, "OKAY") THEN call.frame.len ELSE 0
               PROVE  IF ack = "Delayed"
                      THEN device[c].asb + flying + table[i].unacked + okay = advertised_ack_bytes
                      ELSE /\ \A k, m \in InFlight(c, "WRTE") : k = m
                           /\ device[c].asb + (IF flying > 0 THEN 1 ELSE 0) + (IF table[i].unacked > 0 THEN 1 ELSE 0)
                                + (IF Sending(c, "OKAY") THEN 1 ELSE 0) = 1
    BY DEF WindowExact
  <1>1. Live(i) /\ table[i].remote = c
    BY SlotsOfIs
  <1>2. PICK s, g, d, have : At(i, s, g, d, have)
    BY <1>1, AtIs DEF Doubtful
  <1>3. s = table[i] /\ g = got[table[i].local] /\ d = c /\ have = Len(g) + s.rx_buf
    BY <1>1, <1>2 DEF At
  <1>4. Parts(i, s, g, c, have)
    BY <1>2, <1>3, PartsAre
  <1>5. Len(g) \in Nat /\ s.rx_buf \in Nat /\ device[c].sent \in Nat
    BY <1>4 DEF Parts
  <1>6. flying = device[c].sent - have
    BY <1>3, <1>5
  <1>7. RoomOK(c, flying, held(s)) /\ CreditOK(c, flying, s.unacked)
    BY <1>4, <1>6 DEF Parts
  <1>8. ASSUME ack # "Delayed" PROVE \A k, m \in InFlight(c, "WRTE") : k = m
    BY <1>7, <1>8 DEF RoomOK, OneWrite, InFlight
  <1> QED BY <1>3, <1>7, <1>8 DEF CreditOK, One

(* The invariant of the data says that the host's credit is exact.         *)
LEMMA BudgetIs ==
    ASSUME BaseInv, DataInv
    PROVE  BudgetExact
  <1> SUFFICES ASSUME NEW c \in Ids, NEW i \in SlotsOf(c), device[c].state = "open", ~desync, ~gone, ~Shorts
               PROVE  IF ack = "Delayed" THEN /\ table[i].send_budget >= 0
                                              /\ table[i].send_budget + Sum(Credits(c)) + device[c].owes = Grant
                      ELSE (IF table[i].wrte_acked THEN 1 ELSE 0) + Sum(Credits(c))
                             + (IF device[c].owes > 0 THEN 1 ELSE 0) = 1
    BY DEF BudgetExact, Shorts
  <1>1. Live(i) /\ table[i].remote = c
    BY SlotsOfIs
  <1>2. PICK s, g, d, have : At(i, s, g, d, have)
    BY <1>1, AtIs DEF Doubtful
  <1>3. s = table[i] /\ d = c
    BY <1>1, <1>2 DEF At
  <1>4. BudgetOK(c, s.send_budget, s.wrte_acked)
    BY <1>2, <1>3, PartsAre DEF Parts
  <1> QED BY <1>3, <1>4 DEF BudgetOK, One

(* The invariant of the data says that data and credit are exact.          *)
LEMMA DataIs ==
    ASSUME BaseInv, DataInv
    PROVE  DataExact
  <1>1. StreamExact /\ WindowExact /\ BudgetExact
    BY StreamIs, WindowIs, BudgetIs
  <1>2. DataBeforeErrors
    BY DEF DataInv, ReadInv, DataBeforeErrors
  <1>3. ConnTypeOK /\ NothingAfterCut
    BY DEF BaseInv, DesyncInv, NothingAfterCut
  <1> QED BY <1>1, <1>2, <1>3 DEF DataExact

(* Data and credit are exact on every channel, in both directions, for any *)
(* number of channels and calls, any limits and any of the faults.         *)
THEOREM DataHold == ConnSpec => []DataExact
  <1>1. Init => BaseInv /\ DataInv
    BY InitBase, InitData
  <1>2. BaseInv /\ DataInv /\ [Next]_connVars => (BaseInv /\ DataInv)'
    BY DataStep
  <1>3. BaseInv /\ DataInv => DataExact
    BY DataIs
  <1> QED BY <1>1, <1>2, <1>3, PTL DEF ConnSpec
=============================================================================
