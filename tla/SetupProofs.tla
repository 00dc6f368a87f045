----------------------------- MODULE SetupProofs -----------------------------
(***************************************************************************)
(* Proofs about setting a connection up, for every number of callers,      *)
(* processes, files and crashes, every set of pairing codes, every number  *)
(* of stale packets and every number of faults.                            *)
(*                                                                         *)
(* The key directory: the invariant is about who owns a temporary file and *)
(* what a caller knows of the key by where it is in load_or_generate.      *)
(*                                                                         *)
(* Pairing and the handshake: two queues carry each exchange, so what is   *)
(* on its way is part of what is invariant: who sealed it, how many AUTH   *)
(* packets there are in it, what of it is plain, and, while the device     *)
(* sends nothing odd, which packet comes last.                             *)
(*                                                                         *)
(* The scan of the USB bus, which finds the device to connect to: the      *)
(* invariant says of each device gone past why it is not the one, and of   *)
(* the one in hand what is known of it and whether it is open.             *)
(***************************************************************************)
EXTENDS Setup, SequenceTheorems, TLAPS

-----------------------------------------------------------------------------
(* The key directory.                                                      *)

(* A caller that has a temporary file of its own on the disk.              *)
Writing(t) == keeper[t].pc \in {"write", "link", "unlink", "rename"}

(* A caller that goes by the key in the directory.                         *)
Adopted(t) ==
    \/ keeper[t].pc \in {"ensure", "rename", "ok"}
    \/ keeper[t].pc \in {"create", "write"} /\ keeper[t].kind = "public"

(* A temporary file is its writer's alone: its name, and its contents but  *)
(* for the moment in which adbkey is a second name of it.                  *)
Owns(t) ==
    Writing(t) =>
        /\ IsTemp(keeper[t].tmp) /\ exists(keeper[t].tmp)
        /\ names[keeper[t].tmp] = keeper[t].file
        /\ \A p \in DOMAIN names : names[p] = keeper[t].file =>
             p = keeper[t].tmp \/ (p = Private /\ keeper[t].pc = "unlink" /\ keeper[t].won)
        /\ \A u \in KeyThreads : Writing(u) /\ u # t => keeper[u].tmp # keeper[t].tmp

(* Where a caller is says what it has found and made so far.               *)
Knows(t) ==
    /\ ~Writing(t) => keeper[t].file = NoFile
    /\ keeper[t].pc \in {"open", "generate", "link", "unlink"} => keeper[t].kind = "private"
    /\ keeper[t].pc = "rename" => keeper[t].kind = "public"
    /\ keeper[t].pc \in {"link", "unlink", "rename"} =>
         files[keeper[t].file] = [kind |-> keeper[t].kind, key |-> keeper[t].key]
    /\ keeper[t].pc = "unlink" =>
         exists(Private) /\ (keeper[t].won => names[Private] = keeper[t].file)
    /\ keeper[t].pc = "create" => keeper[t].tries < TempTries
    /\ keeper[t].pc = "load" => exists(Private)
    /\ Adopted(t) => exists(Private) /\ Held(Private).key = keeper[t].key
    /\ keeper[t].pc = "ok" => exists(Public)

PrivateIsPrivate == exists(Private) => Held(Private).kind = "private"

(* Without a crash every temporary has its writer.                         *)
TempsWritten ==
    key_crashes = 0 => \A p \in DOMAIN names : IsTemp(p) =>
        \E t \in KeyThreads : Writing(t) /\ keeper[t].tmp = p

KeyInv ==
    /\ KeyTypeOK /\ \A t \in KeyThreads : Owns(t) /\ Knows(t)
    /\ PrivateIsPrivate /\ PublicFollowsPrivate /\ TempsWritten

(* The paths of the key, of its public half and of temporaries differ.     *)
LEMMA PathsDiffer ==
    /\ Private # Public /\ Private \in Paths /\ Public \in Paths
    /\ ~IsTemp(Private) /\ ~IsTemp(Public)
    /\ \A k \in Kinds, pid \in Pids, n \in Nat : <<k, pid, n>> \in Paths /\ IsTemp(<<k, pid, n>>)
  BY DEF Private, Public, Paths, IsTemp

(* A caller at its temporary file: the file is there, under one name.      *)
LEMMA WriterFacts ==
    ASSUME KeyInv, NEW t \in KeyThreads, Writing(t)
    PROVE  /\ keeper[t].file \in Files /\ keeper[t].tmp \in DOMAIN names
           /\ names[keeper[t].tmp] = keeper[t].file
           /\ keeper[t].tmp # Private /\ keeper[t].tmp # Public
           /\ \A p \in DOMAIN names : names[p] = keeper[t].file => p = keeper[t].tmp \/ p = Private
           /\ keeper[t].pc # "unlink" =>
                \A p \in DOMAIN names : names[p] = keeper[t].file => p = keeper[t].tmp
           /\ \A u \in KeyThreads : Writing(u) /\ u # t =>
                keeper[u].tmp # keeper[t].tmp /\ keeper[u].file # keeper[t].file
  BY DEF KeyInv, KeyTypeOK, Owns, exists, IsTemp

(* What a step does for the key that is there: nothing.                    *)
KeyKept ==
    exists(Private) => /\ Private \in DOMAIN names' /\ names'[Private] = names[Private]
                       /\ files'[names[Private]] = files[names[Private]]

(* A step of one caller that leaves the key, the public half and the       *)
(* temporaries of the others where they are keeps what the others know.    *)
LEMMA OthersKeep ==
    ASSUME KeyInv, KeyKept, exists(Public) => exists(Public)',
           NEW t \in KeyThreads,
           \A u \in KeyThreads : u # t => keeper'[u] = keeper[u],
           NEW u \in KeyThreads, u # t,
           Writing(u) =>
             /\ keeper[u].tmp \in DOMAIN names' /\ names'[keeper[u].tmp] = keeper[u].file
             /\ files'[keeper[u].file] = files[keeper[u].file]
             /\ \A p \in DOMAIN names' : names'[p] = keeper[u].file =>
                  p \in DOMAIN names /\ names[p] = keeper[u].file
             /\ Writing(t)' => keeper'[t].tmp # keeper[u].tmp
    PROVE  Owns(u)' /\ Knows(u)'
  <1>1. Owns(u) /\ Knows(u) /\ keeper'[u] = keeper[u] /\ Writing(u)' = Writing(u)
    BY DEF KeyInv, Writing
  <1>2. \A v \in KeyThreads : v # u /\ v # t => Writing(v)' = Writing(v) /\ keeper'[v] = keeper[v]
    BY DEF Writing
  <1>3. Owns(u)'
    <2> SUFFICES ASSUME Writing(u)'
                 PROVE  /\ IsTemp(keeper[u].tmp) /\ exists(keeper[u].tmp)'
                        /\ names'[keeper[u].tmp] = keeper[u].file
                        /\ \A p \in DOMAIN names' : names'[p] = keeper[u].file =>
                             p = keeper[u].tmp
                             \/ (p = Private /\ keeper[u].pc = "unlink" /\ keeper[u].won)
                        /\ \A v \in KeyThreads : Writing(v)' /\ v # u =>
                             keeper'[v].tmp # keeper[u].tmp
      BY <1>1 DEF Owns, IsTemp, exists
    <2>1. \A v \in KeyThreads : Writing(v)' /\ v # u => keeper'[v].tmp # keeper[u].tmp
      BY <1>1, <1>2 DEF Owns
    <2> QED BY <1>1, <2>1 DEF Owns, exists
  <1>4. Knows(u)'
    BY <1>1 DEF Knows, Writing, Adopted, exists, Held, KeyKept
  <1> QED BY <1>3, <1>4

(* A step of a caller that has no temporary and makes none.                *)
LEMMA QuietStep ==
    ASSUME KeyInv, NEW t \in KeyThreads, NEW c \in Callers, keeper' = [keeper EXCEPT ![t] = c],
           UNCHANGED <<names, files, key_crashes>>,
           next_seq' \in [Pids -> Nat], made' \in 0 .. MaxKeys,
           ~Writing(t), ~Writing(t)', Knows(t)'
    PROVE  KeyInv' /\ KeyKept
  <1>1. /\ keeper' \in [KeyThreads -> Callers]
        /\ \A u \in KeyThreads : u # t => keeper'[u] = keeper[u] /\ Writing(u)' = Writing(u)
    BY DEF KeyInv, KeyTypeOK, Writing
  <1>2. KeyKept
    BY DEF KeyKept, exists
  <1>3. KeyTypeOK'
    BY <1>1 DEF KeyInv, KeyTypeOK
  <1>4. Owns(t)'
    BY DEF Owns
  <1>5. ASSUME NEW u \in KeyThreads, u # t PROVE Owns(u)' /\ Knows(u)'
    <2>1. Writing(u) => keeper[u].tmp \in DOMAIN names /\ names[keeper[u].tmp] = keeper[u].file
      BY WriterFacts
    <2> QED BY <1>1, <1>2, <1>5, <2>1, OthersKeep DEF exists
  <1>6. PrivateIsPrivate' /\ PublicFollowsPrivate'
    BY DEF KeyInv, PrivateIsPrivate, PublicFollowsPrivate, exists, Held
  <1>7. TempsWritten'
    BY <1>1 DEF KeyInv, TempsWritten, IsTemp
  <1> QED BY <1>2, <1>3, <1>4, <1>5, <1>6, <1>7 DEF KeyInv

(* The directory has a key, or one is to be made.                          *)
LEMMA OpenKeyStep ==
    ASSUME KeyInv, NEW t \in KeyThreads, OpenKey(t)
    PROVE  KeyInv' /\ KeyKept
  <1> DEFINE c == [keeper[t] EXCEPT !.pc = IF exists(Private) THEN "load" ELSE "generate"]
  <1>1. keeper[t] \in Callers /\ Knows(t)
    BY DEF KeyInv, KeyTypeOK
  <1>2. c \in Callers /\ c.pc = (IF exists(Private) THEN "load" ELSE "generate")
        /\ c.file = keeper[t].file /\ c.kind = keeper[t].kind
    BY <1>1 DEF Callers
  <1>3. keeper' = [keeper EXCEPT ![t] = c] /\ keeper[t].pc = "open"
        /\ UNCHANGED <<names, files, next_seq, made, key_crashes>>
    BY DEF OpenKey, Goes
  <1> HIDE DEF c
  <1>4. keeper'[t] = c
    BY <1>3 DEF KeyInv, KeyTypeOK
  <1>5. ~Writing(t) /\ ~Writing(t)' /\ Knows(t)'
    BY <1>1, <1>2, <1>3, <1>4 DEF Knows, Writing, Adopted, exists
  <1> QED BY <1>2, <1>3, <1>5, QuietStep DEF KeyInv, KeyTypeOK

(* A key in memory.                                                        *)
LEMMA GenerateStep ==
    ASSUME KeyInv, NEW t \in KeyThreads, Generate(t)
    PROVE  KeyInv' /\ KeyKept
  <1> DEFINE c == [keeper[t] EXCEPT !.pc = "create", !.key = made + 1, !.tries = 0]
  <1>1. keeper[t] \in Callers /\ Knows(t)
    BY DEF KeyInv, KeyTypeOK
  <1>2. keeper' = [keeper EXCEPT ![t] = c] /\ keeper[t].pc = "generate" /\ made' = made + 1
        /\ made < MaxKeys /\ UNCHANGED <<names, files, next_seq, key_crashes>>
    BY DEF Generate
  <1>3. made + 1 \in 0 .. MaxKeys /\ made + 1 \in 0 .. Foreign
        /\ 0 \in 0 .. TempTries /\ 0 < TempTries
    BY <1>2, KeyAssumption DEF KeyInv, KeyTypeOK, Foreign
  <1>4. c \in Callers /\ c.pc = "create" /\ c.key = made + 1 /\ c.tries = 0
        /\ c.file = keeper[t].file /\ c.kind = keeper[t].kind
    BY <1>1, <1>3 DEF Callers
  <1> HIDE DEF c
  <1>5. keeper'[t] = c
    BY <1>2 DEF KeyInv, KeyTypeOK
  <1>6. ~Writing(t) /\ ~Writing(t)' /\ Knows(t)'
    BY <1>1, <1>2, <1>3, <1>4, <1>5 DEF Knows, Writing, Adopted, exists
  <1> QED BY <1>2, <1>3, <1>4, <1>6, QuietStep DEF KeyInv, KeyTypeOK

(* The key of the directory is adopted.                                    *)
LEMMA LoadKeyStep ==
    ASSUME KeyInv, NEW t \in KeyThreads, LoadKey(t)
    PROVE  KeyInv' /\ KeyKept
  <1> DEFINE c == IF ~usable(Held(Private)) THEN [keeper[t] EXCEPT !.pc = "error"]
                  ELSE [keeper[t] EXCEPT !.pc = "ensure", !.key = Held(Private).key]
  <1>1. keeper[t] \in Callers /\ Knows(t)
    BY DEF KeyInv, KeyTypeOK
  <1>2. keeper' = [keeper EXCEPT ![t] = c] /\ keeper[t].pc = "load"
        /\ UNCHANGED <<names, files, next_seq, made, key_crashes>>
    BY DEF LoadKey
  <1>3. exists(Private) /\ Held(Private).key \in 0 .. Foreign
    BY <1>1, <1>2 DEF KeyInv, KeyTypeOK, Knows, exists, Held
  <1>4. c \in Callers /\ (c.pc = "error" \/ (c.pc = "ensure" /\ c.key = Held(Private).key))
        /\ c.file = keeper[t].file /\ c.kind = keeper[t].kind
    <2>1. CASE ~usable(Held(Private))
      BY <1>1, <2>1 DEF Callers
    <2>2. CASE usable(Held(Private))
      BY <1>1, <1>3, <2>2 DEF Callers
    <2> QED BY <2>1, <2>2
  <1> HIDE DEF c
  <1>5. keeper'[t] = c
    BY <1>2 DEF KeyInv, KeyTypeOK
  <1>6. ~Writing(t) /\ ~Writing(t)' /\ Knows(t)'
    BY <1>1, <1>2, <1>3, <1>4, <1>5 DEF Knows, Writing, Adopted, exists, Held
  <1> QED BY <1>2, <1>4, <1>6, QuietStep DEF KeyInv, KeyTypeOK

(* A public half that is there is left alone; one that is not is made.     *)
LEMMA EnsurePublicStep ==
    ASSUME KeyInv, NEW t \in KeyThreads, EnsurePublic(t)
    PROVE  KeyInv' /\ KeyKept
  <1> DEFINE c == IF exists(Public) THEN [keeper[t] EXCEPT !.pc = "ok"]
                  ELSE [keeper[t] EXCEPT !.pc = "create", !.kind = "public", !.tries = 0]
  <1>1. keeper[t] \in Callers /\ Knows(t)
    BY DEF KeyInv, KeyTypeOK
  <1>2. keeper' = [keeper EXCEPT ![t] = c] /\ keeper[t].pc = "ensure"
        /\ UNCHANGED <<names, files, next_seq, made, key_crashes>>
    BY DEF EnsurePublic
  <1>3. /\ c \in Callers /\ c.file = keeper[t].file /\ c.key = keeper[t].key
        /\ \/ c.pc = "ok" /\ exists(Public)
           \/ c.pc = "create" /\ c.kind = "public" /\ c.tries < TempTries
    <2>1. CASE exists(Public)
      BY <1>1, <2>1 DEF Callers
    <2>2. CASE ~exists(Public)
      <3>1. 0 \in 0 .. TempTries /\ 0 < TempTries
        BY KeyAssumption
      <3> QED BY <1>1, <2>2, <3>1 DEF Callers, Kinds
    <2> QED BY <2>1, <2>2
  <1> HIDE DEF c
  <1>4. keeper'[t] = c
    BY <1>2 DEF KeyInv, KeyTypeOK
  <1>5. ~Writing(t) /\ ~Writing(t)' /\ Knows(t)'
    BY <1>1, <1>2, <1>3, <1>4 DEF Knows, Writing, Adopted, exists, Held
  <1> QED BY <1>2, <1>3, <1>5, QuietStep DEF KeyInv, KeyTypeOK

(* A new temporary has a name and a file nobody uses.                      *)
LEMMA CreateTempStep ==
    ASSUME KeyInv, NEW t \in KeyThreads, CreateTemp(t)
    PROVE  KeyInv' /\ KeyKept
  <1> DEFINE tmp == <<keeper[t].kind, keeper[t].pid, next_seq[keeper[t].pid]>>
  <1>1. keeper[t] \in Callers /\ Knows(t)
    BY DEF KeyInv, KeyTypeOK
  <1>2. /\ keeper[t].pc = "create" /\ UNCHANGED <<made, key_crashes>>
        /\ next_seq' \in [Pids -> Nat] /\ tmp \in Paths /\ IsTemp(tmp)
    <2>1. keeper[t].pid \in Pids /\ keeper[t].kind \in Kinds /\ next_seq[keeper[t].pid] \in Nat
      BY <1>1 DEF KeyInv, KeyTypeOK, Callers
    <2>2. next_seq' = [next_seq EXCEPT ![keeper[t].pid] = @ + 1]
      BY DEF CreateTemp
    <2>3. next_seq' \in [Pids -> Nat]
      BY <2>1, <2>2 DEF KeyInv, KeyTypeOK
    <2>4. tmp \in Paths /\ IsTemp(tmp)
      BY <2>1, PathsDiffer
    <2> QED BY <2>3, <2>4 DEF CreateTemp
  <1>3. CASE exists(tmp)
    <2> DEFINE c == [keeper[t] EXCEPT
                       !.pc = IF keeper[t].tries + 1 = TempTries THEN "error" ELSE "create",
                       !.tries = keeper[t].tries + 1]
    <2>1. keeper' = [keeper EXCEPT ![t] = c] /\ UNCHANGED <<names, files>>
      BY <1>3 DEF CreateTemp
    <2>2. /\ c.file = keeper[t].file /\ c.kind = keeper[t].kind /\ c.key = keeper[t].key
          /\ c.pc = "error" \/ (c.pc = "create" /\ c.tries < TempTries)
      BY <1>1, <1>2, KeyAssumption DEF Callers, Knows
    <2>3. c \in Callers
      \* tries stays below TempTries while the caller is at "create".
      <3>1. keeper[t].tries + 1 \in 0 .. TempTries
        BY <1>1, <1>2, KeyAssumption DEF Knows, Callers
      <3> QED BY <1>1, <3>1 DEF Callers
    <2> HIDE DEF c
    <2>4. keeper'[t] = c
      BY <2>1 DEF KeyInv, KeyTypeOK
    <2>5. ~Writing(t) /\ ~Writing(t)' /\ Knows(t)'
      BY <1>1, <1>2, <2>1, <2>2, <2>4 DEF Knows, Writing, Adopted, exists, Held
    <2> QED BY <1>2, <2>1, <2>3, <2>5, QuietStep DEF KeyInv, KeyTypeOK
  <1>4. CASE ~exists(tmp)
    <2>1. PICK f \in Unused :
            /\ names' = linked(names, tmp, f) /\ files' = [files EXCEPT ![f] = Empty]
            /\ keeper' = [keeper EXCEPT ![t] =
                            [keeper[t] EXCEPT !.pc = "write", !.tmp = tmp, !.file = f]]
      BY <1>4 DEF CreateTemp
    <2> DEFINE c == [keeper[t] EXCEPT !.pc = "write", !.tmp = tmp, !.file = f]
    <2>2. /\ f \in Files /\ \A p \in DOMAIN names : names[p] # f
          /\ \A u \in KeyThreads : keeper[u].file # f
      BY DEF Unused
    <2>3. /\ c \in Callers /\ c.pc = "write" /\ c.tmp = tmp /\ c.file = f
          /\ c.kind = keeper[t].kind /\ c.key = keeper[t].key
      BY <1>1, <1>2, <2>2 DEF Callers
    <2> HIDE DEF c, tmp
    <2>4. /\ keeper' \in [KeyThreads -> Callers] /\ keeper'[t] = c
          /\ \A u \in KeyThreads : u # t => keeper'[u] = keeper[u] /\ Writing(u)' = Writing(u)
      BY <2>1, <2>3 DEF KeyInv, KeyTypeOK, Writing, c
    <2>5. /\ DOMAIN names' = DOMAIN names \cup {tmp} /\ names'[tmp] = f
          /\ \A p \in DOMAIN names : names'[p] = names[p]
      <3>1. names' = linked(names, tmp, f)
        BY <2>1
      <3>2. tmp \notin DOMAIN names
        BY <1>4 DEF exists
      <3> QED BY <3>1, <3>2 DEF linked
    <2>6. /\ files' \in [Files -> [kind : Kinds, key : 0 .. Foreign]]
          /\ \A g \in Files : g # f => files'[g] = files[g]
      <3>1. Empty \in [kind : Kinds, key : 0 .. Foreign]
        BY KeyAssumption DEF Empty, Kinds, NoKey, Foreign
      <3> QED BY <2>1, <2>2, <3>1 DEF KeyInv, KeyTypeOK
    <2>7. tmp # Private /\ tmp # Public
      BY <1>2 DEF IsTemp
    <2>8. KeyKept /\ (exists(Private)' = exists(Private)) /\ (exists(Public)' = exists(Public))
      BY <2>2, <2>5, <2>6, <2>7 DEF KeyKept, exists, KeyInv, KeyTypeOK
    <2>9. KeyTypeOK'
      BY <1>2, <2>2, <2>4, <2>5, <2>6 DEF KeyInv, KeyTypeOK
    <2>10. Owns(t)'
      <3>1. ASSUME NEW u \in KeyThreads, u # t, Writing(u) PROVE keeper[u].tmp # tmp
        BY <1>4, <3>1, WriterFacts DEF exists
      <3> QED BY <1>2, <2>2, <2>3, <2>4, <2>5, <3>1 DEF Owns, exists, IsTemp
    <2>11. Knows(t)'
      BY <1>1, <1>2, <2>3, <2>4, <2>8 DEF Knows, Writing, Adopted, exists, Held, KeyKept
    <2>12. ASSUME NEW u \in KeyThreads, u # t PROVE Owns(u)' /\ Knows(u)'
      <3>1. Writing(u) =>
              /\ keeper[u].tmp \in DOMAIN names' /\ names'[keeper[u].tmp] = keeper[u].file
              /\ files'[keeper[u].file] = files[keeper[u].file]
              /\ \A p \in DOMAIN names' : names'[p] = keeper[u].file =>
                   p \in DOMAIN names /\ names[p] = keeper[u].file
              /\ keeper'[t].tmp # keeper[u].tmp
        BY <1>4, <2>2, <2>3, <2>4, <2>5, <2>6, WriterFacts DEF exists
      <3> QED BY <2>4, <2>8, <2>12, <3>1, OthersKeep
    <2>13. PrivateIsPrivate' /\ PublicFollowsPrivate'
      BY <2>2, <2>5, <2>6, <2>8
         DEF KeyInv, KeyTypeOK, PrivateIsPrivate, PublicFollowsPrivate, exists, Held
    <2>14. TempsWritten'
      BY <1>2, <2>3, <2>4, <2>5 DEF KeyInv, TempsWritten, Writing, IsTemp
    <2> QED BY <2>8, <2>9, <2>10, <2>11, <2>12, <2>13, <2>14 DEF KeyInv
  <1> QED BY <1>3, <1>4

(* A temporary is written where nobody else looks: its file has no other   *)
(* name yet.                                                               *)
LEMMA WriteTempStep ==
    ASSUME KeyInv, NEW t \in KeyThreads, WriteTemp(t)
    PROVE  KeyInv' /\ KeyKept
  <1> DEFINE f == keeper[t].file
             held == [kind |-> keeper[t].kind, key |-> keeper[t].key]
             c == [keeper[t] EXCEPT !.pc = IF keeper[t].kind = "private" THEN "link" ELSE "rename"]
  <1>1. keeper[t] \in Callers /\ Knows(t) /\ Owns(t)
    BY DEF KeyInv, KeyTypeOK
  <1>2. /\ keeper' = [keeper EXCEPT ![t] = c] /\ files' = [files EXCEPT ![f] = held]
        /\ keeper[t].pc = "write" /\ UNCHANGED <<names, next_seq, made, key_crashes>>
    BY DEF WriteTemp, Goes
  <1>3. /\ c \in Callers /\ c.pc = (IF keeper[t].kind = "private" THEN "link" ELSE "rename")
        /\ c.tmp = keeper[t].tmp /\ c.file = f /\ c.kind = keeper[t].kind
        /\ c.key = keeper[t].key /\ c.kind \in {"private", "public"}
    BY <1>1 DEF Callers, Kinds
  <1> HIDE DEF c
  <1>4. /\ keeper' \in [KeyThreads -> Callers] /\ keeper'[t] = c
        /\ \A u \in KeyThreads : u # t => keeper'[u] = keeper[u] /\ Writing(u)' = Writing(u)
    BY <1>2, <1>3 DEF KeyInv, KeyTypeOK, Writing
  <1>5. /\ f \in Files /\ \A p \in DOMAIN names : names[p] = f => p = keeper[t].tmp
        /\ keeper[t].tmp # Private /\ keeper[t].tmp # Public /\ Writing(t) /\ Writing(t)'
        /\ keeper[t].tmp \in DOMAIN names /\ names[keeper[t].tmp] = f
        /\ \A u \in KeyThreads : Writing(u) /\ u # t =>
             keeper[u].tmp # keeper[t].tmp /\ keeper[u].file # f
    BY <1>2, <1>3, <1>4, WriterFacts DEF Writing
  <1>6. /\ files' \in [Files -> [kind : Kinds, key : 0 .. Foreign]] /\ files'[f] = held
        /\ \A g \in Files : g # f => files'[g] = files[g]
    <2>1. held \in [kind : Kinds, key : 0 .. Foreign]
      BY <1>1 DEF Callers
    <2> QED BY <1>2, <1>5, <2>1 DEF KeyInv, KeyTypeOK
  <1> HIDE DEF f
  <1>7. KeyKept
    BY <1>2, <1>5, <1>6 DEF KeyKept, exists, KeyInv, KeyTypeOK
  <1>8. KeyTypeOK'
    BY <1>2, <1>4, <1>6 DEF KeyInv, KeyTypeOK
  <1>9. Owns(t)'
    <2>1. \A u \in KeyThreads : Writing(u)' /\ u # t => keeper'[u].tmp # c.tmp
      BY <1>3, <1>4, <1>5
    <2> QED BY <1>2, <1>3, <1>4, <1>5, <2>1 DEF Owns, exists, IsTemp
  <1>10. Knows(t)'
    <2>1. Adopted(t)' => Adopted(t)
      BY <1>2, <1>3, <1>4 DEF Adopted
    <2> QED BY <1>1, <1>2, <1>3, <1>4, <1>5, <1>6, <1>7, <2>1
            DEF Knows, Writing, Adopted, exists, Held, KeyKept
  <1>11. ASSUME NEW u \in KeyThreads, u # t PROVE Owns(u)' /\ Knows(u)'
    <2>1. Writing(u) =>
            /\ keeper[u].tmp \in DOMAIN names' /\ names'[keeper[u].tmp] = keeper[u].file
            /\ files'[keeper[u].file] = files[keeper[u].file]
            /\ \A p \in DOMAIN names' : names'[p] = keeper[u].file =>
                 p \in DOMAIN names /\ names[p] = keeper[u].file
            /\ keeper'[t].tmp # keeper[u].tmp
      BY <1>2, <1>3, <1>4, <1>5, <1>6, <1>11, WriterFacts
    <2> QED BY <1>2, <1>4, <1>7, <1>11, <2>1, OthersKeep DEF exists
  <1>12. PrivateIsPrivate' /\ PublicFollowsPrivate'
    BY <1>2, <1>5, <1>6 DEF KeyInv, KeyTypeOK, PrivateIsPrivate, PublicFollowsPrivate, exists, Held
  <1>13. TempsWritten'
    BY <1>2, <1>3, <1>4, <1>5 DEF KeyInv, TempsWritten, IsTemp
  <1> QED BY <1>7, <1>8, <1>9, <1>10, <1>11, <1>12, <1>13 DEF KeyInv

(* The first to link its key gives the name adbkey to a complete file; the *)
(* name is not there for anybody before.                                   *)
LEMMA LinkKeyStep ==
    ASSUME KeyInv, NEW t \in KeyThreads, LinkKey(t)
    PROVE  KeyInv' /\ KeyKept
  <1> DEFINE f == keeper[t].file
             c == [keeper[t] EXCEPT !.pc = "unlink", !.won = ~exists(Private)]
  <1>1. keeper[t] \in Callers /\ Knows(t) /\ Owns(t)
    BY DEF KeyInv, KeyTypeOK
  <1>2. /\ keeper' = [keeper EXCEPT ![t] = c] /\ keeper[t].pc = "link"
        /\ UNCHANGED <<files, next_seq, made, key_crashes>>
        /\ names' = IF exists(Private) THEN names ELSE linked(names, Private, f)
    BY DEF LinkKey
  <1>3. /\ c \in Callers /\ c.pc = "unlink" /\ c.won = ~exists(Private)
        /\ c.tmp = keeper[t].tmp /\ c.file = f /\ c.kind = keeper[t].kind
        /\ c.key = keeper[t].key
    BY <1>1 DEF Callers
  <1> HIDE DEF c
  <1>4. /\ keeper' \in [KeyThreads -> Callers] /\ keeper'[t] = c
        /\ \A u \in KeyThreads : u # t => keeper'[u] = keeper[u] /\ Writing(u)' = Writing(u)
    BY <1>2, <1>3 DEF KeyInv, KeyTypeOK, Writing
  <1>5. /\ f \in Files /\ \A p \in DOMAIN names : names[p] = f => p = keeper[t].tmp
        /\ keeper[t].tmp # Private /\ keeper[t].tmp # Public /\ Writing(t) /\ Writing(t)'
        /\ keeper[t].tmp \in DOMAIN names /\ names[keeper[t].tmp] = f
        /\ \A u \in KeyThreads : Writing(u) /\ u # t =>
             keeper[u].tmp # keeper[t].tmp /\ keeper[u].file # f
        /\ files[f].kind = "private"
    BY <1>1, <1>2, <1>3, <1>4, WriterFacts DEF Writing, Knows
  <1>6. /\ Private \in DOMAIN names => names' = names
        /\ Private \notin DOMAIN names =>
             /\ DOMAIN names' = DOMAIN names \cup {Private} /\ names'[Private] = f
             /\ \A p \in DOMAIN names : names'[p] = names[p]
        /\ Private \in DOMAIN names'
        /\ Private # Public /\ Private \in Paths
    BY <1>2, PathsDiffer DEF linked, exists
  <1> HIDE DEF f
  <1>7. KeyKept /\ (exists(Public)' = exists(Public))
    BY <1>2, <1>6 DEF KeyKept, exists
  <1>8. KeyTypeOK'
    BY <1>2, <1>4, <1>5, <1>6 DEF KeyInv, KeyTypeOK
  <1>9. Owns(t)'
    <2>1. \A u \in KeyThreads : Writing(u)' /\ u # t => keeper'[u].tmp # c.tmp
      BY <1>3, <1>4, <1>5
    <2> QED BY <1>2, <1>3, <1>4, <1>5, <1>6, <2>1 DEF Owns, exists, IsTemp
  <1>10. Knows(t)'
    <2>1. ~Adopted(t)'
      BY <1>3, <1>4 DEF Adopted
    <2>2. /\ keeper'[t].won => names'[Private] = f
          /\ files'[f] = [kind |-> keeper'[t].kind, key |-> keeper'[t].key]
          /\ keeper'[t].pc = "unlink" /\ keeper'[t].kind = "private" /\ keeper'[t].file = f
      BY <1>1, <1>2, <1>3, <1>4, <1>6 DEF Knows, exists, f
    <2> QED BY <1>5, <1>6, <2>1, <2>2 DEF Knows, exists
  <1>11. ASSUME NEW u \in KeyThreads, u # t PROVE Owns(u)' /\ Knows(u)'
    <2>1. ASSUME Writing(u)
          PROVE /\ keeper[u].tmp \in DOMAIN names' /\ names'[keeper[u].tmp] = keeper[u].file
                /\ files'[keeper[u].file] = files[keeper[u].file]
                /\ \A p \in DOMAIN names' : names'[p] = keeper[u].file =>
                     p \in DOMAIN names /\ names[p] = keeper[u].file
                /\ keeper'[t].tmp # keeper[u].tmp
      <3>1. keeper[u].tmp \in DOMAIN names /\ names[keeper[u].tmp] = keeper[u].file
        BY <2>1, WriterFacts
      <3>2. files' = files /\ keeper[u].file # f /\ keeper'[t].tmp # keeper[u].tmp
        BY <1>2, <1>3, <1>4, <1>5, <1>11, <2>1
      <3> QED BY <1>6, <3>1, <3>2
    <2> QED BY <1>4, <1>7, <1>11, <2>1, OthersKeep DEF exists
  <1>12. PrivateIsPrivate' /\ PublicFollowsPrivate'
    BY <1>2, <1>5, <1>6, <1>7
       DEF KeyInv, KeyTypeOK, PrivateIsPrivate, PublicFollowsPrivate, exists, Held
  <1>13. TempsWritten'
    <2>1. \A p \in DOMAIN names' : IsTemp(p) => p \in DOMAIN names
      BY <1>6, PathsDiffer
    <2>2. \A u \in KeyThreads : Writing(u) => Writing(u)' /\ keeper'[u].tmp = keeper[u].tmp
      BY <1>3, <1>4, <1>5
    <2> QED BY <1>2, <2>1, <2>2 DEF KeyInv, TempsWritten, IsTemp
  <1> QED BY <1>7, <1>8, <1>9, <1>10, <1>11, <1>12, <1>13 DEF KeyInv

(* A caller's temporary goes, and the caller with it: what is left keeps   *)
(* its names.                                                              *)
LEMMA TempGoes ==
    ASSUME KeyInv, NEW t \in KeyThreads, NEW c \in Callers, keeper' = [keeper EXCEPT ![t] = c],
           Writing(t), c.pc \notin {"write", "link", "unlink", "rename"},
           names' = without(keeper[t].tmp),
           UNCHANGED <<files, next_seq, made, key_crashes>>,
           KeyKept => Knows(t)'
    PROVE  KeyInv' /\ KeyKept
  <1>1. keeper[t] \in Callers
    BY DEF KeyInv, KeyTypeOK
  <1>2. UNCHANGED <<files, next_seq, made, key_crashes>>
    OBVIOUS
  <1>3. /\ keeper[t].tmp # Private /\ keeper[t].tmp # Public
        /\ \A u \in KeyThreads : Writing(u) /\ u # t => keeper[u].tmp # keeper[t].tmp
    BY WriterFacts
  <1>4. /\ keeper' \in [KeyThreads -> Callers] /\ keeper'[t] = c
        /\ \A u \in KeyThreads : u # t => keeper'[u] = keeper[u] /\ Writing(u)' = Writing(u)
    BY DEF KeyInv, KeyTypeOK, Writing
  <1>5. ~Writing(t)'
    BY <1>4 DEF Writing
  <1>6. /\ DOMAIN names' = DOMAIN names \ {keeper[t].tmp}
        /\ \A p \in DOMAIN names \ {keeper[t].tmp} : names'[p] = names[p]
    BY DEF without
  <1>7. KeyKept /\ (exists(Public)' = exists(Public)) /\ (exists(Private)' = exists(Private))
    BY <1>3, <1>6 DEF KeyKept, exists
  <1>8. KeyTypeOK'
    BY <1>4, <1>6 DEF KeyInv, KeyTypeOK
  <1>9. Owns(t)' /\ Knows(t)'
    BY <1>5, <1>7 DEF Owns
  <1>10. ASSUME NEW u \in KeyThreads, u # t PROVE Owns(u)' /\ Knows(u)'
    <2>1. Writing(u) =>
            /\ keeper[u].tmp \in DOMAIN names' /\ names'[keeper[u].tmp] = keeper[u].file
            /\ files'[keeper[u].file] = files[keeper[u].file]
            /\ \A p \in DOMAIN names' : names'[p] = keeper[u].file =>
                 p \in DOMAIN names /\ names[p] = keeper[u].file
            /\ Writing(t)' => keeper'[t].tmp # keeper[u].tmp
      BY <1>2, <1>3, <1>4, <1>5, <1>6, <1>10, WriterFacts
    <2> QED BY <1>4, <1>7, <1>10, <2>1, OthersKeep DEF exists
  <1>11. PrivateIsPrivate' /\ PublicFollowsPrivate'
    BY <1>3, <1>6, <1>7 DEF KeyInv, PrivateIsPrivate, PublicFollowsPrivate, exists, Held
  <1>12. TempsWritten'
    <2> SUFFICES ASSUME key_crashes = 0, NEW p \in DOMAIN names', IsTemp(p)
                 PROVE  \E u \in KeyThreads : Writing(u)' /\ keeper'[u].tmp = p
      BY DEF TempsWritten, IsTemp
    <2>1. PICK u \in KeyThreads : Writing(u) /\ keeper[u].tmp = p
      BY <1>6 DEF KeyInv, TempsWritten
    <2>2. u # t
      BY <1>6, <2>1
    <2> QED BY <1>4, <2>1, <2>2
  <1> QED BY <1>7, <1>8, <1>9, <1>10, <1>11, <1>12 DEF KeyInv

(* The winner's temporary goes; adbkey keeps the file.                     *)
LEMMA UnlinkTempStep ==
    ASSUME KeyInv, NEW t \in KeyThreads, UnlinkTemp(t)
    PROVE  KeyInv' /\ KeyKept
  <1> DEFINE c == IF keeper[t].won
                  THEN [keeper[t] EXCEPT !.pc = "create", !.kind = "public", !.file = NoFile,
                                         !.tries = 0]
                  ELSE [keeper[t] EXCEPT !.pc = "load", !.file = NoFile]
  <1>1. keeper[t] \in Callers /\ Knows(t)
    BY DEF KeyInv, KeyTypeOK
  <1>2. /\ keeper' = [keeper EXCEPT ![t] = c] /\ keeper[t].pc = "unlink"
        /\ names' = without(keeper[t].tmp) /\ UNCHANGED <<files, next_seq, made, key_crashes>>
    BY DEF UnlinkTemp
  <1>3. /\ c \in Callers /\ c.file = NoFile /\ c.key = keeper[t].key
        /\ \/ keeper[t].won /\ c.pc = "create" /\ c.kind = "public" /\ c.tries < TempTries
           \/ ~keeper[t].won /\ c.pc = "load"
    <2>1. CASE keeper[t].won
      <3>1. 0 \in 0 .. TempTries /\ 0 < TempTries
        BY KeyAssumption
      <3> QED BY <1>1, <2>1, <3>1 DEF Callers, Kinds
    <2>2. CASE ~keeper[t].won
      BY <1>1, <2>2 DEF Callers
    <2> QED BY <2>1, <2>2
  <1> HIDE DEF c
  <1>4. keeper'[t] = c
    BY <1>2 DEF KeyInv, KeyTypeOK
  <1>5. Writing(t)
    BY <1>2 DEF Writing
  <1>6. ASSUME KeyKept PROVE Knows(t)'
    <2>1. /\ Private \in DOMAIN names' /\ names'[Private] = names[Private]
          /\ keeper[t].won => files[names[Private]].key = keeper[t].key
      BY <1>1, <1>2, <1>6 DEF Knows, KeyKept, exists
    <2> QED BY <1>2, <1>3, <1>4, <2>1 DEF Knows, Writing, Adopted, exists, Held
  <1> QED BY <1>2, <1>3, <1>5, <1>6, TempGoes

(* A temporary that cannot be finished is removed.                         *)
LEMMA StoreFailsStep ==
    ASSUME KeyInv, NEW t \in KeyThreads, StoreFails(t)
    PROVE  KeyInv' /\ KeyKept
  <1> DEFINE c == [keeper[t] EXCEPT !.pc = "error", !.file = NoFile]
  <1>1. keeper[t] \in Callers
    BY DEF KeyInv, KeyTypeOK
  <1>2. /\ keeper' = [keeper EXCEPT ![t] = c] /\ Writing(t)
        /\ names' = without(keeper[t].tmp) /\ UNCHANGED <<files, next_seq, made, key_crashes>>
    BY DEF StoreFails, Writing
  <1>3. c \in Callers /\ c.pc = "error" /\ c.file = NoFile
    BY <1>1 DEF Callers
  <1> HIDE DEF c
  <1>4. keeper'[t] = c
    BY <1>2 DEF KeyInv, KeyTypeOK
  <1>5. Knows(t)'
    BY <1>3, <1>4 DEF Knows, Writing, Adopted
  <1> QED BY <1>2, <1>3, <1>5, TempGoes

(* The public half of adbkey takes the place of whatever adbkey.pub was.   *)
LEMMA RenamePublicStep ==
    ASSUME KeyInv, NEW t \in KeyThreads, RenamePublic(t)
    PROVE  KeyInv' /\ KeyKept
  <1> DEFINE f == keeper[t].file
             c == [keeper[t] EXCEPT !.pc = "ok", !.file = NoFile]
  <1>1. keeper[t] \in Callers /\ Knows(t)
    BY DEF KeyInv, KeyTypeOK
  <1>2. /\ keeper' = [keeper EXCEPT ![t] = c] /\ keeper[t].pc = "rename"
        /\ names' = linked(without(keeper[t].tmp), Public, f)
        /\ UNCHANGED <<files, next_seq, made, key_crashes>>
    BY DEF RenamePublic
  <1>3. c \in Callers /\ c.pc = "ok" /\ c.file = NoFile /\ c.key = keeper[t].key
    BY <1>1 DEF Callers
  <1> HIDE DEF c
  <1>4. /\ keeper' \in [KeyThreads -> Callers] /\ keeper'[t] = c /\ ~Writing(t)'
        /\ \A u \in KeyThreads : u # t => keeper'[u] = keeper[u] /\ Writing(u)' = Writing(u)
    BY <1>2, <1>3 DEF KeyInv, KeyTypeOK, Writing
  <1>5. /\ f \in Files /\ \A p \in DOMAIN names : names[p] = f => p = keeper[t].tmp
        /\ keeper[t].tmp # Private /\ keeper[t].tmp # Public
        /\ \A u \in KeyThreads : Writing(u) /\ u # t =>
             keeper[u].tmp # keeper[t].tmp /\ keeper[u].file # f
        /\ files[f].key = keeper[t].key
        /\ Private \in DOMAIN names /\ files[names[Private]].key = keeper[t].key
    <2>1. Writing(t) /\ Adopted(t)
      BY <1>2 DEF Writing, Adopted
    <2> QED BY <1>1, <1>2, <2>1, WriterFacts DEF Knows, exists, Held
  <1>6. /\ DOMAIN names' = (DOMAIN names \ {keeper[t].tmp}) \cup {Public}
        /\ names'[Public] = f
        /\ \A p \in DOMAIN names \ {keeper[t].tmp} : p # Public => names'[p] = names[p]
        /\ Private # Public /\ Public \in Paths
    BY <1>2, PathsDiffer DEF linked, without
  <1> HIDE DEF f
  <1>7. KeyKept /\ exists(Public)'
    BY <1>2, <1>5, <1>6 DEF KeyKept, exists
  <1>8. KeyTypeOK'
    BY <1>2, <1>4, <1>5, <1>6 DEF KeyInv, KeyTypeOK
  <1>9. Owns(t)'
    BY <1>4 DEF Owns
  <1>10. Knows(t)'
    BY <1>2, <1>3, <1>4, <1>5, <1>6, <1>7 DEF Knows, Adopted, exists, Held
  <1>11. ASSUME NEW u \in KeyThreads, u # t PROVE Owns(u)' /\ Knows(u)'
    <2>1. ASSUME Writing(u)
          PROVE /\ keeper[u].tmp \in DOMAIN names' /\ names'[keeper[u].tmp] = keeper[u].file
                /\ files'[keeper[u].file] = files[keeper[u].file]
                /\ \A p \in DOMAIN names' : names'[p] = keeper[u].file =>
                     p \in DOMAIN names /\ names[p] = keeper[u].file
      <3>1. /\ keeper[u].tmp \in DOMAIN names /\ names[keeper[u].tmp] = keeper[u].file
            /\ keeper[u].tmp # Public
        BY <2>1, WriterFacts
      <3> QED BY <1>2, <1>5, <1>6, <1>11, <2>1, <3>1
    <2> QED BY <1>4, <1>7, <1>11, <2>1, OthersKeep
  <1>12. PrivateIsPrivate' /\ PublicFollowsPrivate'
    BY <1>2, <1>5, <1>6 DEF KeyInv, PrivateIsPrivate, PublicFollowsPrivate, exists, Held
  <1>13. TempsWritten'
    <2> SUFFICES ASSUME key_crashes = 0, NEW p \in DOMAIN names', IsTemp(p)
                 PROVE  \E u \in KeyThreads : Writing(u)' /\ keeper'[u].tmp = p
      BY <1>2 DEF TempsWritten, IsTemp
    <2>1. p \in DOMAIN names /\ p # keeper[t].tmp
      BY <1>6, PathsDiffer
    <2>2. PICK u \in KeyThreads : Writing(u) /\ keeper[u].tmp = p
      BY <2>1 DEF KeyInv, TempsWritten
    <2> QED BY <1>4, <2>1, <2>2
  <1> QED BY <1>7, <1>8, <1>9, <1>10, <1>11, <1>12, <1>13 DEF KeyInv

(* A call at its start.                                                    *)
LEMMA NewCallerFacts ==
    ASSUME NEW pid \in Pids
    PROVE  /\ NewCaller(pid) \in Callers /\ NewCaller(pid).pc = "open"
           /\ NewCaller(pid).kind = "private" /\ NewCaller(pid).file = NoFile
  BY KeyAssumption, PathsDiffer DEF NewCaller, Callers, Kinds, Foreign, NoKey

(* A crash leaves the directory alone and starts the calls it ended again. *)
LEMMA CrashStep ==
    ASSUME KeyInv, NEW pid \in Pids, CrashProcess(pid)
    PROVE  KeyInv' /\ KeyKept
  <1> DEFINE Again(t) == keeper[t].pid = pid /\ AtWork(t)
  <1>1. /\ UNCHANGED <<names, files, made>> /\ key_crashes' = key_crashes + 1
        /\ key_crashes < MaxKeyCrashes /\ next_seq' = [next_seq EXCEPT ![pid] = 0]
        /\ keeper' = [t \in KeyThreads |-> IF Again(t) THEN NewCaller(pid) ELSE keeper[t]]
    BY DEF CrashProcess
  <1>2. /\ NewCaller(pid) \in Callers /\ NewCaller(pid).pc = "open"
        /\ NewCaller(pid).kind = "private" /\ NewCaller(pid).file = NoFile
    BY NewCallerFacts
  <1> HIDE DEF Again
  <1>3. /\ keeper' \in [KeyThreads -> Callers]
        /\ \A t \in KeyThreads : ~Again(t) => keeper'[t] = keeper[t] /\ Writing(t)' = Writing(t)
        /\ \A t \in KeyThreads : Again(t) => keeper'[t] = NewCaller(pid) /\ ~Writing(t)'
    BY <1>1, <1>2 DEF KeyInv, KeyTypeOK, Writing
  <1>4. key_crashes' \in 0 .. MaxKeyCrashes /\ key_crashes' # 0
    BY <1>1, KeyAssumption DEF KeyInv, KeyTypeOK
  <1>5. next_seq' \in [Pids -> Nat]
    BY <1>1 DEF KeyInv, KeyTypeOK
  <1>6. KeyTypeOK'
    BY <1>1, <1>3, <1>4, <1>5 DEF KeyInv, KeyTypeOK
  <1>7. KeyKept
    BY <1>1 DEF KeyKept, exists
  <1>8. ASSUME NEW t \in KeyThreads PROVE Owns(t)' /\ Knows(t)'
    <2>1. CASE Again(t)
      BY <1>2, <1>3, <2>1 DEF Owns, Knows, Writing, Adopted
    <2>2. CASE ~Again(t)
      <3>1. Owns(t) /\ Knows(t) /\ keeper'[t] = keeper[t] /\ Writing(t)' = Writing(t)
        BY <1>3, <2>2 DEF KeyInv
      <3>2. \A u \in KeyThreads : Writing(u)' => Writing(u) /\ keeper'[u] = keeper[u]
        BY <1>3
      <3>3. Owns(t)'
        BY <1>1, <3>1, <3>2 DEF Owns, exists, IsTemp
      <3>4. Knows(t)'
        BY <1>1, <3>1 DEF Knows, Adopted, exists, Held
      <3> QED BY <3>3, <3>4
    <2> QED BY <2>1, <2>2
  <1>9. PrivateIsPrivate' /\ PublicFollowsPrivate'
    BY <1>1 DEF KeyInv, PrivateIsPrivate, PublicFollowsPrivate, exists, Held
  <1>10. TempsWritten'
    BY <1>4 DEF TempsWritten
  <1> QED BY <1>6, <1>7, <1>8, <1>9, <1>10 DEF KeyInv

(* Every step of the key store.                                            *)
LEMMA KeyStepKeeps ==
    ASSUME KeyInv, KeyNext
    PROVE  KeyInv' /\ KeyKept
  <1>1. ASSUME NEW t \in KeyThreads, KeyStep(t) \/ StoreFails(t)
        PROVE  KeyInv' /\ KeyKept
    BY <1>1, OpenKeyStep, GenerateStep, CreateTempStep, WriteTempStep, LinkKeyStep,
       UnlinkTempStep, RenamePublicStep, LoadKeyStep, EnsurePublicStep, StoreFailsStep
       DEF KeyStep
  <1> QED BY <1>1, CrashStep DEF KeyNext

(* The directory as the first call finds it, and when no call is made.     *)
LEMMA KeyStarts ==
    ASSUME KeyInit \/ KeyIdle
    PROVE  KeyInv
  <1>1. ASSUME NEW pid \in Pids
        PROVE  /\ [NewCaller(pid) EXCEPT !.pc = "error"] \in Callers
               /\ [NewCaller(pid) EXCEPT !.pc = "error"].pc = "error"
               /\ [NewCaller(pid) EXCEPT !.pc = "error"].file = NoFile
    BY NewCallerFacts DEF Callers
  <1>2. /\ Foreign \in 0 .. Foreign /\ NoKey \in 0 .. Foreign /\ 1 \in Files /\ 2 \in Files
        /\ Empty \in [kind : Kinds, key : 0 .. Foreign]
    BY KeyAssumption DEF Foreign, NoKey, Files, Empty, Kinds
  <1>3. CASE KeyInit
    <2>1. PICK there \in SUBSET {Private, Public}, k \in {NoKey, Foreign} :
            /\ names = [p \in there |-> IF p = Private THEN 1 ELSE 2]
            /\ files = [f \in Files |-> IF f = 1 THEN [kind |-> "private", key |-> k]
                                        ELSE IF f = 2 THEN [kind |-> "public", key |-> Foreign]
                                        ELSE Empty]
      BY <1>3 DEF KeyInit
    <2>2. PICK pid \in [KeyThreads -> Pids] : keeper = [t \in KeyThreads |-> NewCaller(pid[t])]
      BY <1>3 DEF KeyInit
    <2>3. /\ DOMAIN names = there /\ \A p \in there : ~IsTemp(p) /\ p \in Paths
          /\ \A p \in there : names[p] = IF p = Private THEN 1 ELSE 2
      BY <2>1, PathsDiffer DEF IsTemp
    <2>4. /\ files \in [Files -> [kind : Kinds, key : 0 .. Foreign]]
          /\ files[1].kind = "private" /\ files[2].key = Foreign
      BY <1>2, <2>1 DEF Kinds
    <2>5. /\ keeper \in [KeyThreads -> Callers]
          /\ \A t \in KeyThreads : /\ keeper[t].pc = "open" /\ keeper[t].kind = "private"
                                   /\ keeper[t].file = NoFile
      BY <2>2, NewCallerFacts
    <2>6. next_seq \in [Pids -> Nat] /\ made \in 0 .. MaxKeys /\ key_crashes \in 0 .. MaxKeyCrashes
      BY <1>3, KeyAssumption DEF KeyInit
    <2>7. KeyTypeOK
      BY <1>2, <2>3, <2>4, <2>5, <2>6 DEF KeyTypeOK
    <2>8. \A t \in KeyThreads : Owns(t) /\ Knows(t)
      BY <2>5 DEF Owns, Knows, Writing, Adopted
    <2>9. PrivateIsPrivate /\ PublicFollowsPrivate /\ TempsWritten
      BY <2>3, <2>4, PathsDiffer
         DEF PrivateIsPrivate, PublicFollowsPrivate, TempsWritten, exists, Held
    <2> QED BY <2>7, <2>8, <2>9 DEF KeyInv
  <1>4. CASE KeyIdle
    <2> DEFINE q == CHOOSE p \in Pids : TRUE
    <2>1. q \in Pids
      BY KeyAssumption
    <2>2. keeper = [t \in KeyThreads |-> [NewCaller(q) EXCEPT !.pc = "error"]]
      BY <1>4 DEF KeyIdle
    <2> HIDE DEF q
    <2>3. /\ keeper \in [KeyThreads -> Callers]
          /\ \A t \in KeyThreads : keeper[t].pc = "error" /\ keeper[t].file = NoFile
      BY <1>1, <2>1, <2>2
    <2>4. /\ DOMAIN names = {} /\ files \in [Files -> [kind : Kinds, key : 0 .. Foreign]]
          /\ next_seq \in [Pids -> Nat] /\ made \in 0 .. MaxKeys
          /\ key_crashes \in 0 .. MaxKeyCrashes
      BY <1>2, <1>4, KeyAssumption DEF KeyIdle
    <2>5. KeyTypeOK
      BY <2>3, <2>4 DEF KeyTypeOK
    <2>6. \A t \in KeyThreads : Owns(t) /\ Knows(t)
      BY <2>3 DEF Owns, Knows, Writing, Adopted
    <2>7. PrivateIsPrivate /\ PublicFollowsPrivate /\ TempsWritten
      BY <2>4 DEF PrivateIsPrivate, PublicFollowsPrivate, TempsWritten, exists
    <2> QED BY <2>5, <2>6, <2>7 DEF KeyInv
  <1> QED BY <1>3, <1>4

(* The key store's invariant is one of the whole specification: no other   *)
(* part touches the directory.                                             *)
LEMMA KeyInvHolds == SetupSpec => []KeyInv
  <1>1. SetupInit => KeyInv
    BY KeyStarts DEF SetupInit
  <1>2. KeyInv /\ [SetupNext]_setupVars => KeyInv'
    <2> SUFFICES ASSUME KeyInv, [SetupNext]_setupVars PROVE KeyInv'
      OBVIOUS
    <2>1. CASE KeyNext
      BY <2>1, KeyStepKeeps
    <2>2. CASE UNCHANGED keyVars
      BY <2>2 DEF keyVars, KeyInv, KeyTypeOK, Owns, Knows, Writing, Adopted, PrivateIsPrivate,
                  PublicFollowsPrivate, TempsWritten, exists, Held, IsTemp
    <2>3. KeyNext \/ UNCHANGED keyVars
      BY DEF SetupNext, setupVars, KeysAct, PairAct, Connect, ConnectAct, LinkAct
    <2> QED BY <2>1, <2>2, <2>3
  <1> QED BY <1>1, <1>2, PTL DEF SetupSpec

(* Every call of load_or_generate that returns a key returns the one in    *)
(* adbkey, adbkey.pub is its public half, and without a crash no temporary *)
(* file is left over, for every number of callers, processes, crashes and  *)
(* files.                                                                  *)
THEOREM KeyStoreSafe == SetupSpec => []KeysSafe
  <1>1. KeyInv => KeysSafe
    <2> SUFFICES ASSUME KeyInv PROVE KeysSafe
      OBVIOUS
    <2>1. OneIdentity
      <3> SUFFICES ASSUME NEW t \in KeyThreads, keeper[t].pc = "ok"
                   PROVE  /\ exists(Private) /\ exists(Public)
                          /\ Held(Private) = [kind |-> "private", key |-> keeper[t].key]
        BY DEF OneIdentity
      <3>1. exists(Private) /\ Held(Private).key = keeper[t].key /\ exists(Public)
        BY DEF KeyInv, Knows, Adopted
      <3>2. Held(Private) \in [kind : Kinds, key : 0 .. Foreign] /\ Held(Private).kind = "private"
        BY <3>1 DEF KeyInv, KeyTypeOK, PrivateIsPrivate, exists, Held
      <3> QED BY <3>1, <3>2
    <2>2. NoLitter
      BY DEF KeyInv, TempsWritten, NoLitter, Writing, AtWork
    <2> QED BY <2>1, <2>2 DEF KeyInv, KeysSafe
  <1> QED BY <1>1, KeyInvHolds, PTL

(* adbkey is never replaced and never changed once it is there: the step   *)
(* that links it is the only one to give it a file, and whoever writes a   *)
(* file writes one that has no other name (publish_new).                   *)
THEOREM KeyNeverTouched == SetupSpec => KeyUntouched
  <1> DEFINE Kept == exists(Private) => /\ names'[Private] = names[Private]
                                        /\ files'[names[Private]] = files[names[Private]]
  <1>1. KeyInv /\ [SetupNext]_setupVars => [Kept]_keyVars
    <2> SUFFICES ASSUME KeyInv, [SetupNext]_setupVars, ~UNCHANGED keyVars PROVE Kept
      OBVIOUS
    <2>1. KeyNext
      BY DEF SetupNext, setupVars, KeysAct, PairAct, Connect, ConnectAct, LinkAct
    <2> QED BY <2>1, KeyStepKeeps DEF KeyKept
  <1> QED BY <1>1, KeyInvHolds, PTL DEF SetupSpec, KeyUntouched

-----------------------------------------------------------------------------
(* Pairing.                                                                *)

(* What each side has sealed is under its own key.                         *)
SealedBy(q, key) == \A i \in DOMAIN q : q[i].body.what = "info" => q[i].body.key = key
SealedByOwner == SealedBy(to_host, DevKey) /\ SealedBy(to_server, HostKey)

SpakeFrame == Spake2Frame(TRUE, TRUE)

(* While nothing goes wrong and the host is at work, the two sides are at  *)
(* most a message apart.                                                   *)
InStep(dev, server, host) == pair_dev.pc = dev /\ to_server = server /\ to_host = host
PairInStep ==
    /\ pair_host.pc = "start_tls" => InStep("spake2", <<>>, <<>>)
    /\ pair_host.pc = "spake2" =>
         InStep("spake2", <<>>, <<>>) \/ InStep("theirs", <<>>, <<SpakeFrame>>)
    /\ pair_host.pc = "theirs" =>
         \/ InStep("spake2", <<SpakeFrame>>, <<>>)
         \/ InStep("theirs", <<SpakeFrame>>, <<SpakeFrame>>)
         \/ InStep("key", <<>>, <<SpakeFrame, Sealed(DevKey, 0, "guid")>>)
    /\ pair_host.pc = "mine" =>
         \/ InStep("theirs", <<SpakeFrame>>, <<>>)
         \/ InStep("key", <<>>, <<Sealed(DevKey, 0, "guid")>>)
    /\ pair_host.pc = "answer" => ~pair_host.long
    /\ pair_host.pc = "answer" =>
         \/ InStep("theirs", <<SpakeFrame, Sealed(HostKey, 0, "rsa")>>, <<>>)
         \/ InStep("key", <<Sealed(HostKey, 0, "rsa")>>, <<Sealed(DevKey, 0, "guid")>>)
         \/ InStep("gone", <<>>, <<Sealed(DevKey, 0, "guid")>>)

PairInv ==
    /\ PairTypeOK /\ SealedByOwner /\ PairedMeansSameCode /\ PairVerdict
    /\ pair_faults = 0 => PairInStep

(* A queue of one frame gets a second.                                     *)
LEMMA AppendPair ==
    ASSUME NEW x, NEW y
    PROVE  Append(<<x>>, y) = <<x, y>>
  <1> DEFINE S == {x, y}
             a == Append(<<x>>, y)
             b == <<x, y>>
  <1>1. <<x>> \in Seq(S) /\ Len(<<x>>) = 1
    OBVIOUS
  <1>2. a \in Seq(S) /\ Len(a) = 2 /\ a[1] = x /\ a[2] = y
    BY <1>1
  <1>3. b \in Seq(S) /\ Len(b) = 2 /\ b[1] = x /\ b[2] = y
    OBVIOUS
  <1> HIDE DEF S, a, b
  <1>4. Len(a) = Len(b) /\ \A i \in 1 .. Len(a) : a[i] = b[i]
    BY <1>2, <1>3
  <1> QED BY <1>2, <1>3, <1>4, SeqEqual DEF a, b

(* The frames the two sides send are frames, and say what they are.        *)
LEMMA FrameFacts ==
    /\ SpakeFrame \in Frames /\ SpakeFrame.body.what = "spake2" /\ SpakeFrame.header_ok
    /\ SpakeFrame.kind = "Spake2Msg" /\ SpakeFrame.body.fit /\ SpakeFrame.body.point
    /\ \A key \in Keys, block \in {"rsa", "guid"} :
         /\ Sealed(key, 0, block) \in Frames /\ Sealed(key, 0, block).header_ok
         /\ Sealed(key, 0, block).kind = "PeerInfo" /\ Sealed(key, 0, block).body.what = "info"
         /\ Sealed(key, 0, block).body.fit /\ Sealed(key, 0, block).body.key = key
         /\ Sealed(key, 0, block).body.count = 0 /\ Sealed(key, 0, block).body.block = block
  <1>1. /\ SpakeFrame \in Frames /\ SpakeFrame.body.what = "spake2" /\ SpakeFrame.header_ok
        /\ SpakeFrame.kind = "Spake2Msg" /\ SpakeFrame.body.fit /\ SpakeFrame.body.point
    BY DEF SpakeFrame, Spake2Frame, Frames, Bodies
  <1>2. ASSUME NEW key \in Keys, NEW block \in {"rsa", "guid"}
        PROVE  /\ Sealed(key, 0, block) \in Frames /\ Sealed(key, 0, block).header_ok
               /\ Sealed(key, 0, block).kind = "PeerInfo"
               /\ Sealed(key, 0, block).body.what = "info"
               /\ Sealed(key, 0, block).body.fit /\ Sealed(key, 0, block).body.key = key
               /\ Sealed(key, 0, block).body.count = 0
               /\ Sealed(key, 0, block).body.block = block
    BY DEF Sealed, Frames, Bodies
  <1> QED BY <1>1, <1>2

(* Short queues.                                                           *)
LEMMA ShortQueues ==
    ASSUME NEW x, NEW y
    PROVE  /\ Append(<<>>, x) = <<x>> /\ Append(<<x>>, y) = <<x, y>>
           /\ <<x>> # <<>> /\ Head(<<x>>) = x /\ Tail(<<x>>) = <<>>
           /\ <<x, y>> # <<>> /\ Head(<<x, y>>) = x /\ Tail(<<x, y>>) = <<y>>
  <1>1. Append(<<x>>, y) = <<x, y>>
    BY AppendPair
  <1>2. Append(<<>>, x) = <<x>> /\ <<x>> # <<>> /\ Head(<<x>>) = x /\ Tail(<<x>>) = <<>>
    OBVIOUS
  <1>3. <<x, y>> # <<>> /\ Head(<<x, y>>) = x /\ Tail(<<x, y>>) = <<y>>
    OBVIOUS
  <1> QED BY <1>1, <1>2, <1>3

(* Whose seal the frames of a queue carry, as it grows, shrinks and is cut.*)
LEMMA SealedQueue ==
    ASSUME NEW q \in Seq(Frames), NEW key, SealedBy(q, key)
    PROVE  /\ \A f \in Frames : (f.body.what = "info" => f.body.key = key) =>
                SealedBy(Append(q, f), key) /\ Append(q, f) \in Seq(Frames)
           /\ q # <<>> => /\ SealedBy(Tail(q), key) /\ Tail(q) \in Seq(Frames)
                          /\ Head(q) \in Frames
                          /\ Head(q).body.what = "info" => Head(q).body.key = key
           /\ \A n \in 0 .. Len(q) :
                SealedBy(SubSeq(q, 1, n), key) /\ SubSeq(q, 1, n) \in Seq(Frames)
  <1>1. ASSUME NEW f \in Frames, f.body.what = "info" => f.body.key = key
        PROVE  SealedBy(Append(q, f), key) /\ Append(q, f) \in Seq(Frames)
    BY <1>1 DEF SealedBy
  <1>2. ASSUME q # <<>>
        PROVE  /\ SealedBy(Tail(q), key) /\ Tail(q) \in Seq(Frames) /\ Head(q) \in Frames
               /\ Head(q).body.what = "info" => Head(q).body.key = key
    BY <1>2 DEF SealedBy
  <1>3. ASSUME NEW n \in 0 .. Len(q)
        PROVE  SealedBy(SubSeq(q, 1, n), key) /\ SubSeq(q, 1, n) \in Seq(Frames)
    BY <1>3 DEF SealedBy
  <1> QED BY <1>1, <1>2, <1>3

(* A step of the host that moves it on, or ends in an error.               *)
LEMMA HostMoves ==
    ASSUME PairTypeOK, NEW pc \in {"spake2", "theirs", "mine", "answer", "ok", "error"},
           NEW err \in PairErrors,
           pair_host' = [pair_host EXCEPT !.pc = pc, !.err = err], UNCHANGED pair_dev
    PROVE  /\ pair_host' \in [pc : {"start_tls", "spake2", "theirs", "mine", "answer", "ok",
                                    "error"},
                              err : PairErrors, code : Codes, session : Sessions,
                           long : BOOLEAN]
           /\ pair_host'.pc = pc /\ pair_host'.err = err
           /\ pair_host'.code = pair_host.code /\ pair_host'.session = pair_host.session
           /\ pair_host'.long = pair_host.long /\ HostKey' = HostKey /\ DevKey' = DevKey
  BY DEF PairTypeOK, HostKey, DevKey

(* The two keys.                                                           *)
LEMMA KeysTyped ==
    ASSUME PairTypeOK
    PROVE  /\ HostKey \in Keys /\ DevKey \in Keys
           /\ HostKey = DevKey <=> /\ pair_host.code = pair_dev.code
                                   /\ pair_host.session = pair_dev.session
  BY DEF PairTypeOK, HostKey, DevKey, Keys

HostTo(pc, err) == pair_host' = [pair_host EXCEPT !.pc = pc, !.err = err]

(* start_tls fails only when the device has gone.                          *)
LEMMA PairTlsStep ==
    ASSUME PairInv, PairTls
    PROVE  PairInv'
  <1>1. pair_host.pc = "start_tls" /\ UNCHANGED <<pair_dev, to_host, to_server, pair_faults>>
    BY DEF PairTls
  <1>2. HostTo("spake2", pair_host.err) \/ (~Up /\ HostTo("error", "Transport"))
    BY DEF PairInv, PairTypeOK, PairTls, PairFails, HostTo
  <1>3. PICK pc \in {"spake2", "error"}, err \in PairErrors :
          HostTo(pc, err) /\ (pc = "error" => ~Up)
    BY <1>2 DEF PairInv, PairTypeOK, PairErrors
  <1>4. /\ pair_host' \in [pc : {"start_tls", "spake2", "theirs", "mine", "answer", "ok", "error"},
                           err : PairErrors, code : Codes, session : Sessions,
                           long : BOOLEAN]
        /\ pair_host'.pc = pc /\ pair_host'.code = pair_host.code
        /\ pair_host'.session = pair_host.session /\ pair_host'.long = pair_host.long
        /\ HostKey' = HostKey /\ DevKey' = DevKey
    BY <1>1, <1>3, HostMoves DEF HostTo, PairInv
  <1>5. PairTypeOK'
    BY <1>1, <1>4 DEF PairInv, PairTypeOK
  <1>6. SealedByOwner' /\ PairedMeansSameCode'
    BY <1>1, <1>4 DEF PairInv, SealedByOwner, PairedMeansSameCode, SealedBy
  <1>7. pair_faults = 0 => pc = "spake2"
    BY <1>1, <1>3 DEF PairInv, PairInStep, InStep, Up
  <1>8. PairVerdict' /\ (pair_faults' = 0 => PairInStep')
    BY <1>1, <1>4, <1>7 DEF PairInv, PairVerdict, PairInStep, InStep
  <1> QED BY <1>5, <1>6, <1>8 DEF PairInv

(* A frame goes out, or the device is gone, which it is not while nothing  *)
(* goes wrong.                                                             *)
LEMMA PairSendStep ==
    ASSUME PairInv, NEW frame \in Frames, NEW to \in {"theirs", "answer"},
           \/ pair_host.pc = "spake2" /\ to = "theirs" /\ frame = SpakeFrame
           \/ /\ pair_host.pc = "mine" /\ ~pair_host.long
              /\ to = "answer" /\ frame = Sealed(HostKey, 0, "rsa"),
           PairSend(frame, to), UNCHANGED <<pair_dev, to_host, pair_faults>>
    PROVE  PairInv'
  <1>1. \/ HostTo(to, pair_host.err) /\ to_server' = Append(to_server, frame)
        \/ ~Up /\ HostTo("error", "Transport") /\ to_server' = to_server
    BY DEF PairInv, PairTypeOK, PairSend, PairFails, HostTo
  <1>2. PICK pc \in {"theirs", "answer", "error"}, err \in PairErrors :
          /\ HostTo(pc, err)
          /\ \/ pc = to /\ to_server' = Append(to_server, frame)
             \/ ~Up /\ pc = "error" /\ to_server' = to_server
    BY <1>1 DEF PairInv, PairTypeOK, PairErrors
  <1>3. /\ pair_host' \in [pc : {"start_tls", "spake2", "theirs", "mine", "answer", "ok", "error"},
                           err : PairErrors, code : Codes, session : Sessions,
                           long : BOOLEAN]
        /\ pair_host'.pc = pc /\ pair_host'.code = pair_host.code
        /\ pair_host'.session = pair_host.session /\ pair_host'.long = pair_host.long
        /\ HostKey' = HostKey /\ DevKey' = DevKey
    BY <1>2, HostMoves DEF HostTo, PairInv
  <1>4. frame.body.what = "info" => frame.body.key = HostKey
    BY FrameFacts, KeysTyped DEF PairInv
  <1>5. to_server' \in Seq(Frames) /\ SealedBy(to_server', HostKey)
    <2>1. to_server \in Seq(Frames) /\ SealedBy(to_server, HostKey)
      BY DEF PairInv, PairTypeOK, SealedByOwner
    <2>2. SealedBy(Append(to_server, frame), HostKey) /\ Append(to_server, frame) \in Seq(Frames)
      BY <1>4, <2>1, SealedQueue
    <2> QED BY <1>2, <2>1, <2>2
  <1>6. PairTypeOK' /\ SealedByOwner' /\ PairedMeansSameCode'
    BY <1>3, <1>5 DEF PairInv, PairTypeOK, SealedByOwner, PairedMeansSameCode
  <1>7. ASSUME pair_faults = 0
        PROVE  PairInStep' /\ pc # "error"
    <2>1. Up /\ pc = to /\ to_server' = Append(to_server, frame)
      BY <1>2, <1>7 DEF PairInv, PairInStep, InStep, Up
    <2>2. CASE pair_host.pc = "spake2"
      <3>1. \/ InStep("spake2", <<>>, <<>>)
            \/ InStep("theirs", <<>>, <<SpakeFrame>>)
        BY <1>7, <2>2 DEF PairInv, PairInStep
      <3>2. to_server' = <<SpakeFrame>>
        BY <2>1, <2>2, <3>1, ShortQueues DEF InStep
      <3> QED BY <1>3, <2>1, <2>2, <3>1, <3>2 DEF PairInStep, InStep
    <2>3. CASE pair_host.pc = "mine"
      <3>1. \/ InStep("theirs", <<SpakeFrame>>, <<>>)
            \/ InStep("key", <<>>, <<Sealed(DevKey, 0, "guid")>>)
        BY <1>7, <2>3 DEF PairInv, PairInStep
      <3>2. \/ /\ InStep("theirs", <<SpakeFrame>>, <<>>)
               /\ to_server' = <<SpakeFrame, Sealed(HostKey, 0, "rsa")>>
            \/ /\ InStep("key", <<>>, <<Sealed(DevKey, 0, "guid")>>)
               /\ to_server' = <<Sealed(HostKey, 0, "rsa")>>
        BY <2>1, <2>3, <3>1, ShortQueues DEF InStep
      <3> QED BY <1>3, <2>1, <2>3, <3>2 DEF PairInStep, InStep
    <2> QED BY <2>2, <2>3
  <1>8. PairVerdict' /\ (pair_faults' = 0 => PairInStep')
    BY <1>3, <1>7 DEF PairVerdict
  <1> QED BY <1>6, <1>8 DEF PairInv

(* Each step of the host sends, or takes what came: its SPAKE2 message,    *)
LEMMA PairSpake2Step ==
    ASSUME PairInv, PairSpake2
    PROVE  PairInv'
  BY PairSendStep, FrameFacts DEF PairSpake2, SpakeFrame

(* its key, sealed.                                                        *)
LEMMA PairMineStep ==
    ASSUME PairInv, PairMine
    PROVE  PairInv'
  <1>1. CASE ~pair_host.long
    BY <1>1, PairSendStep, FrameFacts, KeysTyped DEF PairMine, PairInv
  <1>2. CASE pair_host.long
    <2>1. /\ HostTo("error", "PeerInfo")
          /\ UNCHANGED <<pair_dev, to_host, to_server, pair_faults>>
      BY <1>2 DEF PairMine, PairFails, HostTo
    <2>2. /\ pair_host' \in [pc : {"start_tls", "spake2", "theirs", "mine", "answer", "ok",
                                   "error"},
                             err : PairErrors, code : Codes, session : Sessions,
                             long : BOOLEAN]
          /\ pair_host'.pc = "error" /\ pair_host'.err = "PeerInfo"
          /\ pair_host'.code = pair_host.code /\ pair_host'.session = pair_host.session
          /\ pair_host'.long = pair_host.long /\ HostKey' = HostKey /\ DevKey' = DevKey
      BY <2>1, HostMoves DEF HostTo, PairInv, PairErrors
    <2>3. PairTypeOK' /\ SealedByOwner' /\ PairedMeansSameCode'
      BY <2>1, <2>2 DEF PairInv, PairTypeOK, SealedByOwner, PairedMeansSameCode, SealedBy
    <2>4. PairVerdict' /\ PairInStep'
      BY <1>2, <2>2 DEF PairVerdict, PairInStep
    <2> QED BY <2>3, <2>4 DEF PairInv
  <1> QED BY <1>1, <1>2 DEF PairInv, PairTypeOK

(* The device's SPAKE2 message is taken, or it is not one.                 *)
LEMMA PairTheirsStep ==
    ASSUME PairInv, PairTheirs
    PROVE  PairInv'
  <1> DEFINE fit == /\ Head(to_host).header_ok /\ Head(to_host).kind = "Spake2Msg"
                    /\ Head(to_host).body.what = "spake2" /\ Head(to_host).body.fit
                    /\ Head(to_host).body.point
  <1>1. /\ pair_host.pc = "theirs" /\ UNCHANGED <<pair_dev, to_server, pair_faults>>
        /\ \/ to_host = <<>> /\ ~Up /\ to_host' = to_host /\ HostTo("error", "Closed")
           \/ /\ to_host # <<>> /\ to_host' = Tail(to_host)
              /\ \/ HostTo("mine", pair_host.err)
                 \/ ~fit /\ HostTo("error", "Frame")
                 \/ ~fit /\ HostTo("error", "Spake2")
    BY DEF PairInv, PairTypeOK, PairTheirs, PairRecv, PairFails, HostTo
  <1> HIDE DEF fit
  <1>2. PICK pc \in {"mine", "error"}, err \in PairErrors :
          /\ HostTo(pc, err)
          /\ \/ to_host = <<>> /\ ~Up /\ to_host' = to_host /\ pc = "error"
             \/ to_host # <<>> /\ to_host' = Tail(to_host) /\ (fit => pc = "mine")
    BY <1>1 DEF PairInv, PairTypeOK, PairErrors
  <1>3. /\ pair_host' \in [pc : {"start_tls", "spake2", "theirs", "mine", "answer", "ok", "error"},
                           err : PairErrors, code : Codes, session : Sessions,
                           long : BOOLEAN]
        /\ pair_host'.pc = pc /\ pair_host'.code = pair_host.code
        /\ pair_host'.session = pair_host.session /\ pair_host'.long = pair_host.long
        /\ HostKey' = HostKey /\ DevKey' = DevKey
    BY <1>1, <1>2, HostMoves DEF HostTo, PairInv
  <1>4. to_host' \in Seq(Frames) /\ SealedBy(to_host', DevKey)
    <2>1. to_host \in Seq(Frames) /\ SealedBy(to_host, DevKey)
      BY DEF PairInv, PairTypeOK, SealedByOwner
    <2>2. to_host # <<>> => Tail(to_host) \in Seq(Frames) /\ SealedBy(Tail(to_host), DevKey)
      BY <2>1, SealedQueue
    <2> QED BY <1>2, <2>1, <2>2
  <1>5. PairTypeOK' /\ SealedByOwner' /\ PairedMeansSameCode'
    BY <1>1, <1>3, <1>4 DEF PairInv, PairTypeOK, SealedByOwner, PairedMeansSameCode
  <1>6. ASSUME pair_faults = 0
        PROVE  PairInStep' /\ pc # "error"
    <2>1. \/ InStep("spake2", <<SpakeFrame>>, <<>>)
          \/ InStep("theirs", <<SpakeFrame>>, <<SpakeFrame>>)
          \/ InStep("key", <<>>, <<SpakeFrame, Sealed(DevKey, 0, "guid")>>)
      BY <1>1, <1>6 DEF PairInv, PairInStep
    <2>2. /\ Head(to_host) = SpakeFrame
          /\ \/ InStep("theirs", <<SpakeFrame>>, <<SpakeFrame>>) /\ to_host' = <<>>
             \/ /\ InStep("key", <<>>, <<SpakeFrame, Sealed(DevKey, 0, "guid")>>)
                /\ to_host' = <<Sealed(DevKey, 0, "guid")>>
      <3>1. CASE to_host = <<>>
        BY <1>2, <2>1, <3>1, ShortQueues DEF InStep, Up
      <3>2. CASE to_host = <<SpakeFrame>>
        BY <1>2, <2>1, <3>2, ShortQueues DEF InStep
      <3>3. CASE to_host = <<SpakeFrame, Sealed(DevKey, 0, "guid")>>
        BY <1>2, <2>1, <3>3, ShortQueues DEF InStep
      <3> QED BY <2>1, <3>1, <3>2, <3>3 DEF InStep
    <2>3. to_host # <<>>
      BY <2>2, ShortQueues DEF InStep
    <2>4. pc = "mine"
      BY <1>2, <2>2, <2>3, FrameFacts DEF fit
    <2> QED BY <1>1, <1>3, <2>2, <2>4 DEF PairInStep, InStep
  <1>7. PairVerdict' /\ (pair_faults' = 0 => PairInStep')
    BY <1>1, <1>3, <1>6 DEF PairVerdict
  <1> QED BY <1>5, <1>7 DEF PairInv

(* Only a half that opens under the host's key ends the call in success.   *)
LEMMA PairAnswerStep ==
    ASSUME PairInv, PairAnswer
    PROVE  PairInv'
  <1> DEFINE opens == Opens(HostKey, 0, Head(to_host).body)
             fit == /\ Head(to_host).header_ok /\ Head(to_host).kind = "PeerInfo"
                    /\ Head(to_host).body.fit /\ Head(to_host).body.block = "guid"
  <1>1. /\ pair_host.pc = "answer" /\ UNCHANGED <<pair_dev, to_server, pair_faults>>
        /\ \/ to_host = <<>> /\ ~Up /\ to_host' = to_host /\ HostTo("error", "Closed")
           \/ /\ to_host # <<>> /\ to_host' = Tail(to_host)
              /\ \/ opens /\ HostTo("ok", pair_host.err)
                 \/ ~opens /\ HostTo("error", "WrongCode")
                 \/ ~fit /\ HostTo("error", "Frame")
                 \/ ~fit /\ HostTo("error", "PeerInfo")
    BY DEF PairInv, PairTypeOK, PairAnswer, PairRecv, PairFails, HostTo
  <1> HIDE DEF opens, fit
  <1>2. PICK pc \in {"ok", "error"}, err \in PairErrors :
          /\ HostTo(pc, err)
          /\ \/ to_host = <<>> /\ ~Up /\ to_host' = to_host /\ pc = "error"
             \/ /\ to_host # <<>> /\ to_host' = Tail(to_host) /\ (pc = "ok" => opens)
                /\ fit /\ pc = "error" => ~opens /\ err = "WrongCode"
    BY <1>1 DEF PairInv, PairTypeOK, PairErrors
  <1>3. /\ pair_host' \in [pc : {"start_tls", "spake2", "theirs", "mine", "answer", "ok", "error"},
                           err : PairErrors, code : Codes, session : Sessions,
                           long : BOOLEAN]
        /\ pair_host'.pc = pc /\ pair_host'.err = err /\ pair_host'.code = pair_host.code
        /\ pair_host'.session = pair_host.session /\ pair_host'.long = pair_host.long
        /\ HostKey' = HostKey /\ DevKey' = DevKey
    BY <1>1, <1>2, HostMoves DEF HostTo, PairInv
  <1>4. to_host' \in Seq(Frames) /\ SealedBy(to_host', DevKey)
    <2>1. to_host \in Seq(Frames) /\ SealedBy(to_host, DevKey)
      BY DEF PairInv, PairTypeOK, SealedByOwner
    <2>2. to_host # <<>> => Tail(to_host) \in Seq(Frames) /\ SealedBy(Tail(to_host), DevKey)
      BY <2>1, SealedQueue
    <2> QED BY <1>2, <2>1, <2>2
  <1>5. PairTypeOK' /\ SealedByOwner'
    BY <1>1, <1>3, <1>4 DEF PairInv, PairTypeOK, SealedByOwner
  <1>6. pc = "ok" => HostKey = DevKey
    BY <1>2, SealedQueue DEF opens, Opens, PairInv, PairTypeOK, SealedByOwner
  <1>7. PairedMeansSameCode'
    BY <1>1, <1>3, <1>6, KeysTyped DEF PairInv, PairedMeansSameCode
  <1>8. ASSUME pair_faults = 0, pc = "error"
        PROVE  err = "WrongCode" /\ HostKey # DevKey /\ ~pair_host.long
    <2>1. \/ InStep("theirs", <<SpakeFrame, Sealed(HostKey, 0, "rsa")>>, <<>>)
          \/ InStep("key", <<Sealed(HostKey, 0, "rsa")>>, <<Sealed(DevKey, 0, "guid")>>)
          \/ InStep("gone", <<>>, <<Sealed(DevKey, 0, "guid")>>)
      BY <1>1, <1>8 DEF PairInv, PairInStep
    <2>2. to_host # <<>> /\ Head(to_host) = Sealed(DevKey, 0, "guid")
      BY <1>2, <2>1, ShortQueues DEF InStep, Up
    <2>3. fit /\ (opens <=> HostKey = DevKey)
      BY <2>2, FrameFacts, KeysTyped DEF fit, opens, Opens, PairInv
    <2>4. ~pair_host.long
      BY <1>1, <1>8 DEF PairInv, PairInStep
    <2> QED BY <1>2, <1>8, <2>2, <2>3, <2>4
  <1>9. PairVerdict' /\ PairInStep'
    BY <1>1, <1>2, <1>3, <1>8 DEF PairVerdict, PairInStep
  <1> QED BY <1>5, <1>7, <1>9 DEF PairInv

(* A step of the server that moves it on.                                  *)
DevTo(pc, info, trusts) ==
    pair_dev' = [pair_dev EXCEPT !.pc = pc, !.sent_info = info, !.trusts = trusts]

(* What such a step leaves as it was, the pairing's key first.             *)
LEMMA DevMoves ==
    ASSUME PairTypeOK, NEW pc \in {"theirs", "key", "gone"}, NEW info \in BOOLEAN,
           NEW trusts \in BOOLEAN, DevTo(pc, info, trusts), UNCHANGED pair_host
    PROVE  /\ pair_dev' \in [pc : {"spake2", "theirs", "key", "gone"}, code : Codes,
                             session : Sessions, sent_info : BOOLEAN, trusts : BOOLEAN]
           /\ pair_dev'.pc = pc /\ pair_dev'.trusts = trusts
           /\ pair_dev'.code = pair_dev.code /\ pair_dev'.session = pair_dev.session
           /\ HostKey' = HostKey /\ DevKey' = DevKey
  BY DEF PairTypeOK, DevTo, HostKey, DevKey

(* What the device sends of its own is under its own key.                  *)
LEMMA DevSends ==
    ASSUME PairInv, NEW f \in Frames, f.body.what = "info" => f.body.key = DevKey
    PROVE  Append(to_host, f) \in Seq(Frames) /\ SealedBy(Append(to_host, f), DevKey)
  <1>1. to_host \in Seq(Frames) /\ SealedBy(to_host, DevKey)
    BY DEF PairInv, PairTypeOK, SealedByOwner
  <1> QED BY <1>1, SealedQueue

(* The server takes the host's frame from the front of its queue.          *)
LEMMA DevTakes ==
    ASSUME PairInv, to_server # <<>>
    PROVE  /\ Tail(to_server) \in Seq(Frames) /\ SealedBy(Tail(to_server), HostKey)
           /\ Head(to_server) \in Frames
           /\ Head(to_server).body.what = "info" => Head(to_server).body.key = HostKey
  <1>1. to_server \in Seq(Frames) /\ SealedBy(to_server, HostKey)
    BY DEF PairInv, PairTypeOK, SealedByOwner
  <1> QED BY <1>1, SealedQueue

(* The server sends its SPAKE2 message.                                    *)
LEMMA ServerSpake2Step ==
    ASSUME PairInv, ServerSpake2
    PROVE  PairInv'
  <1>1. /\ pair_dev.pc = "spake2" /\ pair_host.pc # "start_tls"
        /\ to_host' = Append(to_host, SpakeFrame) /\ UNCHANGED <<pair_host, to_server, pair_faults>>
        /\ DevTo("theirs", pair_dev.sent_info, pair_dev.trusts)
    BY DEF ServerSpake2, SpakeFrame, DevTo, PairInv, PairTypeOK
  <1>2. /\ pair_dev' \in [pc : {"spake2", "theirs", "key", "gone"}, code : Codes,
                          session : Sessions, sent_info : BOOLEAN, trusts : BOOLEAN]
        /\ pair_dev'.pc = "theirs" /\ pair_dev'.trusts = pair_dev.trusts
        /\ pair_dev'.code = pair_dev.code /\ pair_dev'.session = pair_dev.session
        /\ HostKey' = HostKey /\ DevKey' = DevKey
    <2>1. pair_dev.sent_info \in BOOLEAN /\ pair_dev.trusts \in BOOLEAN
      BY DEF PairInv, PairTypeOK
    <2> QED BY <1>1, <2>1, DevMoves DEF PairInv
  <1>3. to_host' \in Seq(Frames) /\ SealedBy(to_host', DevKey)
    BY <1>1, DevSends, FrameFacts
  <1>4. PairTypeOK' /\ SealedByOwner' /\ PairedMeansSameCode' /\ PairVerdict'
    BY <1>1, <1>2, <1>3
       DEF PairInv, PairTypeOK, SealedByOwner, PairedMeansSameCode, PairVerdict
  <1>5. ASSUME pair_faults = 0 PROVE PairInStep'
    <2>1. \/ pair_host.pc = "spake2" /\ InStep("spake2", <<>>, <<>>)
          \/ pair_host.pc = "theirs" /\ InStep("spake2", <<SpakeFrame>>, <<>>)
          \/ pair_host.pc \in {"ok", "error"}
      BY <1>1, <1>5 DEF PairInv, PairTypeOK, PairInStep, InStep
    <2>2. pair_host.pc \in {"spake2", "theirs"} => to_host' = <<SpakeFrame>>
      BY <1>1, <2>1, ShortQueues DEF InStep
    <2> QED BY <1>1, <1>2, <2>1, <2>2 DEF PairInStep, InStep
  <1> QED BY <1>1, <1>4, <1>5 DEF PairInv

(* The server takes the host's SPAKE2 message and answers with its half.   *)
LEMMA ServerInfoStep ==
    ASSUME PairInv, ServerInfo
    PROVE  PairInv'
  <1> DEFINE mine == Sealed(DevKey, 0, "guid")
  <1>1. /\ pair_dev.pc = "theirs" /\ to_server # <<>> /\ to_server' = Tail(to_server)
        /\ to_host' = Append(to_host, mine) /\ UNCHANGED <<pair_host, pair_faults>>
        /\ DevTo("key", TRUE, pair_dev.trusts)
    BY DEF ServerInfo, DevTo, PairInv, PairTypeOK
  <1>2. mine \in Frames /\ mine.body.key = DevKey
    BY FrameFacts, KeysTyped DEF PairInv
  <1> HIDE DEF mine
  <1>3. /\ pair_dev' \in [pc : {"spake2", "theirs", "key", "gone"}, code : Codes,
                          session : Sessions, sent_info : BOOLEAN, trusts : BOOLEAN]
        /\ pair_dev'.pc = "key" /\ pair_dev'.trusts = pair_dev.trusts
        /\ pair_dev'.code = pair_dev.code /\ pair_dev'.session = pair_dev.session
        /\ HostKey' = HostKey /\ DevKey' = DevKey
    <2>1. pair_dev.trusts \in BOOLEAN
      BY DEF PairInv, PairTypeOK
    <2> QED BY <1>1, <2>1, DevMoves DEF PairInv
  <1>4. to_host' \in Seq(Frames) /\ SealedBy(to_host', DevKey)
    BY <1>1, <1>2, DevSends
  <1>5. to_server' \in Seq(Frames) /\ SealedBy(to_server', HostKey)
    BY <1>1, DevTakes
  <1>6. PairTypeOK' /\ SealedByOwner' /\ PairedMeansSameCode' /\ PairVerdict'
    BY <1>1, <1>3, <1>4, <1>5
       DEF PairInv, PairTypeOK, SealedByOwner, PairedMeansSameCode, PairVerdict
  <1>7. ASSUME pair_faults = 0 PROVE PairInStep'
    <2>1. \/ pair_host.pc = "theirs" /\ InStep("theirs", <<SpakeFrame>>, <<SpakeFrame>>)
          \/ pair_host.pc = "mine" /\ InStep("theirs", <<SpakeFrame>>, <<>>)
          \/ /\ pair_host.pc = "answer"
             /\ InStep("theirs", <<SpakeFrame, Sealed(HostKey, 0, "rsa")>>, <<>>)
          \/ pair_host.pc \in {"ok", "error"}
      BY <1>1, <1>7 DEF PairInv, PairTypeOK, PairInStep, InStep
    <2>2. /\ pair_host.pc = "theirs" => to_server' = <<>> /\ to_host' = <<SpakeFrame, mine>>
          /\ pair_host.pc = "mine" => to_server' = <<>> /\ to_host' = <<mine>>
          /\ pair_host.pc = "answer" =>
               to_server' = <<Sealed(HostKey, 0, "rsa")>> /\ to_host' = <<mine>>
      <3>1. CASE pair_host.pc = "theirs"
        BY <1>1, <2>1, <3>1, ShortQueues DEF InStep
      <3>2. CASE pair_host.pc = "mine"
        BY <1>1, <2>1, <3>2, ShortQueues DEF InStep
      <3>3. CASE pair_host.pc = "answer"
        <4>1. to_server = <<SpakeFrame, Sealed(HostKey, 0, "rsa")>> /\ to_host = <<>>
          BY <2>1, <3>3 DEF InStep
        <4>2. to_server' = <<Sealed(HostKey, 0, "rsa")>>
          BY <1>1, <4>1, ShortQueues
        <4>3. to_host' = <<mine>>
          BY <1>1, <4>1, ShortQueues
        <4> QED BY <3>3, <4>2, <4>3
      <3> QED BY <3>1, <3>2, <3>3
    <2>3. pair_host.pc = "answer" => ~pair_host.long
      BY <1>1, <1>7 DEF PairInv, PairInStep
    <2> QED BY <1>1, <1>3, <2>1, <2>2, <2>3 DEF PairInStep, InStep, mine
  <1> QED BY <1>1, <1>6, <1>7 DEF PairInv

(* The device trusts what opens under its own key, which only the host's   *)
(* own key can have sealed.                                                *)
LEMMA ServerKeyStep ==
    ASSUME PairInv, ServerKey
    PROVE  PairInv'
  <1> DEFINE opens == Opens(DevKey, 0, Head(to_server).body)
  <1>1. /\ pair_dev.pc = "key" /\ to_server # <<>> /\ to_server' = Tail(to_server)
        /\ UNCHANGED <<pair_host, to_host, pair_faults>>
        /\ DevTo("gone", pair_dev.sent_info, opens)
    BY DEF ServerKey, DevTo, PairInv, PairTypeOK
  <1>2. opens \in BOOLEAN /\ (opens => HostKey = DevKey)
    BY <1>1, DevTakes DEF Opens
  <1> HIDE DEF opens
  <1>3. /\ pair_dev' \in [pc : {"spake2", "theirs", "key", "gone"}, code : Codes,
                          session : Sessions, sent_info : BOOLEAN, trusts : BOOLEAN]
        /\ pair_dev'.pc = "gone" /\ pair_dev'.trusts = opens
        /\ pair_dev'.code = pair_dev.code /\ pair_dev'.session = pair_dev.session
        /\ HostKey' = HostKey /\ DevKey' = DevKey
    <2>1. pair_dev.sent_info \in BOOLEAN
      BY DEF PairInv, PairTypeOK
    <2> QED BY <1>1, <1>2, <2>1, DevMoves DEF PairInv
  <1>4. to_server' \in Seq(Frames) /\ SealedBy(to_server', HostKey)
    BY <1>1, DevTakes
  <1>5. PairTypeOK' /\ SealedByOwner' /\ PairVerdict'
    BY <1>1, <1>3, <1>4 DEF PairInv, PairTypeOK, SealedByOwner, PairVerdict
  <1>6. PairedMeansSameCode'
    BY <1>1, <1>2, <1>3, KeysTyped DEF PairInv, PairedMeansSameCode
  <1>7. ASSUME pair_faults = 0 PROVE PairInStep'
    <2>1. \/ /\ pair_host.pc = "answer"
             /\ InStep("key", <<Sealed(HostKey, 0, "rsa")>>, <<Sealed(DevKey, 0, "guid")>>)
          \/ pair_host.pc \in {"ok", "error"}
      BY <1>1, <1>7 DEF PairInv, PairTypeOK, PairInStep, InStep
    <2>2. pair_host.pc = "answer" => to_server' = <<>>
      BY <1>1, <2>1, ShortQueues DEF InStep
    <2>3. pair_host.pc = "answer" => ~pair_host.long
      BY <1>1, <1>7 DEF PairInv, PairInStep
    <2> QED BY <1>1, <1>3, <2>1, <2>2, <2>3 DEF PairInStep, InStep
  <1> QED BY <1>1, <1>5, <1>6, <1>7 DEF PairInv

(* Once the host has ended, or something has gone wrong, who is where does *)
(* not matter any more.                                                    *)
LEMMA ServerEndsStep ==
    ASSUME PairInv, ServerClosed \/ ServerOdd \/ PairLost
    PROVE  PairInv'
  <1>1. /\ pair_host' = pair_host /\ pair_faults' \in 0 .. MaxPairFault
        /\ pair_host.pc \in {"ok", "error"} \/ pair_faults' # 0
        /\ pair_faults' = 0 => pair_faults = 0
        /\ pair_dev' = pair_dev \/ DevTo("gone", pair_dev.sent_info, pair_dev.trusts)
        /\ to_server' = to_server \/ to_server' = <<>>
    <2>1. pair_faults \in Nat /\ pair_faults <= MaxPairFault
      BY PairAssumption DEF PairInv, PairTypeOK
    <2>2. [pair_dev EXCEPT !.pc = "gone"] =
            [pair_dev EXCEPT !.pc = "gone", !.sent_info = pair_dev.sent_info,
                             !.trusts = pair_dev.trusts]
      BY DEF PairInv, PairTypeOK
    <2>3. CASE ServerClosed
      BY <2>1, <2>2, <2>3, PairAssumption DEF ServerClosed, DevTo
    <2>4. CASE ServerOdd
      BY <2>1, <2>4, PairAssumption DEF ServerOdd
    <2>5. CASE PairLost
      BY <2>1, <2>2, <2>5, PairAssumption DEF PairLost, DevTo
    <2> QED BY <2>3, <2>4, <2>5
  <1>2. /\ pair_dev' \in [pc : {"spake2", "theirs", "key", "gone"}, code : Codes,
                          session : Sessions, sent_info : BOOLEAN, trusts : BOOLEAN]
        /\ pair_dev'.trusts = pair_dev.trusts
        /\ pair_dev'.code = pair_dev.code /\ pair_dev'.session = pair_dev.session
        /\ HostKey' = HostKey /\ DevKey' = DevKey
    <2>1. CASE pair_dev' = pair_dev
      BY <1>1, <2>1 DEF PairInv, PairTypeOK, HostKey, DevKey
    <2>2. CASE DevTo("gone", pair_dev.sent_info, pair_dev.trusts)
      <3>1. pair_dev.sent_info \in BOOLEAN /\ pair_dev.trusts \in BOOLEAN
        BY DEF PairInv, PairTypeOK
      <3> QED BY <1>1, <2>2, <3>1, DevMoves DEF PairInv
    <2> QED BY <1>1, <2>1, <2>2
  <1>3. to_server' \in Seq(Frames) /\ SealedBy(to_server', HostKey)
    <2>1. to_server \in Seq(Frames) /\ SealedBy(to_server, HostKey)
      BY DEF PairInv, PairTypeOK, SealedByOwner
    <2>2. <<>> \in Seq(Frames) /\ SealedBy(<<>>, HostKey)
      BY DEF SealedBy
    <2> QED BY <1>1, <2>1, <2>2
  <1>4. to_host' \in Seq(Frames) /\ SealedBy(to_host', DevKey)
    <2>1. to_host \in Seq(Frames) /\ SealedBy(to_host, DevKey)
      BY DEF PairInv, PairTypeOK, SealedByOwner
    <2>2. CASE ServerClosed
      BY <2>1, <2>2 DEF ServerClosed
    <2>3. CASE ServerOdd
      BY <2>3, DevSends DEF ServerOdd
    <2>4. CASE PairLost
      <3>1. PICK n \in 0 .. Len(to_host) : to_host' = SubSeq(to_host, 1, n)
        BY <2>4 DEF PairLost
      <3> QED BY <2>1, <3>1, SealedQueue
    <2> QED BY <2>2, <2>3, <2>4
  <1>5. PairTypeOK' /\ SealedByOwner' /\ PairedMeansSameCode' /\ PairVerdict'
    BY <1>1, <1>2, <1>3, <1>4
       DEF PairInv, PairTypeOK, SealedByOwner, PairedMeansSameCode, PairVerdict
  <1>6. pair_faults' = 0 => PairInStep'
    BY <1>1 DEF PairInStep
  <1> QED BY <1>5, <1>6 DEF PairInv

(* Every step of a pairing keeps its invariant,                            *)
LEMMA PairStepKeeps ==
    ASSUME PairInv, PairNext
    PROVE  PairInv'
  BY PairTlsStep, PairSpake2Step, PairTheirsStep, PairMineStep, PairAnswerStep,
     ServerSpake2Step, ServerInfoStep, ServerKeyStep, ServerEndsStep
     DEF PairNext, HostPairs, ServerPairs

(* which holds when it starts, and while there is none.                    *)
LEMMA PairStarts ==
    ASSUME PairInit \/ PairIdle
    PROVE  PairInv
  <1> DEFINE c == CHOOSE x \in Codes : TRUE
  <1>1. c \in Codes
    BY PairAssumption
  <1>2. /\ pair_host \in [pc : {"start_tls"}, err : {"none"}, code : Codes, session : {1},
                       long : BOOLEAN]
        /\ pair_dev \in [pc : {"spake2"}, code : Codes, session : Sessions, sent_info : {FALSE},
                         trusts : {FALSE}]
        /\ to_host = <<>> /\ to_server = <<>> /\ pair_faults = 0
    <2>1. CASE PairInit
      BY <2>1 DEF PairInit
    <2>2. CASE PairIdle
      <3>1. /\ pair_host = [pc |-> "start_tls", err |-> "none", code |-> c, session |-> 1,
                            long |-> FALSE]
            /\ pair_dev = [pc |-> "spake2", code |-> c, session |-> 1, sent_info |-> FALSE,
                           trusts |-> FALSE]
            /\ to_host = <<>> /\ to_server = <<>> /\ pair_faults = 0
        BY <2>2 DEF PairIdle
      <3> HIDE DEF c
      <3> QED BY <1>1, <3>1 DEF Sessions
    <2> QED BY <2>1, <2>2
  <1>3. /\ pair_host.pc = "start_tls" /\ pair_dev.pc = "spake2" /\ ~pair_dev.trusts
        /\ pair_host \in [pc : {"start_tls", "spake2", "theirs", "mine", "answer", "ok", "error"},
                          err : PairErrors, code : Codes, session : Sessions,
                           long : BOOLEAN]
        /\ pair_dev \in [pc : {"spake2", "theirs", "key", "gone"}, code : Codes,
                         session : Sessions, sent_info : BOOLEAN, trusts : BOOLEAN]
    BY <1>2 DEF PairErrors, Sessions
  <1>4. PairTypeOK
    BY <1>2, <1>3, PairAssumption DEF PairTypeOK
  <1>5. SealedByOwner /\ PairedMeansSameCode /\ PairVerdict /\ PairInStep
    BY <1>2, <1>3
       DEF SealedByOwner, SealedBy, PairedMeansSameCode, PairVerdict, PairInStep, InStep
  <1> QED BY <1>4, <1>5 DEF PairInv

-----------------------------------------------------------------------------
(* The handshake.                                                          *)
IsAuth(p) == p.cmd \in {"token", "short", "auth"}
OneAuth(s) == \E i \in DOMAIN s : IsAuth(s[i])
TwoAuths(s) == \E i, j \in DOMAIN s : i < j /\ IsAuth(s[i]) /\ IsAuth(s[j])
AnyAuth == OneAuth(hs.buf) \/ OneAuth(net)
AnyTwoAuths == TwoAuths(hs.buf) \/ TwoAuths(net) \/ (OneAuth(hs.buf) /\ OneAuth(net))

(* The AUTH packets taken and under way are ones the device sent.          *)
Asked == adbd.tokens + adbd.odd
AuthsCounted ==
    /\ adbd.st \in {"off", "stls"} => adbd.tokens = 0
    /\ adbd.st = "asked" => adbd.tokens <= 1
    /\ adbd.tokens <= 2
    /\ AnyAuth => Asked >= 1
    /\ AnyTwoAuths => Asked >= 2
    /\ hs.pc \in {"sign", "signed"} => Asked >= 1 /\ (AnyAuth => Asked >= 2)
    /\ hs.pc \in {"offer", "offered"} => Asked >= 2

(* A stream that has gone over to TLS carries nothing plain any more.      *)
AllTls(s) == \A i \in DOMAIN s : s[i].tls
NoTls(s) == \A i \in DOMAIN s : ~s[i].tls
TlsLast(s) == \A i, j \in DOMAIN s : i < j /\ s[i].tls => s[j].tls
TlsInOrder ==
    /\ TlsLast(net) /\ (adbd.tls \/ NoTls(net))
    /\ hs.tls => adbd.tls /\ AllTls(net) /\ AllTls(hs.buf)
    /\ hs.pc = "start_tls" => hs.buf = <<>>
    /\ hs.tls /\ hs.pc \in {"assemble", "ok"} => hs.got.tls

(* What a device that sends nothing odd still owes, or has sent.           *)
Stale(s) == \A i \in DOMAIN s : s[i].cmd = "stale"
OnlyStale == Stale(hs.buf) /\ Stale(net)
Quiet == hs.buf = <<>> /\ net = <<>>
LastPacket(s, p) ==
    s # <<>> /\ s[Len(s)] = p /\ \A i \in 1 .. Len(s) - 1 : s[i].cmd = "stale"
PendingIn(b, s, p) == (LastPacket(s, p) /\ Stale(b)) \/ (s = <<>> /\ LastPacket(b, p))
Pending(p) == PendingIn(hs.buf, net, p)

Packet(cmd) == [cmd |-> cmd, tls |-> adbd.tls, terms |-> NoTerms]
Cnxn == [cmd |-> "CNXN", tls |-> adbd.tls,
         terms |-> [adbd.mine EXCEPT !.payload = Min2(@, hs.mine.payload)]]
Online == adbd.st = "online" /\ adbd.terms = Settled(hs.mine, adbd.mine)
SaidCnxn == Online /\ Pending(Cnxn) /\ to_dev = <<>>
SaidToken(st) == adbd.st = st /\ Pending(Packet("token")) /\ to_dev = <<>>
Idle(st, sent) == adbd.st = st /\ Quiet /\ to_dev = sent
TurnedAway == ~adbd.trusts /\ adbd.st = "gone" /\ to_dev = <<>>

Calm ==
    /\ hs.cut => net # <<>>
    /\ adbd.st = "dialog" => ~adbd.trusts
    /\ hs.pc \notin {"error", "start_tls"} => hs.tls = adbd.tls
    /\ hs.tls => adbd.tls
    /\ hs.pc = "hello" => adbd.st = "off" /\ OnlyStale /\ to_dev = <<>> /\ ~hs.tls
    /\ hs.pc = "first" =>
         /\ ~hs.tls
         /\ \/ adbd.st = "off" /\ OnlyStale /\ to_dev = <<"CNXN">>
            \/ adbd.st = "stls" /\ adbd.wants_tls /\ Pending(Packet("STLS")) /\ to_dev = <<>>
            \/ SaidToken("asked") \/ SaidCnxn
    /\ hs.pc = "upgrade" => ~hs.tls /\ Idle("stls", <<>>)
    /\ hs.pc = "start_tls" =>
         /\ ~hs.tls /\ hs.buf = <<>> /\ AllTls(net)
         /\ \/ ~adbd.tls /\ Idle("stls", <<"STLS">>)
            \/ adbd.tls /\ \/ Idle("stls", <<>>) \/ SaidToken("asked") \/ SaidCnxn
                           \/ TurnedAway /\ (Quiet \/ Pending(Packet("alert")))
    /\ hs.pc = "secured" =>
         \/ Idle("stls", <<>>) \/ SaidToken("asked") \/ SaidCnxn
         \/ TurnedAway /\ (Quiet \/ Pending(Packet("alert")))
    /\ hs.pc = "sign" => Idle("asked", <<>>)
    /\ hs.pc = "signed" => Idle("asked", <<"SIGNATURE">>) \/ SaidToken("dialog") \/ SaidCnxn
    /\ hs.pc = "offer" => Idle("dialog", <<>>)
    /\ hs.pc = "offered" => Idle("dialog", <<"PUBKEY">>) \/ SaidCnxn \/ (TurnedAway /\ Quiet)
    /\ hs.pc \in {"assemble", "ok"} => Online /\ Quiet /\ to_dev = <<>> /\ hs.got = Cnxn
    /\ hs.pc = "ok" => hs.terms = adbd.terms
    /\ hs.pc = "error" /\ adbd.trusts /\ adbd.mine.banner_ok /\ (adbd.wants_tls => hs.use_tls)
         => hs.err = "SignFailed"
    /\ hs.pc # "error" => hs.err = "none"

OfferedOnly ==
    hs.pc = "offered" \/ "PUBKEY" \in HsRange(to_dev) => hs.may_offer /\ Asked >= 2

HsSafe == HsTypeOK /\ AuthsCounted /\ TlsInOrder /\ OfferedOnly
HsInv == HsSafe /\ (adbd.odd = 0 => Calm)

(* The device's stream, as it is read, taken from and added to.            *)
LEMMA PopFacts ==
    ASSUME NEW s \in Seq(HsPackets), s # <<>>
    PROVE  /\ Tail(s) \in Seq(HsPackets) /\ Head(s) \in HsPackets
           /\ OneAuth(Tail(s)) => OneAuth(s)
           /\ TwoAuths(Tail(s)) => TwoAuths(s)
           /\ IsAuth(Head(s)) => OneAuth(s) /\ (OneAuth(Tail(s)) => TwoAuths(s))
           /\ AllTls(s) => AllTls(Tail(s)) /\ Head(s).tls
           /\ Stale(s) => Stale(Tail(s)) /\ Head(s).cmd = "stale"
           /\ \A p : LastPacket(s, p) =>
                /\ Head(s).cmd # "stale" => Head(s) = p /\ Tail(s) = <<>>
                /\ p.cmd # "stale" /\ Head(s).cmd = "stale" => LastPacket(Tail(s), p)
  <1>1. /\ Tail(s) \in Seq(HsPackets) /\ Head(s) \in HsPackets /\ Head(s) = s[1]
        /\ Len(s) \in Nat \ {0} /\ Len(Tail(s)) = Len(s) - 1
        /\ \A i \in 1 .. Len(s) - 1 : Tail(s)[i] = s[i + 1] /\ i + 1 \in DOMAIN s
        /\ DOMAIN Tail(s) = 1 .. Len(s) - 1 /\ DOMAIN s = 1 .. Len(s) /\ 1 \in DOMAIN s
    OBVIOUS
  <1>2. OneAuth(Tail(s)) => OneAuth(s)
    BY <1>1 DEF OneAuth
  <1>3. TwoAuths(Tail(s)) => TwoAuths(s)
    <2> SUFFICES ASSUME NEW i \in DOMAIN Tail(s), NEW j \in DOMAIN Tail(s), i < j,
                        IsAuth(Tail(s)[i]), IsAuth(Tail(s)[j])
                 PROVE  TwoAuths(s)
      BY DEF TwoAuths
    <2>1. i + 1 \in DOMAIN s /\ j + 1 \in DOMAIN s /\ i + 1 < j + 1
          /\ IsAuth(s[i + 1]) /\ IsAuth(s[j + 1])
      BY <1>1
    <2> QED BY <2>1 DEF TwoAuths
  <1>4. ASSUME IsAuth(Head(s)) PROVE OneAuth(s) /\ (OneAuth(Tail(s)) => TwoAuths(s))
    <2>1. OneAuth(s)
      BY <1>1, <1>4 DEF OneAuth
    <2>2. ASSUME NEW i \in DOMAIN Tail(s), IsAuth(Tail(s)[i]) PROVE TwoAuths(s)
      <3>1. i + 1 \in DOMAIN s /\ 1 \in DOMAIN s /\ 1 < i + 1 /\ IsAuth(s[i + 1]) /\ IsAuth(s[1])
        BY <1>1, <1>4, <2>2
      <3> QED BY <3>1 DEF TwoAuths
    <2> QED BY <2>1, <2>2 DEF OneAuth
  <1>5. AllTls(s) => AllTls(Tail(s)) /\ Head(s).tls
    BY <1>1 DEF AllTls
  <1>6. Stale(s) => Stale(Tail(s)) /\ Head(s).cmd = "stale"
    BY <1>1 DEF Stale
  <1>7. ASSUME NEW p, LastPacket(s, p), Head(s).cmd # "stale"
        PROVE  Head(s) = p /\ Tail(s) = <<>>
    <2>1. Len(s) = 1
      BY <1>1, <1>7 DEF LastPacket
    <2> QED BY <1>1, <1>7, <2>1 DEF LastPacket
  <1>8. ASSUME NEW p, LastPacket(s, p), p.cmd # "stale", Head(s).cmd = "stale"
        PROVE  LastPacket(Tail(s), p)
    <2>1. Len(s) # 1
      BY <1>1, <1>8 DEF LastPacket
    <2>2. Tail(s) # <<>> /\ Tail(s)[Len(s) - 1] = p
      <3>1. Len(s) - 1 \in 1 .. Len(s) - 1 /\ (Len(s) - 1) + 1 = Len(s)
        BY <1>1, <2>1
      <3>2. Tail(s)[Len(s) - 1] = s[Len(s)]
        BY <1>1, <3>1
      <3>3. Len(Tail(s)) # 0
        BY <1>1, <2>1
      <3>4. Tail(s) # <<>>
        <4>1. Len(<<>>) = 0
          OBVIOUS
        <4> QED BY <3>3, <4>1
      <3>5. s[Len(s)] = p
        BY <1>8 DEF LastPacket
      <3> QED BY <3>2, <3>4, <3>5
    <2>3. ASSUME NEW i \in 1 .. Len(Tail(s)) - 1 PROVE Tail(s)[i].cmd = "stale"
      <3>1. i + 1 \in 1 .. Len(s) - 1 /\ Tail(s)[i] = s[i + 1]
        BY <1>1, <2>1
      <3> QED BY <1>8, <3>1 DEF LastPacket
    <2> QED BY <1>1, <2>2, <2>3 DEF LastPacket
  <1> QED BY <1>1, <1>2, <1>3, <1>4, <1>5, <1>6, <1>7, <1>8

(* A read splits the stream in two.                                        *)
LEMMA ReadSplits ==
    ASSUME NEW s \in Seq(HsPackets), NEW n \in 1 .. Len(s)
    PROVE  LET a == SubSeq(s, 1, n)
               b == SubSeq(s, n + 1, Len(s))
           IN  /\ n \in Nat \ {0} /\ n <= Len(s)
               /\ a \in Seq(HsPackets) /\ b \in Seq(HsPackets)
               /\ Len(a) = n /\ \A i \in 1 .. n : a[i] = s[i]
               /\ Len(b) = Len(s) - n /\ \A i \in 1 .. Len(s) - n : b[i] = s[i + n]
  OBVIOUS

(* What holds of a stream holds of the two parts a read makes of it.       *)
LEMMA ReadFacts ==
    ASSUME NEW s \in Seq(HsPackets), NEW n \in Nat \ {0}, n <= Len(s),
           NEW a \in Seq(HsPackets), NEW b \in Seq(HsPackets),
           Len(a) = n, \A i \in 1 .. n : a[i] = s[i],
           Len(b) = Len(s) - n, \A i \in 1 .. Len(s) - n : b[i] = s[i + n]
    PROVE  /\ OneAuth(a) \/ OneAuth(b) => OneAuth(s)
           /\ TwoAuths(a) \/ TwoAuths(b) \/ (OneAuth(a) /\ OneAuth(b)) => TwoAuths(s)
           /\ AllTls(s) => AllTls(a) /\ AllTls(b)
           /\ TlsLast(s) => TlsLast(b)
           /\ NoTls(s) => NoTls(b)
           /\ Stale(s) => Stale(a) /\ Stale(b)
           /\ n < Len(s) => b # <<>>
           /\ \A p : LastPacket(s, p) =>
                (LastPacket(b, p) /\ Stale(a)) \/ (b = <<>> /\ LastPacket(a, p))
  <1>1. /\ Len(s) \in Nat
        /\ DOMAIN a = 1 .. n /\ DOMAIN b = 1 .. Len(s) - n /\ DOMAIN s = 1 .. Len(s)
        /\ \A i \in 1 .. n : a[i] = s[i] /\ i \in DOMAIN s
        /\ \A i \in 1 .. Len(s) - n : b[i] = s[i + n] /\ i + n \in DOMAIN s /\ i \in Nat
    <2>1. Len(s) \in Nat /\ DOMAIN s = 1 .. Len(s) /\ DOMAIN a = 1 .. n
      OBVIOUS
    <2>2. DOMAIN b = 1 .. Len(s) - n
      OBVIOUS
    <2>3. ASSUME NEW i \in 1 .. n PROVE i \in 1 .. Len(s)
      BY <2>1
    <2>4. ASSUME NEW i \in 1 .. Len(s) - n PROVE i + n \in 1 .. Len(s) /\ i \in Nat
      BY <2>1
    <2> QED BY <2>1, <2>2, <2>3, <2>4
  <1>2. OneAuth(a) \/ OneAuth(b) => OneAuth(s)
    BY <1>1 DEF OneAuth
  <1>3. TwoAuths(a) => TwoAuths(s)
    BY <1>1 DEF TwoAuths
  <1>4. ASSUME NEW i \in DOMAIN b, NEW j \in DOMAIN b, i < j, IsAuth(b[i]), IsAuth(b[j])
        PROVE  TwoAuths(s)
    <2>1. /\ i + n \in DOMAIN s /\ j + n \in DOMAIN s /\ i + n < j + n
          /\ IsAuth(s[i + n]) /\ IsAuth(s[j + n])
      <3>1. i \in 1 .. Len(s) - n /\ j \in 1 .. Len(s) - n
        BY <1>1
      <3>2. b[i] = s[i + n] /\ b[j] = s[j + n] /\ i + n \in DOMAIN s /\ j + n \in DOMAIN s
            /\ i \in Nat /\ j \in Nat
        BY <1>1, <3>1
      <3>3. i + n < j + n
        BY <1>4, <3>2
      <3> QED BY <1>4, <3>2, <3>3
    <2> QED BY <2>1 DEF TwoAuths
  <1>5. ASSUME NEW i \in DOMAIN a, NEW j \in DOMAIN b, IsAuth(a[i]), IsAuth(b[j])
        PROVE  TwoAuths(s)
    <2>1. /\ i \in DOMAIN s /\ j + n \in DOMAIN s /\ i < j + n
          /\ IsAuth(s[i]) /\ IsAuth(s[j + n])
      BY <1>1, <1>5
    <2> QED BY <2>1 DEF TwoAuths
  <1>6. TwoAuths(a) \/ TwoAuths(b) \/ (OneAuth(a) /\ OneAuth(b)) => TwoAuths(s)
    <2>1. TwoAuths(b) => TwoAuths(s)
      BY <1>4 DEF TwoAuths
    <2>2. OneAuth(a) /\ OneAuth(b) => TwoAuths(s)
      BY <1>5 DEF OneAuth
    <2> QED BY <1>3, <2>1, <2>2
  <1>7. AllTls(s) => AllTls(a) /\ AllTls(b)
    BY <1>1 DEF AllTls
  <1>8. ASSUME TlsLast(s), NEW i \in DOMAIN b, NEW j \in DOMAIN b, i < j, b[i].tls
        PROVE  b[j].tls
    <2>1. i + n \in DOMAIN s /\ j + n \in DOMAIN s /\ i + n < j + n /\ b[i] = s[i + n]
          /\ b[j] = s[j + n]
      <3>1. i \in 1 .. Len(s) - n /\ j \in 1 .. Len(s) - n
        BY <1>1
      <3>2. b[i] = s[i + n] /\ b[j] = s[j + n] /\ i + n \in DOMAIN s /\ j + n \in DOMAIN s
            /\ i \in Nat /\ j \in Nat
        BY <1>1, <3>1
      <3>3. i + n < j + n
        BY <1>8, <3>2
      <3> QED BY <3>2, <3>3
    <2> QED BY <1>8, <2>1 DEF TlsLast
  <1>9. NoTls(s) => NoTls(b)
    BY <1>1 DEF NoTls
  <1>10. Stale(s) => Stale(a) /\ Stale(b)
    <2>1. Stale(s) => Stale(a)
      BY <1>1 DEF Stale
    <2>2. ASSUME Stale(s), NEW i \in DOMAIN b PROVE b[i].cmd = "stale"
      <3>1. b[i] = s[i + n] /\ i + n \in DOMAIN s
        BY <1>1
      <3> QED BY <2>2, <3>1 DEF Stale
    <2> QED BY <2>1, <2>2 DEF Stale
  <1>11. n < Len(s) => b # <<>>
    BY <1>1
  <1>12. ASSUME NEW p, LastPacket(s, p), n = Len(s)
         PROVE  b = <<>> /\ LastPacket(a, p)
    BY <1>1, <1>12 DEF LastPacket
  <1>13. ASSUME NEW p, LastPacket(s, p), n < Len(s)
         PROVE  LastPacket(b, p) /\ Stale(a)
    <2>1. Stale(a)
      BY <1>1, <1>13 DEF LastPacket, Stale
    <2>2. b # <<>> /\ b[Len(b)] = p
      BY <1>1, <1>13 DEF LastPacket
    <2>3. ASSUME NEW i \in 1 .. Len(b) - 1 PROVE b[i].cmd = "stale"
      <3>1. i + n \in 1 .. Len(s) - 1 /\ b[i] = s[i + n]
        BY <1>1
      <3> QED BY <1>13, <3>1 DEF LastPacket
    <2> QED BY <2>1, <2>2, <2>3 DEF LastPacket
  <1>14. n = Len(s) \/ n < Len(s)
    BY <1>1
  <1>15. TlsLast(s) => TlsLast(b)
    BY <1>8 DEF TlsLast
  <1> QED BY <1>1, <1>2, <1>6, <1>7, <1>9, <1>10, <1>11, <1>12, <1>13, <1>14, <1>15

(* What the device appends to its stream changes that by one packet.       *)
LEMMA AddFacts ==
    ASSUME NEW s \in Seq(HsPackets), NEW e \in HsPackets, NEW b, b = Append(s, e)
    PROVE  /\ b \in Seq(HsPackets) /\ b # <<>>
           /\ OneAuth(b) => OneAuth(s) \/ IsAuth(e)
           /\ TwoAuths(b) => TwoAuths(s) \/ (OneAuth(s) /\ IsAuth(e))
           /\ AllTls(s) /\ e.tls => AllTls(b)
           /\ TlsLast(s) /\ (e.tls \/ NoTls(s)) => TlsLast(b)
           /\ NoTls(s) /\ ~e.tls => NoTls(b)
           /\ Stale(s) => LastPacket(b, e)
  <1>1. /\ b \in Seq(HsPackets) /\ b # <<>> /\ Len(s) \in Nat /\ Len(b) = Len(s) + 1
        /\ DOMAIN s = 1 .. Len(s) /\ DOMAIN b = 1 .. Len(s) + 1 /\ b[Len(s) + 1] = e
        /\ \A i \in 1 .. Len(s) : b[i] = s[i]
        /\ \A i \in 1 .. Len(s) + 1 : i \in 1 .. Len(s) \/ i = Len(s) + 1
    OBVIOUS
  <1>2. OneAuth(b) => OneAuth(s) \/ IsAuth(e)
    BY <1>1 DEF OneAuth
  <1>3. TwoAuths(b) => TwoAuths(s) \/ (OneAuth(s) /\ IsAuth(e))
    <2> SUFFICES ASSUME NEW i \in DOMAIN b, NEW j \in DOMAIN b, i < j, IsAuth(b[i]), IsAuth(b[j])
                 PROVE  TwoAuths(s) \/ (OneAuth(s) /\ IsAuth(e))
      BY DEF TwoAuths
    <2>1. i \in 1 .. Len(s)
      BY <1>1
    <2>2. CASE j \in 1 .. Len(s)
      BY <1>1, <2>1, <2>2 DEF TwoAuths
    <2>3. CASE j = Len(s) + 1
      BY <1>1, <2>1, <2>3 DEF OneAuth
    <2> QED BY <1>1, <2>2, <2>3
  <1>4. AllTls(s) /\ e.tls => AllTls(b)
    BY <1>1 DEF AllTls
  <1>5. TlsLast(s) /\ (e.tls \/ NoTls(s)) => TlsLast(b)
    <2> SUFFICES ASSUME TlsLast(s), e.tls \/ \A i \in DOMAIN s : ~s[i].tls,
                        NEW i \in DOMAIN b, NEW j \in DOMAIN b, i < j, b[i].tls
                 PROVE  b[j].tls
      BY DEF TlsLast, NoTls
    <2>1. i \in 1 .. Len(s)
      BY <1>1
    <2>2. CASE j \in 1 .. Len(s)
      BY <1>1, <2>1, <2>2 DEF TlsLast
    <2>3. CASE j = Len(s) + 1
      BY <1>1, <2>1, <2>3
    <2> QED BY <1>1, <2>2, <2>3
  <1>6. NoTls(s) /\ ~e.tls => NoTls(b)
    BY <1>1 DEF NoTls
  <1>7. Stale(s) => LastPacket(b, e)
    BY <1>1 DEF Stale, LastPacket
  <1> QED BY <1>1, <1>2, <1>3, <1>4, <1>5, <1>6, <1>7

(* The packet a lost connection cuts off is none any more.                 *)
LEMMA CutFacts ==
    ASSUME NEW s \in Seq(HsPackets), s # <<>>, NEW b, b = [s EXCEPT ![Len(s)].cmd = "part"]
    PROVE  /\ b \in Seq(HsPackets)
           /\ OneAuth(b) => OneAuth(s)
           /\ TwoAuths(b) => TwoAuths(s)
           /\ AllTls(s) => AllTls(b)
           /\ TlsLast(s) => TlsLast(b)
           /\ NoTls(s) => NoTls(b)
  <1>1. Len(s) \in DOMAIN s /\ Len(s) \in Nat \ {0} /\ DOMAIN s = 1 .. Len(s)
        /\ \A i \in DOMAIN s : s[i] \in HsPackets
    OBVIOUS
  <1> DEFINE e == [s[Len(s)] EXCEPT !.cmd = "part"]
  <1>2. e \in HsPackets /\ e.cmd = "part" /\ e.tls = s[Len(s)].tls
    BY <1>1 DEF HsPackets, Cmds
  <1>3. b = [s EXCEPT ![Len(s)] = e]
    OBVIOUS
  <1> HIDE DEF e
  <1>4. b \in Seq(HsPackets)
    BY <1>1, <1>2, <1>3
  <1>5. DOMAIN b = DOMAIN s /\ \A i \in DOMAIN s : b[i] = IF i = Len(s) THEN e ELSE s[i]
    BY <1>1, <1>3
  <1>6. \A i \in DOMAIN s : b[i].tls = s[i].tls /\ (IsAuth(b[i]) => IsAuth(s[i]))
    BY <1>2, <1>5 DEF IsAuth
  <1>7. (OneAuth(b) => OneAuth(s)) /\ (TwoAuths(b) => TwoAuths(s))
    BY <1>5, <1>6 DEF OneAuth, TwoAuths
  <1> QED BY <1>4, <1>5, <1>6, <1>7 DEF AllTls, NoTls, TlsLast

(* What the host sends is added to what the device reads, and the device   *)
(* takes it from the front.                                                *)
LEMMA SentFacts ==
    ASSUME NEW q \in Seq(Commands), NEW msg \in Commands
    PROVE  /\ Append(q, msg) \in Seq(Commands)
           /\ \A x : x \in HsRange(Append(q, msg)) => x \in HsRange(q) \/ x = msg
           /\ q # <<>> => Tail(q) \in Seq(Commands)
           /\ \A x : q # <<>> /\ x \in HsRange(Tail(q)) => x \in HsRange(q)
           /\ q = <<>> => Append(q, msg) = <<msg>>
           /\ Tail(<<msg>>) = <<>> /\ Head(<<msg>>) = msg
  <1>1. /\ Append(q, msg) \in Seq(Commands) /\ Len(q) \in Nat
        /\ \A i \in DOMAIN Append(q, msg) : i \in DOMAIN q \/ i = Len(q) + 1
        /\ \A i \in DOMAIN q : Append(q, msg)[i] = q[i]
        /\ Append(q, msg)[Len(q) + 1] = msg
    OBVIOUS
  <1>2. \A x : x \in HsRange(Append(q, msg)) => x \in HsRange(q) \/ x = msg
    BY <1>1 DEF HsRange
  <1>3. ASSUME q # <<>>
        PROVE  Tail(q) \in Seq(Commands)
               /\ \A i \in DOMAIN Tail(q) : i + 1 \in DOMAIN q /\ Tail(q)[i] = q[i + 1]
    BY <1>3
  <1>4. \A x : q # <<>> /\ x \in HsRange(Tail(q)) => x \in HsRange(q)
    BY <1>3 DEF HsRange
  <1>5. q = <<>> => Append(q, msg) = <<msg>>
    OBVIOUS
  <1>6. Tail(<<msg>>) = <<>> /\ Head(<<msg>>) = msg
    OBVIOUS
  <1> QED BY <1>1, <1>2, <1>3, <1>4, <1>5, <1>6

(* A step of the host that reads nothing keeps the safe part.              *)
LEMMA QuietHost ==
    ASSUME HsSafe, hs' \in Handshakes, to_dev' \in Seq(Commands), net' = net, adbd' = adbd,
           hs'.buf = hs.buf, hs'.tls = hs.tls, hs'.may_offer = hs.may_offer,
           hs'.pc = "start_tls" => hs.buf = <<>>,
           hs'.pc \in {"assemble", "ok"} => hs.pc = "assemble" /\ hs'.got = hs.got,
           hs'.pc \in {"sign", "signed"} => hs.pc \in {"sign", "signed"},
           hs'.pc \in {"offer", "offered"} => hs.pc = "offer",
           hs'.pc = "offered" \/ "PUBKEY" \in HsRange(to_dev') =>
             hs.pc = "offered" \/ "PUBKEY" \in HsRange(to_dev) \/ (hs.pc = "offer" /\ hs.may_offer)
    PROVE  HsSafe'
  <1>1. HsTypeOK'
    BY DEF HsSafe, HsTypeOK
  <1>2. (AnyAuth' <=> AnyAuth) /\ (AnyTwoAuths' <=> AnyTwoAuths) /\ Asked' = Asked
    BY DEF AnyAuth, AnyTwoAuths, Asked
  <1>3. AuthsCounted'
    BY <1>2 DEF HsSafe, AuthsCounted
  <1>4. TlsInOrder'
    BY DEF HsSafe, TlsInOrder
  <1>5. OfferedOnly'
    BY <1>2 DEF HsSafe, OfferedOnly, AuthsCounted
  <1> QED BY <1>1, <1>3, <1>4, <1>5 DEF HsSafe

(* A step of the host that takes a packet keeps the safe part.             *)
LEMMA TakingHost ==
    ASSUME HsSafe, hs.pc \in HsWaits, hs.buf # <<>>, hs' \in Handshakes,
           UNCHANGED <<net, to_dev, adbd>>,
           hs'.buf = Tail(hs.buf), hs'.tls = hs.tls, hs'.may_offer = hs.may_offer,
           hs'.pc \in {hs.pc, "sign", "offer", "upgrade", "assemble", "error"},
           hs'.pc = "sign" => IsAuth(Head(hs.buf)),
           hs'.pc = "offer" => IsAuth(Head(hs.buf)) /\ hs.pc = "signed",
           hs'.pc = "assemble" => hs'.got = Head(hs.buf)
    PROVE  HsSafe'
  <1>1. HsTypeOK'
    BY DEF HsSafe, HsTypeOK
  <1>2. hs.buf \in Seq(HsPackets) /\ hs.pc \notin {"start_tls", "sign", "offer", "assemble", "ok"}
    BY DEF HsSafe, HsTypeOK, Handshakes, HsWaits
  <1>3. /\ OneAuth(hs'.buf) => OneAuth(hs.buf)
        /\ TwoAuths(hs'.buf) => TwoAuths(hs.buf)
        /\ IsAuth(Head(hs.buf)) => OneAuth(hs.buf) /\ (OneAuth(hs'.buf) => TwoAuths(hs.buf))
        /\ AllTls(hs.buf) => AllTls(hs'.buf) /\ Head(hs.buf).tls
    BY <1>2, PopFacts
  <1>4. Asked' = Asked /\ (AnyAuth' => AnyAuth) /\ (AnyTwoAuths' => AnyTwoAuths)
        /\ (IsAuth(Head(hs.buf)) => AnyAuth /\ (AnyAuth' => AnyTwoAuths))
    BY <1>3 DEF Asked, AnyAuth, AnyTwoAuths
  <1>5. AuthsCounted'
    BY <1>2, <1>4 DEF HsSafe, AuthsCounted
  <1>6. TlsInOrder'
    BY <1>2, <1>3 DEF HsSafe, TlsInOrder
  <1>7. OfferedOnly'
    BY <1>2, <1>4 DEF HsSafe, OfferedOnly
  <1> QED BY <1>1, <1>5, <1>6, <1>7 DEF HsSafe

(* A read keeps the safe part.                                             *)
LEMMA ReadSafe == HsSafe /\ Read => HsSafe'
  <1> SUFFICES ASSUME HsSafe, Read PROVE HsSafe'
    OBVIOUS
  <1>1. PICK n \in 1 .. Len(net), cut \in BOOLEAN :
          /\ hs' = [hs EXCEPT !.buf = SubSeq(net, 1, n), !.cut = cut]
          /\ net' = SubSeq(net, n + 1, Len(net))
    BY DEF Read
  <1>2. hs \in Handshakes /\ net \in Seq(HsPackets) /\ hs.buf = <<>> /\ hs.pc \in HsWaits
        /\ to_dev' = to_dev /\ adbd' = adbd
    BY DEF HsSafe, HsTypeOK, Read
  <1>3. hs' \in Handshakes /\ hs'.buf = SubSeq(net, 1, n) /\ hs'.pc = hs.pc /\ hs'.tls = hs.tls
        /\ hs'.may_offer = hs.may_offer
    <2>1. SubSeq(net, 1, n) \in Seq(HsPackets)
      BY <1>2, ReadSplits
    <2> QED BY <1>1, <1>2, <2>1 DEF Handshakes
  <1>4. /\ n \in Nat \ {0} /\ n <= Len(net) /\ net' \in Seq(HsPackets)
        /\ hs'.buf \in Seq(HsPackets)
        /\ Len(hs'.buf) = n /\ \A i \in 1 .. n : hs'.buf[i] = net[i]
        /\ Len(net') = Len(net) - n /\ \A i \in 1 .. Len(net) - n : net'[i] = net[i + n]
    BY <1>1, <1>2, <1>3, ReadSplits
  <1>5. /\ OneAuth(hs'.buf) \/ OneAuth(net') => OneAuth(net)
        /\ TwoAuths(hs'.buf) \/ TwoAuths(net') \/ (OneAuth(hs'.buf) /\ OneAuth(net'))
             => TwoAuths(net)
        /\ AllTls(net) => AllTls(hs'.buf) /\ AllTls(net')
        /\ TlsLast(net) => TlsLast(net')
        /\ NoTls(net) => NoTls(net')
    BY <1>2, <1>4, ReadFacts
  <1>6. Asked' = Asked /\ (AnyAuth' => AnyAuth) /\ (AnyTwoAuths' => AnyTwoAuths)
    BY <1>2, <1>5 DEF Asked, AnyAuth, AnyTwoAuths
  <1>7. HsTypeOK'
    BY <1>2, <1>3, <1>4 DEF HsSafe, HsTypeOK
  <1>8. AuthsCounted'
    BY <1>2, <1>3, <1>6 DEF HsSafe, AuthsCounted
  <1>9. TlsInOrder'
    BY <1>2, <1>3, <1>5 DEF HsSafe, TlsInOrder, HsWaits
  <1>10. OfferedOnly'
    BY <1>2, <1>3, <1>6 DEF HsSafe, OfferedOnly
  <1> QED BY <1>7, <1>8, <1>9, <1>10 DEF HsSafe

(* A packet of the device's keeps the safe part.                           *)
LEMMA SayingDevice ==
    ASSUME HsSafe, hs' = hs, to_dev' \in Seq(Commands), adbd' \in Peers,
           \A x : x \in HsRange(to_dev') => x \in HsRange(to_dev),
           NEW e \in HsPackets, net' = Append(net, e), e.tls = adbd.tls, adbd'.tls = adbd.tls,
           Asked' >= Asked, IsAuth(e) => Asked' >= Asked + 1,
           adbd'.st \in {"off", "stls"} => adbd'.tokens = 0,
           adbd'.st = "asked" => adbd'.tokens <= 1, adbd'.tokens <= 2
    PROVE  HsSafe'
  <1>1. HsTypeOK
    BY DEF HsSafe
  <1>2. net \in Seq(HsPackets) /\ adbd \in Peers /\ adbd.tls \in BOOLEAN
    BY <1>1 DEF HsTypeOK, Peers
  <1>3. /\ net' \in Seq(HsPackets)
        /\ OneAuth(net') => OneAuth(net) \/ IsAuth(e)
        /\ TwoAuths(net') => TwoAuths(net) \/ (OneAuth(net) /\ IsAuth(e))
        /\ AllTls(net) /\ e.tls => AllTls(net')
        /\ TlsLast(net) /\ (e.tls \/ NoTls(net)) => TlsLast(net')
        /\ NoTls(net) /\ ~e.tls => NoTls(net')
    BY <1>2, AddFacts
  <1>4. Asked \in Nat /\ Asked' \in Nat
    BY <1>2 DEF Asked, Peers
  <1>5. /\ AnyAuth' => AnyAuth \/ IsAuth(e)
        /\ AnyTwoAuths' => AnyTwoAuths \/ (AnyAuth /\ IsAuth(e))
    BY <1>3 DEF AnyAuth, AnyTwoAuths
  <1>6. HsTypeOK'
    BY <1>1, <1>3 DEF HsTypeOK
  <1>7. AuthsCounted'
    <2>1. AuthsCounted
      BY DEF HsSafe
    <2>2. (AnyAuth' => Asked' >= 1) /\ (AnyTwoAuths' => Asked' >= 2)
      BY <1>4, <1>5, <2>1 DEF AuthsCounted
    <2>3. hs.pc \in {"sign", "signed"} => Asked' >= 1 /\ (AnyAuth' => Asked' >= 2)
      BY <1>4, <1>5, <2>1 DEF AuthsCounted
    <2>4. hs.pc \in {"offer", "offered"} => Asked' >= 2
      BY <1>4, <2>1 DEF AuthsCounted
    <2> QED BY <2>2, <2>3, <2>4 DEF AuthsCounted
  <1>8. TlsInOrder'
    BY <1>2, <1>3 DEF HsSafe, TlsInOrder
  <1>9. OfferedOnly'
    BY <1>4 DEF HsSafe, OfferedOnly
  <1> QED BY <1>6, <1>7, <1>8, <1>9 DEF HsSafe

(* A step of the device that adds nothing to the stream keeps the safe     *)
(* part: it may go over to TLS, hang up, or cut its last packet off.       *)
LEMMA SilentDevice ==
    ASSUME HsSafe, hs' = hs, to_dev' \in Seq(Commands), adbd' \in Peers,
           \A x : x \in HsRange(to_dev') => x \in HsRange(to_dev),
           net' = net \/ (net # <<>> /\ net' = [net EXCEPT ![Len(net)].cmd = "part"]),
           adbd.tls => adbd'.tls, Asked' >= Asked, adbd'.tokens = adbd.tokens,
           adbd'.st \in {adbd.st, "gone"}
    PROVE  HsSafe'
  <1>1. net \in Seq(HsPackets) /\ adbd \in Peers /\ adbd.tls \in BOOLEAN
    BY DEF HsSafe, HsTypeOK, Peers
  <1>2. /\ net' \in Seq(HsPackets)
        /\ OneAuth(net') => OneAuth(net)
        /\ TwoAuths(net') => TwoAuths(net)
        /\ AllTls(net) => AllTls(net')
        /\ TlsLast(net) => TlsLast(net')
        /\ NoTls(net) => NoTls(net')
    BY <1>1, CutFacts
  <1>3. Asked \in Nat /\ Asked' \in Nat
    BY <1>1 DEF Asked, Peers
  <1>4. (AnyAuth' => AnyAuth) /\ (AnyTwoAuths' => AnyTwoAuths)
    BY <1>2 DEF AnyAuth, AnyTwoAuths
  <1>5. HsTypeOK'
    BY <1>2 DEF HsSafe, HsTypeOK
  <1>6. AuthsCounted'
    BY <1>1, <1>3, <1>4 DEF HsSafe, AuthsCounted
  <1>7. TlsInOrder'
    BY <1>1, <1>2 DEF HsSafe, TlsInOrder
  <1>8. OfferedOnly'
    BY <1>3 DEF HsSafe, OfferedOnly
  <1> QED BY <1>5, <1>6, <1>7, <1>8 DEF HsSafe

(* The host's steps keep the safe part.                                    *)
LEMMA HostSafe == HsSafe /\ (HostConnects \/ SignFails) => HsSafe'
  <1> SUFFICES ASSUME HsSafe, HostConnects \/ SignFails PROVE HsSafe'
    OBVIOUS
  <1>1. hs \in Handshakes /\ to_dev \in Seq(Commands) /\ hs.buf \in Seq(HsPackets)
    BY DEF HsSafe, HsTypeOK, Handshakes
  <1>2. ASSUME NEW msg \in Commands, NEW pc \in HsPcs, Send(msg, pc),
               pc \notin {"sign", "offer", "assemble", "ok"},
               pc = "start_tls" => hs.buf = <<>>,
               pc = "signed" => hs.pc = "sign",
               pc = "offered" \/ msg = "PUBKEY" => hs.pc = "offer" /\ hs.may_offer
        PROVE  HsSafe'
    <2>1. hs' = [hs EXCEPT !.pc = pc] /\ to_dev' = Append(to_dev, msg) /\ UNCHANGED <<net, adbd>>
      BY <1>2 DEF Send
    <2>2. hs' \in Handshakes /\ hs'.pc = pc /\ hs'.buf = hs.buf /\ hs'.tls = hs.tls
          /\ hs'.may_offer = hs.may_offer
      BY <1>1, <2>1 DEF Handshakes
    <2>3. to_dev' \in Seq(Commands)
          /\ ("PUBKEY" \in HsRange(to_dev') => "PUBKEY" \in HsRange(to_dev) \/ "PUBKEY" = msg)
      BY <1>1, <2>1, SentFacts
    <2> QED BY <1>2, <2>1, <2>2, <2>3, QuietHost
  <1>3. ASSUME NEW err \in HsErrors, Fail(err), UNCHANGED <<net, to_dev, adbd>>
        PROVE  HsSafe'
    <2>1. hs' \in Handshakes /\ hs'.pc = "error" /\ hs'.buf = hs.buf /\ hs'.tls = hs.tls
          /\ hs'.may_offer = hs.may_offer
      BY <1>1, <1>3 DEF Fail, Handshakes, HsPcs
    <2> QED BY <1>1, <1>3, <2>1, QuietHost
  <1>4. ASSUME Came(Cmds), UNCHANGED <<net, to_dev, adbd>>,
               NEW r, r \in Handshakes, r.buf = Tail(hs.buf), r.tls = hs.tls,
               r.may_offer = hs.may_offer, hs' = r,
               r.pc \in {hs.pc, "sign", "offer", "upgrade", "assemble", "error"},
               r.pc = "sign" => IsAuth(Head(hs.buf)),
               r.pc = "offer" => IsAuth(Head(hs.buf)) /\ hs.pc = "signed",
               r.pc = "assemble" => r.got = Head(hs.buf)
        PROVE  HsSafe'
    <2>1. hs.pc \in HsWaits /\ hs.buf # <<>>
      BY <1>4 DEF Came
    <2> QED BY <1>4, <2>1, TakingHost
  <1>5. ASSUME NEW C, Came(C)
        PROVE  /\ Came(Cmds) /\ Head(hs.buf) \in HsPackets /\ Tail(hs.buf) \in Seq(HsPackets)
               /\ Head(hs.buf).cmd \in C
               /\ Popped \in Handshakes /\ Popped.buf = Tail(hs.buf) /\ Popped.tls = hs.tls
               /\ Popped.may_offer = hs.may_offer /\ Popped.pc = hs.pc
    <2>1. hs.pc \in HsWaits /\ hs.buf # <<>> /\ Head(hs.buf).cmd \in C
      BY <1>5 DEF Came
    <2>2. Head(hs.buf) \in HsPackets /\ Tail(hs.buf) \in Seq(HsPackets)
      BY <1>1, <2>1, PopFacts
    <2>3. Head(hs.buf).cmd \in Cmds
      BY <2>2 DEF HsPackets
    <2> QED BY <1>1, <2>1, <2>2, <2>3 DEF Came, Popped, Handshakes
  <1>6. ASSUME NEW C, Came(C), NEW err \in HsErrors
        PROVE  LET r == [Popped EXCEPT !.pc = "error", !.err = err]
               IN  r \in Handshakes /\ r.buf = Tail(hs.buf) /\ r.tls = hs.tls
                   /\ r.may_offer = hs.may_offer /\ r.pc = "error"
    <2>1. Popped \in Handshakes /\ Popped.buf = Tail(hs.buf) /\ Popped.tls = hs.tls
          /\ Popped.may_offer = hs.may_offer
      BY <1>5, <1>6
    <2> QED BY <2>1 DEF Handshakes, HsPcs
  <1>7. ASSUME NEW C, Came(C), NEW pc \in HsPcs
        PROVE  LET r == [Popped EXCEPT !.pc = pc]
               IN  r \in Handshakes /\ r.buf = Tail(hs.buf) /\ r.tls = hs.tls
                   /\ r.may_offer = hs.may_offer /\ r.pc = pc
    <2>1. Popped \in Handshakes /\ Popped.buf = Tail(hs.buf) /\ Popped.tls = hs.tls
          /\ Popped.may_offer = hs.may_offer
      BY <1>5, <1>7
    <2> QED BY <2>1 DEF Handshakes
  <1>8. CASE Hello
    <2>1. "CNXN" \in Commands /\ "first" \in HsPcs
      BY DEF Commands, HsPcs, HsWaits
    <2> QED BY <1>2, <1>8, <2>1 DEF Hello
  <1>9. CASE Read
    BY <1>9, ReadSafe
  <1>10. CASE ReadEnds
    <2>1. (IF hs.tls THEN "TlsClosedBeforeConnect" ELSE "UnexpectedEof") \in HsErrors
      BY DEF HsErrors
    <2> QED BY <1>3, <1>10, <2>1 DEF ReadEnds
  <1>11. CASE DropStale
    <2>1. Came({"stale"}) /\ hs' = Popped /\ UNCHANGED <<net, to_dev, adbd>>
      BY <1>11 DEF DropStale
    <2>2. hs.pc \notin {"sign", "offer", "assemble"}
      BY <2>1 DEF Came, HsWaits
    <2> QED BY <1>4, <1>5, <2>1, <2>2
  <1>12. CASE Refuse
    <2> DEFINE err == CASE Head(hs.buf).cmd = "alert" -> "TlsKeyNotTrusted"
                        [] Head(hs.buf).cmd = "part" -> "UnexpectedEof"
                        [] OTHER -> "UnexpectedCommand"
    <2>1. /\ Came({"other", "alert", "part"}) /\ UNCHANGED <<net, to_dev, adbd>>
          /\ hs' = [Popped EXCEPT !.pc = "error", !.err = err]
      BY <1>12 DEF Refuse
    <2>2. err \in HsErrors
      BY DEF HsErrors
    <2> HIDE DEF err
    <2> QED BY <1>4, <1>5, <1>6, <2>1, <2>2
  <1>13. CASE TakeVerdict
    <2>1. Came({"CNXN", "STLS"}) /\ UNCHANGED <<net, to_dev, adbd>>
      BY <1>13 DEF TakeVerdict
    <2>2. CASE Head(hs.buf).cmd = "CNXN"
      <3> DEFINE r == [Popped EXCEPT !.pc = "assemble", !.got = Head(hs.buf)]
      <3>1. hs' = r
        BY <1>13, <2>2 DEF TakeVerdict
      <3>2. r \in Handshakes /\ r.buf = Tail(hs.buf) /\ r.tls = hs.tls
            /\ r.may_offer = hs.may_offer /\ r.pc = "assemble" /\ r.got = Head(hs.buf)
        <4>1. Popped \in Handshakes /\ Popped.buf = Tail(hs.buf) /\ Popped.tls = hs.tls
              /\ Popped.may_offer = hs.may_offer /\ Head(hs.buf) \in HsPackets
          BY <1>5, <2>1
        <4> QED BY <4>1 DEF Handshakes, HsPcs
      <3> HIDE DEF r
      <3> QED BY <1>4, <1>5, <2>1, <3>1, <3>2
    <2>3. CASE Head(hs.buf).cmd # "CNXN" /\ hs.use_tls /\ ~hs.tls
      <3> DEFINE r == [Popped EXCEPT !.pc = "upgrade"]
      <3>1. hs' = r
        BY <1>13, <2>3 DEF TakeVerdict
      <3>2. "upgrade" \in HsPcs
        BY DEF HsPcs
      <3>3. r \in Handshakes /\ r.buf = Tail(hs.buf) /\ r.tls = hs.tls
            /\ r.may_offer = hs.may_offer /\ r.pc = "upgrade"
        BY <1>7, <2>1, <3>2
      <3> HIDE DEF r
      <3> QED BY <1>4, <1>5, <2>1, <3>1, <3>3
    <2>4. CASE Head(hs.buf).cmd # "CNXN" /\ ~(hs.use_tls /\ ~hs.tls)
      <3> DEFINE err == IF hs.tls THEN "UnexpectedCommand" ELSE "TlsRequired"
                 r == [Popped EXCEPT !.pc = "error", !.err = err]
      <3>1. hs' = r
        BY <1>13, <2>4 DEF TakeVerdict
      <3>2. err \in HsErrors
        BY DEF HsErrors
      <3> HIDE DEF err
      <3>3. r \in Handshakes /\ r.buf = Tail(hs.buf) /\ r.tls = hs.tls
            /\ r.may_offer = hs.may_offer /\ r.pc = "error"
        BY <1>6, <2>1, <3>2
      <3> HIDE DEF r
      <3> QED BY <1>4, <1>5, <2>1, <3>1, <3>3
    <2> QED BY <2>2, <2>3, <2>4
  <1>14. CASE AuthFirst
    <2>1. Came({"token", "short", "auth"}) /\ UNCHANGED <<net, to_dev, adbd>>
      BY <1>14 DEF AuthFirst
    <2>2. IsAuth(Head(hs.buf))
      BY <1>5, <2>1 DEF IsAuth
    <2>3. PICK err \in HsErrors :
            \/ hs' = [Popped EXCEPT !.pc = "sign"]
            \/ hs' = [Popped EXCEPT !.pc = "error", !.err = err]
      BY <1>14 DEF AuthFirst, HsErrors
    <2>4. CASE hs' = [Popped EXCEPT !.pc = "sign"]
      <3>1. "sign" \in HsPcs
        BY DEF HsPcs
      <3>2. hs' \in Handshakes /\ hs'.buf = Tail(hs.buf) /\ hs'.tls = hs.tls
            /\ hs'.may_offer = hs.may_offer /\ hs'.pc = "sign"
        BY <1>7, <2>1, <2>4, <3>1
      <3> QED BY <1>4, <1>5, <2>1, <2>2, <3>2
    <2>5. CASE hs' = [Popped EXCEPT !.pc = "error", !.err = err]
      <3>1. hs' \in Handshakes /\ hs'.buf = Tail(hs.buf) /\ hs'.tls = hs.tls
            /\ hs'.may_offer = hs.may_offer /\ hs'.pc = "error"
        BY <1>6, <2>1, <2>5
      <3> QED BY <1>4, <1>5, <2>1, <2>2, <3>1
    <2> QED BY <2>3, <2>4, <2>5
  <1>15. CASE Sign
    <2>1. "SIGNATURE" \in Commands /\ "signed" \in HsPcs
      BY DEF Commands, HsPcs, HsWaits
    <2> QED BY <1>2, <1>15, <2>1 DEF Sign
  <1>16. CASE SignFails
    <2>1. "SignFailed" \in HsErrors
      BY DEF HsErrors
    <2> QED BY <1>3, <1>16, <2>1 DEF SignFails
  <1>17. CASE AuthAgain
    <2>1. Came({"token", "short", "auth"}) /\ UNCHANGED <<net, to_dev, adbd>>
      BY <1>17 DEF AuthAgain
    <2>2. IsAuth(Head(hs.buf))
      BY <1>5, <2>1 DEF IsAuth
    <2>3. CASE hs.pc = "signed" /\ Head(hs.buf).cmd # "auth"
      <3>1. "offer" \in HsPcs /\ hs' = [Popped EXCEPT !.pc = "offer"]
        BY <1>17, <2>3 DEF HsPcs, AuthAgain
      <3>2. hs' \in Handshakes /\ hs'.buf = Tail(hs.buf) /\ hs'.tls = hs.tls
            /\ hs'.may_offer = hs.may_offer /\ hs'.pc = "offer"
        BY <1>7, <2>1, <3>1
      <3> QED BY <1>4, <1>5, <2>1, <2>2, <2>3, <3>2
    <2>4. CASE ~(hs.pc = "signed" /\ Head(hs.buf).cmd # "auth")
      <3>1. "Rejected" \in HsErrors /\ hs' = [Popped EXCEPT !.pc = "error", !.err = "Rejected"]
        BY <1>17, <2>4 DEF HsErrors, AuthAgain
      <3>2. hs' \in Handshakes /\ hs'.buf = Tail(hs.buf) /\ hs'.tls = hs.tls
            /\ hs'.may_offer = hs.may_offer /\ hs'.pc = "error"
        BY <1>6, <2>1, <3>1
      <3> QED BY <1>4, <1>5, <2>1, <3>2
    <2> QED BY <2>3, <2>4
  <1>18. CASE Offer
    <2>1. "PUBKEY" \in Commands /\ "offered" \in HsPcs /\ "KeyNotTrusted" \in HsErrors
      BY DEF Commands, HsPcs, HsWaits, HsErrors
    <2> QED BY <1>2, <1>3, <1>18, <2>1 DEF Offer
  <1>19. CASE Upgrade
    <2>1. "STLS" \in Commands /\ "start_tls" \in HsPcs /\ "DataAfterStls" \in HsErrors
      BY DEF Commands, HsPcs, HsErrors
    <2> QED BY <1>2, <1>3, <1>19, <2>1 DEF Upgrade
  <1>20. CASE HsStartTls
    <2>1. UNCHANGED <<net, to_dev, adbd>> /\ hs.pc = "start_tls"
      BY <1>20 DEF HsStartTls
    <2>2. CASE Fail("Io")
      <3>1. "Io" \in HsErrors
        BY DEF HsErrors
      <3> QED BY <1>3, <2>1, <2>2, <3>1
    <2>3. CASE adbd.tls /\ (net # <<>> => Head(net).tls)
               /\ hs' = [hs EXCEPT !.pc = "secured", !.tls = TRUE]
      <3>1. hs' \in Handshakes /\ hs'.pc = "secured" /\ hs'.tls /\ hs'.buf = hs.buf
            /\ hs'.may_offer = hs.may_offer
        BY <1>1, <2>3 DEF Handshakes, HsPcs, HsWaits
      <3>2. AllTls(net)
        <4> SUFFICES ASSUME NEW i \in DOMAIN net PROVE net[i].tls
          BY DEF AllTls
        <4>1. net \in Seq(HsPackets) /\ TlsLast(net)
          BY DEF HsSafe, HsTypeOK, TlsInOrder
        <4>2. net # <<>> /\ Head(net) = net[1] /\ 1 \in DOMAIN net /\ (i = 1 \/ 1 < i)
          BY <4>1
        <4> QED BY <2>3, <4>1, <4>2 DEF TlsLast
      <3>3. AllTls(hs.buf)
        BY <2>1 DEF HsSafe, TlsInOrder, AllTls
      <3>4. HsTypeOK'
        BY <2>1, <3>1 DEF HsSafe, HsTypeOK
      <3>5. Asked' = Asked /\ (AnyAuth' <=> AnyAuth) /\ (AnyTwoAuths' <=> AnyTwoAuths)
        BY <2>1, <3>1 DEF Asked, AnyAuth, AnyTwoAuths
      <3>6. AuthsCounted'
        BY <2>1, <3>1, <3>5 DEF HsSafe, AuthsCounted
      <3>7. TlsInOrder'
        BY <2>1, <2>3, <3>1, <3>2, <3>3 DEF HsSafe, TlsInOrder
      <3>8. OfferedOnly'
        BY <2>1, <3>1, <3>5 DEF HsSafe, OfferedOnly
      <3> QED BY <3>4, <3>6, <3>7, <3>8 DEF HsSafe
    <2> QED BY <1>20, <2>2, <2>3 DEF HsStartTls
  <1>21. CASE Assemble
    <2>1. hs.pc = "assemble" /\ UNCHANGED <<net, to_dev, adbd>>
      BY <1>21 DEF Assemble
    <2>2. CASE hs.got.terms.banner_ok
      <3> DEFINE t == [Settled(hs.mine, hs.got.terms)
                         EXCEPT !.payload = Min2(hs.got.terms.payload, 2)]
      <3>1. hs' = [hs EXCEPT !.pc = "ok", !.terms = t]
        BY <1>21, <2>2 DEF Assemble
      <3>2. t \in Terms
        <4>1. hs.mine \in Terms /\ hs.got.terms \in Terms
          BY <1>1 DEF Handshakes, HostTerms, HsPackets
        <4>2. Settled(hs.mine, hs.got.terms) \in Terms
          BY <4>1 DEF Terms, Settled, Min2
        <4>3. Min2(hs.got.terms.payload, 2) \in 1 .. 2
          BY <4>1 DEF Terms, Min2
        <4> QED BY <4>2, <4>3 DEF Terms
      <3> HIDE DEF t
      <3>3. hs' \in Handshakes /\ hs'.pc = "ok" /\ hs'.buf = hs.buf /\ hs'.tls = hs.tls
            /\ hs'.may_offer = hs.may_offer /\ hs'.got = hs.got
        BY <1>1, <3>1, <3>2 DEF Handshakes, HsPcs
      <3> QED BY <1>1, <2>1, <3>3, QuietHost
    <2>3. CASE ~hs.got.terms.banner_ok
      <3>1. Fail("Banner") /\ "Banner" \in HsErrors
        BY <1>21, <2>3 DEF Assemble, Fail, HsErrors
      <3> QED BY <1>3, <2>1, <3>1
    <2> QED BY <2>2, <2>3
  <1> QED BY <1>8, <1>9, <1>10, <1>11, <1>12, <1>13, <1>14, <1>15, <1>16, <1>17, <1>18, <1>19,
             <1>20, <1>21 DEF HostConnects

(* What the device says: a packet of its own, and no more tokens than it   *)
(* counts.                                                                 *)
LEMMA SaysFacts ==
    ASSUME HsTypeOK, NEW cmd \in Cmds, NEW st \in {"asked", "dialog", "stls", "online", "gone"},
           Says(cmd, st), adbd.tokens <= 2
    PROVE  LET e == [cmd |-> cmd, tls |-> adbd.tls,
                     terms |-> IF cmd = "CNXN"
                               THEN [adbd.mine EXCEPT !.payload = Min2(@, hs.mine.payload)]
                               ELSE NoTerms]
           IN  /\ e \in HsPackets /\ net' = Append(net, e) /\ e.tls = adbd.tls /\ e.cmd = cmd
               /\ adbd' \in Peers /\ adbd'.st = st /\ adbd'.tls = adbd.tls
               /\ adbd'.odd = adbd.odd /\ adbd'.trusts = adbd.trusts /\ adbd'.mine = adbd.mine
               /\ adbd'.wants_tls = adbd.wants_tls
               /\ adbd'.tokens = (IF cmd = "token" THEN adbd.tokens + 1 ELSE adbd.tokens)
               /\ cmd = "CNXN" => adbd'.terms = Settled(hs.mine, adbd.mine)
  <1> DEFINE t == IF cmd = "CNXN" THEN [adbd.mine EXCEPT !.payload = Min2(@, hs.mine.payload)]
                  ELSE NoTerms
             e == [cmd |-> cmd, tls |-> adbd.tls, terms |-> t]
             tk == IF cmd = "token" THEN adbd.tokens + 1 ELSE adbd.tokens
             tm == IF cmd = "CNXN" THEN Settled(hs.mine, adbd.mine) ELSE adbd.terms
  <1>1. /\ adbd \in Peers /\ adbd.mine \in Terms /\ hs.mine \in Terms /\ adbd.terms \in Terms
        /\ adbd.tls \in BOOLEAN /\ adbd.tokens \in 0 .. 3
    BY DEF HsTypeOK, Handshakes, HostTerms, Peers
  <1>2. t \in Terms
    BY <1>1 DEF Terms, Min2, NoTerms
  <1>3. tm \in Terms
    BY <1>1 DEF Terms, Min2, Settled
  <1>4. tk \in 0 .. 3
    BY <1>1
  <1>5. net' = Append(net, e) /\ adbd' = [adbd EXCEPT !.st = st, !.tokens = tk, !.terms = tm]
    BY <1>1 DEF Says
  <1>6. e \in HsPackets /\ e.tls = adbd.tls /\ e.cmd = cmd
    BY <1>1, <1>2 DEF HsPackets
  <1>7. cmd = "CNXN" => tm = Settled(hs.mine, adbd.mine)
    OBVIOUS
  <1> HIDE DEF tk, tm
  <1>8. /\ adbd' \in Peers /\ adbd'.st = st /\ adbd'.tls = adbd.tls
        /\ adbd'.odd = adbd.odd /\ adbd'.trusts = adbd.trusts /\ adbd'.mine = adbd.mine
        /\ adbd'.wants_tls = adbd.wants_tls /\ adbd'.tokens = tk /\ adbd'.terms = tm
    BY <1>1, <1>3, <1>4, <1>5 DEF Peers
  <1>9. tk = IF cmd = "token" THEN adbd.tokens + 1 ELSE adbd.tokens
    BY DEF tk
  <1> HIDE DEF t
  <1>10. \A x : x = t => [cmd |-> cmd, tls |-> adbd.tls, terms |-> x] = e
    OBVIOUS
  <1> QED BY <1>5, <1>6, <1>7, <1>8, <1>9 DEF t

(* The device's steps keep the safe part.                                  *)
LEMMA DeviceSafe == HsSafe /\ (AdbdAnswers \/ AdbdOdd \/ AdbdGone) => HsSafe'
  <1> SUFFICES ASSUME HsSafe, AdbdAnswers \/ AdbdOdd \/ AdbdGone PROVE HsSafe'
    OBVIOUS
  <1>1. /\ HsTypeOK /\ to_dev \in Seq(Commands) /\ adbd \in Peers /\ adbd.tokens <= 2
        /\ adbd.tokens \in Nat /\ adbd.odd \in Nat /\ net \in Seq(HsPackets) /\ adbd.tls \in BOOLEAN
        /\ adbd.mine \in Terms
    BY DEF HsSafe, HsTypeOK, Peers, AuthsCounted
  <1>2. ASSUME NEW msg, Hears(msg)
        PROVE  /\ hs' = hs /\ to_dev' \in Seq(Commands)
               /\ \A x : x \in HsRange(to_dev') => x \in HsRange(to_dev)
    <2>1. "CNXN" \in Commands
      BY DEF Commands
    <2> QED BY <1>1, <1>2, <2>1, SentFacts DEF Hears
  <1>3. ASSUME NEW cmd \in {"CNXN", "STLS", "token", "alert"},
               NEW st \in {"asked", "dialog", "stls", "online", "gone"}, Says(cmd, st),
               hs' = hs, to_dev' \in Seq(Commands),
               \A x : x \in HsRange(to_dev') => x \in HsRange(to_dev),
               cmd = "token" => adbd.tokens <= 1,
               st = "stls" => cmd = "STLS" /\ adbd.tokens = 0,
               st = "asked" => cmd = "token" /\ adbd.tokens = 0
        PROVE  HsSafe'
    <2>1. cmd \in Cmds
      BY DEF Cmds
    <2>2. PICK e \in HsPackets :
            /\ net' = Append(net, e) /\ e.tls = adbd.tls /\ e.cmd = cmd
            /\ adbd' \in Peers /\ adbd'.st = st /\ adbd'.tls = adbd.tls
            /\ adbd'.odd = adbd.odd
            /\ adbd'.tokens = (IF cmd = "token" THEN adbd.tokens + 1 ELSE adbd.tokens)
      BY <1>1, <1>3, <2>1, SaysFacts
    <2>3. Asked' >= Asked /\ (IsAuth(e) => Asked' >= Asked + 1)
      BY <1>1, <2>2 DEF Asked, IsAuth
    <2>4. /\ adbd'.st \in {"off", "stls"} => adbd'.tokens = 0
          /\ adbd'.st = "asked" => adbd'.tokens <= 1
          /\ adbd'.tokens <= 2
      BY <1>1, <1>3, <2>2
    <2> QED BY <1>3, <2>2, <2>3, <2>4, SayingDevice
  <1>4. ASSUME adbd' \in Peers, hs' = hs, to_dev' \in Seq(Commands),
               \A x : x \in HsRange(to_dev') => x \in HsRange(to_dev),
               net' = net \/ (net # <<>> /\ net' = [net EXCEPT ![Len(net)].cmd = "part"]),
               adbd.tls => adbd'.tls, adbd'.odd \in {adbd.odd, adbd.odd + 1},
               adbd'.tokens = adbd.tokens, adbd'.st \in {adbd.st, "gone"}
        PROVE  HsSafe'
    <2>1. Asked' >= Asked
      BY <1>1, <1>4 DEF Asked
    <2> QED BY <1>4, <2>1, SilentDevice
  <1>5. /\ adbd.st \in {"off", "stls"} => adbd.tokens = 0
        /\ adbd.st = "asked" => adbd.tokens <= 1
    BY DEF HsSafe, AuthsCounted
  <1>6. CASE AdbdHello
    BY <1>2, <1>3, <1>5, <1>6 DEF AdbdHello
  <1>7. CASE AdbdSignature
    BY <1>2, <1>3, <1>5, <1>7 DEF AdbdSignature
  <1>8. CASE AdbdKey
    <2>1. CASE Says("CNXN", "online")
      BY <1>2, <1>3, <1>8, <2>1 DEF AdbdKey
    <2>2. CASE net' = net /\ adbd' = [adbd EXCEPT !.st = "gone"]
      <3>1. adbd' \in Peers /\ adbd'.tls = adbd.tls /\ adbd'.odd = adbd.odd
            /\ adbd'.tokens = adbd.tokens /\ adbd'.st = "gone"
        BY <1>1, <2>2 DEF Peers
      <3> QED BY <1>2, <1>4, <1>8, <2>2, <3>1 DEF AdbdKey
    <2> QED BY <1>8, <2>1, <2>2 DEF AdbdKey
  <1>9. CASE AdbdTls
    <2>1. adbd' \in Peers /\ adbd'.tls /\ adbd'.odd = adbd.odd
          /\ adbd'.tokens = adbd.tokens /\ adbd'.st = adbd.st
      BY <1>1, <1>9 DEF Peers, AdbdTls
    <2> QED BY <1>2, <1>4, <1>9, <2>1 DEF AdbdTls
  <1>10. CASE AdbdInTls
    <2>1. hs' = hs /\ to_dev' = to_dev /\ adbd.st = "stls"
      BY <1>10 DEF AdbdInTls
    <2>2. CASE net' = net /\ adbd' = [adbd EXCEPT !.st = "gone"]
      <3>1. adbd' \in Peers /\ adbd'.tls = adbd.tls /\ adbd'.odd = adbd.odd
            /\ adbd'.tokens = adbd.tokens /\ adbd'.st = "gone"
        BY <1>1, <2>2 DEF Peers
      <3> QED BY <1>1, <1>4, <2>1, <2>2, <3>1
    <2>3. CASE Says("CNXN", "online") \/ Says("token", "asked") \/ Says("alert", "gone")
      BY <1>1, <1>3, <1>5, <2>1, <2>3
    <2> QED BY <1>10, <2>2, <2>3 DEF AdbdInTls
  <1>11. CASE AdbdOdd
    <2>1. PICK cmd \in Cmds : net' = Append(net, [cmd |-> cmd, tls |-> adbd.tls,
                                          terms |-> [adbd.mine EXCEPT !.payload = 1]])
      BY <1>11 DEF AdbdOdd
    <2> DEFINE e == [cmd |-> cmd, tls |-> adbd.tls, terms |-> [adbd.mine EXCEPT !.payload = 1]]
    <2>2. e \in HsPackets /\ e.tls = adbd.tls
      BY <1>1, SMTT(20) DEF HsPackets, Terms
    <2>3. adbd' \in Peers /\ adbd'.tls = adbd.tls /\ adbd'.odd = adbd.odd + 1
          /\ adbd'.tokens = adbd.tokens /\ adbd'.st = adbd.st
      BY <1>1, <1>11, HsAssumption, SMTT(20) DEF Peers, AdbdOdd
    <2>4. Asked' = Asked + 1 /\ Asked \in Nat
      BY <1>1, <2>3 DEF Asked
    <2>5. hs' = hs /\ to_dev' = to_dev /\ net' = Append(net, e)
      BY <1>11, <2>1 DEF AdbdOdd
    <2> HIDE DEF e
    <2> QED BY <1>1, <1>5, <2>2, <2>3, <2>4, <2>5, SayingDevice
  <1>12. CASE AdbdGone
    <2>1. adbd' \in Peers /\ adbd'.tls = adbd.tls /\ adbd'.odd = adbd.odd + 1
          /\ adbd'.tokens = adbd.tokens /\ adbd'.st = "gone"
      <3>1. /\ adbd' = [adbd EXCEPT !.st = "gone", !.odd = adbd.odd + 1]
            /\ adbd.odd + 1 \in 0 .. MaxOdd
        BY <1>1, <1>12, HsAssumption DEF Peers, AdbdGone
      <3> QED BY <1>1, <3>1 DEF Peers
    <2> QED BY <1>1, <1>4, <1>12, <2>1 DEF AdbdGone
  <1> QED BY <1>6, <1>7, <1>8, <1>9, <1>10, <1>11, <1>12 DEF AdbdAnswers

(* The packet the host waits for stays the last one as it is read, as what *)
(* is stale goes before it, and comes last when the device sends it.       *)
LEMMA PendingFacts ==
    ASSUME NEW b \in Seq(HsPackets), NEW s \in Seq(HsPackets), NEW p
    PROVE  /\ b # <<>> /\ p.cmd # "stale" /\ PendingIn(b, s, p) =>
                /\ Head(b).cmd = "stale" => PendingIn(Tail(b), s, p)
                /\ Head(b).cmd # "stale" => Head(b) = p /\ Tail(b) = <<>> /\ s = <<>>
           /\ b # <<>> /\ Stale(b) => Head(b).cmd = "stale" /\ Stale(Tail(b))
           /\ ~PendingIn(<<>>, <<>>, p)
           /\ p \in HsPackets /\ Stale(b) /\ Stale(s) =>
                PendingIn(b, Append(s, p), p) /\ Append(s, p) # <<>>
  <1>1. b # <<>> =>
          /\ Stale(b) => Stale(Tail(b)) /\ Head(b).cmd = "stale"
          /\ LastPacket(b, p) =>
                /\ Head(b).cmd # "stale" => Head(b) = p /\ Tail(b) = <<>>
                /\ p.cmd # "stale" /\ Head(b).cmd = "stale" => LastPacket(Tail(b), p)
    BY PopFacts
  <1>2. ~PendingIn(<<>>, <<>>, p)
    BY DEF PendingIn, LastPacket
  <1>3. p \in HsPackets /\ Stale(s) => LastPacket(Append(s, p), p) /\ Append(s, p) # <<>>
    BY AddFacts
  <1> QED BY <1>1, <1>2, <1>3 DEF PendingIn

(* The host goes on through the stream while the device waits.             *)
LEMMA CalmAdvance ==
    ASSUME Calm, hs.pc \in HsWaits, ~Quiet, adbd' = adbd, to_dev' = to_dev,
           hs'.pc = hs.pc, hs'.tls = hs.tls, hs'.mine = hs.mine, hs'.err = hs.err,
           hs'.cut => net' # <<>>,
           OnlyStale => OnlyStale',
           \A p : p \in {Packet("STLS"), Packet("token"), Packet("alert"), Cnxn} /\ Pending(p)
             => PendingIn(hs'.buf, net', p)
    PROVE  Calm'
  <1>1. /\ Pending(Packet("STLS")) => Pending(Packet("STLS"))'
        /\ Pending(Packet("token")) => Pending(Packet("token"))'
        /\ Pending(Packet("alert")) => Pending(Packet("alert"))'
        /\ Pending(Cnxn) => Pending(Cnxn)'
    BY DEF Pending, Packet, Cnxn
  <1>2. /\ SaidCnxn => SaidCnxn'
        /\ SaidToken("asked") => SaidToken("asked")'
        /\ SaidToken("dialog") => SaidToken("dialog")'
        /\ TurnedAway => TurnedAway'
    BY <1>1 DEF SaidCnxn, SaidToken, TurnedAway, Online
  <1>3. ~Idle("stls", <<>>) /\ ~Idle("asked", <<"SIGNATURE">>) /\ ~Idle("dialog", <<"PUBKEY">>)
    BY DEF Idle
  <1>4. hs'.pc \notin {"hello", "upgrade", "start_tls", "sign", "offer", "assemble", "ok", "error"}
    BY DEF HsWaits
  <1> HIDE DEF SaidCnxn, SaidToken, TurnedAway, Idle, Pending, OnlyStale, Quiet
  <1> QED BY <1>1, <1>2, <1>3, <1>4 DEF Calm

(* The handshake fails, and says why.                                      *)
LEMMA CalmError ==
    ASSUME Calm, hs'.pc = "error", hs'.tls = hs.tls, hs'.use_tls = hs.use_tls, hs'.cut = hs.cut,
           net' = net, adbd' = adbd,
           hs'.err = "SignFailed" \/ ~adbd.trusts \/ ~adbd.mine.banner_ok
             \/ (adbd.wants_tls /\ ~hs.use_tls)
    PROVE  Calm'
  BY DEF Calm

(* What a waiting host may find, the device having sent nothing odd.       *)
LEMMA Awaited ==
    ASSUME Calm, hs.pc \in HsWaits
    PROVE  \/ hs.pc = "first" /\ adbd.st = "off" /\ OnlyStale /\ to_dev = <<"CNXN">>
           \/ /\ hs.pc = "first" /\ adbd.st = "stls" /\ adbd.wants_tls /\ to_dev = <<>>
              /\ Pending(Packet("STLS"))
           \/ hs.pc \in {"first", "secured"} /\ SaidToken("asked")
           \/ hs.pc = "signed" /\ SaidToken("dialog")
           \/ SaidCnxn
           \/ hs.pc = "secured" /\ TurnedAway /\ Pending(Packet("alert"))
           \/ hs.pc \in {"secured", "offered"} /\ TurnedAway /\ Quiet
           \/ hs.pc # "first" /\ Quiet /\ adbd.st # "gone"
  <1> HIDE DEF SaidCnxn, SaidToken, TurnedAway, Pending, OnlyStale, Quiet
  <1> QED BY DEF Calm, Idle, HsWaits

(* A read keeps the calm.                                                  *)
LEMMA ReadCalm == HsSafe /\ Calm /\ Read => Calm'
  <1> SUFFICES ASSUME HsSafe, Calm, Read PROVE Calm'
    OBVIOUS
  <1>1. PICK n \in 1 .. Len(net), cut \in BOOLEAN :
          /\ cut => n < Len(net)
          /\ hs' = [hs EXCEPT !.buf = SubSeq(net, 1, n), !.cut = cut]
          /\ net' = SubSeq(net, n + 1, Len(net))
    BY DEF Read
  <1>2. hs \in Handshakes /\ net \in Seq(HsPackets) /\ hs.buf = <<>> /\ hs.pc \in HsWaits
        /\ to_dev' = to_dev /\ adbd' = adbd
    BY DEF HsSafe, HsTypeOK, Read
  <1>3. hs'.buf = SubSeq(net, 1, n) /\ hs'.pc = hs.pc /\ hs'.tls = hs.tls
        /\ hs'.mine = hs.mine /\ hs'.err = hs.err /\ hs'.cut = cut
    BY <1>1, <1>2 DEF Handshakes
  <1>4. /\ n \in Nat \ {0} /\ n <= Len(net) /\ net' \in Seq(HsPackets)
        /\ hs'.buf \in Seq(HsPackets)
        /\ Len(hs'.buf) = n /\ \A i \in 1 .. n : hs'.buf[i] = net[i]
        /\ Len(net') = Len(net) - n /\ \A i \in 1 .. Len(net) - n : net'[i] = net[i + n]
    BY <1>1, <1>2, <1>3, ReadSplits
  <1>5. /\ Stale(net) => Stale(hs'.buf) /\ Stale(net')
        /\ n < Len(net) => net' # <<>>
        /\ \A p : LastPacket(net, p) =>
             (LastPacket(net', p) /\ Stale(hs'.buf)) \/ (net' = <<>> /\ LastPacket(hs'.buf, p))
    BY <1>2, <1>4, ReadFacts
  <1>6. ~Quiet
    BY <1>1, <1>2 DEF Quiet
  <1>7. \A p : Pending(p) => PendingIn(hs'.buf, net', p)
    <2>1. \A p : ~LastPacket(<<>>, p)
      BY DEF LastPacket
    <2> QED BY <1>2, <1>5, <2>1 DEF Pending, PendingIn
  <1>8. OnlyStale => OnlyStale'
    BY <1>5 DEF OnlyStale
  <1> QED BY <1>1, <1>2, <1>3, <1>5, <1>6, <1>7, <1>8, CalmAdvance

(* The host's steps keep the calm.                                         *)
LEMMA HostCalm == HsSafe /\ Calm /\ (HostConnects \/ SignFails) => Calm'
  <1> SUFFICES ASSUME HsSafe, Calm, HostConnects \/ SignFails PROVE Calm'
    OBVIOUS
  <1>1. hs \in Handshakes /\ to_dev \in Seq(Commands) /\ hs.buf \in Seq(HsPackets)
        /\ net \in Seq(HsPackets) /\ hs.tls \in BOOLEAN /\ adbd.tls \in BOOLEAN
        /\ adbd.mine \in Terms
    BY DEF HsSafe, HsTypeOK, Handshakes, Peers
  <1>2. ASSUME NEW msg, NEW pc, Send(msg, pc)
        PROVE  /\ hs'.pc = pc /\ hs'.buf = hs.buf /\ hs'.tls = hs.tls /\ hs'.cut = hs.cut
               /\ hs'.err = hs.err /\ hs'.mine = hs.mine /\ hs'.use_tls = hs.use_tls
               /\ net' = net /\ adbd' = adbd
               /\ to_dev = <<>> => to_dev' = <<msg>>
    <2>1. to_dev = <<>> => Append(to_dev, msg) = <<msg>>
      OBVIOUS
    <2>2. to_dev' = Append(to_dev, msg) /\ net' = net /\ adbd' = adbd
          /\ hs' = [hs EXCEPT !.pc = pc]
      BY <1>2 DEF Send
    <2> QED BY <1>1, <2>1, <2>2 DEF Handshakes
  <1>3. ASSUME NEW err, Fail(err), UNCHANGED <<net, to_dev, adbd>>,
               err = "SignFailed" \/ ~adbd.trusts
        PROVE  Calm'
    <2>1. hs'.pc = "error" /\ hs'.tls = hs.tls /\ hs'.use_tls = hs.use_tls /\ hs'.cut = hs.cut
          /\ hs'.err = err
      BY <1>1, <1>3 DEF Fail, Handshakes
    <2> QED BY <1>3, <2>1, CalmError
  <1>4. ASSUME NEW C, Came(C)
        PROVE  /\ hs.pc \in HsWaits /\ hs.buf # <<>> /\ ~Quiet /\ Head(hs.buf).cmd \in C
               /\ \A p : p.cmd # "stale" /\ Pending(p) =>
                    /\ Head(hs.buf).cmd = "stale" => PendingIn(Tail(hs.buf), net, p)
                    /\ Head(hs.buf).cmd # "stale" =>
                         Head(hs.buf) = p /\ Tail(hs.buf) = <<>> /\ net = <<>>
               /\ OnlyStale => Head(hs.buf).cmd = "stale" /\ Stale(Tail(hs.buf))
    BY <1>1, <1>4, PendingFacts DEF Came, Quiet, Pending, OnlyStale
  <1>5. /\ Packet("STLS").cmd = "STLS" /\ Packet("token").cmd = "token"
        /\ Packet("alert").cmd = "alert" /\ Cnxn.cmd = "CNXN"
    BY DEF Packet, Cnxn
  <1>6. ASSUME NEW C, Came(C), "stale" \notin C
        PROVE  /\ hs.pc \in HsWaits /\ Tail(hs.buf) = <<>> /\ net = <<>> /\ ~hs.cut
               /\ \/ /\ Head(hs.buf) = Packet("STLS") /\ hs.pc = "first" /\ adbd.st = "stls"
                     /\ adbd.wants_tls /\ to_dev = <<>>
                  \/ /\ Head(hs.buf) = Packet("token") /\ hs.pc \in {"first", "secured"}
                     /\ adbd.st = "asked" /\ to_dev = <<>>
                  \/ /\ Head(hs.buf) = Packet("token") /\ hs.pc = "signed" /\ adbd.st = "dialog"
                     /\ to_dev = <<>>
                  \/ Head(hs.buf) = Cnxn /\ Online /\ to_dev = <<>>
                  \/ Head(hs.buf) = Packet("alert") /\ ~adbd.trusts
    <2>1. Head(hs.buf).cmd # "stale" /\ hs.pc \in HsWaits /\ ~Quiet /\ (OnlyStale => FALSE)
      BY <1>4, <1>6
    <2>2. \A p : p.cmd # "stale" /\ Pending(p) =>
            Head(hs.buf) = p /\ Tail(hs.buf) = <<>> /\ net = <<>>
      BY <1>4, <1>6, <2>1
    <2>3. hs.cut => net # <<>>
      BY DEF Calm
    <2> QED BY <1>5, <2>1, <2>2, <2>3, Awaited DEF SaidToken, SaidCnxn, TurnedAway
  <1>7. ASSUME NEW C, Came(C), "stale" \notin C, UNCHANGED <<net, to_dev, adbd>>, NEW err,
               hs' = [Popped EXCEPT !.pc = "error", !.err = err],
               ~adbd.trusts \/ (adbd.wants_tls /\ ~hs.use_tls)
        PROVE  Calm'
    <2>1. hs'.pc = "error" /\ hs'.tls = hs.tls /\ hs'.use_tls = hs.use_tls /\ hs'.cut = hs.cut
      BY <1>1, <1>7 DEF Popped, Handshakes
    <2> QED BY <1>7, <2>1, CalmError
  <1>8. CASE Hello
    <2>1. hs.pc = "hello" /\ Send("CNXN", "first")
      BY <1>8 DEF Hello
    <2>2. adbd.st = "off" /\ OnlyStale /\ to_dev = <<>> /\ ~hs.tls
      BY <2>1 DEF Calm
    <2>3. OnlyStale' /\ to_dev' = <<"CNXN">> /\ adbd' = adbd
      BY <1>2, <2>1, <2>2 DEF OnlyStale
    <2> HIDE DEF OnlyStale
    <2> QED BY <1>2, <2>1, <2>2, <2>3 DEF Calm
  <1>9. CASE Read
    BY <1>9, ReadCalm
  <1>10. CASE ReadEnds
    <2>1. hs.pc \in HsWaits /\ Quiet /\ adbd.st = "gone" /\ UNCHANGED <<net, to_dev, adbd>>
          /\ Fail(IF hs.tls THEN "TlsClosedBeforeConnect" ELSE "UnexpectedEof")
      BY <1>10 DEF ReadEnds, Quiet
    <2>2. \A p : ~Pending(p)
      BY <1>1, <2>1, PendingFacts DEF Pending, Quiet
    <2>3. ~adbd.trusts
      BY <2>1, <2>2, Awaited DEF SaidToken, SaidCnxn, TurnedAway
    <2> QED BY <1>3, <2>1, <2>3
  <1>11. CASE DropStale
    <2>1. Came({"stale"}) /\ hs' = Popped /\ UNCHANGED <<net, to_dev, adbd>>
      BY <1>11 DEF DropStale
    <2>2. hs'.buf = Tail(hs.buf) /\ hs'.pc = hs.pc /\ hs'.tls = hs.tls
          /\ hs'.mine = hs.mine /\ hs'.err = hs.err /\ hs'.cut = hs.cut
      BY <1>1, <2>1 DEF Popped, Handshakes
    <2>3. hs.cut => net # <<>>
      BY DEF Calm
    <2>4. OnlyStale => OnlyStale'
      BY <1>4, <2>1, <2>2 DEF OnlyStale
    <2>5. \A p : p \in {Packet("STLS"), Packet("token"), Packet("alert"), Cnxn} /\ Pending(p)
            => PendingIn(hs'.buf, net', p)
      BY <1>4, <1>5, <2>1, <2>2
    <2> QED BY <1>4, <2>1, <2>2, <2>3, <2>4, <2>5, CalmAdvance
  <1>12. CASE Refuse
    <2>1. /\ Came({"other", "alert", "part"}) /\ UNCHANGED <<net, to_dev, adbd>>
          /\ \E err : hs' = [Popped EXCEPT !.pc = "error", !.err = err]
      BY <1>12 DEF Refuse
    <2>2. ~adbd.trusts
      BY <1>4, <1>5, <1>6, <2>1
    <2> QED BY <1>7, <2>1, <2>2
  <1>13. CASE TakeVerdict
    <2>1. Came({"CNXN", "STLS"}) /\ UNCHANGED <<net, to_dev, adbd>>
      BY <1>13 DEF TakeVerdict
    <2>2. CASE Head(hs.buf).cmd = "CNXN"
      <3>1. hs' = [Popped EXCEPT !.pc = "assemble", !.got = Head(hs.buf)]
        BY <1>13, <2>2 DEF TakeVerdict
      <3>2. hs'.pc = "assemble" /\ hs'.got = Head(hs.buf) /\ hs'.buf = Tail(hs.buf)
            /\ hs'.tls = hs.tls /\ hs'.mine = hs.mine /\ hs'.err = hs.err /\ hs'.cut = hs.cut
        BY <1>1, <3>1 DEF Popped, Handshakes
      <3>3. Head(hs.buf) = Cnxn /\ Online /\ to_dev = <<>> /\ Tail(hs.buf) = <<>> /\ net = <<>>
            /\ ~hs.cut /\ hs.pc \in HsWaits
        BY <1>5, <1>6, <2>1, <2>2
      <3>4. Cnxn' = Cnxn /\ Online' /\ Quiet'
        BY <2>1, <3>2, <3>3 DEF Cnxn, Online, Quiet
      <3>5. hs.tls = adbd.tls /\ hs.err = "none" /\ (adbd.st = "dialog" => ~adbd.trusts)
        BY <3>3 DEF Calm, HsWaits
      <3> QED BY <2>1, <3>2, <3>3, <3>4, <3>5 DEF Calm
    <2>3. CASE Head(hs.buf).cmd # "CNXN" /\ hs.use_tls /\ ~hs.tls
      <3>1. hs' = [Popped EXCEPT !.pc = "upgrade"]
        BY <1>13, <2>3 DEF TakeVerdict
      <3>2. hs'.pc = "upgrade" /\ hs'.buf = Tail(hs.buf)
            /\ hs'.tls = hs.tls /\ hs'.err = hs.err /\ hs'.cut = hs.cut
        BY <1>1, <3>1 DEF Popped, Handshakes
      <3>3. adbd.st = "stls" /\ to_dev = <<>> /\ Tail(hs.buf) = <<>> /\ net = <<>>
            /\ ~hs.cut /\ hs.pc \in HsWaits
        BY <1>4, <1>5, <1>6, <2>1, <2>3
      <3>4. Idle("stls", <<>>)'
        BY <2>1, <3>2, <3>3 DEF Idle, Quiet
      <3>5. hs.tls = adbd.tls /\ hs.err = "none"
        BY <3>3 DEF Calm, HsWaits
      <3> QED BY <2>1, <2>3, <3>2, <3>3, <3>4, <3>5 DEF Calm
    <2>4. CASE Head(hs.buf).cmd # "CNXN" /\ ~(hs.use_tls /\ ~hs.tls)
      <3>1. \E err : hs' = [Popped EXCEPT !.pc = "error", !.err = err]
        BY <1>13, <2>4 DEF TakeVerdict
      <3>2. hs.pc = "first" /\ adbd.wants_tls
        BY <1>4, <1>5, <1>6, <2>1, <2>4
      <3>3. ~hs.tls
        BY <3>2 DEF Calm
      <3> QED BY <1>7, <2>1, <2>4, <3>1, <3>2, <3>3
    <2> QED BY <2>2, <2>3, <2>4
  <1>14. CASE AuthFirst
    <2>1. Came({"token", "short", "auth"}) /\ UNCHANGED <<net, to_dev, adbd>>
          /\ hs.pc \in {"first", "secured"}
      BY <1>14 DEF AuthFirst
    <2>2. Head(hs.buf) = Packet("token") /\ adbd.st = "asked" /\ to_dev = <<>>
          /\ Tail(hs.buf) = <<>> /\ net = <<>> /\ ~hs.cut /\ hs.pc \in HsWaits
      BY <1>4, <1>5, <1>6, <2>1
    <2>3. hs' = [Popped EXCEPT !.pc = "sign"]
      BY <1>5, <1>14, <2>2 DEF AuthFirst
    <2>4. hs'.pc = "sign" /\ hs'.buf = Tail(hs.buf) /\ hs'.tls = hs.tls /\ hs'.err = hs.err
          /\ hs'.cut = hs.cut
      BY <1>1, <2>3 DEF Popped, Handshakes
    <2>5. Idle("asked", <<>>)'
      BY <2>1, <2>2, <2>4 DEF Idle, Quiet
    <2>6. hs.tls = adbd.tls /\ hs.err = "none"
      BY <2>2 DEF Calm, HsWaits
    <2> QED BY <2>1, <2>2, <2>4, <2>5, <2>6 DEF Calm
  <1>15. CASE Sign
    <2>1. hs.pc = "sign" /\ Send("SIGNATURE", "signed") /\ Idle("asked", <<>>)
      BY <1>15 DEF Sign, Calm
    <2>2. Idle("asked", <<"SIGNATURE">>)'
      BY <1>2, <2>1 DEF Idle, Quiet
    <2> HIDE DEF Idle
    <2> QED BY <1>2, <2>1, <2>2 DEF Calm
  <1>16. CASE SignFails
    BY <1>3, <1>16 DEF SignFails
  <1>17. CASE AuthAgain
    <2>1. Came({"token", "short", "auth"}) /\ UNCHANGED <<net, to_dev, adbd>>
          /\ hs.pc \in {"signed", "offered"}
      BY <1>17 DEF AuthAgain
    <2>2. Head(hs.buf) = Packet("token") /\ adbd.st = "dialog" /\ to_dev = <<>> /\ hs.pc = "signed"
          /\ Tail(hs.buf) = <<>> /\ net = <<>> /\ ~hs.cut
      BY <1>4, <1>5, <1>6, <2>1
    <2>3. hs' = [Popped EXCEPT !.pc = "offer"]
      BY <1>5, <1>17, <2>2 DEF AuthAgain
    <2>4. hs'.pc = "offer" /\ hs'.buf = Tail(hs.buf) /\ hs'.tls = hs.tls /\ hs'.err = hs.err
          /\ hs'.cut = hs.cut
      BY <1>1, <2>3 DEF Popped, Handshakes
    <2>5. Idle("dialog", <<>>)'
      BY <2>1, <2>2, <2>4 DEF Idle, Quiet
    <2>6. hs.tls = adbd.tls /\ hs.err = "none" /\ ~adbd.trusts
      BY <2>2 DEF Calm
    <2> QED BY <2>1, <2>2, <2>4, <2>5, <2>6 DEF Calm
  <1>18. CASE Offer
    <2>1. hs.pc = "offer" /\ Idle("dialog", <<>>)
      BY <1>18 DEF Offer, Calm
    <2>2. ~adbd.trusts
      BY <2>1 DEF Calm, Idle
    <2>3. CASE Send("PUBKEY", "offered")
      <3>1. Idle("dialog", <<"PUBKEY">>)'
        BY <1>2, <2>1, <2>3 DEF Idle, Quiet
      <3> HIDE DEF Idle
      <3> QED BY <1>2, <2>1, <2>2, <2>3, <3>1 DEF Calm
    <2>4. CASE Fail("KeyNotTrusted") /\ UNCHANGED <<net, to_dev, adbd>>
      BY <1>3, <2>2, <2>4
    <2> QED BY <1>18, <2>3, <2>4 DEF Offer
  <1>19. CASE Upgrade
    <2>1. hs.pc = "upgrade" /\ ~hs.tls /\ Idle("stls", <<>>) /\ (hs.cut => net # <<>>)
          /\ hs.tls = adbd.tls /\ hs.err = "none"
      BY <1>19 DEF Upgrade, Calm
    <2>2. hs.buf = <<>> /\ net = <<>> /\ ~hs.cut
      BY <2>1 DEF Idle, Quiet
    <2>3. Send("STLS", "start_tls")
      BY <1>19, <2>2 DEF Upgrade
    <2>4. Idle("stls", <<"STLS">>)' /\ AllTls(net')
      BY <1>2, <2>1, <2>2, <2>3 DEF Idle, Quiet, AllTls
    <2> HIDE DEF Idle
    <2> QED BY <1>2, <2>1, <2>2, <2>3, <2>4 DEF Calm
  <1>20. CASE HsStartTls
    <2>1. UNCHANGED <<net, to_dev, adbd>> /\ hs.pc = "start_tls"
      BY <1>20 DEF HsStartTls
    <2>2. hs.buf = <<>> /\ AllTls(net) /\ ~hs.tls
          /\ \/ ~adbd.tls /\ Idle("stls", <<"STLS">>)
             \/ adbd.tls /\ \/ Idle("stls", <<>>) \/ SaidToken("asked") \/ SaidCnxn
                            \/ TurnedAway /\ (Quiet \/ Pending(Packet("alert")))
      BY <2>1 DEF Calm
    <2>3. net # <<>> => Head(net).tls
      <3>1. net # <<>> => 1 \in DOMAIN net /\ Head(net) = net[1]
        BY <1>1
      <3> QED BY <2>2, <3>1 DEF AllTls
    <2>4. ~(adbd.st = "gone" /\ ~adbd.tls)
      BY <2>2 DEF Idle
    <2>5. adbd.tls /\ hs' = [hs EXCEPT !.pc = "secured", !.tls = TRUE]
      BY <1>20, <2>3, <2>4 DEF HsStartTls
    <2>6. hs'.pc = "secured" /\ hs'.tls /\ hs'.buf = hs.buf /\ hs'.err = hs.err
          /\ hs'.mine = hs.mine /\ hs'.cut = hs.cut
      BY <1>1, <2>5 DEF Handshakes
    <2>7. /\ Idle("stls", <<>>) => Idle("stls", <<>>)'
          /\ SaidToken("asked") => SaidToken("asked")'
          /\ SaidCnxn => SaidCnxn'
          /\ TurnedAway /\ Quiet => (TurnedAway /\ Quiet)'
          /\ TurnedAway /\ Pending(Packet("alert")) => (TurnedAway /\ Pending(Packet("alert")))'
      BY <2>1, <2>6 DEF Idle, Quiet, SaidToken, SaidCnxn, Online, TurnedAway, Pending, Packet, Cnxn
    <2>8. (hs.cut => net # <<>>) /\ (adbd.st = "dialog" => ~adbd.trusts) /\ hs.err = "none"
      BY <2>1 DEF Calm
    <2>9. hs'.tls = TRUE /\ adbd'.tls = TRUE
      BY <1>1, <2>1, <2>5 DEF Handshakes
    <2> HIDE DEF Idle, SaidToken, SaidCnxn, TurnedAway, Pending, Quiet
    <2> QED BY <2>1, <2>2, <2>5, <2>6, <2>7, <2>8, <2>9 DEF Calm
  <1>21. CASE Assemble
    <2>1. hs.pc = "assemble" /\ UNCHANGED <<net, to_dev, adbd>>
      BY <1>21 DEF Assemble
    <2>2. Online /\ Quiet /\ to_dev = <<>> /\ hs.got = Cnxn
      BY <2>1 DEF Calm
    <2>3. /\ hs.got.terms.banner_ok = adbd.mine.banner_ok
          /\ hs.got.terms.payload = Min2(adbd.mine.payload, hs.mine.payload)
          /\ hs.got.terms.version = adbd.mine.version
          /\ hs.got.terms.delayed_ack = adbd.mine.delayed_ack
      BY <1>1, <2>2 DEF Cnxn, Terms
    <2>4. CASE hs.got.terms.banner_ok
      <3> DEFINE t == [Settled(hs.mine, hs.got.terms)
                         EXCEPT !.payload = Min2(hs.got.terms.payload, 2)]
      <3>1. hs' = [hs EXCEPT !.pc = "ok", !.terms = t]
        BY <1>21, <2>4 DEF Assemble
      <3>2. t = Settled(hs.mine, adbd.mine)
        <4>1. hs.mine.payload \in 1 .. 2 /\ adbd.mine.payload \in 1 .. 2
          BY <1>1 DEF Handshakes, HostTerms, Terms
        <4>2. Min2(hs.got.terms.payload, 2) = Min2(hs.mine.payload, adbd.mine.payload)
          BY <2>3, <4>1 DEF Min2
        <4>3. hs.mine \in Terms /\ hs.got.terms \in Terms
          BY <1>1 DEF Handshakes, HostTerms, HsPackets
        <4> DEFINE a == Settled(hs.mine, hs.got.terms)
                   b == Settled(hs.mine, adbd.mine)
        <4>4. a \in Terms /\ b \in Terms /\ a.version = b.version /\ a.banner_ok = b.banner_ok
              /\ a.delayed_ack = b.delayed_ack
              /\ b.payload = Min2(hs.mine.payload, adbd.mine.payload)
          BY <1>1, <2>3, <4>3 DEF Settled, Terms, Min2
        <4> HIDE DEF a, b
        <4>5. [a EXCEPT !.payload = b.payload] = b
          BY <4>4 DEF Terms
        <4> QED BY <4>2, <4>4, <4>5 DEF a, b
      <3> HIDE DEF t
      <3>3. hs'.pc = "ok" /\ hs'.terms = t /\ hs'.buf = hs.buf /\ hs'.tls = hs.tls
            /\ hs'.err = hs.err /\ hs'.mine = hs.mine /\ hs'.cut = hs.cut /\ hs'.got = hs.got
        BY <1>1, <3>1 DEF Handshakes
      <3>4. Online' /\ Quiet' /\ Cnxn' = Cnxn /\ hs'.terms = adbd'.terms
        BY <2>1, <2>2, <3>2, <3>3 DEF Online, Quiet, Cnxn
      <3>5. (hs.cut => net # <<>>) /\ (adbd.st = "dialog" => ~adbd.trusts) /\ hs.err = "none"
            /\ hs.tls = adbd.tls
        BY <2>1 DEF Calm
      <3> QED BY <2>1, <2>2, <3>3, <3>4, <3>5 DEF Calm
    <2>5. CASE ~hs.got.terms.banner_ok
      <3>1. hs' = [hs EXCEPT !.pc = "error", !.err = "Banner"] /\ ~adbd.mine.banner_ok
        BY <1>21, <2>3, <2>5 DEF Assemble
      <3>2. hs'.pc = "error" /\ hs'.tls = hs.tls /\ hs'.use_tls = hs.use_tls /\ hs'.cut = hs.cut
        BY <1>1, <3>1 DEF Handshakes
      <3> QED BY <2>1, <3>1, <3>2, CalmError
    <2> QED BY <2>4, <2>5
  <1> QED BY <1>8, <1>9, <1>10, <1>11, <1>12, <1>13, <1>14, <1>15, <1>16, <1>17, <1>18, <1>19,
             <1>20, <1>21 DEF HostConnects

(* What the device says after nothing but stale packets is what the host   *)
(* waits for.                                                              *)
LEMMA NowPending ==
    ASSUME HsSafe, NEW cmd \in Cmds, NEW st \in {"asked", "dialog", "stls", "online", "gone"},
           Says(cmd, st), hs' = hs, OnlyStale
    PROVE  /\ net' # <<>>
           /\ cmd # "CNXN" => Pending(Packet(cmd))'
           /\ cmd = "CNXN" => Pending(Cnxn)' /\ adbd'.terms = Settled(hs.mine, adbd.mine)
           /\ adbd.tls /\ AllTls(net) => AllTls(net')
           /\ adbd'.st = st /\ adbd'.tls = adbd.tls /\ adbd'.trusts = adbd.trusts
           /\ adbd'.mine = adbd.mine /\ adbd'.wants_tls = adbd.wants_tls
  <1>1. HsTypeOK /\ adbd.tokens <= 2 /\ hs.buf \in Seq(HsPackets) /\ net \in Seq(HsPackets)
    BY DEF HsSafe, HsTypeOK, AuthsCounted, Handshakes
  <1>2. PICK e \in HsPackets :
          /\ net' = Append(net, e) /\ e.tls = adbd.tls
          /\ e = [cmd |-> cmd, tls |-> adbd.tls,
                  terms |-> IF cmd = "CNXN"
                            THEN [adbd.mine EXCEPT !.payload = Min2(@, hs.mine.payload)]
                            ELSE NoTerms]
          /\ adbd'.st = st /\ adbd'.tls = adbd.tls /\ adbd'.trusts = adbd.trusts
          /\ adbd'.mine = adbd.mine /\ adbd'.wants_tls = adbd.wants_tls
          /\ cmd = "CNXN" => adbd'.terms = Settled(hs.mine, adbd.mine)
    BY <1>1, SaysFacts
  <1>3. (cmd # "CNXN" => e = Packet(cmd)') /\ (cmd = "CNXN" => e = Cnxn')
    BY <1>2 DEF Packet, Cnxn
  <1>4. PendingIn(hs.buf, net', e) /\ net' # <<>>
    BY <1>1, <1>2, PendingFacts DEF OnlyStale
  <1>5. (cmd # "CNXN" => Pending(Packet(cmd))') /\ (cmd = "CNXN" => Pending(Cnxn)')
    BY <1>3, <1>4 DEF Pending
  <1>6. adbd.tls /\ AllTls(net) => AllTls(net')
    BY <1>1, <1>2, AddFacts
  <1> QED BY <1>2, <1>4, <1>5, <1>6

(* What a packet of the device's leaves as it was.                         *)
LEMMA SaysKeeps ==
    ASSUME HsSafe, NEW cmd \in Cmds, NEW st \in {"asked", "dialog", "stls", "online", "gone"},
           Says(cmd, st)
    PROVE  /\ net' # <<>> /\ adbd'.st = st /\ adbd'.tls = adbd.tls /\ adbd'.trusts = adbd.trusts
           /\ adbd'.mine = adbd.mine /\ adbd'.wants_tls = adbd.wants_tls
  <1>1. HsTypeOK /\ adbd.tokens <= 2 /\ net \in Seq(HsPackets)
    BY DEF HsSafe, HsTypeOK, AuthsCounted
  <1>2. PICK e \in HsPackets :
          /\ net' = Append(net, e) /\ adbd'.st = st /\ adbd'.tls = adbd.tls
          /\ adbd'.trusts = adbd.trusts /\ adbd'.mine = adbd.mine
          /\ adbd'.wants_tls = adbd.wants_tls
    BY <1>1, SaysFacts
  <1>3. net' # <<>>
    BY <1>1, <1>2, AddFacts
  <1> QED BY <1>2, <1>3

(* A host that has failed does not mind what the device does.              *)
LEMMA CalmAfterError ==
    ASSUME Calm, hs.pc = "error", hs' = hs, net' = net \/ net' # <<>>,
           adbd'.st = "dialog" => ~adbd.trusts, adbd.tls => adbd'.tls,
           adbd'.trusts = adbd.trusts, adbd'.mine = adbd.mine, adbd'.wants_tls = adbd.wants_tls
    PROVE  Calm'
  BY DEF Calm

(* The device's steps keep the calm.                                       *)
LEMMA DeviceCalm == HsSafe /\ Calm /\ AdbdAnswers => Calm'
  <1> SUFFICES ASSUME HsSafe, Calm, AdbdAnswers PROVE Calm'
    OBVIOUS
  <1>1. hs.pc \in HsPcs /\ hs.tls \in BOOLEAN /\ adbd \in Peers /\ adbd.tls \in BOOLEAN
        /\ to_dev \in Seq(Commands)
    BY DEF HsSafe, HsTypeOK, Handshakes, Peers
  <1>2. Quiet => OnlyStale
    BY DEF Quiet, OnlyStale, Stale
  <1>3. ASSUME NEW msg \in Commands, Hears(msg)
        PROVE  hs' = hs /\ to_dev # <<>> /\ Head(to_dev) = msg
               /\ \A m \in Commands : to_dev = <<m>> => m = msg /\ to_dev' = <<>>
    BY <1>3, SentFacts DEF Hears
  <1>4. /\ "CNXN" \in Commands /\ "SIGNATURE" \in Commands /\ "PUBKEY" \in Commands
        /\ "STLS" \in Commands /\ "CNXN" \in Cmds /\ "STLS" \in Cmds /\ "token" \in Cmds
        /\ "alert" \in Cmds
    BY DEF Commands, Cmds
  <1>5. CASE AdbdHello
    <2>1. adbd.st = "off" /\ Hears("CNXN") /\ hs' = hs /\ to_dev # <<>>
      BY <1>3, <1>4, <1>5 DEF AdbdHello
    <2>2. \/ hs.pc = "error"
          \/ hs.pc = "first" /\ OnlyStale /\ to_dev = <<"CNXN">> /\ ~hs.tls /\ hs.err = "none"
             /\ hs.tls = adbd.tls
      BY <1>1, <2>1 DEF Calm, HsPcs, HsWaits, Idle, SaidToken, SaidCnxn, Online, TurnedAway
    <2>3. \/ Says("STLS", "stls") /\ adbd.wants_tls
          \/ Says("token", "asked") \/ Says("CNXN", "online")
      BY <1>5 DEF AdbdHello
    <2>4. CASE hs.pc = "error"
      <3>1. net' # <<>> /\ adbd'.st # "dialog" /\ adbd'.tls = adbd.tls
            /\ adbd'.trusts = adbd.trusts /\ adbd'.mine = adbd.mine
            /\ adbd'.wants_tls = adbd.wants_tls
        BY <1>4, <2>3, SaysKeeps
      <3> QED BY <2>1, <2>4, <3>1, CalmAfterError
    <2>5. CASE hs.pc = "first"
      <3>1. OnlyStale /\ to_dev' = <<>> /\ ~hs.tls /\ hs.err = "none" /\ hs.tls = adbd.tls
        BY <1>3, <1>4, <2>1, <2>2, <2>5
      <3>2. /\ net' # <<>> /\ adbd'.tls = adbd.tls /\ adbd'.st # "dialog"
            /\ \/ adbd'.st = "stls" /\ adbd'.wants_tls /\ Pending(Packet("STLS"))'
               \/ SaidToken("asked")' \/ SaidCnxn'
        BY <1>4, <2>1, <2>3, <3>1, NowPending DEF SaidToken, SaidCnxn, Online
      <3> HIDE DEF SaidToken, SaidCnxn, Pending
      <3> QED BY <2>1, <2>5, <3>1, <3>2 DEF Calm
    <2> QED BY <2>2, <2>4, <2>5
  <1>6. CASE AdbdSignature
    <2>1. adbd.st = "asked" /\ Hears("SIGNATURE") /\ hs' = hs /\ to_dev # <<>>
      BY <1>3, <1>4, <1>6 DEF AdbdSignature
    <2>2. \/ hs.pc = "error"
          \/ hs.pc = "signed" /\ Quiet /\ to_dev = <<"SIGNATURE">> /\ hs.err = "none"
             /\ hs.tls = adbd.tls
      BY <1>1, <2>1 DEF Calm, HsPcs, HsWaits, Idle, SaidToken, SaidCnxn, Online, TurnedAway
    <2>3. Says("CNXN", "online") \/ (Says("token", "dialog") /\ ~adbd.trusts)
      BY <1>6 DEF AdbdSignature
    <2>4. CASE hs.pc = "error"
      <3>1. net' # <<>> /\ (adbd'.st = "dialog" => ~adbd.trusts) /\ adbd'.tls = adbd.tls
            /\ adbd'.trusts = adbd.trusts /\ adbd'.mine = adbd.mine
            /\ adbd'.wants_tls = adbd.wants_tls
        BY <1>4, <2>3, SaysKeeps
      <3> QED BY <2>1, <2>4, <3>1, CalmAfterError
    <2>5. CASE hs.pc = "signed"
      <3>1. OnlyStale /\ to_dev' = <<>> /\ hs.err = "none" /\ hs.tls = adbd.tls
        BY <1>2, <1>3, <1>4, <2>1, <2>2, <2>5
      <3>2. /\ net' # <<>> /\ adbd'.tls = adbd.tls /\ (adbd'.st = "dialog" => ~adbd'.trusts)
            /\ SaidToken("dialog")' \/ SaidCnxn'
        BY <1>4, <2>1, <2>3, <3>1, NowPending DEF SaidToken, SaidCnxn, Online
      <3> HIDE DEF SaidToken, SaidCnxn
      <3> QED BY <2>1, <2>5, <3>1, <3>2 DEF Calm
    <2> QED BY <2>2, <2>4, <2>5
  <1>7. CASE AdbdKey
    <2>1. adbd.st = "dialog" /\ Hears("PUBKEY") /\ hs' = hs /\ to_dev # <<>>
      BY <1>3, <1>4, <1>7 DEF AdbdKey
    <2>2. /\ ~adbd.trusts /\ (hs.cut => net # <<>>)
          /\ \/ hs.pc = "error"
             \/ hs.pc = "offered" /\ Quiet /\ to_dev = <<"PUBKEY">> /\ hs.err = "none"
                /\ hs.tls = adbd.tls
      BY <1>1, <2>1 DEF Calm, HsPcs, HsWaits, Idle, SaidToken, SaidCnxn, Online, TurnedAway
    <2>3. CASE Says("CNXN", "online")
      <3>1. CASE hs.pc = "error"
        <4>1. net' # <<>> /\ adbd'.st # "dialog" /\ adbd'.tls = adbd.tls
              /\ adbd'.trusts = adbd.trusts /\ adbd'.mine = adbd.mine
              /\ adbd'.wants_tls = adbd.wants_tls
          BY <1>4, <2>3, SaysKeeps
        <4> QED BY <2>1, <3>1, <4>1, CalmAfterError
      <3>2. CASE hs.pc = "offered"
        <4>1. OnlyStale /\ to_dev' = <<>> /\ hs.err = "none" /\ hs.tls = adbd.tls
          BY <1>2, <1>3, <1>4, <2>1, <2>2, <3>2
        <4>2. net' # <<>> /\ adbd'.tls = adbd.tls /\ adbd'.st # "dialog" /\ SaidCnxn'
          BY <1>4, <2>1, <2>3, <4>1, NowPending DEF SaidCnxn, Online
        <4> HIDE DEF SaidCnxn
        <4> QED BY <2>1, <3>2, <4>1, <4>2 DEF Calm
      <3> QED BY <2>2, <3>1, <3>2
    <2>4. CASE net' = net /\ adbd' = [adbd EXCEPT !.st = "gone"]
      <3>1. adbd'.st = "gone" /\ adbd'.tls = adbd.tls /\ adbd'.trusts = adbd.trusts
            /\ adbd'.mine = adbd.mine /\ adbd'.wants_tls = adbd.wants_tls
        BY <1>1, <2>4 DEF Peers
      <3>2. CASE hs.pc = "error"
        BY <2>1, <2>4, <3>1, <3>2, CalmAfterError
      <3>3. CASE hs.pc = "offered"
        <4>1. to_dev' = <<>> /\ Quiet' /\ TurnedAway' /\ hs.err = "none" /\ hs.tls = adbd.tls
          BY <1>3, <1>4, <2>1, <2>2, <2>4, <3>1, <3>3 DEF Quiet, TurnedAway
        <4> HIDE DEF TurnedAway, Quiet
        <4> QED BY <2>1, <2>2, <2>4, <3>1, <3>3, <4>1 DEF Calm
      <3> QED BY <2>2, <3>2, <3>3
    <2> QED BY <1>7, <2>3, <2>4 DEF AdbdKey
  <1>8. CASE AdbdTls
    <2>1. adbd.st = "stls" /\ ~adbd.tls /\ Hears("STLS") /\ hs' = hs /\ to_dev # <<>> /\ net' = net
      BY <1>3, <1>4, <1>8 DEF AdbdTls
    <2>2. \/ hs.pc = "error"
          \/ hs.pc = "start_tls" /\ Quiet /\ to_dev = <<"STLS">> /\ hs.err = "none"
             /\ ~hs.tls /\ hs.buf = <<>> /\ AllTls(net)
      BY <1>1, <2>1 DEF Calm, HsPcs, HsWaits, Idle, SaidToken, SaidCnxn, Online, TurnedAway
    <2>3. adbd'.st = "stls" /\ adbd'.tls /\ adbd'.trusts = adbd.trusts
          /\ adbd'.mine = adbd.mine /\ adbd'.wants_tls = adbd.wants_tls
      BY <1>1, <1>8 DEF AdbdTls, Peers
    <2>4. CASE hs.pc = "error"
      BY <2>1, <2>3, <2>4, CalmAfterError
    <2>5. CASE hs.pc = "start_tls"
      <3>1. Idle("stls", <<>>)'
        BY <1>3, <1>4, <2>1, <2>2, <2>3, <2>5 DEF Idle, Quiet
      <3>2. hs.cut => net # <<>>
        BY DEF Calm
      <3> HIDE DEF Idle
      <3> QED BY <2>1, <2>2, <2>3, <2>5, <3>1, <3>2 DEF Calm
    <2> QED BY <2>2, <2>4, <2>5
  <1>9. CASE AdbdInTls
    <2>1. adbd.st = "stls" /\ adbd.tls /\ hs' = hs /\ to_dev' = to_dev
      BY <1>9 DEF AdbdInTls
    <2>2. /\ hs.cut => net # <<>>
          /\ \/ hs.pc = "error"
             \/ /\ hs.pc \in {"start_tls", "secured"} /\ Quiet /\ to_dev = <<>> /\ hs.err = "none"
                /\ hs.pc = "start_tls" => ~hs.tls /\ hs.buf = <<>> /\ AllTls(net)
                /\ hs.pc = "secured" => hs.tls = adbd.tls
      BY <1>1, <2>1 DEF Calm, HsPcs, HsWaits, Idle, SaidToken, SaidCnxn, Online, TurnedAway
    <2>3. CASE \/ Says("CNXN", "online") \/ Says("token", "asked")
               \/ Says("alert", "gone") /\ ~adbd.trusts
      <3>1. CASE hs.pc = "error"
        <4>1. net' # <<>> /\ adbd'.st # "dialog" /\ adbd'.tls = adbd.tls
              /\ adbd'.trusts = adbd.trusts /\ adbd'.mine = adbd.mine
              /\ adbd'.wants_tls = adbd.wants_tls
          BY <1>4, <2>3, SaysKeeps
        <4> QED BY <2>1, <3>1, <4>1, CalmAfterError
      <3>2. CASE hs.pc # "error"
        <4>1. /\ net' # <<>> /\ adbd'.tls = adbd.tls /\ adbd'.st # "dialog"
              /\ AllTls(net) => AllTls(net')
              /\ \/ SaidToken("asked")' \/ SaidCnxn'
                 \/ TurnedAway' /\ Pending(Packet("alert"))'
          BY <1>2, <1>4, <2>1, <2>2, <2>3, <3>2, NowPending DEF SaidToken, SaidCnxn, Online, TurnedAway
        <4> HIDE DEF SaidToken, SaidCnxn, TurnedAway, Pending
        <4> QED BY <2>1, <2>2, <3>2, <4>1 DEF Calm
      <3> QED BY <3>1, <3>2
    <2>4. CASE net' = net /\ adbd' = [adbd EXCEPT !.st = "gone"] /\ ~adbd.trusts
      <3>1. adbd'.st = "gone" /\ adbd'.tls = adbd.tls /\ adbd'.trusts = adbd.trusts
            /\ adbd'.mine = adbd.mine /\ adbd'.wants_tls = adbd.wants_tls
        BY <1>1, <2>4 DEF Peers
      <3>2. CASE hs.pc = "error"
        BY <2>1, <2>4, <3>1, <3>2, CalmAfterError
      <3>3. CASE hs.pc # "error"
        <4>1. Quiet' /\ TurnedAway'
          BY <2>1, <2>2, <2>4, <3>1, <3>3 DEF Quiet, TurnedAway
        <4> HIDE DEF TurnedAway, Quiet
        <4> QED BY <2>1, <2>2, <2>4, <3>1, <3>3, <4>1 DEF Calm
      <3> QED BY <3>2, <3>3
    <2> QED BY <1>9, <2>3, <2>4 DEF AdbdInTls
  <1> QED BY <1>5, <1>6, <1>7, <1>8, <1>9 DEF AdbdAnswers

(* The handshake's invariant holds at the start, and every step keeps it.  *)
LEMMA HsStarts == HsInit => HsInv
  <1> SUFFICES ASSUME HsInit PROVE HsInv
    OBVIOUS
  <1>1. PICK n \in 0 .. MaxStale : net = [i \in 1 .. n |-> Plain("stale")]
    BY DEF HsInit
  <1>2. Plain("stale") \in HsPackets /\ Plain("other") \in HsPackets /\ NoTerms \in Terms
        /\ Plain("stale").cmd = "stale" /\ ~Plain("stale").tls
    BY DEF Plain, HsPackets, Cmds, NoTerms, Terms
  <1>3. n \in Nat /\ net \in Seq(HsPackets) /\ DOMAIN net = 1 .. n
        /\ \A i \in DOMAIN net : net[i] = Plain("stale")
    BY <1>1, <1>2, HsAssumption
  <1>4. /\ hs.pc = "hello" /\ hs.err = "none" /\ ~hs.tls /\ hs.buf = <<>> /\ ~hs.cut
        /\ hs.may_offer \in BOOLEAN /\ to_dev = <<>>
        /\ adbd.st = "off" /\ ~adbd.tls /\ adbd.tokens = 0 /\ adbd.odd = 0
        /\ hs.tls = FALSE /\ adbd.tls = FALSE
    BY DEF HsInit, Devices
  <1>5. hs \in Handshakes
    <2>1. <<>> \in Seq(HsPackets) /\ "hello" \in HsPcs /\ "none" \in HsErrors
      BY DEF HsPcs, HsErrors
    <2> QED BY <1>2, <2>1 DEF HsInit, Handshakes
  <1>6. adbd \in Peers
    <2>1. adbd \in [st : {"off"}, tls : {FALSE}, wants_tls : BOOLEAN, wants_auth : BOOLEAN,
                    trusts : BOOLEAN, terms : {NoTerms}, mine : Terms, tokens : {0}, odd : {0}]
      BY DEF HsInit, Devices
    <2>2. 0 \in 0 .. 3 /\ 0 \in 0 .. MaxOdd
      BY HsAssumption
    <2> QED BY <1>2, <2>1, <2>2 DEF Peers
  <1>7. HsTypeOK
    BY <1>3, <1>4, <1>5, <1>6 DEF HsTypeOK
  <1>8. Stale(net) /\ Stale(hs.buf) /\ NoTls(net) /\ TlsLast(net)
    BY <1>2, <1>3, <1>4 DEF Stale, NoTls, TlsLast
  <1>9. ~OneAuth(net) /\ ~OneAuth(hs.buf) /\ ~TwoAuths(net) /\ ~TwoAuths(hs.buf)
    BY <1>2, <1>3, <1>4 DEF OneAuth, TwoAuths, IsAuth
  <1>10. AuthsCounted
    BY <1>4, <1>9 DEF AuthsCounted, AnyAuth, AnyTwoAuths
  <1>11. TlsInOrder
    BY <1>4, <1>8 DEF TlsInOrder
  <1>12. OfferedOnly
    BY <1>4 DEF OfferedOnly, HsRange
  <1>13. Calm
    BY <1>4, <1>8 DEF Calm, OnlyStale
  <1> QED BY <1>7, <1>10, <1>11, <1>12, <1>13 DEF HsInv, HsSafe

(* Every step of the handshake keeps its invariant.                        *)
LEMMA HsStepKeeps == HsInv /\ HsNext => HsInv'
  <1> SUFFICES ASSUME HsInv, HsNext PROVE HsInv'
    OBVIOUS
  <1>1. HsSafe /\ adbd.odd \in Nat /\ adbd \in Peers
    BY DEF HsInv, HsSafe, HsTypeOK, Peers
  <1>2. CASE HostConnects \/ SignFails
    <2>1. adbd' = adbd
      BY <1>2 DEF HostConnects, Hello, Read, ReadEnds, DropStale, Refuse, TakeVerdict, AuthFirst,
                  Sign, SignFails, AuthAgain, Offer, Upgrade, HsStartTls, Assemble, Send
    <2> QED BY <1>1, <1>2, <2>1, HostSafe, HostCalm DEF HsInv
  <1>3. CASE AdbdAnswers
    <2>1. adbd'.odd = adbd.odd
      BY <1>1, <1>3 DEF AdbdAnswers, AdbdHello, AdbdSignature, AdbdKey, AdbdTls, AdbdInTls, Says,
                        Peers
    <2> QED BY <1>1, <1>3, <2>1, DeviceSafe, DeviceCalm DEF HsInv
  <1>4. CASE AdbdOdd \/ AdbdGone
    <2>1. adbd'.odd # 0
      <3>1. CASE AdbdOdd
        BY <1>1, <3>1 DEF AdbdOdd, Peers
      <3>2. CASE AdbdGone
        <4>1. adbd' = [adbd EXCEPT !.st = "gone", !.odd = adbd.odd + 1]
          BY <3>2 DEF AdbdGone
        <4> QED BY <1>1, <4>1 DEF Peers
      <3> QED BY <1>4, <3>1, <3>2
    <2> QED BY <1>1, <1>4, <2>1, DeviceSafe DEF HsInv
  <1> QED BY <1>2, <1>3, <1>4 DEF HsNext

(* The host connects to the device it has paired with: that changes what   *)
(* the device trusts before either has said a word.                        *)
LEMMA ConnectKeeps == PairTypeOK /\ HsInv /\ hs.pc = "hello" /\ Connect => HsInv'
  <1> SUFFICES ASSUME PairTypeOK, HsInv, hs.pc = "hello", Connect PROVE HsInv'
    OBVIOUS
  <1>1. /\ UNCHANGED <<hs, net, to_dev>> /\ adbd' = [adbd EXCEPT !.trusts = pair_dev.trusts]
        /\ pair_dev.trusts \in BOOLEAN /\ adbd \in Peers
    BY DEF Connect, PairTypeOK, HsInv, HsSafe, HsTypeOK
  <1>2. /\ adbd' \in Peers /\ adbd'.st = adbd.st /\ adbd'.tls = adbd.tls
        /\ adbd'.tokens = adbd.tokens /\ adbd'.odd = adbd.odd
    BY <1>1 DEF Peers
  <1>3. HsTypeOK'
    BY <1>1, <1>2 DEF HsInv, HsSafe, HsTypeOK
  <1>4. AuthsCounted' /\ TlsInOrder' /\ OfferedOnly'
    BY <1>1, <1>2 DEF HsInv, HsSafe, AuthsCounted, AnyAuth, AnyTwoAuths, Asked, TlsInOrder,
                      OfferedOnly
  <1>5. adbd.odd = 0 => Calm'
    <2> SUFFICES ASSUME adbd.odd = 0 PROVE Calm'
      OBVIOUS
    <2>1. Calm
      BY DEF HsInv
    <2>2. adbd.st = "off" /\ OnlyStale /\ to_dev = <<>> /\ ~hs.tls /\ hs.err = "none"
          /\ hs.tls = adbd.tls /\ (hs.cut => net # <<>>)
      BY <2>1 DEF Calm
    <2> QED BY <1>1, <1>2, <2>2 DEF Calm, OnlyStale
  <1> QED BY <1>2, <1>3, <1>4, <1>5 DEF HsInv, HsSafe

-----------------------------------------------------------------------------
(* Pairing, then connecting.                                               *)
SetupInv ==
    /\ PairInv /\ HsInv /\ part \in {"keys", "pair", "connect", "link"}
    /\ part # "connect" => hs.pc = "hello"

(* The invariant of the three, as the one call follows the other.          *)
LEMMA SetupInvHolds == SetupSpec => []SetupInv
  <1>1. SetupInit => SetupInv
    <2> SUFFICES ASSUME SetupInit PROVE SetupInv
      OBVIOUS
    <2>1. (PairInit \/ PairIdle) /\ HsInit /\ part \in {"keys", "pair", "connect", "link"}
      BY DEF SetupInit, HsIdle
    <2>2. hs.pc = "hello"
      BY <2>1 DEF HsInit
    <2> QED BY <2>1, <2>2, PairStarts, HsStarts DEF SetupInv
  <1>2. SetupInv /\ [SetupNext]_setupVars => SetupInv'
    <2> SUFFICES ASSUME SetupInv, [SetupNext]_setupVars PROVE SetupInv'
      OBVIOUS
    <2>1. UNCHANGED pairVars => PairInv'
      BY DEF SetupInv, pairVars, PairInv, PairTypeOK, SealedByOwner, DevKey, HostKey,
             PairedMeansSameCode, PairVerdict, PairInStep, InStep
    <2>2. UNCHANGED hsVars => HsInv'
      BY DEF SetupInv, hsVars, HsInv, HsSafe, HsTypeOK, AuthsCounted, AnyAuth, AnyTwoAuths, Asked,
             TlsInOrder, OfferedOnly, Calm, OnlyStale, Quiet, Pending, Packet, Cnxn, Online,
             SaidCnxn, SaidToken, Idle, TurnedAway
    <2>3. CASE KeysAct(KeyNext)
      BY <2>1, <2>2, <2>3 DEF KeysAct, SetupInv, hsVars
    <2>4. CASE PairAct(PairNext)
      BY <2>2, <2>4, PairStepKeeps DEF PairAct, SetupInv, hsVars
    <2>5. CASE Connect
      <3>1. PairInv' /\ part' = "connect" /\ hs.pc = "hello"
        BY <2>1, <2>5 DEF Connect, SetupInv
      <3>2. HsInv'
        BY <2>5, <3>1, ConnectKeeps DEF SetupInv, PairInv
      <3> QED BY <3>1, <3>2 DEF SetupInv
    <2>6. CASE ConnectAct(HsNext)
      BY <2>1, <2>6, HsStepKeeps DEF ConnectAct, SetupInv
    <2>7. CASE LinkAct(LinkNext)
      BY <2>1, <2>2, <2>7 DEF LinkAct, SetupInv, hsVars
    <2>8. CASE UNCHANGED setupVars
      BY <2>1, <2>2, <2>8 DEF setupVars, hsVars, SetupInv
    <2> QED BY <2>3, <2>4, <2>5, <2>6, <2>7, <2>8 DEF SetupNext
  <1> QED BY <1>1, <1>2, PTL DEF SetupSpec

(* A pairing succeeds only against the same code in one session and fails  *)
(* for a reason of its own; the handshake takes nothing plain into a TLS   *)
(* connection, offers its public key last and only when it may, and with a *)
(* device that speaks adb settles on the same terms at both ends.  For     *)
(* every number of codes, stale packets, faults and odd packets.           *)
THEOREM DeviceIsKnown == SetupSpec => []DeviceKnown
  <1>1. KeyInv /\ SetupInv => DeviceKnown
    <2> SUFFICES ASSUME KeyInv, SetupInv PROVE DeviceKnown
      OBVIOUS
    <2>1. SetupTypeOK /\ PairedMeansSameCode /\ PairVerdict
      BY DEF KeyInv, SetupInv, PairInv, HsInv, HsSafe, SetupTypeOK
    <2>2. NothingPlainInTls
      BY DEF SetupInv, HsInv, HsSafe, TlsInOrder, NothingPlainInTls, HsRange, AllTls
    <2>3. KeyOfferedLast
      BY DEF SetupInv, HsInv, HsSafe, OfferedOnly, Asked, KeyOfferedLast
    <2>4. StaleAndTerms
      BY DEF SetupInv, HsInv, Calm, StaleAndTerms
    <2> QED BY <2>1, <2>2, <2>3, <2>4 DEF DeviceKnown
  <1> QED BY <1>1, KeyInvHolds, SetupInvHolds, PTL

-----------------------------------------------------------------------------
(* The scan of the USB bus for the device to connect to.                   *)

(* A device that is not the one to return, and, when a vendor and product  *)
(* name it, not the one that decides.                                      *)
Skipped(k) ==
    /\ ~(Fits(usb.bus[k]) /\ Healthy(usb.bus[k]))
    /\ named => ~Fits(usb.bus[k]) \/ Unreadable(usb.bus[k])

(* What admit has seen of a device that goes on to its serial or its open. *)
Admitted(d) ==
    /\ ~Unreadable(d) /\ (named => Fits(d))
    /\ IF usb.backend = "rusb" THEN d.configured /\ Usable(d) # <<>> ELSE AdbSettings(d) # <<>>

(* A scan.                                                                 *)
Words == {"none", "ok", "NotFound", "Descriptor", "NoBulkEndpoints", "NoAdbInterface", "Open",
          "SerialRead", "Claim"}
Pcs == {"scan", "device", "serial", "open", "done"}
Scans == [bus : Buses, selector : Selectors, backend : Backends, i : Nat, first_err : Words,
          pc : Pcs, res : Words]

(* Who looked at what: the devices the scan went past, the one in hand.    *)
SeenInv ==
    /\ usb \in Scans /\ usb.i <= Len(usb.bus)
    /\ usb.pc \in {"device", "serial", "open"} => usb.i > 0
    /\ \A k \in 1..Len(usb.bus) : k < usb.i \/ (k = usb.i /\ usb.pc = "scan") => Skipped(k)
    /\ usb.pc \in {"serial", "open"} => Admitted(Device)
    /\ usb.pc = "serial" => usb.selector.by = "serial"
    /\ usb.pc = "open" /\ usb.selector.by = "serial" =>
         Device.serial = usb.selector.is /\ (usb.backend = "rusb" => Device.tells)
    /\ usb.first_err \notin {"NotFound", "ok"}

(* How a scan ended.                                                       *)
EndInv ==
    usb.pc = "done" =>
      /\ usb.res = "ok" => usb.i > 0 /\ Fits(Device) /\ Healthy(Device)
      /\ usb.res # "ok" /\ (~named \/ usb.res = "NotFound") => \A k \in 1..Len(usb.bus) : Skipped(k)

(* Only the device in hand is open, and only while it is needed.           *)
OpenInv ==
    /\ usb_open = IF \/ usb.pc = "open" /\ usb.selector.by = "serial" /\ usb.backend = "rusb"
                     \/ usb.pc = "done" /\ usb.res = "ok"
                  THEN {usb.i} ELSE {}
    /\ usb_claimed = IF usb.pc = "done" /\ usb.res = "ok" THEN {usb.i} ELSE {}

(* The first error of the devices gone past is the one remembered, and the *)
(* one told at the end, unless the device that was named had one.          *)
AllTroubles == [k \in DOMAIN usb.bus |-> Trouble(usb.bus[k])]
FirstOf(troubles, n, e) ==
    IF e = "none" THEN \A k \in 1..n : troubles[k] = "none"
    ELSE \E k \in 1..n : troubles[k] = e /\ \A j \in 1..(k - 1) : troubles[j] = "none"
GonePast == IF usb.pc = "scan" THEN usb.i ELSE usb.i - 1
ToldInv ==
    /\ usb.pc # "done" => FirstOf(AllTroubles, GonePast, usb.first_err)
    /\ usb.pc = "done" /\ usb.res # "ok" =>
         \/ /\ usb.i > 0 /\ named /\ Fits(Device) /\ ~Unreadable(Device)
            /\ usb.res = Trouble(Device)
         \/ /\ FirstOf(AllTroubles, Len(usb.bus),
                       IF usb.res = "NotFound" THEN "none" ELSE usb.res)
            /\ usb.res # "none" /\ \A k \in 1..Len(usb.bus) : Skipped(k)

UsbInv == SeenInv /\ EndInv /\ OpenInv /\ ToldInv

(* What a step of a scan is: a device is gone past, one is taken in hand   *)
(* or further, or the scan ends.                                           *)
Same == usb'.bus = usb.bus /\ usb'.selector = usb.selector /\ usb'.backend = usb.backend

LEMMA BusFacts ==
    ASSUME SeenInv
    PROVE  /\ Len(usb.bus) \in Nat /\ DOMAIN usb.bus = 1..Len(usb.bus)
           /\ \A k \in 1..Len(usb.bus) :
                /\ usb.bus[k].serial \notin Errors
                /\ usb.bus[k].describes \in BOOLEAN /\ usb.bus[k].configured \in BOOLEAN
                /\ usb.bus[k].tells \in BOOLEAN /\ usb.bus[k].opens \in BOOLEAN
                /\ usb.bus[k].claims \in BOOLEAN
           /\ usb.selector.by = "serial" => usb.selector.is \notin Errors /\ usb.selector.is # "none"
           /\ usb.i \in Nat /\ usb.first_err \in Words
  <1>1. usb.bus \in Buses /\ usb.selector \in Selectors /\ usb.i \in Nat /\ usb.first_err \in Words
    BY DEF SeenInv, Scans
  <1>2. usb.bus \in Seq({usb.bus[k] : k \in DOMAIN usb.bus})
    BY <1>1, UsbAssumption
  <1>3. Len(usb.bus) \in Nat /\ DOMAIN usb.bus = 1..Len(usb.bus)
    BY <1>2
  <1> QED BY <1>1, <1>3, UsbAssumption

(* The device in hand is one of the bus.                                   *)
LEMMA InHand ==
    ASSUME UsbInv, usb.pc \in {"device", "serial", "open"}
    PROVE  /\ Device.serial \notin Errors
           /\ Device.describes \in BOOLEAN /\ Device.configured \in BOOLEAN
           /\ Device.tells \in BOOLEAN /\ Device.opens \in BOOLEAN /\ Device.claims \in BOOLEAN
           /\ usb.backend \in {"rusb", "nusb"} /\ usb.selector.by \in {"any", "id", "serial"}
           /\ usb.selector.by = "serial" => usb.selector.is \notin Errors /\ usb.selector.is # "none"
  <1>1. usb.i \in 1..Len(usb.bus) /\ usb \in Scans
    BY BusFacts DEF UsbInv, SeenInv
  <1>2. usb.backend \in Backends /\ usb.selector \in Selectors
    BY <1>1 DEF Scans
  <1> QED BY <1>1, <1>2, BusFacts, UsbAssumption DEF UsbInv, Device

(* A step sets where the scan is, what it remembers, how it ends.          *)
LEMMA ScanStep ==
    ASSUME usb \in Scans, NEW n \in Nat, NEW e \in Words, NEW p \in Pcs, NEW r \in Words,
           usb' = [usb EXCEPT !.i = n, !.first_err = e, !.pc = p, !.res = r]
    PROVE  /\ usb' \in Scans /\ Same
           /\ usb'.i = n /\ usb'.first_err = e /\ usb'.pc = p /\ usb'.res = r
  BY DEF Scans, Same

LEMMA PlaceStep ==
    ASSUME usb \in Scans, NEW p \in Pcs, usb' = [usb EXCEPT !.pc = p]
    PROVE  usb' \in Scans /\ Same /\ usb'.i = usb.i /\ usb'.first_err = usb.first_err /\ usb'.pc = p
  BY DEF Scans, Same

LEMMA ScanSame ==
    ASSUME usb \in Scans
    PROVE  /\ usb.i \in Nat /\ usb.first_err \in Words /\ usb.pc \in Pcs /\ usb.res \in Words
           /\ usb = [usb EXCEPT !.i = usb.i, !.first_err = usb.first_err, !.pc = usb.pc,
                                !.res = usb.res]
  BY DEF Scans

(* What is asked for does not change, so neither does a device's standing. *)
LEMMA StandingKept ==
    ASSUME Same
    PROVE  /\ \A k : Skipped(k)' <=> Skipped(k)
           /\ \A k : Fits(usb.bus[k])' <=> Fits(usb.bus[k])
           /\ \A k : Healthy(usb.bus[k])' <=> Healthy(usb.bus[k])
           /\ \A k : Admitted(usb.bus[k])' <=> Admitted(usb.bus[k])
           /\ \A k : Trouble(usb.bus[k])' = Trouble(usb.bus[k])
           /\ \A k : Unreadable(usb.bus[k])' <=> Unreadable(usb.bus[k])
           /\ named' = named
  <1>1. named' = named
    BY DEF Same, named
  <1>2. ASSUME NEW k
        PROVE  /\ Fits(usb.bus[k])' <=> Fits(usb.bus[k])
               /\ Healthy(usb.bus[k])' <=> Healthy(usb.bus[k])
               /\ Unreadable(usb.bus[k])' <=> Unreadable(usb.bus[k])
    BY <1>1 DEF Same, Fits, Healthy, Unreadable
  <1>3. ASSUME NEW k
        PROVE  (Skipped(k)' <=> Skipped(k)) /\ (Admitted(usb.bus[k])' <=> Admitted(usb.bus[k]))
    BY <1>1, <1>2 DEF Same, Skipped, Admitted
  <1>4. ASSUME NEW k
        PROVE  Trouble(usb.bus[k])' = Trouble(usb.bus[k])
    <2> DEFINE d == usb.bus[k]
    <2>1. /\ adb_interface(d)' = adb_interface(d) /\ read_serial(d)' = read_serial(d)
          /\ Attempt(d)' = Attempt(d)
      BY DEF Same, adb_interface, read_serial, AsksSerial, Attempt
    <2>2. usb'.selector = usb.selector /\ usb'.bus[k] = usb.bus[k]
      BY DEF Same
    <2> QED BY <1>1, <1>2, <2>1, <2>2 DEF Trouble
  <1> QED BY <1>1, <1>2, <1>3, <1>4

(* Nor do their errors.                                                    *)
LEMMA FirstKept ==
    ASSUME SeenInv, Same
    PROVE  AllTroubles' = AllTroubles
  <1>1. \A k : Trouble(usb.bus[k])' = Trouble(usb.bus[k])
    BY StandingKept
  <1>2. DOMAIN usb'.bus = DOMAIN usb.bus
    BY DEF Same
  <1> QED BY <1>1, <1>2 DEF AllTroubles

LEMMA TroublesAre ==
    ASSUME SeenInv
    PROVE  \A k \in 1..Len(usb.bus) : AllTroubles[k] = Trouble(usb.bus[k])
  BY BusFacts DEF AllTroubles

(* What a device is gone past with, an error or nothing.                   *)
Troubles == {"none", "Descriptor", "NoBulkEndpoints", "NoAdbInterface", "Open", "SerialRead", "Claim"}

(* A device is gone past: it is not the one.                               *)
LEMMA PassKeeps ==
    ASSUME UsbInv, usb.pc \in {"device", "serial", "open"}, NEW e \in Troubles,
           Passes(e), Skipped(usb.i), usb_open' = {}, UNCHANGED usb_claimed,
           e = Trouble(Device)
    PROVE  UsbInv'
  <1> DEFINE f == IF e = "none" \/ usb.first_err # "none" THEN usb.first_err ELSE e
  <1>1. /\ usb' \in Scans /\ Same /\ usb'.pc = "scan" /\ usb'.i = usb.i
        /\ usb'.first_err \notin {"NotFound", "ok"} /\ usb'.first_err = f
    <2>1. usb \in Scans /\ usb.i \in Nat /\ usb.res \in Words /\ usb.first_err \in Words
          /\ "scan" \in Pcs
      BY ScanSame DEF UsbInv, SeenInv, Pcs
    <2>2. f \in Words /\ f \notin {"NotFound", "ok"}
      BY <2>1 DEF UsbInv, SeenInv, Troubles, Words
    <2>3. usb' = [usb EXCEPT !.pc = "scan", !.first_err = f]
      BY <2>1 DEF Passes, Keep
    <2> HIDE DEF f
    <2>4. usb' = [usb EXCEPT !.i = usb.i, !.first_err = f, !.pc = "scan", !.res = usb.res]
      BY <2>1, <2>3 DEF Scans
    <2> QED BY <2>1, <2>2, <2>4, ScanStep
  <1>2. SeenInv'
    <2>1. \A k \in 1..Len(usb'.bus) : k < usb'.i \/ (k = usb'.i /\ usb'.pc = "scan") => Skipped(k)'
      <3> SUFFICES ASSUME NEW k \in 1..Len(usb'.bus), k < usb'.i \/ k = usb'.i
                   PROVE  Skipped(k)'
        OBVIOUS
      <3>1. Skipped(k)
        BY <1>1 DEF UsbInv, SeenInv, Same
      <3> QED BY <1>1, <3>1, StandingKept
    <2> QED BY <1>1, <2>1 DEF UsbInv, SeenInv, Same
  <1>3. EndInv' /\ OpenInv'
    BY <1>1 DEF UsbInv, EndInv, OpenInv
  <1>4. ToldInv'
    <2>1. usb.i \in Nat /\ usb.i > 0 /\ usb.first_err \in Words /\ usb.pc # "scan"
      BY BusFacts DEF UsbInv, SeenInv
    <2>5. AllTroubles[usb.i] = e
      BY <2>1, TroublesAre, BusFacts DEF UsbInv, SeenInv, Device
    <2>2. FirstOf(AllTroubles, usb.i - 1, usb.first_err)
      BY <2>1 DEF UsbInv, ToldInv, GonePast
    <2>3. FirstOf(AllTroubles, usb.i, f)
      <3>1. CASE usb.first_err # "none"
        BY <2>1, <2>2, <3>1 DEF FirstOf
      <3>2. CASE usb.first_err = "none" /\ e = "none"
        BY <2>1, <2>2, <2>5, <3>2 DEF FirstOf
      <3>3. CASE usb.first_err = "none" /\ e # "none"
        <4>1. usb.i \in 1..usb.i /\ AllTroubles[usb.i] = e
          BY <2>1, <2>5
        <4>2. \A j \in 1..(usb.i - 1) : AllTroubles[j] = "none"
          BY <2>2, <3>3 DEF FirstOf
        <4> QED BY <3>3, <4>1, <4>2 DEF FirstOf
      <3> QED BY <3>1, <3>2, <3>3
    <2> HIDE DEF f
    <2>4. GonePast' = usb.i
      BY <1>1 DEF GonePast
    <2> QED BY <1>1, <2>3, <2>4, FirstKept DEF UsbInv, ToldInv
  <1> QED BY <1>2, <1>3, <1>4 DEF UsbInv

(* A scan ends at the device in hand: with it, or because it was named.    *)
LEMMA EndKeeps ==
    ASSUME UsbInv, usb.pc \in {"device", "serial", "open"}, NEW r \in Troubles \cup {"ok"},
           UsbEnds(r),
           \/ /\ r = "ok" /\ Fits(Device) /\ Healthy(Device)
              /\ usb_open' = {usb.i} /\ usb_claimed' = {usb.i}
           \/ /\ r # "ok" /\ named /\ usb_open' = {} /\ usb_claimed' = {}
              /\ Fits(Device) /\ ~Unreadable(Device) /\ r = Trouble(Device)
    PROVE  UsbInv'
  <1>1. /\ usb' \in Scans /\ Same /\ usb'.pc = "done" /\ usb'.i = usb.i /\ usb'.res = r
        /\ usb'.first_err = usb.first_err
    <2>1. usb \in Scans /\ usb.i \in Nat /\ usb.first_err \in Words /\ "done" \in Pcs
      BY ScanSame DEF UsbInv, SeenInv, Pcs
    <2>2. r \in Words
      BY DEF Troubles, Words
    <2>3. usb' = [usb EXCEPT !.i = usb.i, !.first_err = usb.first_err, !.pc = "done", !.res = r]
      BY <2>1 DEF UsbEnds, Scans
    <2> QED BY <2>1, <2>2, <2>3, ScanStep
  <1>2. SeenInv'
    <2>1. \A k \in 1..Len(usb'.bus) : k < usb'.i => Skipped(k)'
      BY <1>1, StandingKept DEF UsbInv, SeenInv, Same
    <2> QED BY <1>1, <2>1 DEF UsbInv, SeenInv, Same
  <1>3. EndInv'
    <2>1. CASE r = "ok"
      BY <1>1, <2>1, StandingKept DEF UsbInv, SeenInv, EndInv, Device, Same
    <2>2. CASE r # "ok"
      BY <1>1, <2>2, StandingKept DEF EndInv, Troubles
    <2> QED BY <2>1, <2>2
  <1>4. OpenInv'
    BY <1>1 DEF OpenInv
  <1>5. ToldInv'
    <2>1. usb.i > 0
      BY DEF UsbInv, SeenInv
    <2> QED BY <1>1, <2>1, StandingKept DEF ToldInv, Device, Same
  <1> QED BY <1>2, <1>3, <1>4, <1>5 DEF UsbInv

(* The device in hand is taken a step further.                             *)
LEMMA FurtherKeeps ==
    ASSUME UsbInv, usb.pc \in {"device", "serial"}, NEW to \in {"serial", "open"},
           usb' = [usb EXCEPT !.pc = to], Admitted(Device), UNCHANGED usb_claimed,
           to = "serial" => usb.selector.by = "serial" /\ usb_open' = {},
           to = "open" /\ usb.selector.by = "serial" =>
             Device.serial = usb.selector.is /\ (usb.backend = "rusb" => Device.tells),
           to = "open" => usb_open' = IF usb.selector.by = "serial" /\ usb.backend = "rusb"
                                      THEN {usb.i} ELSE {}
    PROVE  UsbInv'
  <1>1. /\ usb' \in Scans /\ Same /\ usb'.pc = to /\ usb'.i = usb.i
        /\ usb'.first_err = usb.first_err /\ usb.i > 0
    <2>1. usb \in Scans /\ to \in Pcs /\ usb.i > 0
      BY DEF UsbInv, SeenInv, Pcs
    <2> QED BY <2>1, PlaceStep
  <1>2. SeenInv'
    <2>1. \A k \in 1..Len(usb'.bus) : k < usb'.i => Skipped(k)'
      BY <1>1, StandingKept DEF UsbInv, SeenInv, Same
    <2>2. Admitted(Device)' /\ Device' = Device
      BY <1>1, StandingKept DEF Device, Same
    <2> QED BY <1>1, <2>1, <2>2 DEF UsbInv, SeenInv, Same
  <1>3. EndInv' /\ OpenInv'
    BY <1>1 DEF UsbInv, EndInv, OpenInv, Same
  <1>4. ToldInv'
    <2>1. usb.pc # "done" /\ usb'.pc # "done" /\ GonePast' = GonePast
      BY <1>1 DEF GonePast
    <2>2. FirstOf(AllTroubles, GonePast, usb.first_err)
      BY <2>1 DEF UsbInv, ToldInv
    <2> QED BY <1>1, <2>1, <2>2, FirstKept DEF UsbInv, ToldInv
  <1> QED BY <1>2, <1>3, <1>4 DEF UsbInv

(* The next device is taken in hand, or there is none.                     *)
LEMMA ScanKeeps ==
    ASSUME UsbInv, Scan
    PROVE  UsbInv'
  <1> USE DEF UsbInv
  <1>1. usb.pc = "scan" /\ usb_open = {} /\ usb_claimed = {} /\ UNCHANGED <<usb_open, usb_claimed>>
    BY DEF Scan, OpenInv
  <1>2. /\ usb \in Scans /\ usb.first_err \notin {"NotFound", "ok"}
        /\ usb.i \in Nat /\ usb.first_err \in Words /\ usb.res \in Words
        /\ "device" \in Pcs /\ "done" \in Pcs
    BY ScanSame DEF SeenInv, Pcs
  <1>3. CASE usb.i < Len(usb.bus)
    <2>1. usb' = [usb EXCEPT !.i = usb.i + 1, !.first_err = usb.first_err, !.pc = "device",
                             !.res = usb.res]
      BY <1>2, <1>3 DEF Scan, NextDevice, Scans
    <2>2. /\ usb' \in Scans /\ Same /\ usb'.pc = "device" /\ usb'.i = usb.i + 1
          /\ usb'.first_err = usb.first_err
      <3>1. usb.i + 1 \in Nat
        BY <1>2
      <3> QED BY <1>2, <2>1, <3>1, ScanStep
    <2>3. \A k \in 1..Len(usb'.bus) : k < usb'.i => Skipped(k)'
      <3> SUFFICES ASSUME NEW k \in 1..Len(usb'.bus), k < usb'.i PROVE Skipped(k)'
        OBVIOUS
      <3>1. k \in 1..Len(usb.bus) /\ (k < usb.i \/ k = usb.i)
        BY <2>2, BusFacts DEF Same
      <3>2. Skipped(k)
        BY <1>1, <3>1 DEF SeenInv
      <3> QED BY <2>2, <3>2, StandingKept
    <2>4. SeenInv'
      BY <1>2, <1>3, <2>2, <2>3, BusFacts DEF SeenInv, Same
    <2>5. ToldInv'
      <3>1. GonePast = usb.i /\ GonePast' = usb.i /\ usb.pc # "done" /\ usb'.pc # "done"
        BY <1>1, <1>2, <2>2 DEF GonePast
      <3>2. FirstOf(AllTroubles, usb.i, usb.first_err)
        BY <3>1 DEF ToldInv
      <3> QED BY <2>2, <3>1, <3>2, FirstKept DEF ToldInv
    <2> QED BY <1>1, <2>2, <2>4, <2>5 DEF EndInv, OpenInv
  <1>4. CASE ~(usb.i < Len(usb.bus))
    <2> DEFINE r == IF usb.first_err = "none" THEN "NotFound" ELSE usb.first_err
    <2>1. usb' = [usb EXCEPT !.i = usb.i, !.first_err = usb.first_err, !.pc = "done", !.res = r]
      BY <1>2, <1>4 DEF Scan, UsbEnds, Scans
    <2>2. /\ usb' \in Scans /\ Same /\ usb'.pc = "done" /\ usb'.i = usb.i
          /\ usb'.first_err = usb.first_err /\ usb'.res # "ok" /\ usb'.res = r
      <3>1. r \in Words /\ r # "ok"
        BY <1>2 DEF Words
      <3> HIDE DEF r
      <3> QED BY <1>2, <2>1, <3>1, ScanStep
    <2>3. \A k \in 1..Len(usb'.bus) : Skipped(k)'
      <3> SUFFICES ASSUME NEW k \in 1..Len(usb'.bus) PROVE Skipped(k)'
        OBVIOUS
      <3>1. k \in 1..Len(usb.bus) /\ (k < usb.i \/ k = usb.i)
        BY <1>4, <2>2, BusFacts DEF Same
      <3>2. Skipped(k)
        BY <1>1, <3>1 DEF SeenInv
      <3> QED BY <2>2, <3>2, StandingKept
    <2>4. SeenInv'
      BY <1>2, <2>2, <2>3, BusFacts DEF SeenInv, Same
    <2>5. ToldInv'
      <3>1. usb.i = Len(usb.bus) /\ GonePast = usb.i
        BY <1>1, <1>2, <1>4, BusFacts DEF SeenInv, GonePast
      <3>2. FirstOf(AllTroubles, Len(usb.bus), usb.first_err)
        BY <1>1, <3>1 DEF ToldInv
      <3>3. (IF r = "NotFound" THEN "none" ELSE r) = usb.first_err
        BY <1>2
      <3>4. Len(usb'.bus) = Len(usb.bus) /\ r # "none"
        BY <2>2 DEF Same
      <3> HIDE DEF r
      <3> QED BY <2>2, <2>3, <3>2, <3>3, <3>4, FirstKept DEF ToldInv
    <2> QED BY <1>1, <2>2, <2>3, <2>4, <2>5 DEF EndInv, OpenInv
  <1> QED BY <1>3, <1>4

(* admit: whoever is gone past is not the one, whoever is not may be.      *)
LEMMA AdmitKeeps ==
    ASSUME UsbInv, Admit
    PROVE  UsbInv'
  <1>1. /\ usb.pc = "device" /\ usb_open = {} /\ usb_claimed = {}
        /\ UNCHANGED <<usb_open, usb_claimed>> /\ Device = usb.bus[usb.i]
        /\ usb.pc \in {"device", "serial", "open"} /\ usb_open' = {} /\ usb_claimed' = {}
    BY DEF UsbInv, Admit, OpenInv, Device
  <1> DEFINE err == adb_interface(Device).err
             ifaces == adb_interface(Device).ifaces
             strange == named /\ Device.id # usb.selector.is
  <1>2. /\ Device.describes \in BOOLEAN /\ Device.configured \in BOOLEAN
        /\ usb.backend \in {"rusb", "nusb"}
    BY <1>1, InHand
  <1>3. /\ err \in {"none", "Descriptor", "NoBulkEndpoints"}
        /\ err = "none" /\ ifaces # <<>> <=>
             IF usb.backend = "rusb" THEN Device.configured /\ Usable(Device) # <<>>
             ELSE AdbSettings(Device) # <<>>
    <2>1. CASE usb.backend = "nusb"
      BY <1>2, <2>1 DEF adb_interface
    <2>2. CASE usb.backend = "rusb"
      BY <1>2, <2>2 DEF adb_interface
    <2> QED BY <1>2, <2>1, <2>2
  <1>4. CASE Unreadable(Device)
    <2>1. Skipped(usb.i)
      BY <1>1, <1>4 DEF Skipped, Healthy, Unreadable
    <2>2. Passes("Descriptor") /\ "Descriptor" \in Troubles
      BY <1>1, <1>2, <1>4 DEF Admit, Unreadable, Troubles, Passes
    <2>3. Trouble(Device) = "Descriptor"
      BY <1>4 DEF Trouble
    <2> QED BY <1>1, <2>1, <2>2, <2>3, PassKeeps
  <1>5. CASE ~Unreadable(Device) /\ strange
    <2>1. Skipped(usb.i)
      BY <1>1, <1>5 DEF Skipped, Fits, named
    <2>2. Passes("none") /\ "none" \in Troubles
      BY <1>1, <1>2, <1>5 DEF Admit, Unreadable, named, Troubles, Passes
    <2>3. named /\ ~Fits(Device)
      BY <1>5 DEF Fits, named
    <2>4. Trouble(Device) = "none"
      BY <1>5, <2>3 DEF Trouble
    <2> QED BY <1>1, <2>1, <2>2, <2>4, PassKeeps
  <1>6. CASE ~Unreadable(Device) /\ ~strange /\ ~(err = "none" /\ ifaces # <<>>)
    <2>1. ~named => Skipped(usb.i)
      BY <1>1, <1>3, <1>6 DEF Skipped, Healthy, named
    <2>5. named => Fits(Device)
      BY <1>6 DEF Fits, named
    <2>2. PICK e \in Troubles : /\ IF named THEN e # "none" /\ UsbEnds(e) ELSE Passes(e)
                              /\ e = Trouble(Device)
      <3>1. CASE err # "none"
        <4>1. Attempted(err)
          BY <1>2, <1>6, <3>1 DEF Admit, Unreadable, named, Attempted, Passes, UsbEnds
        <4>2. Trouble(Device) = err
          BY <1>6, <2>5, <3>1 DEF Trouble
        <4> QED BY <1>3, <3>1, <4>1, <4>2 DEF Attempted, named, Troubles
      <3>2. CASE err = "none"
        <4>1. IF named THEN UsbEnds("NoAdbInterface") ELSE Passes("none")
          BY <1>2, <1>6, <3>2 DEF Admit, Unreadable, named, Attempted, Passes, UsbEnds
        <4>2. Trouble(Device) = IF named THEN "NoAdbInterface" ELSE "none"
          BY <1>6, <2>5, <3>2 DEF Trouble
        <4> QED BY <4>1, <4>2 DEF named, Troubles
      <3> QED BY <3>1, <3>2
    <2>3. CASE named
      <3>1. UsbEnds(e) /\ e # "ok" /\ e \in Troubles \cup {"ok"}
        BY <2>2, <2>3 DEF Troubles
      <3> QED BY <1>1, <1>6, <2>2, <2>3, <2>5, <3>1, EndKeeps
    <2>4. CASE ~named
      <3>1. Passes(e) /\ Skipped(usb.i)
        BY <2>1, <2>2, <2>4
      <3> QED BY <1>1, <2>2, <3>1, PassKeeps
    <2> QED BY <2>3, <2>4
  <1>7. CASE ~Unreadable(Device) /\ ~strange /\ err = "none" /\ ifaces # <<>>
    <2>1. Admitted(Device)
      BY <1>3, <1>7 DEF Admitted, Fits, named, Unreadable
    <2>2. IF usb.selector.by = "serial" THEN usb' = [usb EXCEPT !.pc = "serial"]
          ELSE usb' = [usb EXCEPT !.pc = "open"]
      BY <1>7 DEF Admit, Unreadable, named
    <2>3. CASE usb.selector.by = "serial"
      BY <1>1, <2>1, <2>2, <2>3, FurtherKeeps
    <2>4. CASE usb.selector.by # "serial"
      BY <1>1, <2>1, <2>2, <2>4, FurtherKeeps
    <2> QED BY <2>3, <2>4
  <1> QED BY <1>4, <1>5, <1>6, <1>7

(* A device that was admitted had nothing wrong with its interfaces.       *)
LEMMA AdmittedAsks ==
    ASSUME UsbInv, usb.pc \in {"serial", "open"}
    PROVE  /\ ~Unreadable(Device) /\ (named => Fits(Device))
           /\ adb_interface(Device).err = "none" /\ adb_interface(Device).ifaces # <<>>
  <1>1. Admitted(Device) /\ Device.configured \in BOOLEAN /\ usb.backend \in {"rusb", "nusb"}
    BY InHand DEF UsbInv, SeenInv
  <1>2. CASE usb.backend = "nusb"
    BY <1>1, <1>2 DEF Admitted, adb_interface
  <1>3. CASE usb.backend = "rusb"
    BY <1>1, <1>3 DEF Admitted, adb_interface
  <1> QED BY <1>1, <1>2, <1>3

(* The serial is compared; a handle opened for it stays only with the      *)
(* device that has it.                                                     *)
LEMMA SerialKeeps ==
    ASSUME UsbInv, Serial
    PROVE  UsbInv'
  <1> DEFINE s == read_serial(Device)
  <1>1. /\ usb.pc = "serial" /\ usb_open = {} /\ usb_claimed = {} /\ UNCHANGED usb_claimed
        /\ Device = usb.bus[usb.i] /\ usb.selector.by = "serial" /\ ~named /\ Admitted(Device)
        /\ usb.pc \in {"device", "serial", "open"}
    BY DEF UsbInv, Serial, OpenInv, SeenInv, Device, named
  <1>2. /\ Device.serial \notin Errors /\ usb.selector.is \notin Errors /\ usb.selector.is # "none"
        /\ Device.opens \in BOOLEAN /\ Device.tells \in BOOLEAN
    BY <1>1, InHand
  <1>3. \/ s \in {"Open", "SerialRead"} /\ usb.backend = "rusb" /\ (~Device.opens \/ ~Device.tells)
        \/ s = Device.serial /\ (AsksSerial(Device) => Device.tells)
    <2>1. CASE ~AsksSerial(Device)
      BY <1>2, <2>1 DEF read_serial, AsksSerial
    <2>2. CASE AsksSerial(Device) /\ ~Device.opens
      BY <1>2, <2>2 DEF read_serial, AsksSerial
    <2>3. CASE AsksSerial(Device) /\ Device.opens /\ ~Device.tells
      BY <1>2, <2>3 DEF read_serial, AsksSerial
    <2>4. CASE AsksSerial(Device) /\ Device.opens /\ Device.tells
      BY <1>2, <2>4 DEF read_serial, AsksSerial
    <2> QED BY <2>1, <2>2, <2>3, <2>4
  <1> HIDE DEF s
  <1>4. CASE s \in Errors
    <2>1. s \in {"Open", "SerialRead"} /\ usb.backend = "rusb" /\ (~Device.opens \/ ~Device.tells)
      BY <1>2, <1>3, <1>4
    <2>2. Skipped(usb.i)
      BY <1>1, <2>1 DEF Skipped, Healthy
    <2>3. Passes(s) /\ usb_open' = {}
      BY <1>1, <1>2, <1>4 DEF Serial, Attempted, s
    <2>4. s \in Troubles
      BY <2>1 DEF Troubles
    <2>5. Trouble(Device) = s
      BY <1>1, <1>4, AdmittedAsks DEF Trouble, s
    <2> QED BY <1>1, <2>2, <2>3, <2>4, <2>5, PassKeeps
  <1>5. CASE s \notin Errors /\ s # usb.selector.is
    <2>1. s = Device.serial
      BY <1>3, <1>5 DEF Errors
    <2>2. Skipped(usb.i)
      BY <1>1, <1>5, <2>1 DEF Skipped, Fits, named
    <2>3. Passes("none") /\ usb_open' = {} /\ "none" \in Troubles
      BY <1>1, <1>5 DEF Serial, s, Troubles
    <2>4. ~Fits(Device)
      BY <1>1, <1>5, <2>1 DEF Fits, named
    <2>5. Trouble(Device) = "none"
      BY <1>1, <1>5, <2>4, AdmittedAsks DEF Trouble, s
    <2> QED BY <1>1, <2>2, <2>3, <2>5, PassKeeps
  <1>6. CASE s \notin Errors /\ s = usb.selector.is
    <2>1. s = Device.serial /\ (AsksSerial(Device) => Device.tells)
      BY <1>3, <1>6 DEF Errors
    <2>2. AsksSerial(Device) <=> usb.backend = "rusb"
      BY <1>2, <1>6, <2>1 DEF AsksSerial
    <2>3. /\ usb' = [usb EXCEPT !.pc = "open"]
          /\ usb_open' = IF usb.backend = "rusb" THEN {usb.i} ELSE {}
      BY <1>1, <1>6, <2>2 DEF Serial, s
    <2> QED BY <1>1, <1>6, <2>1, <2>2, <2>3, FurtherKeeps
  <1> QED BY <1>4, <1>5, <1>6

(* The device is opened and claimed, or nothing of the attempt is left.    *)
LEMMA OpenKeeps ==
    ASSUME UsbInv, Open
    PROVE  UsbInv'
  <1> DEFINE res == Attempt(Device)
             bulk == pick_bulk_endpoints(Device.settings[Head(AdbSettings(Device))].eps)
  <1>1. /\ usb.pc = "open" /\ usb_open \in {{}, {usb.i}} /\ usb_claimed = {}
        /\ Device = usb.bus[usb.i] /\ Admitted(Device)
        /\ usb.selector.by = "serial" =>
             Device.serial = usb.selector.is /\ (usb.backend = "rusb" => Device.tells)
        /\ usb.pc \in {"device", "serial", "open"}
    BY DEF UsbInv, Open, OpenInv, SeenInv, Device
  <1>2. /\ usb.backend \in {"rusb", "nusb"} /\ usb.selector.by \in {"any", "id", "serial"}
        /\ Device.opens \in BOOLEAN /\ Device.claims \in BOOLEAN
    BY <1>1, InHand
  <1>3. /\ res \in {"Open", "Claim", "NoBulkEndpoints", "ok"}
        /\ res = "ok" <=> Device.opens /\ Device.claims /\ ~(usb.backend = "nusb" /\ bulk = <<>>)
    <2>1. res = IF ~Device.opens THEN "Open" ELSE IF ~Device.claims THEN "Claim"
                ELSE IF usb.backend = "nusb" /\ bulk = <<>> THEN "NoBulkEndpoints" ELSE "ok"
      BY DEF Attempt
    <2> HIDE DEF res, bulk
    <2> QED BY <1>2, <2>1
  <1>4. res = "ok" <=> Healthy(Device)
    BY <1>1, <1>2, <1>3 DEF Healthy, Admitted, Unreadable
  <1>5. Fits(Device)
    BY <1>1, <1>2 DEF Fits, Admitted, named
  <1> HIDE DEF res
  <1>6. CASE res = "ok"
    <2>1. UsbEnds("ok") /\ usb_open' = {usb.i} /\ usb_claimed' = {usb.i}
      BY <1>1, <1>6 DEF Open, res
    <2>2. Healthy(Device) /\ "ok" \in Troubles \cup {"ok"}
      BY <1>4, <1>6
    <2> QED BY <1>1, <1>5, <2>1, <2>2, EndKeeps
  <1>7. CASE res # "ok"
    <2>1. Attempted(res) /\ usb_open' = {} /\ usb_claimed' = {}
      BY <1>1, <1>7 DEF Open, res
    <2>2. res \in Troubles
      BY <1>3, <1>7 DEF Troubles
    <2>5. Trouble(Device) = res
      <3>1. usb.selector.by = "serial" /\ read_serial(Device) \in Errors =>
              read_serial(Device) = res
        <4>1. Device.serial \notin Errors /\ Device.tells \in BOOLEAN
          BY <1>1, InHand
        <4>2. ASSUME usb.selector.by = "serial", read_serial(Device) \in Errors
              PROVE  ~Device.opens /\ read_serial(Device) = "Open"
          BY <1>1, <1>2, <4>1, <4>2 DEF read_serial, AsksSerial
        <4> QED BY <4>2 DEF res, Attempt
      <3>2. Trouble(Device) = IF usb.selector.by = "serial" /\ read_serial(Device) \in Errors
                              THEN read_serial(Device) ELSE res
        BY <1>1, <1>5, <1>7, AdmittedAsks DEF Trouble, res
      <3> QED BY <3>1, <3>2
    <2>3. CASE named
      <3>1. UsbEnds(res) /\ res \in Troubles \cup {"ok"}
        BY <2>1, <2>2, <2>3 DEF Attempted, named
      <3>2. ~Unreadable(Device)
        BY <1>1, AdmittedAsks
      <3> QED BY <1>1, <1>5, <1>7, <2>1, <2>3, <2>5, <3>1, <3>2, EndKeeps
    <2>4. CASE ~named
      <3>1. Skipped(usb.i) /\ Passes(res)
        BY <1>1, <1>4, <1>7, <2>1, <2>4 DEF Skipped, Attempted, named
      <3> QED BY <1>1, <2>1, <2>2, <2>5, <3>1, PassKeeps
    <2> QED BY <2>3, <2>4
  <1> QED BY <1>6, <1>7

(* What the invariant says of a scan that ended.                           *)
LEMMA ScanEnds ==
    ASSUME UsbInv
    PROVE  UsbSafe
  <1>1. NothingLeftOpen
    BY DEF UsbInv, OpenInv, NothingLeftOpen
  <1>2. ASSUME usb.pc = "done" PROVE ScanFinds
    <2>1. /\ Len(usb.bus) \in Nat /\ DOMAIN usb.bus = 1..Len(usb.bus) /\ usb.i \in Nat
          /\ usb.i <= Len(usb.bus)
      BY BusFacts DEF UsbInv, SeenInv
    <2>2. \A k \in DOMAIN usb.bus : Skipped(k) => k \notin Found
      BY DEF Skipped, Found
    <2>3. \A k \in DOMAIN usb.bus : k < usb.i => Skipped(k)
      BY <2>1 DEF UsbInv, SeenInv
    <2>4. CASE usb.res = "ok"
      <3>1. usb.i \in Found
        BY <1>2, <2>1, <2>4 DEF UsbInv, EndInv, Found, Device
      <3>2. \A k \in Found : k \in Nat /\ usb.i <= k
        BY <2>1, <2>2, <2>3 DEF Found
      <3>3. First(Found) \in Found /\ \A j \in Found : First(Found) <= j
        BY <3>1, <3>2 DEF First
      <3>4. usb.i = First(Found)
        BY <3>1, <3>2, <3>3, <2>1
      <3> QED BY <2>1, <2>3, <2>4, <3>1, <3>4 DEF ScanFinds, Skipped
    <2>5. CASE usb.res # "ok"
      <3>1. ~named \/ usb.res = "NotFound" => Found = {}
        BY <1>2, <2>1, <2>2, <2>5 DEF UsbInv, EndInv, Found
      <3> QED BY <2>1, <2>3, <2>5, <3>1 DEF ScanFinds, Skipped
    <2> QED BY <2>4, <2>5
  <1>3. ScanFinds
    BY <1>2 DEF ScanFinds
  <1>4. ASSUME usb.pc = "done", usb.res # "ok"
        PROVE  IF Decisive # {} THEN TellsOf(Decisive)
               ELSE IF Troubled # {} THEN TellsOf(Troubled) ELSE usb.res = "NotFound"
    <2>1. /\ Len(usb.bus) \in Nat /\ DOMAIN usb.bus = 1..Len(usb.bus) /\ usb.i \in Nat
          /\ usb.i <= Len(usb.bus)
      BY BusFacts DEF UsbInv, SeenInv
    <2>2. \A k \in DOMAIN usb.bus : Skipped(k) => k \notin Decisive
      BY DEF Skipped, Decisive
    <2>3. CASE /\ usb.i > 0 /\ named /\ Fits(Device) /\ ~Unreadable(Device)
               /\ usb.res = Trouble(Device)
      <3>1. usb.i \in Decisive
        BY <2>1, <2>3 DEF Decisive, Device
      <3>2. \A k \in DOMAIN usb.bus : k < usb.i => Skipped(k)
        BY <2>1 DEF UsbInv, SeenInv
      <3>3. \A j \in Decisive : j \in DOMAIN usb.bus
        BY DEF Decisive
      <3>4. \A j \in Decisive : usb.i <= j
        BY <2>1, <2>2, <3>2, <3>3
      <3> QED BY <2>3, <3>1, <3>4 DEF TellsOf, Device
    <2>4. CASE /\ FirstOf(AllTroubles, Len(usb.bus),
                          IF usb.res = "NotFound" THEN "none" ELSE usb.res)
               /\ usb.res # "none" /\ \A k \in 1..Len(usb.bus) : Skipped(k)
      <3>1. Decisive = {}
        BY <2>1, <2>2, <2>4 DEF Decisive
      <3>2. CASE usb.res = "NotFound" \/ usb.res = "none"
        <4>1. Troubled = {}
          BY <2>1, <2>4, <3>2, TroublesAre DEF UsbInv, FirstOf, Troubled
        <4>2. usb.res = "NotFound"
          BY <2>4, <3>2
        <4> QED BY <3>1, <4>1, <4>2
      <3>3. CASE usb.res # "NotFound" /\ usb.res # "none"
        <4>1. PICK k \in 1..Len(usb.bus) : /\ Trouble(usb.bus[k]) = usb.res
                                           /\ \A j \in 1..(k - 1) : Trouble(usb.bus[j]) = "none"
          <5>1. PICK k \in 1..Len(usb.bus) : /\ AllTroubles[k] = usb.res
                                             /\ \A j \in 1..(k - 1) : AllTroubles[j] = "none"
            BY <2>4, <3>3 DEF FirstOf
          <5>2. \A j \in 1..(k - 1) : j \in 1..Len(usb.bus)
            BY <2>1
          <5> QED BY <5>1, <5>2, TroublesAre DEF UsbInv
        <4>2. k \in Troubled
          BY <2>1, <3>3, <4>1 DEF Troubled
        <4>3. ASSUME NEW j \in Troubled PROVE k <= j
          <5>1. j \in 1..Len(usb.bus) /\ Trouble(usb.bus[j]) # "none"
            BY <2>1 DEF Troubled
          <5> QED BY <2>1, <4>1, <5>1
        <4> QED BY <3>1, <4>1, <4>2, <4>3 DEF TellsOf
      <3> QED BY <3>2, <3>3
    <2> QED BY <1>4, <2>3, <2>4 DEF UsbInv, ToldInv
  <1> QED BY <1>1, <1>3, <1>4 DEF UsbSafe, ScanTells

(* Whatever is on the bus, whichever backend looks and whatever is asked   *)
(* for, a scan finds the first device that works and answers the selector, *)
(* or tells of the first one that an error hid, and leaves no other open   *)
(* or claimed (scan, admit, connect_by_selector).                          *)
THEOREM UsbHolds == SetupSpec => []UsbSafe
  <1>1. SetupInit => UsbInv
    <2> SUFFICES ASSUME SetupInit PROVE UsbInv
      OBVIOUS
    <2>1. usb \in UsbStarts /\ usb_open = {} /\ usb_claimed = {}
      BY DEF SetupInit, LinkIdle, LinkInit, UsbInit
    <2>2. usb \in Scans /\ usb.i = 0 /\ usb.pc = "scan" /\ usb.first_err = "none"
      <3>1. /\ usb.bus \in Buses /\ usb.selector \in Selectors /\ usb.backend \in Backends
            /\ usb.i = 0 /\ usb.pc = "scan" /\ usb.first_err = "none" /\ usb.res = "none"
            /\ usb = [bus |-> usb.bus, selector |-> usb.selector, backend |-> usb.backend,
                      i |-> usb.i, first_err |-> usb.first_err, pc |-> usb.pc, res |-> usb.res]
        BY <2>1 DEF UsbStarts
      <3>2. usb.i \in Nat /\ usb.pc \in Pcs /\ "none" \in Words
        BY <3>1 DEF Pcs, Words
      <3> QED BY <3>1, <3>2 DEF Scans
    <2>3. Len(usb.bus) \in Nat
      <3>1. usb.bus \in Buses
        BY <2>2 DEF Scans
      <3>2. usb.bus \in Seq({usb.bus[k] : k \in DOMAIN usb.bus})
        BY <3>1, UsbAssumption
      <3> QED BY <3>2
    <2>4. FirstOf(AllTroubles, 0, "none")
      BY DEF FirstOf
    <2> QED BY <2>1, <2>2, <2>3, <2>4 DEF UsbInv, SeenInv, EndInv, OpenInv, ToldInv, GonePast
  <1>2. UsbInv /\ [SetupNext]_setupVars => UsbInv'
    <2> SUFFICES ASSUME UsbInv, [SetupNext]_setupVars PROVE UsbInv'
      OBVIOUS
    <2>1. LinkNext \/ UNCHANGED linkVars
      BY DEF SetupNext, setupVars, KeysAct, PairAct, Connect, ConnectAct, LinkAct
    <2>2. UsbNext \/ UNCHANGED usbVars
      BY <2>1 DEF LinkNext, InAct, OutAct, Tls, OnBus, linkVars, usbVars
    <2>3. CASE UsbNext
      BY <2>3, ScanKeeps, AdmitKeeps, SerialKeeps, OpenKeeps DEF UsbNext
    <2>4. CASE UNCHANGED usbVars
      <3>1. Same /\ usb' = usb
        BY <2>4 DEF usbVars, Same
      <3>2. SeenInv' /\ EndInv' /\ OpenInv'
        BY <2>4, StandingKept DEF usbVars, UsbInv, SeenInv, EndInv, OpenInv, Device, Same
      <3>3. ToldInv'
        BY <3>1, StandingKept, FirstKept DEF UsbInv, ToldInv, GonePast, Device
      <3> QED BY <3>2, <3>3 DEF UsbInv
    <2> QED BY <2>2, <2>3, <2>4
  <1> QED BY <1>1, <1>2, ScanEnds, PTL DEF SetupSpec
=============================================================================
