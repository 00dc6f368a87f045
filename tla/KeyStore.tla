------------------------------- MODULE KeyStore -------------------------------
(***************************************************************************)
(* The host's key directory (keys/store.rs): threads of several processes  *)
(* call load_or_generate on one directory and may crash anywhere.  A path  *)
(* names a file; a file a crashed or a linking writer left can have two    *)
(* names, so files and names are kept apart.                               *)
(***************************************************************************)
EXTENDS Naturals

CONSTANTS
    KeyThreads,   \* callers of load_or_generate
    Pids,         \* process ids; one is used again after a crash
    TempTries,    \* names write_temp tries (16 in the code)
    MaxFiles,     \* bound: files in existence at once
    MaxKeys,      \* bound: keys ever generated
    MaxKeyCrashes \* bound: crashes

ASSUME KeyAssumption ==
    /\ Pids # {} /\ TempTries \in Nat \ {0}
    /\ MaxFiles \in Nat \ {0, 1} /\ MaxKeys \in Nat /\ MaxKeyCrashes \in Nat

VARIABLES
    names,    \* path -> file, for the paths there are
    files,    \* file -> what it holds
    next_seq, \* the counter of temporary names, one per process
    keeper,   \* each caller
    made,     \* keys generated so far
    key_crashes

keyVars == <<names, files, next_seq, keeper, made, key_crashes>>

NoFile == 0
NoKey == 0
Foreign == MaxKeys + 1            \* a key of the official client
Kinds == {"private", "public"}
Private == <<"adbkey">>
Public == <<"adbkey.pub">>
IsTemp(path) == path \notin {Private, Public}
Paths == {Private, Public} \cup (Kinds \X Pids \X Nat)

Files == 1 .. MaxFiles
Empty == [kind |-> "private", key |-> NoKey]  \* also what does not parse

NewCaller(pid) ==
    [pc |-> "open", pid |-> pid, key |-> NoKey, kind |-> "private", tmp |-> Private,
     file |-> NoFile, tries |-> 0, won |-> FALSE]

Callers ==
    [pc : {"open", "generate", "create", "write", "link", "unlink", "rename", "load", "ensure",
           "ok", "error"},
     pid : Pids, key : 0 .. Foreign, kind : Kinds, tmp : Paths, file : {NoFile} \cup Files,
     tries : 0 .. TempTries, won : BOOLEAN]

KeyTypeOK ==
    /\ DOMAIN names \subseteq Paths /\ \A p \in DOMAIN names : names[p] \in Files
    /\ files \in [Files -> [kind : Kinds, key : 0 .. Foreign]]
    /\ next_seq \in [Pids -> Nat]
    /\ keeper \in [KeyThreads -> Callers]
    /\ made \in 0 .. MaxKeys /\ key_crashes \in 0 .. MaxKeyCrashes

(* parse: PKCS#1 or PKCS#8 text of a private key, or nothing.              *)
usable(file) == file.key # NoKey

exists(path) == path \in DOMAIN names
Held(path) == files[names[path]]
linked(dir, path, f) == [p \in DOMAIN dir \cup {path} |-> IF p = path THEN f ELSE dir[p]]
without(path) == [p \in DOMAIN names \ {path} |-> names[p]]

(* The directory starts empty, with a key of the official client and       *)
(* perhaps a public key of somebody else's, or with a key that does not    *)
(* parse.  A process has the number of one of its first threads.           *)
KeyInit ==
    /\ \E there \in SUBSET {Private, Public}, k \in {NoKey, Foreign} :
         /\ names = [p \in there |-> IF p = Private THEN 1 ELSE 2]
         /\ files = [f \in Files |-> IF f = 1 THEN [kind |-> "private", key |-> k]
                                     ELSE IF f = 2 THEN [kind |-> "public", key |-> Foreign]
                                     ELSE Empty]
    /\ \E pid \in {q \in [KeyThreads -> Pids] : \A t \in KeyThreads : q[t] <= t} :
         keeper = [t \in KeyThreads |-> NewCaller(pid[t])]
    /\ next_seq = [p \in Pids |-> 0] /\ made = 0 /\ key_crashes = 0

Goes(t, pc) == [keeper EXCEPT ![t].pc = pc]

(* load_or_generate: is there a key?                                       *)
OpenKey(t) ==
    /\ keeper[t].pc = "open"
    /\ keeper' = Goes(t, IF exists(Private) THEN "load" ELSE "generate")
    /\ UNCHANGED <<names, files, next_seq, made, key_crashes>>

(* create_dir, and a key in memory.                                        *)
Generate(t) ==
    /\ keeper[t].pc = "generate" /\ made < MaxKeys
    /\ made' = made + 1
    /\ keeper' = [keeper EXCEPT ![t] = [@ EXCEPT !.pc = "create", !.key = made + 1, !.tries = 0]]
    /\ UNCHANGED <<names, files, next_seq, key_crashes>>

Unused == {f \in Files : /\ \A p \in DOMAIN names : names[p] # f
                         /\ \A t \in KeyThreads : keeper[t].file # f}

(* Faulty form: the threads of a process share a temporary.                *)
CreateTempShared(t) ==
    LET tmp == <<keeper[t].kind, keeper[t].pid, 0>>
    IN /\ keeper[t].pc = "create"
       /\ \E f \in IF exists(tmp) THEN {names[tmp]} ELSE Unused :
            /\ \A g \in Unused : f <= g \/ exists(tmp)
            /\ names' = linked(names, tmp, f)
            /\ files' = [files EXCEPT ![f] = Empty]
            /\ keeper' = [keeper EXCEPT ![t] = [@ EXCEPT !.pc = "write", !.tmp = tmp, !.file = f]]
       /\ UNCHANGED <<next_seq, made, key_crashes>>

(* write_temp: a name of its own that nobody else uses, or the next.       *)
CreateTemp(t) ==
    LET c == keeper[t]
        tmp == <<c.kind, c.pid, next_seq[c.pid]>>
    IN /\ c.pc = "create"
       /\ next_seq' = [next_seq EXCEPT ![c.pid] = @ + 1]
       /\ IF exists(tmp)
          THEN /\ keeper' = [keeper EXCEPT ![t] =
                    [@ EXCEPT !.pc = IF c.tries + 1 = TempTries THEN "error" ELSE "create",
                              !.tries = c.tries + 1]]
               /\ UNCHANGED <<names, files>>
          ELSE \E f \in Unused :
                 /\ \A g \in Unused : f <= g
                 /\ names' = linked(names, tmp, f)
                 /\ files' = [files EXCEPT ![f] = Empty]
                 /\ keeper' = [keeper EXCEPT ![t] =
                                 [@ EXCEPT !.pc = "write", !.tmp = tmp, !.file = f]]
       /\ UNCHANGED <<made, key_crashes>>

WriteTemp(t) ==
    /\ keeper[t].pc = "write"
    /\ files' = [files EXCEPT ![keeper[t].file] = [kind |-> keeper[t].kind, key |-> keeper[t].key]]
    /\ keeper' = Goes(t, IF keeper[t].kind = "private" THEN "link" ELSE "rename")
    /\ UNCHANGED <<names, next_seq, made, key_crashes>>

(* publish_new: the first to link its key wins.                            *)
LinkKey(t) ==
    /\ keeper[t].pc = "link"
    /\ names' = IF exists(Private) THEN names ELSE linked(names, Private, keeper[t].file)
    /\ keeper' = [keeper EXCEPT ![t] = [@ EXCEPT !.pc = "unlink", !.won = ~exists(Private)]]
    /\ UNCHANGED <<files, next_seq, made, key_crashes>>

UnlinkTemp(t) ==
    /\ keeper[t].pc = "unlink"
    /\ names' = without(keeper[t].tmp)
    /\ keeper' = [keeper EXCEPT ![t] =
           IF keeper[t].won
           THEN [@ EXCEPT !.pc = "create", !.kind = "public", !.file = NoFile, !.tries = 0]
           ELSE [@ EXCEPT !.pc = "load", !.file = NoFile]]
    /\ UNCHANGED <<files, next_seq, made, key_crashes>>

(* install: rename replaces what is there.                                 *)
RenamePublic(t) ==
    /\ keeper[t].pc = "rename"
    /\ names' = linked(without(keeper[t].tmp), Public, keeper[t].file)
    /\ keeper' = [keeper EXCEPT ![t] = [@ EXCEPT !.pc = "ok", !.file = NoFile]]
    /\ UNCHANGED <<files, next_seq, made, key_crashes>>

(* Faulty form: who lost keeps the key it generated.                       *)
LoadKeyOwn(t) ==
    /\ keeper[t].pc = "load"
    /\ keeper' = [keeper EXCEPT ![t] =
           IF ~usable(Held(Private)) THEN [@ EXCEPT !.pc = "error"]
           ELSE [@ EXCEPT !.pc = "ensure", !.key = IF @ = NoKey THEN Held(Private).key ELSE @]]
    /\ UNCHANGED <<names, files, next_seq, made, key_crashes>>

(* adopt: load, then ensure_public_key.                                    *)
LoadKey(t) ==
    /\ keeper[t].pc = "load"
    /\ keeper' = [keeper EXCEPT ![t] =
           IF ~usable(Held(Private)) THEN [@ EXCEPT !.pc = "error"]
           ELSE [@ EXCEPT !.pc = "ensure", !.key = Held(Private).key]]
    /\ UNCHANGED <<names, files, next_seq, made, key_crashes>>

EnsurePublic(t) ==
    /\ keeper[t].pc = "ensure"
    /\ keeper' = [keeper EXCEPT ![t] =
           IF exists(Public) THEN [@ EXCEPT !.pc = "ok"]
           ELSE [@ EXCEPT !.pc = "create", !.kind = "public", !.tries = 0]]
    /\ UNCHANGED <<names, files, next_seq, made, key_crashes>>

(* Writing, linking or renaming fails: the temporary is removed.           *)
StoreFails(t) ==
    /\ keeper[t].pc \in {"write", "link", "rename"}
    /\ names' = without(keeper[t].tmp)
    /\ keeper' = [keeper EXCEPT ![t] = [@ EXCEPT !.pc = "error", !.file = NoFile]]
    /\ UNCHANGED <<files, next_seq, made, key_crashes>>

AtWork(t) == keeper[t].pc \notin {"ok", "error"}

(* A process dies, and whoever was in a call calls again from a new one    *)
(* with the same id, whose counter starts at 0.                            *)
CrashProcess(pid) ==
    LET died == {t \in KeyThreads : keeper[t].pid = pid}
    IN /\ key_crashes < MaxKeyCrashes /\ \E t \in died : AtWork(t)
       /\ key_crashes' = key_crashes + 1
       /\ next_seq' = [next_seq EXCEPT ![pid] = 0]
       /\ keeper' = [t \in KeyThreads |-> IF t \in died /\ AtWork(t) THEN NewCaller(pid) ELSE keeper[t]]
       /\ UNCHANGED <<names, files, made>>

KeyStep(t) ==
    \/ OpenKey(t) \/ Generate(t) \/ CreateTemp(t) \/ WriteTemp(t) \/ LinkKey(t)
    \/ UnlinkTemp(t) \/ RenamePublic(t) \/ LoadKey(t) \/ EnsurePublic(t)

KeyNext ==
    \/ \E t \in KeyThreads : KeyStep(t) \/ StoreFails(t)
    \/ \E pid \in Pids : CrashProcess(pid)

-----------------------------------------------------------------------------
(* Every call that returns a key returns the one in the directory, whoever *)
(* generated it and whoever crashed: one identity, and the files of it.    *)
OneIdentity ==
    \A t \in KeyThreads : keeper[t].pc = "ok" =>
        /\ exists(Private) /\ Held(Private) = [kind |-> "private", key |-> keeper[t].key]
        /\ exists(Public)

(* A public key that a call of the library put there belongs to the        *)
(* private key beside it.                                                  *)
PublicFollowsPrivate ==
    exists(Public) /\ Held(Public).key # Foreign =>
        exists(Private) /\ Held(Public).key = Held(Private).key

(* Temporary files belong to a call at work; only a crash leaves one.      *)
NoLitter ==
    key_crashes = 0 => \A p \in DOMAIN names : IsTemp(p) =>
        \E t \in KeyThreads : AtWork(t) /\ keeper[t].tmp = p

(* adbkey, once there, is never replaced and never changed, not even in    *)
(* part: a device may trust it.                                            *)
KeyUntouched ==
    [][exists(Private) => /\ names'[Private] = names[Private]
                          /\ files'[names[Private]] = files[names[Private]]]_keyVars
=============================================================================
