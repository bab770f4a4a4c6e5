-------------------------- MODULE SecretStoreProofs --------------------------
(***************************************************************************)
(* Proofs about SecretStore for any names, commands, flags of a run and    *)
(* hosts of credentials, and a keyring that changes as it likes.           *)
(***************************************************************************)
EXTENDS SecretStore, TLAPS

(* What a command under way knows of the keyring: a put has a value, which *)
(* is there when the name is listed, and a removal left nothing behind.    *)
Underway ==
  /\ cmd.pc \in {"set", "verify", "index", "file"} => cmd.slot \in Slots
  /\ cmd.pc \in {"set", "verify", "index"} => cmd.val \in Values
  /\ cmd.pc = "index" => held["ring"][cmd.slot] = cmd.val
  /\ cmd.pc = "unlist" => held["ring"][cmd.slot] = None /\ told["ring"][cmd.slot] = None

IInv == TypeOK /\ Underway /\ IndexInStep

(* The record of no command has its type. *)
LEMMA IdleTyped == Idle \in CmdType /\ Idle.pc = "idle"
BY DEF Idle, CmdType, Ops, Stores

(* A command that goes on keeps the slot and the value it is about. *)
LEMMA CmdMoves ==
  ASSUME NEW x \in CmdType, NEW pc \in {"verify", "index", "unlist"}
  PROVE  LET y == [x EXCEPT !.pc = pc]
         IN  y \in CmdType /\ y.pc = pc /\ y.slot = x.slot /\ y.val = x.val
BY DEF CmdType

(* The invariant holds when every store is empty. *)
LEMMA InitInv == Init => IInv
<1> SUFFICES ASSUME Init PROVE IInv
  OBVIOUS
<1>1. held \in Contents /\ told \in Contents
      /\ \A st \in Stores, s \in Slots : held[st][s] = None /\ told[st][s] = None
  BY DEF Init, Nothing, Contents
<1>2. Entries("file") = {}
  BY <1>1 DEF Entries, Stores
<1>3. cmd \in CmdType /\ cmd.pc = "idle" /\ carry.status = "none"
  BY IdleTyped DEF Init, NoRun
<1> QED BY <1>1, <1>2, <1>3
        DEF Init, IInv, TypeOK, Underway, IndexInStep, StoredIsListed, ListedIsHeld

(* A step that changes neither the stores nor the command. *)
LEMMA StoresKept ==
  ASSUME IInv, UNCHANGED <<held, idx, pass, cmd, told, broken>>, cond' \in Conditions,
         carry'.status \in {"none", "ok", "warned", "failed"}
  PROVE  IInv'
BY DEF IInv, TypeOK, Underway, IndexInStep, StoredIsListed, ListedIsHeld, Entries

(* The steps of a command that stores or removes a credential. *)
LEMMA TypeKeeps ==
  ASSUME IInv, NEW c \in Commands, Type(c)
  PROVE  IInv'
<1> DEFINE pc == IF c.store = "file" THEN "file" ELSE IF c.op = "rm" THEN "delete" ELSE "set"
           val == ValueOf(c.op)
           x == Idle
<1>1. /\ c.op \in Ops /\ c.slot \in Slots /\ c.store \in Stores /\ c.pass \in {"p1", "p2"}
      /\ c.op # "reset"
  BY StoreAssumption DEF CommandType, Type
<1>2. val \in Values \cup {None} /\ (c.op # "rm" => val \in Values)
  BY <1>1 DEF ValueOf, Values, Keys, Logins, Ops
<1>3. cmd' = [x EXCEPT !.op = c.op, !.slot = c.slot, !.store = c.store, !.pass = c.pass,
                       !.val = val, !.pc = pc] /\ x \in CmdType
  BY IdleTyped DEF Type
<1>4. pc \in {"file", "delete", "set"} /\ (pc = "set" => val \in Values)
  BY <1>2
<1> HIDE DEF pc, val, x
<1>5. cmd' \in CmdType /\ cmd'.pc = pc /\ cmd'.slot = c.slot /\ cmd'.val = val
  BY <1>1, <1>2, <1>3, <1>4 DEF CmdType
<1>6. cmd.pc = "idle" /\ UNCHANGED <<cond, held, idx, pass, told, broken>> /\ carry'.status = "none"
  BY DEF Type, NoRun
<1> QED BY <1>1, <1>4, <1>5, <1>6
        DEF IInv, TypeOK, Underway, IndexInStep, StoredIsListed, ListedIsHeld, Entries

(* A command that ends leaves the stores as they are. *)
LEMMA EndKeeps ==
  ASSUME IInv, cmd.pc # "unlist", cmd' = Idle, UNCHANGED <<cond, held, idx, pass, told, broken, carry>>
  PROVE  IInv'
BY IdleTyped
   DEF IInv, TypeOK, Underway, IndexInStep, StoredIsListed, ListedIsHeld, Entries

(* secretStore.Put: the value goes into the keyring. *)
LEMMA PutSetKeeps ==
  ASSUME IInv, PutSet
  PROVE  IInv'
<1>1. CASE cmd' = Idle /\ UNCHANGED <<held, told>>
  BY <1>1, EndKeeps DEF PutSet
<1>2. ASSUME NEW v \in {cmd.val, held["ring"][cmd.slot], "garbled"},
             held' = [held EXCEPT !["ring"][cmd.slot] = v],
             told' = [told EXCEPT !["ring"][cmd.slot] = None],
             cmd' = [cmd EXCEPT !.pc = "verify"]
      PROVE  IInv'
  <2>1. cmd.pc = "set" /\ UNCHANGED <<cond, idx, pass, broken, carry>>
    BY DEF PutSet
  <2>2. cmd.slot \in Slots /\ cmd \in CmdType /\ held \in Contents /\ told \in Contents
        /\ cmd.val \in Values /\ "ring" \in Stores /\ "file" \in Stores
    BY <2>1 DEF IInv, TypeOK, Underway, Stores
  <2>3. v \in Values \cup {None}
    BY <2>2 DEF Contents, Values
  <2>4. v = None => held["ring"][cmd.slot] = None
    BY <2>2, StoreAssumption DEF Values
  <2>5. /\ held' \in Contents /\ held'["ring"][cmd.slot] = v
        /\ \A so \in Stores, o \in Slots :
             (so # "ring" \/ o # cmd.slot) => held'[so][o] = held[so][o]
    BY <1>2, <2>2, <2>3 DEF Contents
  <2>6. /\ told' \in Contents /\ told'["ring"][cmd.slot] = None
        /\ \A so \in Stores, o \in Slots :
             (so # "ring" \/ o # cmd.slot) => told'[so][o] = told[so][o]
    BY <1>2, <2>2 DEF Contents
  <2>7. cmd' \in CmdType /\ cmd'.pc = "verify" /\ cmd'.slot = cmd.slot /\ cmd'.val = cmd.val
    BY <1>2, <2>2, CmdMoves
  <2>8. TypeOK'
    BY <2>1, <2>2, <2>5, <2>6, <2>7 DEF IInv, TypeOK, Entries
  <2>9. StoredIsListed'
    BY <2>1, <2>2, <2>5, <2>6 DEF IInv, IndexInStep, StoredIsListed, Entries, Stores
  <2>10. ListedIsHeld'
    BY <2>1, <2>2, <2>4, <2>5 DEF IInv, TypeOK, IndexInStep, ListedIsHeld
  <2> QED BY <2>2, <2>7, <2>8, <2>9, <2>10 DEF IInv, Underway, IndexInStep
<1> QED BY <1>1, <1>2 DEF PutSet

(* Put reads back what it has written. *)
LEMMA PutVerifyKeeps ==
  ASSUME IInv, PutVerify
  PROVE  IInv'
<1>1. CASE cmd' = Idle
  BY <1>1, EndKeeps DEF PutVerify
<1>2. CASE held["ring"][cmd.slot] = cmd.val /\ cmd' = [cmd EXCEPT !.pc = "index"]
  <2>1. /\ cmd.pc = "verify" /\ UNCHANGED <<cond, held, idx, pass, told, broken, carry>>
        /\ cmd.slot \in Slots /\ cmd \in CmdType
    BY DEF PutVerify, IInv, TypeOK
  <2>2. cmd' \in CmdType /\ cmd'.pc = "index" /\ cmd'.slot = cmd.slot /\ cmd'.val = cmd.val
    BY <1>2, <2>1, CmdMoves
  <2> QED BY <1>2, <2>1, <2>2
          DEF IInv, TypeOK, Underway, IndexInStep, StoredIsListed, ListedIsHeld, Entries
<1> QED BY <1>1, <1>2 DEF PutVerify

(* Put lists what it has written in the index. *)
LEMMA PutIndexKeeps ==
  ASSUME IInv, PutIndex
  PROVE  IInv'
<1>1. /\ cmd.pc = "index" /\ cmd.slot \in Slots /\ cmd.val \in Values /\ cmd.val # None
      /\ held["ring"][cmd.slot] = cmd.val /\ told \in Contents
      /\ idx' = idx \cup {cmd.slot} /\ broken' = broken \ {cmd.slot} /\ cmd' = Idle
      /\ told' = [told EXCEPT !["ring"][cmd.slot] = cmd.val]
      /\ UNCHANGED <<cond, held, pass, carry>>
  BY StoreAssumption DEF PutIndex, IInv, TypeOK, Underway
<1>2. /\ told' \in Contents /\ told'["ring"][cmd.slot] = cmd.val
      /\ \A so \in Stores, o \in Slots :
           (so # "ring" \/ o # cmd.slot) => told'[so][o] = told[so][o]
  BY <1>1 DEF Contents, Stores
<1>3. TypeOK' /\ Underway'
  BY <1>1, <1>2, IdleTyped DEF IInv, TypeOK, Underway, Entries
<1>4. StoredIsListed'
  BY <1>1, <1>2 DEF IInv, IndexInStep, StoredIsListed, Entries, Stores
<1>5. ListedIsHeld'
  BY <1>1, IdleTyped DEF IInv, IndexInStep, ListedIsHeld
<1> QED BY <1>3, <1>4, <1>5 DEF IInv, IndexInStep

(* Delete takes the value out of the keyring. *)
LEMMA DeleteRingKeeps ==
  ASSUME IInv, DeleteRing
  PROVE  IInv'
<1>1. CASE cmd' = Idle /\ UNCHANGED <<held, told>>
  BY <1>1, EndKeeps DEF DeleteRing
<1>2. CASE /\ held' = [held EXCEPT !["ring"][cmd.slot] = None]
           /\ told' = [told EXCEPT !["ring"][cmd.slot] = None]
           /\ cmd' = [cmd EXCEPT !.pc = "unlist"]
  <2>1. /\ cmd.pc = "delete" /\ UNCHANGED <<cond, idx, pass, broken, carry>>
        /\ cmd.slot \in Slots /\ cmd \in CmdType /\ held \in Contents /\ told \in Contents
    BY DEF DeleteRing, IInv, TypeOK
  <2>2. /\ held' \in Contents /\ held'["ring"][cmd.slot] = None
        /\ \A so \in Stores, o \in Slots :
             (so # "ring" \/ o # cmd.slot) => held'[so][o] = held[so][o]
    BY <1>2, <2>1 DEF Contents, Stores
  <2>3. /\ told' \in Contents /\ told'["ring"][cmd.slot] = None
        /\ \A so \in Stores, o \in Slots :
             (so # "ring" \/ o # cmd.slot) => told'[so][o] = told[so][o]
    BY <1>2, <2>1 DEF Contents, Stores
  <2>4. cmd' \in CmdType /\ cmd'.pc = "unlist" /\ cmd'.slot = cmd.slot
    BY <1>2, <2>1, CmdMoves
  <2>5. TypeOK'
    BY <2>1, <2>2, <2>3, <2>4 DEF IInv, TypeOK, Entries, Stores
  <2>6. StoredIsListed'
    BY <2>1, <2>2, <2>3 DEF IInv, IndexInStep, StoredIsListed, Entries, Stores
  <2>7. ListedIsHeld'
    BY <2>1, <2>2, <2>4 DEF IInv, TypeOK, IndexInStep, ListedIsHeld, Stores
  <2> QED BY <2>2, <2>3, <2>4, <2>5, <2>6, <2>7 DEF IInv, Underway, IndexInStep
<1> QED BY <1>1, <1>2 DEF DeleteRing

(* Delete takes the name off the index, once the value is gone. *)
LEMMA DeleteIndexKeeps ==
  ASSUME IInv, DeleteIndex
  PROVE  IInv'
<1>1. /\ cmd.pc = "unlist" /\ cmd.slot \in Slots /\ told["ring"][cmd.slot] = None
      /\ idx' = idx \ {cmd.slot} /\ broken' = broken \ {cmd.slot} /\ cmd' = Idle
      /\ UNCHANGED <<cond, held, pass, told, carry>>
  BY DEF DeleteIndex, IInv, TypeOK, Underway
<1>2. TypeOK' /\ Underway'
  BY <1>1, IdleTyped DEF IInv, TypeOK, Underway, Entries
<1>3. StoredIsListed'
  BY <1>1 DEF IInv, IndexInStep, StoredIsListed, Entries, Stores
<1>4. ListedIsHeld'
  BY <1>1, IdleTyped DEF IInv, IndexInStep, ListedIsHeld
<1> QED BY <1>2, <1>3, <1>4 DEF IInv, IndexInStep

(* The encrypted file is replaced as a whole. *)
LEMMA FileSaveKeeps ==
  ASSUME IInv, FileSave
  PROVE  IInv'
<1>1. /\ cmd.pc = "file" /\ cmd.slot \in Slots /\ cmd.val \in Values \cup {None}
      /\ cmd.pass \in {"p1", "p2"} /\ held \in Contents /\ told \in Contents
      /\ held' = [held EXCEPT !["file"][cmd.slot] = cmd.val]
      /\ told' = [told EXCEPT !["file"][cmd.slot] = cmd.val]
      /\ pass' = cmd.pass /\ cmd' = Idle /\ UNCHANGED <<cond, idx, broken, carry>>
  BY DEF FileSave, IInv, TypeOK, Underway, CmdType
<1>2. /\ held' \in Contents /\ held'["file"][cmd.slot] = cmd.val
      /\ \A so \in Stores, o \in Slots :
           (so # "file" \/ o # cmd.slot) => held'[so][o] = held[so][o]
  BY <1>1 DEF Contents, Stores
<1>3. /\ told' \in Contents /\ told'["file"][cmd.slot] = cmd.val
      /\ \A so \in Stores, o \in Slots :
           (so # "file" \/ o # cmd.slot) => told'[so][o] = told[so][o]
  BY <1>1 DEF Contents, Stores
<1>4. TypeOK' /\ Underway'
  BY <1>1, <1>2, <1>3, IdleTyped, StoreAssumption DEF IInv, TypeOK, Underway, Entries
<1>5. StoredIsListed'
  BY <1>1, <1>2, <1>3 DEF IInv, IndexInStep, StoredIsListed, Entries, Stores
<1>6. ListedIsHeld'
  BY <1>1, <1>2, IdleTyped DEF IInv, TypeOK, IndexInStep, ListedIsHeld, Stores
<1> QED BY <1>4, <1>5, <1>6 DEF IInv, IndexInStep

(* The file of the encrypted store is removed. *)
LEMMA ResetKeeps ==
  ASSUME IInv, NEW c \in Commands, Reset(c)
  PROVE  IInv'
<1>1. /\ cmd.pc = "idle" /\ held \in Contents /\ told \in Contents
      /\ held' = [held EXCEPT !["file"] = [s \in Slots |-> None]]
      /\ told' = [told EXCEPT !["file"] = [s \in Slots |-> None]]
      /\ pass' = None /\ carry'.status = "none" /\ UNCHANGED <<cond, idx, cmd, broken>>
  BY DEF Reset, IInv, TypeOK, NoRun
<1>2. /\ held' \in Contents /\ \A o \in Slots : held'["file"][o] = None
      /\ held'["ring"] = held["ring"]
  BY <1>1 DEF Contents, Stores
<1>3. /\ told' \in Contents /\ \A o \in Slots : told'["file"][o] = None
      /\ told'["ring"] = told["ring"]
  BY <1>1 DEF Contents, Stores
<1>4. Entries("file")' = {}
  BY <1>2 DEF Entries
<1>5. TypeOK' /\ Underway'
  BY <1>1, <1>2, <1>3, <1>4 DEF IInv, TypeOK, Underway
<1>6. StoredIsListed'
  BY <1>1, <1>2, <1>3 DEF IInv, IndexInStep, StoredIsListed, Entries, Stores
<1>7. ListedIsHeld'
  BY <1>1, <1>2 DEF IInv, IndexInStep, ListedIsHeld
<1> QED BY <1>5, <1>6, <1>7 DEF IInv, IndexInStep

(* A command is killed between two of its steps. *)
LEMMA CrashKeeps ==
  ASSUME IInv, Crash
  PROVE  IInv'
<1>1. CASE cmd.pc = "unlist"
  BY <1>1, IdleTyped
     DEF Crash, IInv, TypeOK, Underway, IndexInStep, StoredIsListed, ListedIsHeld, Entries
<1>2. CASE cmd.pc # "unlist"
  BY <1>2, EndKeeps DEF Crash
<1> QED BY <1>1, <1>2

(* What a run finds: a credential that was reported as stored is in its    *)
(* plan, or a login for all its hosts is.                                  *)
LEMMA RunStatus ==
  ASSUME NEW r \in Runs
  PROVE  ResolveCredentials(r).status \in {"ok", "warned", "failed"}
BY DEF ResolveCredentials

(* Every step keeps the invariant. *)
LEMMA InvStep == IInv /\ [Next]_vars => IInv'
<1> SUFFICES ASSUME IInv, [Next]_vars PROVE IInv'
  OBVIOUS
<1>1. ASSUME NEW c \in Commands, Type(c) \/ Reset(c) PROVE IInv'
  BY <1>1, TypeKeeps, ResetKeeps
<1>2. ASSUME NEW c \in Conditions, Turn(c) PROVE IInv'
  BY <1>2, StoresKept DEF Turn, NoRun
<1>3. ASSUME NEW r \in Runs, Run(r) PROVE IInv'
  BY <1>3, StoresKept, RunStatus DEF Run, IInv, TypeOK
<1>4. CASE UNCHANGED vars
  BY <1>4, StoresKept DEF vars, IInv, TypeOK
<1> QED BY <1>1, <1>2, <1>3, <1>4, PutSetKeeps, PutVerifyKeeps, PutIndexKeeps, DeleteRingKeeps,
           DeleteIndexKeeps, FileSaveKeeps, CrashKeeps DEF Next

(* Whatever commands run, fail or are killed halfway, the index lists what *)
(* the keyring holds, up to the one name the command under way is about    *)
(* (internal/secret/secret.go).                                            *)
THEOREM StoresSound == Spec => []IInv
BY InitInv, InvStep, PTL DEF Spec

(* Every variable keeps its type, and a file that is not there has no      *)
(* entries (keyringstore.go, file.go).                                     *)
THEOREM StoreTypes == Spec => []TypeOK
BY StoresSound, PTL DEF IInv

(* What was reported as stored is there and listed, and what is listed is  *)
(* there but for an interrupted removal (KeyringStore.put and Delete).     *)
THEOREM IndexFollowsStore == Spec => []IndexInStep
<1>1. IInv => IndexInStep
  BY DEF IInv
<1> QED BY <1>1, StoresSound, PTL

----------------------------------------------------------------------------
PlanType == [ok : BOOLEAN, inject : SUBSET Names, oauth : SUBSET Names]

(* The parts of a plan, before and after the keys that a login covers are  *)
(* dropped.                                                                *)
LEMMA PreferredParts ==
  ASSUME NEW p \in PlanType
  PROVE  LET q == Preferred(p)
         IN  q.ok = p.ok /\ q.oauth = p.oauth /\ q.inject = PreferOAuth(p.inject, p.oauth)
BY DEF Preferred, PlanType

(* What the credential plan of a run is made of: what the user asked for,  *)
(* and what the store adds when it is readable and nothing in it has       *)
(* drifted.                                                                *)
LEMMA PlanParts ==
  ASSUME NEW r \in Runs
  PROVE  LET p == PlanCredentials(r)
             taken == {n \in Uses \ (r.inject \cup r.oauth) : Slot(n) \in Entries(r.store)}
             oauth == {n \in taken : IsOAuth(held[r.store][Slot(n)])}
         IN  /\ p \in PlanType
             /\ r.noSecrets => p.ok /\ p.inject = r.inject /\ p.oauth = r.oauth
             /\ ~r.noSecrets =>
                  /\ p.ok = ~Drift(r.store)
                  /\ p.inject = r.inject \cup {n \in taken : n \notin oauth /\ KeyHosts[n] # {}}
                  /\ p.oauth = r.oauth \cup oauth
<1>1. r.inject \subseteq Names /\ r.oauth \subseteq Names /\ r.noSecrets \in BOOLEAN /\ Uses \subseteq Names
  BY StoreAssumption DEF RunType
<1>2. CASE r.noSecrets
  BY <1>1, <1>2 DEF PlanCredentials, PlanType
<1>3. CASE ~r.noSecrets
  BY <1>1, <1>3 DEF PlanCredentials, PlanType
<1> QED BY <1>1, <1>2, <1>3

(* What a run that goes on without a word was given. *)
LEMMA ResolvedParts ==
  ASSUME NEW r \in Runs, ResolveCredentials(r).status = "ok", Open(r.store, r.pass) # "none"
  PROVE  LET c == ResolveCredentials(r)
             p == PlanCredentials(r)
             keys == PreferOAuth(p.inject, p.oauth)
         IN  /\ c.run = r /\ p.ok /\ c.logins = p.oauth
             /\ c.keys = {<<n, ForSandbox(r.store, n)>> : n \in keys}
<1> DEFINE p == PlanCredentials(r)
           q == Preferred(p)
<1>1. q.ok = p.ok /\ q.oauth = p.oauth /\ q.inject = PreferOAuth(p.inject, p.oauth)
  BY PlanParts, PreferredParts
<1> HIDE DEF p, q
<1>2. /\ ResolveCredentials(r).run = r /\ q.ok /\ ResolveCredentials(r).logins = q.oauth
      /\ ResolveCredentials(r).keys = {<<n, ForSandbox(r.store, n)>> : n \in q.inject}
  BY DEF ResolveCredentials, p, q
<1> QED BY <1>1, <1>2 DEF p

(* A run that starts without a word carries what it should.                *)
LEMMA RunCarries ==
  ASSUME IInv, NEW r \in Runs, Run(r)
  PROVE  CarriesTheStore
<1> DEFINE st == r.store
           p == PlanCredentials(r)
           named == r.inject \cup r.oauth
           given == {k[1] : k \in carry'.keys}
<1>0. carry' = ResolveCredentials(r)
  BY DEF Run
<1> SUFFICES ASSUME carry'.status = "ok", ~NoAnswer(st), carry'.run = r
             PROVE  CarriesTheStore
  <2>1. ASSUME carry'.status = "ok" PROVE carry'.run = r
    <3>1. ResolveCredentials(r).status = "ok" => ResolveCredentials(r).run = r
      BY DEF ResolveCredentials
    <3> QED BY <1>0, <2>1, <3>1
  <2>2. ASSUME carry'.status = "ok", NoAnswer(st) PROVE CarriesTheStore
    <3>1. Open(st, r.pass) = "none"
      BY <2>2 DEF NoAnswer, Open, OpenKeyring
    <3>2. named = {} /\ carry'.keys = {} /\ carry'.logins = {}
      BY <1>0, <2>2, <3>1 DEF ResolveCredentials
    <3> QED BY <2>1, <2>2, <3>2 DEF CarriesTheStore
  <2> QED BY <2>1, <2>2 DEF CarriesTheStore
<1>1. Open(st, r.pass) # "none"
  BY DEF Open, OpenKeyring, NoAnswer
<1>2. /\ p.ok /\ carry'.logins = p.oauth
      /\ carry'.keys = {<<n, ForSandbox(st, n)>> : n \in PreferOAuth(p.inject, p.oauth)}
  BY <1>1, ResolvedParts DEF Run
<1>3. given = PreferOAuth(p.inject, p.oauth)
  <2> DEFINE keys == PreferOAuth(p.inject, p.oauth)
  <2> HIDE DEF p, keys
  <2>1. \A k \in carry'.keys : k[1] \in keys
    BY <1>2 DEF keys
  <2>2. \A n \in keys : <<n, ForSandbox(st, n)>> \in carry'.keys /\ <<n, ForSandbox(st, n)>>[1] = n
    BY <1>2 DEF keys
  <2> QED BY <2>1, <2>2 DEF keys
<1>4. PreferOAuth(p.inject, p.oauth) \subseteq p.inject
  BY DEF PreferOAuth
<1>5. given \cup carry'.logins \subseteq named \cup (IF r.noSecrets THEN {} ELSE Uses)
  <2> HIDE DEF given, p
  <2>1. /\ r.noSecrets => p.inject = r.inject /\ p.oauth = r.oauth
        /\ ~r.noSecrets => p.inject \subseteq r.inject \cup Uses /\ p.oauth \subseteq r.oauth \cup Uses
    BY PlanParts DEF p
  <2> QED BY <1>2, <1>3, <1>4, <2>1
<1>6. \A k \in carry'.keys : k[2] \in {held[st][<<Sandbox, k[1]>>], held[st][Slot(k[1])]}
  <2> DEFINE keys == PreferOAuth(p.inject, p.oauth)
  <2> HIDE DEF p, keys
  <2>1. \A k \in carry'.keys : \E n \in keys : k[1] = n /\ k[2] = ForSandbox(st, n)
    BY <1>2 DEF keys
  <2> QED BY <2>1 DEF ForSandbox
<1>7. ASSUME ~r.noSecrets, NEW n \in Uses \ named
      PROVE  LET v == told[st][Slot(n)]
             IN  /\ v \in Logins => n \in carry'.logins
                 /\ v \in Keys /\ KeyHosts[n] # {} =>
                      \/ n \in given
                      \/ carry'.logins # {} /\ KeyHosts[n] \subseteq LoginHosts
  <2> DEFINE v == told[st][Slot(n)]
             taken == {m \in Uses \ named : Slot(m) \in Entries(st)}
             oauth == {m \in taken : IsOAuth(held[st][Slot(m)])}
  <2>1. st \in Stores /\ Slot(n) \in Slots
    BY StoreAssumption DEF RunType, Slot, Slots
  <2>2. v # None => held[st][Slot(n)] = v /\ n \in taken
    BY <2>1 DEF IInv, IndexInStep, StoredIsListed
  <2>3. p.inject = r.inject \cup {m \in taken : m \notin oauth /\ KeyHosts[m] # {}}
        /\ p.oauth = r.oauth \cup oauth
    BY <1>7, PlanParts
  <2>4. ASSUME v \in Logins PROVE n \in carry'.logins
    <3>1. v # None
      BY <2>4, StoreAssumption DEF Values
    <3> QED BY <1>2, <2>2, <2>3, <2>4, <3>1 DEF IsOAuth
  <2>5. ASSUME v \in Keys, KeyHosts[n] # {}
        PROVE  n \in given \/ (carry'.logins # {} /\ KeyHosts[n] \subseteq LoginHosts)
    <3>1. v # None /\ v \notin Logins
      BY <2>5, StoreAssumption DEF Values, Keys, Logins
    <3>2. n \in taken /\ n \notin oauth
      BY <2>2, <3>1 DEF IsOAuth
    <3>3. n \in p.inject
      BY <2>3, <2>5, <3>2
    <3> HIDE DEF p, given, taken, oauth
    <3> QED BY <1>2, <1>3, <3>3 DEF PreferOAuth
  <2> QED BY <2>4, <2>5
<1> HIDE DEF given, p
<1> QED BY <1>5, <1>6, <1>7 DEF CarriesTheStore, given

(* A sandbox that starts without a word carries what the user was told is  *)
(* stored and its agent uses, and nothing else, or the keyring gave no     *)
(* answer and it carries nothing (planCredentials, preferOAuth,            *)
(* resolveCredentials and enforceSpec).                                    *)
THEOREM RunsCarryTheStore == Spec => RunCarriesTheStore
<1>1. IInv /\ [Next]_vars => [CarriesTheStore]_vars
  <2> SUFFICES ASSUME IInv, Next PROVE CarriesTheStore
    OBVIOUS
  <2>1. ASSUME NEW r \in Runs, Run(r) PROVE CarriesTheStore
    BY <2>1, RunCarries
  <2>2. ASSUME carry' = carry \/ carry' = NoRun PROVE CarriesTheStore
    BY <2>2 DEF CarriesTheStore
  <2> QED BY <2>1, <2>2 DEF Next, Type, Reset, PutSet, PutVerify, PutIndex, DeleteRing,
              DeleteIndex, FileSave, Crash, Turn
<1> QED BY <1>1, StoresSound, PTL DEF Spec, RunCarriesTheStore
=============================================================================
