---------------------------- MODULE SecretStore ----------------------------
(***************************************************************************)
(* Where credentials are kept, and what a sandbox is started with: the     *)
(* keyring store with its index file and the encrypted file store          *)
(* (internal/secret/keyringstore.go, file.go, scope.go), the commands of   *)
(* "boks secret" (internal/cli/secret.go) and the credential plan of a run *)
(* (internal/cli/servicecreds.go).                                         *)
(*                                                                         *)
(* The operating system's keyring (external) can be locked or absent, and  *)
(* its tools can say yes and store nothing, or something else.  A command  *)
(* can be interrupted between any two of its writes.                       *)
(***************************************************************************)
EXTENDS Naturals, FiniteSets

CONSTANTS Names,       \* names of credentials
          Sandbox,     \* the sandbox that is started
          Commands,    \* what the user types, see CommandType
          Runs,        \* flags of a run, see RunType
          Conditions,  \* states of the keyring: "open", "locked", "absent"
          KeyHosts,    \* the hosts of a service's key; {} for one without a rule
          LoginHosts,  \* the hosts of the agent's login
          Uses,        \* the credentials the agent uses
          None

Machine == "machine"
Slots == {Machine, Sandbox} \X Names
Slot(n) == <<Machine, n>>

Keys == {"key", "new"}
Logins == {"login", "armed"}
Values == Keys \cup Logins \cup {"garbled"}
Stores == {"ring", "file"}
Ops == {"set", "adopt", "login", "import", "rm", "reset"}

(* The environment selects the store; pass is the passphrase it holds. *)
CommandType == [op : Ops, slot : Slots, store : Stores, pass : {"p1", "p2"}, force : BOOLEAN]
RunType == [inject : SUBSET Names, oauth : SUBSET Names, noSecrets : BOOLEAN,
            store : Stores, pass : {"p1", "p2"}]

ASSUME StoreAssumption ==
  /\ Commands \subseteq CommandType
  /\ Runs \subseteq RunType
  /\ Conditions \subseteq {"open", "locked", "absent"} /\ "open" \in Conditions
  /\ Uses \subseteq Names
  /\ None \notin Values \cup {"p1", "p2"}

VARIABLES
  cond,     \* the condition of the keyring
  held,     \* what each store holds: held[store][slot]
  idx,      \* the names in the keyring store's index file
  pass,     \* the passphrase the file is encrypted with, None if there is no file
  cmd,      \* the command under way
  told,     \* history: the values a command reported as stored, until one writes there
  broken,   \* history: names whose removal was interrupted
  carry     \* what a run gave its sandbox, NoRun once anything else happens

vars == <<cond, held, idx, pass, cmd, told, broken, carry>>

Idle == [pc |-> "idle", op |-> "set", slot |-> None,
         store |-> "ring", val |-> None, pass |-> "p1"]
NoRun == [status |-> "none", keys |-> {}, logins |-> {}, run |-> None]

----------------------------------------------------------------------------
IsOAuth(v) == v \in Logins

(* OpenKeyring: a probe that fails in any way is a keyring there is none   *)
(* of, and openSecretStore then has no store to offer.                     *)
OpenKeyring == IF cond = "open" THEN "ok" ELSE "none"

(* openSecretStore and the first load of a file: another passphrase than   *)
(* the file's fails, and a file that is not there is an empty one.         *)
Open(store, p) ==
  IF store = "ring" THEN OpenKeyring
  ELSE IF pass \in {None, p} THEN "ok" ELSE "wrong"

(* Entries: what the index names and the keyring returns; names that it    *)
(* does not return make the listing an error as well.                      *)
Entries(store) ==
  IF store = "ring" THEN {s \in idx : held["ring"][s] # None}
  ELSE {s \in Slots : held["file"][s] # None}
Drift(store) == store = "ring" /\ \E s \in idx : held["ring"][s] = None

(* refuseToShadowOAuth, refuseToOverwriteALogin: why a set or a login that *)
(* is not forced ends before it writes.                                    *)
RefuseToShadowOAuth(store, slot) ==
  \/ Drift(store)
  \/ Slot(slot[2]) \in Entries(store) /\ IsOAuth(held[store][Slot(slot[2])])

RefuseToOverwriteALogin(store, slot, force) ==
  ~force /\ (Drift(store) \/ slot \in Entries(store))

(* "secret import": the key in the environment, unless a login, or without *)
(* --force anything, is stored under the name.                             *)
ImportSkips(store, slot, force) ==
  \/ Drift(store)
  \/ slot \in Entries(store) /\ (IsOAuth(held[store][slot]) \/ ~force)

Refused(c) ==
  \/ c.op = "set" /\ RefuseToShadowOAuth(c.store, c.slot)
  \/ c.op = "login" /\ RefuseToOverwriteALogin(c.store, c.slot, c.force)
  \/ c.op = "import" /\ ImportSkips(c.store, c.slot, c.force)

ValueOf(op) == CASE op = "set" -> "key" [] op = "import" -> "new"
                 [] op = "adopt" -> "login" [] op = "login" -> "armed"
                 [] OTHER -> None

----------------------------------------------------------------------------
(* A command is typed.  It opens its store and judges the name before it   *)
(* reads or writes a value; what is refused changes nothing.               *)
Type(c) ==
  /\ cmd.pc = "idle" /\ c.op # "reset"
  /\ Open(c.store, c.pass) = "ok" /\ ~Refused(c)
  /\ cmd' = [Idle EXCEPT !.op = c.op, !.slot = c.slot, !.store = c.store, !.pass = c.pass,
               !.val = ValueOf(c.op),
               !.pc = IF c.store = "file" THEN "file"
                      ELSE IF c.op = "rm" THEN "delete" ELSE "set"]
  /\ carry' = NoRun
  /\ UNCHANGED <<cond, held, idx, pass, told, broken>>

(* Mutant: the name is listed before its value is written. *)
PutSet_IndexFirst ==
  /\ cmd.pc = "set"
  /\ idx' = idx \cup {cmd.slot}
  /\ \/ /\ cond = "open"
        /\ \E v \in {cmd.val, held["ring"][cmd.slot], "garbled"} :
             held' = [held EXCEPT !["ring"][cmd.slot] = v]
        /\ told' = [told EXCEPT !["ring"][cmd.slot] = None]
        /\ cmd' = [cmd EXCEPT !.pc = "verify"]
     \/ cmd' = Idle /\ UNCHANGED <<held, told>>
  /\ UNCHANGED <<cond, pass, broken, carry>>

(* put: the keyring is written first ... *)
PutSet ==
  /\ cmd.pc = "set"
  /\ \/ /\ cond = "open"
        /\ \E v \in {cmd.val, held["ring"][cmd.slot], "garbled"} :
             held' = [held EXCEPT !["ring"][cmd.slot] = v]
        /\ told' = [told EXCEPT !["ring"][cmd.slot] = None]
        /\ cmd' = [cmd EXCEPT !.pc = "verify"]
     \/ cmd' = Idle /\ UNCHANGED <<held, told>>
  /\ UNCHANGED <<cond, idx, pass, broken, carry>>

(* ... then read back: a name whose value did not survive is not recorded. *)
PutVerify ==
  /\ cmd.pc = "verify"
  /\ cmd' = IF cond = "open" /\ held["ring"][cmd.slot] = cmd.val
              THEN [cmd EXCEPT !.pc = "index"] ELSE Idle
  /\ UNCHANGED <<cond, held, idx, pass, told, broken, carry>>

(* ... and last the index is replaced, and the user told. *)
PutIndex ==
  /\ cmd.pc = "index"
  /\ idx' = idx \cup {cmd.slot}
  /\ told' = [told EXCEPT !["ring"][cmd.slot] = cmd.val]
  /\ broken' = broken \ {cmd.slot}
  /\ cmd' = Idle
  /\ UNCHANGED <<cond, held, pass, carry>>

(* Delete: the keyring's value, there or not, and then the name. *)
DeleteRing ==
  /\ cmd.pc = "delete"
  /\ \/ /\ cond = "open"
        /\ held' = [held EXCEPT !["ring"][cmd.slot] = None]
        /\ told' = [told EXCEPT !["ring"][cmd.slot] = None]
        /\ cmd' = [cmd EXCEPT !.pc = "unlist"]
     \/ cmd' = Idle /\ UNCHANGED <<held, told>>
  /\ UNCHANGED <<cond, idx, pass, broken, carry>>

DeleteIndex ==
  /\ cmd.pc = "unlist"
  /\ idx' = idx \ {cmd.slot}
  /\ broken' = broken \ {cmd.slot}
  /\ cmd' = Idle
  /\ UNCHANGED <<cond, held, pass, told, carry>>

(* FileStore: load, change and save; the file is replaced by a rename. *)
FileSave ==
  /\ cmd.pc = "file"
  /\ held' = [held EXCEPT !["file"][cmd.slot] = cmd.val]
  /\ pass' = cmd.pass
  /\ told' = [told EXCEPT !["file"][cmd.slot] = cmd.val]
  /\ cmd' = Idle
  /\ UNCHANGED <<cond, idx, broken, carry>>

(* "secret reset --force" removes the file, whatever its passphrase. *)
Reset(c) ==
  /\ cmd.pc = "idle" /\ c.op = "reset" /\ pass # None
  /\ held' = [held EXCEPT !["file"] = [s \in Slots |-> None]]
  /\ told' = [told EXCEPT !["file"] = [s \in Slots |-> None]]
  /\ pass' = None /\ carry' = NoRun
  /\ UNCHANGED <<cond, idx, cmd, broken>>

(* The command is interrupted. *)
Crash ==
  /\ cmd.pc # "idle"
  /\ broken' = IF cmd.pc = "unlist" THEN broken \cup {cmd.slot} ELSE broken
  /\ cmd' = Idle
  /\ UNCHANGED <<cond, held, idx, pass, told, carry>>

(* The keyring is locked, unlocked or taken away (external). *)
Turn(c) ==
  /\ c # cond
  /\ cond' = c /\ carry' = NoRun
  /\ UNCHANGED <<held, idx, pass, cmd, told, broken>>

----------------------------------------------------------------------------
(* The credentials of a run. *)

(* planCredentials: what the flags name, and of the machine's stored       *)
(* credentials those this agent uses and no flag names.                    *)
PlanCredentials(run) ==
  LET st == run.store
      named == run.inject \cup run.oauth
      taken == {n \in Uses \ named : Slot(n) \in Entries(st)}
  IN  IF run.noSecrets
        THEN [ok |-> TRUE, inject |-> run.inject, oauth |-> run.oauth]
        ELSE [ok |-> ~Drift(st),
              inject |-> run.inject \cup
                {n \in taken : ~IsOAuth(held[st][Slot(n)]) /\ KeyHosts[n] # {}},
              oauth |-> run.oauth \cup {n \in taken : IsOAuth(held[st][Slot(n)])}]

(* Mutant: the agent could log in, so its key is not wanted. *)
PreferOAuth_NotStored(keys, logins) ==
  {n \in keys : KeyHosts[n] = {} \/ ~(KeyHosts[n] \subseteq LoginHosts)}

(* PreferOAuth: a key all of whose hosts a login covers is dropped.  What  *)
(* an --inject rule says of a name without a rule of its own is not known. *)
PreferOAuth(keys, logins) ==
  IF logins = {} THEN keys
  ELSE {n \in keys : KeyHosts[n] = {} \/ ~(KeyHosts[n] \subseteq LoginHosts)}

(* credentialPlan.preferOAuth: the plan without the keys that are dropped. *)
Preferred(plan) == [plan EXCEPT !.inject = PreferOAuth(plan.inject, plan.oauth)]

(* scopedProvider.Lookup: the sandbox's own value, then the machine's. *)
ForSandbox(st, n) ==
  IF held[st][<<Sandbox, n>>] # None THEN held[st][<<Sandbox, n>>] ELSE held[st][Slot(n)]

(* resolveCredentials and enforceSpec: with no store, or one that cannot   *)
(* be read, a run that named no credential goes on without any, after a    *)
(* warning in the second case; every credential planned must be readable.  *)
ResolveCredentials(run) ==
  LET asked == run.inject \cup run.oauth # {}
      open == Open(run.store, run.pass)
      plan == Preferred(PlanCredentials(run))
      keys == plan.inject
      None0(status) == [status |-> status, keys |-> {}, logins |-> {}, run |-> run]
  IN  IF open = "none" THEN None0(IF asked THEN "failed" ELSE "ok")
      ELSE IF open = "wrong" /\ ~(run.noSecrets /\ ~asked)
        THEN None0(IF asked THEN "failed" ELSE "warned")
      ELSE IF ~plan.ok THEN None0(IF asked THEN "failed" ELSE "warned")
      ELSE IF \/ \E n \in plan.oauth : ~IsOAuth(held[run.store][Slot(n)])
              \/ \E n \in keys : ForSandbox(run.store, n) \notin Keys \cup {"garbled"}
        THEN None0("failed")
      ELSE [status |-> "ok", logins |-> plan.oauth, run |-> run,
            keys |-> {<<n, ForSandbox(run.store, n)>> : n \in keys}]

Run(run) ==
  /\ cmd.pc = "idle" /\ carry = NoRun
  /\ carry' = ResolveCredentials(run)
  /\ UNCHANGED <<cond, held, idx, pass, cmd, told, broken>>

----------------------------------------------------------------------------
Nothing == [st \in Stores |-> [s \in Slots |-> None]]

Init ==
  /\ cond \in Conditions
  /\ held = Nothing /\ told = Nothing
  /\ idx = {} /\ broken = {}
  /\ pass = None
  /\ cmd = Idle
  /\ carry = NoRun

Next ==
  \/ \E c \in Commands : Type(c) \/ Reset(c)
  \/ PutSet \/ PutVerify \/ PutIndex
  \/ DeleteRing \/ DeleteIndex
  \/ FileSave
  \/ Crash
  \/ \E c \in Conditions : Turn(c)
  \/ \E r \in Runs : Run(r)

Spec == Init /\ [][Next]_vars

----------------------------------------------------------------------------
Contents == [Stores -> [Slots -> Values \cup {None}]]
CmdType == [pc : {"idle", "set", "verify", "index", "delete", "unlist", "file"},
            op : Ops, slot : Slots \cup {None}, store : Stores, val : Values \cup {None},
            pass : {"p1", "p2"}]

(* Every variable has its type, and a file has a passphrase. *)
TypeOK ==
  /\ cond \in Conditions
  /\ held \in Contents /\ told \in Contents
  /\ idx \subseteq Slots /\ broken \subseteq Slots
  /\ pass \in {"p1", "p2", None}
  /\ cmd \in CmdType /\ (cmd.pc # "idle" => cmd.slot \in Slots)
  /\ carry.status \in {"none", "ok", "warned", "failed"}
  /\ pass = None => Entries("file") = {}

(* A credential a command said it stored is readable and listed until a    *)
(* command replaces or removes it, although the keyring's tools may lie    *)
(* and any other command may be interrupted at any point.                  *)
StoredIsListed ==
  \A st \in Stores, s \in Slots :
    told[st][s] # None => held[st][s] = told[st][s] /\ s \in Entries(st)

(* A name the index lists and the keyring does not hold comes only from an *)
(* interrupted removal: no interrupted store of a value leaves one.        *)
ListedIsHeld ==
  \A s \in idx : held["ring"][s] = None => s \in broken \/ (cmd.pc = "unlist" /\ cmd.slot = s)

(* The index and the stores stay in step, through interrupted commands and *)
(* tools that lie (Put, Delete).                                           *)
IndexInStep == StoredIsListed /\ ListedIsHeld

(* A keyring that is locked or not there gives no answer. *)
NoAnswer(store) == store = "ring" /\ cond # "open"

(* A sandbox that starts without a word carries every credential the user  *)
(* was told is stored and that its agent uses: the value itself, or the    *)
(* sandbox's own in its place, or a login for all of its hosts.  It        *)
(* carries nothing beyond that and what the flags name.  The one exception *)
(* is a keyring that gives no answer, a locked one included: the sandbox   *)
(* then starts without a word and without a credential, if no flag named   *)
(* one.  (RefusalReported, below, is what the code's comment says of it.)  *)
CarriesTheStore ==
  LET run == carry'.run
      st == run.store
      named == run.inject \cup run.oauth
      given == {k[1] : k \in carry'.keys}
  IN  carry' \notin {carry, NoRun} /\ carry'.status = "ok" =>
      /\ NoAnswer(st) => named = {} /\ carry'.keys = {} /\ carry'.logins = {}
      /\ given \cup carry'.logins \subseteq named \cup (IF run.noSecrets THEN {} ELSE Uses)
      /\ \A k \in carry'.keys : k[2] \in {held[st][<<Sandbox, k[1]>>], held[st][Slot(k[1])]}
      /\ ~run.noSecrets /\ ~NoAnswer(st) =>
           \A n \in Uses \ named :
             LET v == told[st][Slot(n)]
             IN  /\ v \in Logins => n \in carry'.logins
                 /\ v \in Keys /\ KeyHosts[n] # {} =>
                      \/ n \in given
                      \/ carry'.logins # {} /\ KeyHosts[n] \subseteq LoginHosts
RunCarriesTheStore == [][CarriesTheStore]_vars

(* A store that exists and refuses, such as a locked keychain, is a real   *)
(* error: no run goes on without the stored credentials and without a word *)
(* (internal/cli/servicecreds.go, openSecretStoreIfAvailable).             *)
RefusalReported ==
  [][carry' \notin {carry, NoRun} /\ cond = "locked" /\ carry'.run.store = "ring"
       => carry'.status # "ok" \/ carry'.run.noSecrets]_vars
============================================================================
