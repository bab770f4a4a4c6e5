----------------------------- MODULE NetPolicy -----------------------------
(***************************************************************************)
(* What a sandbox may reach, over its whole life: the durable rules        *)
(* ("boks policy ...", internal/policy/store.go), the selection a sandbox  *)
(* records when it is created, the resolution of both into one policy      *)
(* (internal/policy/resolve.go), the engine in the supervisor that judges  *)
(* with it, and the hot reload that changes it while the sandbox runs      *)
(* (reloadPolicy in internal/enforce/enforce.go).                          *)
(*                                                                         *)
(* A destination stands for everything one rule covers: patterns, ports    *)
(* and the spelling of a rule are not modelled.  Rules are sets, because   *)
(* their order only decides which of two equal verdicts is reported.       *)
(***************************************************************************)

CONSTANTS Clis,           \* terminals
          Dests,          \* destinations
          PresetAllows,   \* what the standard preset allows
          PresetDenies,   \* what the open preset denies: this machine
          AgentRules,     \* the rules of the agent's definition
          Flags,          \* the policy flags users give to run and create
          Edits,          \* the changes to the store users type
          None            \* no profile, no sandbox, no supervisor

Acts == {"allow", "deny"}
Presets == {"open", "standard", "locked"}

(* A rule as it is stored, and with the label of the layer it came from. *)
RuleSpecs == [act : Acts, dest : Dests]
Scopes == {"preset", "profile", "agent", "kit", "global", "sandbox", "flag"}
Rules == [act : Acts, dest : Dests, scope : Scopes]

(* The flags of one command; a kit's rules are flags that are not recorded. *)
FlagSets == [preset : Presets \cup {""}, profile : BOOLEAN,
             allow : SUBSET Dests, deny : SUBSET Dests,
             kitAllow : SUBSET Dests, kitDeny : SUBSET Dests]

NoFlags == [preset |-> "", profile |-> FALSE, allow |-> {}, deny |-> {},
            kitAllow |-> {}, kitDeny |-> {}]

Profiles == [preset : Presets, rules : SUBSET RuleSpecs]
Stores == [preset : Presets, global : SUBSET RuleSpecs,
           sandbox : SUBSET RuleSpecs, profile : Profiles \cup {None}]

Policies == [default : Acts, rules : SUBSET Rules]
Resolutions == [base : Presets \cup {""}, profile : BOOLEAN, locked : BOOLEAN,
                default : Acts, rules : SUBSET Rules]

EditSets == [op : {"add", "rm", "reset", "resetall", "init", "mkprofile", "rmprofile"},
             scope : {"global", "sandbox", "profile"},
             act : Acts \cup {"both"}, dest : Dests, preset : Presets]

ASSUME PolicyAssumption ==
  /\ PresetAllows \subseteq Dests /\ PresetDenies \subseteq Dests
  /\ AgentRules \subseteq RuleSpecs
  /\ Flags \subseteq FlagSets /\ Edits \subseteq EditSets
  /\ \A e \in Edits : e.op = "add" => e.act \in Acts
  /\ None \notin Profiles
  /\ None \notin [res : Resolutions, pol : Policies]

VARIABLES
  store,   \* the policy store's file
  box,     \* the policy selection recorded on the sandbox, None without one
  net,     \* the sandbox's supervisor: its resolution and its engine's policy
  up,      \* is the sandbox running
  cli,     \* what each terminal is doing
  typed    \* history: every destination that a user has ever allowed

vars == <<store, box, net, up, cli, typed>>

----------------------------------------------------------------------------
(* Resolution. *)

With(act, dests) == {[act |-> act, dest |-> d] : d \in dests}

(* appendScoped *)
Scoped(rules, scope) ==
  {[act |-> r.act, dest |-> r.dest, scope |-> scope] : r \in rules}

(* openPolicy, standardPolicy, lockedPolicy *)
PresetRules == [p \in Presets |->
  IF p = "open" THEN With("deny", PresetDenies)
  ELSE IF p = "standard" THEN With("allow", PresetAllows)
  ELSE {}]

(* A profile that is selected and not stored is an error of every command. *)
Resolvable(req, s) == ~req.profile \/ s.profile # None

(* Request.base: the flag, or the profile, or the store names the preset. *)
Base(req, s) ==
  IF req.preset # "" THEN req.preset
  ELSE IF req.profile THEN s.profile.preset
  ELSE s.preset

(* The first layer is labelled with the profile if that chose the preset. *)
BaseScope(req) == IF req.profile /\ req.preset = "" THEN "profile" ELSE "preset"

(* Under the locked preset the agent keeps its denies only. *)
AgentLayer(req, base) ==
  Scoped({r \in req.agent : base # "locked" \/ r.act = "deny"}, "agent")

(* Request.Resolve.  Under the locked preset a kit contributes nothing. *)
Resolve(req, s) ==
  LET base == Base(req, s)
  IN  [base |-> IF BaseScope(req) = "preset" THEN base ELSE "",
       profile |-> req.profile,
       locked |-> base = "locked",
       default |-> IF base = "open" THEN "allow" ELSE "deny",
       rules |->
         UNION {Scoped(PresetRules[base], BaseScope(req)),
                IF req.profile THEN Scoped(s.profile.rules, "profile") ELSE {},
                AgentLayer(req, base),
                IF base = "locked" THEN {}
                ELSE Scoped(With("deny", req.kitDeny) \cup With("allow", req.kitAllow), "kit"),
                Scoped(s.global, "global"),
                Scoped(s.sandbox, "sandbox"),
                Scoped(With("deny", req.deny) \cup With("allow", req.allow), "flag")}]

(* Mutant: the denies are this command's. *)
RequestFor_FlagDenies(f, rec) ==
  [preset |-> IF f.preset # "" THEN f.preset ELSE rec.preset,
   profile |-> f.profile \/ rec.profile,
   allow |-> IF f.allow # {} THEN f.allow ELSE rec.allow,
   deny |-> f.deny,
   agent |-> AgentRules,
   kitAllow |-> f.kitAllow, kitDeny |-> f.kitDeny]

(* policyFlags.resolution: this run's flags over the sandbox's record. *)
RequestFor(f, rec) ==
  [preset |-> IF f.preset # "" THEN f.preset ELSE rec.preset,
   profile |-> f.profile \/ rec.profile,
   allow |-> IF f.allow # {} THEN f.allow ELSE rec.allow,
   deny |-> rec.deny \cup f.deny,
   agent |-> AgentRules,
   kitAllow |-> f.kitAllow, kitDeny |-> f.kitDeny]

(* What of a resolution came from one layer. *)
Layer(res, scope) ==
  {[act |-> r.act, dest |-> r.dest] : r \in {q \in res.rules : q.scope = scope}}

DestsOf(rules, act) == {r.dest : r \in {q \in rules : q.act = act}}

(* Mutant: a reload looks for the base preset anew. *)
ToRequest_NewBase(res) ==
  [preset |-> "",
   profile |-> res.profile,
   allow |-> DestsOf(Layer(res, "flag"), "allow"),
   deny |-> DestsOf(Layer(res, "flag"), "deny"),
   agent |-> Layer(res, "agent"),
   kitAllow |-> {}, kitDeny |-> {}]

(* Resolution.ToRequest: what a reload knows of the original request. *)
ToRequest(res) ==
  [preset |-> res.base,
   profile |-> res.profile,
   allow |-> DestsOf(Layer(res, "flag"), "allow"),
   deny |-> DestsOf(Layer(res, "flag"), "deny"),
   agent |-> Layer(res, "agent"),
   kitAllow |-> {}, kitDeny |-> {}]

(* Resolution.Policy *)
Compiled(res) == [default |-> res.default, rules |-> res.rules]

Denies(pol) == {r \in pol.rules : r.act = "deny"}
Allows(pol) == {r \in pol.rules : r.act = "allow"}

(* Mutant: the first allow decides. *)
Permits_AllowFirst(pol, d) ==
  \/ \E r \in Allows(pol) : r.dest = d
  \/ pol.default = "allow" /\ \A r \in Denies(pol) : r.dest # d

(* Policy.Evaluate: every deny before any allow, then the default. *)
Permits(pol, d) ==
  /\ \A r \in Denies(pol) : r.dest # d
  /\ (\E r \in Allows(pol) : r.dest = d) \/ pol.default = "allow"

(* The function reloadPolicy passes to Engine.Update: the denies and the   *)
(* default are those of the running policy, the allows are the new ones.   *)
Merge(old, new) ==
  [default |-> old.default, rules |-> Denies(old) \cup Allows(new)]

----------------------------------------------------------------------------
(* The store. *)

EmptyStore(preset) ==
  [preset |-> preset, global |-> {}, sandbox |-> {}, profile |-> None]

(* Store.Rules *)
ScopeRules(s, scope) ==
  IF scope = "global" THEN s.global
  ELSE IF scope = "sandbox" THEN s.sandbox
  ELSE IF s.profile # None THEN s.profile.rules ELSE {}

(* Store.setRules *)
SetRules(s, scope, rules) ==
  IF scope = "global" THEN [s EXCEPT !.global = rules]
  ELSE IF scope = "sandbox" THEN [s EXCEPT !.sandbox = rules]
  ELSE [s EXCEPT !.profile = [preset |-> s.profile.preset, rules |-> rules]]

(* Store.Remove: one disposition of a destination, or both. *)
Removes(e, r) == r.dest = e.dest /\ e.act \in {r.act, "both"}

(* Store.Count *)
Empty(s) == s.global = {} /\ s.sandbox = {} /\ ScopeRules(s, "profile") = {}

(* Does the command get as far as Save? *)
EditOk(e, s) ==
  \/ e.op = "add" /\ (e.scope # "profile" \/ s.profile # None)
  \/ e.op = "rm" /\ \E r \in ScopeRules(s, e.scope) : Removes(e, r)
  \/ e.op = "reset" /\ ScopeRules(s, e.scope) # {}
  \/ e.op = "resetall" /\ ~Empty(s)
  \/ e.op = "init"
  \/ e.op = "mkprofile" /\ s.profile = None
  \/ e.op = "rmprofile" /\ s.profile # None

(* Store.Add, Remove, Reset, AddProfile, RemoveProfile; "init --force"     *)
(* writes a fresh store.  A profile's first rules are added afterwards.    *)
Edited(e, s) ==
  IF e.op = "add"
    THEN SetRules(s, e.scope, ScopeRules(s, e.scope) \cup {[act |-> e.act, dest |-> e.dest]})
  ELSE IF e.op = "rm"
    THEN SetRules(s, e.scope, {r \in ScopeRules(s, e.scope) : ~Removes(e, r)})
  ELSE IF e.op = "reset" THEN SetRules(s, e.scope, {})
  ELSE IF e.op = "resetall" THEN EmptyStore("standard")
  ELSE IF e.op = "init" THEN EmptyStore(e.preset)
  ELSE IF e.op = "mkprofile" THEN [s EXCEPT !.profile = [preset |-> e.preset, rules |-> {}]]
  ELSE [s EXCEPT !.profile = None]

----------------------------------------------------------------------------
(* The commands.  snap is the store as the command, or the handler working *)
(* for it, read it.                                                        *)
(*   save     a policy command between its load and its save               *)
(*   reload   it has saved, and asks the supervisor to reload              *)
(*   merge    the handler has read the store, Engine.Update is next        *)
(*   spawn    run or start has resolved a policy, the supervisor is next   *)
(*   boot     it has a network, the sandbox itself is next                 *)
Idle == [pc |-> "idle"]

At(c, pc) == cli[c].pc = pc
Goto(c, st) == cli' = [cli EXCEPT ![c] = st]

(* boks policy allow, deny, rm, reset, init, profile: load ... *)
EditLoad(c, e) ==
  /\ At(c, "idle") /\ EditOk(e, store)
  /\ Goto(c, [pc |-> "save", edit |-> e, snap |-> store])
  /\ UNCHANGED <<store, box, net, up, typed>>

(* ... change the copy and rename it over the file.  Only an allow reloads. *)
EditSave(c) ==
  /\ At(c, "save")
  /\ store' = Edited(cli[c].edit, cli[c].snap)
  /\ IF cli[c].edit.op = "add" /\ cli[c].edit.act = "allow"
       THEN Goto(c, [pc |-> "reload"]) /\ typed' = typed \cup {cli[c].edit.dest}
       ELSE Goto(c, Idle) /\ UNCHANGED typed
  /\ UNCHANGED <<box, net, up>>

(* reloadPolicy, in a handler of the control socket: it reads the store ... *)
ReloadLoad(c) ==
  /\ At(c, "reload")
  /\ Goto(c, IF net = None THEN Idle ELSE [pc |-> "merge", snap |-> store])
  /\ UNCHANGED <<store, box, net, up, typed>>

(* ... resolves, and replaces the engine's policy under its lock.  The     *)
(* session's resolution stays the one it started with.                     *)
ReloadMerge(c) ==
  /\ At(c, "merge") /\ net # None
  /\ net' = IF Resolvable(ToRequest(net.res), cli[c].snap)
              THEN [res |-> net.res,
                    pol |-> Merge(net.pol,
                                  Compiled(Resolve(ToRequest(net.res), cli[c].snap)))]
              ELSE net
  /\ Goto(c, Idle)
  /\ UNCHANGED <<store, box, up, typed>>

(* attachSandboxNetwork: flags on a run of an existing sandbox replace its *)
(* record for that run.                                                    *)
Specified(f) == f.preset # "" \/ f.profile \/ f.allow # {} \/ f.deny # {}

(* sandboxRecord: what of the flags is recorded *)
Recorded(f) == [f EXCEPT !.kitAllow = {}, !.kitDeny = {}]

RunRecord(f) == IF box = None \/ Specified(f) THEN Recorded(f) ELSE box

(* run: resolve from the store and the record, ... *)
RunResolve(c, f) ==
  /\ At(c, "idle")
  /\ LET req == RequestFor(f, RunRecord(f))
     IN  /\ Resolvable(req, store)
         /\ Goto(c, [pc |-> "spawn", res |-> Resolve(req, store),
                     rec |-> IF box = None THEN Recorded(f) ELSE NoFlags, run |-> TRUE])
  /\ typed' = typed \cup f.allow
  /\ UNCHANGED <<store, box, net, up>>

(* start, and exec of a stopped sandbox: the same without flags. *)
StartResolve(c) ==
  /\ At(c, "idle") /\ box # None /\ net = None
  /\ LET req == RequestFor(NoFlags, box)
     IN  /\ Resolvable(req, store)
         /\ Goto(c, [pc |-> "spawn", res |-> Resolve(req, store),
                     rec |-> NoFlags, run |-> FALSE])
  /\ UNCHANGED <<store, box, net, up, typed>>

(* ... hand the resolution to a supervisor, unless one is there, ... *)
Spawn(c) ==
  /\ At(c, "spawn")
  /\ net' = IF net = None THEN [res |-> cli[c].res, pol |-> Compiled(cli[c].res)] ELSE net
  /\ Goto(c, [pc |-> "boot", rec |-> cli[c].rec, run |-> cli[c].run,
              started |-> net = None])
  /\ UNCHANGED <<store, box, up, typed>>

(* ... and boot the sandbox; run creates it if it is not there. *)
Boot(c) ==
  /\ At(c, "boot")
  /\ box' = IF box = None /\ cli[c].run THEN cli[c].rec ELSE box
  /\ up' = (box' # None)
  /\ Goto(c, Idle)
  /\ UNCHANGED <<store, net, typed>>

(* boks create: only the record. *)
Create(c, f) ==
  /\ At(c, "idle") /\ box = None
  /\ Resolvable(RequestFor(f, Recorded(f)), store)
  /\ box' = Recorded(f)
  /\ typed' = typed \cup f.allow
  /\ UNCHANGED <<store, net, up, cli>>

(* The supervisor goes, and the handlers in it; command c ends. *)
TakeDown(c) ==
  /\ net' = None
  /\ cli' = [d \in Clis |-> IF d = c \/ cli[d].pc = "merge" THEN Idle ELSE cli[d]]

(* Ctrl-C, or an error.  A run takes the supervisor it started with it if  *)
(* the sandbox is not up (releaseStack).  A handler is not affected.       *)
Interrupt(c) ==
  /\ cli[c].pc \in {"save", "reload", "spawn", "boot"}
  /\ IF At(c, "boot") /\ cli[c].run /\ cli[c].started /\ ~up
       THEN TakeDown(c)
       ELSE Goto(c, Idle) /\ UNCHANGED net
  /\ UNCHANGED <<store, box, up, typed>>

(* stop or rm. *)
Down(c, keep) ==
  /\ At(c, "idle") /\ box # None
  /\ box' = IF keep THEN box ELSE None
  /\ up' = FALSE
  /\ TakeDown(c)
  /\ UNCHANGED <<store, typed>>

Init ==
  /\ store = EmptyStore("standard")
  /\ box = None /\ net = None /\ up = FALSE
  /\ cli = [c \in Clis |-> Idle]
  /\ typed = {}

CliStep(c) ==
  \/ \E e \in Edits : EditLoad(c, e)
  \/ EditSave(c) \/ ReloadLoad(c) \/ ReloadMerge(c)
  \/ \E f \in Flags : RunResolve(c, f) \/ Create(c, f)
  \/ StartResolve(c) \/ Spawn(c) \/ Boot(c) \/ Interrupt(c)
  \/ \E keep \in BOOLEAN : Down(c, keep)

Next == \E c \in Clis : CliStep(c)

Spec == Init /\ [][Next]_vars

----------------------------------------------------------------------------
(* The store, the record and the engine's policy stay well formed through  *)
(* every edit, restart and reload: no command meets a rule or a preset it  *)
(* cannot compile.                                                         *)
TypeOK ==
  /\ store \in Stores
  /\ box \in FlagSets \cup {None}
  /\ up \in BOOLEAN
  /\ typed \subseteq Dests
  /\ net = None \/ net \in [res : Resolutions, pol : Policies]
  /\ \A c \in Clis :
       \/ cli[c] \in [pc : {"idle", "reload"}]
       \/ cli[c] \in [pc : {"save"}, edit : Edits, snap : Stores]
       \/ cli[c] \in [pc : {"merge"}, snap : Stores] /\ net # None
       \/ cli[c] \in [pc : {"spawn"}, res : Resolutions, rec : FlagSets, run : BOOLEAN]
       \/ cli[c] \in [pc : {"boot"}, rec : FlagSets, run : BOOLEAN, started : BOOLEAN]

(* Reloads, any number of them at a time, neither add nor remove a deny of *)
(* a running sandbox and never flip its default (reloadPolicy).            *)
BoundaryFixed ==
  [][net # None /\ net' # None =>
       /\ Denies(net'.pol) = Denies(net.pol)
       /\ net'.pol.default = net.pol.default]_vars

(* What the comment in reloadPolicy says of two reloads at once, that they *)
(* cannot race: what is reachable because the store says so stays          *)
(* reachable while the store says so.                                      *)
ReloadsDoNotRace ==
  [][net # None /\ net' # None =>
       \A r \in store.global :
         Permits(net.pol, r.dest) /\ r.act = "allow" => Permits(net'.pol, r.dest)]_vars

(* A reload goes through ToRequest, which must recover everything that did *)
(* not come from the store: the preset, the agent's, the kit's and the     *)
(* flags' rules stay what they were when the sandbox came up.              *)
Fixed(pol) == {r \in pol.rules : r.scope \in {"preset", "agent", "kit", "flag"}}
FixedRulesStay ==
  [][net # None /\ net' # None => Fixed(net'.pol) = Fixed(net.pol)]_vars

(* A prohibition the sandbox was created with is in force whenever it has  *)
(* a network, whatever later commands say (policyFlags.resolution).        *)
DeniesSurvive ==
  net # None /\ box # None => \A d \in box.deny : ~Permits(net.pol, d)

(* The part of it that holds: stopping a sandbox and starting it again,    *)
(* with any edits of the store in between, brings back every prohibition   *)
(* of its record (ensureNetworkForExisting).                               *)
StartKeepsDenies ==
  [][\A c \in Clis : At(c, "spawn") /\ ~cli[c].run /\ net = None /\ net' # None
       => \A d \in box.deny : ~Permits(net'.pol, d)]_vars

(* Rules are durable: a supervisor that comes up obeys every deny stored   *)
(* for it, and lets through what is stored as allowed and nowhere denied.  *)
RulesTakeEffectAtStart ==
  [][net = None /\ net' # None =>
       \A r \in store.global \cup store.sandbox :
         Permits(net'.pol, r.dest)
           <=> r.act = "allow" /\ \A q \in Denies(net'.pol) : q.dest # r.dest]_vars

(* A sandbox that came up under the locked preset, chosen by a flag, its   *)
(* record or the store, reaches only what a user allowed in words at some  *)
(* time: edits, restarts, reloads, a profile that is removed and created   *)
(* again on another preset, an agent and a kit open nothing else.  A       *)
(* profile that chose the locked preset itself is not covered              *)
(* (LockedByProfile).                                                      *)
LockedMeansLocked ==
  net # None /\ net.res.base = "locked" =>
    \A d \in Dests : Permits(net.pol, d) => d \in typed

(* The same of every locked sandbox, as the documents of the preset have   *)
(* it.  If its profile is created again on the standard preset, the next   *)
(* reload finds that preset's rules under the profile's label.             *)
LockedByProfile ==
  net # None /\ net.res.locked =>
    \A d \in Dests : Permits(net.pol, d) => d \in typed
============================================================================
