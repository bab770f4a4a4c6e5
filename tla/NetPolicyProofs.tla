-------------------------- MODULE NetPolicyProofs --------------------------
(* What of NetPolicy holds for every set of terminals, rules, flags and     *)
(* edits: a reload never moves the boundary of a running sandbox, and a     *)
(* sandbox that came up locked opens nothing that no user allowed.          *)
EXTENDS NetPolicy, TLAPS

----------------------------------------------------------------------------
(* Engine.Update's function keeps the denies and the default it found. *)
LEMMA MergeKeeps ==
  ASSUME NEW old, NEW new
  PROVE  /\ Denies(Merge(old, new)) = Denies(old)
         /\ Merge(old, new).default = old.default
         /\ Allows(Merge(old, new)) = Allows(new)
BY DEF Merge, Denies, Allows

(* Only a reload changes what a running supervisor enforces; every other   *)
(* step leaves it alone, starts it or ends it.                             *)
LEMMA NetMoves ==
  ASSUME Next
  PROVE  \/ net' = net
         \/ net' = None
         \/ \E c \in Clis : At(c, "spawn") /\ Spawn(c) /\ net = None
         \/ \E c \in Clis : ReloadMerge(c)
<1>1. PICK c \in Clis : CliStep(c)
  BY DEF Next
<1>2. CASE \E e \in Edits : EditLoad(c, e)
  BY <1>2 DEF EditLoad
<1>3. CASE EditSave(c) \/ ReloadLoad(c) \/ StartResolve(c) \/ Boot(c)
  BY <1>3 DEF EditSave, ReloadLoad, StartResolve, Boot
<1>4. CASE ReloadMerge(c)
  BY <1>4
<1>5. CASE \E f \in Flags : RunResolve(c, f) \/ Create(c, f)
  BY <1>5 DEF RunResolve, Create
<1>6. CASE Spawn(c)
  BY <1>6 DEF Spawn
<1>7. CASE Interrupt(c) \/ \E keep \in BOOLEAN : Down(c, keep)
  BY <1>7 DEF Interrupt, Down, TakeDown
<1> QED
  BY <1>1, <1>2, <1>3, <1>4, <1>5, <1>6, <1>7 DEF CliStep

(* While a sandbox runs, its denies and its default are those it came up   *)
(* with: reloadPolicy, several at a time included, cannot change them.     *)
THEOREM PolicyBoundary == Spec => BoundaryFixed
<1> DEFINE Step ==
      net # None /\ net' # None =>
        /\ Denies(net'.pol) = Denies(net.pol)
        /\ net'.pol.default = net.pol.default
<1>1. Next => Step
  <2> SUFFICES ASSUME Next, net # None, net' # None
               PROVE  /\ Denies(net'.pol) = Denies(net.pol)
                      /\ net'.pol.default = net.pol.default
    OBVIOUS
  <2>1. CASE net' = net
    BY <2>1
  <2>2. ASSUME NEW c \in Clis, ReloadMerge(c)
        PROVE  /\ Denies(net'.pol) = Denies(net.pol)
               /\ net'.pol.default = net.pol.default
    BY <2>2, MergeKeeps DEF ReloadMerge
  <2> QED
    BY <2>1, <2>2, NetMoves
<1>2. [Next]_vars => [Step]_vars
  BY <1>1
<1> QED
  BY <1>2, PTL DEF Spec, BoundaryFixed

----------------------------------------------------------------------------
(* Types.  A command that is about to save read a store on which its       *)
(* change gets as far as the save.                                         *)
Readable(c) == At(c, "save") => EditOk(cli[c].edit, cli[c].snap)
TypeInv == TypeOK /\ DOMAIN cli = Clis /\ \A c \in Clis : Readable(c)

CliOk(st) ==
  \/ st \in [pc : {"idle", "reload"}]
  \/ st \in [pc : {"save"}, edit : Edits, snap : Stores] /\ EditOk(st.edit, st.snap)
  \/ st \in [pc : {"merge"}, snap : Stores]
  \/ st \in [pc : {"spawn"}, res : Resolutions, rec : FlagSets, run : BOOLEAN]
  \/ st \in [pc : {"boot"}, rec : FlagSets, run : BOOLEAN, started : BOOLEAN]

LEMMA CliForms ==
  ASSUME NEW st, NEW alive \in BOOLEAN
  PROVE  /\ \/ st \in [pc : {"idle", "reload"}]
            \/ st \in [pc : {"save"}, edit : Edits, snap : Stores]
            \/ st \in [pc : {"merge"}, snap : Stores] /\ alive
            \/ st \in [pc : {"spawn"}, res : Resolutions, rec : FlagSets, run : BOOLEAN]
            \/ st \in [pc : {"boot"}, rec : FlagSets, run : BOOLEAN, started : BOOLEAN]
         /\ st.pc = "save" => EditOk(st.edit, st.snap)
         <=> CliOk(st) /\ (st.pc = "merge" => alive)
<1>1. st \in [pc : {"idle", "reload"}] => st.pc \in {"idle", "reload"}
  OBVIOUS
<1>2. st \in [pc : {"save"}, edit : Edits, snap : Stores] => st.pc = "save"
  OBVIOUS
<1>3. st \in [pc : {"merge"}, snap : Stores] => st.pc = "merge"
  OBVIOUS
<1>4. st \in [pc : {"spawn"}, res : Resolutions, rec : FlagSets, run : BOOLEAN] => st.pc = "spawn"
  OBVIOUS
<1>5. st \in [pc : {"boot"}, rec : FlagSets, run : BOOLEAN, started : BOOLEAN] => st.pc = "boot"
  OBVIOUS
<1> QED BY <1>1, <1>2, <1>3, <1>4, <1>5 DEF CliOk

TypedParts ==
  /\ store \in Stores /\ box \in FlagSets \cup {None} /\ up \in BOOLEAN
  /\ typed \subseteq Dests
  /\ net = None \/ net \in [res : Resolutions, pol : Policies]
  /\ DOMAIN cli = Clis
  /\ \A c \in Clis : CliOk(cli[c]) /\ (cli[c].pc = "merge" => net # None)

LEMMA TypeForm == TypeInv <=> TypedParts
BY CliForms DEF TypeInv, TypeOK, Readable, At, TypedParts

(* What a request can be, and a resolution of it. *)
Requests == [preset : Presets \cup {""}, profile : BOOLEAN, allow : SUBSET Dests,
             deny : SUBSET Dests, agent : SUBSET RuleSpecs,
             kitAllow : SUBSET Dests, kitDeny : SUBSET Dests]

LEMMA ScopedTyped ==
  ASSUME NEW rules \in SUBSET RuleSpecs, NEW scope \in Scopes
  PROVE  Scoped(rules, scope) \subseteq Rules
BY DEF Scoped, RuleSpecs, Rules

LEMMA WithTyped ==
  ASSUME NEW act \in Acts, NEW dests \in SUBSET Dests
  PROVE  With(act, dests) \subseteq RuleSpecs
BY DEF With, RuleSpecs

LEMMA PresetTyped == \A p \in Presets : PresetRules[p] \in SUBSET RuleSpecs
<1> SUFFICES ASSUME NEW p \in Presets PROVE PresetRules[p] \in SUBSET RuleSpecs
  OBVIOUS
<1>1. PresetRules[p] \in {With("deny", PresetDenies), With("allow", PresetAllows), {}}
  BY DEF PresetRules
<1>2. PresetRules[p] \subseteq RuleSpecs
  BY <1>1, WithTyped, PolicyAssumption DEF Acts
<1> QED BY <1>2

LEMMA ResolveTyped ==
  ASSUME NEW req \in Requests, NEW s \in Stores, Resolvable(req, s)
  PROVE  Resolve(req, s) \in Resolutions
<1> DEFINE base == Base(req, s)
           kit == With("deny", req.kitDeny) \cup With("allow", req.kitAllow)
           flags == With("deny", req.deny) \cup With("allow", req.allow)
<1>1. req.profile => s.profile \in Profiles
  BY DEF Resolvable, Stores, Requests
<1>2. base \in Presets
  BY <1>1 DEF Base, Requests, Profiles, Stores
<1>3. BaseScope(req) \in Scopes /\ Scoped(PresetRules[base], BaseScope(req)) \subseteq Rules
  BY <1>2, PresetTyped, ScopedTyped DEF BaseScope, Scopes
<1>4. req.profile => Scoped(s.profile.rules, "profile") \subseteq Rules
  <2>1. req.profile => s.profile.rules \in SUBSET RuleSpecs
    BY <1>1 DEF Profiles
  <2> QED BY <2>1, ScopedTyped DEF Scopes
<1>5. AgentLayer(req, base) \subseteq Rules
  <2>1. {r \in req.agent : base # "locked" \/ r.act = "deny"} \in SUBSET RuleSpecs
    BY DEF Requests
  <2> QED BY <2>1, ScopedTyped DEF AgentLayer, Scopes
<1>6. kit \in SUBSET RuleSpecs /\ flags \in SUBSET RuleSpecs
  BY WithTyped DEF Requests, Acts
<1>7. Scoped(kit, "kit") \subseteq Rules /\ Scoped(flags, "flag") \subseteq Rules
  BY <1>6, ScopedTyped DEF Scopes
<1>8. Scoped(s.global, "global") \subseteq Rules /\ Scoped(s.sandbox, "sandbox") \subseteq Rules
  BY ScopedTyped DEF Scopes, Stores
<1>9. Resolve(req, s).rules \in SUBSET Rules
  BY <1>3, <1>4, <1>5, <1>7, <1>8 DEF Resolve
<1>10. Resolve(req, s) = [base |-> Resolve(req, s).base, profile |-> req.profile,
                          locked |-> base = "locked",
                          default |-> IF base = "open" THEN "allow" ELSE "deny",
                          rules |-> Resolve(req, s).rules]
  BY Zenon DEF Resolve
<1>11. Resolve(req, s).base \in Presets \cup {""}
  BY <1>2 DEF Resolve
<1>12. req.profile \in BOOLEAN
  BY DEF Requests
<1>13. PICK locked \in BOOLEAN : locked = (base = "locked")
  OBVIOUS
<1>14. PICK default \in Acts : default = IF base = "open" THEN "allow" ELSE "deny"
  BY DEF Acts
<1>15. Resolve(req, s) = [base |-> Resolve(req, s).base, profile |-> req.profile,
                          locked |-> locked, default |-> default,
                          rules |-> Resolve(req, s).rules]
  BY <1>10, <1>13, <1>14, Zenon
<1>16. PICK first \in Presets \cup {""}, rules \in SUBSET Rules :
         first = Resolve(req, s).base /\ rules = Resolve(req, s).rules
  BY <1>9, <1>11
<1>17. [base |-> first, profile |-> req.profile, locked |-> locked, default |-> default,
        rules |-> rules] \in Resolutions
  BY <1>12 DEF Resolutions
<1> QED BY <1>15, <1>16, <1>17, Zenon

LEMMA RequestTyped ==
  ASSUME NEW f \in FlagSets, NEW rec \in FlagSets
  PROVE  RequestFor(f, rec) \in Requests
<1>1. AgentRules \in SUBSET RuleSpecs
  BY PolicyAssumption
<1> QED BY <1>1 DEF RequestFor, Requests, FlagSets

LEMMA ToRequestTyped ==
  ASSUME NEW res \in Resolutions
  PROVE  ToRequest(res) \in Requests
<1>1. \A scope : Layer(res, scope) \in SUBSET RuleSpecs
  <2>1. \A r \in res.rules : r.act \in Acts /\ r.dest \in Dests
    BY DEF Resolutions, Rules
  <2> QED BY <2>1 DEF Layer, RuleSpecs
<1>2. ASSUME NEW rules \in SUBSET RuleSpecs, NEW act
      PROVE  DestsOf(rules, act) \in SUBSET Dests
  BY DEF DestsOf, RuleSpecs
<1>3. res.base \in Presets \cup {""} /\ res.profile \in BOOLEAN
  BY DEF Resolutions
<1> QED BY <1>1, <1>2, <1>3 DEF ToRequest, Requests

LEMMA MergeTyped ==
  ASSUME NEW old \in Policies, NEW new \in Policies
  PROVE  Merge(old, new) \in Policies
BY DEF Merge, Policies, Denies, Allows

LEMMA CompiledTyped ==
  ASSUME NEW res \in Resolutions
  PROVE  Compiled(res) \in Policies
BY DEF Compiled, Policies, Resolutions

LEMMA EditedTyped ==
  ASSUME NEW e \in Edits, NEW s \in Stores, EditOk(e, s)
  PROVE  Edited(e, s) \in Stores
<1> SUFFICES Edited(e, s) \in Stores
  OBVIOUS
<1>1. e \in EditSets /\ (e.op = "add" => e.act \in Acts)
  BY PolicyAssumption
<1>2. ASSUME NEW rules \in SUBSET RuleSpecs, e.scope = "profile" => s.profile # None
      PROVE  SetRules(s, e.scope, rules) \in Stores
  <2>1. e.scope \in {"global", "sandbox", "profile"}
    BY <1>1 DEF EditSets
  <2>2. CASE e.scope \in {"global", "sandbox"}
    BY <2>2 DEF SetRules, Stores
  <2>3. CASE e.scope = "profile"
    <3>1. s.profile \in Profiles
      BY <1>2, <2>3 DEF Stores
    <3>2. [preset |-> s.profile.preset, rules |-> rules] \in Profiles
      BY <3>1 DEF Profiles
    <3> QED BY <2>3, <3>2 DEF SetRules, Stores
  <2> QED BY <2>1, <2>2, <2>3
<1>3. ScopeRules(s, e.scope) \in SUBSET RuleSpecs
  <2>1. s.profile # None => s.profile \in Profiles
    BY DEF Stores
  <2>2. s.profile # None => s.profile.rules \in SUBSET RuleSpecs
    BY <2>1 DEF Profiles
  <2> QED BY <2>2 DEF ScopeRules, Stores
<1>4. ASSUME NEW preset \in Presets PROVE EmptyStore(preset) \in Stores
  BY DEF EmptyStore, Stores
<1>5. CASE e.op = "add"
  <2>1. [act |-> e.act, dest |-> e.dest] \in RuleSpecs
    BY <1>1, <1>5 DEF RuleSpecs, EditSets
  <2>2. ScopeRules(s, e.scope) \cup {[act |-> e.act, dest |-> e.dest]} \in SUBSET RuleSpecs
    BY <1>3, <2>1
  <2>3. e.scope = "profile" => s.profile # None
    BY <1>5 DEF EditOk
  <2> QED BY <1>2, <1>5, <2>2, <2>3 DEF Edited
<1>6. CASE e.op = "rm"
  <2>1. {r \in ScopeRules(s, e.scope) : ~Removes(e, r)} \in SUBSET RuleSpecs
    BY <1>3
  <2>2. e.scope = "profile" => s.profile # None
    BY <1>6 DEF EditOk, ScopeRules
  <2> QED BY <1>2, <1>6, <2>1, <2>2 DEF Edited
<1>7. CASE e.op = "reset"
  <2>1. e.scope = "profile" => s.profile # None
    BY <1>7 DEF EditOk, ScopeRules
  <2> QED BY <1>2, <1>7, <2>1 DEF Edited
<1>8. CASE e.op = "resetall"
  BY <1>4, <1>8 DEF Edited, Presets
<1>9. CASE e.op = "init"
  BY <1>1, <1>4, <1>9 DEF Edited, EditSets
<1>10. CASE e.op = "mkprofile"
  <2>1. [preset |-> e.preset, rules |-> {}] \in Profiles
    BY <1>1 DEF EditSets, Profiles
  <2> QED BY <1>10, <2>1 DEF Edited, Stores
<1>11. CASE e.op = "rmprofile"
  BY <1>11 DEF Edited, Stores
<1> QED BY <1>1, <1>5, <1>6, <1>7, <1>8, <1>9, <1>10, <1>11 DEF EditSets

(* One command's place changes, or a supervisor goes and the handlers in   *)
(* it with it.                                                             *)
LEMMA GoneTo ==
  ASSUME TypeInv, NEW c \in Clis, NEW st, Goto(c, st), CliOk(st), st.pc = "merge" => net' # None,
         net # None => net' # None
  PROVE  DOMAIN cli' = Clis /\ \A d \in Clis : CliOk(cli'[d]) /\ (cli'[d].pc = "merge" => net' # None)
BY TypeForm DEF Goto, TypedParts

LEMMA TakenDown ==
  ASSUME TypeInv, NEW c \in Clis, TakeDown(c)
  PROVE  /\ net' = None /\ DOMAIN cli' = Clis
         /\ \A d \in Clis : CliOk(cli'[d]) /\ cli'[d].pc # "merge"
<1>1. CliOk(Idle) /\ Idle.pc # "merge"
  BY DEF CliOk, Idle
<1>2. \A d \in Clis : CliOk(cli[d])
  BY TypeForm DEF TypedParts
<1> QED BY <1>1, <1>2 DEF TakeDown

LEMMA Places ==
  ASSUME TypeInv, NEW c \in Clis
  PROVE  /\ At(c, "save") => cli[c] \in [pc : {"save"}, edit : Edits, snap : Stores]
                             /\ EditOk(cli[c].edit, cli[c].snap)
         /\ At(c, "merge") => cli[c].snap \in Stores
         /\ At(c, "spawn") => cli[c].res \in Resolutions /\ cli[c].rec \in FlagSets
                              /\ cli[c].run \in BOOLEAN
         /\ At(c, "boot") => cli[c].rec \in FlagSets /\ cli[c].run \in BOOLEAN
<1> DEFINE st == cli[c]
<1>1. CliOk(st)
  BY TypeForm DEF TypedParts
<1>2. st \in [pc : {"idle", "reload"}] => st.pc \in {"idle", "reload"}
  OBVIOUS
<1>3. st \in [pc : {"save"}, edit : Edits, snap : Stores] => st.pc = "save"
  OBVIOUS
<1>4. st \in [pc : {"merge"}, snap : Stores] => st.pc = "merge" /\ st.snap \in Stores
  OBVIOUS
<1>5. st \in [pc : {"spawn"}, res : Resolutions, rec : FlagSets, run : BOOLEAN]
        => st.pc = "spawn" /\ st.res \in Resolutions /\ st.rec \in FlagSets /\ st.run \in BOOLEAN
  OBVIOUS
<1>6. st \in [pc : {"boot"}, rec : FlagSets, run : BOOLEAN, started : BOOLEAN]
        => st.pc = "boot" /\ st.rec \in FlagSets /\ st.run \in BOOLEAN
  OBVIOUS
<1> QED BY <1>1, <1>2, <1>3, <1>4, <1>5, <1>6 DEF CliOk, At

LEMMA TypeStep ==
  ASSUME TypeInv, [Next]_vars
  PROVE  TypeInv'
<1> DEFINE Rest == /\ store' \in Stores /\ box' \in FlagSets \cup {None} /\ up' \in BOOLEAN
                   /\ typed' \subseteq Dests
                   /\ net' = None \/ net' \in [res : Resolutions, pol : Policies]
           Moved == /\ DOMAIN cli' = Clis
                    /\ \A d \in Clis : CliOk(cli'[d]) /\ (cli'[d].pc = "merge" => net' # None)
<1>1. /\ store \in Stores /\ box \in FlagSets \cup {None} /\ up \in BOOLEAN
      /\ typed \subseteq Dests
      /\ net = None \/ net \in [res : Resolutions, pol : Policies]
      /\ DOMAIN cli = Clis /\ \A d \in Clis : CliOk(cli[d]) /\ (cli[d].pc = "merge" => net # None)
  BY TypeForm DEF TypedParts
<1>2. Flags \subseteq FlagSets
  BY PolicyAssumption
<1>3. CliOk(Idle) /\ Idle.pc = "idle"
  BY DEF CliOk, Idle
<1>4. \A f \in FlagSets : Recorded(f) \in FlagSets
  BY DEF Recorded, FlagSets
<1>5. NoFlags \in FlagSets
  BY DEF NoFlags, FlagSets
<1>6. CASE UNCHANGED vars
  BY <1>6 DEF vars, TypeInv, TypeOK, At, Readable
<1>7. ASSUME NEW c \in Clis, CliStep(c)
      PROVE  Rest /\ Moved
  <2>1. ASSUME NEW e \in Edits, EditLoad(c, e) PROVE Rest /\ Moved
    <3>1. CliOk([pc |-> "save", edit |-> e, snap |-> store])
      BY <1>1, <2>1 DEF EditLoad, CliOk
    <3>2. Rest /\ net' = net
      BY <1>1, <2>1 DEF EditLoad
    <3> QED BY <2>1, <3>1, <3>2, GoneTo DEF EditLoad
  <2>2. CASE EditSave(c)
    <3>1. store' \in Stores
      BY <2>2, Places, EditedTyped DEF EditSave
    <3>2. CliOk([pc |-> "reload"])
      BY DEF CliOk
    <3>3. cli[c].edit.dest \in Dests
      BY <2>2, Places, PolicyAssumption DEF EditSave, EditSets
    <3> QED BY <1>1, <1>3, <2>2, <3>1, <3>2, <3>3, GoneTo DEF EditSave
  <2>3. CASE ReloadLoad(c)
    <3>1. CliOk([pc |-> "merge", snap |-> store])
      BY <1>1 DEF CliOk
    <3> QED BY <1>1, <1>3, <2>3, <3>1, GoneTo DEF ReloadLoad
  <2>4. CASE ReloadMerge(c)
    <3> DEFINE req == ToRequest(net.res)
               new == Resolve(req, cli[c].snap)
               merged == Merge(net.pol, Compiled(new))
    <3>1. net # None /\ net.res \in Resolutions /\ net.pol \in Policies /\ cli[c].snap \in Stores
      BY <1>1, <2>4, Places DEF ReloadMerge
    <3>2. ASSUME Resolvable(req, cli[c].snap)
          PROVE  [res |-> net.res, pol |-> merged] \in [res : Resolutions, pol : Policies]
      <4>1. merged \in Policies
        BY <3>1, <3>2, ToRequestTyped, ResolveTyped, CompiledTyped, MergeTyped
      <4> HIDE DEF merged
      <4> QED BY <3>1, <4>1
    <3>3. net' \in [res : Resolutions, pol : Policies]
      BY <1>1, <2>4, <3>2 DEF ReloadMerge
    <3>4. net' # None
      BY <3>3, PolicyAssumption
    <3> QED BY <1>1, <1>3, <2>4, <3>3, <3>4, GoneTo DEF ReloadMerge
  <2>5. ASSUME NEW f \in Flags, RunResolve(c, f) PROVE Rest /\ Moved
    <3> DEFINE req == RequestFor(f, RunRecord(f))
               rec == IF box = None THEN Recorded(f) ELSE NoFlags
    <3>1. f \in FlagSets /\ RunRecord(f) \in FlagSets /\ rec \in FlagSets
      BY <1>1, <1>2, <1>4, <1>5 DEF RunRecord
    <3>2. Resolve(req, store) \in Resolutions
      BY <1>1, <2>5, <3>1, RequestTyped, ResolveTyped DEF RunResolve
    <3>3. CliOk([pc |-> "spawn", res |-> Resolve(req, store), rec |-> rec, run |-> TRUE])
      <4> HIDE DEF req, rec
      <4> QED BY <3>1, <3>2 DEF CliOk
    <3>4. Goto(c, [pc |-> "spawn", res |-> Resolve(req, store), rec |-> rec, run |-> TRUE])
          /\ UNCHANGED <<store, box, net, up>> /\ typed' \subseteq Dests
      BY <1>1, <2>5, <3>1 DEF RunResolve, FlagSets
    <3> HIDE DEF req, rec
    <3> QED BY <1>1, <3>3, <3>4, GoneTo
  <2>6. CASE StartResolve(c)
    <3> DEFINE req == RequestFor(NoFlags, box)
    <3>1. Resolve(req, store) \in Resolutions
      BY <1>1, <1>5, <2>6, RequestTyped, ResolveTyped DEF StartResolve
    <3>2. CliOk([pc |-> "spawn", res |-> Resolve(req, store), rec |-> NoFlags, run |-> FALSE])
      <4> HIDE DEF req
      <4> QED BY <1>5, <3>1 DEF CliOk
    <3>3. Goto(c, [pc |-> "spawn", res |-> Resolve(req, store), rec |-> NoFlags, run |-> FALSE])
          /\ UNCHANGED <<store, box, net, up, typed>>
      BY <2>6 DEF StartResolve
    <3> HIDE DEF req
    <3> QED BY <1>1, <3>2, <3>3, GoneTo
  <2>7. CASE Spawn(c)
    <3>1. cli[c].res \in Resolutions /\ cli[c].rec \in FlagSets /\ cli[c].run \in BOOLEAN
      BY <2>7, Places DEF Spawn
    <3>2. [res |-> cli[c].res, pol |-> Compiled(cli[c].res)] \in [res : Resolutions, pol : Policies]
      BY <3>1, CompiledTyped
    <3>3. Rest /\ (net # None => net' # None)
      BY <1>1, <2>7, <3>2 DEF Spawn
    <3>4. PICK started \in BOOLEAN : started = (net = None)
      OBVIOUS
    <3>5. CliOk([pc |-> "boot", rec |-> cli[c].rec, run |-> cli[c].run, started |-> started])
      BY <3>1 DEF CliOk
    <3>6. Goto(c, [pc |-> "boot", rec |-> cli[c].rec, run |-> cli[c].run, started |-> started])
      BY <2>7, <3>4, Zenon DEF Spawn
    <3> QED BY <3>3, <3>5, <3>6, GoneTo
  <2>8. CASE Boot(c)
    <3>1. cli[c].rec \in FlagSets
      BY <2>8, Places DEF Boot
    <3>2. Rest /\ net' = net
      BY <1>1, <2>8, <3>1 DEF Boot
    <3> QED BY <1>3, <2>8, <3>2, GoneTo DEF Boot
  <2>9. ASSUME NEW f \in Flags, Create(c, f) PROVE Rest /\ Moved
    <3>1. Recorded(f) \in FlagSets /\ f.allow \subseteq Dests
      BY <1>2, <1>4 DEF FlagSets
    <3> QED BY <1>1, <2>9, <3>1 DEF Create
  <2>10. CASE Interrupt(c)
    <3>1. CASE TakeDown(c)
      BY <1>1, <2>10, <3>1, TakenDown DEF Interrupt
    <3>2. CASE Goto(c, Idle) /\ UNCHANGED net
      BY <1>1, <1>3, <2>10, <3>2, GoneTo DEF Interrupt
    <3> QED BY <2>10, <3>1, <3>2 DEF Interrupt
  <2>11. ASSUME NEW keep \in BOOLEAN, Down(c, keep) PROVE Rest /\ Moved
    BY <1>1, <2>11, TakenDown DEF Down
  <2> QED BY <1>7, <2>1, <2>2, <2>3, <2>4, <2>5, <2>6, <2>7, <2>8, <2>9, <2>10, <2>11 DEF CliStep
<1>8. Rest /\ Moved => TypeInv'
  <2>1. Rest /\ Moved => TypedParts'
    BY DEF TypedParts
  <2>2. (TypeInv <=> TypedParts)'
    BY TypeForm, PTL
  <2> QED BY <2>1, <2>2
<1> QED BY <1>6, <1>7, <1>8 DEF Next

(* Every variable of NetPolicy keeps its type, and a command that saves    *)
(* makes a change that its copy of the store admits: no edit of a profile  *)
(* that is not there.                                                      *)
THEOREM PolicyTypes == Spec => []TypeOK
<1>1. Init => TypeInv
  <2>1. EmptyStore("standard") \in Stores
    BY DEF EmptyStore, Stores, Presets
  <2>2. CliOk(Idle) /\ Idle.pc # "merge"
    BY DEF CliOk, Idle
  <2> QED BY <2>1, <2>2, TypeForm DEF Init, TypedParts
<1>2. TypeInv => TypeOK
  BY DEF TypeInv
<1> QED BY <1>1, <1>2, TypeStep, PTL DEF Spec

----------------------------------------------------------------------------
(* What one user finds at a start.  What the terminal resolved is still    *)
(* what the store and the record say, because nobody else types.           *)
OneTerminal == \A c, d \in Clis : c = d

(* A resolution that carries every stored rule, and one that carries every *)
(* prohibition of the record.                                              *)
CarriesStore(res) == Scoped(store.global, "global") \cup Scoped(store.sandbox, "sandbox") \subseteq res.rules
CarriesDenies(res) == \A d \in box.deny : \E r \in res.rules : r.act = "deny" /\ r.dest = d

FreshInv ==
  /\ TypeInv
  /\ \A c \in Clis : At(c, "spawn") => CarriesStore(cli[c].res)
                                       /\ (~cli[c].run => box # None /\ CarriesDenies(cli[c].res))

LEMMA ResolveCarries ==
  ASSUME NEW req \in Requests, NEW s \in Stores
  PROVE  /\ Scoped(s.global, "global") \cup Scoped(s.sandbox, "sandbox") \subseteq Resolve(req, s).rules
         /\ \A d \in req.deny : \E r \in Resolve(req, s).rules : r.act = "deny" /\ r.dest = d
<1>1. ASSUME NEW d \in req.deny
      PROVE  \E r \in Resolve(req, s).rules : r.act = "deny" /\ r.dest = d
  <2>1. [act |-> "deny", dest |-> d] \in With("deny", req.deny) \cup With("allow", req.allow)
    BY DEF With
  <2>2. [act |-> "deny", dest |-> d, scope |-> "flag"]
          \in Scoped(With("deny", req.deny) \cup With("allow", req.allow), "flag")
    BY <2>1 DEF Scoped
  <2>3. [act |-> "deny", dest |-> d, scope |-> "flag"] \in Resolve(req, s).rules
    BY <2>2 DEF Resolve
  <2> QED BY <2>3
<1>2. Scoped(s.global, "global") \cup Scoped(s.sandbox, "sandbox") \subseteq Resolve(req, s).rules
  BY DEF Resolve
<1> QED BY <1>1, <1>2

(* With one terminal a step that leaves it at "spawn" resolved in it, or   *)
(* was no step.                                                            *)
LEMMA FreshStep ==
  ASSUME OneTerminal, FreshInv, [Next]_vars
  PROVE  FreshInv'
<1>1. TypeInv'
  BY TypeStep DEF FreshInv
<1> DEFINE Good(d) == cli'[d].pc = "spawn" =>
             /\ Scoped(store'.global, "global") \cup Scoped(store'.sandbox, "sandbox") \subseteq cli'[d].res.rules
             /\ ~cli'[d].run => /\ box' # None
                                /\ \A x \in box'.deny : \E r \in cli'[d].res.rules : r.act = "deny" /\ r.dest = x
<1>2. ASSUME NEW d \in Clis PROVE Good(d)
  <2>1. CASE UNCHANGED vars
    BY <2>1 DEF FreshInv, At, CarriesStore, CarriesDenies, vars
  <2>2. CASE Next
    <3>1. CliStep(d) /\ DOMAIN cli = Clis
      BY <2>2 DEF Next, OneTerminal, FreshInv, TypeInv
    <3>2. ASSUME NEW st, Goto(d, st), st.pc # "spawn" PROVE Good(d)
      BY <3>1, <3>2 DEF Goto
    <3>3. Idle.pc # "spawn"
      BY DEF Idle
    <3>4. CASE TakeDown(d)
      BY <3>3, <3>4 DEF TakeDown
    <3>5. ASSUME NEW e \in Edits, EditLoad(d, e) PROVE Good(d)
      BY <3>2, <3>5 DEF EditLoad
    <3>6. CASE EditSave(d) \/ ReloadLoad(d) \/ ReloadMerge(d)
      BY <3>2, <3>3, <3>6 DEF EditSave, ReloadLoad, ReloadMerge
    <3>7. ASSUME NEW f \in Flags, RunResolve(d, f) PROVE Good(d)
      <4> DEFINE req == RequestFor(f, RunRecord(f))
                 rec == IF box = None THEN Recorded(f) ELSE NoFlags
      <4>1. f \in FlagSets /\ RunRecord(f) \in FlagSets /\ store \in Stores
        <5>1. f \in FlagSets /\ box \in FlagSets \cup {None} /\ store \in Stores
          BY PolicyAssumption DEF FreshInv, TypeInv, TypeOK
        <5>2. Recorded(f) \in FlagSets
          BY <5>1 DEF Recorded, FlagSets
        <5> QED BY <5>1, <5>2 DEF RunRecord
      <4>2. req \in Requests
        BY <4>1, RequestTyped
      <4>3. cli'[d] = [pc |-> "spawn", res |-> Resolve(req, store), rec |-> rec, run |-> TRUE]
            /\ store' = store
        BY <3>1, <3>7 DEF RunResolve, Goto
      <4> HIDE DEF req, rec
      <4> QED BY <4>1, <4>2, <4>3, ResolveCarries
    <3>8. CASE StartResolve(d)
      <4> DEFINE req == RequestFor(NoFlags, box)
      <4>1. NoFlags \in FlagSets /\ box \in FlagSets /\ box # None /\ store \in Stores
        BY <3>8 DEF FreshInv, TypeInv, TypeOK, NoFlags, FlagSets, StartResolve
      <4>2. req \in Requests
        BY <4>1, RequestTyped
      <4>3. req.deny = box.deny
        BY DEF RequestFor, NoFlags
      <4>4. cli'[d] = [pc |-> "spawn", res |-> Resolve(req, store), rec |-> NoFlags, run |-> FALSE]
            /\ store' = store /\ box' = box
        BY <3>1, <3>8 DEF StartResolve, Goto
      <4> HIDE DEF req
      <4> QED BY <4>1, <4>2, <4>3, <4>4, ResolveCarries
    <3>9. CASE Spawn(d) \/ Boot(d)
      BY <3>2, <3>3, <3>9 DEF Spawn, Boot
    <3>10. ASSUME NEW f \in Flags, Create(d, f) PROVE Good(d)
      BY <3>10 DEF Create, At, Idle
    <3>11. CASE Interrupt(d)
      BY <3>2, <3>3, <3>4, <3>11 DEF Interrupt
    <3>12. ASSUME NEW keep \in BOOLEAN, Down(d, keep) PROVE Good(d)
      BY <3>4, <3>12 DEF Down
    <3> QED BY <3>1, <3>5, <3>6, <3>7, <3>8, <3>9, <3>10, <3>11, <3>12 DEF CliStep
  <2> QED BY <2>1, <2>2
<1> QED BY <1>1, <1>2 DEF FreshInv, At, CarriesStore, CarriesDenies

LEMMA Fresh ==
  ASSUME OneTerminal
  PROVE  Spec => []FreshInv
<1>1. Init => FreshInv
  <2>1. EmptyStore("standard") \in Stores
    BY DEF EmptyStore, Stores, Presets
  <2>2. CliOk(Idle) /\ Idle.pc \notin {"merge", "spawn"}
    BY DEF CliOk, Idle
  <2> QED BY <2>1, <2>2, TypeForm DEF Init, TypedParts, FreshInv, At
<1>2. FreshInv /\ [Next]_vars => FreshInv'
  BY FreshStep
<1> QED BY <1>1, <1>2, PTL DEF Spec

(* A supervisor that comes up is one that a resolved command spawned.      *)
LEMMA ComesUp ==
  ASSUME FreshInv, [Next]_vars, net = None, net' # None
  PROVE  \E c \in Clis : /\ At(c, "spawn") /\ Spawn(c) /\ net'.pol = Compiled(cli[c].res)
                         /\ CarriesStore(cli[c].res)
                         /\ ~cli[c].run => box # None /\ CarriesDenies(cli[c].res)
<1>1. PICK c \in Clis : At(c, "spawn") /\ Spawn(c)
  BY NetMoves DEF vars, ReloadMerge
<1> QED BY <1>1 DEF FreshInv, Spawn

(* Stopping a sandbox and starting it again brings back every prohibition  *)
(* it was created with, whatever was edited in between.                    *)
THEOREM StartsKeepDenies ==
  ASSUME OneTerminal
  PROVE  Spec => StartKeepsDenies
<1>1. ASSUME FreshInv, [Next]_vars, NEW c \in Clis, At(c, "spawn"), ~cli[c].run,
             net = None, net' # None, NEW d \in box.deny
      PROVE  ~Permits(net'.pol, d)
  <2>1. net'.pol = Compiled(cli[c].res) /\ CarriesDenies(cli[c].res)
    BY <1>1, ComesUp DEF OneTerminal
  <2> QED BY <2>1 DEF Compiled, CarriesDenies, Permits, Denies
<1>2. FreshInv /\ [Next]_vars =>
        [\A c \in Clis : At(c, "spawn") /\ ~cli[c].run /\ net = None /\ net' # None
           => \A d \in box.deny : ~Permits(net'.pol, d)]_vars
  BY <1>1
<1> QED BY <1>2, Fresh, PTL DEF Spec, StartKeepsDenies

(* Whatever is stored when a supervisor comes up is in force in it: each   *)
(* stored deny denies, and each stored allow that nothing denies allows.   *)
THEOREM StoredRulesRule ==
  ASSUME OneTerminal
  PROVE  Spec => RulesTakeEffectAtStart
<1>1. ASSUME FreshInv, [Next]_vars, net = None, net' # None,
             NEW r \in store.global \cup store.sandbox
      PROVE  Permits(net'.pol, r.dest)
               <=> r.act = "allow" /\ \A q \in Denies(net'.pol) : q.dest # r.dest
  <2>1. PICK c \in Clis : net'.pol = Compiled(cli[c].res) /\ CarriesStore(cli[c].res)
    BY <1>1, ComesUp
  <2>2. r.act \in Acts
    BY <1>1 DEF FreshInv, TypeInv, TypeOK, Stores, RuleSpecs
  <2>3. PICK q \in net'.pol.rules : q.act = r.act /\ q.dest = r.dest
    <3>1. ASSUME NEW rules, NEW scope, r \in rules
          PROVE  [act |-> r.act, dest |-> r.dest, scope |-> scope] \in Scoped(rules, scope)
      BY <3>1 DEF Scoped
    <3>2. \E scope : [act |-> r.act, dest |-> r.dest, scope |-> scope] \in cli[c].res.rules
      BY <1>1, <2>1, <3>1 DEF CarriesStore
    <3> QED BY <2>1, <3>2 DEF Compiled
  <2> QED BY <2>2, <2>3 DEF Acts, Permits, Denies, Allows
<1>2. FreshInv /\ [Next]_vars =>
        [net = None /\ net' # None =>
           \A r \in store.global \cup store.sandbox :
             Permits(net'.pol, r.dest)
               <=> r.act = "allow" /\ \A q \in Denies(net'.pol) : q.dest # r.dest]_vars
  BY <1>1
<1> QED BY <1>2, Fresh, PTL DEF Spec, RulesTakeEffectAtStart

----------------------------------------------------------------------------
(* Locked sandboxes.  What users allowed is in the store, in the copies of *)
(* it that commands and handlers read, in the record and in the flags.     *)
AllowsIn(rules, T) == \A r \in rules : r.act = "allow" => r.dest \in T
StoreIn(s, T) == AllowsIn(s.global, T) /\ AllowsIn(s.sandbox, T) /\ AllowsIn(ScopeRules(s, "profile"), T)

(* A resolution whose preset is locked opens what users allowed and keeps  *)
(* of the agent only denies; so does what a reload makes of it.            *)
ResIn(res, T) ==
  /\ \A r \in res.rules : r.act = "allow" /\ r.scope = "flag" => r.dest \in T
  /\ res.base = "locked" =>
       /\ res.default = "deny"
       /\ \A r \in res.rules : r.scope = "agent" => r.act = "deny"
       /\ AllowsIn(res.rules, T)
PolIn(st, T) == ResIn(st.res, T)
                /\ (st.res.base = "locked" => st.pol.default = "deny" /\ AllowsIn(st.pol.rules, T))

CarriedIn(st, T) ==
  /\ st.pc \in {"save", "merge"} => StoreIn(st.snap, T)
  /\ st.pc = "spawn" => ResIn(st.res, T)
  /\ st.pc \in {"spawn", "boot"} => st.rec.allow \subseteq T

(* The invariant behind LockedMeansLocked. *)
LockedInv ==
  /\ TypeInv
  /\ StoreIn(store, typed)
  /\ box # None => box.allow \subseteq typed
  /\ \A c \in Clis : CarriedIn(cli[c], typed)
  /\ net # None => PolIn(net, typed)

(* What was once allowed stays so in the history. *)
LEMMA InGrows ==
  ASSUME NEW T, NEW U, T \subseteq U
  PROVE  /\ \A s : StoreIn(s, T) => StoreIn(s, U)
         /\ \A res : ResIn(res, T) => ResIn(res, U)
         /\ \A st : PolIn(st, T) => PolIn(st, U)
         /\ \A st : CarriedIn(st, T) => CarriedIn(st, U)
<1>1. \A s : StoreIn(s, T) => StoreIn(s, U)
  BY DEF StoreIn, AllowsIn
<1>2. \A res : ResIn(res, T) => ResIn(res, U)
  BY DEF ResIn, AllowsIn
<1>3. \A st : PolIn(st, T) => PolIn(st, U)
  BY <1>2 DEF PolIn, AllowsIn
<1>4. \A st : CarriedIn(st, T) => CarriedIn(st, U)
  BY <1>1, <1>2 DEF CarriedIn
<1> QED BY <1>1, <1>2, <1>3, <1>4

(* Under the locked preset Resolve takes no allow but a user's. *)
LEMMA ResolveIn ==
  ASSUME NEW req, NEW s, NEW T, StoreIn(s, T), Resolvable(req, s), req.allow \subseteq T
  PROVE  ResIn(Resolve(req, s), T)
<1> DEFINE res == Resolve(req, s)
           flags == Scoped(With("deny", req.deny) \cup With("allow", req.allow), "flag")
<1>1. \A r \in flags : r.act = "allow" => r.dest \in T
  BY DEF Scoped, With
<1>2. \A r \in res.rules : r.act = "allow" /\ r.scope = "flag" => r.dest \in T
  <2>1. ASSUME NEW rules, NEW scope, scope # "flag", NEW r \in Scoped(rules, scope)
        PROVE  r.scope # "flag"
    BY <2>1 DEF Scoped
  <2>2. BaseScope(req) # "flag"
    BY DEF BaseScope
  <2>3. \A r \in AgentLayer(req, Base(req, s)) : r.scope # "flag"
    BY <2>1 DEF AgentLayer
  <2>4. \A r \in res.rules : r \in flags \/ r.scope # "flag"
    <3> HIDE DEF flags
    <3>1. res.rules = UNION {Scoped(PresetRules[Base(req, s)], BaseScope(req)),
                IF req.profile THEN Scoped(s.profile.rules, "profile") ELSE {},
                AgentLayer(req, Base(req, s)),
                IF Base(req, s) = "locked" THEN {}
                ELSE Scoped(With("deny", req.kitDeny) \cup With("allow", req.kitAllow), "kit"),
                Scoped(s.global, "global"), Scoped(s.sandbox, "sandbox"), flags}
      BY DEF Resolve, flags
    <3> HIDE DEF res
    <3> QED BY <2>1, <2>2, <2>3, <3>1
  <2> HIDE DEF res, flags
  <2> QED BY <1>1, <2>4
<1>3. ASSUME res.base = "locked"
      PROVE  /\ res.default = "deny"
             /\ \A r \in res.rules : r.scope = "agent" => r.act = "deny"
             /\ AllowsIn(res.rules, T)
  <2>1. BaseScope(req) = "preset" /\ Base(req, s) = "locked"
    BY <1>3 DEF Resolve
  <2>2. PresetRules["locked"] = {}
    BY DEF PresetRules, Presets
  <2>3. Scoped(PresetRules[Base(req, s)], BaseScope(req)) = {}
    BY <2>1, <2>2 DEF Scoped
  <2>4. \A r \in AgentLayer(req, Base(req, s)) : r.act = "deny"
    BY <2>1 DEF AgentLayer, Scoped
  <2>5. req.profile => ScopeRules(s, "profile") = s.profile.rules
    BY DEF Resolvable, ScopeRules
  <2>6. req.profile => \A r \in Scoped(s.profile.rules, "profile") : r.act = "allow" => r.dest \in T
    BY <2>5 DEF StoreIn, AllowsIn, Scoped
  <2>7. \A r \in Scoped(s.global, "global") \cup Scoped(s.sandbox, "sandbox") :
          r.act = "allow" => r.dest \in T
    BY DEF StoreIn, AllowsIn, Scoped
  <2>8. res.rules = UNION {{}, IF req.profile THEN Scoped(s.profile.rules, "profile") ELSE {},
                           AgentLayer(req, Base(req, s)), {},
                           Scoped(s.global, "global"), Scoped(s.sandbox, "sandbox"), flags}
    BY <2>1, <2>3 DEF Resolve
  <2>9. AllowsIn(res.rules, T)
    <3> HIDE DEF flags, res
    <3> QED BY <1>1, <2>4, <2>6, <2>7, <2>8 DEF AllowsIn
  <2>10. \A r \in res.rules : r.scope = "agent" => r.act = "deny"
    <3>1. ASSUME NEW rules, NEW scope, scope # "agent", NEW r \in Scoped(rules, scope)
          PROVE  r.scope # "agent"
      BY <3>1 DEF Scoped
    <3>2. \A r \in flags : r.scope # "agent"
      BY <3>1
    <3> HIDE DEF flags, res
    <3> QED BY <2>4, <2>8, <3>1, <3>2
  <2>11. res.default = "deny"
    BY <2>1 DEF Resolve
  <2> QED BY <2>9, <2>10, <2>11
<1> HIDE DEF res
<1> QED BY <1>2, <1>3 DEF ResIn, res

(* ... and the request that a reload recovers is a locked one again. *)
LEMMA ReloadIn ==
  ASSUME NEW res, NEW s, NEW T, ResIn(res, T), StoreIn(s, T), Resolvable(ToRequest(res), s),
         res.base = "locked"
  PROVE  AllowsIn(Resolve(ToRequest(res), s).rules, T)
<1> DEFINE req == ToRequest(res)
<1>1. req.allow \subseteq T
  BY DEF ToRequest, DestsOf, Layer, ResIn
<1>2. ResIn(Resolve(req, s), T)
  BY <1>1, ResolveIn
<1>3. Resolve(req, s).base = "locked"
  BY DEF Resolve, BaseScope, Base, ToRequest
<1> QED BY <1>2, <1>3 DEF ResIn

(* An edit adds an allow only in the words of the user. *)
LEMMA EditedIn ==
  ASSUME NEW e \in Edits, NEW s \in Stores, NEW T, EditOk(e, s), StoreIn(s, T),
         e.op = "add" /\ e.act = "allow" => e.dest \in T
  PROVE  StoreIn(Edited(e, s), T)
<1> SUFFICES StoreIn(Edited(e, s), T)
  OBVIOUS
<1>1. e \in EditSets
  BY PolicyAssumption
<1>2. ASSUME NEW rules, AllowsIn(rules, T), e.scope = "profile" => s.profile # None
      PROVE  StoreIn(SetRules(s, e.scope, rules), T)
  <2>1. CASE e.scope \in {"global", "sandbox"}
    BY <1>2, <2>1 DEF SetRules, StoreIn, ScopeRules, Stores
  <2>2. CASE e.scope = "profile"
    BY <1>2, <2>2 DEF SetRules, StoreIn, ScopeRules, Stores, AllowsIn
  <2> QED BY <1>1, <2>1, <2>2 DEF EditSets
<1>3. AllowsIn(ScopeRules(s, e.scope), T)
  BY <1>1 DEF EditSets, StoreIn, ScopeRules
<1>4. ASSUME NEW preset PROVE StoreIn(EmptyStore(preset), T)
  BY DEF EmptyStore, StoreIn, ScopeRules, AllowsIn
<1>5. CASE e.op = "add"
  <2>1. AllowsIn(ScopeRules(s, e.scope) \cup {[act |-> e.act, dest |-> e.dest]}, T)
    BY <1>3, <1>5 DEF AllowsIn
  <2>2. e.scope = "profile" => s.profile # None
    BY <1>5 DEF EditOk
  <2> QED BY <1>2, <1>5, <2>1, <2>2 DEF Edited
<1>6. CASE e.op = "rm"
  <2>1. AllowsIn({r \in ScopeRules(s, e.scope) : ~Removes(e, r)}, T)
    BY <1>3 DEF AllowsIn
  <2>2. e.scope = "profile" => s.profile # None
    BY <1>6 DEF EditOk, ScopeRules
  <2> QED BY <1>2, <1>6, <2>1, <2>2 DEF Edited
<1>7. CASE e.op = "reset"
  <2>1. e.scope = "profile" => s.profile # None
    BY <1>7 DEF EditOk, ScopeRules
  <2>2. AllowsIn({}, T)
    BY DEF AllowsIn
  <2> QED BY <1>2, <1>7, <2>1, <2>2 DEF Edited
<1>8. CASE e.op \in {"resetall", "init"}
  BY <1>4, <1>8 DEF Edited
<1>9. CASE e.op \in {"mkprofile", "rmprofile"}
  <2>1. Edited(e, s).global = s.global /\ Edited(e, s).sandbox = s.sandbox
    BY <1>9 DEF Edited, Stores
  <2>2. ScopeRules(Edited(e, s), "profile") = {}
    BY <1>9 DEF Edited, Stores, ScopeRules
  <2> QED BY <2>1, <2>2 DEF StoreIn, AllowsIn
<1> QED BY <1>1, <1>5, <1>6, <1>7, <1>8, <1>9 DEF EditSets

LEMMA LockedStep ==
  ASSUME LockedInv, [Next]_vars
  PROVE  LockedInv'
<1> DEFINE Moved == \A d \in Clis : CarriedIn(cli'[d], typed')
           Rest == /\ StoreIn(store', typed')
                   /\ box' # None => box'.allow \subseteq typed'
                   /\ net' # None => PolIn(net', typed')
<1>1. /\ StoreIn(store, typed) /\ (box # None => box.allow \subseteq typed)
      /\ \A c \in Clis : CarriedIn(cli[c], typed)
      /\ net # None => PolIn(net, typed)
      /\ TypeInv /\ store \in Stores /\ DOMAIN cli = Clis
  BY DEF LockedInv, TypeInv, TypeOK
<1>2. \A T : CarriedIn(Idle, T) /\ CarriedIn([pc |-> "reload"], T)
  BY DEF CarriedIn, Idle
<1>3. CASE UNCHANGED vars
  BY <1>1, <1>3, TypeStep DEF vars, LockedInv
<1>4. ASSUME NEW c \in Clis, CliStep(c)
      PROVE  Rest /\ Moved
  <2>1. ASSUME NEW st, Goto(c, st), CarriedIn(st, typed'), typed \subseteq typed'
        PROVE  Moved
    BY <1>1, <2>1, InGrows DEF Goto
  <2>2. ASSUME TakeDown(c), typed' = typed
        PROVE  Moved /\ net' = None
    BY <1>1, <1>2, <2>2 DEF TakeDown
  <2>3. ASSUME typed \subseteq typed'
        PROVE  /\ store' = store => StoreIn(store', typed')
               /\ box' = box => (box' # None => box'.allow \subseteq typed')
               /\ net' = net => (net' # None => PolIn(net', typed'))
    BY <1>1, <2>3, InGrows
  <2>4. ASSUME NEW e \in Edits, EditLoad(c, e) PROVE Rest /\ Moved
    <3>1. CarriedIn([pc |-> "save", edit |-> e, snap |-> store], typed)
      BY <1>1 DEF CarriedIn
    <3> QED BY <2>1, <2>3, <2>4, <3>1 DEF EditLoad
  <2>5. CASE EditSave(c)
    <3> DEFINE e == cli[c].edit  s == cli[c].snap
    <3>1. e \in Edits /\ s \in Stores /\ EditOk(e, s)
      BY <1>1, <2>5, Places DEF EditSave
    <3>2. StoreIn(s, typed)
      BY <1>1, <2>5 DEF EditSave, CarriedIn, At
    <3>3. typed \subseteq typed' /\ (e.op = "add" /\ e.act = "allow" => e.dest \in typed')
      BY <2>5 DEF EditSave
    <3>4. StoreIn(s, typed')
      BY <3>2, <3>3, InGrows
    <3>5. StoreIn(Edited(e, s), typed')
      BY <3>1, <3>3, <3>4, EditedIn
    <3>6. Moved
      BY <1>2, <2>1, <2>5, <3>3 DEF EditSave
    <3> QED BY <2>3, <2>5, <3>3, <3>5, <3>6 DEF EditSave
  <2>6. CASE ReloadLoad(c)
    <3>1. CarriedIn([pc |-> "merge", snap |-> store], typed)
      BY <1>1 DEF CarriedIn
    <3> QED BY <1>2, <2>1, <2>3, <2>6, <3>1 DEF ReloadLoad
  <2>7. CASE ReloadMerge(c)
    <3> DEFINE req == ToRequest(net.res)
               new == Resolve(req, cli[c].snap)
    <3>1. Moved /\ StoreIn(store', typed') /\ (box' # None => box'.allow \subseteq typed')
      BY <1>2, <2>1, <2>3, <2>7 DEF ReloadMerge
    <3>2. CASE net' = net
      BY <2>3, <2>7, <3>1, <3>2 DEF ReloadMerge
    <3>3. CASE Resolvable(req, cli[c].snap)
               /\ net' = [res |-> net.res, pol |-> Merge(net.pol, Compiled(new))]
      <4>1. PolIn(net, typed) /\ StoreIn(cli[c].snap, typed) /\ typed' = typed
        BY <1>1, <2>7 DEF ReloadMerge, CarriedIn, At
      <4>2. net.res.base = "locked" => AllowsIn(new.rules, typed)
        BY <3>3, <4>1, ReloadIn DEF PolIn
      <4> HIDE DEF new, req
      <4>3. net.res.base = "locked" => AllowsIn(Merge(net.pol, Compiled(new)).rules, typed)
        BY <4>1, <4>2 DEF PolIn, AllowsIn, Merge, Compiled, Denies, Allows
      <4>4. PolIn(net', typed')
        BY <3>3, <4>1, <4>3 DEF PolIn, Merge
      <4> QED BY <3>1, <4>4
    <3> QED BY <2>7, <3>2, <3>3 DEF ReloadMerge
  <2>8. ASSUME NEW f \in Flags, RunResolve(c, f) PROVE Rest /\ Moved
    <3> DEFINE rec == RunRecord(f)
               req == RequestFor(f, rec)
               mine == IF box = None THEN Recorded(f) ELSE NoFlags
    <3>1. f \in FlagSets /\ (box # None => box \in FlagSets)
      BY <1>1, PolicyAssumption DEF TypeInv, TypeOK
    <3>2. typed' = typed \cup f.allow /\ Resolvable(req, store)
      BY <2>8 DEF RunResolve
    <3>3. Recorded(f).allow = f.allow /\ NoFlags.allow = {}
      BY <3>1 DEF Recorded, FlagSets, NoFlags
    <3>4. rec.allow \subseteq typed' /\ mine.allow \subseteq typed'
      BY <1>1, <3>2, <3>3 DEF RunRecord
    <3>5. req.allow \subseteq typed'
      BY <3>2, <3>4 DEF RequestFor
    <3>6. StoreIn(store, typed')
      BY <1>1, <3>2, InGrows
    <3>7. Goto(c, [pc |-> "spawn", res |-> Resolve(req, store), rec |-> mine, run |-> TRUE])
          /\ UNCHANGED <<store, box, net, up>>
      BY <2>8 DEF RunResolve
    <3> HIDE DEF req, rec, mine
    <3>8. ResIn(Resolve(req, store), typed')
      BY <3>2, <3>5, <3>6, ResolveIn
    <3>9. CarriedIn([pc |-> "spawn", res |-> Resolve(req, store), rec |-> mine, run |-> TRUE], typed')
      BY <3>4, <3>8 DEF CarriedIn
    <3> QED BY <2>1, <2>3, <3>2, <3>7, <3>9
  <2>9. CASE StartResolve(c)
    <3> DEFINE req == RequestFor(NoFlags, box)
    <3>1. req.allow = box.allow /\ NoFlags.allow = {}
      BY DEF RequestFor, NoFlags
    <3>2. box.allow \subseteq typed /\ Resolvable(req, store)
      BY <1>1, <2>9 DEF StartResolve
    <3>3. Goto(c, [pc |-> "spawn", res |-> Resolve(req, store), rec |-> NoFlags, run |-> FALSE])
          /\ UNCHANGED <<store, box, net, up, typed>>
      BY <2>9 DEF StartResolve
    <3> HIDE DEF req
    <3>4. ResIn(Resolve(req, store), typed)
      BY <1>1, <3>1, <3>2, ResolveIn
    <3>5. CarriedIn([pc |-> "spawn", res |-> Resolve(req, store), rec |-> NoFlags, run |-> FALSE], typed)
      BY <3>1, <3>4 DEF CarriedIn
    <3> QED BY <2>1, <2>3, <3>3, <3>5
  <2>10. CASE Spawn(c)
    <3>1. ResIn(cli[c].res, typed) /\ cli[c].rec.allow \subseteq typed
      BY <1>1, <2>10 DEF Spawn, CarriedIn, At
    <3>2. PolIn([res |-> cli[c].res, pol |-> Compiled(cli[c].res)], typed)
      BY <3>1 DEF PolIn, ResIn, Compiled
    <3>3. Moved
      <4>1. \A b : CarriedIn([pc |-> "boot", rec |-> cli[c].rec, run |-> cli[c].run,
                              started |-> b], typed)
        BY <3>1 DEF CarriedIn
      <4> QED BY <2>1, <2>10, <4>1 DEF Spawn
    <3> QED BY <2>3, <2>10, <3>2, <3>3 DEF Spawn
  <2>11. CASE Boot(c)
    <3>1. cli[c].rec.allow \subseteq typed
      BY <1>1, <2>11 DEF Boot, CarriedIn, At
    <3> QED BY <1>1, <1>2, <2>1, <2>3, <2>11, <3>1 DEF Boot
  <2>12. ASSUME NEW f \in Flags, Create(c, f) PROVE Rest /\ Moved
    <3>1. Recorded(f).allow = f.allow
      BY PolicyAssumption DEF Recorded, FlagSets
    <3>2. Moved
      BY <1>1, <2>12, InGrows DEF Create
    <3> QED BY <2>3, <2>12, <3>1, <3>2 DEF Create
  <2>13. CASE Interrupt(c)
    BY <1>2, <2>1, <2>2, <2>3, <2>13 DEF Interrupt
  <2>14. ASSUME NEW keep \in BOOLEAN, Down(c, keep) PROVE Rest /\ Moved
    BY <1>1, <2>2, <2>3, <2>14 DEF Down
  <2> QED BY <1>4, <2>4, <2>5, <2>6, <2>7, <2>8, <2>9, <2>10, <2>11, <2>12, <2>13, <2>14
          DEF CliStep
<1>5. Rest /\ Moved => LockedInv'
  BY TypeStep, <1>1 DEF LockedInv
<1> QED BY <1>3, <1>4, <1>5 DEF Next

(* Whatever is typed, reloaded and restarted, a sandbox that came up under *)
(* a locked preset of its own reaches only what a user allowed in words.   *)
THEOREM LockedStays == Spec => []LockedMeansLocked
<1>1. Init => LockedInv
  <2>1. Init => TypeInv
    <3>1. EmptyStore("standard") \in Stores
      BY DEF EmptyStore, Stores, Presets
    <3>2. CliOk(Idle) /\ Idle.pc # "merge"
      BY DEF CliOk, Idle
    <3> QED BY <3>1, <3>2, TypeForm DEF Init, TypedParts
  <2> QED BY <2>1 DEF Init, Idle, LockedInv, CarriedIn, StoreIn, AllowsIn, EmptyStore, ScopeRules
<1>2. LockedInv => LockedMeansLocked
  BY DEF LockedInv, LockedMeansLocked, PolIn, AllowsIn, Permits, Allows
<1> QED BY <1>1, <1>2, LockedStep, PTL DEF Spec
============================================================================
