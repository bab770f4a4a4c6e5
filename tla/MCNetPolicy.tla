---------------------------- MODULE MCNetPolicy ----------------------------
(* NetPolicy for TLC.  One destination of each kind: "hub" is allowed by    *)
(* the standard preset, "local" denied by the open one, "api" allowed by    *)
(* the agent's definition, "ext" in nobody's.                               *)
EXTENDS NetPolicy

MCDests == {"hub", "local", "api", "ext"}
MCAgentRules == {[act |-> "allow", dest |-> "api"]}

Edit(op, scope, act, dest, preset) ==
  [op |-> op, scope |-> scope, act |-> act, dest |-> dest, preset |-> preset]

(* The store commands: allow and deny for one sandbox or for all, removal, *)
(* another base preset, a profile that comes and goes.                     *)
StoreEdits ==
  {Edit("add", "global", "allow", "ext", "standard"),
   Edit("add", "global", "deny", "api", "standard"),
   Edit("add", "sandbox", "allow", "local", "standard"),
   Edit("add", "profile", "allow", "ext", "standard"),
   Edit("rm", "global", "allow", "ext", "standard"),
   Edit("rm", "profile", "both", "ext", "standard"),
   Edit("reset", "sandbox", "both", "ext", "standard"),
   Edit("resetall", "global", "both", "ext", "standard"),
   Edit("init", "global", "allow", "ext", "open"),
   Edit("init", "global", "allow", "ext", "locked"),
   Edit("mkprofile", "profile", "allow", "ext", "standard"),
   Edit("rmprofile", "profile", "allow", "ext", "standard")}

(* Runs without flags, with a prohibition, and under the profile, with its *)
(* own base or with the locked one.                                        *)
PlainFlags ==
  {NoFlags, [NoFlags EXCEPT !.deny = {"hub"}], [NoFlags EXCEPT !.profile = TRUE],
   [NoFlags EXCEPT !.profile = TRUE, !.preset = "locked"]}

OneAllow == {Edit("add", "global", "allow", "ext", "standard")}
TwoAllows == OneAllow \cup {Edit("add", "global", "allow", "local", "standard")}
KitFlags == {[NoFlags EXCEPT !.kitAllow = {"local"}]}
TwoFlags == {[NoFlags EXCEPT !.deny = {"hub"}], [NoFlags EXCEPT !.allow = {"ext"}]}

(* A profile on the locked preset, created again on the standard one. *)
ProfileEdits ==
  OneAllow \cup {Edit("mkprofile", "profile", "allow", "ext", p) : p \in {"locked", "standard"}}
           \cup {Edit("rmprofile", "profile", "allow", "ext", "standard")}
ProfileFlags == {[NoFlags EXCEPT !.profile = TRUE]}
NoFlagsOnly == {NoFlags}
============================================================================
