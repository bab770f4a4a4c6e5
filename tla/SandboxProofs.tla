---------------------------- MODULE SandboxProofs ----------------------------
(***************************************************************************)
(* Proofs about Sandbox for any number of terminals, directories, kits,    *)
(* images and hosts, of commands and of failures.                          *)
(***************************************************************************)
EXTENDS Sandbox, SequenceTheorems, WellFoundedInduction, TLAPS

---------------------------------------------------------------------------
(* What a step does to the command that takes it.                          *)

(* Before it has resolved a sandbox, a command knows of none. *)
Early == {"idle", "load", "resolve"}
NoneKnown == \A t \in Terms : cmd[t].pc \in Early => cmd[t].id = 0

(* A command that goes on keeps what it was given and what it found out.   *)
Same(x, y) ==
  /\ y.op = x.op /\ y.ws = x.ws /\ y.clone = x.clone /\ y.kit = x.kit /\ y.img = x.img
  /\ y.name = x.name /\ y.how = x.how /\ y.seen = x.seen /\ y.id = x.id /\ y.warned = x.warned

(* The command of t ends, or goes on at one of these places. *)
Goes(t, pcs) ==
  /\ cmd' \in [Terms -> CmdType]
  /\ \A s \in Terms \ {t} : cmd'[s] = cmd[s]
  /\ \/ cmd'[t] = Idle
     \/ cmd[t].pc \notin Early /\ Same(cmd[t], cmd'[t]) /\ cmd'[t].pc \in pcs

LEMMA IdleTyped == Idle \in CmdType /\ Idle.pc = "idle" /\ Idle.id = 0 /\ Idle.img = None
BY DEF Idle, CmdType, Pcs

LEMMA EndGoes ==
  ASSUME TypeOK, NEW t \in Terms, End(t)
  PROVE  Goes(t, {})
BY IdleTyped DEF TypeOK, End, Goes

LEMMA GotoGoes ==
  ASSUME TypeOK, NEW t \in Terms, NEW pc \in Pcs, cmd[t].pc \notin Early, Goto(t, pc)
  PROVE  Goes(t, {pc})
<1>1. cmd[t] \in CmdType
  BY DEF TypeOK
<1>2. cmd' = [cmd EXCEPT ![t] = [cmd[t] EXCEPT !.pc = pc]]
  BY DEF Goto
<1>3. [cmd[t] EXCEPT !.pc = pc] \in CmdType
  BY <1>1 DEF CmdType
<1>4. Same(cmd[t], [cmd[t] EXCEPT !.pc = pc]) /\ [cmd[t] EXCEPT !.pc = pc].pc = pc
  BY <1>1 DEF Same, CmdType
<1> QED BY <1>2, <1>3, <1>4 DEF TypeOK, Goes

Errs == {"", "failed", "interrupted", "clone"}

(* Only a run that made its container goes on after a failure, to remove   *)
(* it.                                                                     *)
LEMMA FailGoes ==
  ASSUME TypeOK, NoneKnown, NEW t \in Terms, NEW why \in Errs, Fail(t, why)
  PROVE  Goes(t, {"remove"})
<1> DEFINE y == [cmd[t] EXCEPT !.pc = "remove", !.err = why]
<1>1. cmd[t] \in CmdType
  BY DEF TypeOK
<1>2. \/ cmd' = [cmd EXCEPT ![t] = y] /\ cmd[t].id # 0
      \/ cmd' = [cmd EXCEPT ![t] = Idle]
  BY DEF Fail
<1>3. "remove" \in Pcs
  BY DEF Pcs
<1>4. y \in CmdType
  BY <1>1, <1>3 DEF CmdType, Errs
<1>5. Same(cmd[t], y) /\ y.pc = "remove"
  BY <1>1 DEF CmdType, Same
<1>6. cmd[t].id # 0 => cmd[t].pc \notin Early
  BY DEF NoneKnown
<1> HIDE DEF y
<1> QED BY <1>2, <1>4, <1>5, <1>6, IdleTyped DEF TypeOK, Goes

LEMMA GoesWider ==
  ASSUME NEW t \in Terms, NEW P, NEW Q, P \subseteq Q, Goes(t, P)
  PROVE  Goes(t, Q)
BY DEF Goes

(* The step after the task is up. *)
LEMMA AfterUpGoes ==
  ASSUME TypeOK, NEW t \in Terms, cmd[t].pc \notin Early, AfterUp(t)
  PROVE  Goes(t, {"reload", "exec"})
<1>1. CASE End(t)
  BY <1>1, EndGoes, GoesWider
<1>2. CASE Goto(t, "exec")
  BY <1>2, GotoGoes, GoesWider DEF Pcs
<1>3. CASE cmd' = [cmd EXCEPT ![t].pc = "reload", ![t].pass = 2]
  <2> DEFINE y == [cmd[t] EXCEPT !.pc = "reload", !.pass = 2]
  <2>1. cmd' = [cmd EXCEPT ![t] = y] /\ cmd[t] \in CmdType
    BY <1>3 DEF TypeOK
  <2>2. "reload" \in Pcs
    BY DEF Pcs
  <2>3. y \in CmdType
    BY <2>1, <2>2 DEF CmdType
  <2>4. Same(cmd[t], y) /\ y.pc = "reload"
    BY <2>1 DEF CmdType, Same
  <2> HIDE DEF y
  <2> QED BY <2>1, <2>3, <2>4 DEF TypeOK, Goes
<1> QED BY <1>1, <1>2, <1>3 DEF AfterUp

LEMMA StoppedGoes ==
  ASSUME TypeOK, NEW t \in Terms, cmd[t].pc \notin Early, Stopped(t)
  PROVE  Goes(t, {"rmDelete"})
<1>1. CASE End(t)
  BY <1>1, EndGoes, GoesWider
<1>2. CASE Goto(t, "rmDelete")
  BY <1>2, GotoGoes DEF Pcs
<1> QED BY <1>1, <1>2 DEF Stopped

LEMMA StartFailsGoes ==
  ASSUME TypeOK, NoneKnown, NEW t \in Terms, cmd[t].pc \notin Early, StartFails(t)
  PROVE  Goes(t, {"undo", "remove"})
<1>1. CASE Fail(t, "failed")
  <2>1. Goes(t, {"remove"})
    BY <1>1, FailGoes DEF Errs
  <2> QED BY <2>1, GoesWider
<1>2. CASE cmd' = [cmd EXCEPT ![t].pc = "undo", ![t].err = "failed"]
  <2> DEFINE y == [cmd[t] EXCEPT !.pc = "undo", !.err = "failed"]
  <2>1. cmd' = [cmd EXCEPT ![t] = y] /\ cmd[t] \in CmdType
    BY <1>2 DEF TypeOK
  <2>2. "undo" \in Pcs
    BY DEF Pcs
  <2>3. y \in CmdType
    BY <2>1, <2>2 DEF CmdType
  <2>4. Same(cmd[t], y) /\ y.pc = "undo"
    BY <2>1 DEF CmdType, Same
  <2> HIDE DEF y
  <2> QED BY <2>1, <2>3, <2>4 DEF TypeOK, Goes
<1> QED BY <1>1, <1>2 DEF StartFails

---------------------------------------------------------------------------
(* Most steps change neither the authority nor the containers there are,   *)
(* but that a container may be deleted; and the command, if it goes on, is *)
(* past those places where a sandbox may be created.                       *)
Setup == {"ca", "caKey", "caCert", "ensure", "image", "create"}
Later == Pcs \ (Early \cup Setup)

Quiet(t) ==
  /\ Goes(t, Later)
  /\ UNCHANGED <<made, caKey, caCert, caRaced>>
  /\ \/ UNCHANGED ctr
     \/ \E n \in Names : ctr' = [ctr EXCEPT ![n] = None]

(* At a place past the first ones, going on to a later one. *)
LEMMA GotoQuiet ==
  ASSUME TypeOK, NEW t \in Terms, NEW pc \in Later, cmd[t].pc \notin Early, Goto(t, pc),
         UNCHANGED <<ctr, made, disk>>
  PROVE  Quiet(t)
<1>1. Goes(t, {pc})
  BY GotoGoes DEF Later
<1>2. Goes(t, Later)
  BY <1>1, GoesWider
<1> QED BY <1>2 DEF Quiet, disk

LEMMA EndQuiet ==
  ASSUME TypeOK, NEW t \in Terms, End(t), UNCHANGED <<ctr, made, caKey, caCert, caRaced>>
  PROVE  Quiet(t)
<1>1. Goes(t, Later)
  BY EndGoes, GoesWider
<1> QED BY <1>1 DEF Quiet

LEMMA FailQuiet ==
  ASSUME TypeOK, NoneKnown, NEW t \in Terms, NEW why \in Errs, Fail(t, why),
         UNCHANGED <<ctr, made, disk>>
  PROVE  Quiet(t)
<1>1. Goes(t, {"remove"}) /\ "remove" \in Later
  BY FailGoes DEF Later, Early, Setup, Pcs
<1>2. Goes(t, Later)
  BY <1>1, GoesWider
<1> QED BY <1>2 DEF Quiet, disk

LEMMA AfterUpQuiet ==
  ASSUME TypeOK, NEW t \in Terms, cmd[t].pc \notin Early, AfterUp(t), UNCHANGED <<ctr, made, disk>>
  PROVE  Quiet(t)
<1>1. Goes(t, {"reload", "exec"}) /\ {"reload", "exec"} \subseteq Later
  BY AfterUpGoes DEF Later, Early, Setup, Pcs
<1>2. Goes(t, Later)
  BY <1>1, GoesWider
<1> QED BY <1>2 DEF Quiet, disk

LEMMA StoppedQuiet ==
  ASSUME TypeOK, NEW t \in Terms, cmd[t].pc \notin Early, Stopped(t), UNCHANGED <<ctr, made, disk>>
  PROVE  Quiet(t)
<1>1. Goes(t, {"rmDelete"}) /\ {"rmDelete"} \subseteq Later
  BY StoppedGoes DEF Later, Early, Setup, Pcs
<1>2. Goes(t, Later)
  BY <1>1, GoesWider
<1> QED BY <1>2 DEF Quiet, disk

LEMMA StartFailsQuiet ==
  ASSUME TypeOK, NoneKnown, NEW t \in Terms, cmd[t].pc \notin Early, StartFails(t),
         UNCHANGED <<ctr, made, disk>>
  PROVE  Quiet(t)
<1>1. Goes(t, {"undo", "remove"}) /\ {"undo", "remove"} \subseteq Later
  BY StartFailsGoes DEF Later, Early, Setup, Pcs
<1>2. Goes(t, Later)
  BY <1>1, GoesWider
<1> QED BY <1>2 DEF Quiet, disk

(* Bringing a sandbox up. *)
LEMMA BringingUpQuiet ==
  ASSUME TypeOK, NoneKnown, NEW t \in Terms,
         \/ Reload(t) \/ StartTask(t) \/ Clear(t) \/ NewTask(t) \/ Start(t)
         \/ Undo(t) \/ UndoDelete(t)
  PROVE  Quiet(t)
<1>1. {"start", "newTask", "startCreated", "clear", "up", "startNew", "proc",
       "undoDelete"} \subseteq Later
  BY DEF Later, Early, Setup, Pcs
<1>2. {"failed"} \subseteq Errs /\ cmd[t].err \in Errs
  BY DEF Errs, TypeOK, CmdType
<1>4. CASE Reload(t)
  <2>1. cmd[t].pc \notin Early /\ UNCHANGED <<ctr, made, disk>> /\ (End(t) \/ Goto(t, "start"))
    BY <1>4 DEF Reload, At, Early, guest
  <2> QED BY <1>1, <2>1, GotoQuiet, EndQuiet DEF disk
<1>5. CASE StartTask(t)
  <2>1. cmd[t].pc \notin Early /\ UNCHANGED <<ctr, made, disk>>
        /\ \E pc \in {"newTask", "startCreated", "clear", "up"} : Goto(t, pc)
    BY <1>5 DEF StartTask, At, Early, guest
  <2> QED BY <1>1, <2>1, GotoQuiet
<1>6. CASE Clear(t)
  <2>1. cmd[t].pc \notin Early /\ UNCHANGED <<ctr, made, disk>>
        /\ (Goto(t, "newTask") \/ Fail(t, "failed"))
    BY <1>6 DEF Clear, At, Early
  <2> QED BY <1>1, <1>2, <2>1, GotoQuiet, FailQuiet
<1>7. CASE NewTask(t)
  <2>1. cmd[t].pc \notin Early /\ UNCHANGED <<ctr, made, disk>>
        /\ (Goto(t, "startNew") \/ Fail(t, "failed"))
    BY <1>7 DEF NewTask, At, Early
  <2> QED BY <1>1, <1>2, <2>1, GotoQuiet, FailQuiet
<1>8. CASE Start(t)
  <2>1. cmd[t].pc \notin Early /\ UNCHANGED <<ctr, made, disk>>
        /\ (Goto(t, "proc") \/ Goto(t, "up") \/ StartFails(t))
    BY <1>8 DEF Start, At, Early
  <2> QED BY <1>1, <2>1, GotoQuiet, StartFailsQuiet
<1>9. CASE Undo(t)
  <2>1. cmd[t].pc \notin Early /\ UNCHANGED <<ctr, made, disk>> /\ Goto(t, "undoDelete")
    BY <1>9 DEF Undo, At, Early
  <2> QED BY <1>1, <2>1, GotoQuiet
<1>10. CASE UndoDelete(t)
  <2>1. UNCHANGED <<ctr, made, disk>> /\ Fail(t, cmd[t].err)
    BY <1>10 DEF UndoDelete
  <2> QED BY <1>2, <2>1, FailQuiet
<1> QED BY <1>4, <1>5, <1>6, <1>7, <1>8, <1>9, <1>10

(* The clone in the guest. *)
LEMMA CloneQuiet ==
  ASSUME TypeOK, NoneKnown, NEW t \in Terms,
         EnsureClone(t) \/ Cloned(t) \/ CloneCut(t) \/ CloneFails(t)
  PROVE  Quiet(t)
<1>1. "cloning" \in Later /\ {"failed", "clone"} \subseteq Errs
  BY DEF Later, Early, Setup, Pcs, Errs
<1>2. CASE EnsureClone(t)
  <2>1. cmd[t].pc \notin Early /\ UNCHANGED <<ctr, made, disk>>
        /\ (Goto(t, "cloning") \/ AfterUp(t) \/ Fail(t, "failed"))
    BY <1>2 DEF EnsureClone, At, Early
  <2> QED BY <1>1, <2>1, GotoQuiet, AfterUpQuiet, FailQuiet
<1>3. CASE Cloned(t)
  <2>1. cmd[t].pc \notin Early /\ UNCHANGED <<ctr, made, disk>> /\ AfterUp(t)
    BY <1>3 DEF Cloned, ScriptEnds, At, Early
  <2> QED BY <2>1, AfterUpQuiet
<1>4. CASE CloneCut(t) \/ CloneFails(t)
  <2>1. UNCHANGED <<ctr, made, disk>> /\ Fail(t, "clone")
    BY <1>4 DEF CloneCut, CloneFails, guest
  <2> QED BY <1>1, <2>1, FailQuiet
<1> QED BY <1>2, <1>3, <1>4

(* A container that is deleted, by a command that ends. *)
LEMMA DeleteQuiet ==
  ASSUME TypeOK, NEW t \in Terms, CanDelete(Name(t)), DeleteContainer(Name(t)), End(t),
         UNCHANGED <<made, disk>>
  PROVE  Quiet(t)
<1>1. Goes(t, Later)
  BY EndGoes, GoesWider
<1>2. ctr' = [ctr EXCEPT ![Name(t)] = None]
  BY DEF DeleteContainer
<1>3. Name(t) \in Names \/ ctr' = ctr
  BY <1>2 DEF TypeOK
<1> QED BY <1>1, <1>2, <1>3 DEF Quiet, disk

(* The command in the guest, and what ends a sandbox. *)
LEMMA EndingQuiet ==
  ASSUME TypeOK, NoneKnown, NEW t \in Terms,
         \/ Exec(t) \/ ProcessEnds(t) \/ RemoveEphemeral(t) \/ Told(t)
         \/ Look(t) \/ Term(t) \/ TermDelete(t) \/ RmDelete(t)
  PROVE  Quiet(t)
<1>1. {"proc", "undo", "told", "rmDelete", "term", "termDelete"} \subseteq Later /\ "failed" \in Errs
  BY DEF Later, Early, Setup, Pcs, Errs
<1>2. CASE Exec(t)
  <2>1. cmd[t].pc \notin Early /\ UNCHANGED <<ctr, made, disk>>
        /\ (Goto(t, "proc") \/ Fail(t, "failed"))
    BY <1>2 DEF Exec, At, Early, guest
  <2> QED BY <1>1, <2>1, GotoQuiet, FailQuiet
<1>3. CASE ProcessEnds(t)
  <2>1. cmd[t].pc \notin Early /\ UNCHANGED <<ctr, made, disk>> /\ (Goto(t, "undo") \/ End(t))
    BY <1>3 DEF ProcessEnds, At, Early
  <2> QED BY <1>1, <2>1, GotoQuiet, EndQuiet DEF disk
<1>4. CASE RemoveEphemeral(t)
  <2>1. cmd[t].pc \notin Early /\ UNCHANGED <<made, disk>>
        /\ \/ CanDelete(Name(t)) /\ DeleteContainer(Name(t)) /\ End(t)
           \/ UNCHANGED ctr /\ (Goto(t, "told") \/ End(t))
    BY <1>4 DEF RemoveEphemeral, At, Early
  <2> QED BY <1>1, <2>1, DeleteQuiet, GotoQuiet, EndQuiet DEF disk
<1>5. CASE Told(t)
  <2>1. UNCHANGED <<ctr, made, disk>> /\ End(t)
    BY <1>5 DEF Told, guest
  <2> QED BY <2>1, EndQuiet DEF disk
<1>6. CASE Look(t)
  <2>1. cmd[t].pc \notin Early /\ UNCHANGED <<ctr, made, disk>>
        /\ (Goto(t, "rmDelete") \/ Goto(t, "term") \/ End(t))
    BY <1>6 DEF Look, At, Early, guest
  <2> QED BY <1>1, <2>1, GotoQuiet, EndQuiet DEF disk
<1>7. CASE Term(t)
  <2>1. cmd[t].pc \notin Early /\ UNCHANGED <<ctr, made, disk>>
        /\ (Stopped(t) \/ End(t) \/ Goto(t, "termDelete"))
    BY <1>7 DEF Term, At, Early
  <2> QED BY <1>1, <2>1, GotoQuiet, EndQuiet, StoppedQuiet DEF disk
<1>8. CASE TermDelete(t)
  <2>1. cmd[t].pc \notin Early /\ UNCHANGED <<ctr, made, disk>> /\ (Stopped(t) \/ End(t))
    BY <1>8 DEF TermDelete, At, Early
  <2> QED BY <2>1, EndQuiet, StoppedQuiet DEF disk
<1>9. CASE RmDelete(t)
  <2>1. UNCHANGED <<made, disk>> /\ End(t)
        /\ ((CanDelete(Name(t)) /\ DeleteContainer(Name(t))) \/ UNCHANGED ctr)
    BY <1>9 DEF RmDelete
  <2> QED BY <2>1, DeleteQuiet, EndQuiet DEF disk
<1> QED BY <1>2, <1>3, <1>4, <1>5, <1>6, <1>7, <1>8, <1>9

(* Signals and kills. *)
LEMMA WorldQuiet ==
  ASSUME TypeOK, NoneKnown, NEW t \in Terms, Interrupt(t) \/ Killed(t) \/ Deafens(t)
  PROVE  Quiet(t)
<1>1. {"failed", "interrupted", "clone"} \subseteq Errs
  BY DEF Errs
<1>2. CASE Interrupt(t)
  <2>1. UNCHANGED <<ctr, made, disk>>
        /\ \/ Fail(t, "interrupted") \/ Fail(t, "failed") \/ Fail(t, "clone")
           \/ At(t, "startNew") /\ StartFails(t)
    BY <1>2 DEF Interrupt
  <2> QED BY <1>1, <2>1, FailQuiet, StartFailsQuiet DEF At, Early
<1>3. CASE Killed(t)
  BY <1>3, EndQuiet DEF Killed, disk
<1>4. CASE Deafens(t)
  <2>1. cmd[t].pc = "proc" /\ UNCHANGED <<ctr, made, disk, cmd>>
    BY <1>4 DEF Deafens, At
  <2>2. "proc" \in Later /\ "proc" \notin Early
    BY DEF Later, Early, Setup, Pcs
  <2>3. Goes(t, Later)
    BY <2>1, <2>2 DEF Goes, TypeOK, Same
  <2> QED BY <2>1, <2>3 DEF Quiet, disk
<1> QED BY <1>2, <1>3, <1>4

(* The steps that are not quiet: a command is typed, finds its sandbox,    *)
(* makes the authority or makes the container.                             *)
Loud(t) ==
  \/ Type(t) \/ LoadKit(t) \/ Resolve(t) \/ CaOpen(t) \/ CaWriteKey(t) \/ CaWriteCert(t)
  \/ Ensure(t) \/ EnsureImage(t) \/ Create(t)

LEMMA QuietOrLoud ==
  ASSUME TypeOK, NoneKnown, NEW t \in Terms, ~Quiet(t),
         \/ Type(t) \/ Step(t) \/ CloneFails(t) \/ ProcessEnds(t)
         \/ Interrupt(t) \/ Killed(t) \/ Deafens(t)
  PROVE  Loud(t)
BY BringingUpQuiet, CloneQuiet, EndingQuiet, WorldQuiet DEF Step, Loud

---------------------------------------------------------------------------
(* Who a sandbox belongs to.                                               *)

(* What is known of a command, wherever it is. *)
Knows(c) ==
  /\ c.pc \in Early => c.id = 0
  /\ c.pc \notin Early => c.name \in Names
  /\ c.pc \in {"load", "resolve"} \cup Setup => c.op \in Creating
  /\ c.op \in Creating => c.ws \in Workspaces
  /\ c.pc = "load" => c.kit \in Kits

(* What a command found out about the names when it looked still holds of  *)
(* the containers that were there: they are of a clone if it asked for     *)
(* one, and none is of its directory if it found none.                     *)
Looked(c) ==
  /\ c.id = 0 /\ c.how \in {"new", "exists"}
  /\ c.op # "runrm" =>
       /\ ctr[c.name] # None /\ ctr[c.name].id <= c.seen => (c.clone => ctr[c.name].clone)
       /\ c.how = "new" =>
            \A n \in Names :
              n[1] = "dir" /\ ctr[n] # None /\ ctr[n].ws = c.ws => ctr[n].id > c.seen

(* The container that a command brought up. *)
Brought(c, x) ==
  /\ x.ws \in {None, c.ws} \/ c.warned
  /\ c.clone /\ (c.id <= c.seen \/ c.how = "made") => x.clone

(* A command that may create has one of its directory's names, and the     *)
(* container it brought up, while there is one, is as it asked.            *)
Ephemerals == {EphemeralName(t) : t \in Terms}

Right(c) ==
  c.op \in Creating /\ c.pc \notin Early =>
    /\ c.name \in {DeriveName(c.ws), QualifiedName(c.ws)} \cup Ephemerals
    /\ c.id <= made /\ c.seen <= made
    /\ c.id # 0 /\ ctr[c.name] # None /\ ctr[c.name].id = c.id => Brought(c, ctr[c.name])
    /\ c.pc \in Setup => Looked(c)

(* A container was made by then, and the qualified name of a directory is  *)
(* that directory's.                                                       *)
Registered ==
  \A n \in Names :
    ctr[n] # None => /\ ctr[n].id <= made
                     /\ \A w \in Workspaces : n = QualifiedName(w) => ctr[n].ws = w

Owners == Registered /\ \A t \in Terms : Knows(cmd[t]) /\ Right(cmd[t])

LEMMA OwnersKnow == Owners => NoneKnown
BY DEF Owners, Knows, NoneKnown

LEMMA NameFacts ==
  /\ \A w \in Workspaces : DeriveName(w) \in Names /\ QualifiedName(w) \in Names
  /\ \A t \in Terms : EphemeralName(t) \in Names
  /\ \A v, w \in Workspaces : QualifiedName(v) = QualifiedName(w) => v = w
  /\ \A v, w \in Workspaces : DeriveName(v) # QualifiedName(w)
  /\ \A w \in Workspaces : QualifiedName(w) \notin Ephemerals
  /\ \A n \in Names : n[1] = "dir" =>
       n = <<"dir", None>> \/ \E w \in Workspaces : n = QualifiedName(w)
BY SandboxAssumption DEF Names, DeriveName, QualifiedName, EphemeralName, Ephemerals

(* A command that ends, or goes on from where it may. *)
LEMMA GoesKeeps ==
  ASSUME TypeOK, Owners, NEW t \in Terms, NEW pcs, pcs \subseteq Pcs \ Early, Goes(t, pcs),
         pcs \cap Setup = {} \/ cmd[t].pc \in Setup, UNCHANGED made,
         UNCHANGED ctr \/ \E n \in Names : ctr' = [ctr EXCEPT ![n] = None]
  PROVE  Owners'
<1>1. \A n \in Names : ctr'[n] = ctr[n] \/ ctr'[n] = None
  BY DEF TypeOK
<1>2. Registered'
  BY <1>1 DEF Owners, Registered
<1>3. ASSUME NEW s \in Terms
      PROVE  Knows(cmd'[s])
  <2>1. CASE cmd'[s] = cmd[s] \/ cmd'[s] = Idle
    <3>1. Knows(Idle)
      BY DEF Knows, Idle, Early, Setup, Creating
    <3> QED BY <2>1, <3>1 DEF Owners
  <2>2. CASE s = t /\ cmd[t].pc \notin Early /\ Same(cmd[t], cmd'[t]) /\ cmd'[t].pc \in pcs
    <3>1. Knows(cmd[t]) /\ cmd'[t].pc \notin Early
      BY <2>2 DEF Owners
    <3>2. cmd'[t].pc \in Setup => cmd[t].pc \in Setup
      BY <2>2
    <3> QED BY <2>2, <3>1, <3>2 DEF Knows, Same, Early
  <2> QED BY <2>1, <2>2 DEF Goes
<1>4. ASSUME NEW s \in Terms
      PROVE  Right(cmd[s])'
  <2>1. CASE cmd'[s] = Idle
    BY <2>1, IdleTyped DEF Right, Early
  <2>2. CASE cmd'[s] = cmd[s] \/ (cmd[s].pc \notin Early /\ Same(cmd[s], cmd'[s]))
    <3>1. Right(cmd[s]) /\ Knows(cmd[s])
      BY DEF Owners
    <3>2. CASE ~(cmd'[s].op \in Creating /\ cmd'[s].pc \notin Early)
      BY <3>2 DEF Right
    <3>3. CASE cmd'[s].op \in Creating /\ cmd'[s].pc \notin Early
      <4>1. /\ cmd[s].op \in Creating /\ cmd[s].pc \notin Early /\ Same(cmd[s], cmd'[s])
            /\ cmd'[s].pc \in Setup => cmd[s].pc \in Setup
        <5>1. CASE cmd'[s] = cmd[s]
          BY <3>3, <5>1 DEF Same
        <5>2. CASE cmd'[s] # cmd[s]
          <6>1. s = t /\ cmd[s].pc \notin Early /\ Same(cmd[s], cmd'[s])
            BY <2>2, <5>2 DEF Goes
          <6>2. cmd'[s].pc \in pcs
            BY <3>3, <5>2, <6>1, IdleTyped DEF Goes, Early
          <6> QED BY <3>3, <6>1, <6>2 DEF Same
        <5> QED BY <5>1, <5>2
      <4>2. cmd[s].name \in Names
        BY <3>1, <4>1 DEF Knows
      <4>3. cmd'[s].pc \in Setup => Looked(cmd[s])'
        BY <1>1, <3>1, <4>1, <4>2 DEF Right, Same, Looked
      <4>4. /\ cmd'[s].id # 0 /\ ctr'[cmd'[s].name] # None /\ ctr'[cmd'[s].name].id = cmd'[s].id
               => Brought(cmd[s], ctr[cmd[s].name])'
        BY <1>1, <3>1, <4>1, <4>2 DEF Right, Same, Brought
      <4> QED BY <3>1, <4>1, <4>3, <4>4 DEF Right, Same
    <3> QED BY <3>2, <3>3
  <2> QED BY <2>1, <2>2 DEF Goes
<1> QED BY <1>2, <1>3, <1>4 DEF Owners

LEMMA QuietKeeps ==
  ASSUME TypeOK, Owners, NEW t \in Terms, Quiet(t)
  PROVE  Owners'
<1>1. Later \subseteq Pcs \ Early /\ Later \cap Setup = {}
  BY DEF Later
<1> QED BY <1>1, GoesKeeps DEF Quiet

(* A command that becomes another record, while the containers stay. *)
LEMMA BecomesKeeps ==
  ASSUME TypeOK, Owners, NEW t \in Terms, NEW y \in CmdType, cmd' = [cmd EXCEPT ![t] = y],
         UNCHANGED <<ctr, made>>, Knows(y), Right(y)
  PROVE  Owners'
<1>1. Registered'
  BY DEF Owners, Registered
<1>2. ASSUME NEW s \in Terms
      PROVE  Knows(cmd'[s]) /\ Right(cmd[s])'
  <2>1. cmd'[s] = y \/ cmd'[s] = cmd[s]
    BY DEF TypeOK
  <2>2. Knows(cmd'[s])
    BY <2>1 DEF Owners
  <2>3. Right(cmd[s]) \/ cmd'[s] = y
    BY DEF Owners
  <2>4. Right(cmd[s])'
    BY <2>1, <2>3 DEF Right, Looked, Brought
  <2> QED BY <2>2, <2>4
<1> QED BY <1>1, <1>2 DEF Owners

(* A command is typed: it has no sandbox yet, or the one it was named. *)
LEMMA TypeKeeps ==
  ASSUME TypeOK, Owners, NEW t \in Terms, Type(t)
  PROVE  Owners' /\ cmd' \in [Terms -> CmdType]
<1>1. UNCHANGED <<ctr, made>>
  BY DEF Type, guest
<1>2. PICK r \in Requests : TypeRun(t, r) \/ TypeCreate(t, r) \/ TypeExec(t, r)
  BY DEF Type
<1>3. r.op \in Ops /\ r.ws \in Workspaces \cup {None} /\ r.clone \in BOOLEAN
      /\ (r.op \in Creating => r.ws \in Workspaces)
  BY SandboxAssumption
<1>4. {"load", "resolve", "reload", "look"} \subseteq Pcs /\ {"reload", "look"} \cap (Early \cup Setup) = {}
      /\ {"load", "resolve"} \subseteq Early
  BY DEF Pcs, Early, Setup
<1>5. ASSUME NEW k \in Kits \cup {None}, NEW pc \in {"load", "resolve"}, pc = "load" => k \in Kits,
             r.op \in Creating,
             cmd' = [cmd EXCEPT ![t] = [Idle EXCEPT !.op = r.op, !.ws = r.ws, !.clone = r.clone,
                                                    !.kit = k, !.pc = pc]]
      PROVE  Owners' /\ cmd' \in [Terms -> CmdType]
  <2> DEFINE y == [Idle EXCEPT !.op = r.op, !.ws = r.ws, !.clone = r.clone, !.kit = k, !.pc = pc]
  <2>1. y \in CmdType
    <3> DEFINE a == [Idle EXCEPT !.op = r.op]
               b == [a EXCEPT !.ws = r.ws, !.clone = r.clone]
    <3>1. a \in CmdType
      <4>1. \A c \in CmdType, op \in Ops : [c EXCEPT !.op = op] \in CmdType
        BY DEF CmdType
      <4>2. Idle \in CmdType /\ r.op \in Ops
        BY <1>3, IdleTyped
      <4> QED BY <4>1, <4>2
    <3>2. y = [b EXCEPT !.kit = k, !.pc = pc]
      OBVIOUS
    <3> HIDE DEF a, y
    <3>3. b \in CmdType
      BY <1>3, <3>1 DEF CmdType
    <3> HIDE DEF b
    <3>4. pc \in Pcs
      BY <1>4, <1>5
    <3>5. [b EXCEPT !.kit = k, !.pc = pc] \in CmdType
      BY <1>5, <3>3, <3>4 DEF CmdType
    <3> QED BY <3>2, <3>5
  <2>2. y.op = r.op /\ y.ws = r.ws /\ y.kit = k /\ y.pc = pc /\ y.id = 0
    BY DEF Idle
  <2>3. cmd' = [cmd EXCEPT ![t] = y]
    BY <1>5
  <2> HIDE DEF y
  <2>4. Knows(y) /\ Right(y)
    BY <1>3, <1>4, <1>5, <2>2 DEF Knows, Right
  <2> QED BY <1>1, <2>1, <2>3, <2>4, BecomesKeeps DEF TypeOK
<1>6. CASE TypeRun(t, r)
  <2>1. PICK k \in Kits \cup {None} :
          cmd' = [cmd EXCEPT ![t] = [Idle EXCEPT
                    !.op = r.op, !.ws = r.ws, !.clone = r.clone, !.kit = k,
                    !.pc = IF k = None THEN "resolve" ELSE "load"]]
    BY <1>6 DEF TypeRun
  <2>2. r.op \in Creating
    BY <1>6 DEF TypeRun, Creating
  <2>3. CASE k = None
    BY <1>5, <2>1, <2>2, <2>3
  <2>4. CASE k # None
    BY <1>5, <2>1, <2>2, <2>4
  <2> QED BY <2>3, <2>4
<1>7. CASE TypeCreate(t, r)
  <2>1. cmd' = [cmd EXCEPT ![t] = [Idle EXCEPT !.op = r.op, !.ws = r.ws, !.clone = r.clone,
                                               !.pc = "resolve"]]
        /\ r.op \in Creating
    BY <1>7 DEF TypeCreate, Creating
  <2>2. \A i \in CmdType : i.kit = None =>
          [i EXCEPT !.op = r.op, !.ws = r.ws, !.clone = r.clone, !.pc = "resolve"]
            = [i EXCEPT !.op = r.op, !.ws = r.ws, !.clone = r.clone, !.kit = None, !.pc = "resolve"]
    BY DEF CmdType
  <2>3. Idle \in CmdType /\ Idle.kit = None
    BY IdleTyped DEF Idle
  <2>5. cmd' = [cmd EXCEPT ![t] = [Idle EXCEPT !.op = r.op, !.ws = r.ws, !.clone = r.clone,
                                               !.kit = None, !.pc = "resolve"]]
    BY <2>1, <2>2, <2>3
  <2>4. None \in Kits \cup {None} /\ "resolve" \in {"load", "resolve"} /\ "resolve" # "load"
    OBVIOUS
  <2> QED BY <1>5, <2>1, <2>4, <2>5
<1>8. CASE TypeExec(t, r)
  <2>1. PICK n \in Names, pc \in {"reload", "look"} :
          cmd' = [cmd EXCEPT ![t] = [Idle EXCEPT !.op = r.op, !.name = n, !.pass = 2, !.pc = pc]]
    BY <1>8 DEF TypeExec
  <2> DEFINE y == [Idle EXCEPT !.op = r.op, !.name = n, !.pass = 2, !.pc = pc]
  <2>2. y \in CmdType
    <3> DEFINE x == [Idle EXCEPT !.op = r.op]
               z == [x EXCEPT !.name = n]
    <3>1. x \in CmdType
      <4>1. \A c \in CmdType, op \in Ops : [c EXCEPT !.op = op] \in CmdType
        BY DEF CmdType
      <4>2. Idle \in CmdType /\ r.op \in Ops
        BY <1>3, IdleTyped
      <4> QED BY <4>1, <4>2
    <3>2. z \in CmdType
      <4> HIDE DEF x
      <4> QED BY <3>1 DEF CmdType
    <3>3. y = [z EXCEPT !.pass = 2, !.pc = pc]
      OBVIOUS
    <3>4. 2 \in {1, 2} /\ pc \in Pcs
      BY DEF Pcs
    <3> HIDE DEF y, z
    <3> QED BY <3>2, <3>3, <3>4 DEF CmdType
  <2>3. y.op = r.op /\ y.name = n /\ y.pc = pc
    BY DEF Idle
  <2>4. cmd' = [cmd EXCEPT ![t] = y] /\ r.op \notin Creating
    BY <1>8, <2>1 DEF TypeExec
  <2> HIDE DEF y
  <2>5. Knows(y) /\ Right(y)
    BY <1>4, <2>3, <2>4 DEF Knows, Right, Early
  <2> QED BY <1>1, <2>2, <2>4, <2>5, BecomesKeeps DEF TypeOK
<1> QED BY <1>2, <1>6, <1>7, <1>8

LEMMA LoadKeeps ==
  ASSUME TypeOK, Owners, NEW t \in Terms, LoadKit(t)
  PROVE  Owners' /\ cmd' \in [Terms -> CmdType]
<1>1. cmd[t] \in CmdType /\ cmd[t].pc = "load" /\ UNCHANGED <<ctr, made>>
  BY DEF TypeOK, LoadKit, At, guest
<1>2. CASE End(t)
  <2>1. Goes(t, {}) /\ {} \subseteq Pcs \ Early /\ {} \cap Setup = {}
    BY <1>2, EndGoes
  <2>2. Owners'
    BY <1>1, <2>1, GoesKeeps
  <2> QED BY <2>1, <2>2 DEF Goes
<1>3. CASE cmd' = [cmd EXCEPT ![t].pc = "resolve", ![t].kit = None]
  <2> DEFINE y == [cmd[t] EXCEPT !.pc = "resolve", !.kit = None]
  <2>1. cmd' = [cmd EXCEPT ![t] = y]
    BY <1>1, <1>3 DEF TypeOK
  <2>2. "resolve" \in Pcs
    BY DEF Pcs
  <2>3. y \in CmdType
    BY <1>1, <2>2 DEF CmdType
  <2>4. y.pc = "resolve" /\ y.op = cmd[t].op /\ y.ws = cmd[t].ws /\ y.id = cmd[t].id
    BY <1>1 DEF CmdType
  <2> HIDE DEF y
  <2>5. Knows(y) /\ Right(y)
    BY <1>1, <2>4 DEF Owners, Knows, Right, Early
  <2> QED BY <1>1, <2>1, <2>3, <2>5, BecomesKeeps DEF TypeOK
<1> QED BY <1>2, <1>3 DEF LoadKit

(* The name that ChooseName gives: of the directory's two names, and of a  *)
(* container of that directory, or of none, if there is one under it.      *)
LEMMA ChosenName ==
  ASSUME TypeOK, Registered, NEW w \in Workspaces
  PROVE  /\ ChooseName(w) \in {DeriveName(w), QualifiedName(w)}
         /\ Find(ChooseName(w)) => ctr[ChooseName(w)].ws \in {None, w}
         /\ ~Find(ChooseName(w)) => \A n \in Names : n[1] = "dir" /\ ctr[n] # None => ctr[n].ws # w
<1>1. DeriveName(w) = <<"dir", None>> /\ QualifiedName(w) \in Names
  BY NameFacts DEF DeriveName
<1>2. ChooseName(w) \in {DeriveName(w), QualifiedName(w)}
  BY DEF ChooseName
<1>3. Find(ChooseName(w)) => ctr[ChooseName(w)].ws \in {None, w}
  BY <1>1 DEF ChooseName, Find, Workspace, Registered
<1>4. ASSUME ~Find(ChooseName(w)), NEW n \in Names, n[1] = "dir", ctr[n] # None
      PROVE  ctr[n].ws # w
  <2>1. ~Find(QualifiedName(w))
    BY <1>4 DEF ChooseName
  <2>2. CASE n = <<"dir", None>>
    BY <1>1, <1>4, <2>1, <2>2 DEF ChooseName, Find, Workspace
  <2>3. ASSUME NEW v \in Workspaces, n = QualifiedName(v)
        PROVE  ctr[n].ws # w
    <3>1. ctr[n].ws = v
      BY <1>4, <2>3 DEF Registered
    <3> QED BY <1>4, <2>1, <2>3, <3>1 DEF Find
  <2> QED BY <1>4, <2>2, <2>3, NameFacts
<1> QED BY <1>2, <1>3, <1>4

LEMMA ResolveKeeps ==
  ASSUME TypeOK, Owners, NEW t \in Terms, Resolve(t)
  PROVE  Owners' /\ cmd' \in [Terms -> CmdType]
<1> DEFINE c == cmd[t]
           n == IF c.op = "runrm" THEN EphemeralName(t) ELSE ChooseName(c.ws)
           exists == c.op # "runrm" /\ Find(n)
           how == IF exists THEN "exists" ELSE "new"
           y == [c EXCEPT !.name = n, !.pc = "ca", !.seen = made, !.how = how]
<1>1. c \in CmdType /\ c.pc = "resolve" /\ UNCHANGED <<ctr, made>>
  BY DEF TypeOK, Resolve, At, guest
<1>2. c.op \in Creating /\ c.ws \in Workspaces
  BY <1>1 DEF Owners, Knows
<1>3. Registered
  BY DEF Owners
<1>4. CASE End(t)
  <2>1. Goes(t, {}) /\ {} \subseteq Pcs \ Early /\ {} \cap Setup = {}
    BY <1>4, EndGoes
  <2>2. Owners'
    BY <1>1, <2>1, GoesKeeps
  <2> QED BY <2>1, <2>2 DEF Goes
<1>5. CASE ~(exists /\ ~CheckFixed(n, c.clone)) /\ cmd' = [cmd EXCEPT ![t] = y]
  <2>1. n \in {DeriveName(c.ws), QualifiedName(c.ws)} \cup Ephemerals
    BY <1>2, <1>3, ChosenName DEF Ephemerals
  <2>2. n \in Names
    BY <1>2, <2>1, NameFacts DEF Ephemerals
  <2>3. c.op # "runrm" /\ ctr[n] # None => exists /\ (c.clone => ctr[n].clone)
    BY <1>5 DEF Find, CheckFixed
  <2>4. ASSUME c.op # "runrm", ~exists, NEW m \in Names, m[1] = "dir", ctr[m] # None
        PROVE  ctr[m].ws # c.ws
    BY <1>2, <1>3, <2>4, ChosenName
  <2>5. "ca" \in Pcs /\ "ca" \notin Early /\ made \in Nat
    BY DEF Pcs, Early, TypeOK
  <2>a. how \in {"exists", "new"} /\ (how = "new" => ~exists)
    OBVIOUS
  <2> HIDE DEF n, exists, how
  <2>6. y \in CmdType
    <3>1. [c EXCEPT !.name = n, !.pc = "ca"] \in CmdType
      BY <1>1, <2>2, <2>5 DEF CmdType
    <3> DEFINE z == [c EXCEPT !.name = n, !.pc = "ca"]
    <3>2. y = [z EXCEPT !.seen = made, !.how = how]
      OBVIOUS
    <3> HIDE DEF y, z
    <3>3. z \in CmdType
      BY <3>1 DEF z
    <3> QED BY <2>5, <2>a, <3>2, <3>3 DEF CmdType
  <2>7. /\ y.pc = "ca" /\ y.name = n /\ y.id = c.id /\ y.op = c.op /\ y.ws = c.ws
        /\ y.clone = c.clone /\ y.seen = made /\ y.how = how
    BY <1>1 DEF CmdType
  <2> HIDE DEF y
  <2>b. c.id = 0
    BY <1>1 DEF Owners, Knows, Early
  <2>8. Knows(y)
    BY <1>2, <2>2, <2>5, <2>7 DEF Knows
  <2>c. Looked(y)
    BY <2>3, <2>4, <2>7, <2>a, <2>b DEF Looked
  <2>9. Right(y)
    BY <2>1, <2>5, <2>7, <2>b, <2>c DEF Right
  <2> QED BY <1>1, <1>5, <2>6, <2>8, <2>9, BecomesKeeps DEF TypeOK
<1>6. \/ End(t)
      \/ /\ ~(exists /\ ~CheckFixed(n, c.clone))
         /\ cmd' = [cmd EXCEPT ![t].name = n, ![t].pc = "ca", ![t].seen = made, ![t].how = how]
  BY DEF Resolve
<1>7. [cmd EXCEPT ![t].name = n, ![t].pc = "ca", ![t].seen = made, ![t].how = how]
        = [cmd EXCEPT ![t] = y]
  BY DEF TypeOK
<1> QED BY <1>4, <1>5, <1>6, <1>7

(* The authority, and whether the sandbox is there. *)
LEMMA SetupKeeps ==
  ASSUME TypeOK, Owners, NEW t \in Terms,
         CaOpen(t) \/ CaWriteKey(t) \/ CaWriteCert(t) \/ (Ensure(t) /\ Goto(t, "image"))
  PROVE  Owners' /\ cmd' \in [Terms -> CmdType]
<1>1. cmd[t].pc \in Setup /\ cmd[t].pc \notin Early /\ UNCHANGED <<ctr, made>>
  BY DEF CaOpen, CaWriteKey, CaWriteCert, Ensure, At, Setup, Early, guest
<1>2. \/ End(t)
      \/ \E pc \in {"caKey", "caCert", "ensure", "image"} : Goto(t, pc)
  BY DEF CaOpen, CaWriteKey, CaWriteCert, Ensure
<1>3. {"caKey", "caCert", "ensure", "image"} \subseteq Pcs \ Early
  BY DEF Pcs, Early
<1>4. Goes(t, {"caKey", "caCert", "ensure", "image"})
  <2>1. CASE End(t)
    BY <2>1, EndGoes, GoesWider
  <2>2. ASSUME NEW pc \in {"caKey", "caCert", "ensure", "image"}, Goto(t, pc)
        PROVE  Goes(t, {"caKey", "caCert", "ensure", "image"})
    <3>1. Goes(t, {pc})
      BY <1>1, <1>3, <2>2, GotoGoes
    <3> QED BY <3>1, GoesWider
  <2> QED BY <1>2, <2>1, <2>2
<1>5. Owners'
  BY <1>1, <1>3, <1>4, GoesKeeps
<1> QED BY <1>4, <1>5 DEF Goes

(* The sandbox is there, whosever it is. *)
LEMMA EnsureKeeps ==
  ASSUME TypeOK, Owners, NEW t \in Terms, Ensure(t)
  PROVE  Owners' /\ cmd' \in [Terms -> CmdType]
<1> DEFINE c == cmd[t]
           n == c.name
           warned == Mismatch(t)
           y == [c EXCEPT !.pc = "start", !.id = ctr[n].id, !.warned = warned]
<1>1. c \in CmdType /\ c.pc = "ensure" /\ UNCHANGED <<ctr, made>>
  BY DEF TypeOK, Ensure, At, guest
<1>2. "ensure" \notin Early /\ "ensure" \in Setup
      /\ "start" \in Pcs /\ "start" \notin Early \cup Setup /\ "start" # "load"
  BY DEF Early, Setup, Pcs
<1>3. CASE Goto(t, "image")
  BY <1>3, SetupKeeps
<1>4. CASE Find(n) /\ c.op = "run" /\ cmd' = [cmd EXCEPT ![t] = y]
  <2>1. Knows(c) /\ Right(c) /\ n \in Names /\ c.op \in Creating /\ c.ws \in Workspaces
    BY <1>1, <1>2 DEF Owners, Knows
  <2>2. ctr[n] \in CtrType /\ ctr[n].id <= made /\ ctr[n].id \in Nat /\ warned \in BOOLEAN
    BY <1>4, <2>1 DEF Find, TypeOK, CtrType, Owners, Registered, Mismatch
  <2>3. Looked(c)
    BY <1>1, <1>2, <2>1 DEF Right
  <2>4. warned \/ ctr[n].ws \in {None, c.ws}
    BY DEF Mismatch, Workspace, Name
  <2> HIDE DEF warned
  <2>5. y \in CmdType
    BY <1>1, <1>2, <2>2 DEF CmdType
  <2>6. /\ y.pc = "start" /\ y.id = ctr[n].id /\ y.warned = warned /\ y.op = c.op /\ y.ws = c.ws
        /\ y.name = n /\ y.clone = c.clone /\ y.seen = c.seen /\ y.how = c.how
    BY <1>1 DEF CmdType
  <2> HIDE DEF y
  <2>7. Knows(y)
    BY <1>2, <2>1, <2>6 DEF Knows
  <2>8. c.op # "runrm"
    BY <1>4
  <2>9. Brought(y, ctr[n])
    BY <1>4, <2>3, <2>4, <2>6, <2>8 DEF Brought, Looked, Find
  <2>10. Right(y)
    BY <1>1, <1>2, <2>1, <2>2, <2>6, <2>9 DEF Right
  <2> QED BY <1>1, <1>4, <2>5, <2>7, <2>10, BecomesKeeps DEF TypeOK
<1>5. \/ Goto(t, "image")
      \/ /\ Find(n) /\ c.op = "run"
         /\ cmd' = [cmd EXCEPT ![t].pc = "start", ![t].id = ctr[n].id, ![t].warned = warned]
  BY DEF Ensure, Name
<1>6. [cmd EXCEPT ![t].pc = "start", ![t].id = ctr[n].id, ![t].warned = warned]
        = [cmd EXCEPT ![t] = y]
  BY DEF TypeOK
<1> QED BY <1>3, <1>4, <1>5, <1>6

LEMMA ImageKeeps ==
  ASSUME TypeOK, Owners, NEW t \in Terms, EnsureImage(t)
  PROVE  Owners' /\ cmd' \in [Terms -> CmdType]
<1>1. cmd[t] \in CmdType /\ cmd[t].pc = "image" /\ UNCHANGED <<ctr, made>>
  BY DEF TypeOK, EnsureImage, At, guest
<1>2. PICK m \in Machines \cup {None} : cmd' = [cmd EXCEPT ![t].pc = "create", ![t].img = m]
  BY DEF EnsureImage
<1> DEFINE y == [cmd[t] EXCEPT !.pc = "create", !.img = m]
<1>3. cmd' = [cmd EXCEPT ![t] = y]
  BY <1>2 DEF TypeOK
<1>4. "create" \in Pcs /\ "create" \notin Early /\ "image" \notin Early /\ "image" \in Setup
      /\ "create" # "load"
  BY DEF Pcs, Early, Setup
<1>5. y \in CmdType
  BY <1>1, <1>4 DEF CmdType
<1>6. /\ y.pc = "create" /\ y.op = cmd[t].op /\ y.ws = cmd[t].ws /\ y.id = cmd[t].id
      /\ y.name = cmd[t].name /\ y.clone = cmd[t].clone /\ y.seen = cmd[t].seen
      /\ y.how = cmd[t].how /\ y.warned = cmd[t].warned
  BY <1>1 DEF CmdType
<1> HIDE DEF y
<1>7. Knows(cmd[t]) /\ Right(cmd[t])
  BY DEF Owners
<1>8. Knows(y) /\ Right(y)
  BY <1>1, <1>4, <1>6, <1>7 DEF Knows, Right, Looked, Brought
<1> QED BY <1>1, <1>3, <1>5, <1>8, BecomesKeeps DEF TypeOK

(* A container is registered for the directory and on the clone that its   *)
(* command asked for, with a number no command knows.                      *)
LEMMA CreateKeeps ==
  ASSUME TypeOK, Owners, NEW t \in Terms, Create(t)
  PROVE  /\ Owners' /\ cmd' \in [Terms -> CmdType]
         /\ ctr' \in [Names -> CtrType \cup {None}] /\ made' \in Nat
<1> DEFINE c == cmd[t]
           n == c.name
           new == NewContainer(t)
           how == IF c.how = "new" THEN "made" ELSE "remade"
           pc == IF c.op = "runrm" /\ ~c.clone THEN "newTask" ELSE "start"
           y == [c EXCEPT !.id = made + 1, !.how = how, !.pc = pc]
<1>1. c \in CmdType /\ c.pc = "create" /\ "create" \notin Early /\ made \in Nat
      /\ "create" \in Setup
  BY DEF TypeOK, Create, At, Early, Setup
<1>2. c.op \in Creating /\ c.ws \in Workspaces /\ n \in Names
      /\ n \in {DeriveName(c.ws), QualifiedName(c.ws)} \cup Ephemerals
      /\ c.seen \in Nat /\ c.seen <= made /\ c.how \in {"new", "exists"}
  BY <1>1 DEF Owners, Knows, Right, Looked, CmdType
<1>3. CASE End(t) /\ UNCHANGED <<ctr, made>>
  <2>1. Goes(t, {}) /\ {} \subseteq Pcs \ Early /\ {} \cap Setup = {}
    BY <1>3, EndGoes
  <2>2. Owners'
    BY <1>3, <2>1, GoesKeeps
  <2> QED BY <1>3, <2>1, <2>2 DEF Goes, TypeOK
<1>4. CASE /\ ctr' = [ctr EXCEPT ![n] = new] /\ made' = made + 1 /\ ~Find(n)
           /\ End(t) \/ cmd' = [cmd EXCEPT ![t] = y]
  <2> DEFINE own == c.clone /\ c.how = "new"
  <2>a. new = [ws |-> c.ws, clone |-> own, id |-> made + 1]
    BY DEF NewContainer
  <2>b. own \in BOOLEAN /\ made + 1 \in Nat \ {0}
    BY <1>1
  <2>c. how \in {"made", "remade"} /\ (how = "made" => (c.clone => own))
    OBVIOUS
  <2> HIDE DEF own, new
  <2>1. /\ new.ws = c.ws /\ new.id = made + 1 /\ new.clone = own /\ new \in CtrType
    BY <1>2, <2>a, <2>b DEF CtrType
  <2>2. "newTask" \in Pcs \ (Early \cup Setup) /\ "start" \in Pcs \ (Early \cup Setup)
        /\ "newTask" # "load" /\ "start" # "load"
    BY DEF Pcs, Early, Setup
  <2>4. pc \in {"newTask", "start"}
    OBVIOUS
  <2> HIDE DEF how, pc, new
  <2>5. /\ y \in CmdType /\ y.pc = pc /\ y.id = made + 1 /\ y.op = c.op /\ y.ws = c.ws
        /\ y.name = n /\ y.clone = c.clone /\ y.seen = c.seen /\ y.how = how
    <3> DEFINE z == [c EXCEPT !.id = made + 1, !.how = how]
    <3>a. z \in CmdType
      BY <1>1, <2>b, <2>c DEF CmdType
    <3>b. z.id = made + 1 /\ z.how = how
      BY <1>1 DEF CmdType
    <3>c. /\ z.op = c.op /\ z.ws = c.ws /\ z.name = n
          /\ z.clone = c.clone /\ z.seen = c.seen
      BY <1>1 DEF CmdType
    <3>1. z \in CmdType /\ z.id = made + 1 /\ z.op = c.op /\ z.ws = c.ws /\ z.name = n
          /\ z.clone = c.clone /\ z.seen = c.seen /\ z.how = how
      BY <3>a, <3>b, <3>c
    <3>2. y = [z EXCEPT !.pc = pc]
      OBVIOUS
    <3> HIDE DEF z, y
    <3> QED BY <2>2, <2>4, <3>1, <3>2 DEF CmdType
  <2> HIDE DEF y
  <2>6. ctr' \in [Names -> CtrType \cup {None}] /\ ctr'[n] = new
        /\ \A m \in Names : m # n => ctr'[m] = ctr[m]
    BY <1>2, <1>4, <2>1 DEF TypeOK
  <2>7. Registered'
    <3>1. ASSUME NEW w \in Workspaces, n = QualifiedName(w)
          PROVE  w = c.ws
      BY <1>2, <3>1, NameFacts
    <3>2. ASSUME NEW m \in Names, ctr'[m] # None, m # n
          PROVE  ctr'[m] = ctr[m] /\ ctr[m].id \in Nat /\ ctr[m].id <= made
      BY <2>6, <3>2 DEF Owners, Registered, TypeOK, CtrType
    <3> QED BY <1>1, <1>4, <2>1, <2>6, <3>1, <3>2 DEF Owners, Registered
  <2>8. cmd' \in [Terms -> CmdType] /\ (cmd'[t] = Idle \/ cmd'[t] = y)
        /\ \A s \in Terms \ {t} : cmd'[s] = cmd[s]
    BY <1>4, <2>5, IdleTyped DEF End, TypeOK
  <2>9. Knows(Idle) /\ Right(Idle)'
    BY DEF Knows, Right, Idle, Early, Setup, Creating
  <2>10. Knows(y)
    BY <1>1, <1>2, <2>2, <2>4, <2>5 DEF Knows
  <2>11. y.pc \notin Early \cup Setup /\ y.id <= made + 1 /\ y.seen <= made + 1
    BY <1>1, <1>2, <2>2, <2>4, <2>5
  <2>12. Brought(y, ctr'[n])
    <3>1. ~(y.id <= y.seen)
      BY <1>1, <1>2, <2>5
    <3> QED BY <2>1, <2>5, <2>6, <2>c, <3>1 DEF Brought
  <2>13. ASSUME NEW s \in Terms \ {t}
         PROVE  Knows(cmd'[s]) /\ Right(cmd[s])'
    <3>1. Knows(cmd[s]) /\ Right(cmd[s]) /\ cmd'[s] = cmd[s]
      BY <2>8 DEF Owners
    <3>2. CASE cmd[s].op \in Creating /\ cmd[s].pc \notin Early
      <4>1. /\ cmd[s].name \in Names /\ cmd[s].id <= made /\ cmd[s].id \in Nat
            /\ cmd[s].seen <= made /\ cmd[s].seen \in Nat
        BY <3>1, <3>2 DEF Knows, Right, TypeOK, CmdType
      <4>2. cmd[s].id <= made + 1 /\ cmd[s].seen <= made + 1 /\ ~(made + 1 <= cmd[s].seen)
            /\ made + 1 > cmd[s].seen /\ made + 1 # cmd[s].id
        BY <1>1, <4>1
      <4>3. \A m \in Names :
              ctr'[m] = ctr[m] \/ (ctr'[m] = new /\ ctr'[m].id = made + 1)
        BY <2>1, <2>6
      <4>4. Looked(cmd[s]) => Looked(cmd[s])'
        BY <3>1, <4>1, <4>2, <4>3 DEF Looked
      <4>5. /\ cmd[s].id # 0 /\ ctr'[cmd[s].name] # None /\ ctr'[cmd[s].name].id = cmd[s].id
               => Brought(cmd[s], ctr'[cmd[s].name])
        BY <3>1, <3>2, <4>1, <4>2, <4>3 DEF Right
      <4> QED BY <1>4, <3>1, <3>2, <4>2, <4>4, <4>5 DEF Right, Brought
    <3>3. CASE ~(cmd[s].op \in Creating /\ cmd[s].pc \notin Early)
      BY <3>1, <3>3 DEF Right
    <3> QED BY <3>1, <3>2, <3>3
  <2>14. Knows(cmd'[t]) /\ Right(cmd[t])'
    <3>1. CASE cmd'[t] = Idle
      BY <2>9, <3>1 DEF Right
    <3>2. CASE cmd'[t] = y
      <4>1. Right(cmd[t])'
        BY <1>2, <1>4, <2>5, <2>11, <2>12, <3>2 DEF Right, Brought
      <4> QED BY <2>10, <3>2, <4>1
    <3> QED BY <2>8, <3>1, <3>2
  <2>15. \A s \in Terms : Knows(cmd'[s]) /\ Right(cmd[s])'
    BY <2>13, <2>14
  <2> QED BY <1>1, <1>4, <2>6, <2>7, <2>8, <2>15 DEF Owners
<1>5. \/ End(t) /\ UNCHANGED <<ctr, made>>
      \/ /\ ctr' = [ctr EXCEPT ![n] = new] /\ made' = made + 1 /\ ~Find(n)
         /\ \/ End(t)
            \/ cmd' = [cmd EXCEPT ![t].id = made + 1,
                         ![t].how = IF @ = "new" THEN "made" ELSE "remade", ![t].pc = pc]
  BY DEF Create, Name
<1>6. [cmd EXCEPT ![t].id = made + 1, ![t].how = IF @ = "new" THEN "made" ELSE "remade",
                  ![t].pc = pc] = [cmd EXCEPT ![t] = y]
  BY DEF TypeOK
<1> QED BY <1>3, <1>4, <1>5, <1>6

---------------------------------------------------------------------------
(* The clone scripts.  One runs in a guest that is up and for a command    *)
(* that waits for it there; a half clone without one was cut short.        *)
Tasks == {"none", "created", "running", "deaf", "stopped"}

GuestTyped ==
  /\ task \in [Names -> Tasks]
  /\ repo \in [Names -> {"none", "partial", "done"}]
  /\ script \in [Names -> Terms \cup {None}]
  /\ cut \subseteq Names

Scripts ==
  \A n \in Names :
    /\ script[n] # None => Up(n) /\ At(script[n], "cloning") /\ Name(script[n]) = n
    /\ repo[n] = "partial" => n \in cut \/ script[n] # None

Guests == GuestTyped /\ Scripts

(* Only the command of t changed. *)
Alone(t) == \A s \in Terms \ {t} : cmd'[s] = cmd[s]

LEMMA NotCloning ==
  ASSUME Guests, NEW t \in Terms, ~At(t, "cloning")
  PROVE  \A n \in Names : script[n] # t
BY SandboxAssumption DEF Guests, Scripts

(* A step that leaves the clones, and what is up, as they are. *)
LEMMA ClonesKept ==
  ASSUME Guests, NEW t \in Terms, Alone(t), \A n \in Names : script[n] # t,
         UNCHANGED clones, task' \in [Names -> Tasks], \A n \in Names : Up(n) => Up(n)'
  PROVE  Guests'
<1>1. ASSUME NEW n \in Names, script[n] # None
      PROVE  At(script[n], "cloning")' /\ Name(script[n])' = n
  <2>1. script[n] \in Terms \ {t} /\ At(script[n], "cloning") /\ Name(script[n]) = n
        /\ script'[n] = script[n]
    BY <1>1 DEF Guests, GuestTyped, Scripts, clones
  <2> QED BY <2>1 DEF Alone, At, Name
<1> QED BY <1>1 DEF Guests, GuestTyped, Scripts, clones

(* A task ends and takes a script with it. *)
LEMMA TaskEnded ==
  ASSUME Guests, NEW t \in Terms, Alone(t), \A n \in Names : script[n] # t,
         NEW m \in Names, EndTask(m), UNCHANGED repo
  PROVE  Guests'
<1>1. /\ task' \in [Names -> Tasks] /\ script' \in [Names -> Terms \cup {None}]
      /\ script'[m] = None /\ \A n \in Names : n # m => task'[n] = task[n] /\ script'[n] = script[n]
  BY DEF EndTask, Guests, GuestTyped, Tasks
<1>2. cut \subseteq cut' /\ cut' \subseteq Names /\ (script[m] # None => m \in cut')
  BY DEF EndTask, Guests, GuestTyped
<1>3. ASSUME NEW n \in Names, script'[n] # None
      PROVE  Up(n)' /\ At(script[n], "cloning")' /\ Name(script[n])' = n
  <2>1. script[n] \in Terms \ {t} /\ n # m /\ Up(n) /\ At(script[n], "cloning")
        /\ Name(script[n]) = n /\ script'[n] = script[n]
    BY <1>1, <1>3 DEF Guests, GuestTyped, Scripts
  <2> QED BY <1>1, <2>1 DEF Alone, At, Name, Up
<1>4. ASSUME NEW n \in Names, repo[n] = "partial"
      PROVE  n \in cut' \/ script'[n] # None
  BY <1>1, <1>2, <1>4 DEF Guests, Scripts
<1> QED BY <1>1, <1>2, <1>3, <1>4 DEF Guests, GuestTyped, Scripts

(* A script ends, and what it leaves half made counts as cut short. *)
LEMMA ScriptEnded ==
  ASSUME Guests, NEW t \in Terms, Alone(t), NEW left \in {"none", "partial", "done"},
         Name(t) \in Names, ScriptEnds(t, left), UNCHANGED task, cut' \subseteq Names, cut \subseteq cut',
         left = "partial" => Name(t) \in cut'
  PROVE  Guests'
<1> DEFINE m == Name(t)
<1>1. /\ script' \in [Names -> Terms \cup {None}] /\ script'[m] = None /\ script[m] = t
      /\ repo' \in [Names -> {"none", "partial", "done"}] /\ repo'[m] = left
      /\ \A n \in Names : n # m => repo'[n] = repo[n] /\ script'[n] = script[n]
  BY DEF ScriptEnds, Guests, GuestTyped
<1>2. ASSUME NEW n \in Names, script'[n] # None
      PROVE  Up(n)' /\ At(script[n], "cloning")' /\ Name(script[n])' = n
  <2>1. script[n] \in Terms /\ n # m /\ Up(n) /\ At(script[n], "cloning")
        /\ Name(script[n]) = n /\ script'[n] = script[n]
    BY <1>1, <1>2 DEF Guests, GuestTyped, Scripts
  <2>2. script[n] # t
    BY <2>1
  <2> QED BY <2>1, <2>2 DEF Alone, At, Name, Up
<1>3. ASSUME NEW n \in Names, repo'[n] = "partial"
      PROVE  n \in cut' \/ script'[n] # None
  BY <1>1, <1>3 DEF Guests, Scripts
<1> QED BY <1>1, <1>2, <1>3 DEF Guests, GuestTyped, Scripts

(* A container is deleted, with no task and so no script in it. *)
LEMMA ContainerDeleted ==
  ASSUME Guests, NEW t \in Terms, Alone(t), \A n \in Names : script[n] # t,
         NEW m \in Names, task[m] = "none", DeleteContainer(m), UNCHANGED task
  PROVE  Guests'
<1>1. /\ repo' \in [Names -> {"none", "partial", "done"}] /\ repo'[m] = "none"
      /\ \A n \in Names : n # m => repo'[n] = repo[n]
      /\ cut' = cut \ {m} /\ script' = script
  BY DEF DeleteContainer, Guests, GuestTyped
<1>2. ASSUME NEW n \in Names, script[n] # None
      PROVE  Up(n)' /\ At(script[n], "cloning")' /\ Name(script[n])' = n
  <2>1. script[n] \in Terms \ {t} /\ Up(n) /\ At(script[n], "cloning") /\ Name(script[n]) = n
    BY <1>2 DEF Guests, GuestTyped, Scripts
  <2> QED BY <1>1, <2>1 DEF Alone, At, Name, Up
<1>3. ASSUME NEW n \in Names, repo'[n] = "partial"
      PROVE  n \in cut' \/ script'[n] # None
  BY <1>1, <1>3 DEF Guests, Scripts
<1>4. GuestTyped'
  BY <1>1 DEF Guests, GuestTyped
<1> QED BY <1>1, <1>2, <1>3, <1>4 DEF Guests, Scripts

(* A command sends its script into the guest. *)
LEMMA EnsureCloneGuests ==
  ASSUME TypeOK, Owners, Guests, NEW t \in Terms, EnsureClone(t), Alone(t)
  PROVE  Guests'
<1> DEFINE m == Name(t)
<1>1. cmd[t].pc = "up" /\ m \in Names /\ UNCHANGED <<task, cut>> /\ cmd[t] \in CmdType
  BY DEF EnsureClone, At, Owners, Knows, Early, Name, TypeOK
<1>2. \A n \in Names : script[n] # t
  BY <1>1, NotCloning DEF At
<1>3. CASE UNCHANGED <<repo, script>>
  BY <1>1, <1>2, <1>3, ClonesKept DEF Guests, GuestTyped, clones, Up
<1>4. CASE /\ repo[m] = "none" /\ Up(m)
           /\ repo' = [repo EXCEPT ![m] = "partial"]
           /\ script' = [script EXCEPT ![m] = t]
           /\ Goto(t, "cloning")
  <2>1. /\ script' \in [Names -> Terms \cup {None}] /\ script'[m] = t
        /\ repo' \in [Names -> {"none", "partial", "done"}]
        /\ \A n \in Names : n # m => repo'[n] = repo[n] /\ script'[n] = script[n]
    BY <1>1, <1>4 DEF Guests, GuestTyped
  <2>2. At(t, "cloning")' /\ Name(t)' = m
    BY <1>1, <1>4 DEF Goto, At, Name, TypeOK, CmdType
  <2>3. ASSUME NEW n \in Names, script'[n] # None
        PROVE  Up(n)' /\ At(script[n], "cloning")' /\ Name(script[n])' = n
    <3>1. CASE n = m
      BY <1>1, <1>4, <2>1, <2>2, <3>1 DEF Up, At, Name
    <3>2. CASE n # m
      <4>1. script[n] \in Terms \ {t} /\ Up(n) /\ At(script[n], "cloning") /\ Name(script[n]) = n
            /\ script'[n] = script[n]
        BY <1>2, <2>1, <2>3, <3>2 DEF Guests, GuestTyped, Scripts
      <4> QED BY <1>1, <4>1 DEF Alone, At, Name, Up
    <3> QED BY <3>1, <3>2
  <2>4. ASSUME NEW n \in Names, repo'[n] = "partial"
        PROVE  n \in cut' \/ script'[n] # None
    BY <1>1, <2>1, <2>4, SandboxAssumption DEF Guests, Scripts
  <2>5. GuestTyped'
    BY <1>1, <2>1 DEF Guests, GuestTyped
  <2> QED BY <2>3, <2>4, <2>5 DEF Guests, Scripts
<1> QED BY <1>3, <1>4 DEF EnsureClone

(* A script that ends, of itself or by a signal. *)
LEMMA ScriptGuests ==
  ASSUME TypeOK, Owners, Guests, NEW t \in Terms,
         Cloned(t) \/ CloneFails(t) \/ Interrupt(t) \/ Killed(t), Alone(t)
  PROVE  Guests'
<1>1. At(t, "cloning") => Name(t) \in Names
  BY DEF At, Owners, Knows, Early, Name
<1>2. UNCHANGED task
  BY DEF Cloned, CloneFails, Interrupt, Killed
<1>3. CASE ~At(t, "cloning") /\ UNCHANGED clones
  BY <1>2, <1>3, NotCloning, ClonesKept DEF Guests, GuestTyped, Up
<1>4. CASE At(t, "cloning") /\ script[Name(t)] # t /\ UNCHANGED clones
  <2>1. \A n \in Names : script[n] # t
    BY <1>4, SandboxAssumption DEF Guests, Scripts
  <2> QED BY <1>2, <1>4, <2>1, ClonesKept DEF Guests, GuestTyped, Up
<1>5. ASSUME NEW left \in {"none", "partial", "done"}, ScriptEnds(t, left),
             cut' = cut \/ cut' = cut \cup {Name(t)}, left = "partial" => Name(t) \in cut'
      PROVE  Guests'
  <2>1. Name(t) \in Names /\ cut' \subseteq Names /\ cut \subseteq cut'
    BY <1>1, <1>5 DEF ScriptEnds, Guests, GuestTyped
  <2> QED BY <1>2, <1>5, <2>1, ScriptEnded
<1>6. CASE Cloned(t)
  BY <1>5, <1>6 DEF Cloned
<1>7. CASE CloneFails(t)
  BY <1>5, <1>7 DEF CloneFails
<1>8. CASE Interrupt(t)
  <2>1. \/ ~At(t, "cloning") /\ UNCHANGED clones
        \/ ScriptEnds(t, "partial") /\ cut' = cut \cup {Name(t)}
    BY <1>8 DEF Interrupt, At
  <2> QED BY <1>3, <1>5, <2>1
<1>9. CASE Killed(t)
  <2>1. \/ ~(At(t, "cloning") /\ script[Name(t)] = t) /\ UNCHANGED clones
        \/ \E left \in {"none", "partial", "done"} :
             /\ ScriptEnds(t, left)
             /\ cut' = IF left = "partial" THEN cut \cup {Name(t)} ELSE cut
    BY <1>9 DEF Killed
  <2> QED BY <1>3, <1>4, <1>5, <2>1
<1> QED BY <1>6, <1>7, <1>8, <1>9

(* The steps that end a task. *)
LEMMA TaskGuests ==
  ASSUME TypeOK, Owners, Guests, NEW t \in Terms, Undo(t) \/ ProcessEnds(t) \/ Term(t), Alone(t)
  PROVE  Guests'
<1>1. cmd[t].pc \in {"undo", "proc", "term"}
  BY DEF Undo, ProcessEnds, Term, At
<1>2. Name(t) \in Names /\ \A n \in Names : script[n] # t
  BY <1>1, NotCloning DEF At, Owners, Knows, Early, Name
<1>3. UNCHANGED repo /\ (EndTask(Name(t)) \/ UNCHANGED <<task, script, cut>>)
  BY DEF Undo, ProcessEnds, Term
<1>4. CASE EndTask(Name(t))
  BY <1>2, <1>3, <1>4, TaskEnded
<1>5. CASE UNCHANGED <<task, script, cut>>
  BY <1>2, <1>3, <1>5, ClonesKept DEF Guests, GuestTyped, clones, Up
<1> QED BY <1>3, <1>4, <1>5

(* The steps that start a task, or delete one that has stopped. *)
LEMMA StartGuests ==
  ASSUME TypeOK, Owners, Guests, NEW t \in Terms, Alone(t),
         Clear(t) \/ NewTask(t) \/ Start(t) \/ UndoDelete(t) \/ TermDelete(t) \/ Deafens(t)
  PROVE  Guests'
<1>1. cmd[t].pc \in {"clear", "newTask", "startCreated", "startNew", "undoDelete", "termDelete", "proc"}
  BY DEF Clear, NewTask, Start, UndoDelete, TermDelete, Deafens, At
<1>2. Name(t) \in Names /\ \A n \in Names : script[n] # t
  BY <1>1, NotCloning DEF At, Owners, Knows, Early, Name
<1>3. UNCHANGED clones
  BY DEF Clear, NewTask, Start, UndoDelete, TermDelete, Deafens, clones
<1>4. ASSUME NEW x \in Tasks, task' = [task EXCEPT ![Name(t)] = x],
             Up(Name(t)) => x \in {"running", "deaf"}
      PROVE  Guests'
  <2>1. /\ task' \in [Names -> Tasks] /\ task'[Name(t)] = x
        /\ \A n \in Names : n # Name(t) => task'[n] = task[n]
    BY <1>2, <1>4 DEF Guests, GuestTyped
  <2>2. \A n \in Names : Up(n) => Up(n)'
    BY <1>4, <2>1 DEF Up
  <2> QED BY <1>2, <1>3, <2>1, <2>2, ClonesKept
<1>5. CASE UNCHANGED task
  BY <1>2, <1>3, <1>5, ClonesKept DEF Guests, GuestTyped, Up
<1>6. {"none", "created", "running", "deaf", "stopped"} \subseteq Tasks
  BY DEF Tasks
<1>7. CASE Clear(t)
  BY <1>4, <1>5, <1>6, <1>7 DEF Clear, Up
<1>8. CASE NewTask(t)
  BY <1>4, <1>5, <1>6, <1>8 DEF NewTask, Up
<1>9. CASE Start(t)
  BY <1>4, <1>5, <1>6, <1>9 DEF Start, Up
<1>10. CASE UndoDelete(t)
  <2>1. CASE task[Name(t)] = "stopped"
    <3>1. task' = [task EXCEPT ![Name(t)] = "none"]
      BY <1>10, <2>1 DEF UndoDelete, Guests, GuestTyped
    <3> QED BY <1>4, <1>6, <2>1, <3>1 DEF Up
  <2>2. CASE task[Name(t)] # "stopped"
    BY <1>5, <1>10, <2>2 DEF UndoDelete, Guests, GuestTyped
  <2> QED BY <2>1, <2>2
<1>11. CASE TermDelete(t)
  BY <1>4, <1>5, <1>6, <1>11 DEF TermDelete, Up
<1>12. CASE Deafens(t)
  BY <1>4, <1>6, <1>12 DEF Deafens
<1> QED BY <1>7, <1>8, <1>9, <1>10, <1>11, <1>12

(* The steps that delete a container. *)
LEMMA DeleteGuests ==
  ASSUME TypeOK, Owners, Guests, NEW t \in Terms, Alone(t), RemoveEphemeral(t) \/ RmDelete(t)
  PROVE  Guests'
<1>1. cmd[t].pc \in {"remove", "rmDelete"} /\ UNCHANGED task
  BY DEF RemoveEphemeral, RmDelete, At
<1>2. Name(t) \in Names /\ \A n \in Names : script[n] # t
  BY <1>1, NotCloning DEF At, Owners, Knows, Early, Name
<1>3. (CanDelete(Name(t)) /\ DeleteContainer(Name(t))) \/ UNCHANGED clones
  BY DEF RemoveEphemeral, RmDelete
<1>4. CASE CanDelete(Name(t)) /\ DeleteContainer(Name(t))
  BY <1>1, <1>2, <1>4, ContainerDeleted DEF CanDelete
<1>5. CASE UNCHANGED clones
  BY <1>1, <1>2, <1>5, ClonesKept DEF Guests, GuestTyped, Up
<1> QED BY <1>3, <1>4, <1>5

(* The steps that change nothing in a guest. *)
LEMMA OtherGuests ==
  ASSUME TypeOK, Guests, NEW t \in Terms, Alone(t),
         \/ Loud(t) \/ Reload(t) \/ StartTask(t) \/ CloneCut(t) \/ Exec(t) \/ Told(t) \/ Look(t)
  PROVE  Guests'
<1>1. UNCHANGED <<task, clones>>
  BY DEF Loud, Type, LoadKit, Resolve, CaOpen, CaWriteKey, CaWriteCert, Ensure, EnsureImage,
         Create, Reload, StartTask, CloneCut, Exec, Told, Look, guest
<1>2. \A n \in Names : script[n] # t
  <2>1. CASE CloneCut(t)
    BY <2>1, SandboxAssumption DEF CloneCut, Guests, Scripts
  <2>2. CASE ~CloneCut(t)
    <3>1. ~At(t, "cloning")
      BY <2>2 DEF Loud, Type, LoadKit, Resolve, CaOpen, CaWriteKey, CaWriteCert, Ensure,
                  EnsureImage, Create, Reload, StartTask, Exec, Told, Look, At
    <3> QED BY <3>1, NotCloning
  <2> QED BY <2>1, <2>2
<1> QED BY <1>1, <1>2, ClonesKept DEF Guests, GuestTyped, Up

(* Every step keeps the types and the scripts of the guests. *)
LEMMA GuestsKept ==
  ASSUME TypeOK, Owners, Guests, NEW t \in Terms, Alone(t),
         \/ Type(t) \/ Step(t) \/ CloneFails(t) \/ ProcessEnds(t)
         \/ Interrupt(t) \/ Killed(t) \/ Deafens(t)
  PROVE  Guests'
BY EnsureCloneGuests, ScriptGuests, TaskGuests, StartGuests, DeleteGuests, OtherGuests
   DEF Step, Loud

---------------------------------------------------------------------------
(* The task of an ephemeral sandbox.  A task has a container; and where no *)
(* other command changed it, a run without a clone that failed leaves none *)
(* or one that was created and never started.                              *)
Held == \A n \in Names : ctr[n] = None => task[n] = "none"

Ways == Early \cup Setup \cup {"newTask", "startNew", "proc", "undo", "undoDelete", "remove", "told"}

Path(c) ==
  /\ c.err # "" => c.pc \in {"undo", "undoDelete", "remove"}
  /\ c.pc = "remove" => c.op = "runrm"
  /\ c.op = "runrm" /\ ~c.clone => c.pc \in Ways

Named(t) ==
  cmd[t].op \in Creating /\ cmd[t].pc \notin Early =>
    IF cmd[t].op = "runrm" THEN Name(t) = EphemeralName(t) ELSE Name(t)[1] = "dir"

Rests(c) ==
  c.op = "runrm" /\ ~c.clone /\ c.name \notin lent =>
    /\ c.pc = "newTask" => task[c.name] = "none"
    /\ c.pc = "startNew" => task[c.name] = "created"
    /\ c.err # "" =>
         /\ c.pc \in {"undo", "undoDelete"} => task[c.name] \in {"none", "created", "stopped"}
         /\ c.pc = "remove" => task[c.name] \in {"none", "created"}

Loans == Held /\ \A t \in Terms : Path(cmd[t]) /\ Named(t) /\ Rests(cmd[t])

(* Of the names of ephemeral sandboxes, no terminal's is another's. *)
LEMMA EphemeralFacts ==
  /\ \A s, t \in Terms : EphemeralName(s) = EphemeralName(t) => s = t
  /\ \A t \in Terms : EphemeralName(t)[1] = "rm" /\ EphemeralName(t) \in Names
  /\ \A w \in Workspaces : DeriveName(w)[1] = "dir" /\ QualifiedName(w)[1] = "dir"
BY NameFacts DEF EphemeralName, DeriveName, QualifiedName

(* What a step does to tasks: one of a name that it does not lend ends,    *)
(* or is deleted once it has stopped.                                      *)
Rested(n) ==
  \/ task'[n] = task[n]
  \/ Up(n)
  \/ task[n] = "stopped" /\ task'[n] = "none"

LEMMA TaskSteps ==
  ASSUME TypeOK, Owners, Loans, NEW t \in Terms,
         \/ Type(t) \/ Step(t) \/ CloneFails(t) \/ ProcessEnds(t)
         \/ Interrupt(t) \/ Killed(t) \/ Deafens(t)
  PROVE  /\ lent' \subseteq Names
         /\ \A s \in Terms \ {t} : EphemeralName(s) \in lent => EphemeralName(s) \in lent'
         /\ \A s \in Terms \ {t} : EphemeralName(s) \in lent' \/ Rested(EphemeralName(s))
         /\ Held'
<1>1. lent \subseteq Names /\ task \in [Names -> Tasks]
      /\ (cmd[t].pc \notin Early => Name(t) \in Names)
  BY DEF TypeOK, Tasks, Owners, Knows, Name
<1>2. CASE UNCHANGED <<ctr, task, lent>>
  BY <1>1, <1>2 DEF Rested, Loans, Held
<1>3. CASE Create(t)
  <2>1. cmd[t].op \in Creating /\ cmd[t].pc \notin Early /\ Name(t) \in Names
    BY <1>1, <1>3 DEF Create, At, Owners, Knows, Setup, Early
  <2>2. \A s \in Terms \ {t} : EphemeralName(s) # Name(t)
    BY <2>1, EphemeralFacts DEF Loans, Named
  <2>3. UNCHANGED task /\ (lent' = lent \/ lent' = lent \ {Name(t)})
    BY <1>3 DEF Create
  <2>4. \A n \in Names : ctr'[n] = None => ctr[n] = None
    BY <1>3, <2>1 DEF Create, Find, TypeOK
  <2> QED BY <1>1, <2>2, <2>3, <2>4 DEF Rested, Loans, Held
<1>4. CASE RemoveEphemeral(t) \/ RmDelete(t)
  <2>1. Name(t) \in Names /\ UNCHANGED <<task, lent>>
    BY <1>1, <1>4 DEF RemoveEphemeral, RmDelete, At, Early
  <2>2. \A n \in Names : ctr'[n] = None => ctr[n] = None \/ task[n] = "none"
    BY <1>4, <2>1 DEF RemoveEphemeral, RmDelete, CanDelete, DeleteContainer, TypeOK
  <2> QED BY <1>1, <2>1, <2>2 DEF Rested, Loans, Held
<1>5. ASSUME Name(t) \in Names, UNCHANGED <<ctr, lent>>, NEW x \in Tasks,
             task' = [task EXCEPT ![Name(t)] = x],
             Up(Name(t)) \/ (x = "none" /\ task[Name(t)] \in {"none", "stopped"})
      PROVE  /\ lent' \subseteq Names
             /\ \A s \in Terms \ {t} : EphemeralName(s) \in lent => EphemeralName(s) \in lent'
             /\ \A s \in Terms \ {t} : EphemeralName(s) \in lent' \/ Rested(EphemeralName(s))
             /\ Held'
  <2>1. task'[Name(t)] = x /\ \A n \in Names : n # Name(t) => task'[n] = task[n]
    BY <1>1, <1>5
  <2>2. \A n \in Names : Rested(n)
    BY <1>5, <2>1 DEF Rested
  <2>3. Held'
    BY <1>5, <2>1 DEF Loans, Held, Up
  <2> QED BY <1>1, <1>5, <2>2, <2>3, EphemeralFacts
<1>6. ASSUME Name(t) \in Names, ctr[Name(t)] # None \/ task[Name(t)] # "none", UNCHANGED ctr,
             Lend(t), NEW x \in Tasks, task' = [task EXCEPT ![Name(t)] = x]
      PROVE  /\ lent' \subseteq Names
             /\ \A s \in Terms \ {t} : EphemeralName(s) \in lent => EphemeralName(s) \in lent'
             /\ \A s \in Terms \ {t} : EphemeralName(s) \in lent' \/ Rested(EphemeralName(s))
             /\ Held'
  <2>1. task'[Name(t)] = x /\ \A n \in Names : n # Name(t) => task'[n] = task[n]
    BY <1>1, <1>6
  <2>2. lent \subseteq lent' /\ lent' \subseteq Names
    BY <1>1, <1>6 DEF Lend
  <2>3. ASSUME NEW s \in Terms \ {t}
        PROVE  EphemeralName(s) \in lent' \/ Rested(EphemeralName(s))
    <3>1. CASE EphemeralName(s) = Name(t)
      BY <1>6, <3>1 DEF Lend
    <3>2. CASE EphemeralName(s) # Name(t)
      BY <2>1, <3>2, EphemeralFacts DEF Rested
    <3> QED BY <3>1, <3>2
  <2>4. Held'
    BY <1>6, <2>1 DEF Loans, Held
  <2> QED BY <2>2, <2>3, <2>4
<1>7. {"none", "created", "running", "deaf", "stopped"} \subseteq Tasks
  BY DEF Tasks
<1>8. CASE Clear(t) \/ UndoDelete(t) \/ TermDelete(t)
  <2>1. Name(t) \in Names /\ UNCHANGED <<ctr, lent>>
    BY <1>1, <1>8 DEF Clear, UndoDelete, TermDelete, At, Early
  <2>2. \/ UNCHANGED task
        \/ task' = [task EXCEPT ![Name(t)] = "none"] /\ task[Name(t)] \in {"none", "stopped"}
    <3>1. CASE Clear(t)
      BY <3>1 DEF Clear
    <3>2. CASE UndoDelete(t)
      <4>1. CASE task[Name(t)] = "stopped"
        BY <1>1, <3>2, <4>1 DEF UndoDelete
      <4>2. CASE task[Name(t)] # "stopped"
        BY <1>1, <3>2, <4>2 DEF UndoDelete
      <4> QED BY <4>1, <4>2
    <3>3. CASE TermDelete(t)
      BY <3>3 DEF TermDelete
    <3> QED BY <1>8, <3>1, <3>2, <3>3
  <2> QED BY <1>2, <1>5, <1>7, <2>1, <2>2
<1>9. CASE Undo(t) \/ ProcessEnds(t) \/ Term(t)
  <2>1. Name(t) \in Names /\ UNCHANGED <<ctr, lent>>
    BY <1>1, <1>9 DEF Undo, ProcessEnds, Term, At, Early
  <2>2. UNCHANGED task \/ (Up(Name(t)) /\ task' = [task EXCEPT ![Name(t)] = "stopped"])
    BY <1>9 DEF Undo, ProcessEnds, Term, EndTask
  <2>3. CASE UNCHANGED task
    BY <1>2, <2>1, <2>3
  <2>4. CASE Up(Name(t)) /\ task' = [task EXCEPT ![Name(t)] = "stopped"]
    <3>1. "stopped" \in Tasks
      BY <1>7
    <3> QED BY <1>5, <2>1, <2>4, <3>1
  <2> QED BY <2>2, <2>3, <2>4
<1>10. CASE Deafens(t)
  <2>1. Name(t) \in Names /\ UNCHANGED <<ctr, lent>>
        /\ Up(Name(t)) /\ task' = [task EXCEPT ![Name(t)] = "deaf"]
    BY <1>1, <1>10 DEF Deafens, At, Early, Up
  <2>2. "deaf" \in Tasks
    BY <1>7
  <2> QED BY <1>5, <2>1, <2>2
<1>11. CASE NewTask(t) \/ Start(t)
  <2>1. Name(t) \in Names /\ UNCHANGED ctr
    BY <1>1, <1>11 DEF NewTask, Start, At, Early
  <2>2. \/ UNCHANGED <<task, lent>>
        \/ /\ Lend(t) /\ (Find(Name(t)) \/ task[Name(t)] = "created")
           /\ \E x \in {"created", "running", "stopped"} : task' = [task EXCEPT ![Name(t)] = x]
    BY <1>11 DEF NewTask, Start
  <2> QED BY <1>2, <1>6, <1>7, <2>1, <2>2 DEF Find
<1>12. \/ UNCHANGED <<ctr, task, lent>> \/ Create(t) \/ RemoveEphemeral(t) \/ RmDelete(t)
       \/ Clear(t) \/ UndoDelete(t) \/ TermDelete(t)
       \/ Undo(t) \/ ProcessEnds(t) \/ Term(t) \/ Deafens(t) \/ NewTask(t) \/ Start(t)
  BY DEF Type, Step, CloneFails, Interrupt, Killed, LoadKit, Resolve, CaOpen, CaWriteKey,
     CaWriteCert, Ensure, EnsureImage, Reload, StartTask, EnsureClone, Cloned, CloneCut, Exec,
     Told, Look, guest
<1> QED BY <1>2, <1>3, <1>4, <1>8, <1>9, <1>10, <1>11, <1>12

(* What others do to the task of a run leaves it at rest. *)
LEMMA OthersRest ==
  ASSUME TypeOK, Owners, Loans, NEW t \in Terms, Alone(t), NEW s \in Terms \ {t},
         EphemeralName(s) \in lent => EphemeralName(s) \in lent',
         EphemeralName(s) \in lent' \/ Rested(EphemeralName(s))
  PROVE  Path(cmd'[s]) /\ Named(s)' /\ Rests(cmd[s])'
<1>1. cmd'[s] = cmd[s] /\ Path(cmd[s]) /\ Named(s) /\ Rests(cmd[s])
  BY DEF Alone, Loans
<1>2. Named(s)'
  BY <1>1 DEF Named, Name
<1>3. Rests(cmd[s])'
  <2>1. CASE cmd[s].op = "runrm" /\ cmd[s].pc \notin Early /\ cmd[s].name \notin lent'
    <3>1. cmd[s].name = EphemeralName(s) /\ Rested(EphemeralName(s)) /\ cmd[s].name \notin lent
      BY <1>1, <2>1 DEF Named, Name, Creating
    <3> QED BY <1>1, <2>1, <3>1 DEF Rests, Rested, Up
  <2>2. CASE ~(cmd[s].op = "runrm" /\ cmd[s].name \notin lent')
    BY <1>1, <2>2 DEF Rests
  <2>3. CASE cmd[s].pc \in Early
    BY <1>1, <2>3 DEF Rests, Early
  <2> QED BY <2>1, <2>2, <2>3
<1> QED BY <1>1, <1>2, <1>3

(* Where the command of a terminal is after one of these. *)
LEMMA GoneTo ==
  ASSUME TypeOK, NEW t \in Terms, NEW pc \in Pcs, Goto(t, pc)
  PROVE  cmd'[t] = [cmd[t] EXCEPT !.pc = pc] /\ cmd'[t].pc = pc /\ cmd'[t].op = cmd[t].op
         /\ cmd'[t].clone = cmd[t].clone /\ cmd'[t].name = cmd[t].name /\ cmd'[t].err = cmd[t].err
<1>1. cmd'[t] = [cmd[t] EXCEPT !.pc = pc] /\ cmd[t] \in CmdType
  BY DEF Goto, TypeOK
<1> QED BY <1>1 DEF CmdType

(* A place, an error and what else the three parts speak of. *)
Stands(t, pc, err) ==
  /\ cmd'[t].pc = pc /\ cmd'[t].err = err
  /\ cmd'[t].op = cmd[t].op /\ cmd'[t].clone = cmd[t].clone /\ cmd'[t].name = cmd[t].name

LEMMA GotoStands ==
  ASSUME TypeOK, NEW t \in Terms, NEW pc \in Pcs, Goto(t, pc)
  PROVE  Stands(t, pc, cmd[t].err)
BY GoneTo DEF Stands

LEMMA EndIdle ==
  ASSUME TypeOK, NEW t \in Terms, End(t)
  PROVE  cmd'[t] = Idle
BY DEF End, TypeOK

LEMMA FailStands ==
  ASSUME TypeOK, NEW t \in Terms, NEW why \in Errs, Fail(t, why)
  PROVE  cmd'[t] = Idle \/ (cmd[t].op = "runrm" /\ cmd[t].id # 0 /\ Stands(t, "remove", why))
<1> DEFINE y == [cmd[t] EXCEPT !.pc = "remove", !.err = why]
<1>1. cmd[t] \in CmdType
  BY DEF TypeOK
<1>2. \/ cmd' = [cmd EXCEPT ![t] = y] /\ cmd[t].op = "runrm" /\ cmd[t].id # 0
      \/ cmd' = [cmd EXCEPT ![t] = Idle]
  BY DEF Fail
<1>3. /\ y.pc = "remove" /\ y.err = why /\ y.op = cmd[t].op /\ y.clone = cmd[t].clone
      /\ y.name = cmd[t].name
  BY <1>1 DEF CmdType
<1> HIDE DEF y
<1> QED BY <1>2, <1>3 DEF TypeOK, Stands

LEMMA StartFailsStands ==
  ASSUME TypeOK, NEW t \in Terms, StartFails(t)
  PROVE  \/ At(t, "startNew") /\ Stands(t, "undo", "failed")
         \/ ~At(t, "startNew") /\ (cmd'[t] = Idle \/ (cmd[t].op = "runrm" /\ Stands(t, "remove", "failed")))
<1>1. CASE At(t, "startNew")
  <2> DEFINE y == [cmd[t] EXCEPT !.pc = "undo", !.err = "failed"]
  <2>1. cmd' = [cmd EXCEPT ![t] = y] /\ cmd[t] \in CmdType
    BY <1>1 DEF StartFails, TypeOK
  <2>2. /\ y.pc = "undo" /\ y.err = "failed" /\ y.op = cmd[t].op /\ y.clone = cmd[t].clone
        /\ y.name = cmd[t].name
    BY <2>1 DEF CmdType
  <2> HIDE DEF y
  <2> QED BY <1>1, <2>1, <2>2 DEF TypeOK, Stands
<1>2. CASE ~At(t, "startNew")
  BY <1>2, FailStands DEF StartFails, Errs
<1> QED BY <1>1, <1>2

LEMMA IdleRests ==
  ASSUME NEW t \in Terms, cmd'[t] = Idle
  PROVE  Path(cmd'[t]) /\ Named(t)' /\ Rests(cmd[t])'
<1>1. Idle.op \notin Creating
  BY Zenon DEF Idle, Creating
<1>2. Idle.err = ""
  BY Zenon DEF Idle
<1>3. cmd'[t].op \notin Creating /\ cmd'[t].pc = "idle" /\ ~(cmd'[t].err # "")
  BY Zenon, <1>1, <1>2, IdleTyped
<1>4. "runrm" \in Creating /\ "idle" \in Ways
  BY DEF Creating, Ways, Early
<1> QED BY Zenon, <1>3, <1>4 DEF Path, Named, Rests

LEMMA OnwardRests ==
  ASSUME Loans, NEW t \in Terms, cmd[t].pc \notin Early, NEW pc, Stands(t, pc, ""),
         pc \notin {"newTask", "startNew", "remove"},
         cmd[t].op = "runrm" /\ ~cmd[t].clone => pc \in Ways
  PROVE  Path(cmd'[t]) /\ Named(t)' /\ Rests(cmd[t])'
BY DEF Loans, Stands, Path, Named, Rests, Name

(* A failure on the way, after which the task is at rest. *)
LEMMA FailRests ==
  ASSUME TypeOK, NoneKnown, Loans, NEW t \in Terms, NEW why \in Errs, Fail(t, why),
         /\ cmd[t].op = "runrm" /\ ~cmd[t].clone /\ Name(t) \notin lent' /\ cmd[t].pc \notin Early
            /\ cmd[t].id # 0 /\ why # ""
            => task'[Name(t)] \in {"none", "created"}
  PROVE  Path(cmd'[t]) /\ Named(t)' /\ Rests(cmd[t])'
<1>1. CASE cmd'[t] = Idle
  BY <1>1, IdleRests
<1>2. CASE cmd[t].op = "runrm" /\ cmd[t].id # 0 /\ Stands(t, "remove", why)
  <2>1. cmd[t].pc \notin Early /\ Named(t)
    BY <1>2 DEF NoneKnown, Loans
  <2>2. Named(t)'
    BY <1>2, <2>1 DEF Named, Stands, Name
  <2>3. Path(cmd'[t])
    BY <1>2 DEF Path, Stands, Ways
  <2>4. Rests(cmd[t])'
    BY <1>2, <2>1 DEF Rests, Stands, Name
  <2> QED BY <2>2, <2>3, <2>4
<1> QED BY <1>1, <1>2, FailStands

(* Up to the container. *)
LEMMA SetupRests ==
  ASSUME TypeOK, Owners, Loans, NEW t \in Terms, Loud(t)
  PROVE  Path(cmd'[t]) /\ Named(t)' /\ Rests(cmd[t])'
<1>1. cmd[t] \in CmdType /\ t \in DOMAIN cmd /\ Path(cmd[t]) /\ Named(t) /\ Knows(cmd[t])
  BY DEF TypeOK, Loans, Owners
<1>2. CASE End(t)
  BY <1>2, EndIdle, IdleRests
<1>3. ASSUME NEW pc \in Setup, Goto(t, pc), cmd[t].pc \in Setup
      PROVE  Path(cmd'[t]) /\ Named(t)' /\ Rests(cmd[t])'
  <2>1. /\ pc \in Pcs /\ cmd[t].pc \notin Early /\ pc \notin {"newTask", "startNew", "remove"}
        /\ pc \in Ways /\ cmd[t].pc \notin {"undo", "undoDelete", "remove"}
    BY <1>3 DEF Setup, Pcs, Early, Ways
  <2>2. Stands(t, pc, "")
    BY <1>1, <1>3, <2>1, GotoStands DEF Path
  <2> QED BY <2>1, <2>2, OnwardRests
<1>4. CASE Type(t)
  <2>1. PICK r \in Requests : TypeRun(t, r) \/ TypeCreate(t, r) \/ TypeExec(t, r)
    BY <1>4 DEF Type
  <2>2. /\ cmd'[t].err = ""
        /\ \/ cmd'[t].pc \in {"load", "resolve"}
           \/ cmd'[t].op \notin Creating /\ cmd'[t].pc \in {"reload", "look"}
    <3>1. CASE TypeRun(t, r)
      <4>1. PICK k \in Kits \cup {None} :
              cmd' = [cmd EXCEPT ![t] = [Idle EXCEPT
                        !.op = r.op, !.ws = r.ws, !.clone = r.clone, !.kit = k,
                        !.pc = IF k = None THEN "resolve" ELSE "load"]]
        BY <3>1 DEF TypeRun
      <4>2. cmd'[t].err = "" /\ cmd'[t].pc = IF k = None THEN "resolve" ELSE "load"
        BY <1>1, <4>1 DEF Idle
      <4> QED BY <4>2
    <3>2. CASE TypeCreate(t, r)
      BY <1>1, <3>2 DEF TypeCreate, Idle
    <3>3. CASE TypeExec(t, r)
      <4>1. PICK n \in Names, pc \in {"reload", "look"} :
              cmd' = [cmd EXCEPT ![t] = [Idle EXCEPT !.op = r.op, !.name = n, !.pass = 2,
                                                     !.pc = pc]]
        BY <3>3 DEF TypeExec
      <4>2. cmd'[t].err = "" /\ cmd'[t].pc = pc /\ cmd'[t].op = r.op
        BY <1>1, <4>1 DEF Idle
      <4> QED BY <3>3, <4>2 DEF TypeExec
    <3> QED BY <2>1, <3>1, <3>2, <3>3
  <2>3. {"load", "resolve"} \subseteq Early /\ {"load", "resolve"} \subseteq Ways
        /\ "runrm" \in Creating
    BY DEF Early, Ways, Creating
  <2> QED BY <2>2, <2>3 DEF Path, Named, Rests
<1>5. CASE LoadKit(t)
  <2>1. CASE cmd' = [cmd EXCEPT ![t].pc = "resolve", ![t].kit = None]
    <3>1. cmd'[t].pc = "resolve" /\ cmd'[t].err = cmd[t].err /\ cmd[t].pc = "load"
      BY <1>1, <1>5, <2>1 DEF CmdType, LoadKit, At
    <3> QED BY <1>1, <3>1 DEF Path, Named, Rests, Early, Ways
  <2> QED BY <1>2, <1>5, <2>1 DEF LoadKit
<1>6. CASE Resolve(t)
  <2> DEFINE n == IF cmd[t].op = "runrm" THEN EphemeralName(t) ELSE ChooseName(cmd[t].ws)
             how == IF cmd[t].op # "runrm" /\ Find(n) THEN "exists" ELSE "new"
  <2>1. \/ End(t)
        \/ cmd' = [cmd EXCEPT ![t].name = n, ![t].pc = "ca", ![t].seen = made, ![t].how = how]
    BY <1>6 DEF Resolve
  <2>2. cmd[t].pc = "resolve" /\ cmd[t].ws \in Workspaces
    BY <1>1, <1>6 DEF Resolve, At, Knows
  <2>3. cmd[t].op # "runrm" => n[1] = "dir"
    BY <2>2, EphemeralFacts DEF ChooseName
  <2>4. cmd[t].op = "runrm" => n = EphemeralName(t)
    OBVIOUS
  <2> HIDE DEF n, how
  <2>5. CASE cmd' = [cmd EXCEPT ![t].name = n, ![t].pc = "ca", ![t].seen = made, ![t].how = how]
    <3>1. /\ cmd'[t].pc = "ca" /\ cmd'[t].err = cmd[t].err /\ cmd'[t].name = n
          /\ cmd'[t].op = cmd[t].op
      BY <1>1, <2>5 DEF CmdType
    <3>2. "ca" \in Ways
      BY DEF Ways, Setup
    <3> QED BY <1>1, <2>2, <2>3, <2>4, <3>1, <3>2 DEF Path, Named, Rests, Name
  <2> QED BY <1>2, <2>1, <2>5
<1>7. CASE CaOpen(t) \/ CaWriteKey(t) \/ CaWriteCert(t)
  <2>1. cmd[t].pc \in Setup /\ (End(t) \/ Goto(t, "caKey") \/ Goto(t, "caCert") \/ Goto(t, "ensure"))
    BY <1>7 DEF CaOpen, CaWriteKey, CaWriteCert, At, Setup
  <2> QED BY <1>2, <1>3, <2>1 DEF Setup
<1>8. CASE Ensure(t)
  <2>1. cmd[t].pc = "ensure" /\ cmd[t].pc \in Setup /\ cmd[t].err = ""
    BY <1>1, <1>8 DEF Ensure, At, Setup, Path
  <2>2. CASE Goto(t, "image")
    BY <1>3, <2>1, <2>2 DEF Setup
  <2>3. CASE /\ cmd[t].op = "run"
             /\ cmd' = [cmd EXCEPT ![t].pc = "start", ![t].id = ctr[Name(t)].id,
                                   ![t].warned = Mismatch(t)]
    <3>1. Stands(t, "start", "")
      BY <1>1, <2>1, <2>3 DEF Stands, CmdType
    <3> QED BY <2>1, <2>3, <3>1, OnwardRests DEF Early
  <2> QED BY <1>8, <2>2, <2>3 DEF Ensure
<1>9. CASE EnsureImage(t)
  <2>1. PICK m \in Machines \cup {None} : cmd' = [cmd EXCEPT ![t].pc = "create", ![t].img = m]
    BY <1>9 DEF EnsureImage
  <2>2. cmd[t].pc = "image" /\ cmd[t].err = ""
    BY <1>1, <1>9 DEF EnsureImage, At, Path
  <2>3. Stands(t, "create", "")
    BY <1>1, <2>1, <2>2 DEF Stands, CmdType
  <2> QED BY <2>2, <2>3, OnwardRests DEF Early, Ways, Setup
<1>10. CASE Create(t) /\ ~End(t)
  <2> DEFINE pc == IF cmd[t].op = "runrm" /\ ~cmd[t].clone THEN "newTask" ELSE "start"
  <2>1. /\ cmd' = [cmd EXCEPT ![t].id = made + 1,
                     ![t].how = IF @ = "new" THEN "made" ELSE "remade", ![t].pc = pc]
        /\ ~Find(Name(t)) /\ UNCHANGED task /\ cmd[t].pc = "create"
    BY <1>10 DEF Create, At
  <2>2. cmd[t].err = "" /\ cmd[t].pc \notin Early /\ Name(t) \in Names
    BY <1>1, <2>1 DEF Path, Early, Knows, Name
  <2>3. pc \in {"newTask", "start"} /\ (pc = "start" => ~(cmd[t].op = "runrm" /\ ~cmd[t].clone))
    OBVIOUS
  <2>4. task[Name(t)] = "none"
    BY <2>1, <2>2 DEF Loans, Held, Find
  <2> HIDE DEF pc
  <2>5. Stands(t, pc, "")
    BY <1>1, <2>1, <2>2 DEF Stands, CmdType
  <2>6. Named(t)'
    BY <1>1, <2>2, <2>5 DEF Named, Stands, Name
  <2> QED BY <2>1, <2>3, <2>4, <2>5, <2>6 DEF Stands, Path, Rests, Name, Ways
<1> QED BY <1>2, <1>4, <1>5, <1>6, <1>7, <1>8, <1>9, <1>10 DEF Loud

(* From the task to the end of the process, and the removal. *)
LEMMA StartRests ==
  ASSUME TypeOK, Owners, NoneKnown, Loans, NEW t \in Terms,
         \/ Clear(t) \/ NewTask(t) \/ Start(t) \/ Undo(t) \/ UndoDelete(t)
         \/ ProcessEnds(t) \/ RemoveEphemeral(t) \/ Interrupt(t) \/ Killed(t) \/ Deafens(t)
  PROVE  Path(cmd'[t]) /\ Named(t)' /\ Rests(cmd[t])'
<1>1. cmd[t] \in CmdType /\ t \in DOMAIN cmd /\ Path(cmd[t]) /\ Named(t) /\ Rests(cmd[t])
      /\ (cmd[t].pc \notin Early => Name(t) \in Names) /\ cmd[t].err \in Errs
      /\ task \in [Names -> Tasks]
  BY DEF TypeOK, Loans, Owners, Knows, Name, CmdType, Errs, Tasks
<1>2. CASE End(t)
  BY <1>2, EndIdle, IdleRests
<1>3. "failed" \in Errs /\ "interrupted" \in Errs /\ "clone" \in Errs
  BY DEF Errs
<1>4. {"newTask", "startNew", "undo", "undoDelete", "told", "proc", "up"} \subseteq Pcs
  BY DEF Pcs
<1>5. CASE Clear(t)
  <2>1. cmd[t].pc = "clear" /\ "clear" \notin Ways /\ cmd[t].pc \notin Early
    BY <1>5 DEF Clear, At, Ways, Early, Setup
  <2>2. ~(cmd[t].op = "runrm" /\ ~cmd[t].clone) /\ cmd[t].err = ""
    BY <1>1, <2>1 DEF Path
  <2>3. CASE Goto(t, "newTask")
    <3>1. Stands(t, "newTask", "")
      BY <1>4, <2>2, <2>3, GotoStands
    <3> QED BY <1>1, <2>1, <2>2, <3>1 DEF Stands, Path, Named, Rests, Name
  <2>4. CASE Fail(t, "failed")
    BY <1>3, <2>2, <2>4, FailRests
  <2> QED BY <1>5, <2>3, <2>4 DEF Clear
<1>6. CASE NewTask(t)
  <2>1. cmd[t].pc = "newTask" /\ cmd[t].pc \notin Early /\ cmd[t].err = "" /\ Name(t) \in Names
    BY <1>1, <1>6 DEF NewTask, At, Early, Path
  <2>2. CASE Goto(t, "startNew") /\ task' = [task EXCEPT ![Name(t)] = "created"]
    <3>1. Stands(t, "startNew", "") /\ task'[Name(t)] = "created"
      BY <1>1, <1>4, <2>1, <2>2, GotoStands
    <3> QED BY <1>1, <2>1, <3>1 DEF Stands, Path, Named, Rests, Name, Ways
  <2>3. CASE Fail(t, "failed") /\ UNCHANGED <<task, lent>>
    BY <1>1, <1>3, <2>1, <2>3, FailRests DEF Rests, Name
  <2> QED BY <1>6, <2>2, <2>3 DEF NewTask
<1>7. ASSUME StartFails(t), cmd[t].pc \in {"startCreated", "startNew"},
             cmd[t].pc = "startNew" /\ cmd[t].op = "runrm" /\ ~cmd[t].clone /\ Name(t) \notin lent'
               => task'[Name(t)] \in {"none", "created", "stopped"}
      PROVE  Path(cmd'[t]) /\ Named(t)' /\ Rests(cmd[t])'
  <2>1. cmd[t].pc \notin Early /\ "startCreated" \notin Ways
    BY <1>7 DEF Early, Ways, Setup
  <2>2. CASE Stands(t, "undo", "failed") /\ At(t, "startNew")
    BY <1>1, <1>7, <2>1, <2>2 DEF Stands, Path, Named, Rests, Name, Ways, At
  <2>3. CASE ~At(t, "startNew")
    <3>1. Fail(t, "failed") /\ ~(cmd[t].op = "runrm" /\ ~cmd[t].clone)
      BY <1>1, <1>7, <2>1, <2>3 DEF StartFails, At, Path
    <3> QED BY <1>3, <3>1, FailRests
  <2> QED BY <1>7, <2>2, <2>3, StartFailsStands
<1>8. CASE Start(t)
  <2>1. cmd[t].pc \in {"startCreated", "startNew"} /\ cmd[t].pc \notin Early /\ cmd[t].err = ""
        /\ Name(t) \in Names /\ lent \subseteq lent'
    BY <1>1, <1>8 DEF Start, Early, Path, Lend
  <2>2. CASE Goto(t, IF cmd[t].op = "runrm" /\ ~cmd[t].clone THEN "proc" ELSE "up")
    <3>1. CASE cmd[t].op = "runrm" /\ ~cmd[t].clone
      <4>1. Stands(t, "proc", "")
        BY <1>4, <2>1, <2>2, <3>1, GotoStands
      <4> QED BY <2>1, <4>1, OnwardRests DEF Ways
    <3>2. CASE ~(cmd[t].op = "runrm" /\ ~cmd[t].clone)
      <4>1. Stands(t, "up", "")
        BY <1>4, <2>1, <2>2, <3>2, GotoStands
      <4> QED BY <2>1, <3>2, <4>1, OnwardRests
    <3> QED BY <3>1, <3>2
  <2>3. CASE StartFails(t) /\ UNCHANGED <<task, lent>>
    BY <1>1, <1>7, <2>1, <2>3 DEF Rests, Name
  <2>4. ASSUME StartFails(t), NEW left \in {"created", "stopped"},
               task' = [task EXCEPT ![Name(t)] = left]
        PROVE  Path(cmd'[t]) /\ Named(t)' /\ Rests(cmd[t])'
    BY <1>1, <1>7, <2>1, <2>4
  <2> QED BY <1>8, <2>2, <2>3, <2>4 DEF Start
<1>9. CASE Undo(t)
  <2>1. cmd[t].pc = "undo" /\ cmd[t].pc \notin Early /\ Name(t) \in Names /\ UNCHANGED lent
    BY <1>1, <1>9 DEF Undo, At, Early
  <2>2. Stands(t, "undoDelete", cmd[t].err)
    BY <1>4, <1>9, GotoStands DEF Undo
  <2>3. UNCHANGED task \/ Up(Name(t))
    BY <1>9 DEF Undo
  <2> QED BY <1>1, <2>1, <2>2, <2>3 DEF Stands, Path, Named, Rests, Name, Ways, Up
<1>10. CASE UndoDelete(t)
  <2>1. cmd[t].pc = "undoDelete" /\ cmd[t].pc \notin Early /\ Name(t) \in Names /\ UNCHANGED lent
        /\ Fail(t, cmd[t].err)
    BY <1>1, <1>10 DEF UndoDelete, At, Early
  <2>2. task'[Name(t)] = IF task[Name(t)] = "stopped" THEN "none" ELSE task[Name(t)]
    BY <1>1, <1>10, <2>1 DEF UndoDelete
  <2> QED BY <1>1, <2>1, <2>2, FailRests DEF Rests, Name
<1>11. CASE ProcessEnds(t) /\ ~End(t)
  <2>1. cmd[t].pc = "proc" /\ cmd[t].pc \notin Early /\ cmd[t].err = ""
    BY <1>1, <1>11 DEF ProcessEnds, At, Early, Path
  <2>2. Stands(t, "undo", "")
    BY <1>4, <1>11, <2>1, GotoStands DEF ProcessEnds
  <2> QED BY <2>1, <2>2, OnwardRests DEF Ways
<1>12. CASE RemoveEphemeral(t) /\ ~End(t)
  <2>1. cmd[t].pc = "remove" /\ cmd[t].pc \notin Early /\ cmd[t].err = "" /\ Goto(t, "told")
    BY <1>12 DEF RemoveEphemeral, At, Early
  <2>2. Stands(t, "told", "")
    BY <1>4, <2>1, GotoStands
  <2> QED BY <2>1, <2>2, OnwardRests DEF Ways
<1>13. CASE Interrupt(t)
  <2>1. CASE cmd[t].pc \in {"resolve", "ensure", "image", "create"} /\ Fail(t, "interrupted")
    <3>1. cmd[t].id = 0
      <4>1. CASE cmd[t].pc \in Early
        BY <4>1 DEF NoneKnown
      <4>2. CASE cmd[t].pc \notin Early
        <5>1. cmd[t].pc \in Setup /\ Knows(cmd[t]) /\ Right(cmd[t])
          BY <2>1, <4>2 DEF Early, Setup, Owners
        <5> QED BY <4>2, <5>1 DEF Knows, Right, Looked
      <4> QED BY <4>1, <4>2
    <3> QED BY <1>3, <2>1, <3>1, FailRests
  <2>2. CASE cmd[t].pc = "newTask" /\ Fail(t, "interrupted")
    <3>1. UNCHANGED <<task, lent>>
      BY <1>13 DEF Interrupt
    <3> QED BY <1>1, <1>3, <2>2, <3>1, FailRests DEF Rests, Name
  <2>3. CASE cmd[t].pc \in {"reload", "start", "clear", "up", "exec", "cloning"}
             /\ (Fail(t, "failed") \/ Fail(t, "clone"))
    <3>1. ~(cmd[t].op = "runrm" /\ ~cmd[t].clone)
      BY <1>1, <2>3 DEF Path, Ways, Early, Setup
    <3> QED BY <1>3, <2>3, <3>1, FailRests
  <2>4. CASE cmd[t].pc = "startNew" /\ StartFails(t)
    <3>1. UNCHANGED <<task, lent>>
      BY <1>13 DEF Interrupt
    <3> QED BY <1>1, <1>7, <2>4, <3>1 DEF Rests, Name
  <2> QED BY <1>13, <2>1, <2>2, <2>3, <2>4 DEF Interrupt, ScriptEnds, At
<1>14. CASE Killed(t)
  BY <1>2, <1>14 DEF Killed
<1>15. CASE Deafens(t)
  <2>1. cmd' = cmd /\ cmd[t].pc = "proc"
    BY <1>15 DEF Deafens, At
  <2>2. cmd[t].err = ""
    BY <1>1, <2>1 DEF Path
  <2> QED BY <1>1, <2>1, <2>2 DEF Named, Name, Rests
<1> QED BY <1>2, <1>5, <1>6, <1>8, <1>9, <1>10, <1>11, <1>12, <1>13, <1>14, <1>15

(* The others, which a run without a clone never takes. *)
LEMMA OtherRests ==
  ASSUME TypeOK, Owners, NoneKnown, Loans, NEW t \in Terms,
         \/ Reload(t) \/ StartTask(t) \/ EnsureClone(t) \/ Cloned(t) \/ CloneCut(t) \/ CloneFails(t)
         \/ Exec(t) \/ Told(t) \/ Look(t) \/ Term(t) \/ TermDelete(t) \/ RmDelete(t)
  PROVE  Path(cmd'[t]) /\ Named(t)' /\ Rests(cmd[t])'
<1>1. cmd[t] \in CmdType /\ t \in DOMAIN cmd /\ Path(cmd[t]) /\ Named(t)
  BY DEF TypeOK, Loans
<1>2. CASE End(t)
  BY <1>2, EndIdle, IdleRests
<1>3. cmd[t].pc = "told" \/ cmd[t].pc \in {"reload", "start", "up", "cloning", "exec",
                                           "look", "term", "termDelete", "rmDelete"}
  BY DEF Reload, StartTask, EnsureClone, Cloned, CloneCut, CloneFails, ScriptEnds, Exec, Told,
         Look, Term, TermDelete, RmDelete, At
<1>4. CASE Told(t)
  BY <1>2, <1>4 DEF Told
<1>5. CASE cmd[t].pc # "told"
  <2>1. ~(cmd[t].op = "runrm" /\ ~cmd[t].clone) /\ cmd[t].err = "" /\ cmd[t].pc \notin Early
    BY <1>1, <1>3, <1>5 DEF Path, Ways, Early, Setup
  <2>2. ASSUME NEW why \in Errs, Fail(t, why)
        PROVE  Path(cmd'[t]) /\ Named(t)' /\ Rests(cmd[t])'
    BY <2>1, <2>2, FailRests
  <2>3. ASSUME NEW pc \in Pcs \ {"remove"}, Stands(t, pc, "")
        PROVE  Path(cmd'[t]) /\ Named(t)' /\ Rests(cmd[t])'
    BY <1>1, <2>1, <2>3 DEF Stands, Path, Named, Rests, Name
  <2>4. ASSUME NEW pc \in Pcs \ {"remove"}, Goto(t, pc)
        PROVE  Path(cmd'[t]) /\ Named(t)' /\ Rests(cmd[t])'
    BY <2>1, <2>3, <2>4, GotoStands
  <2>5. ASSUME AfterUp(t)
        PROVE  Path(cmd'[t]) /\ Named(t)' /\ Rests(cmd[t])'
    <3>1. CASE cmd' = [cmd EXCEPT ![t].pc = "reload", ![t].pass = 2]
      <4>1. Stands(t, "reload", "")
        BY <1>1, <2>1, <3>1 DEF Stands, CmdType
      <4> QED BY <2>3, <4>1 DEF Pcs
    <3>2. CASE Goto(t, "exec")
      BY <2>4, <3>2 DEF Pcs
    <3> QED BY <1>2, <2>5, <3>1, <3>2 DEF AfterUp
  <2>6. {"newTask", "startCreated", "clear", "up", "start", "cloning", "proc", "rmDelete", "term",
         "termDelete"} \subseteq Pcs \ {"remove"} /\ {"failed", "clone"} \subseteq Errs
    BY DEF Pcs, Errs
  <2>7. \/ End(t) \/ AfterUp(t) \/ (\E why \in {"failed", "clone"} : Fail(t, why))
        \/ \E pc \in {"newTask", "startCreated", "clear", "up", "start", "cloning", "proc", "rmDelete",
                      "term", "termDelete"} : Goto(t, pc)
    BY <1>5 DEF Reload, StartTask, EnsureClone, Cloned, CloneCut, CloneFails, Exec, Told, Look, Term,
           TermDelete, RmDelete, Stopped, At
  <2> QED BY <1>2, <2>2, <2>4, <2>5, <2>6, <2>7
<1> QED BY <1>3, <1>4, <1>5 DEF Told, Reload, StartTask, EnsureClone, Cloned, CloneCut, CloneFails,
           ScriptEnds, Exec, Look, Term, TermDelete, RmDelete, At

LEMMA LoansKept ==
  ASSUME TypeOK, Owners, NoneKnown, Loans, NEW t \in Terms, Alone(t),
         \/ Type(t) \/ Step(t) \/ CloneFails(t) \/ ProcessEnds(t)
         \/ Interrupt(t) \/ Killed(t) \/ Deafens(t)
  PROVE  Loans' /\ lent' \subseteq Names
<1>1. /\ lent' \subseteq Names
      /\ \A s \in Terms \ {t} : EphemeralName(s) \in lent => EphemeralName(s) \in lent'
      /\ \A s \in Terms \ {t} : EphemeralName(s) \in lent' \/ Rested(EphemeralName(s))
      /\ Held'
  BY TaskSteps
<1>2. ASSUME NEW s \in Terms \ {t}
      PROVE  Path(cmd'[s]) /\ Named(s)' /\ Rests(cmd[s])'
  BY <1>1, <1>2, OthersRest
<1>3. Path(cmd'[t]) /\ Named(t)' /\ Rests(cmd[t])'
  BY SetupRests, StartRests, OtherRests DEF Step, Loud
<1> QED BY <1>1, <1>2, <1>3 DEF Loans

---------------------------------------------------------------------------
(* The authority.  As long as no two creations overlapped, one command at  *)
(* most is making it, while there is no certificate, and the key that is   *)
(* on disk is its own when it writes the certificate.                      *)
Making(t) == cmd[t].pc \in {"caKey", "caCert"}

AuthoritySound ==
  ~caRaced =>
    /\ caCert # None => caKey = caCert
    /\ \A t \in Terms : Making(t) => caCert = None
    /\ \A t \in Terms : At(t, "caCert") => caKey = t
    /\ \A s, t \in Terms : Making(s) /\ Making(t) => s = t

LEMMA AuthorityKept ==
  ASSUME TypeOK, AuthoritySound, UNCHANGED <<caKey, caCert, caRaced>>,
         \A t \in Terms : Making(t)' => cmd'[t].pc = cmd[t].pc
  PROVE  AuthoritySound'
BY DEF AuthoritySound, Making, At

LEMMA AuthorityMade ==
  ASSUME TypeOK, AuthoritySound, NEW t \in Terms, CaOpen(t) \/ CaWriteKey(t) \/ CaWriteCert(t)
  PROVE  AuthoritySound'
<1>1. cmd[t] \in CmdType /\ \A s \in Terms \ {t} : cmd'[s] = cmd[s]
  BY DEF CaOpen, CaWriteKey, CaWriteCert, Goto, End, TypeOK
<1>2. ASSUME NEW pc \in Pcs, Goto(t, pc)
      PROVE  cmd'[t].pc = pc
  <2>1. cmd'[t] = [cmd[t] EXCEPT !.pc = pc]
    BY <1>2 DEF Goto, TypeOK
  <2> QED BY <1>1, <2>1 DEF CmdType
<1>3. End(t) => cmd'[t].pc = "idle"
  BY IdleTyped DEF End, TypeOK
<1>4. {"caKey", "caCert", "ensure"} \subseteq Pcs
  BY DEF Pcs
<1>5. CASE CaOpen(t)
  <2>1. CASE caCert = None /\ Goto(t, "caKey")
    <3>1. cmd'[t].pc = "caKey" /\ UNCHANGED <<caKey, caCert>>
          /\ caRaced' = (caRaced \/ Overlap(t))
      BY <1>2, <1>4, <1>5, <2>1 DEF CaOpen
    <3>2. CASE Overlap(t)
      BY <3>1, <3>2 DEF AuthoritySound
    <3>3. CASE ~Overlap(t)
      BY <1>1, <2>1, <3>1, <3>3 DEF AuthoritySound, Making, At, Overlap
    <3> QED BY <3>2, <3>3
  <2>2. CASE caCert # None /\ (Goto(t, "ensure") \/ End(t))
    <3>1. cmd'[t].pc \notin {"caKey", "caCert"} /\ UNCHANGED <<caKey, caCert>> /\ caRaced' = caRaced
      BY <1>2, <1>3, <1>4, <1>5, <2>2 DEF CaOpen, TypeOK
    <3> QED BY <1>1, <3>1, AuthorityKept DEF Making
  <2> QED BY <1>5, <2>1, <2>2 DEF CaOpen
<1>6. CASE CaWriteKey(t)
  <2>1. At(t, "caKey") /\ caKey' = t /\ cmd'[t].pc = "caCert" /\ UNCHANGED <<caCert, caRaced>>
    BY <1>2, <1>4, <1>6 DEF CaWriteKey
  <2> QED BY <1>1, <2>1 DEF AuthoritySound, Making, At
<1>7. CASE CaWriteCert(t)
  <2>1. At(t, "caCert") /\ caCert' = t /\ cmd'[t].pc = "ensure" /\ UNCHANGED <<caKey, caRaced>>
    BY <1>2, <1>4, <1>7 DEF CaWriteCert
  <2> QED BY <1>1, <2>1 DEF AuthoritySound, Making, At
<1> QED BY <1>5, <1>6, <1>7

(* A quiet command is not making the authority afterwards. *)
LEMMA QuietAuthority ==
  ASSUME TypeOK, AuthoritySound, NEW t \in Terms, Quiet(t)
  PROVE  AuthoritySound'
<1>1. cmd'[t].pc \notin {"caKey", "caCert"}
  BY IdleTyped DEF Quiet, Goes, Later, Setup
<1>2. \A s \in Terms : Making(s)' => cmd'[s].pc = cmd[s].pc
  BY <1>1 DEF Quiet, Goes, Making
<1> QED BY <1>2, AuthorityKept DEF Quiet

---------------------------------------------------------------------------
(* The invariant as a whole.                                               *)
IInv == TypeOK /\ Owners /\ Guests /\ Loans /\ AuthoritySound

LEMMA InitInv == Init => IInv
<1> SUFFICES ASSUME Init PROVE IInv
  OBVIOUS
<1>1. /\ task = [n \in Names |-> "none"] /\ repo = [n \in Names |-> "none"]
      /\ script = [n \in Names |-> None] /\ cut = {} /\ lent = {} /\ caRaced = FALSE
      /\ cmd = [t \in Terms |-> Idle]
  BY DEF Init
<1>2. Guests
  BY <1>1 DEF Guests, GuestTyped, Scripts, Tasks
<1>3. ctr \in [Names -> CtrType \cup {None}] /\ made \in Nat /\ Registered
  <2>1. CASE ctr = [n \in Names |-> None] /\ made = 0
    BY <2>1 DEF Registered
  <2>2. ASSUME NEW first \in Workspaces \cup {None}, NEW rest \in SUBSET (Workspaces \ {first}),
               made = 2,
               ctr = [n \in Names |->
                        IF n = DeriveName(first) THEN [ws |-> first, clone |-> FALSE, id |-> 1]
                        ELSE IF \E w \in rest : n = QualifiedName(w)
                        THEN [ws |-> n[2], clone |-> FALSE, id |-> 2]
                        ELSE None]
        PROVE  ctr \in [Names -> CtrType \cup {None}] /\ made \in Nat /\ Registered
    <3>1. ASSUME NEW n \in Names, ctr[n] # None
          PROVE  ctr[n] \in CtrType /\ ctr[n].id <= 2
                 /\ \A w \in Workspaces : n = QualifiedName(w) => ctr[n].ws = w
      <4>1. CASE n = DeriveName(first)
        <5>1. ctr[n] = [ws |-> first, clone |-> FALSE, id |-> 1]
          BY <2>2, <4>1
        <5>2. \A w \in Workspaces : n # QualifiedName(w)
          BY <4>1, SandboxAssumption DEF DeriveName, QualifiedName
        <5> QED BY <5>1, <5>2 DEF CtrType
      <4>2. ASSUME NEW w \in rest, n = QualifiedName(w), n # DeriveName(first)
            PROVE  ctr[n] \in CtrType /\ ctr[n].id <= 2
                   /\ \A v \in Workspaces : n = QualifiedName(v) => ctr[n].ws = v
        <5>1. n[2] = w /\ w \in Workspaces
          BY <4>2 DEF QualifiedName
        <5>2. ctr[n] = [ws |-> w, clone |-> FALSE, id |-> 2]
          BY <2>2, <3>1, <4>2, <5>1
        <5>3. \A v \in Workspaces : n = QualifiedName(v) => v = w
          BY <4>2, <5>1, NameFacts
        <5> QED BY <5>1, <5>2, <5>3 DEF CtrType
      <4>3. n = DeriveName(first) \/ \E w \in rest : n = QualifiedName(w)
        BY <2>2, <3>1
      <4> QED BY <4>1, <4>2, <4>3
    <3>2. ctr \in [Names -> CtrType \cup {None}]
      <4>1. \A n \in Names : ctr[n] \in CtrType \cup {None}
        BY <3>1
      <4> QED BY <2>2, <4>1
    <3> QED BY <2>2, <3>1, <3>2 DEF Registered
  <2> QED BY <2>1, <2>2 DEF Init
<1>4. TypeOK
  <2>1. {caKey, caCert} \subseteq Terms \cup {None, "earlier"} /\ {made, typed, faults} \subseteq Nat
    BY <1>3 DEF Init
  <2>2. cmd \in [Terms -> CmdType]
    BY <1>1, IdleTyped
  <2> QED BY <1>1, <1>2, <1>3, <2>1, <2>2 DEF TypeOK, Guests, GuestTyped, Tasks
<1>5. Knows(Idle) /\ Right(Idle)
  BY DEF Knows, Right, Idle, Early, Setup, Creating
<1>6. Owners
  BY <1>1, <1>3, <1>5 DEF Owners
<1>7. AuthoritySound
  <2>1. \A t \in Terms : cmd[t].pc = "idle"
    BY <1>1, IdleTyped
  <2>2. caCert = caKey
    BY DEF Init
  <2> QED BY <2>1, <2>2 DEF AuthoritySound, Making, At
<1>8. Loans
  <2>1. Held
    BY <1>1 DEF Held
  <2>2. ASSUME NEW t \in Terms
        PROVE  Path(cmd[t]) /\ Named(t) /\ Rests(cmd[t])
    <3>1. cmd[t] = Idle
      BY <1>1
    <3>2. Idle.op \notin Creating
      BY Zenon DEF Idle, Creating
    <3>3. Idle.err = ""
      BY Zenon DEF Idle
    <3>4. cmd[t].op \notin Creating /\ cmd[t].pc = "idle" /\ ~(cmd[t].err # "")
      BY Zenon, <3>1, <3>2, <3>3, IdleTyped
    <3>5. "runrm" \in Creating /\ "idle" \in Ways
      BY DEF Creating, Ways, Early
    <3> QED BY Zenon, <3>4, <3>5 DEF Path, Named, Rests
  <2> QED BY <2>1, <2>2 DEF Loans
<1> QED BY <1>2, <1>4, <1>6, <1>7, <1>8 DEF IInv

(* None of these steps leads to the making of the authority. *)
LEMMA TypedElsewhere ==
  ASSUME TypeOK, NEW t \in Terms,
         Type(t) \/ LoadKit(t) \/ Resolve(t) \/ Ensure(t) \/ EnsureImage(t) \/ Create(t)
  PROVE  cmd'[t].pc \notin {"caKey", "caCert"}
<1>1. cmd[t] \in CmdType /\ t \in DOMAIN cmd
  BY DEF TypeOK
<1>2. CASE End(t)
  BY <1>1, <1>2, IdleTyped DEF End
<1>3. CASE Type(t)
  <2>1. PICK r \in Requests : TypeRun(t, r) \/ TypeCreate(t, r) \/ TypeExec(t, r)
    BY <1>3 DEF Type
  <2>2. CASE TypeRun(t, r)
    <3>1. PICK k \in Kits \cup {None} :
            cmd' = [cmd EXCEPT ![t] = [Idle EXCEPT
                      !.op = r.op, !.ws = r.ws, !.clone = r.clone, !.kit = k,
                      !.pc = IF k = None THEN "resolve" ELSE "load"]]
      BY <2>2 DEF TypeRun
    <3>2. cmd'[t].pc = IF k = None THEN "resolve" ELSE "load"
      BY <1>1, <3>1 DEF Idle
    <3> QED BY <3>2
  <2>3. CASE TypeCreate(t, r)
    BY <1>1, <2>3 DEF TypeCreate, Idle
  <2>4. CASE TypeExec(t, r)
    <3>1. PICK n \in Names, pc \in {"reload", "look"} :
            cmd' = [cmd EXCEPT ![t] = [Idle EXCEPT !.op = r.op, !.name = n, !.pass = 2,
                                                   !.pc = pc]]
      BY <2>4 DEF TypeExec
    <3>2. cmd'[t].pc = pc
      BY <1>1, <3>1 DEF Idle
    <3> QED BY <3>2
  <2> QED BY <2>1, <2>2, <2>3, <2>4
<1>4. CASE LoadKit(t)
  <2>1. CASE cmd' = [cmd EXCEPT ![t].pc = "resolve", ![t].kit = None]
    BY <1>1, <2>1 DEF CmdType
  <2> QED BY <1>2, <1>4, <2>1 DEF LoadKit
<1>5. CASE Resolve(t)
  <2> DEFINE n == IF cmd[t].op = "runrm" THEN EphemeralName(t) ELSE ChooseName(cmd[t].ws)
             how == IF cmd[t].op # "runrm" /\ Find(n) THEN "exists" ELSE "new"
  <2>1. \/ End(t)
        \/ cmd' = [cmd EXCEPT ![t].name = n, ![t].pc = "ca", ![t].seen = made, ![t].how = how]
    BY <1>5 DEF Resolve
  <2> HIDE DEF n, how
  <2>2. CASE cmd' = [cmd EXCEPT ![t].name = n, ![t].pc = "ca", ![t].seen = made, ![t].how = how]
    BY <1>1, <2>2 DEF CmdType
  <2> QED BY <1>2, <2>1, <2>2
<1>6. CASE Ensure(t)
  <2>1. CASE Goto(t, "image")
    BY <1>1, <2>1 DEF Goto, CmdType
  <2>2. ASSUME NEW id, NEW warned,
               cmd' = [cmd EXCEPT ![t].pc = "start", ![t].id = id, ![t].warned = warned]
        PROVE  cmd'[t].pc = "start"
    BY <1>1, <2>2 DEF CmdType
  <2> QED BY <1>6, <2>1, <2>2 DEF Ensure
<1>7. CASE EnsureImage(t)
  <2>1. ASSUME NEW m, cmd' = [cmd EXCEPT ![t].pc = "create", ![t].img = m]
        PROVE  cmd'[t].pc = "create"
    BY <1>1, <2>1 DEF CmdType
  <2> QED BY <1>7, <2>1 DEF EnsureImage
<1>8. CASE Create(t)
  <2>1. ASSUME NEW pc \in {"newTask", "start"},
               cmd' = [cmd EXCEPT ![t].id = made + 1,
                         ![t].how = IF @ = "new" THEN "made" ELSE "remade", ![t].pc = pc]
        PROVE  cmd'[t].pc = pc
    BY <1>1, <2>1 DEF CmdType
  <2> QED BY <1>2, <1>8, <2>1 DEF Create
<1> QED BY <1>3, <1>4, <1>5, <1>6, <1>7, <1>8

(* A step of one terminal leaves the commands of the others alone. *)
LEMMA StepAlone ==
  ASSUME IInv, NEW t \in Terms,
         \/ Type(t) \/ Step(t) \/ CloneFails(t) \/ ProcessEnds(t)
         \/ Interrupt(t) \/ Killed(t) \/ Deafens(t)
  PROVE  Alone(t) /\ Owners' /\ AuthoritySound' /\ cmd' \in [Terms -> CmdType]
         /\ ctr' \in [Names -> CtrType \cup {None}] /\ made' \in Nat
<1>1. TypeOK /\ Owners /\ NoneKnown /\ AuthoritySound
  BY OwnersKnow DEF IInv
<1>2. CASE Quiet(t)
  <2>1. ctr' \in [Names -> CtrType \cup {None}]
    BY <1>1, <1>2 DEF Quiet, TypeOK
  <2> QED BY <1>1, <1>2, <2>1, QuietKeeps, QuietAuthority DEF Quiet, Goes, Alone, TypeOK
<1>3. CASE Loud(t)
  <2>1. Alone(t)
    BY <1>1, <1>3 DEF Loud, Type, TypeRun, TypeCreate, TypeExec, LoadKit, Resolve, CaOpen,
       CaWriteKey, CaWriteCert, Ensure, EnsureImage, Create, Goto, End, TypeOK, Alone
  <2>2. /\ Owners' /\ cmd' \in [Terms -> CmdType]
        /\ ctr' \in [Names -> CtrType \cup {None}] /\ made' \in Nat
    <3>1. CASE Create(t)
      BY <1>1, <3>1, CreateKeeps
    <3>2. CASE ~Create(t)
      <4>1. UNCHANGED <<ctr, made>>
        BY <1>3, <3>2 DEF Loud, Type, LoadKit, Resolve, CaOpen, CaWriteKey, CaWriteCert, Ensure,
           EnsureImage, guest
      <4>2. Owners' /\ cmd' \in [Terms -> CmdType]
        BY <1>1, <1>3, <3>2, TypeKeeps, LoadKeeps, ResolveKeeps, SetupKeeps,
              EnsureKeeps, ImageKeeps DEF Loud
      <4> QED BY <1>1, <4>1, <4>2 DEF TypeOK
    <3> QED BY <3>1, <3>2
  <2>3. AuthoritySound'
    <3>1. CASE CaOpen(t) \/ CaWriteKey(t) \/ CaWriteCert(t)
      BY <1>1, <3>1, AuthorityMade
    <3>2. CASE Type(t) \/ LoadKit(t) \/ Resolve(t) \/ Ensure(t) \/ EnsureImage(t) \/ Create(t)
      <4>1. UNCHANGED <<caKey, caCert, caRaced>>
        BY <3>2 DEF Type, LoadKit, Resolve, Ensure, EnsureImage, Create, disk
      <4>2. cmd'[t].pc \notin {"caKey", "caCert"}
        BY <1>1, <3>2, TypedElsewhere
      <4>3. \A s \in Terms : Making(s)' => cmd'[s].pc = cmd[s].pc
        BY <2>1, <4>2 DEF Alone, Making
      <4> QED BY <1>1, <4>1, <4>3, AuthorityKept
    <3> QED BY <1>3, <3>1, <3>2 DEF Loud
  <2> QED BY <2>1, <2>2, <2>3
<1> QED BY <1>1, <1>2, <1>3, QuietOrLoud

LEMMA StepKeeps ==
  ASSUME IInv, NEW t \in Terms,
         \/ Type(t) \/ Step(t) \/ CloneFails(t) \/ ProcessEnds(t)
         \/ Interrupt(t) \/ Killed(t) \/ Deafens(t)
  PROVE  IInv'
<1>1. /\ Alone(t) /\ Owners' /\ AuthoritySound' /\ cmd' \in [Terms -> CmdType]
      /\ ctr' \in [Names -> CtrType \cup {None}] /\ made' \in Nat
  BY StepAlone
<1>2. TypeOK /\ Owners /\ Guests /\ Loans /\ NoneKnown
  BY OwnersKnow DEF IInv
<1>3. Guests' /\ Loans' /\ lent' \subseteq Names
  BY <1>1, <1>2, GuestsKept, LoansKept
<1>4. {caKey', caCert'} \subseteq Terms \cup {None, "earlier"} /\ caRaced' \in BOOLEAN
  <2>1. CASE Quiet(t)
    BY <1>2, <2>1 DEF Quiet, TypeOK
  <2>2. CASE Loud(t)
    <3>1. /\ caKey' \in {caKey, t} /\ caCert' \in {caCert, t}
          /\ caRaced' = caRaced \/ caRaced' = (caRaced \/ (caCert = None /\ Overlap(t)))
      BY <2>2 DEF Loud, Type, LoadKit, Resolve, CaOpen, CaWriteKey, CaWriteCert, Ensure,
         EnsureImage, Create, disk
    <3>2. caRaced' \in BOOLEAN
      BY <1>2, <3>1 DEF TypeOK
    <3> QED BY <1>2, <3>1, <3>2 DEF TypeOK
  <2> QED BY <1>2, <2>1, <2>2, QuietOrLoud
<1>5. typed' \in Nat
  <2>1. typed' = typed \/ typed' = typed + 1
    BY DEF Type, Step, CloneFails, ProcessEnds, Interrupt, Killed, Deafens, LoadKit, Resolve,
       CaOpen, CaWriteKey, CaWriteCert, Ensure, EnsureImage, Create, Reload, StartTask, Clear,
       NewTask, Start, Undo, UndoDelete, EnsureClone, Cloned, CloneCut, Exec, RemoveEphemeral,
       Told, Look, Term, TermDelete, RmDelete, disk
  <2> QED BY <1>2, <2>1 DEF TypeOK
<1>6. faults' \in Nat
  <2>1. faults' = faults \/ faults' = faults + 1
    BY DEF Type, Step, CloneFails, ProcessEnds, Interrupt, Killed, Deafens, LoadKit, Resolve,
       CaOpen, CaWriteKey, CaWriteCert, Ensure, EnsureImage, Create, Reload, StartTask, Clear,
       NewTask, Start, Undo, UndoDelete, EnsureClone, Cloned, CloneCut, Exec, RemoveEphemeral,
       Told, Look, Term, TermDelete, RmDelete, Fault
  <2> QED BY <1>2, <2>1 DEF TypeOK
<1>7. TypeOK'
  <2>1. GuestTyped'
    BY <1>3 DEF Guests
  <2> QED BY <1>1, <1>3, <1>4, <1>5, <1>6, <2>1 DEF TypeOK, GuestTyped, Tasks
<1> QED BY <1>1, <1>3, <1>7 DEF IInv

LEMMA StutterKeeps == IInv /\ UNCHANGED vars => IInv'
<1> SUFFICES ASSUME IInv, UNCHANGED vars PROVE IInv'
  OBVIOUS
<1>1. TypeOK'
  BY DEF IInv, TypeOK, vars
<1>2. Owners'
  BY DEF IInv, Owners, Registered, Knows, Right, Looked, Brought, vars
<1>3. Guests'
  BY DEF IInv, Guests, GuestTyped, Scripts, At, Up, Name, vars
<1>4. Loans'
  BY DEF IInv, Loans, Held, Path, Named, Rests, Name, vars
<1>5. AuthoritySound'
  BY DEF IInv, AuthoritySound, Making, At, vars
<1> QED BY <1>1, <1>2, <1>3, <1>4, <1>5 DEF IInv

(* In every reachable state the state is of its types, what a command      *)
(* found out when it looked still holds of the containers there were then, *)
(* the clone scripts are in guests that are up, the tasks of failed runs   *)
(* are at rest and the authority's files agree unless two made it at once. *)
THEOREM SandboxInvariant == Spec => []IInv
<1>1. IInv /\ [Next]_vars => IInv'
  BY StepKeeps, StutterKeeps DEF Next
<1> QED BY <1>1, InitInv, PTL DEF Spec

(* Every variable keeps to its type: no step leaves a command at a place   *)
(* that it has no step for, or a container without its directory.          *)
THEOREM SandboxTypes == Spec => []TypeOK
<1>1. IInv => TypeOK
  BY DEF IInv
<1> QED BY <1>1, SandboxInvariant, PTL

(* The sandbox a command brought up is its directory's, or no directory's, *)
(* or its user was warned, whichever command made it and whenever; and it  *)
(* has the clone that was asked for if it was there when the command       *)
(* looked, or the command made it having found none.                       *)
THEOREM WorksWhereAsked == Spec => []AskedFor
<1>1. IInv => AskedFor
  <2> SUFFICES ASSUME IInv, NEW t \in Terms, BroughtUp(t)
               PROVE  /\ Owned(t) \/ cmd[t].warned
                      /\ cmd[t].clone /\ (cmd[t].id <= cmd[t].seen \/ cmd[t].how = "made")
                           => ctr[Name(t)].clone
    BY DEF AskedFor
  <2>1. /\ cmd[t].pc \notin Early /\ cmd[t].op \in Creating
        /\ ctr[Name(t)] # None /\ ctr[Name(t)].id = cmd[t].id
        /\ Knows(cmd[t]) /\ Right(cmd[t])
    BY DEF BroughtUp, At, Early, IInv, Owners
  <2>2. cmd[t].id # 0
    BY <2>1 DEF IInv, TypeOK, CtrType, Knows, Name
  <2>3. Brought(cmd[t], ctr[Name(t)])
    BY <2>1, <2>2 DEF Right, Name
  <2> QED BY <2>3 DEF Brought, Owned
<1> QED BY <1>1, SandboxInvariant, PTL

(* A half clone is one being made for a command that waits for it, in a    *)
(* guest that is up, or one whose script was cut short.                    *)
THEOREM ClonesWhole == Spec => []NoHalfClone
<1>1. IInv => NoHalfClone
  BY SandboxAssumption DEF IInv, Guests, GuestTyped, Scripts, NoHalfClone
<1> QED BY <1>1, SandboxInvariant, PTL

(* The files of the authority disagree only if two commands made it at     *)
(* once.                                                                   *)
THEOREM AuthorityAgrees == Spec => []FirstRunRetries
<1>1. IInv => FirstRunRetries
  BY DEF IInv, AuthoritySound, FirstRunRetries
<1> QED BY <1>1, SandboxInvariant, PTL

---------------------------------------------------------------------------
(* What a step may never do.                                               *)

(* The step of a command that is about to remove its sandbox. *)
LEMMA StepAtRemove ==
  ASSUME NEW t \in Terms, At(t, "remove"),
         \/ Type(t) \/ Step(t) \/ CloneFails(t) \/ ProcessEnds(t)
         \/ Interrupt(t) \/ Killed(t) \/ Deafens(t)
  PROVE  RemoveEphemeral(t) \/ Killed(t)
BY DEF Type, Step, CloneFails, ProcessEnds, Deafens, Interrupt, LoadKit, Resolve, CaOpen,
       CaWriteKey, CaWriteCert, Ensure, EnsureImage, Create, Reload, StartTask, Clear, NewTask,
       Start, Undo, UndoDelete, EnsureClone, Cloned, ScriptEnds, CloneCut, Exec, Told, Look,
       Term, TermDelete, RmDelete, At

(* Whoever changes the command of a terminal is that terminal. *)
LEMMA OwnStep ==
  ASSUME IInv, [Next]_vars, NEW t \in Terms, cmd'[t] # cmd[t]
  PROVE  \/ Type(t) \/ Step(t) \/ CloneFails(t) \/ ProcessEnds(t)
         \/ Interrupt(t) \/ Killed(t) \/ Deafens(t)
<1>1. Next
  BY DEF vars
<1>2. PICK s \in Terms : \/ Type(s) \/ Step(s) \/ CloneFails(s) \/ ProcessEnds(s)
                         \/ Interrupt(s) \/ Killed(s) \/ Deafens(s)
  BY <1>1 DEF Next
<1>3. Alone(s)
  BY <1>2, StepAlone
<1>4. s = t
  BY <1>3 DEF Alone
<1> QED BY <1>2, <1>4

(* A command that found no sandbox of its directory makes one beside       *)
(* another of that directory only where the other was made after it had    *)
(* looked, whatever other sandboxes of that base name have come and gone.  *)
THEOREM RunsReattach == Spec => ReattachesToItsOwn
<1>1. ASSUME IInv, [Next]_vars, NEW t \in Terms, At(t, "create"), cmd[t].op # "runrm",
             cmd[t].how = "new", NEW n \in Names, ctr[n] # None, n[1] = "dir",
             ctr[n].ws = cmd[t].ws
      PROVE  ctr[n].id > cmd[t].seen
  <2>1. Knows(cmd[t]) /\ Right(cmd[t]) /\ cmd[t].pc \in Setup /\ cmd[t].pc \notin Early
    BY <1>1 DEF IInv, Owners, At, Setup, Early
  <2>2. Looked(cmd[t])
    BY <2>1 DEF Knows, Right
  <2> QED BY <1>1, <2>2 DEF Looked
<1>2. IInv /\ [Next]_vars =>
        [\A t \in Terms :
           (/\ At(t, "create") /\ cmd[t].op # "runrm" /\ cmd[t].how = "new"
            /\ made' = made + 1 /\ cmd'[t] # cmd[t])
           => \A n \in Names :
                ctr[n] # None /\ n[1] = "dir" /\ ctr[n].ws = cmd[t].ws
                  => ctr[n].id > cmd[t].seen]_vars
  BY <1>1
<1> QED BY <1>2, SandboxInvariant, PTL DEF Spec, ReattachesToItsOwn

(* When an ephemeral run has ended its container is gone, or its user was  *)
(* told that it is not; one that failed leaves it only where a task holds  *)
(* it, and then the run asked for a clone, or its task was created and     *)
(* never started, or another command changed the task.                     *)
THEOREM EphemeralsGo == Spec => EphemeralGone
<1>1. ASSUME IInv, [Next]_vars, NEW t \in Terms, At(t, "remove"), cmd'[t].pc = "idle",
             faults' = faults
      PROVE  \/ ctr'[Name(t)] = None
             \/ /\ cmd[t].err # "" /\ task[Name(t)] # "none"
                /\ cmd[t].clone \/ task[Name(t)] = "created" \/ Name(t) \in lent
  <2>1. RemoveEphemeral(t) \/ Killed(t)
    <3>1. cmd'[t] # cmd[t]
      BY <1>1 DEF At
    <3> QED BY <1>1, <3>1, OwnStep, StepAtRemove
  <2>2. TypeOK /\ cmd[t] \in CmdType /\ Name(t) \in Names
    BY <1>1 DEF IInv, TypeOK, Owners, Knows, At, Early, Name
  <2>3. ~Killed(t)
    BY <1>1, <2>2 DEF Killed, Fault, TypeOK
  <2>4. CASE CanDelete(Name(t))
    <3>1. DeleteContainer(Name(t))
      BY <2>1, <2>3, <2>4 DEF RemoveEphemeral
    <3> QED BY <2>2, <3>1 DEF DeleteContainer, TypeOK
  <2>5. CASE ~CanDelete(Name(t))
    <3>1. UNCHANGED ctr /\ (cmd[t].err = "" => Goto(t, "told"))
      BY <2>1, <2>3, <2>5 DEF RemoveEphemeral
    <3>2. cmd[t].err # ""
      <4>1. ASSUME Goto(t, "told") PROVE FALSE
        <5>1. cmd'[t].pc = "told"
          BY <2>2, <4>1 DEF Goto, TypeOK, CmdType
        <5> QED BY <1>1, <5>1
      <4> QED BY <3>1, <4>1
    <3>3. task[Name(t)] # "none" => cmd[t].clone \/ task[Name(t)] = "created" \/ Name(t) \in lent
      <4>1. Path(cmd[t]) /\ Rests(cmd[t])
        BY <1>1 DEF IInv, Loans
      <4>2. cmd[t].op = "runrm" /\ cmd[t].clone \in BOOLEAN
        BY <1>1, <2>2, <4>1 DEF Path, At, CmdType
      <4> QED BY <1>1, <3>2, <4>1, <4>2 DEF Rests, At, Name
    <3> QED BY <2>5, <3>1, <3>2, <3>3 DEF CanDelete, Find
  <2> QED BY <2>4, <2>5
<1>2. IInv /\ [Next]_vars =>
        [\A t \in Terms :
           At(t, "remove") /\ cmd'[t].pc = "idle" /\ faults' = faults
           => \/ ctr'[Name(t)] = None
              \/ /\ cmd[t].err # "" /\ task[Name(t)] # "none"
                 /\ cmd[t].clone \/ task[Name(t)] = "created" \/ Name(t) \in lent]_vars
  BY <1>1
<1> QED BY <1>2, SandboxInvariant, PTL DEF Spec, EphemeralGone

---------------------------------------------------------------------------
(* The files of an image, however many layers it has.                      *)

LEMMA LeastIndex ==
  ASSUME NEW T, T \subseteq Nat, T # {}
  PROVE  Min(T) \in T /\ \A y \in T : Min(T) <= y
<1> DEFINE R == OpToRel(<, Nat)
<1>1. IsWellFoundedOn(R, Nat)
  BY NatLessThanWellFounded
<1>2. \A x, y \in Nat : x < y => <<x, y>> \in R
  BY DEF OpToRel
<1> HIDE DEF R
<1>3. \E x \in T : \A y \in T : <<y, x>> \notin R
  BY <1>1, WFMin
<1>4. \A x, y \in Nat : <<y, x>> \notin R => x <= y
  BY <1>2
<1>5. \E x \in T : \A y \in T : x <= y
  BY <1>3, <1>4
<1> QED BY <1>5 DEF Min

LEMMA GreatestIndex ==
  ASSUME NEW n \in Nat, NEW T, T \subseteq 1 .. n, T # {}
  PROVE  \E x \in T : \A y \in T : y <= x
<1> DEFINE B == {k \in 0 .. n : \A y \in T : y <= k}
<1>1. n \in B
  OBVIOUS
<1>2. B \subseteq Nat
  OBVIOUS
<1>3. Min(B) \in B /\ \A k \in B : Min(B) <= k
  BY <1>1, <1>2, LeastIndex
<1>4. ASSUME Min(B) \notin T
      PROVE  FALSE
  <2>1. PICK y \in T : TRUE
    OBVIOUS
  <2>2. Min(B) \in 0 .. n /\ y \in 1 .. n /\ y <= Min(B)
    BY <1>3
  <2>3. \A z \in T : z <= Min(B) - 1
    BY <1>3, <1>4
  <2>4. Min(B) - 1 \in B
    BY <2>2, <2>3
  <2> QED BY <1>3, <2>2, <2>4
<1> QED BY <1>3, <1>4

(* The layer that settles what a file is, among the first n. *)
Settles(layer, file) == layer.files[file] # None \/ Removes(layer, file)
Deciding(layers, file, n) == {i \in 1 .. n : Settles(layers[i], file)}
Topmost(layers, file, n) ==
  CHOOSE i \in Deciding(layers, file, n) : \A j \in Deciding(layers, file, n) : j <= i
Answer(layers, file, n) ==
  IF Deciding(layers, file, n) = {} THEN None ELSE layers[Topmost(layers, file, n)].files[file]

LEMMA TopmostDecides ==
  ASSUME NEW layers, NEW file, NEW n \in Nat, Deciding(layers, file, n) # {}
  PROVE  /\ Topmost(layers, file, n) \in Deciding(layers, file, n)
         /\ \A j \in Deciding(layers, file, n) : j <= Topmost(layers, file, n)
<1>1. \E x \in Deciding(layers, file, n) : \A y \in Deciding(layers, file, n) : y <= x
  <2>1. Deciding(layers, file, n) \subseteq 1 .. n
    BY DEF Deciding
  <2> QED BY <2>1, GreatestIndex
<1> QED BY <1>1 DEF Topmost

(* One layer more is laid over what those below it show. *)
LEMMA AnswerStep ==
  ASSUME NEW layers, NEW file, NEW n \in Nat \ {0}
  PROVE  Answer(layers, file, n) = Over(layers[n], file, Answer(layers, file, n - 1))
<1>1. n - 1 \in Nat /\ 1 .. n = (1 .. (n - 1)) \cup {n} /\ n \notin 1 .. (n - 1)
  OBVIOUS
<1>2. CASE Settles(layers[n], file)
  <2>1. n \in Deciding(layers, file, n) /\ \A j \in Deciding(layers, file, n) : j <= n
    BY <1>2 DEF Deciding
  <2>2. Topmost(layers, file, n) = n
    <3>1. /\ Topmost(layers, file, n) \in Deciding(layers, file, n)
          /\ \A j \in Deciding(layers, file, n) : j <= Topmost(layers, file, n)
      BY <2>1, TopmostDecides
    <3>2. Deciding(layers, file, n) \subseteq 1 .. n
      BY DEF Deciding
    <3> QED BY <2>1, <3>1, <3>2
  <2>3. Answer(layers, file, n) = layers[n].files[file]
    BY <2>1, <2>2 DEF Answer
  <2> QED BY <1>2, <2>3 DEF Over, Settles
<1>3. CASE ~Settles(layers[n], file)
  <2>1. Deciding(layers, file, n) = Deciding(layers, file, n - 1)
    BY <1>1, <1>3 DEF Deciding
  <2>2. Answer(layers, file, n) = Answer(layers, file, n - 1)
    BY <2>1 DEF Answer, Topmost
  <2> QED BY <1>3, <2>2 DEF Over, Settles
<1> QED BY <1>2, <1>3

(* What the layers show, laid over each other from the bottom, is what the *)
(* topmost one that settles it says.                                       *)
LEMMA MergedAnswer ==
  ASSUME NEW layers, Len(layers) \in Nat, NEW file
  PROVE  Merged(layers, file) = Answer(layers, file, Len(layers))
<1> DEFINE N == Len(layers)
           Laid(f) == [n \in 0 .. N |-> IF n = 0 THEN None ELSE Over(layers[n], file, f[n - 1])]
           f == CHOOSE g : g = Laid(g)
           a == [n \in 0 .. N |-> Answer(layers, file, n)]
<1>1. a = Laid(a)
  <2>1. ASSUME NEW n \in 0 .. N
        PROVE  a[n] = IF n = 0 THEN None ELSE Over(layers[n], file, a[n - 1])
    <3>1. CASE n = 0
      BY <3>1 DEF Answer, Deciding
    <3>2. CASE n # 0
      <4>1. n \in Nat \ {0} /\ n - 1 \in 0 .. N
        BY <3>2
      <4>2. a[n] = Answer(layers, file, n) /\ a[n - 1] = Answer(layers, file, n - 1)
        BY <4>1
      <4> HIDE DEF a, N
      <4> QED BY <3>2, <4>1, <4>2, AnswerStep
    <3> QED BY <3>1, <3>2
  <2> HIDE DEF N
  <2> QED BY <2>1
<1>2. f = Laid(f)
  BY <1>1
<1>3. \A n \in 0 .. N : f[n] = IF n = 0 THEN None ELSE Over(layers[n], file, f[n - 1])
  <2> HIDE DEF f, a
  <2> QED BY <1>2
<1>4. \A n \in 0 .. N : a[n] = IF n = 0 THEN None ELSE Over(layers[n], file, a[n - 1])
  <2> HIDE DEF f, a
  <2> QED BY <1>1
<1> HIDE DEF a, f
<1>5. \A n \in 0 .. N : f[n] = a[n]
  <2> DEFINE T == {n \in 0 .. N : f[n] # a[n]}
  <2> SUFFICES ASSUME T # {} PROVE FALSE
    OBVIOUS
  <2>1. T \subseteq Nat
    OBVIOUS
  <2>2. Min(T) \in T /\ \A n \in T : Min(T) <= n
    BY <2>1, LeastIndex
  <2> DEFINE n == Min(T)
  <2>3. n \in 0 .. N /\ f[n] # a[n]
    BY <2>2
  <2>4. n # 0
    BY <1>3, <1>4, <2>3
  <2>5. n - 1 \in 0 .. N /\ f[n - 1] = a[n - 1]
    <3>1. n - 1 \in 0 .. N /\ ~(n <= n - 1)
      BY <2>3, <2>4
    <3> QED BY <2>2, <3>1
  <2> QED BY <1>3, <1>4, <2>3, <2>4, <2>5
<1>6. N \in 0 .. N
  OBVIOUS
<1>7. Merged(layers, file) = f[N]
  BY DEF Merged, f
<1>8. a[N] = Answer(layers, file, N)
  BY <1>6 DEF a
<1> QED BY <1>5, <1>6, <1>7, <1>8

(* What is found layer by layer from the top is the merged file, where the *)
(* layers can be read.                                                     *)
LEMMA FilesAgree ==
  ASSUME NEW layers, IsSequence(layers), NEW file,
         \A i \in DOMAIN layers : "root/opaque" \notin layers[i].gone /\ layers[i].links = {}
  PROVE  FindLayerFile(layers, file) = MergedFile(layers, file)
<1> DEFINE N == Len(layers)
<1>1. N \in Nat /\ DOMAIN layers = 1 .. N
  BY DEF IsSequence
<1>2. Merged(layers, file) = Answer(layers, file, N)
  BY <1>1, MergedAnswer
<1>3. {i \in DOMAIN layers : Decides(layers[i], file)} = Deciding(layers, file, N)
  <2>1. \A i \in DOMAIN layers : Decides(layers[i], file) <=> Settles(layers[i], file)
    BY DEF Decides, Hides, Settles, Removes
  <2> QED BY <1>1, <2>1 DEF Deciding
<1>4. CASE Deciding(layers, file, N) = {}
  <2>1. TopLayer(layers, file) = 0
    BY <1>3, <1>4 DEF TopLayer
  <2> QED BY <1>2, <1>4, <2>1 DEF FindLayerFile, MergedFile, Answer
<1>5. CASE Deciding(layers, file, N) # {}
  <2>1. TopLayer(layers, file) = Topmost(layers, file, N)
    BY <1>3, <1>5 DEF TopLayer, Topmost
  <2>2. Topmost(layers, file, N) \in 1 .. N
    BY <1>1, <1>5, TopmostDecides DEF Deciding
  <2>3. file \notin layers[Topmost(layers, file, N)].links
    BY <1>1, <2>2
  <2> QED BY <1>2, <1>5, <2>1, <2>2, <2>3 DEF FindLayerFile, MergedFile, Answer
<1> QED BY <1>4, <1>5

(* Either way an entry of it is one of an image. *)
LEMMA FileTyped ==
  ASSUME NEW image, ImageOk(image), NEW file \in EtcFiles
  PROVE  FileOk(MergedFile(image.layers, file), file)
<1> DEFINE layers == image.layers
           N == Len(layers)
<1>1. IsSequence(layers) /\ N \in Nat /\ DOMAIN layers = 1 .. N
  BY DEF ImageOk, IsSequence
<1>2. Merged(layers, file) = Answer(layers, file, N)
  BY <1>1, MergedAnswer
<1>3. FileOk(<<>>, file)
  BY DEF FileOk, IsSequence
<1>4. CASE Merged(layers, file) # None
  <2>1. Deciding(layers, file, N) # {}
    BY <1>2, <1>4 DEF Answer
  <2>2. Topmost(layers, file, N) \in DOMAIN layers
    BY <1>1, <2>1, TopmostDecides DEF Deciding
  <2> QED BY <1>2, <1>4, <2>1, <2>2 DEF Answer, MergedFile, ImageOk
<1> QED BY <1>3, <1>4 DEF MergedFile

LEMMA FoundTyped ==
  ASSUME NEW image, ImageOk(image), NEW file \in EtcFiles
  PROVE  FileOk(FindLayerFile(image.layers, file), file)
<1> DEFINE layers == image.layers
           T == {i \in DOMAIN layers : Decides(layers[i], file)}
<1>1. FileOk(<<>>, file)
  BY DEF FileOk, IsSequence
<1>2. CASE TopLayer(layers, file) = 0
  BY <1>1, <1>2 DEF FindLayerFile
<1>3. CASE TopLayer(layers, file) # 0
  <2>1. DOMAIN layers = 1 .. Len(layers) /\ Len(layers) \in Nat
    BY DEF ImageOk, IsSequence
  <2>2. T # {} /\ TopLayer(layers, file) = CHOOSE i \in T : \A j \in T : j <= i
    BY <1>3 DEF TopLayer
  <2>3. T \subseteq 1 .. Len(layers)
    BY <2>1
  <2>4. \E i \in T : \A j \in T : j <= i
    <3> HIDE DEF T
    <3> QED BY <2>1, <2>2, <2>3, GreatestIndex
  <2>5. TopLayer(layers, file) \in DOMAIN layers
    BY <2>2, <2>4
  <2> QED BY <1>1, <2>5 DEF FindLayerFile, ImageOk
<1> QED BY <1>2, <1>3

---------------------------------------------------------------------------
(* The user an image names.                                                *)

(* Where the files can be read, both ways give the user that they name:    *)
(* nothing makes the root opaque, and none of the files is a link.         *)
THEOREM RunsAsNamed ==
  ASSUME NEW m, ImageOk(m.image)
  PROVE  RunsAsTheImageSays(m)
<1> DEFINE image == m.image
           want == UserFromMount(image)
           got == ImageUser(image, m.host)
<1> SUFFICES ASSUME want.ok, Readable(image)
             PROVE  /\ got.ok /\ got.spec.uid = want.spec.uid /\ got.spec.gid = want.spec.gid
                    /\ (image.user # None /\ NeedsImageUserFiles(image.user))
                         => got.spec.groups = want.spec.groups
  BY DEF RunsAsTheImageSays, SameUser
<1>1. CASE m.host.goos = "linux" /\ ~m.host.resolves
  BY <1>1 DEF ImageUser
<1>2. CASE ~(m.host.goos = "linux" /\ ~m.host.resolves)
  <2>1. got = Fine(UserFromLayers(image), {})
    BY <1>2 DEF ImageUser
  <2>2. got.ok /\ got.spec = UserFromLayers(image)
    BY <2>1 DEF Fine
  <2>3. CASE image.user = None
    <3>1. UserFromLayers(image) = Root
      BY <2>3 DEF UserFromLayers
    <3>2. want.spec = Root
      BY <2>3 DEF UserFromMount, Fine
    <3> QED BY <2>2, <2>3, <3>1, <3>2
  <2>4. CASE image.user # None /\ ~NeedsImageUserFiles(image.user)
    <3>1. ParseID(image.user.u) /\ image.user.g # None /\ ParseID(image.user.g)
      BY <2>4 DEF NeedsImageUserFiles
    <3>2. UserFromLayers(image) = ApplyImageUser(image.user)
      BY <2>4 DEF UserFromLayers
    <3>3. UserFromLayers(image).uid = image.user.u.id /\ UserFromLayers(image).gid = image.user.g.id
      BY <3>1, <3>2 DEF ApplyImageUser
    <3>4. want.spec.uid = image.user.u.id /\ want.spec.gid = image.user.g.id
      BY <2>4, <3>1 DEF UserFromMount, ResolveUserString, Fine, Refused
    <3> QED BY <2>2, <2>4, <3>3, <3>4
  <2>5. CASE image.user # None /\ NeedsImageUserFiles(image.user)
    <3>1. ~ScanFails(image.layers)
      BY DEF ScanFails, Readable
    <3>2. want = ResolveUserString(image.user, FindLayerFile(image.layers, "passwd"),
                                   FindLayerFile(image.layers, "group"))
      <4>1. /\ IsSequence(image.layers)
            /\ \A i \in DOMAIN image.layers :
                 "root/opaque" \notin image.layers[i].gone /\ image.layers[i].links = {}
        BY DEF ImageOk, Readable
      <4>2. \A f \in EtcFiles : FindLayerFile(image.layers, f) = MergedFile(image.layers, f)
        BY <4>1, FilesAgree
      <4> QED BY <2>5, <4>2 DEF UserFromMount, EtcFiles
    <3>3. UserFromLayers(image) = want.spec
      BY <2>5, <3>1, <3>2 DEF UserFromLayers
    <3> QED BY <2>2, <3>3
  <2> QED BY <2>3, <2>4, <2>5
<1> QED BY <1>1, <1>2

(* And its ids are ids. *)
LEMMA ResolvedTyped ==
  ASSUME IdSpace \in Nat \ {0}, NEW user, NEW passwd, NEW group,
         HalfOk(user.u), user.g # None => HalfOk(user.g),
         FileOk(passwd, "passwd"), FileOk(group, "group"),
         ResolveUserString(user, passwd, group).ok
  PROVE  /\ ResolveUserString(user, passwd, group).spec.uid \in Ids
         /\ ResolveUserString(user, passwd, group).spec.gid \in Ids
<1> DEFINE P == {i \in DOMAIN passwd : IF ParseID(user.u) THEN passwd[i].uid = user.u.id
                                       ELSE passwd[i].name = user.u.name}
           G == {i \in DOMAIN group : group[i].name = user.g.name}
           entry == IF P = {} THEN None ELSE passwd[Min(P)]
           named == IF G = {} THEN None ELSE group[Min(G)]
           uid == IF ParseID(user.u) THEN user.u.id ELSE entry.uid
           primary == IF entry = None THEN 0 ELSE entry.gid
           gid == IF user.g = None THEN primary
                  ELSE IF ParseID(user.g) THEN user.g.id ELSE named.gid
           groups == IF entry = None THEN {}
                     ELSE {g.gid : g \in {x \in Range(group) : entry.name \in x.members}}
           result == IF \/ ~ParseID(user.u) /\ entry = None
                        \/ user.g # None /\ ~ParseID(user.g) /\ named = None
                     THEN Refused
                     ELSE Fine([uid |-> uid, gid |-> gid, groups |-> groups \cup {gid}], {})
<1>1. ResolveUserString(user, passwd, group) = result
  BY DEF ResolveUserString, FirstOf
<1>2. DOMAIN passwd \subseteq Nat /\ DOMAIN group \subseteq Nat
  BY DEF FileOk, IsSequence
<1>3. P # {} => Min(P) \in DOMAIN passwd
  <2>1. P \subseteq Nat
    BY <1>2
  <2> QED BY <2>1, LeastIndex
<1>4. G # {} => Min(G) \in DOMAIN group
  <2>1. G \subseteq Nat
    BY <1>2
  <2> QED BY <2>1, LeastIndex
<1> HIDE DEF P, G
<1>5. entry # None => entry.uid \in Ids /\ entry.gid \in Ids
  BY <1>3 DEF FileOk
<1>6. named # None => named.gid \in Ids
  BY <1>4 DEF FileOk
<1>7. 0 \in Ids
  BY DEF Ids
<1>8. result.ok => /\ ParseID(user.u) \/ entry # None
                   /\ user.g = None \/ ParseID(user.g) \/ named # None
                   /\ result.spec.uid = uid /\ result.spec.gid = gid
  <2> HIDE DEF entry, named, uid, gid, groups
  <2> QED BY DEF Refused, Fine
<1> HIDE DEF entry, named, groups
<1>9. result.ok => uid \in Ids /\ gid \in Ids
  <2>1. result.ok => uid \in Ids
    BY <1>5, <1>8 DEF HalfOk
  <2>2. result.ok => gid \in Ids
    BY <1>5, <1>6, <1>7, <1>8 DEF HalfOk
  <2> QED BY <2>1, <2>2
<1> HIDE DEF result
<1> QED BY <1>1, <1>8, <1>9

LEMMA ImageUserTyped ==
  ASSUME IdSpace \in Nat \ {0}, NEW image, ImageOk(image), NEW host, ImageUser(image, host).ok
  PROVE  ImageUser(image, host).spec.uid \in Ids /\ ImageUser(image, host).spec.gid \in Ids
<1> DEFINE merged == ResolveUserString(image.user, MergedFile(image.layers, "passwd"),
                                       MergedFile(image.layers, "group"))
           found == ResolveUserString(image.user, FindLayerFile(image.layers, "passwd"),
                                      FindLayerFile(image.layers, "group"))
<1>1. \A f \in EtcFiles : /\ FileOk(MergedFile(image.layers, f), f)
                         /\ FileOk(FindLayerFile(image.layers, f), f)
  BY FileTyped, FoundTyped
<1>2. image.user # None => HalfOk(image.user.u) /\ (image.user.g # None => HalfOk(image.user.g))
  BY DEF ImageOk
<1>3. image.user # None /\ merged.ok => merged.spec.uid \in Ids /\ merged.spec.gid \in Ids
  BY <1>1, <1>2, ResolvedTyped DEF EtcFiles
<1>4. image.user # None /\ found.ok => found.spec.uid \in Ids /\ found.spec.gid \in Ids
  BY <1>1, <1>2, ResolvedTyped DEF EtcFiles
<1>5. Root.uid \in Ids /\ Root.gid \in Ids
  BY DEF Root, Ids
<1>6. image.user # None =>
        ApplyImageUser(image.user).uid \in Ids /\ ApplyImageUser(image.user).gid \in Ids
  <2>1. 0 \in Ids
    BY DEF Ids
  <2> QED BY <1>2, <2>1 DEF ApplyImageUser, HalfOk
<1>7. CASE host.goos = "linux" /\ ~host.resolves
  <2>1. ImageUser(image, host) = IF image.user = None THEN Fine(Root, {}) ELSE merged
    BY <1>7 DEF ImageUser, UserFromMount
  <2> HIDE DEF merged
  <2> QED BY <1>3, <1>5, <2>1 DEF Fine
<1>8. CASE ~(host.goos = "linux" /\ ~host.resolves)
  <2>1. ImageUser(image, host).spec = UserFromLayers(image)
    BY <1>8 DEF ImageUser, Fine
  <2>2. \/ image.user = None /\ UserFromLayers(image) = Root
        \/ image.user # None /\ UserFromLayers(image) = ApplyImageUser(image.user)
        \/ image.user # None /\ found.ok /\ UserFromLayers(image) = found.spec
    BY DEF UserFromLayers
  <2> HIDE DEF found
  <2> QED BY <1>4, <1>5, <1>6, <2>1, <2>2
<1> QED BY <1>7, <1>8

---------------------------------------------------------------------------
(* The mapping of a share.                                                 *)
Inside(e, id) == id \in e.seen .. (e.seen + e.size - 1)
Outside(e, id) == id \in e.disk .. (e.disk + e.size - 1)

(* What is in a mapping that has two ids trade places. *)
LEMMA SwapEntries ==
  ASSUME IdSpace \in Nat \ {0}, NEW a \in Ids, NEW b \in Ids, a # b
  PROVE  \E lo, hi \in Ids :
           /\ lo < hi /\ ((lo = a /\ hi = b) \/ (lo = b /\ hi = a))
           /\ \A e : e \in SwapIDMapping(a, b) <=>
                \/ lo > 0 /\ e = Entry(0, 0, lo)
                \/ e = Entry(lo, hi, 1)
                \/ e = Entry(hi, lo, 1)
                \/ hi - lo > 1 /\ e = Entry(lo + 1, lo + 1, hi - lo - 1)
                \/ hi < IdSpace - 1 /\ e = Entry(hi + 1, hi + 1, IdSpace - hi - 1)
<1> DEFINE lo == IF a < b THEN a ELSE b
           hi == IF a < b THEN b ELSE a
<1>1. SwapIDMapping(a, b) =
        UNION {IF lo > 0 THEN {Entry(0, 0, lo)} ELSE {},
               {Entry(lo, hi, 1), Entry(hi, lo, 1)},
               IF hi - lo > 1 THEN {Entry(lo + 1, lo + 1, hi - lo - 1)} ELSE {},
               IF hi < IdSpace - 1 THEN {Entry(hi + 1, hi + 1, IdSpace - hi - 1)} ELSE {}}
  BY DEF SwapIDMapping
<1>2. lo \in Ids /\ hi \in Ids /\ lo < hi /\ ((lo = a /\ hi = b) \/ (lo = b /\ hi = a))
  BY DEF Ids
<1> HIDE DEF lo, hi
<1>3. \A e : e \in SwapIDMapping(a, b) <=>
                \/ lo > 0 /\ e = Entry(0, 0, lo)
                \/ e = Entry(lo, hi, 1)
                \/ e = Entry(hi, lo, 1)
                \/ hi - lo > 1 /\ e = Entry(lo + 1, lo + 1, hi - lo - 1)
                \/ hi < IdSpace - 1 /\ e = Entry(hi + 1, hi + 1, IdSpace - hi - 1)
  BY <1>1
<1> QED BY <1>2, <1>3

(* Such a mapping gives each id one place on either side, and shows the    *)
(* first as the second.                                                    *)
LEMMA SwapMaps ==
  ASSUME IdSpace \in Nat \ {0}, NEW a \in Ids, NEW b \in Ids
  PROVE  Covers(SwapIDMapping(a, b)) /\ OnDisk(SwapIDMapping(a, b), b) = a
<1> DEFINE mapping == SwapIDMapping(a, b)
<1>1. ASSUME NEW id \in 0 .. IdSpace
      PROVE  IF id < IdSpace
             THEN /\ \E e \in mapping : \A x \in mapping : Inside(x, id) <=> x = e
                  /\ \E e \in mapping : \A x \in mapping : Outside(x, id) <=> x = e
             ELSE \A x \in mapping : ~Inside(x, id) /\ ~Outside(x, id)
  <2>1. CASE a = b
    <3>1. mapping = {Entry(0, 0, IdSpace)}
      BY <2>1 DEF SwapIDMapping
    <3>2. /\ Inside(Entry(0, 0, IdSpace), id) <=> id < IdSpace
          /\ Outside(Entry(0, 0, IdSpace), id) <=> id < IdSpace
      BY DEF Inside, Outside, Entry
    <3> QED BY <3>1, <3>2
  <2>2. CASE a # b
    <3>1. PICK lo \in Ids, hi \in Ids :
           /\ lo < hi /\ ((lo = a /\ hi = b) \/ (lo = b /\ hi = a))
           /\ \A e : e \in mapping <=>
                \/ lo > 0 /\ e = Entry(0, 0, lo)
                \/ e = Entry(lo, hi, 1)
                \/ e = Entry(hi, lo, 1)
                \/ hi - lo > 1 /\ e = Entry(lo + 1, lo + 1, hi - lo - 1)
                \/ hi < IdSpace - 1 /\ e = Entry(hi + 1, hi + 1, IdSpace - hi - 1)
      BY <2>2, SwapEntries
    <3> DEFINE E1 == Entry(0, 0, lo)
               E2 == Entry(lo, hi, 1)
               E3 == Entry(hi, lo, 1)
               E4 == Entry(lo + 1, lo + 1, hi - lo - 1)
               E5 == Entry(hi + 1, hi + 1, IdSpace - hi - 1)
    <3>2. /\ lo \in Nat /\ hi \in Nat /\ lo < hi /\ hi < IdSpace /\ id \in Nat /\ id <= IdSpace
          /\ IdSpace \in Nat
      BY <3>1 DEF Ids
    <3>3. /\ Inside(E1, id) <=> id < lo
          /\ Inside(E2, id) <=> id = hi
          /\ Inside(E3, id) <=> id = lo
          /\ Inside(E4, id) <=> lo < id /\ id < hi
          /\ Inside(E5, id) <=> hi < id /\ id < IdSpace
      BY <3>2 DEF Inside, Entry
    <3>4. /\ Outside(E1, id) <=> id < lo
          /\ Outside(E2, id) <=> id = lo
          /\ Outside(E3, id) <=> id = hi
          /\ Outside(E4, id) <=> lo < id /\ id < hi
          /\ Outside(E5, id) <=> hi < id /\ id < IdSpace
      BY <3>2 DEF Outside, Entry
    <3>5. \A e : e \in mapping <=>
                \/ lo > 0 /\ e = E1
                \/ e = E2
                \/ e = E3
                \/ hi - lo > 1 /\ e = E4
                \/ hi < IdSpace - 1 /\ e = E5
      BY <3>1
    <3> HIDE DEF E1, E2, E3, E4, E5, mapping
    <3>6. CASE id < lo
      <4>1. E1 \in mapping
        BY <3>2, <3>5, <3>6
      <4> QED BY <3>2, <3>3, <3>4, <3>5, <3>6, <4>1
    <3>7. CASE id = lo
      <4>1. E2 \in mapping /\ E3 \in mapping
        BY <3>5
      <4> QED BY <3>2, <3>3, <3>4, <3>5, <3>7, <4>1
    <3>8. CASE lo < id /\ id < hi
      <4>1. E4 \in mapping
        BY <3>2, <3>5, <3>8
      <4> QED BY <3>2, <3>3, <3>4, <3>5, <3>8, <4>1
    <3>9. CASE id = hi
      <4>1. E2 \in mapping /\ E3 \in mapping
        BY <3>5
      <4> QED BY <3>2, <3>3, <3>4, <3>5, <3>9, <4>1
    <3>10. CASE hi < id /\ id < IdSpace
      <4>1. E5 \in mapping
        BY <3>2, <3>5, <3>10
      <4> QED BY <3>2, <3>3, <3>4, <3>5, <3>10, <4>1
    <3>11. CASE id = IdSpace
      BY <3>2, <3>3, <3>4, <3>5, <3>11
    <3> QED BY <3>2, <3>6, <3>7, <3>8, <3>9, <3>10, <3>11
  <2> QED BY <2>1, <2>2
<1>2. Covers(mapping)
  <2> SUFFICES ASSUME NEW id \in 0 .. IdSpace
               PROVE  LET inside == {e \in mapping : Inside(e, id)}
                          outside == {e \in mapping : Outside(e, id)}
                      IN  IF id < IdSpace
                          THEN \E e, f \in mapping : inside = {e} /\ outside = {f}
                          ELSE inside = {} /\ outside = {}
    BY DEF Covers, Inside, Outside
  <2> HIDE DEF mapping
  <2> DEFINE inside == {e \in mapping : Inside(e, id)}
             outside == {e \in mapping : Outside(e, id)}
  <2>1. CASE id < IdSpace
    <3>1. PICK e \in mapping : \A x \in mapping : Inside(x, id) <=> x = e
      BY <1>1, <2>1
    <3>2. PICK f \in mapping : \A x \in mapping : Outside(x, id) <=> x = f
      BY <1>1, <2>1
    <3>3. inside = {e} /\ outside = {f}
      BY <3>1, <3>2
    <3> QED BY <2>1, <3>3
  <2>2. CASE ~(id < IdSpace)
    <3>1. inside = {} /\ outside = {}
      BY <1>1, <2>2
    <3> QED BY <2>2, <3>1
  <2> QED BY <2>1, <2>2
<1>3. OnDisk(mapping, b) = a
  <2>1. b \in 0 .. IdSpace /\ b < IdSpace /\ b \in Nat /\ a \in Nat
    BY DEF Ids
  <2>2. PICK e \in mapping : \A x \in mapping : Inside(x, b) <=> x = e
    BY <1>1, <2>1
  <2>3. OnDisk(mapping, b) = e.disk + (b - e.seen)
    <3>1. mapping # {}
      BY <2>2
    <3>2. (CHOOSE x \in mapping : Inside(x, b)) = e
      BY <2>2
    <3> QED BY <3>1, <3>2 DEF OnDisk, Inside
  <2>4. CASE a = b
    <3>1. mapping = {Entry(0, 0, IdSpace)}
      BY <2>4 DEF SwapIDMapping
    <3>2. e.disk = 0 /\ e.seen = 0
      BY <2>2, <3>1 DEF Entry
    <3> QED BY <2>1, <2>3, <2>4, <3>2
  <2>5. CASE a # b
    <3>1. Entry(a, b, 1) \in mapping
      BY <2>5, SwapEntries
    <3>2. Inside(Entry(a, b, 1), b)
      BY <2>1 DEF Inside, Entry
    <3>3. e = Entry(a, b, 1)
      BY <2>2, <3>1, <3>2
    <3> QED BY <2>1, <2>3, <3>3 DEF Entry
  <2> QED BY <2>4, <2>5
<1> QED BY <1>2, <1>3

(* Where a user who is not root shares a directory, the process is not     *)
(* root and what it writes there is the user's, for every image, host and  *)
(* list of shares.                                                         *)
THEOREM OwnsItsFiles ==
  ASSUME IdSpace \in Nat \ {0}, NEW m, MachineOk(m)
  PROVE  OwnsWhatItWrites(m)
<1> DEFINE from == ImageUser(m.image, m.host)
           result == SpecOptions(m)
           given == GuestShares(m.shares, m.clone)
<1> SUFFICES ASSUME result.ok, m.shares # <<>>, m.host.goos # "windows", m.host.uid # 0
             PROVE  /\ result.spec.user.uid # 0
                    /\ \A i \in DOMAIN result.spec.mounts :
                         LET mount == result.spec.mounts[i]
                             user == result.spec.user
                         IN  mount.mode = "rw" => /\ Covers(mount.uids) /\ Covers(mount.gids)
                                                  /\ OnDisk(mount.uids, user.uid) = m.host.uid
                                                  /\ OnDisk(mount.gids, user.gid) = m.host.gid
  BY DEF OwnsWhatItWrites
<1>1. m.host.uid \in Ids /\ m.host.gid \in Ids /\ ~(m.host.uid <= 0)
  BY DEF MachineOk, Ids
<1>2. from.ok
  BY DEF SpecOptions, Refused
<1>3. from.spec.uid \in Ids /\ from.spec.gid \in Ids
  BY <1>2, ImageUserTyped DEF MachineOk
<1>4. result.spec = Reconcile(from.spec, given, m.host)
  BY <1>1, <1>2 DEF SpecOptions, WithHostUser, Fine
<1> HIDE DEF result, from, given
<1>5. CASE from.spec.uid # 0 /\ m.host.idmap
  <2> DEFINE uids == SwapIDMapping(m.host.uid, from.spec.uid)
             gids == SwapIDMapping(m.host.gid, from.spec.gid)
  <2>1. /\ Covers(uids) /\ OnDisk(uids, from.spec.uid) = m.host.uid
        /\ Covers(gids) /\ OnDisk(gids, from.spec.gid) = m.host.gid
    BY <1>1, <1>3, SwapMaps
  <2>2. result.spec = [user |-> from.spec, mounts |-> Mounts(given, uids, gids)]
    BY <1>4, <1>5 DEF Reconcile
  <2> HIDE DEF uids, gids
  <2>3. ASSUME NEW i \in DOMAIN result.spec.mounts, result.spec.mounts[i].mode = "rw"
        PROVE  result.spec.mounts[i].uids = uids /\ result.spec.mounts[i].gids = gids
    BY <2>2, <2>3 DEF Mounts
  <2> QED BY <1>5, <2>1, <2>2, <2>3
<1>6. CASE ~(from.spec.uid # 0 /\ m.host.idmap)
  <2>1. result.spec = [user |-> [uid |-> m.host.uid, gid |-> m.host.gid, groups |-> {m.host.gid}],
                       mounts |-> Mounts(given, {}, {})]
    BY <1>4, <1>6 DEF Reconcile
  <2>2. ASSUME NEW i \in DOMAIN result.spec.mounts
        PROVE  result.spec.mounts[i].uids = {} /\ result.spec.mounts[i].gids = {}
    BY <2>1 DEF Mounts
  <2>3. Covers({}) /\ OnDisk({}, m.host.uid) = m.host.uid /\ OnDisk({}, m.host.gid) = m.host.gid
    BY DEF Covers, OnDisk
  <2>4. result.spec.user.uid = m.host.uid /\ result.spec.user.gid = m.host.gid
    BY <2>1
  <2> QED BY <2>2, <2>3, <2>4
<1> QED BY <1>5, <1>6

(* Every container that is about to be registered owns what it writes, and *)
(* runs as the user its image names if the image's layers can be read.     *)
THEOREM GuestsIdentified == Spec => []GuestIdentity
<1>1. IInv => GuestIdentity
  <2> SUFFICES ASSUME IInv, NEW t \in Terms, cmd[t].img # None
               PROVE  RunsAsTheImageSays(cmd[t].img) /\ OwnsWhatItWrites(cmd[t].img)
    BY DEF GuestIdentity
  <2>1. cmd[t].img \in Machines
    BY DEF IInv, TypeOK, CmdType
  <2>2. IdSpace \in Nat \ {0} /\ MachineOk(cmd[t].img)
    BY <2>1, MachinesAssumption
  <2> QED BY <2>2, RunsAsNamed, OwnsItsFiles DEF MachineOk
<1> QED BY <1>1, SandboxInvariant, PTL

---------------------------------------------------------------------------
(* Kits: from the rules a model has to the rules that are attached.        *)

(* The attachments of a model of version 2, by service and domain.         *)
Attached(creds) ==
  UNION {{<<s, in.domain, KitAttachForm(in)>> :
            in \in IF creds[s].key = None THEN {} ELSE creds[s].key.inject} :
         s \in DOMAIN creds}

Given(parsed) == UNION {{<<s, x[1], x[2]>> : x \in parsed[s]} : s \in DOMAIN parsed}

LEMMA AttachedElements ==
  ASSUME NEW creds, NEW x
  PROVE  x \in Attached(creds) <=>
           \E s \in DOMAIN creds :
             creds[s].key # None /\ \E in \in creds[s].key.inject : x = <<s, in.domain, KitAttachForm(in)>>
BY DEF Attached

(* One rule survives the trip through the grammar of --inject. *)
LEMMA RuleTrip ==
  ASSUME NEW in \in InjectType, in.scheme = "", in.header # "basic", in.format \in OnePlaceholder,
         NEW k, k.form = KitAttachForm(in), ParseInject(k).ok
  PROVE  ParseInject(k).spec = {<<h, KitAttachForm(in)>> : h \in k.hosts}
<1> DEFINE header == IF in.header = "" THEN "Authorization" ELSE in.header
           form == KitAttachForm(in)
<1>1. form = <<header, in.format>> /\ header # "" /\ header # "basic" /\ in.format # ""
  BY DEF KitAttachForm, OnePlaceholder
<1> HIDE DEF header, form
<1>2. form[1] = header /\ form[2] = in.format
  BY <1>1
<1>3. k.form = form
  BY DEF form
<1>4. header # "bearer"
  <2>1. ~(k.form[1] = "bearer" /\ k.form[2] # "")
    BY DEF ParseInject, Refused
  <2> QED BY <1>1, <1>2, <1>3, <2>1
<1>5. ParseAttachment(k.form) = [header |-> header, format |-> in.format, scheme |-> "", username |-> ""]
  BY <1>1, <1>2, <1>3, <1>4 DEF ParseAttachment
<1>6. HeaderValue(ParseAttachment(k.form)) = <<header, in.format>>
  <2>1. HeaderValue([header |-> header, format |-> in.format, scheme |-> "", username |-> ""])
          = <<header, in.format>>
    BY <1>1 DEF HeaderValue
  <2> QED BY <1>5, <2>1
<1>7. ParseInject(k).spec = {<<h, HeaderValue(ParseAttachment(k.form))>> : h \in k.hosts}
  BY DEF ParseInject, Refused, Fine
<1> QED BY <1>1, <1>6, <1>7 DEF form

LEMMA SpecElements ==
  ASSUME NEW spec, NEW k
  PROVE  k \in KitInjectSpecs(spec) <=>
           \E s \in DOMAIN spec.credentials :
             /\ spec.credentials[s].key # None
             /\ \E i \in spec.credentials[s].key.inject :
                  k = [service |-> s, form |-> KitAttachForm(i),
                       hosts |-> {in.domain : in \in {x \in spec.credentials[s].key.inject :
                                                       KitAttachForm(x) = KitAttachForm(i)}}]
BY DEF KitInjectSpecs

(* All of them do, and nothing else comes of it. *)
LEMMA RulesTrip ==
  ASSUME NEW spec, Keyed(spec.credentials, CredentialType), ValidCredentials(spec.credentials),
         \A in \in Injects(spec) : in.header # "basic",
         ParseCredentials(KitInjectSpecs(spec)).ok
  PROVE  Given(ParseCredentials(KitInjectSpecs(spec)).spec) = Attached(spec.credentials)
<1> DEFINE creds == spec.credentials
           specs == KitInjectSpecs(spec)
           hosts(s, i) == {in.domain : in \in {x \in creds[s].key.inject :
                                               KitAttachForm(x) = KitAttachForm(i)}}
           rule(s, i) == [service |-> s, form |-> KitAttachForm(i), hosts |-> hosts(s, i)]
           parsed == [s \in {k.service : k \in specs} |->
                        UNION {p.spec : p \in {ParseInject(k) : k \in {x \in specs : x.service = s}}}]
<1>1. (\A k \in specs : ParseInject(k).ok) /\ ParseCredentials(specs).spec = parsed
  BY DEF ParseCredentials, Refused, Fine
<1>2. ASSUME NEW s \in DOMAIN creds, creds[s].key # None, NEW i \in creds[s].key.inject
      PROVE  /\ i \in InjectType /\ i.scheme = "" /\ i.header # "basic" /\ i.format \in OnePlaceholder
             /\ rule(s, i) \in specs
  <2>1. i \in InjectType
    BY <1>2 DEF Keyed, CredentialType, KeyType
  <2>2. ValidAPIKey(creds[s].key)
    BY DEF ValidCredentials
  <2>3. i.scheme = "" /\ i.format \in OnePlaceholder
    BY <1>2, <2>2 DEF ValidAPIKey
  <2>4. i \in Injects(spec)
    BY <1>2 DEF Injects
  <2>5. rule(s, i) \in specs
    BY <1>2, SpecElements
  <2> QED BY <2>1, <2>3, <2>4, <2>5
<1>3. ASSUME NEW s \in DOMAIN creds, creds[s].key # None, NEW i \in creds[s].key.inject
      PROVE  ParseInject(rule(s, i)).spec = {<<h, KitAttachForm(i)>> : h \in hosts(s, i)}
  <2>1. ParseInject(rule(s, i)).ok
    BY <1>1, <1>2, <1>3
  <2>2. rule(s, i).form = KitAttachForm(i) /\ rule(s, i).hosts = hosts(s, i)
    OBVIOUS
  <2> HIDE DEF rule, hosts
  <2> QED BY <1>2, <1>3, <2>1, <2>2, RuleTrip
<1>4. ASSUME NEW s \in DOMAIN creds, creds[s].key # None, NEW i \in creds[s].key.inject
      PROVE  <<s, i.domain, KitAttachForm(i)>> \in Given(parsed)
  <2>1. rule(s, i) \in specs /\ rule(s, i).service = s
    BY <1>2, <1>4
  <2>2. <<i.domain, KitAttachForm(i)>> \in ParseInject(rule(s, i)).spec
    <3>1. i.domain \in hosts(s, i)
      BY <1>4
    <3> QED BY <1>3, <1>4, <3>1
  <2> HIDE DEF rule, specs, creds, hosts
  <2>3. s \in DOMAIN parsed /\ <<i.domain, KitAttachForm(i)>> \in parsed[s]
    BY <2>1, <2>2
  <2> HIDE DEF parsed
  <2> QED BY <2>3 DEF Given
<1>5. ASSUME NEW x \in Given(parsed)
      PROVE  x \in Attached(creds)
  <2>1a. PICK s \in DOMAIN parsed : \E y \in parsed[s] : x = <<s, y[1], y[2]>>
    <3> HIDE DEF parsed, creds
    <3> QED BY <1>5, Zenon DEF Given
  <2>1. PICK y \in parsed[s] : x = <<s, y[1], y[2]>>
    BY <2>1a
  <2>2. PICK k \in specs : k.service = s /\ y \in ParseInject(k).spec
    BY <2>1
  <2>3. PICK z \in DOMAIN creds : creds[z].key # None /\ \E i \in creds[z].key.inject : k = rule(z, i)
    BY <2>2, SpecElements
  <2>4. PICK i \in creds[z].key.inject : k = rule(z, i)
    BY <2>3
  <2>5. z = s /\ y \in {<<h, KitAttachForm(i)>> : h \in hosts(z, i)}
    BY <1>3, <2>2, <2>3, <2>4
  <2>6. PICK in \in creds[z].key.inject : KitAttachForm(in) = KitAttachForm(i) /\ y = <<in.domain, KitAttachForm(i)>>
    BY <2>5
  <2>7. x = <<s, in.domain, KitAttachForm(in)>>
    BY <2>1, <2>6
  <2> QED BY <2>3, <2>5, <2>6, <2>7, AttachedElements
<1>6. \A x \in Attached(creds) : x \in Given(parsed)
  BY <1>4, AttachedElements
<1> QED BY <1>1, <1>5, <1>6

LEMMA ExpandedModel ==
  ASSUME NEW spec, "credentials" \in DOMAIN spec
  PROVE  ExpandSchemes(spec).credentials
           = [s \in DOMAIN spec.credentials |-> Expanded(spec.credentials[s])]
BY DEF ExpandSchemes

LEMMA ExpandedInjection ==
  ASSUME NEW in \in InjectType
  PROVE  /\ ExpandScheme(in) \in InjectType /\ ExpandScheme(in).domain = in.domain
         /\ in.header # "basic" => ExpandScheme(in).header # "basic"
         /\ in.scheme # "basic" => WrittenForm(in) = KitAttachForm(ExpandScheme(in))
<1>1. CASE in.scheme = "bearer"
  <2> DEFINE header == IF in.header = "" THEN "Authorization" ELSE in.header
  <2>1. ExpandScheme(in) = [in EXCEPT !.scheme = "", !.format = "Bearer %s", !.header = header]
    BY <1>1 DEF ExpandScheme, InjectType
  <2>2. header \in STRING /\ (in.header # "basic" => header # "basic")
    BY KitsAssumption DEF InjectType
  <2> HIDE DEF header
  <2> QED BY <1>1, <2>1, <2>2, KitsAssumption DEF InjectType, WrittenForm
<1>2. CASE in.scheme = "basic"
  BY <1>2, KitsAssumption DEF ExpandScheme, InjectType
<1>3. CASE in.scheme \notin {"bearer", "basic"}
  BY <1>3 DEF ExpandScheme, WrittenForm
<1> QED BY <1>1, <1>2, <1>3

LEMMA ExpandedCredential ==
  ASSUME NEW c \in CredentialType
  PROVE  /\ Expanded(c) \in CredentialType
         /\ Expanded(c).key = None <=> c.key = None
         /\ c.key # None => Expanded(c).key.inject = {ExpandScheme(in) : in \in c.key.inject}
<1>1. CASE c.key = None
  BY <1>1 DEF Expanded
<1>2. CASE c.key # None
  <2> DEFINE inject == {ExpandScheme(in) : in \in c.key.inject}
             key == [c.key EXCEPT !.inject = inject]
  <2>1. c.key \in KeyType
    BY <1>2 DEF CredentialType
  <2>2. inject \subseteq InjectType
    BY <2>1, ExpandedInjection DEF KeyType
  <2>3. key \in KeyType /\ key.inject = inject
    <3> HIDE DEF inject
    <3> QED BY <2>1, <2>2 DEF KeyType
  <2>4. Expanded(c) = [c EXCEPT !.key = key]
    BY <1>2 DEF Expanded
  <2> HIDE DEF key
  <2>5. key # None
    BY <2>3, KitsAssumption
  <2>6. Expanded(c) \in CredentialType /\ Expanded(c).key = key
    BY <2>3, <2>4 DEF CredentialType
  <2> QED BY <1>2, <2>3, <2>5, <2>6
<1> QED BY <1>1, <1>2

(* The rules of a model are what its author wrote, once no rule is of the  *)
(* scheme "basic", which is expanded to the bare secret.                   *)

LEMMA ExplicitElements ==
  ASSUME NEW creds, NEW x
  PROVE  x \in ExplicitRules(creds) <=>
           \E s \in DOMAIN creds :
             creds[s].key # None /\ \E in \in creds[s].key.inject : x = <<s, in.domain, WrittenForm(in)>>
BY DEF ExplicitRules

LEMMA ExpandedRules ==
  ASSUME NEW spec, "credentials" \in DOMAIN spec, Keyed(spec.credentials, CredentialType),
         PlainKeys(spec.credentials)
  PROVE  LET creds == ExpandSchemes(spec).credentials
         IN  /\ Keyed(creds, CredentialType)
             /\ Attached(creds) = ExplicitRules(spec.credentials)
             /\ \A in \in Injects(ExpandSchemes(spec)) : in.header # "basic"
<1> DEFINE old == spec.credentials
           creds == ExpandSchemes(spec).credentials
<1>1. creds = [s \in DOMAIN old |-> Expanded(old[s])]
  BY ExpandedModel
<1>2. \A s \in DOMAIN old : old[s] \in CredentialType
  BY DEF Keyed
<1> HIDE DEF creds
<1>3. ASSUME NEW s \in DOMAIN old
      PROVE  /\ creds[s] \in CredentialType
             /\ creds[s].key = None <=> old[s].key = None
             /\ old[s].key # None => creds[s].key.inject = {ExpandScheme(in) : in \in old[s].key.inject}
  BY <1>1, <1>2, ExpandedCredential
<1>4. DOMAIN creds = DOMAIN old
  BY <1>1
<1>5. Keyed(creds, CredentialType)
  BY <1>1, <1>3, <1>4 DEF Keyed
<1>6. ASSUME NEW s \in DOMAIN old, old[s].key # None, NEW in \in old[s].key.inject
      PROVE  /\ ExpandScheme(in).domain = in.domain /\ ExpandScheme(in).header # "basic"
             /\ WrittenForm(in) = KitAttachForm(ExpandScheme(in))
  <2>1. in \in InjectType
    BY <1>2, <1>6 DEF CredentialType, KeyType
  <2>2. in.scheme # "basic" /\ in.header # "basic"
    BY <1>6 DEF PlainKeys, NoBasic
  <2> QED BY <2>1, <2>2, ExpandedInjection
<1>7. ASSUME NEW x \in Attached(creds)
      PROVE  x \in ExplicitRules(old)
  <2>1. PICK s \in DOMAIN creds :
          creds[s].key # None /\ \E in \in creds[s].key.inject : x = <<s, in.domain, KitAttachForm(in)>>
    BY AttachedElements
  <2>2. PICK in \in creds[s].key.inject : x = <<s, in.domain, KitAttachForm(in)>>
    BY <2>1
  <2>3. s \in DOMAIN old /\ old[s].key # None
    BY <1>3, <1>4, <2>1
  <2>4. PICK i \in old[s].key.inject : in = ExpandScheme(i)
    BY <1>3, <2>2, <2>3
  <2>5. x = <<s, i.domain, WrittenForm(i)>>
    BY <1>6, <2>2, <2>3, <2>4
  <2> QED BY <2>3, <2>5, ExplicitElements
<1>8. ASSUME NEW x \in ExplicitRules(old)
      PROVE  x \in Attached(creds)
  <2>1. PICK s \in DOMAIN old :
          old[s].key # None /\ \E in \in old[s].key.inject : x = <<s, in.domain, WrittenForm(in)>>
    BY ExplicitElements
  <2>2. PICK in \in old[s].key.inject : x = <<s, in.domain, WrittenForm(in)>>
    BY <2>1
  <2>3. creds[s].key # None /\ ExpandScheme(in) \in creds[s].key.inject
    BY <1>3, <2>1
  <2>4. x = <<s, ExpandScheme(in).domain, KitAttachForm(ExpandScheme(in))>>
    BY <1>6, <2>1, <2>2
  <2> QED BY <1>4, <2>3, <2>4, AttachedElements
<1>9. ASSUME NEW in \in Injects(ExpandSchemes(spec))
      PROVE  in.header # "basic"
  <2>1. PICK s \in DOMAIN creds : creds[s].key # None /\ in \in creds[s].key.inject
    BY <1>9 DEF Injects, creds
  <2>2. s \in DOMAIN old /\ old[s].key # None
    BY <1>3, <1>4, <2>1
  <2> QED BY <1>3, <1>6, <2>1, <2>2
<1>10. Attached(creds) = ExplicitRules(old)
  BY <1>7, <1>8
<1> QED BY <1>5, <1>9, <1>10 DEF creds

(* What the fold of version 1's surfaces leaves for each service: the      *)
(* listed credential or the collapsed one, but for the key that the        *)
(* standalone block took as routing.                                       *)

LEMMA CollapsedServices ==
  ASSUME NEW d, NEW managed
  PROVE  LET creds == Credentials(d, managed)
         IN  /\ creds = [s \in DOMAIN creds |-> creds[s]]
             /\ DOMAIN creds = DOMAIN d.list \cup Pending(d, managed)
             /\ \A s \in DOMAIN d.list : creds[s] = d.list[s]
             /\ \A s \in Pending(d, managed) : creds[s] = Collapse(d, managed, s)
BY DEF Credentials, Pending, Legacy

LEMMA FoldedServices ==
  ASSUME NEW d, NEW creds, creds = [s \in DOMAIN creds |-> creds[s]], FoldOAuth(d, creds).ok
  PROVE  LET folded == FoldOAuth(d, creds).spec
         IN  /\ folded = [s \in DOMAIN folded |-> folded[s]]
             /\ DOMAIN folded = DOMAIN creds \cup (IF d.oauth = None THEN {} ELSE {d.oauth.service})
             /\ \A s \in DOMAIN creds :
                  IF d.oauth = None \/ d.oauth.service # s THEN folded[s] = creds[s]
                  ELSE folded[s] = [creds[s] EXCEPT
                         !.key = IF Routed(d, s, creds[s].key) THEN None ELSE @,
                         !.oauth = OAuthOf(d, IF Routed(d, s, creds[s].key)
                                              THEN {i.domain : i \in creds[s].key.inject} ELSE {})]
             /\ d.oauth # None /\ d.oauth.service \notin DOMAIN creds =>
                  folded[d.oauth.service] = [NoCredential EXCEPT !.oauth = OAuthOf(d, {})]
<1> DEFINE folded == FoldOAuth(d, creds).spec
           svc == d.oauth.service
           old == IF svc \in DOMAIN creds THEN creds[svc] ELSE NoCredential
           routed == RoutingOnly(old.key)
           new == [old EXCEPT !.key = IF routed THEN None ELSE @,
                              !.oauth = OAuthOf(d, IF routed THEN {i.domain : i \in old.key.inject}
                                                   ELSE {})]
<1>1. CASE d.oauth = None
  BY <1>1 DEF FoldOAuth, Fine
<1>2. CASE d.oauth # None
  <2>1. folded = [s \in {svc} \cup DOMAIN creds |-> IF s = svc THEN new ELSE creds[s]]
    BY <1>2 DEF FoldOAuth, Fine, Refused
  <2>2. svc \notin DOMAIN creds => new = [NoCredential EXCEPT !.oauth = OAuthOf(d, {})]
    BY DEF NoCredential, RoutingOnly
  <2>3. svc \in DOMAIN creds => old = creds[svc] /\ (routed <=> Routed(d, svc, creds[svc].key))
    BY <1>2 DEF Routed
  <2>4. svc \in DOMAIN creds =>
          new = [creds[svc] EXCEPT
                   !.key = IF Routed(d, svc, creds[svc].key) THEN None ELSE @,
                   !.oauth = OAuthOf(d, IF Routed(d, svc, creds[svc].key)
                                        THEN {i.domain : i \in creds[svc].key.inject} ELSE {})]
    BY <2>3
  <2> HIDE DEF new
  <2>5. /\ folded = [s \in DOMAIN folded |-> folded[s]]
        /\ DOMAIN folded = DOMAIN creds \cup {svc}
        /\ folded[svc] = new
        /\ \A s \in DOMAIN creds : s # svc => folded[s] = creds[s]
    BY <2>1
  <2> HIDE DEF folded, svc
  <2> QED BY <1>2, <2>2, <2>4, <2>5 DEF svc, folded
<1> QED BY <1>1, <1>2

(* What a version 1 document of the decoded shape makes of one service. *)
LEMMA NamedBySource ==
  ASSUME NEW d, Keyed(d.sources, SourceType), NEW s
  PROVE  /\ NameOf(d, s) \in STRING
         /\ s \in DOMAIN d.sources /\ d.sources[s].env # <<>> => NameOf(d, s) # ""
<1>1. CASE s \in DOMAIN d.sources /\ d.sources[s].env # <<>>
  <2>1. d.sources[s].env \in Seq(STRING \ {""})
    BY <1>1 DEF Keyed, SourceType
  <2>2. d.sources[s].env[1] \in STRING \ {""}
    <3> DEFINE Vars == STRING \ {""}
               env == d.sources[s].env
    <3>1. env \in Seq(Vars) /\ env # <<>>
      BY <1>1, <2>1
    <3> HIDE DEF Vars, env
    <3>2. env[1] \in Vars
      BY <3>1
    <3> QED BY <3>2 DEF Vars, env
  <2>3. NameOf(d, s) = d.sources[s].env[1]
    BY <1>1 DEF NameOf
  <2> QED BY <2>2, <2>3
<1>2. CASE ~(s \in DOMAIN d.sources /\ d.sources[s].env # <<>>)
  BY <1>2, KitsAssumption DEF NameOf
<1> QED BY <1>1, <1>2

(* The header and the format that the older surfaces give a service. *)
GivenHeader(d, s) ==
  IF s \in DOMAIN d.network.serviceAuth THEN d.network.serviceAuth[s].header ELSE ""
GivenFormat(d, s) ==
  IF s \in DOMAIN d.network.serviceAuth /\ d.network.serviceAuth[s].format # ""
  THEN d.network.serviceAuth[s].format ELSE "%s"

LEMMA InjectedTyped ==
  ASSUME NEW d, Keyed(d.network.serviceDomains, STRING), Keyed(d.network.serviceAuth, AuthType), NEW s
  PROVE  InjectOf(d, s) \subseteq InjectType
<1> DEFINE doms == d.network.serviceDomains
           header == GivenHeader(d, s)
           format == GivenFormat(d, s)
           in(x) == [domain |-> x, username |-> "", scheme |-> "", header |-> header, format |-> format]
<1>1. InjectOf(d, s) = {in(x) : x \in {y \in DOMAIN doms : doms[y] = s}}
  BY Zenon DEF InjectOf, GivenHeader, GivenFormat
<1>2. header \in STRING /\ format \in STRING
  BY KitsAssumption DEF Keyed, AuthType, GivenHeader, GivenFormat
<1>3. \A x \in DOMAIN doms : x \in STRING
  BY DEF Keyed
<1> HIDE DEF header, format, doms
<1>4. \A x \in DOMAIN doms : in(x) \in InjectType
  BY <1>2, <1>3, KitsAssumption DEF InjectType
<1> QED BY <1>1, <1>4

LEMMA InjectedForm ==
  ASSUME NEW d, NEW s, NEW i \in InjectOf(d, s)
  PROVE  i.scheme = "" /\ i.header = GivenHeader(d, s) /\ i.format = GivenFormat(d, s)
<1> DEFINE doms == d.network.serviceDomains
           header == GivenHeader(d, s)
           format == GivenFormat(d, s)
           in(x) == [domain |-> x, username |-> "", scheme |-> "", header |-> header, format |-> format]
<1>1. InjectOf(d, s) = {in(x) : x \in {y \in DOMAIN doms : doms[y] = s}}
  BY Zenon DEF InjectOf, GivenHeader, GivenFormat
<1>2. PICK x \in {y \in DOMAIN doms : doms[y] = s} : i = in(x)
  BY <1>1
<1> HIDE DEF header, format, doms
<1> QED BY <1>2 DEF header, format

LEMMA InjectedWhere ==
  ASSUME NEW d, NEW s, NEW i \in InjectOf(d, s)
  PROVE  i.domain \in DOMAIN d.network.serviceDomains /\ d.network.serviceDomains[i.domain] = s
<1> DEFINE doms == d.network.serviceDomains
           header == GivenHeader(d, s)
           format == GivenFormat(d, s)
           in(x) == [domain |-> x, username |-> "", scheme |-> "", header |-> header, format |-> format]
<1>1. InjectOf(d, s) = {in(x) : x \in {y \in DOMAIN doms : doms[y] = s}}
  BY Zenon DEF InjectOf, GivenHeader, GivenFormat
<1>2. PICK x \in {y \in DOMAIN doms : doms[y] = s} : i = in(x)
  BY <1>1
<1> HIDE DEF header, format, doms
<1> QED BY <1>2 DEF doms

LEMMA InjectedDomain ==
  ASSUME NEW d, NEW x \in DOMAIN d.network.serviceDomains
  PROVE  \E i \in InjectOf(d, d.network.serviceDomains[x]) : i.domain = x
<1> DEFINE doms == d.network.serviceDomains
           s == doms[x]
           in == [domain |-> x, username |-> "", scheme |-> "",
                  header |-> GivenHeader(d, s), format |-> GivenFormat(d, s)]
<1>1. in \in InjectOf(d, s)
  BY DEF InjectOf, GivenHeader, GivenFormat
<1> QED BY <1>1

LEMMA CollapsedCredential ==
  ASSUME NEW d, d.schema = "1", DocumentOk(d), NEW managed, NEW s
  PROVE  LET c == Collapse(d, managed, s)
         IN  /\ c \in CredentialType /\ c.oauth = None
             /\ c.key = None <=> NameOf(d, s) = "" /\ InjectOf(d, s) = {}
             /\ c.key # None => c.key = [name |-> NameOf(d, s), managed |-> s \in Range(managed),
                                         inject |-> InjectOf(d, s)]
<1> DEFINE name == NameOf(d, s)
           inject == InjectOf(d, s)
           key == [name |-> name, managed |-> s \in Range(managed), inject |-> inject]
           required == s \in DOMAIN d.sources /\ d.sources[s].required
           kept == IF name = "" /\ inject = {} THEN None ELSE key
           c == Collapse(d, managed, s)
<1>1. /\ Keyed(d.sources, SourceType)
      /\ Keyed(d.network.serviceDomains, STRING)
      /\ Keyed(d.network.serviceAuth, AuthType)
  BY DEF DocumentOk
<1>2. name \in STRING /\ inject \subseteq InjectType
  BY <1>1, NamedBySource, InjectedTyped
<1>3. required \in BOOLEAN
  BY Zenon
<1>4. c = [key |-> kept, required |-> required, oauth |-> None]
  <2>1. c = [NoCredential EXCEPT !.key = kept, !.required = required]
    BY Zenon DEF Collapse
  <2> HIDE DEF c, kept, required
  <2> QED BY <2>1 DEF NoCredential
<1>5. (s \in Range(managed)) \in BOOLEAN
  OBVIOUS
<1> HIDE DEF name, inject, required, c
<1>6. key \in KeyType
  BY <1>2, <1>5 DEF KeyType
<1> HIDE DEF key
<1>7. key # None
  BY <1>6, KitsAssumption
<1>8. c \in CredentialType
  BY <1>3, <1>4, <1>6 DEF CredentialType
<1>9. c.oauth = None /\ c.key = kept
  <2> HIDE DEF kept
  <2> QED BY <1>4
<1>10. (c.key = None <=> (name = "" /\ inject = {})) /\ (c.key # None => c.key = key)
  BY <1>7, <1>9
<1> QED BY <1>8, <1>9, <1>10, Zenon DEF c, key, name, inject

(* The credentials of a version 1 document are of the types that those of  *)
(* version 2 are.                                                          *)
LEMMA RoutedHosts ==
  ASSUME NEW d, d.oauth \in OAuthType, NEW hosts, hosts \subseteq STRING
  PROVE  OAuthOf(d, hosts) \in OAuthType /\ OAuthOf(d, hosts) # None
<1>1. OAuthOf(d, hosts) \in OAuthType
  BY DEF OAuthOf, OAuthType
<1> QED BY <1>1, KitsAssumption

LEMMA ServicesTyped ==
  ASSUME NEW d, d.schema = "1", DocumentOk(d), NEW managed \in EnvToService(d)
  PROVE  Keyed(Credentials(d, managed), CredentialType)
<1> DEFINE creds == Credentials(d, managed)
<1>1. /\ Keyed(d.list, CredentialType)
      /\ Keyed(d.sources, SourceType)
      /\ Keyed(d.network.serviceDomains, STRING)
  BY DEF DocumentOk
<1>2. \A s \in DOMAIN d.list : s \in STRING /\ d.list[s] \in CredentialType
  BY <1>1 DEF Keyed
<1>3. \A s \in Pending(d, managed) : s \in STRING
  <2>1. Range(managed) \subseteq DOMAIN d.sources
    BY DEF EnvToService, Range
  <2>2. Range(d.network.serviceDomains) \subseteq STRING
    BY <1>1 DEF Keyed, Range
  <2> QED BY <1>1, <2>1, <2>2 DEF Pending, Keyed
<1>4. /\ creds = [s \in DOMAIN creds |-> creds[s]]
      /\ DOMAIN creds = DOMAIN d.list \cup Pending(d, managed)
      /\ \A s \in DOMAIN d.list : creds[s] = d.list[s]
      /\ \A s \in Pending(d, managed) : creds[s] = Collapse(d, managed, s)
  BY CollapsedServices
<1>5. \A s \in Pending(d, managed) : Collapse(d, managed, s) \in CredentialType
  BY CollapsedCredential
<1> HIDE DEF creds
<1>6. \A s \in DOMAIN creds : s \in STRING /\ creds[s] \in CredentialType
  BY <1>2, <1>3, <1>4, <1>5
<1>7. Keyed(creds, CredentialType)
  BY <1>4, <1>6 DEF Keyed
<1> QED BY <1>7 DEF creds

LEMMA FoldedTyped ==
  ASSUME NEW d, d.oauth \in OAuthType \cup {None},
         NEW creds, Keyed(creds, CredentialType), FoldOAuth(d, creds).ok
  PROVE  Keyed(FoldOAuth(d, creds).spec, CredentialType)
<1> DEFINE folded == FoldOAuth(d, creds).spec
           svc == d.oauth.service
           routed(s) == Routed(d, s, creds[s].key)
           hosts(s) == IF routed(s) THEN {i.domain : i \in creds[s].key.inject} ELSE {}
<1>1. /\ folded = [s \in DOMAIN folded |-> folded[s]]
      /\ DOMAIN folded = DOMAIN creds \cup (IF d.oauth = None THEN {} ELSE {svc})
      /\ \A s \in DOMAIN creds :
           IF d.oauth = None \/ svc # s THEN folded[s] = creds[s]
           ELSE folded[s] = [creds[s] EXCEPT !.key = IF routed(s) THEN None ELSE @,
                                             !.oauth = OAuthOf(d, hosts(s))]
      /\ d.oauth # None /\ svc \notin DOMAIN creds =>
           folded[svc] = [NoCredential EXCEPT !.oauth = OAuthOf(d, {})]
  <2>1. creds = [s \in DOMAIN creds |-> creds[s]]
    BY DEF Keyed
  <2> QED BY <2>1, FoldedServices, Zenon
<1> HIDE DEF folded
<1>2. \A s \in DOMAIN creds : s \in STRING /\ creds[s] \in CredentialType
  BY DEF Keyed
<1>3. d.oauth # None => d.oauth \in OAuthType /\ svc \in STRING
  BY DEF OAuthType
<1>4. ASSUME NEW s \in DOMAIN creds
      PROVE  folded[s] \in CredentialType
  <2>1. CASE d.oauth = None \/ svc # s
    BY <1>1, <1>2, <2>1
  <2>2. CASE d.oauth # None /\ svc = s
    <3> DEFINE key == IF routed(s) THEN None ELSE creds[s].key
    <3>1. hosts(s) \subseteq STRING
      <4>1. CASE routed(s)
        <5>1. creds[s].key \in KeyType
          BY <1>2, <4>1 DEF Routed, RoutingOnly, CredentialType
        <5>2. \A i \in creds[s].key.inject : i.domain \in STRING
          BY <5>1 DEF KeyType, InjectType
        <5> QED BY <4>1, <5>2
      <4> QED BY <4>1
    <3>2. OAuthOf(d, hosts(s)) \in OAuthType
      BY <1>3, <2>2, <3>1, RoutedHosts
    <3>3. key \in KeyType \cup {None}
      BY <1>2 DEF CredentialType
    <3>4. folded[s] = [creds[s] EXCEPT !.key = key, !.oauth = OAuthOf(d, hosts(s))]
      BY <1>1, <2>2
    <3>5. creds[s] \in CredentialType
      BY <1>2
    <3> HIDE DEF key, hosts, folded
    <3>6. OAuthOf(d, hosts(s)) \in OAuthType \cup {None}
      BY <3>2
    <3> QED BY <3>3, <3>4, <3>5, <3>6 DEF CredentialType
  <2> QED BY <2>1, <2>2
<1>5. ASSUME d.oauth # None, svc \notin DOMAIN creds
      PROVE  folded[svc] \in CredentialType
  <2>1. OAuthOf(d, {}) \in OAuthType
    BY <1>3, <1>5, RoutedHosts
  <2> QED BY <1>1, <1>5, <2>1 DEF NoCredential, CredentialType
<1>6. \A s \in DOMAIN folded : s \in STRING /\ folded[s] \in CredentialType
  BY <1>1, <1>2, <1>3, <1>4, <1>5
<1> QED BY <1>1, <1>6 DEF Keyed, folded

LEMMA FoldedKeys ==
  ASSUME NEW d, NEW creds, Keyed(creds, CredentialType), FoldOAuth(d, creds).ok
  PROVE  LET folded == FoldOAuth(d, creds).spec
         IN  /\ DOMAIN creds \subseteq DOMAIN folded
             /\ \A s \in DOMAIN creds :
                  folded[s].key = IF Routed(d, s, creds[s].key) THEN None ELSE creds[s].key
             /\ \A s \in DOMAIN folded \ DOMAIN creds : folded[s].key = None
<1> DEFINE folded == FoldOAuth(d, creds).spec
           svc == d.oauth.service
           oauth(s) == OAuthOf(d, IF Routed(d, s, creds[s].key)
                                  THEN {i.domain : i \in creds[s].key.inject} ELSE {})
<1>1. /\ DOMAIN folded = DOMAIN creds \cup (IF d.oauth = None THEN {} ELSE {svc})
      /\ \A s \in DOMAIN creds :
           IF d.oauth = None \/ svc # s THEN folded[s] = creds[s]
           ELSE folded[s] = [creds[s] EXCEPT
                               !.key = IF Routed(d, s, creds[s].key) THEN None ELSE @,
                               !.oauth = oauth(s)]
      /\ d.oauth # None /\ svc \notin DOMAIN creds =>
           folded[svc] = [NoCredential EXCEPT !.oauth = OAuthOf(d, {})]
  <2>1. creds = [s \in DOMAIN creds |-> creds[s]]
    BY DEF Keyed
  <2> QED BY <2>1, FoldedServices, Zenon
<1>2. \A s \in DOMAIN creds : creds[s] \in CredentialType
  BY DEF Keyed
<1> HIDE DEF folded, oauth
<1>3. ASSUME NEW s \in DOMAIN creds
      PROVE  folded[s].key = IF Routed(d, s, creds[s].key) THEN None ELSE creds[s].key
  <2>1. CASE d.oauth = None \/ svc # s
    BY <1>1, <2>1 DEF Routed
  <2>2. CASE d.oauth # None /\ svc = s
    <3> DEFINE key == IF Routed(d, s, creds[s].key) THEN None ELSE creds[s].key
    <3>1. folded[s] = [creds[s] EXCEPT !.key = key, !.oauth = oauth(s)]
      BY <1>1, <2>2
    <3> HIDE DEF key
    <3>2. folded[s].key = key
      BY <1>2, <3>1 DEF CredentialType
    <3> QED BY <3>2 DEF key
  <2> QED BY <2>1, <2>2
<1>4. ASSUME NEW s \in DOMAIN folded, s \notin DOMAIN creds
      PROVE  folded[s].key = None
  <2>1. d.oauth # None /\ s = svc
    BY <1>1, <1>4
  <2>2. folded[s] = [NoCredential EXCEPT !.oauth = OAuthOf(d, {})]
    BY <1>1, <1>4, <2>1
  <2> QED BY <2>2 DEF NoCredential
<1> QED BY <1>1, <1>3, <1>4 DEF folded

(* The rules the fold leaves are the listed ones and those of the older    *)
(* surfaces.  Where no injection is called "basic", and the standalone     *)
(* block takes none of the listed keys for routing.                        *)
LEMMA LegacyElements ==
  ASSUME NEW d, d.schema = "1", DocumentOk(d), NEW r
  PROVE  r \in LegacyRules(d) <=>
           \E s \in Range(d.network.serviceDomains) \ DOMAIN d.list :
             ~RoutesOAuth(d, s) /\ \E in \in InjectOf(d, s) : r = <<s, in.domain, WrittenForm(in)>>
<1> DEFINE auth == d.network.serviceAuth
           doms == d.network.serviceDomains
           header(s) == IF s \in DOMAIN auth /\ auth[s].header # "" THEN auth[s].header
                        ELSE "Authorization"
           format(s) == IF s \in DOMAIN auth /\ auth[s].format # "" THEN auth[s].format ELSE "%s"
<1>1. ASSUME NEW s, NEW in \in InjectOf(d, s)
      PROVE  WrittenForm(in) = <<header(s), format(s)>>
  <2>1. in.scheme = "" /\ in.header = GivenHeader(d, s) /\ in.format = GivenFormat(d, s)
    BY InjectedForm
  <2>2. WrittenForm(in) = <<IF in.header = "" THEN "Authorization" ELSE in.header, in.format>>
    BY <2>1 DEF WrittenForm, ExpandScheme, KitAttachForm
  <2>3. (IF GivenHeader(d, s) = "" THEN "Authorization" ELSE GivenHeader(d, s)) = header(s)
    BY DEF GivenHeader
  <2>4. GivenFormat(d, s) = format(s)
    BY DEF GivenFormat
  <2> HIDE DEF header, format
  <2> QED BY <2>1, <2>2, <2>3, <2>4
<1>2. r \in LegacyRules(d) <=>
        \E x \in DOMAIN doms : /\ doms[x] \notin DOMAIN d.list /\ ~RoutesOAuth(d, doms[x])
                               /\ r = <<doms[x], x, <<header(doms[x]), format(doms[x])>>>>
  BY Zenon DEF LegacyRules
<1> HIDE DEF header, format, doms
<1>3. ASSUME r \in LegacyRules(d)
      PROVE  \E s \in Range(doms) \ DOMAIN d.list :
               ~RoutesOAuth(d, s) /\ \E in \in InjectOf(d, s) : r = <<s, in.domain, WrittenForm(in)>>
  <2>1. PICK x \in DOMAIN doms : /\ doms[x] \notin DOMAIN d.list /\ ~RoutesOAuth(d, doms[x])
                                /\ r = <<doms[x], x, <<header(doms[x]), format(doms[x])>>>>
    BY <1>2, <1>3
  <2>2. PICK in \in InjectOf(d, doms[x]) : in.domain = x
    BY InjectedDomain DEF doms
  <2>3. r = <<doms[x], in.domain, WrittenForm(in)>>
    BY <1>1, <2>1, <2>2
  <2> QED BY <2>1, <2>3 DEF Range
<1>4. ASSUME NEW s \in Range(doms) \ DOMAIN d.list, ~RoutesOAuth(d, s),
             NEW in \in InjectOf(d, s), r = <<s, in.domain, WrittenForm(in)>>
      PROVE  r \in LegacyRules(d)
  <2>1. in.domain \in DOMAIN doms /\ doms[in.domain] = s
    BY InjectedWhere DEF doms
  <2>2. r = <<doms[in.domain], in.domain, <<header(doms[in.domain]), format(doms[in.domain])>>>>
    BY <1>1, <1>4, <2>1
  <2> QED BY <1>2, <1>4, <2>1, <2>2
<1> QED BY <1>3, <1>4 DEF doms

LEMMA FoldedRules ==
  ASSUME NEW d, d.schema = "1", DocumentOk(d), PlainRules(d), NEW managed \in EnvToService(d),
         FoldOAuth(d, Credentials(d, managed)).ok
  PROVE  LET folded == FoldOAuth(d, Credentials(d, managed)).spec
         IN  /\ Keyed(folded, CredentialType) /\ PlainKeys(folded)
             /\ ExplicitRules(folded) = ExplicitRules(d.list) \cup LegacyRules(d)
<1> DEFINE creds == Credentials(d, managed)
           folded == FoldOAuth(d, creds).spec
           key(s) == Collapse(d, managed, s).key
<1>1. /\ d.oauth \in OAuthType \cup {None}
      /\ Keyed(d.sources, SourceType)
      /\ Keyed(d.network.serviceDomains, STRING)
      /\ Keyed(d.network.serviceAuth, AuthType)
  BY DEF DocumentOk
<1>2. Keyed(creds, CredentialType)
  BY ServicesTyped
<1>3. Keyed(folded, CredentialType)
  BY <1>1, <1>2, FoldedTyped
<1>4. /\ DOMAIN creds = DOMAIN d.list \cup Pending(d, managed)
      /\ \A s \in DOMAIN d.list : creds[s] = d.list[s]
      /\ \A s \in Pending(d, managed) : creds[s] = Collapse(d, managed, s)
  BY CollapsedServices
<1>5. /\ DOMAIN creds \subseteq DOMAIN folded
      /\ \A s \in DOMAIN creds :
           folded[s].key = IF Routed(d, s, creds[s].key) THEN None ELSE creds[s].key
      /\ \A s \in DOMAIN folded \ DOMAIN creds : folded[s].key = None
  BY <1>2, FoldedKeys
<1>6. /\ PlainKeys(d.list)
      /\ \A s \in DOMAIN d.network.serviceAuth : d.network.serviceAuth[s].header # "basic"
      /\ \A s \in DOMAIN d.list : ~Routed(d, s, d.list[s].key)
  BY DEF PlainRules
<1>7. ASSUME NEW s
      PROVE  /\ key(s) = None <=> NameOf(d, s) = "" /\ InjectOf(d, s) = {}
             /\ key(s) # None => key(s).name = NameOf(d, s) /\ key(s).inject = InjectOf(d, s)
  <2> DEFINE kept == s \in Range(managed)
  <2>1. key(s) = None <=> NameOf(d, s) = "" /\ InjectOf(d, s) = {}
    BY CollapsedCredential
  <2>2. key(s) # None => key(s) = [name |-> NameOf(d, s), managed |-> kept, inject |-> InjectOf(d, s)]
    BY CollapsedCredential
  <2> HIDE DEF key, kept
  <2>3. key(s) # None => key(s).name = NameOf(d, s) /\ key(s).inject = InjectOf(d, s)
    BY <2>2
  <2> QED BY <2>1, <2>3
<1> HIDE DEF creds, folded, key
<1>8. ASSUME NEW s \in DOMAIN folded, folded[s].key # None
      PROVE  \/ s \in DOMAIN d.list /\ d.list[s].key = folded[s].key
             \/ /\ s \in Pending(d, managed) /\ folded[s].key = key(s) /\ key(s) # None
                /\ ~Routed(d, s, key(s))
  <2>1. s \in DOMAIN creds /\ ~Routed(d, s, creds[s].key) /\ folded[s].key = creds[s].key
    BY <1>5, <1>8
  <2> QED BY <1>4, <1>8, <2>1 DEF key
<1>9. ASSUME NEW s \in Pending(d, managed), key(s) # None, InjectOf(d, s) # {}
      PROVE  Routed(d, s, key(s)) <=> RoutesOAuth(d, s)
  BY <1>7, <1>9 DEF Routed, RoutingOnly, RoutesOAuth
<1>10. ASSUME NEW s \in DOMAIN folded, folded[s].key # None, NEW in \in folded[s].key.inject
       PROVE  /\ in.scheme # "basic" /\ in.header # "basic"
              /\ <<s, in.domain, WrittenForm(in)>> \in ExplicitRules(d.list) \cup LegacyRules(d)
  <2>1. CASE s \in DOMAIN d.list /\ d.list[s].key = folded[s].key
    <3>1. in.scheme # "basic" /\ in.header # "basic"
      BY <1>6, <1>10, <2>1 DEF PlainKeys, NoBasic
    <3>2. <<s, in.domain, WrittenForm(in)>> \in ExplicitRules(d.list)
      BY <1>10, <2>1, ExplicitElements
    <3> QED BY <3>1, <3>2
  <2>2. CASE /\ s \in Pending(d, managed) /\ folded[s].key = key(s) /\ key(s) # None
             /\ ~Routed(d, s, key(s))
    <3>1. in \in InjectOf(d, s)
      BY <1>7, <1>10, <2>2
    <3>2. in.scheme = "" /\ in.header = GivenHeader(d, s)
      BY <3>1, InjectedForm
    <3>3. in.header # "basic"
      BY <1>6, <3>2 DEF GivenHeader
    <3>4. in.domain \in DOMAIN d.network.serviceDomains /\ d.network.serviceDomains[in.domain] = s
      BY <3>1, InjectedWhere
    <3>5. s \in Range(d.network.serviceDomains) \ DOMAIN d.list
      BY <2>2, <3>4 DEF Range, Pending, Legacy
    <3>6. ~RoutesOAuth(d, s)
      BY <1>9, <2>2, <3>1
    <3>7. <<s, in.domain, WrittenForm(in)>> \in LegacyRules(d)
      BY <3>1, <3>5, <3>6, LegacyElements
    <3> QED BY <3>2, <3>3, <3>7
  <2> QED BY <1>8, <1>10, <2>1, <2>2
<1>11. PlainKeys(folded)
  BY <1>10 DEF PlainKeys, NoBasic
<1>12. ASSUME NEW r \in ExplicitRules(folded)
       PROVE  r \in ExplicitRules(d.list) \cup LegacyRules(d)
  <2>1. PICK s \in DOMAIN folded :
          folded[s].key # None /\ \E in \in folded[s].key.inject : r = <<s, in.domain, WrittenForm(in)>>
    BY ExplicitElements
  <2>2. PICK in \in folded[s].key.inject : r = <<s, in.domain, WrittenForm(in)>>
    BY <2>1
  <2> QED BY <1>10, <2>1, <2>2
<1>13. ASSUME NEW r \in ExplicitRules(d.list)
       PROVE  r \in ExplicitRules(folded)
  <2>1. PICK s \in DOMAIN d.list :
          d.list[s].key # None /\ \E in \in d.list[s].key.inject : r = <<s, in.domain, WrittenForm(in)>>
    BY ExplicitElements
  <2>2. s \in DOMAIN folded /\ folded[s].key = d.list[s].key
    BY <1>4, <1>5, <1>6
  <2> QED BY <2>1, <2>2, ExplicitElements
<1>14. ASSUME NEW r \in LegacyRules(d)
       PROVE  r \in ExplicitRules(folded)
  <2>1. PICK s \in Range(d.network.serviceDomains) \ DOMAIN d.list :
          ~RoutesOAuth(d, s) /\ \E in \in InjectOf(d, s) : r = <<s, in.domain, WrittenForm(in)>>
    BY <1>14, LegacyElements
  <2>2. PICK in \in InjectOf(d, s) : r = <<s, in.domain, WrittenForm(in)>>
    BY <2>1
  <2>3. s \in Pending(d, managed)
    BY <2>1 DEF Pending, Legacy
  <2>4. key(s) # None /\ key(s).inject = InjectOf(d, s)
    BY <1>7
  <2>5. ~Routed(d, s, key(s))
    BY <1>9, <2>1, <2>3, <2>4
  <2>6. s \in DOMAIN folded /\ folded[s].key = key(s)
    BY <1>4, <1>5, <2>3, <2>5 DEF key
  <2> QED BY <2>2, <2>4, <2>6, ExplicitElements
<1>15. ExplicitRules(folded) = ExplicitRules(d.list) \cup LegacyRules(d)
  BY <1>12, <1>13, <1>14
<1> QED BY <1>3, <1>11, <1>15 DEF folded, creds

---------------------------------------------------------------------------
(* What loading a document yields.                                         *)
LEMMA Translated ==
  ASSUME NEW d, NEW r \in Translate(d), r.ok
  PROVE  \E managed \in EnvToService(d) :
           LET creds == FoldOAuth(d, Credentials(d, managed))
           IN  /\ creds.ok
               /\ r.spec = ModelOf(d, creds.spec)
               /\ r.warned = UNION {creds.warned, CredentialWarnings(d, managed), SurfaceWarnings(d)}
<1> DEFINE creds(managed) == FoldOAuth(d, Credentials(d, managed))
           warned(managed) == UNION {creds(managed).warned, CredentialWarnings(d, managed),
                                     SurfaceWarnings(d)}
<1>1. PICK managed \in EnvToService(d) :
        r = IF ~creds(managed).ok THEN Refused
            ELSE Fine(ModelOf(d, creds(managed).spec), warned(managed))
  <2>1. r # Refused
    BY DEF Refused
  <2>2. ~(d.secrets \/ d.egress \/ (Block(d) # None /\ Block(d).memoryMB = "negative"))
    BY <2>1 DEF Translate
  <2>3. Translate(d) = {IF ~creds(managed).ok THEN Refused
                        ELSE Fine(ModelOf(d, creds(managed).spec), warned(managed)) :
                        managed \in EnvToService(d)}
    BY <2>2, Zenon DEF Translate
  <2> QED BY <2>3
<1> HIDE DEF creds, warned
<1>2. creds(managed).ok
  BY <1>1 DEF Refused
<1>3. r.spec = ModelOf(d, creds(managed).spec) /\ r.warned = warned(managed)
  BY <1>1, <1>2 DEF Fine
<1> QED BY <1>2, <1>3 DEF creds, warned

LEMMA Finished ==
  ASSUME NEW d, NEW r \in ParseSpec(d), r.ok
  PROVE  \E p \in Decode(d) :
           /\ p.ok /\ r.spec = ExpandSchemes(p.spec) /\ Validate(r.spec)
           /\ r.warned = p.warned \cup WarnV2(r.spec)
<1>1. PICK p \in Decode(d) : r = Finish(p)
  BY DEF ParseSpec
<1>2. /\ p.ok /\ Validate(ExpandSchemes(p.spec))
      /\ r = Fine(ExpandSchemes(p.spec), p.warned \cup WarnV2(ExpandSchemes(p.spec)))
  <2>1. r # Refused
    BY DEF Refused
  <2> QED BY <1>1, <2>1 DEF Finish
<1> QED BY <1>2 DEF Fine

LEMMA Loaded ==
  ASSUME NEW k, NEW r \in Load(k), r.ok
  PROVE  k.doc # None /\ \E p \in ParseSpec(k.doc) : p.ok /\ r.spec = p.spec /\ p.warned \subseteq r.warned
<1>1. CASE k.form \in {"git+", "git+-"}
  <2>1. r # Refused
    BY DEF Refused
  <2>2. r \in LoadGit(k)
    BY <1>1 DEF Load
  <2>3. ~(~ParseGitRef(k) \/ k.doc = None)
    BY <2>1, <2>2 DEF LoadGit
  <2> DEFINE told(p) == [p EXCEPT !.warned = @ \cup {"fetched at commit"}
                                                \cup WarnIf(k.ref # "sha", "not a fixed commit")]
  <2>4. LoadGit(k) = {IF ~p.ok THEN p ELSE told(p) : p \in ParseSpec(k.doc)}
    BY <2>3 DEF LoadGit
  <2>5. PICK p \in ParseSpec(k.doc) : r = IF ~p.ok THEN p ELSE told(p)
    BY <2>2, <2>4
  <2>6. p.ok
    BY <2>5
  <2>7. PICK spec, warned : p = [ok |-> TRUE, spec |-> spec, warned |-> warned]
    BY <2>6 DEF ParseSpec, Finish, Refused, Fine
  <2>8. r = told(p)
    BY <2>5, <2>6
  <2>9. r.spec = p.spec /\ p.warned \subseteq r.warned
    BY <2>7, <2>8
  <2> QED BY <2>3, <2>6, <2>9
<1>2. CASE k.form \notin {"git+", "git+-"}
  BY <1>2 DEF Load, Refused
<1> QED BY <1>1, <1>2

LEMMA ModelFields ==
  ASSUME NEW d, NEW creds
  PROVE  LET spec == ModelOf(d, creds)
         IN  /\ "credentials" \in DOMAIN spec /\ spec.credentials = creds
             /\ spec.content = ContentOf(d)
             /\ spec.sandbox = IF Block(d) = None THEN None ELSE SandboxOf(Block(d))
             /\ spec.allow = d.caps.allow \cup d.network.allow
             /\ spec.deny = d.caps.deny \cup d.network.deny
             /\ spec.ports = d.ports \cup d.network.ports
             /\ spec.volumes = VolumesOf(d)
BY DEF ModelOf

LEMMA DecodedRules ==
  ASSUME NEW d, DocumentOk(d), PlainRules(d), NEW p \in Decode(d), p.ok
  PROVE  /\ "credentials" \in DOMAIN p.spec /\ Keyed(p.spec.credentials, CredentialType)
         /\ PlainKeys(p.spec.credentials)
         /\ ExplicitRules(p.spec.credentials) = Written(d)
<1>1. CASE d.schema = "1"
  <2>1. p \in Translate(d)
    BY <1>1 DEF Decode
  <2> DEFINE creds(managed) == FoldOAuth(d, Credentials(d, managed))
  <2>2. PICK managed \in EnvToService(d) : creds(managed).ok /\ p.spec = ModelOf(d, creds(managed).spec)
    BY <2>1, Translated
  <2> DEFINE folded == creds(managed).spec
  <2>3. /\ Keyed(folded, CredentialType) /\ PlainKeys(folded)
        /\ ExplicitRules(folded) = ExplicitRules(d.list) \cup LegacyRules(d)
    BY <1>1, <2>2, FoldedRules
  <2> HIDE DEF folded
  <2>4. "credentials" \in DOMAIN p.spec /\ p.spec.credentials = folded
    BY <2>2, ModelFields DEF folded
  <2>5. Written(d) = ExplicitRules(d.list) \cup LegacyRules(d)
    BY <1>1 DEF Written
  <2> QED BY <2>3, <2>4, <2>5
<1>2. CASE d.schema # "1"
  <2>1. d.schema = "2" /\ p = DecodeV2(d)
    BY <1>2 DEF Decode, Refused
  <2>2. p.spec = d.spec
    BY <2>1 DEF DecodeV2, Fine, Refused
  <2>3. "credentials" \in DOMAIN d.spec /\ Keyed(d.spec.credentials, CredentialType)
    BY <2>1 DEF DocumentOk
  <2> QED BY <1>2, <2>1, <2>2, <2>3 DEF PlainRules, Written
<1> QED BY <1>1, <1>2

(* The rules of a kit reach the proxy as its author wrote them, if no      *)
(* injection is called "basic" and the standalone block takes none of the  *)
(* listed keys for routing.                                                *)
THEOREM RulesArrive ==
  ASSUME NEW k \in Kits, k.doc # None, PlainRules(k.doc), NEW r \in Load(k), r.ok
  PROVE  AsWritten(k.doc, r.spec)
<1> DEFINE d == k.doc
<1>1. DocumentOk(d)
  BY KitsAssumption
<1>2. PICK q \in ParseSpec(d) : q.ok /\ r.spec = q.spec
  BY Loaded
<1>3. PICK p \in Decode(d) : p.ok /\ q.spec = ExpandSchemes(p.spec) /\ Validate(q.spec)
  BY <1>2, Finished
<1> HIDE DEF d
<1>4. /\ "credentials" \in DOMAIN p.spec /\ Keyed(p.spec.credentials, CredentialType)
      /\ PlainKeys(p.spec.credentials) /\ ExplicitRules(p.spec.credentials) = Written(d)
  BY <1>1, <1>3, DecodedRules DEF d
<1>5. /\ Keyed(r.spec.credentials, CredentialType)
      /\ Attached(r.spec.credentials) = Written(d)
      /\ \A in \in Injects(r.spec) : in.header # "basic"
  BY <1>2, <1>3, <1>4, ExpandedRules
<1>6. ValidCredentials(r.spec.credentials)
  BY <1>2, <1>3 DEF Validate
<1>7. ASSUME ParseCredentials(KitInjectSpecs(r.spec)).ok
      PROVE  Given(ParseCredentials(KitInjectSpecs(r.spec)).spec) = Written(d)
  BY <1>5, <1>6, <1>7, RulesTrip
<1> QED BY <1>7 DEF AsWritten, Given, d

(* The same of every kit that a command loads: no credential reaches       *)
(* another host, or in another form, than its author wrote.                *)
THEOREM KitsInjectAsWritten ==
  ASSUME \A k \in Kits : k.doc # None => PlainRules(k.doc)
  PROVE  Spec => []InjectsAsWritten
<1>1. IInv => InjectsAsWritten
  <2> SUFFICES ASSUME IInv, NEW t \in Terms, At(t, "load"), NEW r \in Load(cmd[t].kit), r.ok
               PROVE  AsWritten(cmd[t].kit.doc, r.spec)
    BY DEF InjectsAsWritten
  <2>1. cmd[t].kit \in Kits
    BY DEF IInv, Owners, Knows, At
  <2>2. cmd[t].kit.doc # None
    BY Loaded
  <2> QED BY <2>1, <2>2, RulesArrive
<1> QED BY <1>1, SandboxInvariant, PTL

---------------------------------------------------------------------------
(* What the translation leaves of a credential: its key, but for the form  *)
(* of the injections, and its OAuth block.                                 *)
Hosts(c) ==
  (IF c.key = None THEN {} ELSE {in.domain : in \in c.key.inject})
    \cup (IF c.oauth = None THEN {} ELSE c.oauth.hosts \cup {c.oauth.host})

LEMMA ExpandedKey ==
  ASSUME NEW c \in CredentialType
  PROVE  /\ c.key # None => Expanded(c).key.name = c.key.name
                            /\ Expanded(c).key.managed = c.key.managed
         /\ Expanded(c).oauth = c.oauth
<1>1. CASE c.key = None
  BY <1>1 DEF Expanded
<1>2. CASE c.key # None
  <2> DEFINE inject == {ExpandScheme(in) : in \in c.key.inject}
             key == [c.key EXCEPT !.inject = inject]
  <2>1. c.key \in KeyType
    BY <1>2 DEF CredentialType
  <2>2. key.name = c.key.name /\ key.managed = c.key.managed
    <3> HIDE DEF inject
    <3> QED BY <2>1 DEF KeyType
  <2>3. Expanded(c) = [c EXCEPT !.key = key]
    BY <1>2 DEF Expanded
  <2> HIDE DEF key
  <2> QED BY <2>2, <2>3 DEF CredentialType
<1> QED BY <1>1, <1>2

LEMMA ExpandedHosts ==
  ASSUME NEW c \in CredentialType
  PROVE  Hosts(c) \subseteq Hosts(Expanded(c))
<1>1. Expanded(c).oauth = c.oauth
  BY ExpandedKey
<1>2. CASE c.key = None
  BY <1>1, <1>2 DEF Expanded
<1>3. CASE c.key # None
  <2>1. /\ Expanded(c).key # None
        /\ Expanded(c).key.inject = {ExpandScheme(in) : in \in c.key.inject}
    BY <1>3, ExpandedCredential
  <2>2. \A in \in c.key.inject : ExpandScheme(in).domain = in.domain
    <3>1. c.key.inject \subseteq InjectType
      BY <1>3 DEF CredentialType, KeyType
    <3> QED BY <3>1, ExpandedInjection
  <2> QED BY <1>1, <1>3, <2>1, <2>2 DEF Hosts
<1> QED BY <1>2, <1>3

LEMMA OneSpelling ==
  ASSUME NEW first \in Seq(STRING), NEW second \in Seq(STRING), first = <<>> \/ second = <<>>
  PROVE  first \o second = Or(first, second)
<1>1. CASE first = <<>>
  BY <1>1, ConcatEmptySeq DEF Or
<1>2. CASE second = <<>> /\ first # <<>>
  BY <1>2, ConcatEmptySeq DEF Or
<1> QED BY <1>1, <1>2

LEMMA CommandKept ==
  ASSUME NEW d, d.schema = "1", DocumentOk(d), SaidOnce(d), Block(d) # None
  PROVE  LET b == Block(d)
             sb == SandboxOf(b)
         IN  /\ b.run \o b.binary = sb.entrypoint
             /\ b.args \o b.runOptions = sb.default
             /\ b.ttyArgs \o b.interactiveOptions = sb.interactive
<1> DEFINE b == Block(d)
           sb == SandboxOf(b)
<1>1. b \in {d.sandbox, d.agent} \ {None}
  BY DEF Block
<1>2. {b.run, b.args, b.ttyArgs, b.binary, b.runOptions, b.interactiveOptions} \subseteq Seq(STRING)
  BY <1>1 DEF DocumentOk
<1>3. /\ sb.entrypoint = Or(b.run, b.binary)
      /\ sb.default = Or(b.args, b.runOptions)
      /\ sb.interactive = Or(b.ttyArgs, b.interactiveOptions)
  BY DEF SandboxOf
<1>4. /\ b.run = <<>> \/ b.binary = <<>>
      /\ b.args = <<>> \/ b.runOptions = <<>>
      /\ b.ttyArgs = <<>> \/ b.interactiveOptions = <<>>
  BY DEF SaidOnce
<1> HIDE DEF b, sb
<1>5. b.run \o b.binary = Or(b.run, b.binary)
  BY <1>2, <1>4, OneSpelling
<1>6. b.args \o b.runOptions = Or(b.args, b.runOptions)
  BY <1>2, <1>4, OneSpelling
<1>7. b.ttyArgs \o b.interactiveOptions = Or(b.ttyArgs, b.interactiveOptions)
  BY <1>2, <1>4, OneSpelling
<1> QED BY <1>3, <1>5, <1>6, <1>7 DEF b, sb

(* A service of the older surfaces keeps its domains, as hosts of its key  *)
(* or as those that the OAuth block serves.                                *)
LEMMA Collapsed ==
  ASSUME NEW d, NEW managed, NEW creds, creds = Credentials(d, managed),
         NEW s \in Pending(d, managed)
  PROVE  s \in DOMAIN creds /\ creds[s] = Collapse(d, managed, s)
<1>1. Legacy(d, s)
  BY DEF Pending
<1> QED BY <1>1 DEF Credentials

LEMMA CollapsedKey ==
  ASSUME NEW d, d.schema = "1", DocumentOk(d), NEW managed, NEW s,
         NameOf(d, s) # "" \/ InjectOf(d, s) # {}
  PROVE  LET key == Collapse(d, managed, s).key
         IN  key # None /\ key.name = NameOf(d, s) /\ key.inject = InjectOf(d, s)
<1> DEFINE name == NameOf(d, s)
           manages == s \in Range(managed)
           inject == InjectOf(d, s)
           key == Collapse(d, managed, s).key
<1>1. /\ Collapse(d, managed, s) \in CredentialType /\ Collapse(d, managed, s).oauth = None
      /\ key = None <=> name = "" /\ inject = {}
      /\ key # None => key = [name |-> name, managed |-> manages, inject |-> inject]
  BY CollapsedCredential, Zenon
<1>2. name # "" \/ inject # {}
  OBVIOUS
<1> HIDE DEF name, manages, inject, key
<1>3. key # None /\ key = [name |-> name, managed |-> manages, inject |-> inject]
  BY <1>1, <1>2
<1>4. key.name = name /\ key.inject = inject
  BY <1>3
<1> QED BY <1>3, <1>4 DEF name, inject, key

LEMMA CollapsedManaged ==
  ASSUME NEW d, d.schema = "1", DocumentOk(d), NEW managed, NEW s \in Range(managed),
         NameOf(d, s) # ""
  PROVE  Collapse(d, managed, s).key.managed = TRUE
<1> DEFINE name == NameOf(d, s)
           manages == s \in Range(managed)
           inject == InjectOf(d, s)
           key == Collapse(d, managed, s).key
<1>1. /\ Collapse(d, managed, s) \in CredentialType /\ Collapse(d, managed, s).oauth = None
      /\ key = None <=> name = "" /\ inject = {}
      /\ key # None => key = [name |-> name, managed |-> manages, inject |-> inject]
  BY CollapsedCredential, Zenon
<1>2. PICK m : m = manages
  OBVIOUS
<1>3. m = TRUE /\ name # ""
  BY <1>2
<1> HIDE DEF name, manages, inject, key
<1>4. key = [name |-> name, managed |-> m, inject |-> inject]
  BY <1>1, <1>2, <1>3
<1>5. key.managed = m
  BY <1>4
<1> QED BY <1>3, <1>5 DEF key

LEMMA RoutedAway ==
  ASSUME NEW d, d.oauth \in OAuthType \cup {None},
         NEW creds, Keyed(creds, CredentialType), FoldOAuth(d, creds).ok,
         NEW s \in DOMAIN creds, Routed(d, s, creds[s].key)
  PROVE  LET oauth == FoldOAuth(d, creds).spec[s].oauth
         IN  /\ oauth # None
             /\ \A i \in creds[s].key.inject :
                  i.domain # "" => i.domain \in oauth.hosts \cup {oauth.host}
<1> DEFINE folded == FoldOAuth(d, creds).spec
           svc == d.oauth.service
           routed(r) == Routed(d, r, creds[r].key)
           hosts(r) == IF routed(r) THEN {i.domain : i \in creds[r].key.inject} ELSE {}
<1>1. /\ folded = [r \in DOMAIN folded |-> folded[r]]
      /\ DOMAIN folded = DOMAIN creds \cup (IF d.oauth = None THEN {} ELSE {svc})
      /\ \A r \in DOMAIN creds :
           IF d.oauth = None \/ svc # r THEN folded[r] = creds[r]
           ELSE folded[r] = [creds[r] EXCEPT !.key = IF routed(r) THEN None ELSE @,
                                             !.oauth = OAuthOf(d, hosts(r))]
      /\ d.oauth # None /\ svc \notin DOMAIN creds =>
           folded[svc] = [NoCredential EXCEPT !.oauth = OAuthOf(d, {})]
  <2>1. creds = [r \in DOMAIN creds |-> creds[r]]
    BY DEF Keyed
  <2> QED BY <2>1, FoldedServices, Zenon
<1> DEFINE oauth == OAuthOf(d, hosts(s))
           key == IF routed(s) THEN None ELSE creds[s].key
<1>2. d.oauth \in OAuthType /\ svc = s /\ d.oauth # None
  BY DEF Routed
<1>3. creds[s] \in CredentialType /\ creds[s].key \in KeyType
  BY DEF Keyed, CredentialType, Routed, RoutingOnly
<1>4. hosts(s) \subseteq STRING
  <2>1. \A i \in creds[s].key.inject : i.domain \in STRING
    BY <1>3 DEF KeyType, InjectType
  <2> QED BY <2>1
<1>5. oauth # None
  BY <1>2, <1>4, RoutedHosts
<1>6. oauth.hosts = hosts(s) \ {"", d.oauth.host} /\ oauth.host = d.oauth.host
  <2> HIDE DEF hosts
  <2> QED BY <1>2 DEF OAuthOf, OAuthType
<1>7. \A i \in creds[s].key.inject : i.domain \in hosts(s)
  OBVIOUS
<1>8. folded[s] = [creds[s] EXCEPT !.key = key, !.oauth = oauth]
  BY <1>1, <1>2
<1> HIDE DEF folded, oauth, key, hosts
<1>9. folded[s].oauth = oauth
  BY <1>3, <1>8 DEF CredentialType
<1>10. \A i \in creds[s].key.inject : i.domain # "" => i.domain \in oauth.hosts \cup {oauth.host}
  BY <1>6, <1>7
<1> QED BY <1>5, <1>9, <1>10 DEF folded

LEMMA ServiceHosts ==
  ASSUME NEW d, d.schema = "1", DocumentOk(d), NEW managed \in EnvToService(d),
         NEW creds, creds = Credentials(d, managed), FoldOAuth(d, creds).ok,
         NEW svc \in Pending(d, managed), NEW i \in InjectOf(d, svc), i.domain # ""
  PROVE  LET folded == FoldOAuth(d, creds).spec
         IN  svc \in DOMAIN folded /\ i.domain \in Hosts(folded[svc])
<1>1. svc \in DOMAIN creds /\ creds[svc] = Collapse(d, managed, svc)
  BY Collapsed
<1>2. creds[svc].key # None /\ creds[svc].key.inject = InjectOf(d, svc)
  <2>1. InjectOf(d, svc) # {}
    OBVIOUS
  <2>2. /\ Collapse(d, managed, svc).key # None
        /\ Collapse(d, managed, svc).key.inject = InjectOf(d, svc)
    BY <2>1, CollapsedKey
  <2> QED BY <1>1, <2>2
<1>3. Keyed(creds, CredentialType)
  BY ServicesTyped
<1>4. d.oauth \in OAuthType \cup {None}
  BY DEF DocumentOk
<1> DEFINE folded == FoldOAuth(d, creds).spec
<1>5. /\ svc \in DOMAIN folded
      /\ folded[svc].key = IF Routed(d, svc, creds[svc].key) THEN None ELSE creds[svc].key
  <2>1. /\ DOMAIN creds \subseteq DOMAIN folded
        /\ \A s \in DOMAIN creds :
             folded[s].key = IF Routed(d, s, creds[s].key) THEN None ELSE creds[s].key
    BY <1>3, FoldedKeys
  <2> HIDE DEF folded
  <2> QED BY <1>1, <2>1
<1>6. ASSUME Routed(d, svc, creds[svc].key)
      PROVE  /\ folded[svc].oauth # None
             /\ \A j \in creds[svc].key.inject :
                  j.domain # "" => j.domain \in folded[svc].oauth.hosts \cup {folded[svc].oauth.host}
  BY <1>1, <1>3, <1>4, <1>6, RoutedAway
<1> HIDE DEF folded
<1>7. i.domain \in Hosts(folded[svc])
  <2>1. CASE Routed(d, svc, creds[svc].key)
    BY <1>2, <1>6, <2>1 DEF Hosts
  <2>2. CASE ~Routed(d, svc, creds[svc].key)
    BY <1>2, <1>5, <2>2 DEF Hosts
  <2> QED BY <2>1, <2>2
<1> QED BY <1>5, <1>7 DEF folded

(* A variable that a source lists becomes the name of a managed key.       *)
LEMMA ManagedNames ==
  ASSUME NEW d, d.schema = "1", DocumentOk(d), SaidOnce(d), NEW managed \in EnvToService(d),
         NEW creds, creds = Credentials(d, managed), FoldOAuth(d, creds).ok,
         NEW n \in d.proxyManaged, n \in DOMAIN managed
  PROVE  LET folded == FoldOAuth(d, creds).spec
         IN  \E s \in DOMAIN folded : folded[s].key # None /\ folded[s].key.managed
                                      /\ folded[s].key.name = n
<1> DEFINE folded == FoldOAuth(d, creds).spec
<1>1. PICK svc : svc = managed[n]
  OBVIOUS
<1>2. svc \in Listing(d, n) /\ svc \in Range(managed)
  BY <1>1 DEF EnvToService, Range
<1>3. svc \in DOMAIN d.sources /\ d.sources[svc].env # <<>>
  BY <1>2 DEF Listing
<1>4. Legacy(d, svc) /\ d.sources[svc].env[1] = n
  BY <1>2, <1>3 DEF SaidOnce
<1>5. NameOf(d, svc) = n /\ n # ""
  <2>1. Keyed(d.sources, SourceType)
    BY DEF DocumentOk
  <2>2. NameOf(d, svc) = n
    BY <1>3, <1>4 DEF NameOf
  <2>3. NameOf(d, svc) # ""
    BY <1>3, <2>1, NamedBySource
  <2> QED BY <2>2, <2>3
<1>6. svc \in Pending(d, managed)
  BY <1>2, <1>4 DEF Pending
<1>7. svc \in DOMAIN creds /\ creds[svc] = Collapse(d, managed, svc)
  BY <1>6, Collapsed
<1>8. creds[svc].key # None /\ creds[svc].key.name = n /\ creds[svc].key.managed
  BY <1>2, <1>5, <1>7, CollapsedKey, CollapsedManaged
<1>9. Keyed(creds, CredentialType)
  BY ServicesTyped
<1>10. /\ svc \in DOMAIN folded
       /\ folded[svc].key = IF Routed(d, svc, creds[svc].key) THEN None ELSE creds[svc].key
  <2>1. /\ DOMAIN creds \subseteq DOMAIN folded
        /\ \A s \in DOMAIN creds :
             folded[s].key = IF Routed(d, s, creds[s].key) THEN None ELSE creds[s].key
    BY <1>9, FoldedKeys
  <2> HIDE DEF folded
  <2> QED BY <1>7, <2>1
<1>11. ~Routed(d, svc, creds[svc].key)
  BY <1>5, <1>8 DEF Routed, RoutingOnly
<1> QED BY <1>8, <1>10, <1>11

LEMMA ExpandedFields ==
  ASSUME NEW d, NEW creds
  PROVE  LET spec == ExpandSchemes(ModelOf(d, creds))
         IN  /\ spec.credentials = [s \in DOMAIN creds |-> Expanded(creds[s])]
             /\ spec.content = ContentOf(d)
             /\ spec.sandbox = IF Block(d) = None THEN None ELSE SandboxOf(Block(d))
             /\ spec.allow = d.caps.allow \cup d.network.allow
             /\ spec.deny = d.caps.deny \cup d.network.deny
             /\ spec.ports = d.ports \cup d.network.ports
             /\ spec.volumes = VolumesOf(d)
<1> DEFINE model == ModelOf(d, creds)
           expanded == [s \in DOMAIN creds |-> Expanded(creds[s])]
<1>1. "credentials" \in DOMAIN model /\ model.credentials = creds
  BY DEF ModelOf
<1>2. ExpandSchemes(model) = [model EXCEPT !.credentials = expanded]
  BY <1>1 DEF ExpandSchemes
<1>3. {"content", "sandbox", "allow", "deny", "ports", "volumes"} \subseteq DOMAIN model
  BY DEF ModelOf
<1> HIDE DEF expanded, model
<1>4. /\ ExpandSchemes(model).credentials = expanded
      /\ ExpandSchemes(model).content = model.content
      /\ ExpandSchemes(model).sandbox = model.sandbox
      /\ ExpandSchemes(model).allow = model.allow
      /\ ExpandSchemes(model).deny = model.deny
      /\ ExpandSchemes(model).ports = model.ports
      /\ ExpandSchemes(model).volumes = model.volumes
  BY <1>1, <1>2, <1>3
<1> QED BY <1>4, ModelFields DEF model, expanded

LEMMA VolumesKept ==
  ASSUME NEW d, NEW p \in DOMAIN d.volumes \cup DOMAIN d.tmpfs
  PROVE  p \in {v.path : v \in VolumesOf(d)}
<1>1. CASE p \in DOMAIN d.volumes
  <2>1. Volume(p, "", d.volumes[p]) \in VolumesOf(d)
    BY <1>1 DEF VolumesOf
  <2>2. Volume(p, "", d.volumes[p]).path = p
    BY DEF Volume
  <2> QED BY <2>1, <2>2
<1>2. CASE p \in DOMAIN d.tmpfs
  <2>1. Volume(p, "tmpfs", d.tmpfs[p]) \in VolumesOf(d)
    BY <1>2 DEF VolumesOf
  <2>2. Volume(p, "tmpfs", d.tmpfs[p]).path = p
    BY DEF Volume
  <2> QED BY <2>1, <2>2
<1> QED BY <1>1, <1>2

(* What is kept of the services, after the schemes are expanded.           *)
LEMMA DomainsKept ==
  ASSUME NEW d, d.schema = "1", DocumentOk(d), SaidOnce(d), NEW managed \in EnvToService(d),
         FoldOAuth(d, Credentials(d, managed)).ok
  PROVE  LET folded == FoldOAuth(d, Credentials(d, managed)).spec
             creds == [s \in DOMAIN folded |-> Expanded(folded[s])]
             doms == d.network.serviceDomains
         IN  \A x \in DOMAIN doms : x \in Hosts(creds[doms[x]])
<1> DEFINE folded == FoldOAuth(d, Credentials(d, managed)).spec
           creds == [s \in DOMAIN folded |-> Expanded(folded[s])]
           doms == d.network.serviceDomains
<1>1. Keyed(folded, CredentialType)
  <2>1. Keyed(Credentials(d, managed), CredentialType) /\ d.oauth \in OAuthType \cup {None}
    BY ServicesTyped DEF DocumentOk
  <2> QED BY <2>1, FoldedTyped
<1>2. \A svc \in Pending(d, managed) : \A i \in InjectOf(d, svc) :
        i.domain # "" => svc \in DOMAIN folded /\ i.domain \in Hosts(folded[svc])
  BY ServiceHosts
<1>3. \A x \in DOMAIN doms : x # "" /\ doms[x] \in Pending(d, managed)
  BY DEF SaidOnce, Pending, Range
<1>4. \A x \in DOMAIN doms : \E i \in InjectOf(d, doms[x]) : i.domain = x
  BY InjectedDomain
<1>5. \A s \in DOMAIN folded : Hosts(folded[s]) \subseteq Hosts(Expanded(folded[s]))
  <2> HIDE DEF folded
  <2> QED BY <1>1, ExpandedHosts DEF Keyed
<1> HIDE DEF folded, doms
<1>6. \A s \in DOMAIN folded : creds[s] = Expanded(folded[s])
  OBVIOUS
<1> HIDE DEF creds
<1>7. \A x \in DOMAIN doms : x \in Hosts(creds[doms[x]])
  BY <1>2, <1>3, <1>4, <1>5, <1>6
<1> QED BY <1>7 DEF folded, doms, creds

LEMMA CollapsedRequired ==
  ASSUME NEW d, NEW managed, NEW s
  PROVE  Collapse(d, managed, s).required = (s \in DOMAIN d.sources /\ d.sources[s].required)
<1> DEFINE required == s \in DOMAIN d.sources /\ d.sources[s].required
           kept == IF NameOf(d, s) = "" /\ InjectOf(d, s) = {} THEN None
                   ELSE [name |-> NameOf(d, s), managed |-> s \in Range(managed),
                         inject |-> InjectOf(d, s)]
<1>1. Collapse(d, managed, s) = [NoCredential EXCEPT !.key = kept, !.required = required]
  BY Zenon DEF Collapse
<1> HIDE DEF required, kept
<1>2. Collapse(d, managed, s).required = required
  BY <1>1 DEF NoCredential
<1> QED BY <1>2 DEF required

LEMMA FoldedRequired ==
  ASSUME NEW d, NEW creds, Keyed(creds, CredentialType), FoldOAuth(d, creds).ok,
         NEW s \in DOMAIN creds
  PROVE  FoldOAuth(d, creds).spec[s].required = creds[s].required
<1> DEFINE folded == FoldOAuth(d, creds).spec
           key == IF Routed(d, s, creds[s].key) THEN None ELSE creds[s].key
           oauth == OAuthOf(d, IF Routed(d, s, creds[s].key)
                               THEN {i.domain : i \in creds[s].key.inject} ELSE {})
<1>1. \/ folded[s] = creds[s]
      \/ folded[s] = [creds[s] EXCEPT !.key = key, !.oauth = oauth]
  <2>1. creds = [x \in DOMAIN creds |-> creds[x]]
    BY DEF Keyed
  <2>2. \A x \in DOMAIN creds :
          IF d.oauth = None \/ d.oauth.service # x THEN folded[x] = creds[x]
          ELSE folded[x] = [creds[x] EXCEPT
                 !.key = IF Routed(d, x, creds[x].key) THEN None ELSE @,
                 !.oauth = OAuthOf(d, IF Routed(d, x, creds[x].key)
                                      THEN {i.domain : i \in creds[x].key.inject} ELSE {})]
    BY <2>1, FoldedServices, Zenon
  <2> HIDE DEF folded
  <2> QED BY <2>2
<1>2. creds[s] \in CredentialType
  BY DEF Keyed
<1> HIDE DEF key, oauth, folded
<1>3. folded[s].required = creds[s].required
  BY <1>1, <1>2 DEF CredentialType
<1> QED BY <1>3 DEF folded

LEMMA ExpandedRequired ==
  ASSUME NEW c \in CredentialType
  PROVE  Expanded(c).required = c.required
<1> DEFINE key == [c.key EXCEPT !.inject = {ExpandScheme(in) : in \in c.key.inject}]
<1>1. Expanded(c) = c \/ Expanded(c) = [c EXCEPT !.key = key]
  BY DEF Expanded
<1> HIDE DEF key
<1> QED BY <1>1 DEF CredentialType

(* The credential of a source is required where the source is, and is of   *)
(* its first variable.                                                     *)
LEMMA SourcesKept ==
  ASSUME NEW d, d.schema = "1", DocumentOk(d), SaidOnce(d), NEW managed \in EnvToService(d),
         FoldOAuth(d, Credentials(d, managed)).ok
  PROVE  LET folded == FoldOAuth(d, Credentials(d, managed)).spec
             creds == [s \in DOMAIN folded |-> Expanded(folded[s])]
         IN  \A s \in DOMAIN d.sources : CarriesSource(creds[s], d.sources[s])
<1> DEFINE joined == Credentials(d, managed)
           folded == FoldOAuth(d, joined).spec
           creds == [s \in DOMAIN folded |-> Expanded(folded[s])]
<1>1. Keyed(joined, CredentialType) /\ FoldOAuth(d, joined).ok
  BY ServicesTyped
<1>2. Keyed(folded, CredentialType) /\ DOMAIN joined \subseteq DOMAIN folded
  <2>1. d.oauth \in OAuthType \cup {None}
    BY DEF DocumentOk
  <2> HIDE DEF joined
  <2> QED BY <1>1, <2>1, FoldedTyped, FoldedKeys
<1>3. \A s \in DOMAIN folded : creds[s] = Expanded(folded[s])
  OBVIOUS
<1>4. ASSUME NEW s \in DOMAIN d.sources
      PROVE  CarriesSource(creds[s], d.sources[s])
  <2>1. s \in Pending(d, managed)
    BY DEF SaidOnce, Pending
  <2>2. s \in DOMAIN joined /\ joined[s] = Collapse(d, managed, s)
    BY <2>1, Collapsed
  <2>3. joined[s].required = d.sources[s].required
    <3>1. d.sources[s].required \in BOOLEAN
      BY DEF DocumentOk, Keyed, SourceType
    <3>2. joined[s].required = (s \in DOMAIN d.sources /\ d.sources[s].required)
      BY <2>2, CollapsedRequired
    <3> HIDE DEF joined
    <3> QED BY <3>1, <3>2
  <2> HIDE DEF folded, creds
  <2>4. folded[s] \in CredentialType /\ creds[s] = Expanded(folded[s])
    BY <1>2, <1>3, <2>2 DEF Keyed
  <2>5. creds[s].required = d.sources[s].required
    <3>1. folded[s].required = joined[s].required
      BY <1>1, <2>2, FoldedRequired DEF folded
    <3>2. creds[s].required = folded[s].required
      BY <2>4, ExpandedRequired
    <3> QED BY <2>3, <3>1, <3>2
  <2>6. ASSUME d.sources[s].env # <<>>
        PROVE  creds[s].key # None /\ creds[s].key.name = d.sources[s].env[1]
    <3>1. NameOf(d, s) = d.sources[s].env[1] /\ NameOf(d, s) # ""
      <4>1. Keyed(d.sources, SourceType)
        BY DEF DocumentOk
      <4>2. NameOf(d, s) = d.sources[s].env[1]
        BY <2>6 DEF NameOf
      <4>3. NameOf(d, s) # ""
        BY <2>6, <4>1, NamedBySource
      <4> QED BY <4>2, <4>3
    <3>2. joined[s].key # None /\ joined[s].key.name = NameOf(d, s)
      BY <2>2, <3>1, CollapsedKey
    <3>3. ~Routed(d, s, joined[s].key)
      BY <3>1, <3>2 DEF Routed, RoutingOnly
    <3>4. folded[s].key = joined[s].key
      BY <1>1, <2>2, <3>3, FoldedKeys DEF folded
    <3>5. creds[s].key # None /\ creds[s].key.name = folded[s].key.name
      BY <2>4, <3>2, <3>4, ExpandedCredential, ExpandedKey
    <3> QED BY <3>1, <3>2, <3>4, <3>5
  <2> QED BY <2>5, <2>6 DEF CarriesSource
<1> QED BY <1>4 DEF creds, folded, joined

LEMMA NamesKept ==
  ASSUME NEW d, d.schema = "1", DocumentOk(d), SaidOnce(d), NEW managed \in EnvToService(d),
         FoldOAuth(d, Credentials(d, managed)).ok
  PROVE  LET folded == FoldOAuth(d, Credentials(d, managed)).spec
             creds == [s \in DOMAIN folded |-> Expanded(folded[s])]
         IN  \A n \in d.proxyManaged \cap DOMAIN managed :
               \E s \in DOMAIN creds : /\ creds[s].key # None /\ creds[s].key.managed
                                       /\ creds[s].key.name = n
<1> DEFINE folded == FoldOAuth(d, Credentials(d, managed)).spec
           creds == [s \in DOMAIN folded |-> Expanded(folded[s])]
<1>1. Keyed(folded, CredentialType)
  <2>1. Keyed(Credentials(d, managed), CredentialType) /\ d.oauth \in OAuthType \cup {None}
    BY ServicesTyped DEF DocumentOk
  <2> QED BY <2>1, FoldedTyped
<1>2. \A n \in d.proxyManaged \cap DOMAIN managed :
        \E s \in DOMAIN folded : /\ folded[s].key # None /\ folded[s].key.managed
                                 /\ folded[s].key.name = n
  BY ManagedNames
<1> HIDE DEF folded
<1>3. ASSUME NEW s \in DOMAIN folded, folded[s].key # None
      PROVE  /\ s \in DOMAIN creds /\ creds[s].key # None
             /\ creds[s].key.name = folded[s].key.name
             /\ creds[s].key.managed = folded[s].key.managed
  <2>1. folded[s] \in CredentialType
    BY <1>1 DEF Keyed
  <2>2. creds[s] = Expanded(folded[s])
    OBVIOUS
  <2> HIDE DEF creds
  <2> QED BY <1>3, <2>1, <2>2, ExpandedCredential, ExpandedKey DEF creds
<1> HIDE DEF creds
<1>4. \A n \in d.proxyManaged \cap DOMAIN managed :
        \E s \in DOMAIN creds : /\ creds[s].key # None /\ creds[s].key.managed
                                /\ creds[s].key.name = n
  BY <1>2, <1>3
<1> QED BY <1>4 DEF folded, creds

LEMMA LostIsWarned ==
  ASSUME NEW d, d.schema = "1", DocumentOk(d), SaidOnce(d), NEW managed \in EnvToService(d),
         FoldOAuth(d, Credentials(d, managed)).ok
  PROVE  LET folded == FoldOAuth(d, Credentials(d, managed)).spec
         IN  Lost(d, ExpandSchemes(ModelOf(d, folded)))
               \subseteq CredentialWarnings(d, managed) \cup SurfaceWarnings(d)
<1> DEFINE folded == FoldOAuth(d, Credentials(d, managed)).spec
           creds == [s \in DOMAIN folded |-> Expanded(folded[s])]
           spec == ExpandSchemes(ModelOf(d, folded))
           warned == CredentialWarnings(d, managed) \cup SurfaceWarnings(d)
           b == Block(d)
           doms == d.network.serviceDomains
           block == IF b = None THEN {}
                    ELSE UNION {WarnIf(b.persistence, "sandbox.persistence"),
                                WarnIf(b.pipeMode, "sandbox.entrypoint.pipeMode"),
                                WarnIf(b.run \o b.binary # spec.sandbox.entrypoint, "agent.binary"),
                                WarnIf(b.args \o b.runOptions # spec.sandbox.default, "agent.runOptions"),
                                WarnIf(b.ttyArgs \o b.interactiveOptions # spec.sandbox.interactive,
                                       "agent.interactiveOptions")}
           memory == WarnIf(d.memory # "" /\ spec.content # d.memory, "memory:")
           deny == WarnIf(~(d.caps.deny \cup d.network.deny \subseteq spec.deny), "network.deniedDomains")
           allow == WarnIf(~(d.caps.allow \cup d.network.allow \subseteq spec.allow), "caps:")
           ports == WarnIf(~(d.ports \cup d.network.ports \subseteq spec.ports), "network.publishedPorts")
           domains == WarnIf(\E x \in DOMAIN doms : x \notin Hosts(spec.credentials[doms[x]]),
                             "a service domain")
           sources == WarnIf(\E s \in DOMAIN d.sources :
                               ~CarriesSource(spec.credentials[s], d.sources[s]),
                             "a credential source")
           names == {n \in d.proxyManaged :
                       ~\E s \in DOMAIN spec.credentials :
                          spec.credentials[s].key # None /\ spec.credentials[s].key.managed
                            /\ spec.credentials[s].key.name = n}
           volumes == WarnIf(\E p \in DOMAIN d.volumes \cup DOMAIN d.tmpfs :
                               p \notin {v.path : v \in spec.volumes}, "volumes: (mapping form)")
<1>1. Lost(d, spec) = UNION {block, memory, deny, allow, ports, domains, sources, names, volumes,
                             d.removed}
  BY Zenon DEF Lost, Hosts
<1>2. /\ spec.credentials = creds
      /\ spec.content = ContentOf(d)
      /\ spec.sandbox = IF b = None THEN None ELSE SandboxOf(b)
      /\ spec.allow = d.caps.allow \cup d.network.allow
      /\ spec.deny = d.caps.deny \cup d.network.deny
      /\ spec.ports = d.ports \cup d.network.ports
      /\ spec.volumes = VolumesOf(d)
  BY ExpandedFields
<1>3. UNION {OtherWarnings(d), NetworkWarnings(d), InstructionWarnings(d)} \subseteq warned
  BY DEF SurfaceWarnings
<1>4. \A x \in DOMAIN doms : x \in Hosts(creds[doms[x]])
  BY DomainsKept
<1>5. \A n \in d.proxyManaged \cap DOMAIN managed :
        \E s \in DOMAIN creds : /\ creds[s].key # None /\ creds[s].key.managed
                                /\ creds[s].key.name = n
  BY NamesKept
<1>6. \A s \in DOMAIN d.sources : CarriesSource(creds[s], d.sources[s])
  BY SourcesKept
<1> HIDE DEF spec, creds
<1>7. deny = {} /\ allow = {} /\ ports = {}
  BY <1>2 DEF WarnIf
<1>8. domains = {} /\ sources = {}
  BY <1>2, <1>4, <1>6 DEF WarnIf
<1>9. names \subseteq warned
  <2>1. names \subseteq d.proxyManaged \ DOMAIN managed
    BY <1>2, <1>5
  <2>2. d.proxyManaged \ DOMAIN managed \subseteq CredentialWarnings(d, managed)
    BY DEF CredentialWarnings
  <2> QED BY <2>1, <2>2
<1>10. volumes = {}
  BY <1>2, VolumesKept DEF WarnIf
<1>11. d.removed \subseteq warned
  BY <1>3 DEF OtherWarnings
<1>12. memory \subseteq warned
  <2>1. memory \subseteq InstructionWarnings(d)
    BY DEF WarnIf, InstructionWarnings
  <2> QED BY <1>3, <2>1
<1>13. block \subseteq warned
  <2>1. CASE b = None
    BY <2>1
  <2>2. CASE b # None
    <3>1. /\ b.run \o b.binary = spec.sandbox.entrypoint
          /\ b.args \o b.runOptions = spec.sandbox.default
          /\ b.ttyArgs \o b.interactiveOptions = spec.sandbox.interactive
      BY <1>2, <2>2, CommandKept
    <3>2. block \subseteq WarnIf(b.persistence, "sandbox.persistence")
                           \cup WarnIf(b.pipeMode, "sandbox.entrypoint.pipeMode")
      BY <3>1 DEF WarnIf
    <3>3. WarnIf(b.persistence, "sandbox.persistence")
            \cup WarnIf(b.pipeMode, "sandbox.entrypoint.pipeMode") \subseteq SandboxWarnings(d, b)
      BY DEF SandboxWarnings
    <3>4. SandboxWarnings(d, b) \subseteq warned
      BY <2>2 DEF SurfaceWarnings
    <3> HIDE DEF block, warned, b
    <3> QED BY <3>2, <3>3, <3>4
  <2> QED BY <2>1, <2>2
<1> HIDE DEF block, memory, deny, allow, ports, domains, sources, names, volumes, warned
<1>14. Lost(d, spec) \subseteq warned
  BY <1>1, <1>7, <1>8, <1>9, <1>10, <1>11, <1>12, <1>13
<1> QED BY <1>14 DEF spec, warned

(* What a version 1 document says and its model does not carry is warned   *)
(* of, where the document says each thing once.                            *)
THEOREM LossesAreTold ==
  ASSUME NEW k \in Kits, k.doc # None, k.doc.schema = "1", SaidOnce(k.doc),
         NEW r \in Load(k), r.ok
  PROVE  Lost(k.doc, r.spec) \subseteq r.warned
<1> DEFINE d == k.doc
<1>1. DocumentOk(d)
  BY KitsAssumption
<1>2. PICK q \in ParseSpec(d) : q.ok /\ r.spec = q.spec /\ q.warned \subseteq r.warned
  BY Loaded
<1>3. PICK p \in Decode(d) : p.ok /\ q.spec = ExpandSchemes(p.spec) /\ p.warned \subseteq q.warned
  BY <1>2, Finished
<1>4. d.schema = "1" /\ SaidOnce(d)
  OBVIOUS
<1> HIDE DEF d
<1>5. p \in Translate(d)
  BY <1>4 DEF Decode
<1>6. PICK managed \in EnvToService(d) :
        LET creds == FoldOAuth(d, Credentials(d, managed))
        IN  /\ creds.ok
            /\ p.spec = ModelOf(d, creds.spec)
            /\ p.warned = UNION {creds.warned, CredentialWarnings(d, managed), SurfaceWarnings(d)}
  BY <1>3, <1>5, Translated
<1>7. Lost(d, r.spec) \subseteq CredentialWarnings(d, managed) \cup SurfaceWarnings(d)
  BY <1>1, <1>2, <1>3, <1>4, <1>6, LostIsWarned
<1>8. CredentialWarnings(d, managed) \cup SurfaceWarnings(d) \subseteq r.warned
  BY <1>2, <1>3, <1>6
<1> QED BY <1>7, <1>8 DEF d

(* The same of every kit that a command loads.                             *)
THEOREM KitsTellTheirLosses == Spec => []NothingLostSilently
<1>1. IInv => NothingLostSilently
  <2> SUFFICES ASSUME IInv, NEW t \in Terms, At(t, "load"), cmd[t].kit.doc # None,
                      cmd[t].kit.doc.schema = "1", SaidOnce(cmd[t].kit.doc), NEW r \in Load(cmd[t].kit), r.ok
               PROVE  Lost(cmd[t].kit.doc, r.spec) \subseteq r.warned
    BY DEF NothingLostSilently
  <2>1. cmd[t].kit \in Kits
    BY DEF IInv, Owners, Knows, At
  <2> QED BY <2>1, LossesAreTold
<1> QED BY <1>1, SandboxInvariant, PTL
=============================================================================
