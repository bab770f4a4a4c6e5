------------------------------ MODULE Sandbox ------------------------------
(***************************************************************************)
(* The sandboxes themselves (internal/sandbox, internal/cli, internal/ca): *)
(* commands typed at several terminals, each of which reads and changes    *)
(* the containers and tasks that containerd keeps, the clone inside a      *)
(* guest and the certificate authority on disk.  No command holds a lock   *)
(* on a sandbox: every call to containerd is a step of its own, and what a *)
(* command read may be stale when it acts.                                 *)
(*                                                                         *)
(* A command is a pipeline of steps; cmd[t].pc names the one it is at.     *)
(* The network stack that a sandbox gets in between is NetSupervisor's.    *)
(* The workspaces here all have one base name, so their sandboxes compete  *)
(* for one readable name.                                                  *)
(***************************************************************************)
EXTENDS GuestSpec

CONSTANTS Terms,        \* terminals
          Workspaces,   \* host directories, all of one base name
          Repos,        \* those that are git repositories
          Requests,     \* what a user may type: [op, ws, clone]
          Kits,         \* kit references a user may add to a command
          Machines,     \* images, hosts and shares: [image, host, shares, clone]
          MaxCommands,  \* bound: commands ever typed
          MaxFaults     \* bound: failures, signals and kills

Creating == {"run", "runrm", "create"}      \* operations that may create
Ops == Creating \cup {"exec", "start", "stop", "rm", "rmf"}

ASSUME SandboxAssumption ==
  /\ Repos \subseteq Workspaces
  /\ None \notin Workspaces \cup Terms
  /\ Requests \subseteq [op : Ops, ws : Workspaces \cup {None}, clone : BOOLEAN]
  /\ \A r \in Requests : r.op \in Creating => r.ws \in Workspaces
  /\ MaxCommands \in Nat /\ MaxFaults \in Nat

(* That these are strings the provers must be told. *)
ASSUME KitsAssumption ==
  /\ {"", "%s", "Bearer %s", "Authorization"} \subseteq STRING
  /\ None \notin KeyType \cup OAuthType
  /\ \A k \in Kits : k.doc # None => DocumentOk(k.doc)

ASSUME MachinesAssumption == IdSpace \in Nat \ {0} /\ \A m \in Machines : MachineOk(m)

VARIABLES ctr,          \* containerd: the container of each name, or None
          task,         \* containerd: the state of its task
          repo,         \* the clone in its snapshot: none, partial or done
          script,       \* the terminal whose clone script runs in it, or None
          caKey, caCert,\* the authority's two files, by who made the pair
          caRaced,      \* history: two creations of the authority overlapped
          cut,          \* history: names whose clone script was cut short
          made,         \* sandboxes created so far
          lent,         \* history: ephemeral ones whose task another command touched
          typed,        \* commands typed so far
          faults,       \* failures so far
          cmd           \* what each terminal is doing

vars == <<ctr, task, repo, script, caKey, caCert, caRaced, cut, made, lent, typed, faults, cmd>>
disk == <<caKey, caCert, caRaced, typed>>
clones == <<repo, script, cut>>
guest == <<ctr, task, clones, made, lent>>

(* composeName: <agent>-<dir>, the same with the path's digest, and the    *)
(* random name of an ephemeral sandbox.                                    *)
DeriveName(w) == <<"dir", None>>
QualifiedName(w) == <<"dir", w>>
EphemeralName(t) == <<"rm", t>>

Names == {<<"dir", None>>} \cup {QualifiedName(w) : w \in Workspaces}
                           \cup {EphemeralName(t) : t \in Terms}

Idle == [op |-> "", pc |-> "idle", ws |-> None, clone |-> FALSE, kit |-> None, img |-> None,
         name |-> None, how |-> "", seen |-> 0, id |-> 0, warned |-> FALSE, pass |-> 1,
         err |-> ""]

(* A new machine; one where directories got their sandboxes one after the  *)
(* other, the first the readable name and the others qualified ones; or    *)
(* one with a sandbox that carries no directory's label.                   *)
Init ==
  /\ \/ /\ ctr = [n \in Names |-> None]
        /\ caKey = None /\ caCert = None
        /\ made = 0
     \/ \E first \in Workspaces \cup {None} :
          \E rest \in SUBSET (Workspaces \ {first}) :
            /\ first = None => rest = {}
            /\ ctr = [n \in Names |->
                        IF n = DeriveName(first) THEN [ws |-> first, clone |-> FALSE, id |-> 1]
                        ELSE IF \E w \in rest : n = QualifiedName(w)
                        THEN [ws |-> n[2], clone |-> FALSE, id |-> 2]
                        ELSE None]
            /\ caKey = "earlier" /\ caCert = "earlier"
            /\ made = 2
  /\ task = [n \in Names |-> "none"]
  /\ repo = [n \in Names |-> "none"]
  /\ script = [n \in Names |-> None]
  /\ caRaced = FALSE
  /\ cut = {} /\ lent = {} /\ typed = 0 /\ faults = 0
  /\ cmd = [t \in Terms |-> Idle]

At(t, pc) == cmd[t].pc = pc
Goto(t, pc) == cmd' = [cmd EXCEPT ![t].pc = pc]
End(t) == cmd' = [cmd EXCEPT ![t] = Idle]
Name(t) == cmd[t].name

(* Find, and the lookup that Choose gives to ChooseName: containerd has a  *)
(* container of the name.                                                  *)
Find(n) == ctr[n] # None

(* A guest whose first process ignores SIGTERM is up all the same. *)
Up(n) == task[n] \in {"running", "deaf"}

(* The task's first process ends and takes the others with it, a script    *)
(* that was making the clone included.                                     *)
EndTask(n) ==
  /\ task' = [task EXCEPT ![n] = "stopped"]
  /\ script' = [script EXCEPT ![n] = None]
  /\ cut' = IF script[n] = None THEN cut ELSE cut \cup {n}

(* Something the world does to a command, counted against the bound. *)
Fault == faults < MaxFaults /\ faults' = faults + 1

(* The command gives up.  What runEphemeral deferred still happens: the    *)
(* container it created is deleted, on a context of its own.               *)
Fail(t, why) ==
  cmd' = [cmd EXCEPT ![t] = IF @.op = "runrm" /\ @.id # 0
                            THEN [@ EXCEPT !.pc = "remove", !.err = why] ELSE Idle]

---------------------------------------------------------------------------
(* Typing a command, and what it decides before it touches anything.       *)

(* A kit or an image changes nothing that commands share, so only the      *)
(* first command on a new machine is given one, and nothing is typed       *)
(* beside it.                                                              *)
Fresh == typed + made = 0

(* run: a directory, and perhaps a kit. *)
TypeRun(t, r) ==
  /\ r.op \in {"run", "runrm"}
  /\ r.op = "runrm" => ~Find(EphemeralName(t))
  /\ \E k \in (IF Fresh /\ r.op = "run" /\ r.clone THEN Kits ELSE {}) \cup {None} :
       cmd' = [cmd EXCEPT ![t] = [Idle EXCEPT
                 !.op = r.op, !.ws = r.ws, !.clone = r.clone, !.kit = k,
                 !.pc = IF k = None THEN "resolve" ELSE "load"]]

(* create: a directory. *)
TypeCreate(t, r) ==
  /\ r.op = "create"
  /\ cmd' = [cmd EXCEPT ![t] = [Idle EXCEPT !.op = r.op, !.ws = r.ws, !.clone = r.clone,
                                            !.pc = "resolve"]]

(* exec, start, stop and rm: the name of a sandbox. *)
TypeExec(t, r) ==
  /\ r.op \notin Creating
  /\ \E n \in {x \in Names : Find(x)} :
       cmd' = [cmd EXCEPT ![t] = [Idle EXCEPT
                 !.op = r.op, !.name = n, !.pass = 2,
                 !.pc = IF r.op \in {"exec", "start"} THEN "reload" ELSE "look"]]

Type(t) ==
  /\ At(t, "idle")
  /\ \A s \in Terms : ~At(s, "load") /\ cmd[s].img = None
  /\ typed < MaxCommands /\ typed' = typed + 1
  /\ \E r \in Requests : TypeRun(t, r) \/ TypeCreate(t, r) \/ TypeExec(t, r)
  /\ UNCHANGED <<guest, caKey, caCert, caRaced, faults>>

(* loadKit, registerKitAgent (run only) and kitInjectSpecs: before the     *)
(* daemon is touched.                                                      *)
LoadKit(t) ==
  /\ At(t, "load")
  /\ \E r \in Load(cmd[t].kit) :
       LET agent == RegisterKitAgent(r.spec, TRUE)
       IN  IF \/ ~r.ok
              \/ cmd[t].op = "run" /\ ~agent.ok
              \/ \E in \in Injects(r.spec) : FormRefused(in)
              \/ ~ParseCredentials(KitInjectSpecs(r.spec)).ok
           THEN End(t)
           ELSE cmd' = [cmd EXCEPT ![t].pc = "resolve", ![t].kit = None]
  /\ UNCHANGED <<guest, disk, faults>>

(* ChooseName: the qualified name first, so that a sandbox once bumped     *)
(* keeps it; then the readable one, if it is free, this directory's or no  *)
(* directory's.                                                            *)
Workspace(n) == ctr[n].ws

(* Mutant: the qualified name is not looked up. *)
ChooseName_ReadableFirst(w) ==
  IF ~Find(DeriveName(w)) \/ Workspace(DeriveName(w)) \in {None, w}
  THEN DeriveName(w) ELSE QualifiedName(w)

ChooseName(w) ==
  IF Find(QualifiedName(w)) THEN QualifiedName(w)
  ELSE IF ~Find(DeriveName(w)) \/ Workspace(DeriveName(w)) \in {None, w}
  THEN DeriveName(w) ELSE QualifiedName(w)

(* checkFixedAtCreation: of what a sandbox fixes, the model keeps --clone. *)
CheckFixed(n, clone) == clone => ctr[n].clone

(* InspectRepo: the root of a repository whose git directory is in it.     *)
InspectRepo(w) == w \in Repos

(* applyCloneMode: a repository is needed only for a sandbox that does not *)
(* exist; for one that does, the flag is not carried into the config.      *)
CloneRefused(w, clone) == clone /\ ~InspectRepo(w)

Resolve(t) ==
  /\ At(t, "resolve")
  /\ LET c == cmd[t]
         n == IF c.op = "runrm" THEN EphemeralName(t) ELSE ChooseName(c.ws)
         exists == c.op # "runrm" /\ Find(n)
     IN  IF \/ exists /\ (c.op = "create" \/ ~CheckFixed(n, c.clone))
            \/ ~exists /\ CloneRefused(c.ws, c.clone)
         THEN End(t)
         ELSE cmd' = [cmd EXCEPT ![t].name = n, ![t].pc = "ca", ![t].seen = made,
                        ![t].how = IF exists THEN "exists" ELSE "new"]
  /\ UNCHANGED <<guest, disk, faults>>

---------------------------------------------------------------------------
(* The certificate authority: Spec.Prepare opens it, or creates it.        *)

Overlap(t) == \E s \in Terms \ {t} : cmd[s].pc \in {"caKey", "caCert"}

(* Open: no certificate is "not set up"; a certificate without its key, or *)
(* with another one, is an error.                                          *)
CaOpen(t) ==
  /\ At(t, "ca")
  /\ \/ caCert = None /\ Goto(t, "caKey")
     \/ caCert # None /\ caKey = caCert /\ Goto(t, "ensure")
     \/ caCert # None /\ caKey # caCert /\ End(t)
  /\ caRaced' = (caRaced \/ (caCert = None /\ Overlap(t)))
  /\ UNCHANGED <<guest, caKey, caCert, typed, faults>>

(* Create: a new key first and its certificate second, each renamed into   *)
(* place.  A pair is known by the terminal that generated it.              *)
(* Mutant: the certificate is renamed into place before its key. *)
CaWriteKey_CertFirst(t) ==
  /\ At(t, "caKey")
  /\ caCert' = t
  /\ Goto(t, "caCert")
  /\ UNCHANGED <<guest, caKey, caRaced, typed, faults>>

CaWriteKey(t) ==
  /\ At(t, "caKey")
  /\ caKey' = t
  /\ Goto(t, "caCert")
  /\ UNCHANGED <<guest, caCert, caRaced, typed, faults>>

CaWriteCert(t) ==
  /\ At(t, "caCert")
  /\ caCert' = t
  /\ Goto(t, "ensure")
  /\ UNCHANGED <<guest, caKey, caRaced, typed, faults>>

---------------------------------------------------------------------------
(* Bringing a sandbox up.                                                  *)

(* warnWorkspaceMismatch: the container of that name has the label of      *)
(* another directory.                                                      *)
Mismatch(t) == Workspace(Name(t)) \notin {None, cmd[t].ws}

(* Mutant: nobody is told. *)
Ensure_Unwarned(t) ==
  /\ At(t, "ensure")
  /\ IF cmd[t].op # "run" \/ ~Find(Name(t)) THEN Goto(t, "image")
     ELSE cmd' = [cmd EXCEPT ![t].pc = "start", ![t].id = ctr[Name(t)].id]
  /\ UNCHANGED <<guest, disk, faults>>

(* ensureContainer: LoadContainer, and that warning.  create and an        *)
(* ephemeral run create without looking.                                   *)
Ensure(t) ==
  /\ At(t, "ensure")
  /\ IF cmd[t].op # "run" \/ ~Find(Name(t)) THEN Goto(t, "image")
     ELSE cmd' = [cmd EXCEPT ![t].pc = "start", ![t].id = ctr[Name(t)].id,
                             ![t].warned = Mismatch(t)]
  /\ UNCHANGED <<guest, disk, faults>>

(* ensureImage: found and unpacked, or pulled. *)
EnsureImage(t) ==
  /\ At(t, "image")
  /\ \E m \in (IF typed = 1 /\ made = 0 /\ cmd[t].op = "create" THEN Machines ELSE {}) \cup {None} :
       cmd' = [cmd EXCEPT ![t].pc = "create", ![t].img = m]
  /\ UNCHANGED <<guest, disk, faults>>

(* create: the spec is made, and containerd then registers the name or     *)
(* says it exists.  runsKeeper: an ephemeral sandbox without a clone runs  *)
(* the command itself.                                                     *)
NewContainer(t) ==
  LET c == cmd[t]               \* the flag was dropped for one that existed
  IN  [ws |-> c.ws, clone |-> c.clone /\ c.how = "new", id |-> made + 1]

Create(t) ==
  /\ At(t, "create")
  /\ \/ /\ Find(Name(t)) \/ (cmd[t].img # None /\ ~SpecOptions(cmd[t].img).ok)
        /\ End(t)
        /\ UNCHANGED <<ctr, made, lent>>
     \/ /\ ~Find(Name(t))
        /\ cmd[t].img # None => SpecOptions(cmd[t].img).ok
        /\ ctr' = [ctr EXCEPT ![Name(t)] = NewContainer(t)]
        /\ made' = made + 1
        /\ lent' = lent \ {Name(t)}
        /\ IF cmd[t].op = "create" THEN End(t)
           ELSE cmd' = [cmd EXCEPT ![t].id = made + 1,
                          ![t].how = IF @ = "new" THEN "made" ELSE "remade",
                          ![t].pc = IF cmd[t].op = "runrm" /\ ~cmd[t].clone
                                    THEN "newTask" ELSE "start"]
  /\ UNCHANGED <<task, clones, disk, faults>>

(* loadContainer, by exec and start, and by run before its command. *)
Reload(t) ==
  /\ At(t, "reload")
  /\ IF ~Find(Name(t)) THEN End(t) ELSE Goto(t, "start")
  /\ UNCHANGED <<guest, disk, faults>>

(* startTask: what there is decides.  A task that has ended is deleted     *)
(* first, one that was created and never started is started.               *)
StartTask(t) ==
  /\ At(t, "start")
  /\ Goto(t, CASE task[Name(t)] = "none" -> "newTask"
               [] task[Name(t)] = "created" -> "startCreated"
               [] task[Name(t)] = "stopped" -> "clear"
               [] OTHER -> "up")
  /\ UNCHANGED <<guest, disk, faults>>

(* task.Delete: containerd refuses unless the task has stopped. *)
Clear(t) ==
  /\ At(t, "clear")
  /\ \/ /\ task[Name(t)] \in {"none", "stopped"}
        /\ task' = [task EXCEPT ![Name(t)] = "none"]
        /\ Goto(t, "newTask")
     \/ /\ task[Name(t)] \in {"created", "running", "deaf"}
        /\ Fail(t, "failed")
        /\ UNCHANGED task
  /\ UNCHANGED <<ctr, clones, made, lent, disk, faults>>

(* The task that a command changes may be of another's ephemeral sandbox. *)
Lend(t) ==
  lent' = lent \cup ({Name(t)} \cap {EphemeralName(s) : s \in Terms \ {t}})

(* container.NewTask: one task for a container. *)
NewTask(t) ==
  /\ At(t, "newTask")
  /\ \/ /\ Find(Name(t)) /\ task[Name(t)] = "none"
        /\ task' = [task EXCEPT ![Name(t)] = "created"]
        /\ Lend(t)
        /\ Goto(t, "startNew")
     \/ /\ ~Find(Name(t)) \/ task[Name(t)] # "none"
        /\ Fail(t, "failed")
        /\ UNCHANGED <<task, lent>>
  /\ UNCHANGED <<ctr, clones, made, disk, faults>>

(* task.Start, of a task this command found or made.  Only the one that    *)
(* made it cleans up after a failure.                                      *)
StartFails(t) ==
  IF At(t, "startNew")
  THEN cmd' = [cmd EXCEPT ![t].pc = "undo", ![t].err = "failed"]
  ELSE Fail(t, "failed")

Start(t) ==
  /\ cmd[t].pc \in {"startCreated", "startNew"}
  /\ \/ /\ task[Name(t)] = "created"
        /\ task' = [task EXCEPT ![Name(t)] = "running"]
        /\ Goto(t, IF cmd[t].op = "runrm" /\ ~cmd[t].clone THEN "proc" ELSE "up")
        /\ Lend(t)
        /\ UNCHANGED faults
     \/ /\ task[Name(t)] # "created"
        /\ StartFails(t)
        /\ UNCHANGED <<task, lent, faults>>
     \/ /\ task[Name(t)] = "created"
        /\ Fault
        /\ \E left \in {"created", "stopped"} :
             task' = [task EXCEPT ![Name(t)] = left]
        /\ Lend(t)
        /\ StartFails(t)
  /\ UNCHANGED <<ctr, clones, made, disk>>

(* cleanupTask: SIGKILL, a bounded wait, and a delete whose error is not   *)
(* looked at.                                                              *)
Undo(t) ==
  /\ At(t, "undo")
  /\ IF Up(Name(t)) THEN EndTask(Name(t)) ELSE UNCHANGED <<task, script, cut>>
  /\ Goto(t, "undoDelete")
  /\ UNCHANGED <<ctr, repo, made, lent, disk, faults>>

UndoDelete(t) ==
  /\ At(t, "undoDelete")
  /\ task' = [task EXCEPT ![Name(t)] = IF @ = "stopped" THEN "none" ELSE @]
  /\ Fail(t, cmd[t].err)
  /\ UNCHANGED <<ctr, clones, made, lent, disk, faults>>

---------------------------------------------------------------------------
(* ensureClone: the script in the guest.  A .git that exists, whoever made *)
(* it and however far it got, is taken for a finished clone.               *)

(* What follows ensureRunning: run looks the sandbox up again in Exec.     *)
AfterUp(t) ==
  CASE cmd[t].op = "start" -> End(t)
    [] cmd[t].op = "run" /\ cmd[t].pass = 1 ->
         cmd' = [cmd EXCEPT ![t].pc = "reload", ![t].pass = 2]
    [] OTHER -> Goto(t, "exec")

EnsureClone(t) ==
  /\ At(t, "up")
  /\ \/ /\ ~Find(Name(t))
        /\ Fail(t, "failed")
        /\ UNCHANGED <<repo, script>>
     \/ /\ Find(Name(t))
        /\ ~ctr[Name(t)].clone
        /\ AfterUp(t)
        /\ UNCHANGED <<repo, script>>
     \/ /\ Find(Name(t))
        /\ ctr[Name(t)].clone
        /\ IF ~Up(Name(t))
           THEN Fail(t, "failed") /\ UNCHANGED <<repo, script>>
           ELSE IF repo[Name(t)] # "none"
           THEN AfterUp(t) /\ UNCHANGED <<repo, script>>
           ELSE /\ repo' = [repo EXCEPT ![Name(t)] = "partial"]
                /\ script' = [script EXCEPT ![Name(t)] = t]
                /\ Goto(t, "cloning")
  /\ UNCHANGED <<ctr, task, cut, made, lent, disk, faults>>

(* The script ends by itself, and leaves this much of a clone. *)
ScriptEnds(t, left) ==
  /\ At(t, "cloning")
  /\ script[Name(t)] = t
  /\ repo' = [repo EXCEPT ![Name(t)] = left]
  /\ script' = [script EXCEPT ![Name(t)] = None]

(* git clone and chown succeed, and the clone is whole. *)
Cloned(t) ==
  /\ ScriptEnds(t, "done")
  /\ AfterUp(t)
  /\ UNCHANGED <<ctr, task, cut, made, lent, disk, faults>>

(* Mutant: the script exits without removing what it made. *)
CloneFails_Leaves(t) ==
  /\ ScriptEnds(t, "partial")
  /\ Fault
  /\ Fail(t, "clone")
  /\ UNCHANGED <<ctr, task, cut, made, lent, disk>>

(* Either fails: the script removes .git and exits with an error. *)
CloneFails(t) ==
  /\ ScriptEnds(t, "none")
  /\ Fault
  /\ Fail(t, "clone")
  /\ UNCHANGED <<ctr, task, cut, made, lent, disk>>

(* The task the script ran in was killed under it. *)
CloneCut(t) ==
  /\ At(t, "cloning")
  /\ script[Name(t)] # t
  /\ Fail(t, "clone")
  /\ UNCHANGED <<guest, disk, faults>>

---------------------------------------------------------------------------
(* The command in the guest, and its end.                                  *)

(* execProcess: a process beside the keeper. *)
Exec(t) ==
  /\ At(t, "exec")
  /\ IF Up(Name(t)) THEN Goto(t, "proc") ELSE Fail(t, "failed")
  /\ UNCHANGED <<guest, disk, faults>>

(* It exits, or its task is gone.  An ephemeral sandbox loses its task and *)
(* then its container.                                                     *)
ProcessEnds(t) ==
  /\ At(t, "proc")
  /\ IF cmd[t].op = "runrm" /\ ~cmd[t].clone /\ Up(Name(t))
     THEN EndTask(Name(t)) ELSE UNCHANGED <<task, script, cut>>
  /\ IF cmd[t].op = "runrm" THEN Goto(t, "undo") ELSE End(t)
  /\ UNCHANGED <<ctr, repo, made, lent, disk, faults>>

(* container.Delete with its snapshot: refused while a task exists. *)
DeleteContainer(n) ==
  /\ ctr' = [ctr EXCEPT ![n] = None]
  /\ repo' = [repo EXCEPT ![n] = "none"]
  /\ cut' = cut \ {n}
  /\ UNCHANGED script

CanDelete(n) == Find(n) /\ task[n] = "none"

(* Mutant: the deletion uses the context that the interrupt cancelled. *)
RemoveEphemeral_Cancelled(t) ==
  /\ At(t, "remove")
  /\ IF CanDelete(Name(t)) /\ cmd[t].err # "interrupted"
     THEN DeleteContainer(Name(t)) /\ End(t)
     ELSE /\ UNCHANGED <<ctr, clones>>
          /\ IF cmd[t].err = "" THEN Goto(t, "told") ELSE End(t)
  /\ UNCHANGED <<task, made, lent, disk, faults>>

(* The deferred deletion of runEphemeral: its error is returned only if    *)
(* the command had none.                                                   *)
RemoveEphemeral(t) ==
  /\ At(t, "remove")
  /\ IF CanDelete(Name(t))
     THEN DeleteContainer(Name(t)) /\ End(t)
     ELSE /\ UNCHANGED <<ctr, clones>>
          /\ IF cmd[t].err = "" THEN Goto(t, "told") ELSE End(t)
  /\ UNCHANGED <<task, made, lent, disk, faults>>

(* The user reads what the command printed. *)
Told(t) ==
  /\ At(t, "told")
  /\ End(t)
  /\ UNCHANGED <<guest, disk, faults>>

---------------------------------------------------------------------------
(* stop, rm and rm -f.                                                     *)

(* Remove looks first: a sandbox that runs is refused without -f. *)
Look(t) ==
  /\ At(t, "look")
  /\ IF ~Find(Name(t)) \/ (cmd[t].op = "rm" /\ Up(Name(t))) THEN End(t)
     ELSE Goto(t, IF cmd[t].op # "stop" /\ task[Name(t)] = "none" THEN "rmDelete" ELSE "term")
  /\ UNCHANGED <<guest, disk, faults>>

Stopped(t) == IF cmd[t].op = "stop" THEN End(t) ELSE Goto(t, "rmDelete")

(* stopContainer: SIGTERM and a bounded wait.  SIGKILL is sent on the same *)
(* context, so after a wait that ran out it and the deletion fail at once  *)
(* and the task is left as it was.                                         *)
Term(t) ==
  /\ At(t, "term")
  /\ \/ /\ task[Name(t)] = "none"
        /\ Stopped(t)
        /\ UNCHANGED <<task, script, cut>>
     \/ /\ task[Name(t)] = "deaf"
        /\ End(t)
        /\ UNCHANGED <<task, script, cut>>
     \/ /\ task[Name(t)] \notin {"none", "deaf"}
        /\ IF Up(Name(t)) THEN EndTask(Name(t)) ELSE UNCHANGED <<task, script, cut>>
        /\ Goto(t, "termDelete")
  /\ UNCHANGED <<ctr, repo, made, lent, disk, faults>>

TermDelete(t) ==
  /\ At(t, "termDelete")
  /\ IF task[Name(t)] \in {"none", "stopped"}
     THEN task' = [task EXCEPT ![Name(t)] = "none"] /\ Stopped(t)
     ELSE UNCHANGED task /\ End(t)
  /\ UNCHANGED <<ctr, clones, made, lent, disk, faults>>

RmDelete(t) ==
  /\ At(t, "rmDelete")
  /\ IF CanDelete(Name(t)) THEN DeleteContainer(Name(t)) ELSE UNCHANGED <<ctr, clones>>
  /\ End(t)
  /\ UNCHANGED <<task, made, lent, disk, faults>>

---------------------------------------------------------------------------
(* The world.                                                              *)

(* Ctrl-C before the process runs: the next call to containerd fails.  A   *)
(* script that is cut short leaves what it made; a task that was being     *)
(* started is cleaned up.  In the process the signal is the guest's.       *)
Interrupt(t) ==
  /\ Fault
  /\ \/ /\ cmd[t].pc \in {"resolve", "ensure", "image", "create", "newTask"}
        /\ Fail(t, "interrupted")
        /\ UNCHANGED clones
     \/ /\ cmd[t].pc \in {"reload", "start", "clear", "up", "exec"}
        /\ Fail(t, "failed")
        /\ UNCHANGED clones
     \/ /\ At(t, "startNew")
        /\ StartFails(t)
        /\ UNCHANGED clones
     \/ /\ ScriptEnds(t, "partial")
        /\ cut' = cut \cup {Name(t)}
        /\ Fail(t, "clone")
  /\ UNCHANGED <<ctr, task, made, lent, disk>>

(* The terminal is closed or boks killed: nothing deferred happens.  What  *)
(* runs in the guest stays, and a clone script goes on unwatched.          *)
Killed(t) ==
  /\ ~At(t, "idle")
  /\ Fault
  /\ End(t)
  /\ \/ \E left \in {"none", "partial", "done"} :
          /\ ScriptEnds(t, left)
          /\ cut' = IF left = "partial" THEN cut \cup {Name(t)} ELSE cut
     \/ ~(At(t, "cloning") /\ script[Name(t)] = t) /\ UNCHANGED clones
  /\ UNCHANGED <<ctr, task, made, lent, disk>>

(* The first process of an ephemeral sandbox is the command, which may     *)
(* ignore SIGTERM; the keeper of the others does not.                      *)
Deafens(t) ==
  /\ At(t, "proc") /\ cmd[t].op = "runrm" /\ ~cmd[t].clone
  /\ task[Name(t)] = "running"
  /\ Fault
  /\ task' = [task EXCEPT ![Name(t)] = "deaf"]
  /\ UNCHANGED <<ctr, clones, made, lent, disk, cmd>>

(* A step of its own that a command takes as soon as it can. *)
Step(t) ==
  \/ LoadKit(t) \/ Resolve(t)
  \/ CaOpen(t) \/ CaWriteKey(t) \/ CaWriteCert(t)
  \/ Ensure(t) \/ EnsureImage(t) \/ Create(t) \/ Reload(t)
  \/ StartTask(t) \/ Clear(t) \/ NewTask(t) \/ Start(t) \/ Undo(t) \/ UndoDelete(t)
  \/ EnsureClone(t) \/ Cloned(t) \/ CloneCut(t)
  \/ Exec(t) \/ RemoveEphemeral(t) \/ Told(t)
  \/ Look(t) \/ Term(t) \/ TermDelete(t) \/ RmDelete(t)

Next ==
  \E t \in Terms :
    \/ Type(t) \/ Step(t) \/ CloneFails(t) \/ ProcessEnds(t)
    \/ Interrupt(t) \/ Killed(t) \/ Deafens(t)

Spec == Init /\ [][Next]_vars

---------------------------------------------------------------------------
(* Types. *)
Pcs == {"idle", "load", "resolve", "ca", "caKey", "caCert", "ensure", "image", "create",
        "reload", "start", "startCreated", "startNew", "clear", "newTask", "undo", "undoDelete",
        "up", "cloning", "exec", "proc", "remove", "told",
        "look", "term", "termDelete", "rmDelete"}
CmdType == [op : Ops \cup {""}, pc : Pcs, ws : Workspaces \cup {None}, clone : BOOLEAN,
            kit : Kits \cup {None}, img : Machines \cup {None}, name : Names \cup {None},
            how : {"", "exists", "new", "made", "remade"}, seen : Nat, id : Nat,
            warned : BOOLEAN, pass : {1, 2}, err : {"", "failed", "interrupted", "clone"}]
CtrType == [ws : Workspaces \cup {None}, clone : BOOLEAN, id : Nat \ {0}]
TypeOK ==
  /\ ctr \in [Names -> CtrType \cup {None}]
  /\ task \in [Names -> {"none", "created", "running", "deaf", "stopped"}]
  /\ repo \in [Names -> {"none", "partial", "done"}]
  /\ script \in [Names -> Terms \cup {None}]
  /\ {caKey, caCert} \subseteq Terms \cup {None, "earlier"}
  /\ caRaced \in BOOLEAN
  /\ cut \subseteq Names /\ lent \subseteq Names
  /\ {made, typed, faults} \subseteq Nat
  /\ cmd \in [Terms -> CmdType]

(* A command that found no sandbox of its directory makes one beside       *)
(* another of that directory only where the other was made after it had    *)
(* looked: a second `boks run` there re-attaches, whatever other sandboxes *)
(* of that base name have come and gone (ChooseName).                      *)
ReattachesToItsOwn ==
  [][\A t \in Terms :
       (/\ At(t, "create") /\ cmd[t].op # "runrm" /\ cmd[t].how = "new"
        /\ made' = made + 1 /\ cmd'[t] # cmd[t])
       => \A n \in Names :
            ctr[n] # None /\ n[1] = "dir" /\ ctr[n].ws = cmd[t].ws => ctr[n].id > cmd[t].seen]_vars

(* And none at all, which two commands at once defeat (cli.md:1174: the    *)
(* same directory "re-attaches to it").                                    *)
OneSandboxEach ==
  [][\A t \in Terms :
       (/\ At(t, "create") /\ cmd[t].op # "runrm" /\ cmd[t].how = "new"
        /\ made' = made + 1 /\ cmd'[t] # cmd[t])
       => \A n \in Names : ctr[n] # None /\ n[1] = "dir" => ctr[n].ws # cmd[t].ws]_vars

Owned(t) == ctr[Name(t)].ws \in {None, cmd[t].ws}

(* The sandbox that a command brought up is the one in which its process   *)
(* runs, and not one that replaced it meanwhile.                           *)
BroughtUp(t) ==
  /\ At(t, "proc") /\ cmd[t].op \in Creating
  /\ ctr[Name(t)] # None /\ ctr[Name(t)].id = cmd[t].id

(* Whoever made the sandbox that a command brings up, and whenever: it is  *)
(* of the directory the command was given, or of none, or its user was     *)
(* warned.  It has a clone if one was asked for and the sandbox was there  *)
(* when the command looked, or was made by a command that had found none   *)
(* (ChooseName, checkCloneMode, applyCloneMode, warnWorkspaceMismatch).    *)
AskedFor ==
  \A t \in Terms :
    BroughtUp(t) =>
      /\ Owned(t) \/ cmd[t].warned
      /\ cmd[t].clone /\ (cmd[t].id <= cmd[t].seen \/ cmd[t].how = "made")
           => ctr[Name(t)].clone

(* And a clone whenever one was asked for, which fails where another       *)
(* command makes or removes the sandbox after this one looked              *)
(* (fixed.go:337-340: a --clone that is quietly ignored hands the guest a  *)
(* read-write share of the very repository).                               *)
CloneWhenAsked ==
  \A t \in Terms : BroughtUp(t) /\ cmd[t].clone => ctr[Name(t)].clone

(* And where the sandbox is replaced between the warning and the process:  *)
(* run looks its name up again in Exec (identity.go:387-388: reuse "would  *)
(* silently attach the second project to the first project's sandbox").    *)
WarnedWherever ==
  \A t \in Terms :
    At(t, "proc") /\ cmd[t].op \in Creating /\ ctr[Name(t)] # None
      => Owned(t) \/ cmd[t].warned

(* A clone that is not whole is one that a script is still making, in a    *)
(* guest that is up and for a command that waits for it, or one whose      *)
(* script was cut short: a script that fails leaves nothing the next start *)
(* would take for a clone (cloneScript).                                   *)
NoHalfClone ==
  \A n \in Names :
    repo[n] = "partial" =>
      n \in cut \/ \E t \in Terms : script[n] = t /\ At(t, "cloning") /\ Name(t) = n /\ Up(n)

(* When an ephemeral run has ended its container is gone, or its user was  *)
(* told that it is not: also after an interrupt, for the deletion has a    *)
(* context of its own (runEphemeral).  It is left without a word in three  *)
(* cases, each with the error that came first: --clone, whose task nobody  *)
(* ends if bringing it up fails (runEphemeralInKeeper defers cleanupTask   *)
(* after ensureRunning); a start that failed and left a created task,      *)
(* which containerd does not delete; and a task that another command       *)
(* changed.                                                                *)
EphemeralGone ==
  [][\A t \in Terms :
       At(t, "remove") /\ cmd'[t].pc = "idle" /\ faults' = faults
       => \/ ctr'[Name(t)] = None
          \/ /\ cmd[t].err # "" /\ task[Name(t)] # "none"
             /\ cmd[t].clone \/ task[Name(t)] = "created" \/ Name(t) \in lent]_vars

(* And in every case, which those three defeat (sandbox.go:276: "nothing   *)
(* survives it").                                                          *)
EphemeralLeavesNothing ==
  [][\A t \in Terms :
       At(t, "remove") /\ cmd'[t].pc = "idle" /\ faults' = faults
       => ctr'[Name(t)] = None]_vars

(* A first run that is cut off while it makes the authority does not keep  *)
(* later runs from making one: the files can only disagree when two        *)
(* commands made them at once (Open, Create).                              *)
FirstRunRetries == caCert # None /\ caKey # caCert => caRaced

(* The user is the one that the image's merged filesystem names, and the   *)
(* groups where the two files had to be read for them.                     *)
SameUser(m) ==
  LET want == UserFromMount(m.image)
      got == ImageUser(m.image, m.host)
  IN  want.ok
        => /\ got.ok /\ got.spec.uid = want.spec.uid /\ got.spec.gid = want.spec.gid
           /\ (m.image.user # None /\ NeedsImageUserFiles(m.image.user))
                => got.spec.groups = want.spec.groups

(* Whatever the host, the guest gets that user, once every layer can be    *)
(* read, none makes the whole filesystem opaque, and the two files are     *)
(* regular ones (resolveImageUserFromLayers).                              *)
RunsAsTheImageSays(m) == Readable(m.image) => SameUser(m)

(* How an id that a process has reaches the disk of the host, and whether  *)
(* a mapping gives each id one place.                                      *)
OnDisk(mapping, id) ==
  IF mapping = {} THEN id
  ELSE LET e == CHOOSE x \in mapping : id \in x.seen .. (x.seen + x.size - 1)
       IN  e.disk + (id - e.seen)
Covers(mapping) ==
  mapping # {} =>
    \A id \in 0 .. IdSpace :
      LET inside == {e \in mapping : id \in e.seen .. (e.seen + e.size - 1)}
          outside == {e \in mapping : id \in e.disk .. (e.disk + e.size - 1)}
      IN  IF id < IdSpace THEN \E e, f \in mapping : inside = {e} /\ outside = {f}
          ELSE inside = {} /\ outside = {}

(* Where a user who is not root shares a directory, the process is not     *)
(* root, what it writes there is the user's, and every other id has one    *)
(* place on either side (withHostUser, swapIDMapping).                     *)
OwnsWhatItWrites(m) ==
  LET result == SpecOptions(m)
      user == result.spec.user
  IN  result.ok /\ m.shares # <<>> /\ m.host.goos # "windows" /\ m.host.uid # 0
        => /\ user.uid # 0
           /\ \A i \in DOMAIN result.spec.mounts :
                LET mount == result.spec.mounts[i]
                IN  mount.mode = "rw" => /\ Covers(mount.uids) /\ Covers(mount.gids)
                                         /\ OnDisk(mount.uids, user.uid) = m.host.uid
                                         /\ OnDisk(mount.gids, user.gid) = m.host.gid

(* The user without those conditions, of layers that can all be read:      *)
(* imageuser.go:151 says of hides that it reports a hidden file "or any    *)
(* directory above it".                                                    *)
AlwaysTheImagesUser ==
  \A t \in Terms :
    At(t, "create") /\ cmd[t].img # None
    /\ (\A i \in DOMAIN cmd[t].img.image.layers : ~cmd[t].img.image.layers[i].broken)
      => SameUser(cmd[t].img)

(* Both, of every container that is about to be registered. *)
GuestIdentity ==
  \A t \in Terms :
    At(t, "create") /\ cmd[t].img # None
      => RunsAsTheImageSays(cmd[t].img) /\ OwnsWhatItWrites(cmd[t].img)

---------------------------------------------------------------------------
(* What the author wrote, rule by rule: each domain with its service, its  *)
(* header and its format.                                                  *)
WrittenForm(in) ==
  CASE in.scheme = "basic" -> <<"Authorization", "Basic %s", in.username>>
    [] OTHER -> KitAttachForm(ExpandScheme(in))
ExplicitRules(creds) ==
  UNION {{<<s, in.domain, WrittenForm(in)>> :
            in \in IF creds[s].key = None THEN {} ELSE creds[s].key.inject} :
         s \in DOMAIN creds}
RoutesOAuth(d, svc) == d.oauth # None /\ d.oauth.service = svc /\ NameOf(d, svc) = ""
LegacyRules(d) ==
  LET auth == d.network.serviceAuth
      doms == d.network.serviceDomains
      header(s) == IF s \in DOMAIN auth /\ auth[s].header # "" THEN auth[s].header
                   ELSE "Authorization"
      format(s) == IF s \in DOMAIN auth /\ auth[s].format # "" THEN auth[s].format ELSE "%s"
  IN  {<<doms[x], x, <<header(doms[x]), format(doms[x])>>>> :
         x \in {y \in DOMAIN doms : doms[y] \notin DOMAIN d.list /\ ~RoutesOAuth(d, doms[y])}}
Written(d) ==
  IF d.schema = "2" THEN ExplicitRules(d.spec.credentials)
  ELSE ExplicitRules(d.list) \cup LegacyRules(d)

AsWritten(d, spec) ==
  LET creds == ParseCredentials(KitInjectSpecs(spec))
  IN  creds.ok /\ ~(\E in \in Injects(spec) : FormRefused(in))
        => UNION {{<<s, x[1], x[2]>> : x \in creds.spec[s]} : s \in DOMAIN creds.spec} = Written(d)

(* A kit's credentials are attached to the hosts, in the headers and in    *)
(* the form that its author wrote for that service, and to no other:       *)
(* neither the fold of version 1's four surfaces nor the gathering by form *)
(* nor the trip through the grammar of --inject moves one                  *)
(* (translateV1Credentials, ExpandSchemes, kitInjectSpecs, ParseInject).   *)
InjectsAsWritten ==
  \A t \in Terms :
    At(t, "load") =>
      \A r \in Load(cmd[t].kit) : r.ok => AsWritten(cmd[t].kit.doc, r.spec)

(* Of a source, its first variable and whether it is required.             *)
CarriesSource(c, source) ==
  /\ source.required => c.required
  /\ source.env # <<>> /\ source.env[1] # "" => c.key # None /\ c.key.name = source.env[1]

(* What a version 1 document says and the model of it does not. *)
Lost(d, spec) ==
  LET b == Block(d)
      creds == spec.credentials
      hosts(s) == (IF creds[s].key = None THEN {} ELSE {in.domain : in \in creds[s].key.inject})
                  \cup (IF creds[s].oauth = None THEN {}
                        ELSE creds[s].oauth.hosts \cup {creds[s].oauth.host})
      doms == d.network.serviceDomains
  IN  UNION {
        IF b = None THEN {}
        ELSE UNION {WarnIf(b.persistence, "sandbox.persistence"),
                    WarnIf(b.pipeMode, "sandbox.entrypoint.pipeMode"),
                    WarnIf(b.run \o b.binary # spec.sandbox.entrypoint, "agent.binary"),
                    WarnIf(b.args \o b.runOptions # spec.sandbox.default, "agent.runOptions"),
                    WarnIf(b.ttyArgs \o b.interactiveOptions # spec.sandbox.interactive,
                           "agent.interactiveOptions")},
        WarnIf(d.memory # "" /\ spec.content # d.memory, "memory:"),
        WarnIf(~(d.caps.deny \cup d.network.deny \subseteq spec.deny), "network.deniedDomains"),
        WarnIf(~(d.caps.allow \cup d.network.allow \subseteq spec.allow), "caps:"),
        WarnIf(~(d.ports \cup d.network.ports \subseteq spec.ports), "network.publishedPorts"),
        WarnIf(\E x \in DOMAIN doms : x \notin hosts(doms[x]), "a service domain"),
        WarnIf(\E s \in DOMAIN d.sources : ~CarriesSource(creds[s], d.sources[s]),
               "a credential source"),
        {n \in d.proxyManaged :
           ~\E s \in DOMAIN creds : creds[s].key # None /\ creds[s].key.managed
                                    /\ creds[s].key.name = n},
        WarnIf(\E p \in DOMAIN d.volumes \cup DOMAIN d.tmpfs :
                 p \notin {v.path : v \in spec.volumes}, "volumes: (mapping form)"),
        d.removed}

---------------------------------------------------------------------------
(* For which documents the two properties of kits hold.  A rule is read as *)
(* it was written where no injection is called "basic", whose expansion    *)
(* forgets its user (ExpandSchemes), and the standalone OAuth block takes  *)
(* none of the listed keys for its routing.                                *)
NoBasic(inject) == \A in \in inject : in.scheme # "basic" /\ in.header # "basic"
PlainKeys(creds) ==
  \A s \in DOMAIN creds : creds[s].key # None => NoBasic(creds[s].key.inject)
Routed(d, s, key) == d.oauth # None /\ d.oauth.service = s /\ RoutingOnly(key)
PlainRules(d) ==
  IF d.schema = "1"
  THEN /\ PlainKeys(d.list)
       /\ \A s \in DOMAIN d.network.serviceAuth : d.network.serviceAuth[s].header # "basic"
       /\ \A s \in DOMAIN d.list : ~Routed(d, s, d.list[s].key)
  ELSE PlainKeys(d.spec.credentials)

(* Where a version 1 document says each thing once: no domain is empty,    *)
(* one spelling of each part of the command is written, neither a domain   *)
(* nor a source is of a service that is also in the list, and a variable   *)
(* left to the proxy is the first of its source.                           *)
SaidOnce(d) ==
  /\ "" \notin DOMAIN d.network.serviceDomains
  /\ Block(d) # None => LET b == Block(d)
                        IN  /\ b.run = <<>> \/ b.binary = <<>>
                            /\ b.args = <<>> \/ b.runOptions = <<>>
                            /\ b.ttyArgs = <<>> \/ b.interactiveOptions = <<>>
  /\ \A x \in DOMAIN d.network.serviceDomains : Legacy(d, d.network.serviceDomains[x])
  /\ \A s \in DOMAIN d.sources : Legacy(d, s)
  /\ \A n \in d.proxyManaged : \A s \in Listing(d, n) : d.sources[s].env[1] = n

(* Nothing that such a version 1 kit says is lost without a word: what its *)
(* model does not carry, a warning names (translateV1).                    *)
NothingLostSilently ==
  \A t \in Terms :
    At(t, "load") /\ cmd[t].kit.doc # None /\ cmd[t].kit.doc.schema = "1" /\ SaidOnce(cmd[t].kit.doc)
      => \A r \in Load(cmd[t].kit) : r.ok => Lost(cmd[t].kit.doc, r.spec) \subseteq r.warned

(* The same of every version 1 kit, which a domain or a source of a        *)
(* service that is also listed defeats: the entry of the list "wins        *)
(* outright" (decode_v1.go:609), and no warning says so.                   *)
NothingEverLostSilently ==
  \A t \in Terms :
    At(t, "load") /\ cmd[t].kit.doc # None /\ cmd[t].kit.doc.schema = "1"
      => \A r \in Load(cmd[t].kit) : r.ok => Lost(cmd[t].kit.doc, r.spec) \subseteq r.warned
=============================================================================
