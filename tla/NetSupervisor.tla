--------------------------- MODULE NetSupervisor ---------------------------
(***************************************************************************)
(* The network of one sandbox: the supervisor processes that may serve it  *)
(* ("boks net serve", internal/enforce/supervisor.go), the boks commands   *)
(* that start and end them (internal/cli), the sandbox's task and VM in    *)
(* containerd, and the directory <state>/net/<sandbox> through which they  *)
(* find each other.                                                        *)
(*                                                                         *)
(* Nothing but that directory coordinates the processes.  A supervisor     *)
(* holds an flock on a file in it for as long as it lives; a command reads *)
(* the state file, tests the lock, and on its own removes the directory,   *)
(* spawns, signals.  Every one of those is a step of its own here, because *)
(* another process may run between any two of them.                        *)
(***************************************************************************)
EXTENDS Naturals

CONSTANTS Sups,     \* PIDs of supervisor processes; a dead one is used again
          Inodes,   \* identities of lock files
          Clis,     \* terminals, each running one boks command at a time
          Cmds,     \* the commands the users type
          Faults,   \* what else may happen, see AllFaults
          None,     \* no process, no file
          Stale     \* a socket file that nobody listens on

(* "start" stands for "boks exec" too: both call ensureNetworkForExisting  *)
(* and then ensureRunning.  "runrm" is "boks run --rm --name".  "ls" is    *)
(* every command that only lists the supervisors (enforce.List).           *)
AllCmds == {"run", "runrm", "start", "stop", "rm", "netstop", "ls"}

(* supCrash     a supervisor dies without its deferred cleanup             *)
(* openFails    the stack, the proxy or a published port does not come up  *)
(* guestExit    the sandbox's process ends by itself                       *)
(* bootFails    an image pull, a create or a task start fails              *)
(* statusFlake  containerd answers a status request with an error          *)
(* watchError   the supervisor cannot reach containerd at all              *)
(* appearLimit  no task within TaskAppearTimeout                           *)
(* slowClose    a supervisor's teardown outlasts the five seconds of Stop  *)
(* readyLimit   readyTimeout passes, or the user presses Ctrl-C in spawn   *)
(* haltFails    the sandbox is stopped, but deleting its task fails        *)
(* supTerm      a logout, a shutdown or a user signals a supervisor        *)
AllFaults == {"supCrash", "openFails", "guestExit", "bootFails",
              "statusFlake", "watchError", "appearLimit", "slowClose",
              "readyLimit", "haltFails", "supTerm"}

ASSUME ConstantsAssumption ==
  /\ Cmds \subseteq AllCmds
  /\ Faults \subseteq AllFaults
  /\ None \notin Sups /\ Stale \notin Sups /\ None # Stale
  /\ None \notin Inodes

VARIABLES
  fs,         \* the sandbox's network directory and what is in it
  cert,       \* does the sandbox's certificate directory exist
  sv,         \* where each supervisor process is in Serve
  fd,         \* the lock file each supervisor process has open
  seen,       \* the processes whose task watch has seen the task running
  sig,        \* the processes that were sent a SIGTERM
  ready,      \* the processes that wrote the ready marker to their pipe
  cli,        \* the command each terminal is executing
  container,  \* does the sandbox's container exist
  task,       \* its task, as containerd reports it
  vm          \* the supervisor at the other end of the running VM's link

svVars == <<sv, fd, seen, sig, ready>>
tdVars == <<container, task, vm>>
vars == <<fs, cert, svVars, cli, tdVars>>

----------------------------------------------------------------------------
(* The directory.  The log file is not modelled: nothing decides on it. *)

Dirs == [dir : BOOLEAN, lock : Inodes \cup {None},
         state : Sups \cup {None}, link : Sups \cup {None, Stale}]

NoDir == [dir |-> FALSE, lock |-> None, state |-> None, link |-> None]

(* os.MkdirAll: creates the directory if it is missing. *)
MkdirAll(d) == [d EXCEPT !.dir = TRUE]

SvPcs == {"dead", "spawned", "made", "lockfd", "locked", "opened", "stated",
          "serving", "closing", "closed", "removed"}

(* The link socket's listener accepts connections. *)
Listening == {"opened", "stated", "serving", "closing"}

(* Between a successful flock and the end of the process. *)
Holding == {"locked", "opened", "stated", "serving", "closing", "closed",
            "removed"}

Holds(s, i) == sv[s] \in Holding /\ fd[s] = i

(* flock fails on this file: a supervisor has it, or a command that is in  *)
(* the middle of testing it.                                               *)
Flocked(i) == \/ \E s \in Sups : Holds(s, i)
              \/ \E c \in Clis : cli[c].probe = i

(* Files that somebody has open: their identities are not given out again. *)
InUse == {fd[s] : s \in Sups} \cup {cli[c].probe : c \in Clis} \cup {fs.lock}

(* The process a Lookup should find: it holds the visible lock file. *)
Owner == IF \E s \in Sups : Holds(s, fs.lock)
           THEN CHOOSE s \in Sups : Holds(s, fs.lock)
           ELSE None

----------------------------------------------------------------------------
(* Supervisor processes. *)

(* The process is gone: the kernel drops its lock and its connections. *)
Die(s) ==
  /\ sv' = [sv EXCEPT ![s] = "dead"]
  /\ fd' = [fd EXCEPT ![s] = None]
  /\ seen' = seen \ {s}
  /\ sig' = sig \ {s}
  /\ vm' = IF vm = s THEN None ELSE vm

Goto(s, pc) == sv' = [sv EXCEPT ![s] = pc]

(* Serve, first lines: the state directory. *)
ServeMkdir(s) ==
  /\ sv[s] = "spawned"
  /\ fs' = MkdirAll(fs)
  /\ Goto(s, "made")
  /\ UNCHANGED <<cert, fd, seen, sig, ready, cli, tdVars>>

(* acquire opens the lock file, creating it if it is not there ...         *)
ServeOpenLock(s) ==
  /\ sv[s] = "made" /\ fs.dir
  /\ \E i \in Inodes :
       /\ IF fs.lock = None THEN i \notin InUse ELSE i = fs.lock
       /\ fd' = [fd EXCEPT ![s] = i]
       /\ fs' = [fs EXCEPT !.lock = i]
  /\ Goto(s, "lockfd")
  /\ UNCHANGED <<cert, seen, sig, ready, cli, tdVars>>

(* Mutant: the file is opened, and not locked. *)
ServeFlock_Untested(s) ==
  /\ sv[s] = "lockfd"
  /\ Goto(s, "locked")
  /\ UNCHANGED <<fs, cert, fd, seen, sig, ready, cli, tdVars>>

(* ... and locks what it opened, without waiting. *)
ServeFlock(s) ==
  /\ sv[s] = "lockfd" /\ ~Flocked(fd[s])
  /\ Goto(s, "locked")
  /\ UNCHANGED <<fs, cert, fd, seen, sig, ready, cli, tdVars>>

(* acquire reports an error: no directory to create the file in, or held. *)
ServeRefused(s) ==
  /\ \/ sv[s] = "made" /\ ~fs.dir
     \/ sv[s] = "lockfd" /\ Flocked(fd[s])
  /\ Die(s)
  /\ UNCHANGED <<fs, cert, ready, cli, container, task>>

(* Open: replaces whatever socket file is at the link's path by its own,   *)
(* then brings up the proxy and the ports.                                 *)
ServeOpen(s) ==
  /\ sv[s] = "locked"
  /\ fs' = [MkdirAll(fs) EXCEPT !.link = s]
  /\ Goto(s, "opened")
  /\ UNCHANGED <<cert, fd, seen, sig, ready, cli, tdVars>>

(* ... or fails; once the stack was started, closing it takes the directory. *)
ServeOpenFails(s) ==
  /\ "openFails" \in Faults
  /\ sv[s] = "locked"
  /\ fs' \in {fs, NoDir}
  /\ Die(s)
  /\ UNCHANGED <<cert, ready, cli, container, task>>

(* writeState: without the directory it fails, and Serve unwinds. *)
ServeWriteState(s) ==
  /\ sv[s] = "opened"
  /\ fs' = IF fs.dir THEN [fs EXCEPT !.state = s] ELSE fs
  /\ Goto(s, IF fs.dir THEN "stated" ELSE "closing")
  /\ UNCHANGED <<cert, fd, seen, sig, ready, cli, tdVars>>

(* Mutant: the handler is installed here, so an earlier signal is lost. *)
ServeReady_Deaf(s) ==
  /\ sv[s] = "stated"
  /\ ready' = IF fs.dir THEN ready \cup {s} ELSE ready
  /\ Goto(s, IF fs.dir THEN "serving" ELSE "closing")
  /\ sig' = sig \ {s}
  /\ UNCHANGED <<fs, cert, fd, seen, cli, tdVars>>

(* serveControl binds the control socket, then the ready marker goes out. *)
ServeReady(s) ==
  /\ sv[s] = "stated"
  /\ ready' = IF fs.dir THEN ready \cup {s} ELSE ready
  /\ Goto(s, IF fs.dir THEN "serving" ELSE "closing")
  /\ UNCHANGED <<fs, cert, fd, seen, sig, cli, tdVars>>

(* WatchTask: a poll that finds the task created or running. *)
WatchSeesTask(s) ==
  /\ sv[s] = "serving" /\ s \notin seen
  /\ task # "none"
  /\ seen' = seen \cup {s}
  /\ UNCHANGED <<fs, cert, sv, fd, sig, ready, cli, tdVars>>

(* Mutant: a task that is created and not started counts as ended. *)
WatchSeesEnd_Created(s) ==
  /\ sv[s] = "serving" /\ s \in seen
  /\ task # "running"
  /\ Goto(s, "closing")
  /\ UNCHANGED <<fs, cert, fd, seen, sig, ready, cli, tdVars>>

(* WatchTask: it ran, and now it does not. *)
WatchSeesEnd(s) ==
  /\ sv[s] = "serving" /\ s \in seen
  /\ task = "none"
  /\ Goto(s, "closing")
  /\ UNCHANGED <<fs, cert, fd, seen, sig, ready, cli, tdVars>>

(* Mutant: a supervisor waits for its task without a limit. *)
WatchExpires_Never(s) == sv[s] = "serving" /\ FALSE /\ UNCHANGED vars

(* WatchTask: the task did not appear in time. *)
WatchExpires(s) ==
  /\ "appearLimit" \in Faults
  /\ sv[s] = "serving" /\ s \notin seen
  /\ task = "none"
  /\ Goto(s, "closing")
  /\ UNCHANGED <<fs, cert, fd, seen, sig, ready, cli, tdVars>>

(* taskRunning answers "not running" when the status cannot be read, so the *)
(* watch takes one such answer for the end, or for an absence.              *)
WatchMisreads(s) ==
  /\ "statusFlake" \in Faults
  /\ sv[s] = "serving" /\ (s \in seen \/ "appearLimit" \in Faults)
  /\ task # "none"
  /\ Goto(s, "closing")
  /\ UNCHANGED <<fs, cert, fd, seen, sig, ready, cli, tdVars>>

(* WatchTask returns an error, and Serve returns it. *)
WatchFails(s) ==
  /\ "watchError" \in Faults
  /\ sv[s] = "serving"
  /\ Goto(s, "closing")
  /\ UNCHANGED <<fs, cert, fd, seen, sig, ready, cli, tdVars>>

(* Serve's select takes the signal, or the context the signal cancelled. *)
ServeSignalled(s) ==
  /\ sv[s] = "serving" /\ s \in sig
  /\ Goto(s, "closing")
  /\ UNCHANGED <<fs, cert, fd, seen, sig, ready, cli, tdVars>>

(* session.Close: the listener and its connections go, and Network.Stop    *)
(* removes the directory the link socket is in.                            *)
ServeClose(s) ==
  /\ sv[s] = "closing"
  /\ fs' = NoDir
  /\ vm' = IF vm = s THEN None ELSE vm
  /\ Goto(s, "closed")
  /\ UNCHANGED <<cert, fd, seen, sig, ready, cli, container, task>>

(* The deferred function goes on and removes the directory once more. *)
ServeRemoveDir(s) ==
  /\ sv[s] = "closed"
  /\ fs' = NoDir
  /\ Goto(s, "removed")
  /\ UNCHANGED <<cert, fd, seen, sig, ready, cli, tdVars>>

(* The last deferred call releases the lock, and the process ends. *)
ServeRelease(s) ==
  /\ sv[s] = "removed"
  /\ Die(s)
  /\ UNCHANGED <<fs, cert, ready, cli, container, task>>

(* A crash leaves the files; the socket file answers nobody any more. *)
SupCrash(s) ==
  /\ "supCrash" \in Faults
  /\ sv[s] # "dead"
  /\ Die(s)
  /\ fs' = [fs EXCEPT !.link = IF fs.link = s THEN Stale ELSE @]
  /\ UNCHANGED <<cert, ready, cli, container, task>>

ServeStep(s) ==
  \/ ServeMkdir(s) \/ ServeOpenLock(s) \/ ServeFlock(s) \/ ServeRefused(s)
  \/ ServeOpen(s) \/ ServeWriteState(s) \/ ServeReady(s)
  \/ WatchSeesTask(s) \/ WatchSeesEnd(s) \/ WatchExpires(s)
  \/ ServeSignalled(s) \/ ServeClose(s) \/ ServeRemoveDir(s) \/ ServeRelease(s)

(* proclock.Terminate: SIGTERM.  main's handler is installed while the     *)
(* process is "spawned": before it the signal kills, after it the signal   *)
(* is noticed in Serve's select.                                           *)
Terminate(s) ==
  \/ s \in Sups /\ sv[s] = "spawned" /\ Die(s) /\ UNCHANGED <<ready, container, task>>
  \/ /\ sig' = IF s \in Sups /\ sv[s] # "dead" THEN sig \cup {s} ELSE sig
     /\ UNCHANGED <<sv, fd, seen, ready, tdVars>>

(* The signal of somebody else, at any moment of the process's life. *)
SupTerm(s) ==
  /\ "supTerm" \in Faults
  /\ sv[s] # "dead" /\ s \notin sig
  /\ Terminate(s)
  /\ UNCHANGED <<fs, cert, cli>>

----------------------------------------------------------------------------
(* The commands.  pc names the call a command is in:                       *)
(*   prepare, find        before the network                               *)
(*   look, ens, post      Lookup in attachNetwork, in Ensure, after spawn  *)
(*   clear, spawn, wait   the rest of Ensure and spawn                     *)
(*   create, task, start  container, NewTask, task.Start                   *)
(*   attached             the user's command runs in the sandbox           *)
(*   undo                 the deferred deletion of an ephemeral container  *)
(*   forget, release      run's deferred calls; rm forgets too             *)
(*   halt                 sandbox.Stop or sandbox.Remove                   *)
(*   stop, kill, stopwait, stoprm   enforce.Stop                           *)
(*   list                 enforce.List                                     *)
LookupPcs == {"look", "ens", "post", "stop", "stopwait", "list"}

CliPcs == LookupPcs \cup
  {"idle", "prepare", "find", "clear", "spawn", "wait", "create", "task",
   "start", "attached", "undo", "forget", "release", "halt", "kill", "stoprm"}

(* pid: what ReadState read; probe: the lock file being tested; child: the *)
(* process spawn waits for; started: attachNetwork's result; mine: this    *)
(* command created the ephemeral container, or the task, and undoes that.  *)
CliStates == [cmd : AllCmds, pc : CliPcs, pid : Sups \cup {None},
              probe : Inodes \cup {None}, child : Sups \cup {None},
              started : BOOLEAN, mine : BOOLEAN]

Idle == [cmd |-> "ls", pc |-> "idle", pid |-> None, probe |-> None,
         child |-> None, started |-> FALSE, mine |-> FALSE]

At(c, pc) == cli[c].pc = pc
Move(c, pc) == cli' = [cli EXCEPT ![c] = [@ EXCEPT !.pc = pc, !.pid = None,
                                                    !.probe = None]]
End(c) == cli' = [cli EXCEPT ![c] = Idle]

FirstPc == [cmd \in AllCmds |->
  IF cmd \in {"run", "runrm"} THEN "prepare"
  ELSE IF cmd = "start" THEN "find"
  ELSE IF cmd \in {"stop", "rm"} THEN "halt"
  ELSE IF cmd = "netstop" THEN "stop"
  ELSE "list"]

(* A user types a command. *)
Type(c, cmd) ==
  /\ At(c, "idle")
  /\ cli' = [cli EXCEPT ![c] =
       [Idle EXCEPT !.cmd = cmd, !.pc = FirstPc[cmd]]]
  /\ UNCHANGED <<fs, cert, svVars, tdVars>>

(* Spec.Prepare writes the certificate directory the container will mount. *)
Prepare(c) ==
  /\ At(c, "prepare")
  /\ cert' = TRUE
  /\ Move(c, "look")
  /\ UNCHANGED <<fs, svVars, tdVars>>

(* ensureNetworkForExisting: a sandbox that is not there is an error of the *)
(* command.  The two Lookups that follow each other there are one here.     *)
FindExisting(c) ==
  /\ At(c, "find")
  /\ IF container THEN Move(c, "look") ELSE End(c)
  /\ UNCHANGED <<fs, cert, svVars, tdVars>>

(* Where each Lookup leads. *)
Hit(c) ==
  \/ At(c, "look") /\ Move(c, "create")
  \/ /\ cli[c].pc \in {"ens", "post"}
     /\ cli' = [cli EXCEPT ![c] = [@ EXCEPT !.pc = "create", !.pid = None,
                                           !.started = TRUE]]
  \/ At(c, "stop") /\ cli' = [cli EXCEPT ![c] = [@ EXCEPT !.pc = "kill"]]
  \/ At(c, "stopwait") /\ Move(c, "stopwait")
  \/ At(c, "list") /\ End(c)

Miss(c) ==
  \/ At(c, "look") /\ Move(c, "ens")
  \/ At(c, "ens") /\ Move(c, "clear")
  \/ cli[c].pc \in {"stop", "stopwait"} /\ Move(c, "stoprm")
  \/ cli[c].pc \in {"post", "list"} /\ End(c)

(* Lookup reads the state file ... *)
ReadState(c) ==
  /\ cli[c].pc \in LookupPcs /\ cli[c].pid = None
  /\ IF fs.state = None THEN Miss(c)
                        ELSE cli' = [cli EXCEPT ![c] = [@ EXCEPT !.pid = fs.state]]
  /\ UNCHANGED <<fs, cert, svVars, tdVars>>

(* Mutant: a state file is taken for a supervisor. *)
CheckLock_Untested(c) ==
  /\ cli[c].pc \in LookupPcs /\ cli[c].pid # None /\ cli[c].probe = None
  /\ Hit(c)
  /\ UNCHANGED <<fs, cert, svVars, tdVars>>

(* ... then tries to take the lock.  If it can, it has the lock for a      *)
(* moment, as anybody else who tries then finds out.                       *)
CheckLock(c) ==
  /\ cli[c].pc \in LookupPcs /\ cli[c].pid # None /\ cli[c].probe = None
  /\ \/ fs.lock = None /\ Miss(c)
     \/ fs.lock # None /\ Flocked(fs.lock) /\ Hit(c)
     \/ /\ fs.lock # None /\ ~Flocked(fs.lock)
        /\ cli' = [cli EXCEPT ![c] = [@ EXCEPT !.probe = fs.lock]]
  /\ UNCHANGED <<fs, cert, svVars, tdVars>>

DropProbe(c) ==
  /\ cli[c].probe # None
  /\ Miss(c)
  /\ UNCHANGED <<fs, cert, svVars, tdVars>>

(* Ensure removes what a dead supervisor left. *)
EnsureClear(c) ==
  /\ At(c, "clear")
  /\ fs' = NoDir
  /\ Move(c, "spawn")
  /\ UNCHANGED <<cert, svVars, tdVars>>

(* spawn starts a process, with a PID that nothing uses. *)
SpawnStart(c) ==
  /\ At(c, "spawn")
  /\ fs' = MkdirAll(fs)
  /\ \E s \in Sups :
       /\ sv[s] = "dead" /\ \A d \in Clis : cli[d].child # s
       /\ sv' = [sv EXCEPT ![s] = "spawned"]
       /\ ready' = ready \ {s}
       /\ cli' = [cli EXCEPT ![c] = [@ EXCEPT !.pc = "wait", !.child = s]]
  /\ UNCHANGED <<cert, fd, seen, sig, tdVars>>

(* cmd.Start fails: no process can be created. *)
SpawnFails(c) ==
  /\ At(c, "spawn") /\ \A s \in Sups : sv[s] # "dead" \/ \E d \in Clis : cli[d].child = s
  /\ fs' = MkdirAll(fs)
  /\ End(c)
  /\ UNCHANGED <<cert, svVars, tdVars>>

SpawnReady(c) ==
  /\ At(c, "wait") /\ cli[c].child \in ready
  /\ cli' = [cli EXCEPT ![c] = [@ EXCEPT !.pc = "post", !.child = None]]
  /\ UNCHANGED <<fs, cert, svVars, tdVars>>

(* End of file on the pipe: the command fails.  Its deferred calls are not *)
(* registered yet.                                                         *)
SpawnDied(c) ==
  /\ At(c, "wait") /\ cli[c].child \notin ready /\ sv[cli[c].child] = "dead"
  /\ End(c)
  /\ UNCHANGED <<fs, cert, svVars, tdVars>>

SpawnTimeout(c) ==
  /\ "readyLimit" \in Faults
  /\ At(c, "wait")
  /\ Terminate(cli[c].child)
  /\ End(c)
  /\ UNCHANGED <<fs, cert>>

----------------------------------------------------------------------------
(* The sandbox itself: containerd and the VM. *)

(* How run and start go on when bringing the sandbox up failed: an         *)
(* ephemeral run deletes the container it created, run releases, start     *)
(* reports.                                                                *)
AfterRun(c) ==
  \/ cli[c].cmd = "runrm" /\ cli[c].mine /\ Move(c, "undo")
  \/ cli[c].cmd = "runrm" /\ ~cli[c].mine /\ Move(c, "forget")
  \/ cli[c].cmd = "run" /\ cli[c].started /\ Move(c, "release")
  \/ cli[c].cmd = "run" /\ ~cli[c].started /\ End(c)
  \/ cli[c].cmd = "start" /\ End(c)

(* ensureContainer for run, create for an ephemeral run, loadContainer for *)
(* start.                                                                  *)
Create(c) ==
  /\ At(c, "create")
  /\ \/ cli[c].cmd = "run" /\ container' = TRUE /\ Move(c, "task")
     \/ cli[c].cmd = "start" /\ container /\ UNCHANGED container /\ Move(c, "task")
     \/ /\ cli[c].cmd = "runrm" /\ ~container
        /\ container' = TRUE
        /\ cli' = [cli EXCEPT ![c] = [@ EXCEPT !.pc = "task", !.mine = TRUE]]
     \/ /\ \/ cli[c].cmd = "runrm" /\ container
           \/ cli[c].cmd = "start" /\ ~container
           \/ "bootFails" \in Faults
        /\ AfterRun(c)
        /\ UNCHANGED container
  /\ UNCHANGED <<fs, cert, svVars, task, vm>>

(* cleanupTask, stopContainer: the task is killed and deleted. *)
EndTask == task' = "none" /\ vm' = None

LinkUp == fs.link \in Sups /\ sv[fs.link] \in Listening

(* NewTask boots the VM, which connects to the link socket or fails. *)
NewTask(c) ==
  /\ At(c, "task") /\ container /\ task = "none" /\ LinkUp
  /\ task' = "created"
  /\ vm' = fs.link
  /\ cli' = [cli EXCEPT ![c] = [@ EXCEPT !.pc = "start", !.mine = TRUE]]
  /\ UNCHANGED <<fs, cert, svVars, container>>

(* startTask finds the task of another command. *)
TaskExists(c) ==
  /\ At(c, "task") /\ container /\ task # "none" /\ cli[c].cmd # "runrm"
  /\ IF task = "created" THEN Move(c, "start")
     ELSE IF cli[c].cmd = "run" THEN Move(c, "attached") ELSE End(c)
  /\ UNCHANGED <<fs, cert, svVars, tdVars>>

NewTaskFails(c) ==
  /\ At(c, "task")
  /\ \/ ~container
     \/ task = "none" /\ ~LinkUp
     \/ task # "none" /\ cli[c].cmd = "runrm"
     \/ "bootFails" \in Faults
  /\ AfterRun(c)
  /\ UNCHANGED <<fs, cert, svVars, tdVars>>

StartTask(c) ==
  /\ At(c, "start") /\ task = "created"
  /\ task' = "running"
  /\ IF cli[c].cmd = "start" THEN End(c) ELSE Move(c, "attached")
  /\ UNCHANGED <<fs, cert, svVars, container, vm>>

(* task.Start fails: another command was faster, or the runtime refused.   *)
(* The command that created the task kills and deletes it.                 *)
StartTaskFails(c) ==
  /\ At(c, "start")
  /\ task # "created" \/ "bootFails" \in Faults
  /\ AfterRun(c)
  /\ IF cli[c].mine THEN EndTask ELSE UNCHANGED <<task, vm>>
  /\ UNCHANGED <<fs, cert, svVars, container>>

(* The command the user ran ends, or is interrupted.  In an ephemeral      *)
(* sandbox it was the task.                                                *)
CommandEnds(c) ==
  /\ At(c, "attached")
  /\ AfterRun(c)
  /\ IF cli[c].cmd = "runrm" THEN EndTask ELSE UNCHANGED <<task, vm>>
  /\ UNCHANGED <<fs, cert, svVars, container>>

(* runEphemeral's cleanup; a container that has a task is not deleted. *)
UndoEphemeral(c) ==
  /\ At(c, "undo")
  /\ container' = (container /\ task # "none")
  /\ Move(c, "forget")
  /\ UNCHANGED <<fs, cert, svVars, task, vm>>

(* enforce.Forget. run's deferred calls are made last in, first out: the   *)
(* certificate directory goes before the stack.                            *)
Forget(c) ==
  /\ At(c, "forget")
  /\ cert' = FALSE
  /\ IF cli[c].cmd = "runrm" /\ cli[c].started THEN Move(c, "stop") ELSE End(c)
  /\ UNCHANGED <<fs, svVars, tdVars>>

(* releaseStack: a sandbox that runs, or cannot be asked, keeps its stack. *)
ReleaseStack(c) ==
  /\ At(c, "release")
  /\ \/ (task # "none" \/ "statusFlake" \in Faults) /\ End(c)
     \/ task = "none" /\ Move(c, "stop")
  /\ UNCHANGED <<fs, cert, svVars, tdVars>>

(* sandbox.Stop and sandbox.Remove. *)
Halt(c) ==
  /\ At(c, "halt") /\ container
  /\ EndTask
  /\ container' = (cli[c].cmd # "rm")
  /\ Move(c, "stop")
  /\ UNCHANGED <<fs, cert, svVars>>

(* ... no such sandbox, or rm of a running one without --force. *)
HaltRefused(c) ==
  /\ At(c, "halt")
  /\ ~container \/ (cli[c].cmd = "rm" /\ task = "running")
  /\ End(c)
  /\ UNCHANGED <<fs, cert, svVars, tdVars>>

(* ... or it ended and the rest failed: the network is left to its watch. *)
HaltFails(c) ==
  /\ "haltFails" \in Faults
  /\ At(c, "halt") /\ container
  /\ EndTask
  /\ End(c)
  /\ UNCHANGED <<fs, cert, svVars, container>>

(* Mutant: Stop waits for a process that nobody told to end. *)
StopKill_NoSignal(c) ==
  /\ At(c, "kill")
  /\ Move(c, "stopwait")
  /\ UNCHANGED <<fs, cert, svVars, tdVars>>

(* enforce.Stop: terminate the process that the state file named, wait     *)
(* until Lookup finds none, remove the directory.                          *)
StopKill(c) ==
  /\ At(c, "kill")
  /\ Terminate(cli[c].pid)
  /\ Move(c, "stopwait")
  /\ UNCHANGED <<fs, cert>>

StopDeadline(c) ==
  /\ "slowClose" \in Faults
  /\ At(c, "stopwait") /\ cli[c].pid = None
  /\ Move(c, "stoprm")
  /\ UNCHANGED <<fs, cert, svVars, tdVars>>

(* Mutant: stop forgets the sandbox's files as rm does. *)
StopRemoveDir_Forgets(c) ==
  /\ At(c, "stoprm")
  /\ fs' = NoDir
  /\ Move(c, "forget")
  /\ UNCHANGED <<cert, svVars, tdVars>>

StopRemoveDir(c) ==
  /\ At(c, "stoprm")
  /\ fs' = NoDir
  /\ IF cli[c].cmd = "rm" THEN Move(c, "forget") ELSE End(c)
  /\ UNCHANGED <<cert, svVars, tdVars>>

(* The sandbox's own process ends, and the VM with it. *)
GuestExit ==
  /\ "guestExit" \in Faults
  /\ task = "running"
  /\ EndTask
  /\ UNCHANGED <<fs, cert, svVars, cli, container>>

CliStep(c) ==
  \/ Prepare(c) \/ FindExisting(c)
  \/ ReadState(c) \/ CheckLock(c) \/ DropProbe(c)
  \/ EnsureClear(c) \/ SpawnStart(c) \/ SpawnFails(c)
  \/ SpawnReady(c) \/ SpawnDied(c)
  \/ Create(c) \/ NewTask(c) \/ TaskExists(c) \/ NewTaskFails(c)
  \/ StartTask(c) \/ StartTaskFails(c) \/ UndoEphemeral(c)
  \/ Forget(c) \/ ReleaseStack(c) \/ Halt(c) \/ HaltRefused(c)
  \/ StopKill(c) \/ StopRemoveDir(c)

Fault ==
  \/ GuestExit
  \/ \E s \in Sups : \/ SupCrash(s) \/ SupTerm(s) \/ ServeOpenFails(s)
                    \/ WatchMisreads(s) \/ WatchFails(s)
  \/ \E c \in Clis : SpawnTimeout(c) \/ StopDeadline(c) \/ HaltFails(c)

Init ==
  /\ fs = NoDir /\ cert = FALSE
  /\ sv = [s \in Sups |-> "dead"] /\ fd = [s \in Sups |-> None]
  /\ seen = {} /\ sig = {} /\ ready = {}
  /\ cli = [c \in Clis |-> Idle]
  /\ container = FALSE /\ task = "none" /\ vm = None

Next ==
  \/ \E s \in Sups : ServeStep(s)
  \/ \E c \in Clis : CliStep(c) \/ CommandEnds(c)
  \/ \E c \in Clis, cmd \in Cmds : Type(c, cmd)
  \/ Fault

Spec == Init /\ [][Next]_vars

(* The processes run; what the users type and the faults need not happen.  *)
(* TaskAppearTimeout is a timer, so it passes.                             *)
Fairness ==
  /\ \A s \in Sups : WF_vars(ServeStep(s))
  /\ \A c \in Clis : WF_vars(CliStep(c))

FairSpec == Spec /\ Fairness

----------------------------------------------------------------------------
(* Every file, process table and command record holds only values that the *)
(* code could have put there: in particular no state file, link or command *)
(* ever names something that is not a process.                             *)
TypeOK ==
  /\ fs \in Dirs
  /\ sv \in [Sups -> SvPcs]
  /\ fd \in [Sups -> Inodes \cup {None}]
  /\ seen \subseteq Sups /\ sig \subseteq Sups /\ ready \subseteq Sups
  /\ cli \in [Clis -> CliStates]
  /\ cert \in BOOLEAN /\ container \in BOOLEAN
  /\ task \in {"none", "created", "running"}
  /\ vm \in Sups \cup {None}

(* The lock file makes one process at a time the sandbox's supervisor, as  *)
(* far as any command can tell: proclock.go promises it, Serve relies on   *)
(* it, and neither the removals of the directory under a live supervisor   *)
(* nor crashes nor concurrent commands may break it.                       *)
Lock == INSTANCE StackLock WITH owner <- Owner
OneVisibleSupervisor == Lock!Spec

(* Stop signals the process the state file names after testing a different *)
(* file, the lock.  The two must speak of the same process when the test   *)
(* succeeds, or SIGTERM goes to a stranger (supervisor.go, Lookup).        *)
StopNamesOwner ==
  [][\A c \in Clis : At(c, "stop") /\ At(c, "kill")' => cli[c].pid = Owner]_vars

(* The rule of supervisor.go and releaseStack: a sandbox that is running   *)
(* keeps its stack.  A VM attaches once, when it boots, and never again,   *)
(* so short of a crash no supervisor may close under an attached VM.       *)
RunningKeepsStack ==
  [][\A s \in Sups : sv[s] = "closing" /\ sv'[s] = "closed"
       => vm # s \/ task = "none"]_vars

(* net.go on releaseStack: "A sandbox that is running keeps its stack;     *)
(* nothing else does."  It asks, and some steps later signals: another     *)
(* terminal may start the sandbox between the two (sup_release.cfg).       *)
ReleaseSparesRunning ==
  [][\A c \in Clis : cli[c].cmd = "run" /\ At(c, "kill") /\ At(c, "stopwait")'
       => task = "none"]_vars

(* The certificate directory is a mount source of the container, so it has *)
(* to be there for as long as the container is (supervisor.go, Forget).    *)
CertKept == container => cert

(* A supervisor on its way out removes the directory by name.  By then the *)
(* name must not belong to a successor (supervisor.go, Stop: "so a stop    *)
(* followed by a start cannot collide on the socket").                     *)
SuccessorUntouched ==
  [][\A s \in Sups : sv[s] = "closed" /\ sv'[s] = "removed"
       => Owner \in {None, s}]_vars

(* No supervisor survives its sandbox: once the task is gone for good and  *)
(* nobody types anything, every process ends, the ones no Lookup can find  *)
(* any more included (supervisor.go: "there is no orphan to reap").        *)
NoOrphans ==
  <>[](task = "none" /\ \A c \in Clis : At(c, "idle"))
    => <>[](\A s \in Sups : sv[s] = "dead")

(* A SIGTERM is not lost, whatever the supervisor was doing when it came:  *)
(* not yet at the lock, opening its stack, not in the select, or closing.  *)
SignalEnds == \A s \in Sups : s \in sig ~> sv[s] = "dead"

(* No command hangs.  Stop's wait in particular comes to an end without    *)
(* its five-second limit, because the process it signalled is the one that *)
(* it waits for.                                                           *)
CommandsEnd ==
  \A c \in Clis : ~At(c, "idle") ~> At(c, "idle") \/ At(c, "attached")
============================================================================
