--------------------------- MODULE ManagedDaemon ---------------------------
(***************************************************************************)
(* The containerd that Boks manages (internal/daemon, internal/cli/        *)
(* daemon.go, autostart.go) and the command that deletes what it wrote     *)
(* (internal/purge, internal/cli/purge.go).                                *)
(*                                                                         *)
(* A supervisor ("boks daemon serve") holds a lock, writes a configuration *)
(* for what it finds on the host, starts containerd, waits until it        *)
(* answers, and records itself.  Commands know it by the record and the    *)
(* lock together.  containerd (external) may fail to boot, exit, or be     *)
(* deaf to a signal; a start may be interrupted; a supervisor may be       *)
(* killed, which leaves its containerd behind.                             *)
(***************************************************************************)
EXTENDS Naturals, Sequences, FiniteSets

CONSTANTS Sups,      \* supervisor processes, each with its containerd
          Terms,     \* terminals
          Ops,       \* commands typed: "start", "run", "serve", "stop", "purge", "force"
          Hosts,     \* the hosts looked at, see HostType
          MaxFaults, \* bound: supervisors killed, deaf containerds, purges of what runs
          None

Tools == {"mkfs.erofs", "mkfs.ext4"}

(* A directory of programs: the versions of containerd and of the shim in  *)
(* it, 0 for neither, and the file system tools.                           *)
DirType == [ctd : Nat, shim : Nat, tools : SUBSET Tools]

(* bundle: the directories beside boks; path: PATH; keg: Homebrew's own;   *)
(* system: another containerd answers at the platform's address.           *)
HostType == [goos : {"linux", "darwin", "windows"}, bundle : Seq(DirType), path : Seq(DirType),
             keg : Seq(DirType), system : BOOLEAN]

ASSUME DaemonAssumption ==
  /\ \A h \in Hosts : h \in HostType /\ h.path # <<>>
  /\ MaxFaults \in Nat
  /\ Ops \subseteq {"start", "run", "serve", "stop", "purge", "force"}
  /\ None \notin Sups

VARIABLES
  host,   \* what is installed
  sup,    \* sup[s]: a supervisor
  ctd,    \* ctd[s]: its containerd
  lock,   \* the supervisor that holds the lock file
  state,  \* the supervisor daemon.json names
  sock,   \* the containerd whose socket is at the address
  cmd,    \* cmd[t]: the command of a terminal
  lost,   \* history: supervisors whose lock file, or containerd's root, was removed
  faults  \* how many such faults there were

vars == <<host, sup, ctd, lock, state, sock, cmd, lost, faults>>

NoSup == [pc |-> "none", sig |-> FALSE, quit |-> FALSE, ready |-> FALSE, order |-> <<>>]
NoCtd == [st |-> "none", termed |-> FALSE, deaf |-> FALSE]
NoCmd == [pc |-> "idle", op |-> "start", s |-> None, res |-> "none", notes |-> {}]

----------------------------------------------------------------------------
(* What is installed.  A search takes the first directory that has it. *)
First(dirs, field) ==
  LET hits == {i \in DOMAIN dirs : dirs[i][field] # 0}
  IN  IF hits = {} THEN 0 ELSE dirs[CHOOSE i \in hits : \A j \in hits : i <= j][field]

RuntimeDirs(h) == h.bundle
KegDirs(h) == IF h.goos = "darwin" THEN h.keg ELSE <<>>

(* daemonPath: what containerd, and so the shim, is given for a PATH. *)
DaemonPath(h) == RuntimeDirs(h) \o h.path \o KegDirs(h)

FindContainerd(h) ==
  LET bundled == First(RuntimeDirs(h), "ctd")
  IN  IF bundled # 0 THEN bundled ELSE First(h.path, "ctd")

(* No shim at all is no error here, and no note: it is left to doctor. *)
FindShim(h) == First(RuntimeDirs(h) \o DaemonPath(h), "shim")

LookPath(h, tool) == \E i \in DOMAIN DaemonPath(h) : tool \in DaemonPath(h)[i].tools

BlockWritableLayer(h) == h.goos # "linux"

(* diffOrder: erofs first, and only where its tool is to be found. *)
DiffOrder(h) ==
  (IF LookPath(h, "mkfs.erofs") THEN <<"erofs">> ELSE <<>>)
    \o (IF h.goos = "windows" THEN <<"windows", "windows-lcow">> ELSE <<"walking">>)

DisabledPlugins(h) == {"nri"} \cup (IF h.goos = "windows" THEN {"cimfs"} ELSE {})

(* Mutant: the two are compared the wrong way round. *)
CheckSkew_Swapped(daemon, shim) == daemon # 0 /\ shim # 0 /\ shim < daemon

(* Preflight, and the check of versions at the end of spawn. *)
CheckSkew(daemon, shim) == daemon # 0 /\ shim # 0 /\ daemon < shim
Preflight(h) ==
  (IF LookPath(h, "mkfs.erofs") THEN {} ELSE {"mkfs.erofs"})
    \cup (IF BlockWritableLayer(h) /\ ~LookPath(h, "mkfs.ext4") THEN {"mkfs.ext4"} ELSE {})
    \cup (IF CheckSkew(FindContainerd(h), FindShim(h)) THEN {"runtime skew"} ELSE {})

(* External: what a containerd with this order needs to start a sandbox on *)
(* this host.  Its diff service loads if every differ it names does, and   *)
(* only the erofs differ, asked first, applies a layer.                    *)
ContainerdSearches(h) == h.bundle \o h.path \o (IF h.goos = "darwin" THEN h.keg ELSE <<>>)
Installed(h, tool) ==
  \E i \in DOMAIN ContainerdSearches(h) : tool \in ContainerdSearches(h)[i].tools
HasShim(h) == First(ContainerdSearches(h), "shim") # 0
RunsSandboxes(h, order) ==
  /\ order[1] = "erofs" /\ Installed(h, "mkfs.erofs")
  /\ h.goos # "linux" => Installed(h, "mkfs.ext4")
  /\ HasShim(h) /\ First(ContainerdSearches(h), "shim") <= First(h.bundle \o h.path, "ctd")

----------------------------------------------------------------------------
Ended == {"none", "ended", "killed"}
Alive(s) == ctd[s].st \in {"booting", "up"}

(* Lookup: a record, and a lock that is held, by whoever holds it. *)
Lookup == state # None /\ lock # None
Running == Lookup

(* probe: whatever answers at the address. *)
Probe == sock # None /\ ctd[sock].st = "up"

(* DefaultAddress and Serving: with no managed daemon, the platform's own. *)
Serving == IF Running THEN Probe ELSE host.system

(* Terminate: a signal to a process that may have ended already. *)
TermCtd(s) == [ctd EXCEPT ![s].termed = @ \/ Alive(s)]
TermSup(s) == [sup EXCEPT ![s].sig = sup[s].pc \notin Ended]

(* A command ends; a result is kept where a property speaks of it. *)
Finished(t, res) ==
  cmd' = [cmd EXCEPT ![t] = [NoCmd EXCEPT !.res = IF res \in {"ready", "stopped"} THEN res
                                                  ELSE "none"]]

----------------------------------------------------------------------------
(* Commands. *)

(* A command is typed: ensureDaemon (run) and "daemon start" look for a    *)
(* daemon first, "daemon serve" is the supervisor itself, "daemon stop"    *)
(* and "purge" follow.                                                     *)
Type(t, op) ==
  /\ cmd[t].pc = "idle"
  /\ op \in {"purge", "force"} => faults < MaxFaults
  /\ LET c == [NoCmd EXCEPT !.op = op] IN
     cmd' = [cmd EXCEPT ![t] =
       CASE op = "run" /\ (Running \/ Serving) -> c
         [] op = "start" \/ (op = "run" /\ ~(Running \/ Serving)) -> [c EXCEPT !.pc = "lookup"]
         [] op = "serve" -> [c EXCEPT !.pc = "spawn"]
         [] op = "stop" -> [c EXCEPT !.pc = "stop"]
         [] OTHER -> [c EXCEPT !.pc = "inspect"]]
  /\ UNCHANGED <<host, sup, ctd, lock, state, sock, lost, faults>>

(* Start: one that runs is returned as it stands. *)
StartLookup(t) ==
  /\ cmd[t].pc = "lookup"
  /\ IF Running THEN Finished(t, "ok") ELSE cmd' = [cmd EXCEPT ![t].pc = "clean"]
  /\ UNCHANGED <<host, sup, ctd, lock, state, sock, lost, faults>>

(* Start: what a dead supervisor left is removed. *)
StartClean(t) ==
  /\ cmd[t].pc = "clean"
  /\ state' = None /\ sock' = None
  /\ cmd' = [cmd EXCEPT ![t].pc = "spawn"]
  /\ UNCHANGED <<host, sup, ctd, lock, lost, faults>>

(* spawn: a supervisor in the background, or no process to be had; a       *)
(* hand-run one has nobody who waits for it.                               *)
Spawn(t) ==
  /\ cmd[t].pc = "spawn"
  /\ \/ \E s \in Sups :
          /\ sup[s].pc = "none" /\ ctd[s].st = "none"
          /\ sup' = [sup EXCEPT ![s] = [NoSup EXCEPT !.pc = "open"]]
          /\ cmd' = [cmd EXCEPT ![t] = IF @.op = "serve" THEN NoCmd
                                       ELSE [@ EXCEPT !.pc = "wait", !.s = s]]
     \/ Finished(t, "failed") /\ UNCHANGED sup
  /\ UNCHANGED <<host, ctd, lock, state, sock, lost, faults>>

(* spawn, waiting: the ready line, after which the record is looked up; an *)
(* end of its output, a timeout or an interrupt, which end the supervisor. *)
Wait(t) ==
  LET s == cmd[t].s IN
  /\ cmd[t].pc = "wait"
  /\ \/ /\ sup[s].ready
        /\ IF Running
             THEN cmd' = [cmd EXCEPT ![t] = [NoCmd EXCEPT !.res = "ready",
                                                          !.notes = Preflight(host)]]
             ELSE Finished(t, "failed")
        /\ UNCHANGED sup
     \/ /\ ~sup[s].ready
        /\ sup' = [TermSup(s) EXCEPT ![s].quit = sup[s].pc \notin Ended]
        /\ Finished(t, "failed")
  /\ UNCHANGED <<host, ctd, lock, state, sock, lost, faults>>

(* Mutant: the supervisor is told, which forwards the signal. *)
StopSignal_Supervisor(t) ==
  /\ cmd[t].pc = "stop"
  /\ IF Lookup
       THEN /\ sup' = TermSup(state)
            /\ cmd' = [cmd EXCEPT ![t].pc = "grace", ![t].s = state]
            /\ UNCHANGED state
       ELSE state' = None /\ Finished(t, "ok") /\ UNCHANGED sup
  /\ UNCHANGED <<host, ctd, lock, sock, lost, faults>>

(* Stop: containerd is signalled first, by the record's number. *)
StopSignal(t) ==
  /\ cmd[t].pc = "stop"
  /\ IF Lookup
       THEN /\ ctd' = TermCtd(state)
            /\ cmd' = [cmd EXCEPT ![t].pc = "grace", ![t].s = state]
            /\ UNCHANGED state
       ELSE state' = None /\ Finished(t, "ok") /\ UNCHANGED ctd
  /\ UNCHANGED <<host, sup, lock, sock, lost, faults>>

(* Stop, waiting for it to go; after the grace period the supervisor is    *)
(* signalled too, and looked for once more.                                *)
StopGrace(t) ==
  /\ cmd[t].pc = "grace"
  /\ \/ /\ ~Running
        /\ state' = None /\ Finished(t, "stopped")
        /\ UNCHANGED sup
     \/ /\ Running /\ (ctd[cmd[t].s].deaf \/ lock # cmd[t].s)
        /\ sup' = TermSup(cmd[t].s)
        /\ cmd' = [cmd EXCEPT ![t].pc = "last"]
        /\ UNCHANGED state
  /\ UNCHANGED <<host, ctd, lock, sock, lost, faults>>

StopLast(t) ==
  /\ cmd[t].pc = "last"
  /\ IF Running THEN Finished(t, "failed") /\ UNCHANGED state
     ELSE state' = None /\ Finished(t, "stopped")
  /\ UNCHANGED <<host, sup, ctd, lock, sock, lost, faults>>

(* whatIsRunning, of this daemon. *)
WhatIsRunning == Lookup

(* purge: refused while something runs, unless forced; the user is asked.  *)
Inspect(t) ==
  /\ cmd[t].pc = "inspect"
  /\ \/ Finished(t, "refused")
     \/ /\ cmd[t].op = "force" \/ ~WhatIsRunning
        /\ cmd' = [cmd EXCEPT ![t].pc = "apply"]
  /\ UNCHANGED <<host, sup, ctd, lock, state, sock, lost, faults>>

(* Apply: the directory goes, with the lock file a supervisor may hold. *)
Apply(t) ==
  /\ cmd[t].pc = "apply"
  /\ state' = None /\ lock' = None /\ sock' = None
  /\ lost' = lost \cup {s \in Sups : lock = s \/ Alive(s)}
  /\ faults' = IF lost' = lost THEN faults ELSE faults + 1
  /\ Finished(t, "ok")
  /\ UNCHANGED <<host, sup, ctd>>

----------------------------------------------------------------------------
(* The supervisor: Serve. *)
Goto(s, pc) == sup' = [sup EXCEPT ![s].pc = pc]
EndAs(s, pc) ==
  sup' = [sup EXCEPT ![s] = [@ EXCEPT !.pc = pc, !.sig = FALSE, !.quit = FALSE]]
Release(s) == lock' = IF lock = s THEN None ELSE lock

ServeOpen(s) ==
  /\ sup[s].pc = "open"
  /\ IF lock = None THEN Goto(s, "locked") /\ lock' = s
                    ELSE EndAs(s, "ended") /\ UNCHANGED lock
  /\ UNCHANGED <<host, ctd, state, sock, cmd, lost, faults>>

(* The configuration is written for this host, and containerd started. *)
ServeStart(s) ==
  /\ sup[s].pc = "locked"
  /\ \/ /\ FindContainerd(host) # 0
        /\ sup' = [sup EXCEPT ![s].pc = "waiting", ![s].order = DiffOrder(host)]
        /\ \E deaf \in {d \in BOOLEAN : d => faults < MaxFaults} :
             /\ ctd' = [ctd EXCEPT ![s] = [NoCtd EXCEPT !.st = "booting", !.deaf = deaf]]
             /\ faults' = IF deaf THEN faults + 1 ELSE faults
        /\ UNCHANGED lock
     \/ EndAs(s, "ended") /\ Release(s) /\ UNCHANGED <<ctd, faults>>
  /\ UNCHANGED <<host, state, sock, cmd, lost>>

(* waitReady: containerd exited, answered, or did neither in time; or the  *)
(* supervisor was told to end.                                             *)
WaitReady(s) ==
  /\ sup[s].pc = "waiting"
  /\ \/ ~Alive(s) /\ Goto(s, "release")
     \/ Alive(s) /\ Probe /\ ~sup[s].sig /\ Goto(s, "write")
     \/ Alive(s) /\ (sup[s].sig \/ ~Probe) /\ Goto(s, "cleanup")
  /\ UNCHANGED <<host, ctd, lock, state, sock, cmd, lost, faults>>

(* The record, and the ready line; a record that cannot be written, or is  *)
(* cut short and so no record, ends the supervisor and its containerd.     *)
WriteState(s) ==
  /\ sup[s].pc = "write"
  /\ \/ /\ state' = s
        /\ sup' = [sup EXCEPT ![s].pc = "serving", ![s].ready = TRUE]
     \/ state' \in {state, None} /\ Goto(s, "cleanup")
  /\ UNCHANGED <<host, ctd, lock, sock, cmd, lost, faults>>

(* The deferred calls in their order: the record, containerd, the lock. *)
ServeEnd(s) ==
  /\ sup[s].pc = "serving"
  /\ ~Alive(s) \/ sup[s].sig
  /\ state' = None
  /\ Goto(s, IF Alive(s) THEN "cleanup" ELSE "release")
  /\ UNCHANGED <<host, ctd, lock, sock, cmd, lost, faults>>

(* Mutant: the lock is let go before containerd has gone. *)
Cleanup_Released(s) ==
  /\ sup[s].pc = "cleanup"
  /\ ctd' = TermCtd(s)
  /\ Release(s)
  /\ EndAs(s, "ended")
  /\ UNCHANGED <<host, state, sock, cmd, lost, faults>>

Cleanup(s) ==
  /\ sup[s].pc = "cleanup"
  /\ ctd' = TermCtd(s)
  /\ Goto(s, "dying")
  /\ UNCHANGED <<host, lock, state, sock, cmd, lost, faults>>

(* Mutant: the wait has no end. *)
Dying_Waits(s) ==
  /\ sup[s].pc = "dying" /\ ~Alive(s)
  /\ Goto(s, "release")
  /\ UNCHANGED <<host, ctd, lock, state, sock, cmd, lost, faults>>

(* A containerd that does not go within the grace period is left. *)
Dying(s) ==
  /\ sup[s].pc = "dying" /\ (~Alive(s) \/ ctd[s].deaf)
  /\ Goto(s, "release")
  /\ UNCHANGED <<host, ctd, lock, state, sock, cmd, lost, faults>>

ServeRelease(s) ==
  /\ sup[s].pc = "release"
  /\ Release(s)
  /\ EndAs(s, "ended")
  /\ UNCHANGED <<host, ctd, state, sock, cmd, lost, faults>>

(* A supervisor is killed (external): its lock goes, its containerd stays. *)
Kill(s) ==
  /\ sup[s].pc \notin {"none", "ended", "killed"} /\ faults < MaxFaults
  /\ faults' = faults + 1
  /\ Release(s)
  /\ EndAs(s, "killed")
  /\ UNCHANGED <<host, ctd, state, sock, cmd, lost>>

(* Nobody refers to the process any more. *)
Reap(s) ==
  /\ sup[s].pc \in {"ended", "killed"} /\ ~Alive(s)
  /\ state # s /\ \A t \in Terms : cmd[t].s # s
  /\ sup' = [sup EXCEPT ![s] = NoSup]
  /\ ctd' = [ctd EXCEPT ![s] = NoCtd]
  /\ UNCHANGED <<host, lock, state, sock, cmd, lost, faults>>

----------------------------------------------------------------------------
(* containerd (external).  Its database admits one process at a time. *)
Boot(s) ==
  /\ ctd[s].st = "booting" /\ ~ctd[s].termed
  /\ \A o \in Sups \ {s} : ctd[o].st # "up"
  /\ ctd' = [ctd EXCEPT ![s].st = "up"]
  /\ sock' = s
  /\ UNCHANGED <<host, sup, lock, state, cmd, lost, faults>>

Exit(s) ==
  /\ Alive(s)
  /\ ctd' = [ctd EXCEPT ![s] = [NoCtd EXCEPT !.st = "gone"]]
  /\ sock' = IF sock = s THEN None ELSE sock
  /\ UNCHANGED <<host, sup, lock, state, cmd, lost, faults>>

Init ==
  /\ host \in Hosts
  /\ sup = [s \in Sups |-> NoSup]
  /\ ctd = [s \in Sups |-> NoCtd]
  /\ lock = None /\ state = None /\ sock = None
  /\ cmd = [t \in Terms |-> NoCmd]
  /\ lost = {} /\ faults = 0

Command(t) ==
  \/ StartLookup(t) \/ StartClean(t) \/ Spawn(t) \/ Wait(t)
  \/ StopSignal(t) \/ StopGrace(t) \/ StopLast(t)
  \/ Inspect(t) \/ Apply(t)

Serve(s) ==
  \/ ServeOpen(s) \/ ServeStart(s) \/ WaitReady(s) \/ WriteState(s)
  \/ ServeEnd(s) \/ Cleanup(s) \/ Dying(s) \/ ServeRelease(s)

Next ==
  \/ \E t \in Terms : Command(t) \/ \E op \in Ops : Type(t, op)
  \/ \E s \in Sups : Serve(s) \/ Kill(s) \/ Reap(s) \/ Boot(s) \/ Exit(s)

(* Every wait has a timeout, and a containerd that hears a signal ends. *)
Spec ==
  /\ Init /\ [][Next]_vars
  /\ \A s \in Sups : WF_vars(Serve(s)) /\ WF_vars(ctd[s].termed /\ ~ctd[s].deaf /\ Exit(s))
  /\ \A t \in Terms : WF_vars(Command(t))

----------------------------------------------------------------------------
(* Every variable has its type; the lock is held by a supervisor that      *)
(* runs, and only the one that recorded itself is ready.                   *)
TypeOK ==
  /\ \A s \in Sups :
       /\ sup[s].pc \in {"open", "locked", "waiting", "write", "serving", "cleanup", "dying",
                         "release"} \cup Ended
       /\ ctd[s].st \in {"none", "booting", "up", "gone"}
       /\ sup[s].pc = "none" => ctd[s].st = "none"
  /\ {lock, state, sock} \subseteq Sups \cup {None}
  /\ lock # None => sup[lock].pc \notin Ended \cup {"open"}
  /\ state # None => sup[state].ready
  /\ lost \subseteq Sups /\ faults \in 0 .. MaxFaults + Cardinality(Terms)

(* A containerd that escaped its supervisor's control: killed above it,    *)
(* or not gone within the grace period.                                    *)
Escaped(s) == sup[s].pc = "killed" \/ ctd[s].deaf

(* Two containerds never run on one root, however starts, stops and        *)
(* interrupted starts follow each other: a supervisor keeps the lock until *)
(* its containerd has gone.                                                *)
OneDaemon ==
  \A s, o \in Sups : s # o /\ Alive(s) /\ Alive(o) =>
    \E x \in {s, o} : Escaped(x) \/ x \in lost

(* "Stopped" means that it has: when a stop has waited for the daemon it   *)
(* found, what is left of its containerd was signalled, and is one that    *)
(* escaped (deaf to the signal, or its supervisor killed; see              *)
(* StopsHappen), one that an interrupted start was ending at the same      *)
(* time, or one whose lock file a purge took away.                         *)
StoppedIsGone ==
  \A t \in Terms :
    cmd[t].pc \in {"grace", "last"} /\ cmd'[t].res = "stopped" /\ Alive(cmd[t].s) =>
      /\ ctd[cmd[t].s].termed
      /\ Escaped(cmd[t].s) \/ sup[cmd[t].s].quit \/ lost # {}
StopMeansStopped == [][StoppedIsGone]_vars

(* A start that brought the daemon up and had nothing to remark has        *)
(* brought up one that can start sandboxes, unless there is no shim at     *)
(* all, on which no start remarks: the tools, the order of the differs and *)
(* the versions are found in the places where containerd will find them.   *)
ReadyRuns ==
  \A t \in Terms :
    cmd[t].pc = "wait" /\ cmd'[t].res = "ready" /\ cmd'[t].notes = {} =>
      RunsSandboxes(host, sup[cmd[t].s].order) \/ ~HasShim(host)
ReadyOrNoted == [][ReadyRuns]_vars

(* A supervisor that is told to end does, even with a deaf containerd. *)
SupervisorsEnd == \A s \in Sups : sup[s].sig ~> sup[s].pc \in Ended

(* As commented: no stop is reported that did not happen. *)
StopsHappen ==
  [][\A t \in Terms :
       cmd[t].pc \in {"grace", "last"} /\ cmd'[t].res = "stopped" /\ Alive(cmd[t].s) =>
         sup[cmd[t].s].quit \/ lost # {}]_vars

(* As documented: nothing is deleted from under a process still using it.  *)
PurgeSparesAll ==
  [][\A s \in lost' \ lost :
       (\E t \in Terms : cmd[t].pc = "apply" /\ cmd[t].op = "force") \/ Escaped(s)]_vars

(* As documented: the daemon that serves is the one that status and stop   *)
(* find.                                                                   *)
ServingIsTracked ==
  \A s \in Sups : sup[s].pc = "serving" /\ ~sup[s].sig /\ lock = s => state = s
============================================================================
