------------------------ MODULE NetSupervisorProofs ------------------------
(***************************************************************************)
(* Proofs about NetSupervisor for every number of supervisors, terminals   *)
(* and lock files, every set of commands and every set of faults, except   *)
(* where a theorem of the later parts names what it leaves out.            *)
(***************************************************************************)
EXTENDS NetSupervisor, TLAPS

(* What the three values of the directory that actions write are. *)
LEMMA DirTypes ==
  ASSUME TypeOK
  PROVE  /\ NoDir \in Dirs /\ NoDir.lock = None
         /\ MkdirAll(fs) \in Dirs /\ MkdirAll(fs).lock = fs.lock
BY DEF TypeOK, Dirs, NoDir, MkdirAll

(* The ways in which a command's record is updated. *)
LEMMA RecordUpdates ==
  ASSUME NEW r \in CliStates, NEW pc \in CliPcs,
         NEW s \in Sups \cup {None}, NEW i \in Inodes \cup {None}
  PROVE  /\ [r EXCEPT !.pc = pc] \in CliStates
         /\ [r EXCEPT !.pc = pc, !.mine = TRUE] \in CliStates
         /\ [r EXCEPT !.pc = pc, !.child = s] \in CliStates
         /\ [r EXCEPT !.pc = pc, !.pid = None, !.started = TRUE] \in CliStates
         /\ [r EXCEPT !.pc = pc, !.pid = None, !.probe = None] \in CliStates
         /\ [r EXCEPT !.pid = s] \in CliStates
         /\ [r EXCEPT !.probe = i] \in CliStates
<1>1. [r EXCEPT !.pc = pc] \in CliStates
  BY DEF CliStates
<1>2. [r EXCEPT !.pc = pc, !.mine = TRUE] \in CliStates
  BY DEF CliStates
<1>3. [r EXCEPT !.pc = pc, !.child = s] \in CliStates
  BY DEF CliStates
<1>4. [r EXCEPT !.pc = pc, !.pid = None, !.started = TRUE] \in CliStates
  BY DEF CliStates
<1>5. [r EXCEPT !.pc = pc, !.pid = None, !.probe = None] \in CliStates
  BY DEF CliStates
<1>6. [r EXCEPT !.pid = s] \in CliStates
  BY DEF CliStates
<1>7. [r EXCEPT !.probe = i] \in CliStates
  BY DEF CliStates
<1> QED BY <1>1, <1>2, <1>3, <1>4, <1>5, <1>6, <1>7

(* Moving a command to another point keeps its record well formed. *)
LEMMA CliMoves ==
  ASSUME TypeOK, NEW c \in Clis
  PROVE  /\ \A pc \in CliPcs : Move(c, pc) => cli' \in [Clis -> CliStates]
         /\ End(c) => cli' \in [Clis -> CliStates]
         /\ AfterRun(c) => cli' \in [Clis -> CliStates]
<1>1. ASSUME NEW pc \in CliPcs, Move(c, pc)
      PROVE  cli' \in [Clis -> CliStates]
  BY <1>1, RecordUpdates DEF TypeOK, Move
<1>2. Idle \in CliStates
  BY DEF Idle, CliStates, AllCmds, CliPcs, LookupPcs
<1>3. ASSUME End(c) PROVE cli' \in [Clis -> CliStates]
  BY <1>2, <1>3 DEF TypeOK, End
<1>4. ASSUME AfterRun(c) PROVE cli' \in [Clis -> CliStates]
  <2>1. {"undo", "forget", "release"} \subseteq CliPcs
    BY DEF CliPcs
  <2>2. \/ Move(c, "undo") \/ Move(c, "forget") \/ Move(c, "release") \/ End(c)
    BY <1>4 DEF AfterRun
  <2> QED BY <1>1, <1>3, <2>1, <2>2
<1> QED BY <1>1, <1>3, <1>4

(* A Lookup that succeeds or fails leaves the record well formed. *)
LEMMA LookupMoves ==
  ASSUME TypeOK, NEW c \in Clis, cli[c].pc \in LookupPcs
  PROVE  /\ Hit(c) => cli' \in [Clis -> CliStates]
         /\ Miss(c) => cli' \in [Clis -> CliStates]
<1>1. {"create", "kill", "stopwait", "ens", "clear", "stoprm"} \subseteq CliPcs
  BY DEF CliPcs, LookupPcs
<1>2. ASSUME Hit(c) PROVE cli' \in [Clis -> CliStates]
  <2>1. CASE \/ Move(c, "create") \/ Move(c, "stopwait") \/ End(c)
    BY <1>1, <2>1, CliMoves
  <2>2. CASE cli' = [cli EXCEPT ![c] = [@ EXCEPT !.pc = "create", !.pid = None,
                                                 !.started = TRUE]]
    BY <1>1, <2>2, RecordUpdates DEF TypeOK
  <2>3. CASE cli' = [cli EXCEPT ![c] = [@ EXCEPT !.pc = "kill"]]
    BY <1>1, <2>3, RecordUpdates DEF TypeOK
  <2> QED BY <1>2, <2>1, <2>2, <2>3 DEF Hit
<1>3. ASSUME Miss(c) PROVE cli' \in [Clis -> CliStates]
  BY <1>1, <1>3, CliMoves DEF Miss
<1> QED BY <1>2, <1>3

(* proclock.Terminate keeps the types of what it touches. *)
LEMMA TerminateTypes ==
  ASSUME TypeOK, NEW s, Terminate(s)
  PROVE  /\ sv' \in [Sups -> SvPcs] /\ fd' \in [Sups -> Inodes \cup {None}]
         /\ seen' \subseteq Sups /\ sig' \subseteq Sups /\ ready' \subseteq Sups
         /\ container' = container /\ task' = task /\ vm' \in Sups \cup {None}
BY DEF Terminate, Die, TypeOK, SvPcs, tdVars

(* A supervisor's own steps, and a signal to it, keep the types. *)
LEMMA ServeTypes ==
  ASSUME TypeOK, NEW s \in Sups,
         \/ ServeStep(s) \/ SupCrash(s) \/ SupTerm(s) \/ ServeOpenFails(s)
         \/ WatchMisreads(s) \/ WatchFails(s)
  PROVE  TypeOK'
<1> USE DirTypes DEF Goto, Die, svVars, tdVars
<1>1. CASE ServeMkdir(s)
  BY <1>1 DEF ServeMkdir, TypeOK, SvPcs
<1>2. CASE ServeOpenLock(s)
  BY <1>2 DEF ServeOpenLock, TypeOK, SvPcs, Dirs, MkdirAll
<1>3. CASE ServeFlock(s)
  BY <1>3 DEF ServeFlock, TypeOK, SvPcs
<1>4. CASE ServeRefused(s)
  BY <1>4 DEF ServeRefused, TypeOK, SvPcs
<1>5. CASE ServeOpen(s)
  BY <1>5 DEF ServeOpen, TypeOK, SvPcs, Dirs, MkdirAll
<1>6. CASE ServeWriteState(s)
  BY <1>6 DEF ServeWriteState, TypeOK, SvPcs, Dirs, MkdirAll
<1>7. CASE ServeReady(s)
  BY <1>7 DEF ServeReady, TypeOK, SvPcs
<1>8. CASE WatchSeesTask(s)
  BY <1>8 DEF WatchSeesTask, TypeOK, SvPcs
<1>9. CASE WatchSeesEnd(s)
  BY <1>9 DEF WatchSeesEnd, TypeOK, SvPcs
<1>10. CASE WatchExpires(s)
  BY <1>10 DEF WatchExpires, TypeOK, SvPcs
<1>11. CASE ServeSignalled(s)
  BY <1>11 DEF ServeSignalled, TypeOK, SvPcs
<1>12. CASE ServeClose(s)
  BY <1>12 DEF ServeClose, TypeOK, SvPcs
<1>13. CASE ServeRemoveDir(s)
  BY <1>13 DEF ServeRemoveDir, TypeOK, SvPcs
<1>14. CASE ServeRelease(s)
  BY <1>14 DEF ServeRelease, TypeOK, SvPcs
<1>15. CASE SupCrash(s)
  BY <1>15 DEF SupCrash, TypeOK, SvPcs, Dirs, MkdirAll
<1>16. CASE ServeOpenFails(s)
  BY <1>16 DEF ServeOpenFails, TypeOK, SvPcs
<1>17. CASE WatchMisreads(s)
  BY <1>17 DEF WatchMisreads, TypeOK, SvPcs
<1>18. CASE WatchFails(s)
  BY <1>18 DEF WatchFails, TypeOK, SvPcs
<1>19. CASE SupTerm(s)
  BY <1>19, TerminateTypes DEF SupTerm, TypeOK
<1> QED
  BY <1>1, <1>2, <1>3, <1>4, <1>5, <1>6, <1>7, <1>8, <1>9, <1>10, <1>11,
     <1>12, <1>13, <1>14, <1>15, <1>16, <1>17, <1>18, <1>19
     DEF ServeStep

(* The steps of the commands keep the types. *)
LEMMA CliTypes ==
  ASSUME ConstantsAssumption, TypeOK, NEW c \in Clis,
         \/ CliStep(c) \/ CommandEnds(c) \/ (\E cmd \in Cmds : Type(c, cmd))
         \/ SpawnTimeout(c) \/ StopDeadline(c) \/ HaltFails(c)
  PROVE  TypeOK'
<1>pc. {"look", "ens", "post", "stop", "stopwait", "list", "idle", "prepare",
        "find", "clear", "spawn", "wait", "create", "task", "start", "attached",
        "undo", "forget", "release", "halt", "kill", "stoprm"} \subseteq CliPcs
  BY DEF CliPcs, LookupPcs
<1> USE DirTypes DEF svVars, tdVars
<1>1. CASE Prepare(c)
  BY <1>1, <1>pc, CliMoves DEF Prepare, TypeOK
<1>2. CASE FindExisting(c)
  BY <1>2, <1>pc, CliMoves DEF FindExisting, TypeOK
<1>3. CASE ReadState(c)
  <2>1. ASSUME cli' = [cli EXCEPT ![c] = [@ EXCEPT !.pid = fs.state]]
        PROVE  cli' \in [Clis -> CliStates]
    <3>1. fs.state \in Sups \cup {None}
      BY DEF TypeOK, Dirs
    <3> QED BY <1>pc, <2>1, <3>1, RecordUpdates DEF TypeOK
  <2>2. cli' \in [Clis -> CliStates]
    BY <1>3, <2>1, LookupMoves DEF ReadState
  <2> QED BY <1>3, <2>2 DEF ReadState, TypeOK
<1>4. CASE CheckLock(c)
  <2>1. ASSUME cli' = [cli EXCEPT ![c] = [@ EXCEPT !.probe = fs.lock]]
        PROVE  cli' \in [Clis -> CliStates]
    <3>1. fs.lock \in Inodes \cup {None}
      BY DEF TypeOK, Dirs
    <3> QED BY <1>pc, <2>1, <3>1, RecordUpdates DEF TypeOK
  <2>2. cli' \in [Clis -> CliStates]
    BY <1>4, <2>1, LookupMoves DEF CheckLock
  <2> QED BY <1>4, <2>2 DEF CheckLock, TypeOK
<1>5. CASE DropProbe(c)
  <2>1. cli[c].pc \in LookupPcs
    BY <1>5 DEF DropProbe, Miss, At, LookupPcs
  <2>2. cli' \in [Clis -> CliStates]
    BY <1>5, <2>1, LookupMoves DEF DropProbe
  <2> QED BY <1>5, <2>2 DEF DropProbe, TypeOK
<1>6. CASE EnsureClear(c)
  BY <1>6, <1>pc, CliMoves DEF EnsureClear, TypeOK
<1>7. CASE SpawnStart(c)
  <2>1. PICK s \in Sups :
           /\ sv' = [sv EXCEPT ![s] = "spawned"]
           /\ ready' = ready \ {s}
           /\ cli' = [cli EXCEPT ![c] = [@ EXCEPT !.pc = "wait", !.child = s]]
    BY <1>7 DEF SpawnStart
  <2>2. [cli[c] EXCEPT !.pc = "wait", !.child = s] \in CliStates
    BY <1>pc, RecordUpdates DEF TypeOK
  <2>3. cli' \in [Clis -> CliStates]
    BY <2>1, <2>2 DEF TypeOK
  <2> QED BY <1>7, <2>1, <2>3 DEF SpawnStart, TypeOK, SvPcs
<1>8. CASE SpawnFails(c)
  BY <1>8, <1>pc, CliMoves DEF SpawnFails, TypeOK
<1>9. CASE SpawnReady(c)
  <2>1. [cli[c] EXCEPT !.pc = "post", !.child = None] \in CliStates
    BY <1>pc, RecordUpdates DEF TypeOK
  <2>2. cli' \in [Clis -> CliStates]
    BY <1>9, <2>1 DEF SpawnReady, TypeOK
  <2> QED BY <1>9, <2>2 DEF SpawnReady, TypeOK
<1>10. CASE SpawnDied(c)
  BY <1>10, <1>pc, CliMoves DEF SpawnDied, TypeOK
<1>11. CASE Create(c)
  <2>1. ASSUME cli' = [cli EXCEPT ![c] = [@ EXCEPT !.pc = "task", !.mine = TRUE]]
        PROVE  cli' \in [Clis -> CliStates]
    <3>1. [cli[c] EXCEPT !.pc = "task", !.mine = TRUE] \in CliStates
      BY <1>pc, RecordUpdates DEF TypeOK
    <3> QED BY <2>1, <3>1 DEF TypeOK
  <2>2. cli' \in [Clis -> CliStates]
    BY <1>11, <1>pc, <2>1, CliMoves DEF Create
  <2>3. container' \in BOOLEAN
    BY <1>11 DEF Create, TypeOK
  <2> QED BY <1>11, <2>2, <2>3 DEF Create, TypeOK
<1>12. CASE NewTask(c)
  <2>1. [cli[c] EXCEPT !.pc = "start", !.mine = TRUE] \in CliStates
    BY <1>pc, RecordUpdates DEF TypeOK
  <2>2. cli' \in [Clis -> CliStates]
    BY <1>12, <2>1 DEF NewTask, TypeOK
  <2> QED BY <1>12, <2>2 DEF NewTask, TypeOK, LinkUp
<1>13. CASE TaskExists(c)
  BY <1>13, <1>pc, CliMoves DEF TaskExists, TypeOK
<1>14. CASE NewTaskFails(c)
  BY <1>14, <1>pc, CliMoves DEF NewTaskFails, TypeOK
<1>15. CASE StartTask(c)
  BY <1>15, <1>pc, CliMoves DEF StartTask, TypeOK
<1>16. CASE StartTaskFails(c)
  BY <1>16, <1>pc, CliMoves DEF StartTaskFails, TypeOK, EndTask
<1>17. CASE UndoEphemeral(c)
  BY <1>17, <1>pc, CliMoves DEF UndoEphemeral, TypeOK
<1>18. CASE Forget(c)
  BY <1>18, <1>pc, CliMoves DEF Forget, TypeOK
<1>19. CASE ReleaseStack(c)
  BY <1>19, <1>pc, CliMoves DEF ReleaseStack, TypeOK
<1>20. CASE Halt(c)
  BY <1>20, <1>pc, CliMoves DEF Halt, TypeOK, EndTask
<1>21. CASE HaltRefused(c)
  BY <1>21, <1>pc, CliMoves DEF HaltRefused, TypeOK
<1>22. CASE StopKill(c)
  BY <1>22, <1>pc, CliMoves, TerminateTypes DEF StopKill, TypeOK
<1>23. CASE StopRemoveDir(c)
  BY <1>23, <1>pc, CliMoves DEF StopRemoveDir, TypeOK
<1>24. CASE CommandEnds(c)
  BY <1>24, <1>pc, CliMoves DEF CommandEnds, TypeOK, EndTask
<1>25. CASE SpawnTimeout(c)
  BY <1>25, <1>pc, CliMoves, TerminateTypes DEF SpawnTimeout, TypeOK
<1>26. CASE StopDeadline(c)
  BY <1>26, <1>pc, CliMoves DEF StopDeadline, TypeOK
<1>27. CASE HaltFails(c)
  BY <1>27, <1>pc, CliMoves DEF HaltFails, TypeOK, EndTask
<1>28. ASSUME NEW cmd \in Cmds, Type(c, cmd) PROVE TypeOK'
  <2>1. cmd \in AllCmds
    BY DEF ConstantsAssumption
  <2>2. FirstPc[cmd] \in CliPcs
    BY <1>pc, <2>1 DEF FirstPc, AllCmds
  <2>3. [Idle EXCEPT !.cmd = cmd, !.pc = FirstPc[cmd]] \in CliStates
    BY <2>1, <2>2 DEF Idle, CliStates
  <2> QED BY <1>28, <2>3 DEF Type, TypeOK
<1> QED
  BY <1>1, <1>2, <1>3, <1>4, <1>5, <1>6, <1>7, <1>8, <1>9, <1>10,
     <1>11, <1>12, <1>13, <1>14, <1>15, <1>16, <1>17, <1>18, <1>19, <1>20,
     <1>21, <1>22, <1>23, <1>24, <1>25, <1>26, <1>27, <1>28
     DEF CliStep

(* The initial state has its types. *)
LEMMA TypeInit == Init => TypeOK
<1> SUFFICES ASSUME Init PROVE TypeOK
  OBVIOUS
<1>1. NoDir \in Dirs
  BY DEF NoDir, Dirs
<1>2. Idle \in CliStates
  BY DEF Idle, CliStates, AllCmds, CliPcs, LookupPcs
<1> QED BY <1>1, <1>2 DEF Init, TypeOK, SvPcs

(* One step per kind of actor keeps them. *)
LEMMA TypeStep == TypeOK /\ [Next]_vars => TypeOK'
<1> SUFFICES ASSUME TypeOK, [Next]_vars PROVE TypeOK'
  OBVIOUS
<1>1. CASE \E s \in Sups :
             \/ ServeStep(s) \/ SupCrash(s) \/ SupTerm(s) \/ ServeOpenFails(s)
             \/ WatchMisreads(s) \/ WatchFails(s)
  BY <1>1, ServeTypes
<1>2. CASE \E c \in Clis :
             \/ CliStep(c) \/ CommandEnds(c) \/ (\E cmd \in Cmds : Type(c, cmd))
             \/ SpawnTimeout(c) \/ StopDeadline(c) \/ HaltFails(c)
  BY <1>2, CliTypes, ConstantsAssumption
<1>3. CASE GuestExit
  BY <1>3 DEF GuestExit, EndTask, TypeOK, svVars
<1>4. CASE UNCHANGED vars
  BY <1>4 DEF vars, svVars, tdVars, TypeOK
<1> QED BY <1>1, <1>2, <1>3, <1>4 DEF Next, Fault

(* Every variable keeps its type, whatever the constants are: NetSupervisor *)
(* never reaches a state its actions have no meaning for.                   *)
THEOREM TypeCorrect == Spec => []TypeOK
BY TypeInit, TypeStep, PTL DEF Spec

----------------------------------------------------------------------------
(* The lock file, for any number of processes. *)

(* A process that is about to lock a file, or has, has that file open. *)
FdOpen == \A s \in Sups : sv[s] \in Holding \cup {"lockfd"} => fd[s] \in Inodes

(* No two processes hold the lock of one file. *)
Exclusive == \A s, t \in Sups, i \in Inodes : Holds(s, i) /\ Holds(t, i) => s = t

LockInv == TypeOK /\ FdOpen /\ Exclusive

(* What every step but a successful flock leaves alone: who holds which    *)
(* lock does not grow, and the visible lock file is not exchanged for      *)
(* another one in a single step.                                           *)
LockKept ==
  \A t \in Sups : /\ sv'[t] = "lockfd" => fd'[t] \in Inodes
                  /\ sv'[t] \in Holding => sv[t] \in Holding /\ fd'[t] = fd[t]

NoExchange == fs'.lock = fs.lock \/ fs'.lock = None \/ fs.lock = None

(* The steps of a supervisor: how they move lock files and locks. *)
LEMMA ServeLocks ==
  ASSUME LockInv, NEW s \in Sups,
         \/ ServeStep(s) \/ SupCrash(s) \/ SupTerm(s) \/ ServeOpenFails(s)
         \/ WatchMisreads(s) \/ WatchFails(s)
  PROVE  NoExchange /\ (LockKept \/ ServeFlock(s))
<1> USE DirTypes DEF Goto, Die, NoExchange, LockKept, LockInv
<1>1. CASE ServeMkdir(s)
  BY <1>1 DEF ServeMkdir, FdOpen, TypeOK, Holding, SvPcs, MkdirAll
<1>2. CASE ServeOpenLock(s)
  BY <1>2 DEF ServeOpenLock, FdOpen, TypeOK, Holding, SvPcs, MkdirAll, Dirs
<1>3. CASE ServeRefused(s)
  BY <1>3 DEF ServeRefused, FdOpen, TypeOK, Holding, SvPcs
<1>4. CASE ServeOpen(s)
  BY <1>4 DEF ServeOpen, FdOpen, TypeOK, Holding, SvPcs, MkdirAll, Dirs
<1>5. CASE ServeWriteState(s)
  BY <1>5 DEF ServeWriteState, FdOpen, TypeOK, Holding, SvPcs, Dirs
<1>6. CASE ServeReady(s)
  BY <1>6 DEF ServeReady, FdOpen, TypeOK, Holding, SvPcs
<1>7. CASE WatchSeesTask(s)
  BY <1>7 DEF WatchSeesTask, FdOpen, TypeOK, Holding, SvPcs
<1>8. CASE WatchSeesEnd(s)
  BY <1>8 DEF WatchSeesEnd, FdOpen, TypeOK, Holding, SvPcs
<1>9. CASE WatchExpires(s)
  BY <1>9 DEF WatchExpires, FdOpen, TypeOK, Holding, SvPcs
<1>10. CASE ServeSignalled(s)
  BY <1>10 DEF ServeSignalled, FdOpen, TypeOK, Holding, SvPcs
<1>11. CASE ServeClose(s)
  BY <1>11 DEF ServeClose, FdOpen, TypeOK, Holding, SvPcs
<1>12. CASE ServeRemoveDir(s)
  BY <1>12 DEF ServeRemoveDir, FdOpen, TypeOK, Holding, SvPcs
<1>13. CASE ServeRelease(s)
  BY <1>13 DEF ServeRelease, FdOpen, TypeOK, Holding, SvPcs
<1>14. CASE SupCrash(s)
  BY <1>14 DEF SupCrash, FdOpen, TypeOK, Holding, SvPcs, Dirs
<1>15. CASE ServeOpenFails(s)
  BY <1>15 DEF ServeOpenFails, FdOpen, TypeOK, Holding, SvPcs
<1>16. CASE WatchMisreads(s)
  BY <1>16 DEF WatchMisreads, FdOpen, TypeOK, Holding, SvPcs
<1>17. CASE WatchFails(s)
  BY <1>17 DEF WatchFails, FdOpen, TypeOK, Holding, SvPcs
<1>18. CASE ServeFlock(s)
  BY <1>18 DEF ServeFlock
<1>19. CASE SupTerm(s)
  BY <1>19 DEF SupTerm, Terminate, FdOpen, TypeOK, Holding, SvPcs
<1> QED
  BY <1>1, <1>2, <1>3, <1>4, <1>5, <1>6, <1>7, <1>8, <1>9, <1>10, <1>11, <1>12, <1>13,
     <1>14, <1>15, <1>16, <1>17, <1>18, <1>19
     DEF ServeStep

(* The steps of a command take no supervisor lock. *)
LEMMA CliLocks ==
  ASSUME LockInv, NEW c \in Clis,
         \/ CliStep(c) \/ CommandEnds(c) \/ (\E cmd \in Cmds : Type(c, cmd))
         \/ SpawnTimeout(c) \/ StopDeadline(c) \/ HaltFails(c)
  PROVE  NoExchange /\ LockKept
<1> USE DirTypes DEF svVars, LockInv
<1>1. ASSUME NEW s, Terminate(s) PROVE LockKept
  BY <1>1 DEF Terminate, Die, LockKept, FdOpen, TypeOK, Holding, SvPcs
<1>2. CASE StopKill(c) \/ SpawnTimeout(c)
  BY <1>1, <1>2 DEF StopKill, SpawnTimeout, NoExchange
<1>3. CASE SpawnStart(c)
  <2>1. NoExchange
    BY <1>3 DEF SpawnStart, NoExchange
  <2>2. PICK s \in Sups : sv[s] = "dead" /\ sv' = [sv EXCEPT ![s] = "spawned"]
    BY <1>3 DEF SpawnStart
  <2>3. fd' = fd
    BY <1>3 DEF SpawnStart
  <2>4. LockKept
    BY <2>2, <2>3 DEF LockKept, FdOpen, TypeOK, Holding, SvPcs
  <2> QED BY <2>1, <2>4
<1>4. ASSUME UNCHANGED svVars, fs' \in {fs, NoDir, MkdirAll(fs)}
      PROVE  NoExchange /\ LockKept
  BY <1>4 DEF NoExchange, LockKept, FdOpen
<1>5. CASE \/ (\E cmd \in Cmds : Type(c, cmd))
           \/ Prepare(c) \/ FindExisting(c) \/ ReadState(c) \/ CheckLock(c)
           \/ DropProbe(c) \/ SpawnReady(c) \/ SpawnDied(c) \/ Create(c)
           \/ NewTask(c) \/ TaskExists(c) \/ NewTaskFails(c) \/ StartTask(c)
  BY <1>4, <1>5 DEF Type, Prepare, FindExisting, ReadState, CheckLock,
     DropProbe, SpawnReady, SpawnDied, Create, NewTask, TaskExists,
     NewTaskFails, StartTask
<1>6. CASE \/ StartTaskFails(c) \/ CommandEnds(c) \/ UndoEphemeral(c)
           \/ Forget(c) \/ ReleaseStack(c) \/ Halt(c) \/ HaltRefused(c)
           \/ HaltFails(c) \/ StopDeadline(c)
  BY <1>4, <1>6 DEF StartTaskFails, CommandEnds, UndoEphemeral, Forget,
     ReleaseStack, Halt, HaltRefused, HaltFails, StopDeadline
<1>7. CASE EnsureClear(c) \/ StopRemoveDir(c) \/ SpawnFails(c)
  BY <1>4, <1>7 DEF EnsureClear, StopRemoveDir, SpawnFails
<1> QED BY <1>2, <1>3, <1>5, <1>6, <1>7 DEF CliStep

(* Putting the actors together. *)
LEMMA NextLocks ==
  ASSUME LockInv, [Next]_vars
  PROVE  NoExchange /\ (LockKept \/ \E s \in Sups : ServeFlock(s))
<1>1. CASE \E s \in Sups :
             \/ ServeStep(s) \/ SupCrash(s) \/ SupTerm(s) \/ ServeOpenFails(s)
             \/ WatchMisreads(s) \/ WatchFails(s)
  BY <1>1, ServeLocks
<1>2. CASE \E c \in Clis :
             \/ CliStep(c) \/ CommandEnds(c) \/ (\E cmd \in Cmds : Type(c, cmd))
             \/ SpawnTimeout(c) \/ StopDeadline(c) \/ HaltFails(c)
  BY <1>2, CliLocks
<1>3. CASE GuestExit \/ UNCHANGED vars
  BY <1>3 DEF GuestExit, vars, svVars, NoExchange, LockKept, LockInv, FdOpen
<1> QED BY <1>1, <1>2, <1>3 DEF Next, Fault

(* A process comes to hold a lock only while nobody holds it, and alone. *)
LEMMA NewHolder ==
  ASSUME LockInv, [Next]_vars, NEW t \in Sups, NEW i \in Inodes, Holds(t, i)'
  PROVE  \/ Holds(t, i)
         \/ \A u \in Sups : ~Holds(u, i) /\ (Holds(u, i)' => u = t)
<1>1. CASE LockKept
  BY <1>1 DEF LockKept, Holds
<1>2. CASE \E s \in Sups : ServeFlock(s)
  <2>1. PICK s \in Sups : ServeFlock(s)
    BY <1>2
  <2>2. \A u \in Sups \ {s} : Holds(u, i)' <=> Holds(u, i)
    BY <2>1 DEF ServeFlock, Goto, Holds, LockInv, TypeOK
  <2>3. fd' = fd /\ ~Flocked(fd[s])
    BY <2>1 DEF ServeFlock
  <2>4. CASE t = s
    <3>1. fd[s] = i
      BY <2>3, <2>4 DEF Holds
    <3>2. \A u \in Sups : ~Holds(u, i)
      BY <2>3, <3>1 DEF Flocked
    <3> QED BY <2>2, <2>4, <3>2
  <2> QED BY <2>2, <2>4
<1> QED BY <1>1, <1>2, NextLocks

(* A step keeps the locks exclusive. *)
LEMMA LockInvStep == LockInv /\ [Next]_vars => LockInv'
<1> SUFFICES ASSUME LockInv, [Next]_vars PROVE LockInv'
  OBVIOUS
<1>1. TypeOK'
  BY TypeStep DEF LockInv
<1>2. FdOpen'
  <2>1. CASE LockKept
    BY <2>1 DEF LockKept, LockInv, FdOpen
  <2>2. CASE \E s \in Sups : ServeFlock(s)
    BY <2>2 DEF ServeFlock, Goto, LockInv, TypeOK, FdOpen
  <2> QED BY <2>1, <2>2, NextLocks
<1>3. Exclusive'
  <2> SUFFICES ASSUME NEW s \in Sups, NEW t \in Sups, NEW i \in Inodes,
                      Holds(s, i)', Holds(t, i)'
               PROVE  s = t
    BY DEF Exclusive
  <2> QED BY NewHolder DEF LockInv, Exclusive
<1> QED BY <1>1, <1>2, <1>3 DEF LockInv

(* flock works: however the directory is removed and created under the     *)
(* processes, no two of them hold the lock of one file.                    *)
THEOREM LockExclusive == Spec => []LockInv
<1>1. Init => LockInv
  <2> SUFFICES ASSUME Init PROVE LockInv
    OBVIOUS
  <2>1. TypeOK
    BY TypeInit
  <2>2. \A s \in Sups : sv[s] \notin Holding \cup {"lockfd"}
    BY DEF Init, Holding
  <2> QED BY <2>1, <2>2 DEF LockInv, FdOpen, Exclusive, Holds
<1> QED BY <1>1, LockInvStep, PTL DEF Spec

(* Owner is a process that has the visible lock file locked. *)
OwnerMeans ==
  Owner # None => Owner \in Sups /\ Holds(Owner, fs.lock) /\ fs.lock \in Inodes

(* The process Owner chooses holds the visible lock file. *)
LEMMA OwnerHolds == LockInv => OwnerMeans
<1>1. Owner # None => Owner \in Sups /\ Holds(Owner, fs.lock)
  BY DEF Owner
<1> QED BY <1>1 DEF LockInv, FdOpen, Holds, OwnerMeans

(* NetSupervisor implements StackLock: whatever the commands and the       *)
(* faults, a supervisor becomes visible only when there was none, and goes *)
(* away before another one is.                                             *)
THEOREM VisibleSupervisor == Spec => OneVisibleSupervisor
<1>1. Init => Lock!Init
  <2> SUFFICES ASSUME Init PROVE Owner = None
    BY DEF Lock!Init
  <2> QED BY DEF Init, Owner, Holds, Holding
<1>2. LockInv /\ LockInv' /\ [Next]_vars => [Lock!Next]_Owner
  <2> SUFFICES ASSUME LockInv, LockInv', [Next]_vars
               PROVE  [Lock!Next]_Owner
    OBVIOUS
  <2>1. OwnerMeans /\ OwnerMeans'
    BY OwnerHolds, PTL
  <2>2. Owner # None => Owner \in Sups /\ Holds(Owner, fs.lock) /\ fs.lock \in Inodes
    BY <2>1 DEF OwnerMeans
  <2>3. /\ Owner' # None => Owner' \in Sups
        /\ Owner' # None => fs'.lock \in Inodes /\ Holds(Owner, fs.lock)'
    BY <2>1 DEF OwnerMeans
  <2>4. ASSUME Owner # None, Owner' # None PROVE Owner' = Owner
    <3>1. fs'.lock = fs.lock
      BY <2>2, <2>3, <2>4, NextLocks, ConstantsAssumption DEF NoExchange
    <3> QED BY <2>2, <2>3, <2>4, <3>1, NewHolder DEF LockInv, Exclusive
  <2> QED BY <2>3, <2>4 DEF Lock!Next, Lock!Appear, Lock!Vanish
<1> QED BY <1>1, <1>2, LockExclusive, PTL DEF Spec, OneVisibleSupervisor, Lock!Spec

----------------------------------------------------------------------------
(* The certificate directory.  With commands that overlap, or an ephemeral *)
(* run of an existing sandbox, CertKept is false of the code; what is      *)
(* proved is the sequence of one terminal's commands.                      *)
OneTerminal == \A c, d \in Clis : c = d

(* What a command in the middle of its steps may rely on: a run has        *)
(* prepared the directory that the container it creates will mount, and a  *)
(* removal that goes on to forget it has removed the container before.     *)
CommandSound(cmd, pc) ==
  /\ cmd # "runrm" /\ pc # "undo"
  /\ pc = "find" => cmd = "start"
  /\ pc = "release" => cmd = "run"
  /\ cmd = "run" /\ pc \in {"look", "ens", "clear", "spawn", "wait", "post", "create"} => cert
  /\ cmd = "rm" /\ pc \in {"stop", "kill", "stopwait", "stoprm"} => ~container
  /\ pc = "forget" => ~container

CertInv == TypeOK /\ CertKept /\ \A c \in Clis : CommandSound(cli[c].cmd, cli[c].pc)

(* Where a step leaves a command. *)
Goes(c, pc) == cli'[c].cmd = cli[c].cmd /\ cli'[c].pc = pc
Rests(c) == cli'[c].cmd = "ls" /\ cli'[c].pc = "idle"

(* The ways in which a command's record is updated lead there. *)
LEMMA CliGoes ==
  ASSUME TypeOK, NEW c \in Clis
  PROVE  /\ \A pc \in CliPcs : Move(c, pc) => Goes(c, pc)
         /\ End(c) => Rests(c)
         /\ \A pc \in CliPcs, s \in Sups \cup {None} :
              cli' = [cli EXCEPT ![c] = [@ EXCEPT !.pc = pc, !.child = s]] => Goes(c, pc)
         /\ \A pc \in CliPcs :
              /\ cli' = [cli EXCEPT ![c] = [@ EXCEPT !.pc = pc]] => Goes(c, pc)
              /\ cli' = [cli EXCEPT ![c] = [@ EXCEPT !.pc = pc, !.mine = TRUE]] => Goes(c, pc)
              /\ cli' = [cli EXCEPT ![c] = [@ EXCEPT !.pc = pc, !.pid = None, !.started = TRUE]]
                   => Goes(c, pc)
         /\ \A s : cli' = [cli EXCEPT ![c] = [@ EXCEPT !.pid = s]] => Goes(c, cli[c].pc)
         /\ \A i : cli' = [cli EXCEPT ![c] = [@ EXCEPT !.probe = i]] => Goes(c, cli[c].pc)
<1>1. ASSUME NEW pc \in CliPcs, NEW r \in CliStates, NEW s, NEW i
      PROVE  /\ [r EXCEPT !.pc = pc, !.pid = None, !.probe = None].pc = pc
             /\ [r EXCEPT !.pc = pc, !.pid = None, !.probe = None].cmd = r.cmd
             /\ [r EXCEPT !.pc = pc, !.child = s].pc = pc
             /\ [r EXCEPT !.pc = pc, !.child = s].cmd = r.cmd
             /\ [r EXCEPT !.pc = pc].pc = pc
             /\ [r EXCEPT !.pc = pc].cmd = r.cmd
             /\ [r EXCEPT !.pc = pc, !.mine = TRUE].pc = pc
             /\ [r EXCEPT !.pc = pc, !.mine = TRUE].cmd = r.cmd
             /\ [r EXCEPT !.pc = pc, !.pid = None, !.started = TRUE].pc = pc
             /\ [r EXCEPT !.pc = pc, !.pid = None, !.started = TRUE].cmd = r.cmd
             /\ [r EXCEPT !.pid = s].pc = r.pc /\ [r EXCEPT !.pid = s].cmd = r.cmd
             /\ [r EXCEPT !.probe = i].pc = r.pc /\ [r EXCEPT !.probe = i].cmd = r.cmd
  BY DEF CliStates
<1>2. cli \in [Clis -> CliStates] /\ cli[c] \in CliStates
  BY DEF TypeOK
<1>3. Idle.pc = "idle" /\ Idle.cmd = "ls"
  BY DEF Idle
<1>4. ASSUME NEW r, cli' = [cli EXCEPT ![c] = r] PROVE cli'[c] = r
  BY <1>2, <1>4
<1>5. ASSUME End(c) PROVE Rests(c)
  BY <1>3, <1>4, <1>5 DEF End, Rests
<1>6. ASSUME NEW pc \in CliPcs, Move(c, pc) PROVE Goes(c, pc)
  BY <1>1, <1>2, <1>4, <1>6 DEF Move, Goes
<1>7. ASSUME NEW pc \in CliPcs, NEW s \in Sups \cup {None},
             cli' = [cli EXCEPT ![c] = [@ EXCEPT !.pc = pc, !.child = s]]
      PROVE  Goes(c, pc)
  BY <1>1, <1>2, <1>4, <1>7 DEF Goes
<1>8. ASSUME NEW pc \in CliPcs, cli' = [cli EXCEPT ![c] = [@ EXCEPT !.pc = pc]]
      PROVE  Goes(c, pc)
  BY <1>1, <1>2, <1>4, <1>8 DEF Goes
<1>9. ASSUME NEW pc \in CliPcs, cli' = [cli EXCEPT ![c] = [@ EXCEPT !.pc = pc, !.mine = TRUE]]
      PROVE  Goes(c, pc)
  BY <1>1, <1>2, <1>4, <1>9 DEF Goes
<1>10. ASSUME NEW pc \in CliPcs,
              cli' = [cli EXCEPT ![c] = [@ EXCEPT !.pc = pc, !.pid = None, !.started = TRUE]]
       PROVE  Goes(c, pc)
  BY <1>1, <1>2, <1>4, <1>10 DEF Goes
<1>11. ASSUME NEW s, cli' = [cli EXCEPT ![c] = [@ EXCEPT !.pid = s]]
       PROVE  Goes(c, cli[c].pc)
  BY <1>1, <1>2, <1>4, <1>11 DEF Goes, CliStates
<1>12. ASSUME NEW i, cli' = [cli EXCEPT ![c] = [@ EXCEPT !.probe = i]]
       PROVE  Goes(c, cli[c].pc)
  BY <1>1, <1>2, <1>4, <1>12 DEF Goes, CliStates
<1> QED BY <1>5, <1>6, <1>7, <1>8, <1>9, <1>10, <1>11, <1>12

(* A command that could not bring the sandbox up, or is done with it. *)
LEMMA AfterRunGoes ==
  ASSUME CertInv, NEW c \in Clis, AfterRun(c)
  PROVE  Rests(c) \/ (Goes(c, "release") /\ cli[c].cmd = "run")
<1>1. "release" \in CliPcs
  BY DEF CliPcs
<1>2. cli[c].cmd # "runrm"
  BY DEF CertInv, CommandSound
<1> QED BY <1>1, <1>2, CliGoes DEF AfterRun, CertInv

(* A Lookup, and where it leads. *)
LEMMA LookupGoes ==
  ASSUME TypeOK, NEW c \in Clis
  PROVE  /\ Hit(c) => \/ Rests(c)
                      \/ cli[c].pc \in {"look", "ens", "post"} /\ Goes(c, "create")
                      \/ At(c, "stop") /\ Goes(c, "kill")
                      \/ At(c, "stopwait") /\ Goes(c, "stopwait")
         /\ Miss(c) => \/ Rests(c)
                       \/ At(c, "look") /\ Goes(c, "ens")
                       \/ At(c, "ens") /\ Goes(c, "clear")
                       \/ cli[c].pc \in {"stop", "stopwait"} /\ Goes(c, "stoprm")
<1>1. {"create", "kill", "stopwait", "ens", "clear", "stoprm"} \subseteq CliPcs
  BY DEF CliPcs, LookupPcs
<1>2. ASSUME Hit(c)
      PROVE  \/ Rests(c)
             \/ cli[c].pc \in {"look", "ens", "post"} /\ Goes(c, "create")
             \/ At(c, "stop") /\ Goes(c, "kill")
             \/ At(c, "stopwait") /\ Goes(c, "stopwait")
  BY <1>1, <1>2, CliGoes DEF Hit, At
<1>3. ASSUME Miss(c)
      PROVE  \/ Rests(c)
             \/ At(c, "look") /\ Goes(c, "ens")
             \/ At(c, "ens") /\ Goes(c, "clear")
             \/ cli[c].pc \in {"stop", "stopwait"} /\ Goes(c, "stoprm")
  BY <1>1, <1>3, CliGoes DEF Miss
<1> QED BY <1>2, <1>3

(* The invariant of the next state, of the one command there is. *)
CertNext(c) == CertKept' /\ CommandSound(cli[c].cmd, cli[c].pc)'

(* The steps of a command up to the sandbox's creation. *)
LEMMA CertBringUp ==
  ASSUME CertInv, NEW c \in Clis,
         \/ Prepare(c) \/ FindExisting(c) \/ ReadState(c) \/ CheckLock(c) \/ DropProbe(c)
         \/ EnsureClear(c) \/ SpawnStart(c) \/ SpawnFails(c) \/ SpawnReady(c)
         \/ SpawnDied(c) \/ SpawnTimeout(c) \/ Create(c)
  PROVE  CertNext(c)
<1>pc. {"look", "spawn", "wait", "post", "task"} \subseteq CliPcs
  BY DEF CliPcs, LookupPcs
<1>0. TypeOK /\ CertKept /\ CommandSound(cli[c].cmd, cli[c].pc)
  BY DEF CertInv
<1> USE DEF CertNext, CertKept, CommandSound, At, tdVars, Goes, Rests
<1>1. CASE Prepare(c)
  BY <1>0, <1>1, <1>pc, CliGoes DEF Prepare
<1>2. CASE FindExisting(c)
  BY <1>0, <1>2, <1>pc, CliGoes DEF FindExisting
<1>3. CASE ReadState(c) \/ CheckLock(c) \/ DropProbe(c)
  <2>1. UNCHANGED <<cert, container>>
    BY <1>3 DEF ReadState, CheckLock, DropProbe
  <2>2. Hit(c) \/ Miss(c) \/ Goes(c, cli[c].pc)
    BY <1>0, <1>3, CliGoes DEF ReadState, CheckLock, DropProbe
  <2> QED BY <1>0, <2>1, <2>2, LookupGoes
<1>4. CASE EnsureClear(c)
  BY <1>0, <1>4, <1>pc, CliGoes DEF EnsureClear
<1>5. CASE SpawnStart(c)
  BY <1>0, <1>5, <1>pc, CliGoes DEF SpawnStart
<1>6. CASE SpawnFails(c) \/ SpawnDied(c)
  <2>1. End(c) /\ UNCHANGED <<cert, container>>
    BY <1>6 DEF SpawnFails, SpawnDied
  <2> QED BY <1>0, <2>1, CliGoes
<1>7. CASE SpawnReady(c)
  BY <1>0, <1>7, <1>pc, CliGoes DEF SpawnReady
<1>8. CASE SpawnTimeout(c)
  BY <1>0, <1>8, <1>pc, CliGoes, TerminateTypes DEF SpawnTimeout
<1>9. CASE Create(c)
  <2>1. cli[c].cmd # "runrm" /\ cert' = cert
    BY <1>0, <1>9 DEF Create
  <2>2. CASE cli[c].cmd = "run" /\ container' = TRUE /\ Goes(c, "task")
    BY <1>0, <1>9, <2>1, <2>2 DEF Create
  <2>3. CASE UNCHANGED container /\ (AfterRun(c) \/ Goes(c, "task"))
    BY <1>0, <2>1, <2>3, AfterRunGoes
  <2> QED BY <1>0, <1>9, <1>pc, <2>1, <2>2, <2>3, CliGoes DEF Create
<1> QED BY <1>1, <1>2, <1>3, <1>4, <1>5, <1>6, <1>7, <1>8, <1>9

(* The steps of a command after that, and the ones that end a sandbox. *)
LEMMA CertRunAndStop ==
  ASSUME CertInv, NEW c \in Clis,
         \/ NewTask(c) \/ TaskExists(c) \/ NewTaskFails(c) \/ StartTask(c)
         \/ StartTaskFails(c) \/ CommandEnds(c) \/ UndoEphemeral(c) \/ Forget(c)
         \/ ReleaseStack(c) \/ Halt(c) \/ HaltRefused(c) \/ HaltFails(c)
         \/ StopKill(c) \/ StopDeadline(c) \/ StopRemoveDir(c)
  PROVE  CertNext(c)
<1>pc. {"start", "attached", "stop", "stopwait", "stoprm", "forget"} \subseteq CliPcs
  BY DEF CliPcs, LookupPcs
<1>0. TypeOK /\ CertKept /\ CommandSound(cli[c].cmd, cli[c].pc)
  BY DEF CertInv
<1> USE DEF CertNext, CertKept, CommandSound, At, tdVars, Goes, Rests
<1>1. CASE NewTask(c)
  BY <1>0, <1>1, <1>pc, CliGoes DEF NewTask
<1>2. CASE TaskExists(c)
  BY <1>0, <1>2, <1>pc, CliGoes DEF TaskExists
<1>3. CASE NewTaskFails(c) \/ StartTaskFails(c) \/ CommandEnds(c)
  <2>1. AfterRun(c) /\ UNCHANGED <<cert, container>>
    BY <1>3 DEF NewTaskFails, StartTaskFails, CommandEnds
  <2> QED BY <1>0, <2>1, AfterRunGoes
<1>4. CASE StartTask(c)
  BY <1>0, <1>4, <1>pc, CliGoes DEF StartTask
<1>5. CASE UndoEphemeral(c)
  BY <1>0, <1>5 DEF UndoEphemeral
<1>6. CASE Forget(c)
  BY <1>0, <1>6, CliGoes DEF Forget
<1>7. CASE ReleaseStack(c)
  BY <1>0, <1>7, <1>pc, CliGoes DEF ReleaseStack
<1>8. CASE Halt(c)
  BY <1>0, <1>8, <1>pc, CliGoes DEF Halt
<1>9. CASE HaltRefused(c) \/ HaltFails(c)
  <2>1. End(c) /\ UNCHANGED <<cert, container>>
    BY <1>9 DEF HaltRefused, HaltFails
  <2> QED BY <1>0, <2>1, CliGoes
<1>10. CASE StopKill(c)
  BY <1>0, <1>10, <1>pc, CliGoes, TerminateTypes DEF StopKill
<1>11. CASE StopDeadline(c)
  BY <1>0, <1>11, <1>pc, CliGoes DEF StopDeadline
<1>12. CASE StopRemoveDir(c)
  BY <1>0, <1>12, <1>pc, CliGoes DEF StopRemoveDir
<1> QED BY <1>1, <1>2, <1>3, <1>4, <1>5, <1>6, <1>7, <1>8, <1>9, <1>10, <1>11, <1>12

(* Supervisors touch neither the container nor its certificate directory. *)
LEMMA ServeSparesCert ==
  ASSUME NEW s \in Sups,
         \/ ServeStep(s) \/ SupCrash(s) \/ SupTerm(s) \/ ServeOpenFails(s)
         \/ WatchMisreads(s) \/ WatchFails(s)
  PROVE  UNCHANGED <<cert, container, cli>>
BY DEF ServeStep, ServeMkdir, ServeOpenLock, ServeFlock, ServeRefused, ServeOpen,
       ServeWriteState, ServeReady, WatchSeesTask, WatchSeesEnd, WatchExpires,
       ServeSignalled, ServeClose, ServeRemoveDir, ServeRelease, SupCrash, SupTerm,
       Terminate, ServeOpenFails, WatchMisreads, WatchFails, tdVars

(* For as long as the container exists, whatever supervisors do and fail   *)
(* to do and however often commands fail, its certificate directory does:  *)
(* neither stop, nor a failed run, nor a removal cut short takes it        *)
(* (enforce.Forget), where one terminal types any sequence of commands but *)
(* run --rm.                                                               *)
THEOREM CertificateKept ==
  ASSUME OneTerminal, "runrm" \notin Cmds
  PROVE  Spec => []CertKept
<1>1. Init => CertInv
  <2> SUFFICES ASSUME Init PROVE CertInv
    OBVIOUS
  <2>1. TypeOK
    BY TypeInit
  <2>2. \A c \in Clis : cli[c].cmd = "ls" /\ cli[c].pc = "idle"
    BY DEF Init, Idle
  <2> QED BY <2>1, <2>2 DEF Init, CertInv, CertKept, CommandSound
<1>2. CertInv /\ [Next]_vars => CertInv'
  <2> SUFFICES ASSUME CertInv, [Next]_vars PROVE CertInv'
    OBVIOUS
  <2>1. TypeOK'
    BY TypeStep DEF CertInv
  <2>2. ASSUME UNCHANGED <<cert, container, cli>> PROVE CertInv'
    BY <2>1, <2>2 DEF CertInv, CertKept, CommandSound
  <2>3. ASSUME NEW c \in Clis, CertNext(c) PROVE CertInv'
    <3>1. \A d \in Clis : d = c
      BY DEF OneTerminal
    <3> QED BY <2>1, <2>3, <3>1 DEF CertInv, CertNext
  <2>4. ASSUME NEW c \in Clis, NEW cmd \in Cmds, Type(c, cmd) PROVE CertNext(c)
    <3>1. cmd # "runrm" /\ cmd \in AllCmds
      BY ConstantsAssumption
    <3>2. [Idle EXCEPT !.cmd = cmd, !.pc = FirstPc[cmd]].cmd = cmd
          /\ [Idle EXCEPT !.cmd = cmd, !.pc = FirstPc[cmd]].pc = FirstPc[cmd]
      BY DEF Idle
    <3>3. cli'[c].cmd = cmd /\ cli'[c].pc = FirstPc[cmd]
      BY <2>4, <3>2 DEF Type, CertInv, TypeOK
    <3>4. \/ cmd = "run" /\ FirstPc[cmd] = "prepare"
          \/ cmd = "start" /\ FirstPc[cmd] = "find"
          \/ cmd \in {"stop", "rm"} /\ FirstPc[cmd] = "halt"
          \/ cmd = "netstop" /\ FirstPc[cmd] = "stop"
          \/ cmd = "ls" /\ FirstPc[cmd] = "list"
      BY <3>1 DEF FirstPc, AllCmds
    <3>5. UNCHANGED <<cert, container>>
      BY <2>4 DEF Type, tdVars
    <3> QED BY <3>1, <3>3, <3>4, <3>5 DEF CertNext, CertInv, CertKept, CommandSound
  <2>5. CASE \E c \in Clis :
               \/ CliStep(c) \/ CommandEnds(c) \/ (\E cmd \in Cmds : Type(c, cmd))
               \/ SpawnTimeout(c) \/ StopDeadline(c) \/ HaltFails(c)
    BY <2>3, <2>4, <2>5, CertBringUp, CertRunAndStop DEF CliStep
  <2>6. CASE GuestExit \/ UNCHANGED vars
    BY <2>2, <2>6 DEF GuestExit, vars, tdVars
  <2>7. CASE \E s \in Sups :
               \/ ServeStep(s) \/ SupCrash(s) \/ SupTerm(s) \/ ServeOpenFails(s)
               \/ WatchMisreads(s) \/ WatchFails(s)
    BY <2>2, <2>7, ServeSparesCert
  <2> QED BY <2>5, <2>6, <2>7 DEF Next, Fault
<1>3. CertInv => CertKept
  BY DEF CertInv
<1> QED BY <1>1, <1>2, <1>3, PTL DEF Spec
----------------------------------------------------------------------------
(* Whom Stop signals, where one terminal types any sequence of commands    *)
(* and none gives a process up while it boots.  With a second terminal, or *)
(* a spawn that is interrupted, the state file may be another process's    *)
(* than the lock.                                                          *)
Boot == {"spawned", "made", "lockfd", "locked", "opened"}

(* Somebody waits for every process that boots ...                         *)
BootIsAwaited ==
  \A s \in Sups : sv[s] \in Boot =>
    s \notin ready /\ \E c \in Clis : At(c, "wait") /\ cli[c].child = s

(* ... and has cleared away the state file of whoever served before.       *)
BootIsFirst ==
  /\ \A c \in Clis : At(c, "spawn") => fs.state = None
  /\ \A s \in Sups : sv[s] \in Boot => fs.state = None

(* What it locks is the file that is there, or the directory was removed.  *)
BootIsVisible ==
  \A s \in Sups : sv[s] \in {"lockfd", "locked", "opened"} => fs.lock \in {fd[s], None}

(* The two files, as long as both are there, speak of the same process.    *)
StateIsHolder ==
  \A t \in Sups : fs.state # None /\ fs.lock # None /\ Holds(t, fs.lock) => t = fs.state

(* So does what Stop has read.                                             *)
ReadIsCurrent ==
  \A c \in Clis : At(c, "stop") /\ cli[c].pid # None => cli[c].pid = fs.state \/ fs.lock = None

OwnInv == LockInv /\ BootIsAwaited /\ BootIsFirst /\ BootIsVisible /\ StateIsHolder /\ ReadIsCurrent

(* The directory stays, or goes with both files. *)
FilesFade ==
  \/ fs'.state = fs.state /\ fs'.lock = fs.lock
  \/ fs'.state = None /\ fs'.lock = None

(* A step in which no process starts to boot, gets on with it or writes    *)
(* its state.                                                              *)
BootsFade ==
  /\ FilesFade
  /\ \A t \in Sups :
       /\ sv'[t] \in Boot => sv'[t] = sv[t] /\ fd'[t] = fd[t] /\ (t \in ready' => t \in ready)
       /\ sv'[t] \in Holding => sv[t] \in Holding /\ fd'[t] = fd[t]

(* What such a step does to the files' agreement. *)
LEMMA FadeKeepsFiles ==
  ASSUME OwnInv, BootsFade
  PROVE  BootIsVisible' /\ StateIsHolder'
<1>1. BootIsVisible'
  BY DEF OwnInv, BootsFade, FilesFade, BootIsVisible, Boot
<1>2. StateIsHolder'
  BY DEF OwnInv, BootsFade, FilesFade, StateIsHolder, Holds
<1> QED BY <1>1, <1>2

(* The three values of the directory that most actions write fade. *)
LEMMA DirFades ==
  ASSUME TypeOK
  PROVE  /\ NoDir.state = None /\ NoDir.lock = None
         /\ MkdirAll(fs).state = fs.state /\ MkdirAll(fs).lock = fs.lock
         /\ \A l \in Sups \cup {None, Stale} :
              /\ [fs EXCEPT !.link = l].state = fs.state
              /\ [fs EXCEPT !.link = l].lock = fs.lock
              /\ [MkdirAll(fs) EXCEPT !.link = l].state = fs.state
              /\ [MkdirAll(fs) EXCEPT !.link = l].lock = fs.lock
BY DEF TypeOK, Dirs, NoDir, MkdirAll

(* The supervisors' steps: all but those of a booting process fade. *)
LEMMA ServeFades ==
  ASSUME OwnInv, NEW s \in Sups,
         \/ ServeStep(s) \/ SupCrash(s) \/ SupTerm(s) \/ ServeOpenFails(s)
         \/ WatchMisreads(s) \/ WatchFails(s)
  PROVE  \/ BootsFade
         \/ ServeMkdir(s) \/ ServeOpenLock(s) \/ ServeFlock(s) \/ ServeOpen(s)
         \/ ServeWriteState(s)
<1>0. TypeOK
  BY DEF OwnInv, LockInv
<1> USE <1>0, DirFades DEF Goto, Die, BootsFade, FilesFade, Holding, Boot
<1>1. CASE ServeRefused(s)
  BY <1>1 DEF ServeRefused, TypeOK, SvPcs
<1>2. CASE ServeReady(s)
  BY <1>2 DEF ServeReady, TypeOK, SvPcs
<1>3. CASE WatchSeesTask(s)
  BY <1>3 DEF WatchSeesTask, TypeOK, SvPcs
<1>4. CASE WatchSeesEnd(s) \/ WatchExpires(s) \/ WatchMisreads(s) \/ WatchFails(s)
  BY <1>4 DEF WatchSeesEnd, WatchExpires, WatchMisreads, WatchFails, TypeOK, SvPcs
<1>5. CASE ServeSignalled(s)
  BY <1>5 DEF ServeSignalled, TypeOK, SvPcs
<1>6. CASE ServeClose(s)
  BY <1>6 DEF ServeClose, TypeOK, SvPcs
<1>7. CASE ServeRemoveDir(s)
  BY <1>7 DEF ServeRemoveDir, TypeOK, SvPcs
<1>8. CASE ServeRelease(s)
  BY <1>8 DEF ServeRelease, TypeOK, SvPcs
<1>9. CASE SupCrash(s)
  BY <1>9 DEF SupCrash, TypeOK, SvPcs, Dirs
<1>10. CASE ServeOpenFails(s)
  BY <1>10 DEF ServeOpenFails, TypeOK, SvPcs
<1>11. CASE SupTerm(s)
  BY <1>11 DEF SupTerm, Terminate, TypeOK, SvPcs
<1> QED
  BY <1>1, <1>2, <1>3, <1>4, <1>5, <1>6, <1>7, <1>8, <1>9, <1>10, <1>11 DEF ServeStep

(* The steps of a booting process keep the agreement. *)
LEMMA BootOwns ==
  ASSUME OneTerminal, OwnInv, NEW s \in Sups, cli' = cli,
         \/ ServeMkdir(s) \/ ServeOpenLock(s) \/ ServeFlock(s) \/ ServeOpen(s)
         \/ ServeWriteState(s)
  PROVE  BootIsAwaited' /\ BootIsFirst' /\ BootIsVisible' /\ StateIsHolder' /\ ReadIsCurrent'
<1>0. /\ TypeOK /\ FdOpen /\ Exclusive /\ BootIsAwaited /\ BootIsFirst /\ BootIsVisible
      /\ StateIsHolder
  BY DEF OwnInv, LockInv
<1>1. sv[s] \in Boot /\ ready' = ready /\ fs.state = None /\ s \notin ready
  BY <1>0 DEF ServeMkdir, ServeOpenLock, ServeFlock, ServeOpen, ServeWriteState, Boot,
              BootIsFirst, BootIsAwaited
<1>2. PICK c \in Clis : At(c, "wait") /\ cli[c].child = s
  BY <1>0, <1>1 DEF BootIsAwaited
<1>3. \A t \in Sups : sv[t] \in Boot => t = s
  BY <1>0, <1>2 DEF BootIsAwaited, OneTerminal
<1>4. \A d \in Clis : At(d, "wait")'
  BY <1>2 DEF OneTerminal, At
<1>5. PICK pc \in SvPcs : sv' = [sv EXCEPT ![s] = pc]
  BY DEF ServeMkdir, ServeOpenLock, ServeFlock, ServeOpen, ServeWriteState, Goto, SvPcs
<1>6. sv'[s] = pc /\ \A t \in Sups \ {s} : sv'[t] = sv[t] /\ sv[t] \notin Boot
  BY <1>0, <1>3, <1>5 DEF TypeOK
<1>7. BootIsAwaited' /\ ReadIsCurrent'
  BY <1>1, <1>2, <1>4, <1>6 DEF BootIsAwaited, ReadIsCurrent, At
<1>8. CASE ServeMkdir(s) \/ ServeOpenLock(s) \/ ServeFlock(s) \/ ServeOpen(s)
  <2>1. fs'.state = None
    <3>1. CASE ServeMkdir(s) \/ ServeFlock(s)
      BY <1>0, <1>1, <3>1, DirFades DEF ServeMkdir, ServeFlock
    <3>2. CASE ServeOpenLock(s)
      BY <1>0, <1>1, <3>2 DEF ServeOpenLock, TypeOK, Dirs
    <3>3. CASE ServeOpen(s)
      BY <1>0, <1>1, <3>3, DirFades DEF ServeOpen
    <3> QED BY <1>8, <3>1, <3>2, <3>3
  <2>2. BootIsFirst' /\ StateIsHolder'
    BY <2>1 DEF BootIsFirst, StateIsHolder
  <2>3. CASE ServeMkdir(s)
    <3>1. sv'[s] = "made" /\ fd' = fd /\ fs'.lock = fs.lock
      BY <1>0, <2>3, DirFades DEF ServeMkdir, Goto, TypeOK
    <3> QED BY <1>0, <1>6, <1>7, <2>2, <3>1 DEF BootIsVisible, Boot
  <2>4. CASE ServeOpenLock(s)
    <3>1. fs'.lock = fd'[s]
      BY <1>0, <2>4 DEF ServeOpenLock, TypeOK, Dirs
    <3> QED BY <1>6, <1>7, <2>2, <3>1 DEF BootIsVisible, Boot
  <2>5. CASE ServeFlock(s) \/ ServeOpen(s)
    <3>1. fd' = fd /\ fs'.lock = fs.lock /\ sv[s] \in {"lockfd", "locked", "opened"}
      BY <1>0, <2>5, DirFades DEF ServeFlock, ServeOpen
    <3> QED BY <1>0, <1>6, <1>7, <2>2, <3>1 DEF BootIsVisible, Boot
  <2> QED BY <1>8, <2>3, <2>4, <2>5
<1>9. CASE ServeWriteState(s)
  <2>1. /\ sv[s] = "opened" /\ pc \notin Boot /\ fd' = fd
        /\ fs'.lock = fs.lock /\ fs'.state \in {None, s}
    BY <1>0, <1>1, <1>6, <1>9 DEF ServeWriteState, Goto, TypeOK, Dirs, Boot
  <2>2. BootIsFirst' /\ BootIsVisible'
    BY <1>4, <1>6, <2>1 DEF BootIsFirst, BootIsVisible, Boot, At
  <2>3. ASSUME NEW t \in Sups, fs'.lock # None, Holds(t, fs.lock)'
        PROVE  t = s
    <3>1. fs.lock = fd[s] /\ fd[s] \in Inodes /\ Holds(s, fs.lock)
      BY <1>0, <2>1, <2>3 DEF BootIsVisible, FdOpen, Holds, Holding
    <3>2. t # s => Holds(t, fs.lock)
      BY <1>6, <2>1, <2>3 DEF Holds
    <3> QED BY <1>0, <3>1, <3>2 DEF Exclusive
  <2>4. StateIsHolder'
    BY <2>1, <2>3 DEF StateIsHolder
  <2> QED BY <1>7, <2>2, <2>4
<1> QED BY <1>8, <1>9

(* What the supervisors do keeps the agreement. *)
LEMMA ServeOwns ==
  ASSUME OneTerminal, OwnInv, NEW s \in Sups,
         \/ ServeStep(s) \/ SupCrash(s) \/ SupTerm(s) \/ ServeOpenFails(s)
         \/ WatchMisreads(s) \/ WatchFails(s)
  PROVE  BootIsAwaited' /\ BootIsFirst' /\ BootIsVisible' /\ StateIsHolder' /\ ReadIsCurrent'
<1>0. cli' = cli /\ BootIsAwaited /\ BootIsFirst /\ ReadIsCurrent
  BY ServeSparesCert DEF OwnInv
<1>1. CASE BootsFade
  <2>1. BootIsAwaited' /\ BootIsFirst'
    BY <1>0, <1>1 DEF BootIsAwaited, BootIsFirst, BootsFade, FilesFade, At
  <2>2. ReadIsCurrent'
    BY <1>0, <1>1 DEF ReadIsCurrent, BootsFade, FilesFade, At
  <2> QED BY <2>1, <2>2, <1>1, FadeKeepsFiles
<1> QED BY <1>0, <1>1, ServeFades, BootOwns

(* A command that goes on without a process of its own: it does not start  *)
(* one, and comes to Stop with nothing read.                               *)
Plain(c) ==
  /\ cli'[c].pc \notin {"spawn", "wait"}
  /\ cli'[c].pc = "stop" => cli'[c].pid = None

(* The ways in which a command's record is updated are plain. *)
LEMMA CliPlain ==
  ASSUME TypeOK, NEW c \in Clis
  PROVE  /\ \A pc \in CliPcs \ {"spawn", "wait"} : Move(c, pc) => Plain(c)
         /\ End(c) \/ AfterRun(c) => Plain(c)
         /\ Hit(c) \/ Miss(c) => Plain(c)
         /\ \A pc \in CliPcs \ {"stop", "spawn", "wait"} : Goes(c, pc) => Plain(c)
<1>1. cli \in [Clis -> CliStates] /\ cli[c] \in CliStates
  BY DEF TypeOK
<1>2. ASSUME NEW pc \in CliPcs \ {"spawn", "wait"}, Move(c, pc) PROVE Plain(c)
  <2>1. ASSUME NEW r \in CliStates
        PROVE  [r EXCEPT !.pc = pc, !.pid = None, !.probe = None].pid = None
    BY DEF CliStates
  <2>2. cli'[c].pid = None
    BY <1>1, <1>2, <2>1 DEF Move
  <2> QED BY <1>2, <2>2, CliGoes DEF Plain, Goes
<1>3. ASSUME End(c) PROVE Plain(c)
  BY <1>3, CliGoes DEF Plain, Rests
<1>4. ASSUME NEW pc \in CliPcs \ {"stop", "spawn", "wait"}, Goes(c, pc) PROVE Plain(c)
  BY <1>4 DEF Plain, Goes
<1>5. {"create", "kill", "stopwait", "ens", "clear", "stoprm", "undo", "forget", "release"}
        \subseteq CliPcs \ {"stop", "spawn", "wait"}
  BY DEF CliPcs, LookupPcs
<1>6. ASSUME AfterRun(c) PROVE Plain(c)
  BY <1>2, <1>3, <1>5, <1>6 DEF AfterRun
<1>7. ASSUME Hit(c) PROVE Plain(c)
  BY <1>2, <1>3, <1>4, <1>5, <1>7, CliGoes DEF Hit
<1>8. ASSUME Miss(c) PROVE Plain(c)
  BY <1>2, <1>3, <1>5, <1>8 DEF Miss
<1> QED BY <1>2, <1>3, <1>4, <1>6, <1>7, <1>8

(* A plain step of a command, or of one that waits no longer, keeps the    *)
(* agreement.                                                              *)
LEMMA PlainOwns ==
  ASSUME OneTerminal, OwnInv, NEW c \in Clis, Plain(c), BootsFade,
         \A t \in Sups : sv'[t] \notin Boot
  PROVE  BootIsAwaited' /\ BootIsFirst' /\ BootIsVisible' /\ StateIsHolder' /\ ReadIsCurrent'
<1>1. \A d \in Clis : d = c
  BY DEF OneTerminal
<1> QED BY <1>1, FadeKeepsFiles DEF Plain, BootIsAwaited, BootIsFirst, ReadIsCurrent, At

(* While no command waits, no process boots; so while one waits for a      *)
(* process that is ready, or dead.                                         *)
LEMMA NobodyBoots ==
  ASSUME OneTerminal, OwnInv, NEW c \in Clis,
         \/ ~At(c, "wait")
         \/ cli[c].child \in ready
         \/ sv[cli[c].child] = "dead"
  PROVE  \A t \in Sups : sv[t] \notin Boot
BY DEF OneTerminal, OwnInv, BootIsAwaited, Boot

(* The steps of a command that leave the processes alone. *)
LEMMA QuietFades ==
  ASSUME OwnInv, UNCHANGED <<sv, fd>>, ready' = ready, fs' \in {fs, NoDir, MkdirAll(fs)}
  PROVE  BootsFade
BY DirFades DEF OwnInv, LockInv, BootsFade, FilesFade

(* What the commands do keeps the agreement. *)
LEMMA CliOwns ==
  ASSUME OneTerminal, "readyLimit" \notin Faults, OwnInv, NEW c \in Clis,
         \/ CliStep(c) \/ CommandEnds(c) \/ (\E cmd \in Cmds : Type(c, cmd))
         \/ SpawnTimeout(c) \/ StopDeadline(c) \/ HaltFails(c)
  PROVE  BootIsAwaited' /\ BootIsFirst' /\ BootIsVisible' /\ StateIsHolder' /\ ReadIsCurrent'
<1>pc. {"look", "post", "task", "start", "attached", "stop", "stopwait", "stoprm", "forget"}
         \subseteq CliPcs \ {"spawn", "wait"}
  BY DEF CliPcs, LookupPcs
<1>wait. {"spawn", "wait"} \subseteq CliPcs
  BY DEF CliPcs
<1>0. /\ TypeOK /\ BootIsAwaited /\ BootIsFirst /\ BootIsVisible /\ StateIsHolder
      /\ ReadIsCurrent
  BY DEF OwnInv, LockInv
<1>1. ASSUME Plain(c), \A t \in Sups : sv[t] \notin Boot, UNCHANGED svVars,
             fs' \in {fs, NoDir, MkdirAll(fs)}
      PROVE  BootIsAwaited' /\ BootIsFirst' /\ BootIsVisible' /\ StateIsHolder' /\ ReadIsCurrent'
  BY <1>1, QuietFades, PlainOwns DEF svVars
<1>2. CASE Prepare(c) \/ FindExisting(c)
  <2>1. Plain(c)
    BY <1>0, <1>pc, <1>2, CliPlain DEF Prepare, FindExisting
  <2> QED BY <1>1, <1>2, <2>1, NobodyBoots DEF Prepare, FindExisting, At
<1>3. CASE ReadState(c) \/ CheckLock(c) \/ DropProbe(c)
  <2>1. ~At(c, "wait") /\ UNCHANGED <<fs, svVars>>
    BY <1>3 DEF ReadState, CheckLock, DropProbe, Miss, LookupPcs, At
  <2>2. CASE Hit(c) \/ Miss(c)
    <3>1. Plain(c)
      BY <1>0, <2>2, CliPlain
    <3> QED BY <1>1, <2>1, <3>1, NobodyBoots
  <2>3. CASE /\ cli[c].pc \in LookupPcs /\ Goes(c, cli[c].pc)
             /\ cli'[c].pid \in {cli[c].pid, fs.state}
    <3>1. \A d \in Clis : d = c
      BY DEF OneTerminal
    <3>2. \A t \in Sups : sv[t] \notin Boot
      BY <2>1, NobodyBoots
    <3>3. BootsFade
      BY <2>1, QuietFades DEF svVars
    <3>4. BootIsAwaited' /\ BootIsFirst'
      BY <2>1, <2>3, <3>1, <3>2 DEF BootIsAwaited, BootIsFirst, Goes, At, LookupPcs, svVars
    <3>5. ReadIsCurrent'
      BY <1>0, <2>1, <2>3, <3>1 DEF ReadIsCurrent, Goes, At
    <3> QED BY <3>3, <3>4, <3>5, FadeKeepsFiles
  <2>4. ASSUME NEW r \in CliStates, NEW x
        PROVE  [r EXCEPT !.pid = x].pid = x /\ [r EXCEPT !.probe = x].pid = r.pid
    BY DEF CliStates
  <2>5. cli \in [Clis -> CliStates] /\ cli[c] \in CliStates
    BY <1>0 DEF TypeOK
  <2>6. CASE ReadState(c)
    <3>1. ASSUME cli' = [cli EXCEPT ![c] = [@ EXCEPT !.pid = fs.state]]
          PROVE  Goes(c, cli[c].pc) /\ cli'[c].pid = fs.state
      <4>1. Goes(c, cli[c].pc)
        BY <1>0, <3>1, CliGoes
      <4>2. cli'[c].pid = fs.state
        BY <2>4, <2>5, <3>1
      <4> QED BY <4>1, <4>2
    <3> QED BY <2>2, <2>3, <2>6, <3>1 DEF ReadState
  <2>7. CASE CheckLock(c)
    <3>1. ASSUME cli' = [cli EXCEPT ![c] = [@ EXCEPT !.probe = fs.lock]]
          PROVE  Goes(c, cli[c].pc) /\ cli'[c].pid = cli[c].pid
      <4>1. Goes(c, cli[c].pc)
        BY <1>0, <3>1, CliGoes
      <4>2. cli'[c].pid = cli[c].pid
        BY <2>4, <2>5, <3>1
      <4> QED BY <4>1, <4>2
    <3> QED BY <2>2, <2>3, <2>7, <3>1 DEF CheckLock
  <2>8. CASE DropProbe(c)
    BY <2>2, <2>8 DEF DropProbe
  <2> QED BY <1>3, <2>6, <2>7, <2>8
<1>4. CASE EnsureClear(c)
  <2>1. \A d \in Clis : d = c
    BY DEF OneTerminal
  <2>2. \A t \in Sups : sv[t] \notin Boot
    BY <1>4, NobodyBoots DEF EnsureClear, At
  <2>3. BootsFade /\ fs'.state = None
    BY <1>0, <1>4, QuietFades, DirFades DEF EnsureClear, svVars
  <2>4. Goes(c, "spawn") /\ UNCHANGED svVars
    BY <1>0, <1>wait, <1>4, CliGoes DEF EnsureClear
  <2>5. BootIsAwaited' /\ BootIsFirst' /\ ReadIsCurrent'
    BY <2>1, <2>2, <2>3, <2>4 DEF BootIsAwaited, BootIsFirst, ReadIsCurrent, Goes, At, svVars
  <2> QED BY <2>3, <2>5, FadeKeepsFiles
<1>5. CASE SpawnStart(c)
  <2>1. \A d \in Clis : d = c
    BY DEF OneTerminal
  <2>2. \A t \in Sups : sv[t] \notin Boot
    BY <1>5, NobodyBoots DEF SpawnStart, At
  <2>3. PICK s \in Sups :
           /\ sv[s] = "dead" /\ sv' = [sv EXCEPT ![s] = "spawned"] /\ ready' = ready \ {s}
           /\ cli' = [cli EXCEPT ![c] = [@ EXCEPT !.pc = "wait", !.child = s]]
    BY <1>5 DEF SpawnStart
  <2>4. /\ sv'[s] = "spawned" /\ \A t \in Sups \ {s} : sv'[t] = sv[t]
        /\ fd' = fd /\ s \notin ready'
    BY <1>0, <1>5, <2>3 DEF TypeOK, SpawnStart
  <2>5. fs.state = None /\ fs'.state = None /\ fs'.lock = fs.lock
    BY <1>0, <1>5, DirFades DEF SpawnStart, BootIsFirst
  <2>6. ASSUME NEW r \in CliStates PROVE [r EXCEPT !.pc = "wait", !.child = s].child = s
    BY DEF CliStates
  <2>7. Goes(c, "wait") /\ cli'[c].child = s
    BY <1>0, <1>wait, <2>3, <2>6, CliGoes DEF TypeOK
  <2>8. BootIsAwaited'
    BY <2>1, <2>2, <2>4, <2>7 DEF BootIsAwaited, Goes, At
  <2>9. BootIsFirst' /\ StateIsHolder' /\ ReadIsCurrent'
    BY <2>1, <2>5, <2>7 DEF BootIsFirst, StateIsHolder, ReadIsCurrent, Goes, At
  <2>10. BootIsVisible'
    BY <1>0, <2>4, <2>5 DEF BootIsVisible
  <2> QED BY <2>8, <2>9, <2>10
<1>6. CASE SpawnFails(c) \/ SpawnReady(c) \/ SpawnDied(c)
  <2>1. Plain(c)
    <3>1. SpawnReady(c) => Goes(c, "post")
      BY <1>0, <1>pc, CliGoes DEF SpawnReady
    <3> QED BY <1>0, <1>pc, <1>6, <3>1, CliPlain DEF SpawnFails, SpawnReady, SpawnDied
  <2>2. \A t \in Sups : sv[t] \notin Boot
    BY <1>6, NobodyBoots DEF SpawnFails, SpawnReady, SpawnDied, At
  <2> QED BY <1>1, <1>6, <2>1, <2>2 DEF SpawnFails, SpawnReady, SpawnDied
<1>7. CASE SpawnTimeout(c)
  BY <1>7 DEF SpawnTimeout
<1>8. CASE Create(c) \/ NewTask(c) \/ TaskExists(c) \/ NewTaskFails(c)
  <2>1. Create(c) => Plain(c)
    BY <1>0, <1>pc, CliPlain, CliGoes DEF Create
  <2>2. NewTask(c) => Plain(c)
    BY <1>0, <1>pc, CliPlain, CliGoes DEF NewTask
  <2>3. TaskExists(c) \/ NewTaskFails(c) => Plain(c)
    BY <1>0, <1>pc, CliPlain DEF TaskExists, NewTaskFails
  <2> QED BY <1>1, <1>8, <2>1, <2>2, <2>3, NobodyBoots
          DEF Create, NewTask, TaskExists, NewTaskFails, At
<1>9. CASE StartTask(c) \/ StartTaskFails(c) \/ CommandEnds(c) \/ UndoEphemeral(c) \/ Forget(c)
  <2>1. Plain(c)
    BY <1>0, <1>pc, <1>9, CliPlain
       DEF StartTask, StartTaskFails, CommandEnds, UndoEphemeral, Forget
  <2> QED BY <1>1, <1>9, <2>1, NobodyBoots
          DEF StartTask, StartTaskFails, CommandEnds, UndoEphemeral, Forget, At
<1>10. CASE ReleaseStack(c) \/ Halt(c) \/ HaltRefused(c) \/ HaltFails(c) \/ StopDeadline(c)
  <2>1. Plain(c)
    BY <1>0, <1>pc, <1>10, CliPlain DEF ReleaseStack, Halt, HaltRefused, HaltFails, StopDeadline
  <2> QED BY <1>1, <1>10, <2>1, NobodyBoots
          DEF ReleaseStack, Halt, HaltRefused, HaltFails, StopDeadline, At
<1>11. CASE StopRemoveDir(c)
  <2>1. Plain(c)
    BY <1>0, <1>pc, <1>11, CliPlain DEF StopRemoveDir
  <2> QED BY <1>1, <1>11, <2>1, NobodyBoots DEF StopRemoveDir, At
<1>12. CASE StopKill(c)
  <2>1. Plain(c) /\ fs' = fs /\ Terminate(cli[c].pid) /\ ~At(c, "wait")
    BY <1>0, <1>pc, <1>12, CliPlain DEF StopKill, At
  <2>2. \A t \in Sups : sv[t] \notin Boot
    BY <2>1, NobodyBoots
  <2>3. UNCHANGED <<sv, fd, ready>>
    BY <2>1, <2>2 DEF Terminate, Boot
  <2>4. BootsFade
    BY <2>1, <2>3, QuietFades
  <2> QED BY <2>1, <2>2, <2>3, <2>4, PlainOwns
<1>13. CASE \E cmd \in Cmds : Type(c, cmd)
  <2>1. PICK cmd \in Cmds : Type(c, cmd)
    BY <1>13
  <2>2. cmd \in AllCmds
    BY ConstantsAssumption
  <2>3. FirstPc[cmd] \notin {"spawn", "wait"}
    BY <2>2 DEF FirstPc, AllCmds
  <2>4. [Idle EXCEPT !.cmd = cmd, !.pc = FirstPc[cmd]].pc = FirstPc[cmd]
        /\ [Idle EXCEPT !.cmd = cmd, !.pc = FirstPc[cmd]].pid = None
    BY DEF Idle
  <2>5. Plain(c)
    BY <1>0, <2>1, <2>3, <2>4 DEF Type, TypeOK, Plain
  <2> QED BY <1>1, <2>1, <2>5, NobodyBoots DEF Type, At
<1> QED BY <1>2, <1>3, <1>4, <1>5, <1>6, <1>7, <1>8, <1>9, <1>10, <1>11, <1>12, <1>13
        DEF CliStep

(* Where a command goes on from its look before a signal to the signal. *)
SignalsOwner == \A c \in Clis : At(c, "stop") /\ At(c, "kill")' => cli[c].pid = Owner

(* Only the test of the lock leads there. *)
LEMMA OnlyCheckKills ==
  ASSUME OwnInv, NEW c \in Clis, At(c, "stop"), At(c, "kill")',
         \/ CliStep(c) \/ CommandEnds(c) \/ (\E cmd \in Cmds : Type(c, cmd))
         \/ SpawnTimeout(c) \/ StopDeadline(c) \/ HaltFails(c)
  PROVE  CheckLock(c) /\ Hit(c)
<1>0. TypeOK
  BY DEF OwnInv, LockInv
<1>1. "stoprm" \in CliPcs /\ (Miss(c) => Move(c, "stoprm"))
  BY DEF CliPcs, Miss, At
<1>2. ~Miss(c)
  BY <1>0, <1>1, CliGoes DEF Goes, At
<1>3. ReadState(c) \/ CheckLock(c) \/ DropProbe(c)
  BY DEF CliStep, Prepare, FindExisting, EnsureClear, SpawnStart, SpawnFails, SpawnReady,
         SpawnDied, Create, NewTask, TaskExists, NewTaskFails, StartTask, StartTaskFails,
         UndoEphemeral, Forget, ReleaseStack, Halt, HaltRefused, StopKill, StopRemoveDir,
         CommandEnds, Type, SpawnTimeout, StopDeadline, HaltFails, At
<1>4. \A s : /\ cli' # [cli EXCEPT ![c] = [@ EXCEPT !.pid = s]]
             /\ cli' # [cli EXCEPT ![c] = [@ EXCEPT !.probe = s]]
  BY <1>0, CliGoes DEF Goes, At
<1>5. ~ReadState(c) /\ ~DropProbe(c)
  BY <1>2, <1>4 DEF ReadState, DropProbe
<1>6. CheckLock(c)
  BY <1>3, <1>5
<1> QED BY <1>2, <1>4, <1>6 DEF CheckLock

(* A lock that is held while a command tests it is the owner's, and the    *)
(* state file it has read is the owner's too.                              *)
LEMMA CheckFindsOwner ==
  ASSUME OneTerminal, OwnInv, NEW c \in Clis, At(c, "stop"), CheckLock(c), Hit(c), At(c, "kill")'
  PROVE  cli[c].pid = Owner
<1>0. TypeOK /\ FdOpen /\ Exclusive /\ ReadIsCurrent /\ StateIsHolder
  BY DEF OwnInv, LockInv
<1>1. cli[c].pid # None /\ cli[c].probe = None
  BY DEF CheckLock
<1>2. "stoprm" \in CliPcs /\ (Miss(c) => Move(c, "stoprm"))
  BY DEF CliPcs, Miss, At
<1>3. ~Miss(c)
  BY <1>0, <1>2, CliGoes DEF Goes, At
<1>4. cli' # [cli EXCEPT ![c] = [@ EXCEPT !.probe = fs.lock]]
  BY <1>0, CliGoes DEF Goes, At
<1>5. fs.lock # None /\ Flocked(fs.lock)
  BY <1>3, <1>4 DEF CheckLock
<1>6. PICK s \in Sups : Holds(s, fs.lock)
  BY <1>1, <1>5 DEF Flocked, OneTerminal
<1>7. cli[c].pid = fs.state
  BY <1>0, <1>1, <1>5 DEF ReadIsCurrent
<1>8. \A t \in Sups : Holds(t, fs.lock) => t = cli[c].pid
  BY <1>0, <1>1, <1>5, <1>7 DEF StateIsHolder
<1>9. Owner \in Sups /\ Holds(Owner, fs.lock)
  BY <1>6 DEF Owner
<1> QED BY <1>8, <1>9

(* The files agree before anything runs, and every step keeps that. *)
LEMMA OwnInit == Init => OwnInv
<1> SUFFICES ASSUME Init PROVE OwnInv
  OBVIOUS
<1>1. TypeOK
  BY TypeInit
<1>2. \A s \in Sups : sv[s] = "dead"
  BY DEF Init
<1>3. \A c \in Clis : cli[c].pc = "idle"
  BY DEF Init, Idle
<1> QED BY <1>1, <1>2, <1>3
        DEF OwnInv, LockInv, FdOpen, Exclusive, Holds, Holding, Boot, BootIsAwaited,
            BootIsFirst, BootIsVisible, StateIsHolder, ReadIsCurrent, At

(* Every step keeps the agreement of the files, where no spawn is given up. *)
LEMMA OwnStep ==
  ASSUME OneTerminal, "readyLimit" \notin Faults
  PROVE  OwnInv /\ [Next]_vars => OwnInv'
<1> SUFFICES ASSUME OwnInv, [Next]_vars PROVE OwnInv'
  OBVIOUS
<1>1. LockInv'
  BY LockInvStep DEF OwnInv
<1>2. CASE \E s \in Sups :
             \/ ServeStep(s) \/ SupCrash(s) \/ SupTerm(s) \/ ServeOpenFails(s)
             \/ WatchMisreads(s) \/ WatchFails(s)
  BY <1>1, <1>2, ServeOwns DEF OwnInv
<1>3. CASE \E c \in Clis :
             \/ CliStep(c) \/ CommandEnds(c) \/ (\E cmd \in Cmds : Type(c, cmd))
             \/ SpawnTimeout(c) \/ StopDeadline(c) \/ HaltFails(c)
  BY <1>1, <1>3, CliOwns DEF OwnInv
<1>4. CASE GuestExit \/ UNCHANGED vars
  <2>1. UNCHANGED <<fs, svVars, cli>>
    BY <1>4 DEF GuestExit, vars
  <2> QED BY <1>1, <2>1
          DEF OwnInv, svVars, BootIsAwaited, BootIsFirst, BootIsVisible, StateIsHolder,
              ReadIsCurrent, Holds, At
<1> QED BY <1>2, <1>3, <1>4 DEF Next, Fault

(* Stop signals the process that owns the lock, and no other, although it  *)
(* takes the PID from another file than the one it tests: however many     *)
(* processes there are, whatever crashes, ends, fails or closes late, and  *)
(* whatever was typed before, ephemeral runs included (enforce.Stop,       *)
(* Lookup, spawn).                                                         *)
THEOREM StopSignalsTheOwner ==
  ASSUME OneTerminal, "readyLimit" \notin Faults
  PROVE  Spec => StopNamesOwner
<1>1. OwnInv /\ [Next]_vars => [SignalsOwner]_vars
  <2> SUFFICES ASSUME OwnInv, [Next]_vars, NEW c \in Clis, At(c, "stop"), At(c, "kill")'
               PROVE  cli[c].pid = Owner
    BY DEF SignalsOwner
  <2>1. ASSUME cli' = cli PROVE FALSE
    BY <2>1 DEF At
  <2>2. CASE \E s \in Sups :
               \/ ServeStep(s) \/ SupCrash(s) \/ SupTerm(s) \/ ServeOpenFails(s)
               \/ WatchMisreads(s) \/ WatchFails(s)
    BY <2>1, <2>2, ServeSparesCert
  <2>3. CASE \E d \in Clis :
               \/ CliStep(d) \/ CommandEnds(d) \/ (\E cmd \in Cmds : Type(d, cmd))
               \/ SpawnTimeout(d) \/ StopDeadline(d) \/ HaltFails(d)
    <3>1. \A d \in Clis : d = c
      BY DEF OneTerminal
    <3> QED BY <2>3, <3>1, OnlyCheckKills, CheckFindsOwner
  <2>4. CASE GuestExit \/ UNCHANGED vars
    BY <2>1, <2>4 DEF GuestExit, vars
  <2> QED BY <2>2, <2>3, <2>4 DEF Next, Fault
<1>2. StopNamesOwner <=> [][SignalsOwner]_vars
  BY DEF StopNamesOwner, SignalsOwner
<1> QED BY OwnInit, OwnStep, <1>1, <1>2, PTL DEF Spec

----------------------------------------------------------------------------
(* A command that is about to stop the stack, or in the middle of it. *)
Ending(c) == cli[c].pc \in {"stop", "kill", "stopwait", "stoprm"}

(* A command that could not bring the sandbox up, or is done with it, is   *)
(* not at its stop yet.                                                    *)
LEMMA AfterRunLeads ==
  ASSUME TypeOK, NEW c \in Clis, AfterRun(c)
  PROVE  \/ Rests(c)
         \/ cli[c].cmd = "run" /\ Goes(c, "release")
         \/ cli[c].cmd = "runrm" /\ (Goes(c, "undo") \/ Goes(c, "forget"))
<1>1. {"undo", "forget", "release"} \subseteq CliPcs
  BY DEF CliPcs
<1> QED BY <1>1, CliGoes DEF AfterRun

----------------------------------------------------------------------------
(* A sandbox that runs keeps its stack.  That is false of the code where a *)
(* sandbox ends behind its stack's back, its task cannot be asked about,   *)
(* or a stack is taken away by hand: so no such fault, and no such command. *)
Undisturbed ==
  /\ OneTerminal
  /\ Cmds \cap {"runrm", "netstop"} = {}
  /\ Faults \subseteq {"openFails", "supCrash", "slowClose"}

(* The link socket goes with its directory ...                             *)
LinkInDir == ~fs.dir => fs.link = None

(* ... its owner is waited for until it serves, is signalled and sees its  *)
(* sandbox only then ...                                                   *)
StatedIsAwaited ==
  \A s \in Sups : sv[s] = "stated" =>
    s \notin ready /\ \E c \in Clis : At(c, "wait") /\ cli[c].child = s
OnlyServed == \A s \in sig \cup seen : sv[s] \in {"serving", "closing", "closed", "removed"}

(* ... and while it is about to close, a command is about to remove it.    *)
Leaving(s) ==
  sv[s] \in {"closing", "closed", "removed"} \/ s \in sig \/ (s \in seen /\ task = "none")
LeavingIsStopped == \A s \in Sups : fs.link = s /\ Leaving(s) => \E c \in Clis : Ending(c)

(* What a command does to a sandbox it does before it comes to the stack.  *)
Ordered(c) ==
  /\ cli[c].cmd # "runrm" /\ cli[c].pc # "undo"
  /\ Ending(c) => task = "none"
  /\ At(c, "start") => task = "created"

(* A VM that runs hangs on a stack that serves and was not told to end.    *)
Attached == \A s \in Sups : vm = s /\ task # "none" => sv[s] = "serving" /\ s \notin sig

KeepInv ==
  /\ LinkInDir /\ StatedIsAwaited /\ OnlyServed /\ LeavingIsStopped /\ Attached
  /\ \A c \in Clis : Ordered(c)

StackInv == OwnInv /\ KeepInv

(* While no command waits, no process has its state file and is not ready. *)
LEMMA NobodyBegins ==
  ASSUME OneTerminal, StackInv, NEW c \in Clis,
         \/ ~At(c, "wait")
         \/ cli[c].child \in ready
         \/ sv[cli[c].child] = "dead"
  PROVE  \A t \in Sups : sv[t] \notin Boot \cup {"stated"}
<1>1. \A t \in Sups : sv[t] \notin Boot
  BY NobodyBoots DEF StackInv
<1>2. \A t \in Sups : sv[t] # "stated"
  BY DEF OneTerminal, StackInv, KeepInv, StatedIsAwaited
<1> QED BY <1>1, <1>2

(* A step of one supervisor. *)
LEMMA StackMoves ==
  ASSUME OneTerminal, StackInv, NEW s \in Sups, NEW pc \in SvPcs, sv' = [sv EXCEPT ![s] = pc],
         UNCHANGED <<cli, task>>, ready' \subseteq ready \cup {s}, vm' \in {vm, None},
         sig' \subseteq sig, seen' \subseteq seen \cup {s},
         pc \notin {"serving", "closing", "closed", "removed"} => s \notin sig' \cup seen',
         pc = "stated" => sv[s] = "opened" /\ ready' = ready,
         ~fs'.dir => fs'.link = None,
         fs'.link \in {fs.link, None, Stale} \/ (fs'.link = s /\ sv[s] = "locked" /\ pc = "opened"),
         fs'.link = s /\ (pc \in {"closing", "closed", "removed"} \/ s \in seen' \ seen) =>
           fs.link = s /\ (Leaving(s) \/ (pc = "serving" /\ task # "none")),
         sv[s] = "serving" /\ pc # "serving" /\ vm' = s => task = "none" \/ s \in sig
  PROVE  KeepInv'
<1>0. TypeOK /\ KeepInv /\ BootIsAwaited
  BY DEF StackInv, OwnInv, LockInv
<1>1. sv'[s] = pc /\ \A t \in Sups \ {s} : sv'[t] = sv[t]
  BY <1>0 DEF TypeOK
<1>2. LinkInDir' /\ \A c \in Clis : Ordered(c)'
  BY <1>0 DEF LinkInDir, KeepInv, Ordered, Ending, At
<1>3. StatedIsAwaited'
  <2>1. ASSUME NEW t \in Sups, sv'[t] = "stated"
        PROVE  t \notin ready' /\ \E c \in Clis : At(c, "wait")' /\ cli'[c].child = t
    BY <1>0, <1>1, <2>1 DEF KeepInv, StatedIsAwaited, BootIsAwaited, Boot, At
  <2> QED BY <2>1 DEF StatedIsAwaited
<1>4. OnlyServed'
  BY <1>0, <1>1 DEF KeepInv, OnlyServed, TypeOK
<1>5. LeavingIsStopped'
  <2>1. ASSUME NEW t \in Sups, fs'.link = t, Leaving(t)', t # s
        PROVE  fs.link = t /\ Leaving(t)
    BY <1>0, <1>1, <2>1, ConstantsAssumption DEF Leaving
  <2>2. ASSUME fs'.link = s, Leaving(s)' PROVE fs.link = s /\ Leaving(s)
    BY <1>0, <1>1, <2>2, ConstantsAssumption DEF Leaving, KeepInv, OnlyServed
  <2>3. \A c \in Clis : Ending(c)' <=> Ending(c)
    BY DEF Ending
  <2> QED BY <1>0, <2>1, <2>2, <2>3 DEF KeepInv, LeavingIsStopped
<1>6. Attached'
  BY <1>0, <1>1, ConstantsAssumption DEF KeepInv, Attached
<1> QED BY <1>2, <1>3, <1>4, <1>5, <1>6 DEF KeepInv

(* What the supervisors do, with no fault but the three. *)
LEMMA ServeStacks ==
  ASSUME Undisturbed, StackInv, NEW s \in Sups,
         \/ ServeStep(s) \/ SupCrash(s) \/ SupTerm(s) \/ ServeOpenFails(s)
         \/ WatchMisreads(s) \/ WatchFails(s)
  PROVE  KeepInv'
<1>0. /\ OneTerminal /\ TypeOK /\ KeepInv /\ None \notin Sups /\ Stale \notin Sups /\ None # Stale
      /\ LinkInDir /\ OnlyServed
  BY ConstantsAssumption DEF Undisturbed, StackInv, OwnInv, LockInv, KeepInv
<1>f. /\ NoDir.link = None /\ MkdirAll(fs).link = fs.link /\ MkdirAll(fs).dir
      /\ [MkdirAll(fs) EXCEPT !.link = s].link = s /\ [MkdirAll(fs) EXCEPT !.link = s].dir
      /\ \A i \in Inodes : [fs EXCEPT !.lock = i].link = fs.link /\ [fs EXCEPT !.lock = i].dir = fs.dir
      /\ [fs EXCEPT !.state = s].link = fs.link /\ [fs EXCEPT !.state = s].dir = fs.dir
      /\ \A x : [fs EXCEPT !.link = x].link = x /\ [fs EXCEPT !.link = x].dir = fs.dir
  BY <1>0 DEF TypeOK, Dirs, NoDir, MkdirAll
<1>1. ASSUME Die(s), fs' \in {fs, NoDir, [fs EXCEPT !.link = IF fs.link = s THEN Stale ELSE @]},
             UNCHANGED <<ready, cli, task>>, fs'.link \notin Sups \/ fs' = fs \/ fs.link # s
      PROVE  KeepInv'
  <2>1. /\ "dead" \in SvPcs /\ sv' = [sv EXCEPT ![s] = "dead"] /\ vm' \in {vm, None} /\ vm' # s
        /\ sig' \subseteq sig /\ seen' \subseteq seen /\ s \notin sig' \cup seen'
    BY <1>0, <1>1 DEF Die, SvPcs
  <2>2. fs'.link \in {fs.link, None, Stale} /\ (~fs'.dir => fs'.link = None)
    <3>1. CASE fs' = fs \/ fs' = NoDir
      BY <1>0, <1>f, <3>1 DEF LinkInDir
    <3>2. CASE fs' = [fs EXCEPT !.link = IF fs.link = s THEN Stale ELSE @]
      <4>1. fs'.link = (IF fs.link = s THEN Stale ELSE fs.link) /\ fs'.dir = fs.dir
        BY <1>0, <3>2 DEF TypeOK, Dirs
      <4> QED BY <1>0, <4>1 DEF LinkInDir
    <3> QED BY <1>1, <3>1, <3>2
  <2>3. /\ "dead" \notin {"serving", "stated", "opened", "closing", "closed", "removed"}
        /\ s \notin seen' \ seen /\ seen' \subseteq seen \cup {s} /\ ready' \subseteq ready \cup {s}
    BY <1>1, <2>1
  <2>4. UNCHANGED <<cli, task>>
    BY <1>1
  <2> QED BY <1>0, <2>1, <2>2, <2>3, <2>4, StackMoves
<1>2. ASSUME NEW pc \in SvPcs, Goto(s, pc), UNCHANGED <<sig, cli, task>>,
             ready' \subseteq ready \cup {s}, vm' \in {vm, None}, seen' = seen,
             fs' \in {fs, NoDir},
             pc = "stated" => sv[s] = "opened" /\ ready' = ready,
             pc \in {"closing", "closed", "removed"} => Leaving(s) \/ ~fs.dir,
             pc \notin {"serving", "closing", "closed", "removed"} => s \notin sig \cup seen,
             sv[s] = "serving" /\ pc # "serving" => task = "none" \/ s \in sig
      PROVE  KeepInv'
  <2>1. fs'.link \in {fs.link, None, Stale} /\ (~fs'.dir => fs'.link = None)
    BY <1>0, <1>2, <1>f DEF LinkInDir
  <2>2. fs'.link = s => fs.link = s /\ fs.dir
    BY <1>0, <1>2, <1>f DEF LinkInDir
  <2>3. UNCHANGED <<cli, task>> /\ sv' = [sv EXCEPT ![s] = pc]
    BY <1>2 DEF Goto
  <2> QED BY <1>0, <1>2, <2>1, <2>2, <2>3, StackMoves
<1>pc. {"made", "lockfd", "locked", "opened", "stated", "serving", "closing", "closed", "removed"}
         \subseteq SvPcs
  BY DEF SvPcs
<1>3. sv[s] \in Boot \cup {"stated"} => s \notin sig \cup seen
  BY <1>0 DEF OnlyServed, Boot
<1>4. CASE ServeMkdir(s)
  <2>1. /\ fs'.link = fs.link /\ fs'.dir /\ s \notin sig \cup seen
        /\ sv' = [sv EXCEPT ![s] = "made"]
    BY <1>3, <1>4, <1>f DEF ServeMkdir, Goto, Boot
  <2> QED BY <1>0, <1>4, <1>pc, <2>1, StackMoves DEF ServeMkdir, tdVars
<1>5. CASE ServeOpenLock(s)
  <2>1. /\ fs'.link = fs.link /\ fs'.dir /\ s \notin sig \cup seen
        /\ sv' = [sv EXCEPT ![s] = "lockfd"]
    BY <1>3, <1>5, <1>f DEF ServeOpenLock, Goto, Boot
  <2> QED BY <1>0, <1>5, <1>pc, <2>1, StackMoves DEF ServeOpenLock, tdVars
<1>6. CASE ServeFlock(s)
  BY <1>2, <1>3, <1>6, <1>pc DEF ServeFlock, tdVars, Boot
<1>7. CASE ServeRefused(s) \/ ServeOpenFails(s)
  BY <1>0, <1>1, <1>7, <1>f DEF ServeRefused, ServeOpenFails
<1>8. CASE ServeOpen(s)
  <2>1. /\ fs'.link = s /\ fs'.dir /\ s \notin sig \cup seen /\ sv[s] = "locked"
        /\ sv' = [sv EXCEPT ![s] = "opened"]
    BY <1>3, <1>8, <1>f DEF ServeOpen, Goto, Boot
  <2> QED BY <1>0, <1>8, <1>pc, <2>1, StackMoves DEF ServeOpen, tdVars
<1>9. CASE ServeWriteState(s)
  <2>1. CASE fs.dir
    <3>1. /\ fs'.link = fs.link /\ fs'.dir /\ s \notin sig \cup seen /\ sv[s] = "opened"
          /\ sv' = [sv EXCEPT ![s] = "stated"]
      BY <1>3, <1>9, <1>f, <2>1 DEF ServeWriteState, Goto, Boot
    <3> QED BY <1>0, <1>9, <1>pc, <3>1, StackMoves DEF ServeWriteState, tdVars
  <2>2. CASE ~fs.dir
    BY <1>2, <1>9, <1>pc, <2>2 DEF ServeWriteState, tdVars
  <2> QED BY <2>1, <2>2
<1>10. CASE ServeReady(s)
  <2>1. sv[s] = "stated" /\ ready' \subseteq ready \cup {s}
    BY <1>10 DEF ServeReady
  <2>2. CASE fs.dir
    BY <1>2, <1>10, <1>pc, <2>1, <2>2 DEF ServeReady, tdVars
  <2>3. CASE ~fs.dir
    BY <1>2, <1>10, <1>pc, <2>1, <2>3 DEF ServeReady, tdVars
  <2> QED BY <2>2, <2>3
<1>11. CASE WatchSeesTask(s)
  <2>1. sv' = [sv EXCEPT ![s] = "serving"]
    BY <1>0, <1>11 DEF WatchSeesTask, TypeOK
  <2>2. fs'.link = fs.link /\ (~fs'.dir => fs'.link = None)
    BY <1>0, <1>11 DEF WatchSeesTask, LinkInDir
  <2> QED BY <1>0, <1>11, <1>pc, <2>1, <2>2, StackMoves DEF WatchSeesTask, tdVars
<1>12. CASE WatchSeesEnd(s)
  BY <1>2, <1>12, <1>pc DEF WatchSeesEnd, tdVars, Leaving
<1>13. CASE WatchExpires(s) \/ WatchMisreads(s) \/ WatchFails(s) \/ SupTerm(s)
  BY <1>13 DEF WatchExpires, WatchMisreads, WatchFails, SupTerm, Undisturbed
<1>14. CASE ServeSignalled(s)
  BY <1>2, <1>14, <1>pc DEF ServeSignalled, tdVars, Leaving
<1>15. CASE ServeClose(s)
  BY <1>2, <1>15, <1>pc DEF ServeClose, Leaving
<1>16. CASE ServeRemoveDir(s)
  BY <1>2, <1>16, <1>pc DEF ServeRemoveDir, tdVars, Leaving
<1>17. CASE ServeRelease(s)
  BY <1>1, <1>17 DEF ServeRelease
<1>18. CASE SupCrash(s)
  <2>1. fs'.link # s
    BY <1>0, <1>18, <1>f DEF SupCrash
  <2>2. fs'.link \notin Sups \/ fs' = fs \/ fs.link # s
    BY <1>0, <1>18, <1>f DEF SupCrash
  <2> QED BY <1>1, <1>18, <2>2 DEF SupCrash
<1> QED BY <1>4, <1>5, <1>6, <1>7, <1>8, <1>9, <1>10, <1>11, <1>12, <1>13, <1>14, <1>15, <1>16,
           <1>17, <1>18 DEF ServeStep

(* A step of the one command that leaves the processes alone. *)
LEMMA QuietStacks ==
  ASSUME OneTerminal, StackInv, NEW c \in Clis, UNCHANGED <<sv, ready, seen, sig, task, vm>>,
         fs' \in {fs, NoDir, MkdirAll(fs)},
         \A t \in Sups : sv[t] # "stated",
         Ending(c) => fs' = NoDir \/ Ending(c)',
         Ordered(c)'
  PROVE  KeepInv'
<1>0. TypeOK /\ KeepInv /\ \A d \in Clis : d = c
  BY DEF OneTerminal, StackInv, OwnInv, LockInv
<1>1. /\ NoDir.link = None /\ MkdirAll(fs).link = fs.link /\ MkdirAll(fs).dir
  BY <1>0 DEF TypeOK, Dirs, NoDir, MkdirAll
<1>2. LinkInDir' /\ StatedIsAwaited' /\ OnlyServed' /\ Attached'
  BY <1>0, <1>1 DEF KeepInv, LinkInDir, StatedIsAwaited, OnlyServed, Attached
<1>3. LeavingIsStopped'
  <2>1. \A t \in Sups : Leaving(t)' <=> Leaving(t)
    BY DEF Leaving
  <2> QED BY <1>0, <1>1, <2>1, ConstantsAssumption DEF KeepInv, LeavingIsStopped
<1> QED BY <1>0, <1>2, <1>3 DEF KeepInv

(* What the only command does. *)
LEMMA CliStacks ==
  ASSUME Undisturbed, StackInv, NEW c \in Clis,
         \/ CliStep(c) \/ CommandEnds(c) \/ (\E cmd \in Cmds : Type(c, cmd))
         \/ SpawnTimeout(c) \/ StopDeadline(c) \/ HaltFails(c)
  PROVE  KeepInv'
<1>pc. {"look", "spawn", "wait", "post", "task", "start", "attached", "stop", "stopwait",
        "stoprm", "forget", "kill"} \subseteq CliPcs
  BY DEF CliPcs, LookupPcs
<1>lk. {"create", "kill", "stopwait", "ens", "clear", "stoprm"} \subseteq CliPcs
  BY DEF CliPcs, LookupPcs
<1>0. /\ OneTerminal /\ TypeOK /\ KeepInv /\ Ordered(c) /\ None \notin Sups
      /\ \A d \in Clis : d = c
  BY ConstantsAssumption DEF Undisturbed, OneTerminal, StackInv, OwnInv, LockInv, KeepInv
<1>1. ASSUME UNCHANGED <<svVars, task, vm>>, fs' \in {fs, NoDir, MkdirAll(fs)},
             ~At(c, "wait") \/ cli[c].child \in ready \/ sv[cli[c].child] = "dead",
             Ending(c) => fs' = NoDir \/ Ending(c)', Ordered(c)'
      PROVE  KeepInv'
  BY <1>0, <1>1, NobodyBegins, QuietStacks DEF svVars
<1>2. CASE Prepare(c) \/ FindExisting(c) \/ EnsureClear(c) \/ SpawnReady(c)
           \/ SpawnFails(c) \/ SpawnDied(c)
  <2>1. \/ Rests(c)
        \/ \E pc \in {"look", "spawn", "post"} : Goes(c, pc)
    BY <1>0, <1>2, <1>pc, CliGoes DEF Prepare, FindExisting, EnsureClear, SpawnReady, SpawnFails,
       SpawnDied
  <2>2. Ordered(c)' /\ ~Ending(c)
    BY <1>0, <1>2, <2>1 DEF Ordered, Ending, At, Goes, Rests, Prepare, FindExisting, EnsureClear,
       SpawnReady, SpawnFails, SpawnDied
  <2> QED BY <1>1, <1>2, <2>2 DEF Prepare, FindExisting, EnsureClear, SpawnReady, SpawnFails,
                                  SpawnDied, tdVars, At
<1>3. CASE ReadState(c) \/ CheckLock(c) \/ DropProbe(c)
  <2>1. UNCHANGED <<fs, svVars, tdVars>> /\ cli[c].pc \in LookupPcs
    BY <1>3 DEF ReadState, CheckLock, DropProbe, Miss, LookupPcs, At
  <2>2. Hit(c) \/ Miss(c) \/ Goes(c, cli[c].pc)
    BY <1>0, <1>3, CliGoes DEF ReadState, CheckLock, DropProbe
  <2>3. Ordered(c)' /\ (Ending(c) => Ending(c)')
    <3>1. Miss(c) => \/ Rests(c) /\ cli[c].pc \in {"post", "list"}
                     \/ At(c, "look") /\ Goes(c, "ens")
                     \/ At(c, "ens") /\ Goes(c, "clear")
                     \/ cli[c].pc \in {"stop", "stopwait"} /\ Goes(c, "stoprm")
      BY <1>0, <1>lk, CliGoes DEF Miss, At
    <3>2. Hit(c) => \/ Rests(c) /\ At(c, "list")
                    \/ cli[c].pc \in {"look", "ens", "post"} /\ Goes(c, "create")
                    \/ At(c, "stop") /\ Goes(c, "kill")
                    \/ At(c, "stopwait") /\ Goes(c, "stopwait")
      BY <1>0, <1>lk, CliGoes DEF Hit, At
    <3> QED BY <1>0, <2>1, <2>2, <3>1, <3>2
            DEF Ordered, Ending, At, Goes, Rests, LookupPcs, tdVars
  <2> QED BY <1>1, <2>1, <2>3 DEF tdVars, LookupPcs, At
<1>4. CASE SpawnStart(c)
  <2>1. \A t \in Sups : sv[t] \notin Boot \cup {"stated"}
    BY <1>0, <1>4, NobodyBegins DEF SpawnStart, At
  <2>2. PICK s \in Sups :
           /\ sv[s] = "dead" /\ sv' = [sv EXCEPT ![s] = "spawned"] /\ ready' = ready \ {s}
           /\ cli' = [cli EXCEPT ![c] = [@ EXCEPT !.pc = "wait", !.child = s]]
    BY <1>4 DEF SpawnStart
  <2>3. sv'[s] = "spawned" /\ \A t \in Sups \ {s} : sv'[t] = sv[t]
    BY <1>0, <2>2 DEF TypeOK
  <2>4. Goes(c, "wait") /\ ~Ending(c)
    BY <1>0, <1>4, <1>pc, <2>2, CliGoes DEF SpawnStart, Ending, At
  <2>5. fs'.link = fs.link /\ fs'.dir /\ UNCHANGED <<seen, sig, task, vm>>
    BY <1>0, <1>4 DEF SpawnStart, TypeOK, Dirs, MkdirAll, tdVars
  <2>6. s \notin sig \cup seen /\ \A t \in Sups : sv'[t] # "stated"
    BY <1>0, <2>1, <2>2, <2>3 DEF KeepInv, OnlyServed
  <2>7. LinkInDir' /\ StatedIsAwaited' /\ OnlyServed' /\ Attached'
    BY <1>0, <2>2, <2>3, <2>5, <2>6 DEF KeepInv, LinkInDir, StatedIsAwaited, OnlyServed, Attached
  <2>8. LeavingIsStopped'
    <3>1. \A t \in Sups : Leaving(t)' => Leaving(t)
      BY <2>2, <2>3, <2>5, <2>6 DEF Leaving
    <3> QED BY <1>0, <2>4, <2>5, <3>1 DEF KeepInv, LeavingIsStopped
  <2>9. Ordered(c)'
    BY <1>0, <2>4 DEF Ordered, Ending, Goes, At
  <2> QED BY <1>0, <2>7, <2>8, <2>9 DEF KeepInv
<1>5. CASE SpawnTimeout(c) \/ HaltFails(c)
  BY <1>5 DEF SpawnTimeout, HaltFails, Undisturbed
<1>6. ASSUME AfterRun(c) PROVE Rests(c) \/ Goes(c, "release")
  BY <1>0, <1>6, AfterRunLeads DEF Ordered
<1>7. CASE Create(c) \/ TaskExists(c) \/ NewTaskFails(c)
  <2>1. \/ Rests(c) \/ Goes(c, "release") \/ Goes(c, "task") \/ Goes(c, "attached")
        \/ Goes(c, "start") /\ task = "created"
    BY <1>0, <1>6, <1>7, <1>pc, CliGoes DEF Create, TaskExists, NewTaskFails
  <2>2. UNCHANGED <<fs, svVars, task, vm>> /\ cli[c].pc \in {"create", "task"}
    BY <1>7 DEF Create, TaskExists, NewTaskFails, tdVars, At
  <2>3. Ordered(c)' /\ ~Ending(c)
    BY <1>0, <2>1, <2>2 DEF Ordered, Ending, At, Goes, Rests
  <2> QED BY <1>1, <2>2, <2>3 DEF At
<1>8. CASE NewTask(c)
  <2>1. fs.link \in Sups /\ sv[fs.link] \in Listening /\ task' = "created" /\ vm' = fs.link
        /\ UNCHANGED <<fs, svVars>> /\ At(c, "task")
    BY <1>8 DEF NewTask, LinkUp
  <2>2. Goes(c, "start")
    BY <1>0, <1>8, <1>pc, CliGoes DEF NewTask
  <2>3. ~Ending(c) /\ ~Leaving(fs.link)
    BY <1>0, <2>1 DEF KeepInv, LeavingIsStopped, Ending, At
  <2>4. sv[fs.link] \notin Boot \cup {"stated"}
    BY <1>0, <2>1, NobodyBegins DEF At
  <2>5. sv[fs.link] = "serving" /\ fs.link \notin sig
    BY <2>1, <2>3, <2>4 DEF Listening, Boot, Leaving
  <2>6. Attached' /\ LinkInDir' /\ OnlyServed'
    BY <1>0, <2>1, <2>5 DEF KeepInv, Attached, LinkInDir, OnlyServed, svVars
  <2>7. StatedIsAwaited'
    BY <1>0, <2>1, NobodyBegins DEF StatedIsAwaited, svVars, At
  <2>8. LeavingIsStopped'
    <3>1. \A t \in Sups : Leaving(t)' => Leaving(t)
      BY <2>1 DEF Leaving, svVars
    <3> QED BY <1>0, <2>1, <2>3, <3>1 DEF LeavingIsStopped
  <2>9. Ordered(c)'
    BY <1>0, <2>1, <2>2 DEF Ordered, Ending, Goes, At
  <2> QED BY <1>0, <2>6, <2>7, <2>8, <2>9 DEF KeepInv
<1>9. CASE StartTask(c)
  <2>1. task = "created" /\ task' = "running" /\ UNCHANGED <<fs, svVars, vm>> /\ At(c, "start")
    BY <1>9 DEF StartTask
  <2>2. Rests(c) \/ Goes(c, "attached")
    BY <1>0, <1>9, <1>pc, CliGoes DEF StartTask
  <2>3. Ordered(c)' /\ ~Ending(c)
    BY <1>0, <2>1, <2>2 DEF Ordered, Ending, At, Goes, Rests
  <2>4. Attached' /\ LinkInDir' /\ OnlyServed'
    BY <1>0, <2>1 DEF KeepInv, Attached, LinkInDir, OnlyServed, svVars
  <2>5. StatedIsAwaited'
    BY <1>0, <2>1, NobodyBegins DEF StatedIsAwaited, svVars, At
  <2>6. LeavingIsStopped'
    <3>1. \A t \in Sups : Leaving(t)' => Leaving(t)
      BY <2>1 DEF Leaving, svVars
    <3> QED BY <1>0, <2>1, <2>3, <3>1 DEF KeepInv, LeavingIsStopped
  <2> QED BY <1>0, <2>3, <2>4, <2>5, <2>6 DEF KeepInv
<1>10. CASE StartTaskFails(c)
  BY <1>0, <1>10 DEF StartTaskFails, Ordered, Undisturbed
<1>11. CASE CommandEnds(c)
  <2>1. UNCHANGED <<fs, svVars, task, vm>> /\ AfterRun(c) /\ At(c, "attached")
    BY <1>0, <1>11 DEF CommandEnds, Ordered
  <2>2. Ordered(c)' /\ ~Ending(c)
    BY <1>0, <1>6, <2>1 DEF Ordered, Ending, At, Goes, Rests
  <2> QED BY <1>1, <2>1, <2>2 DEF At
<1>12. CASE UndoEphemeral(c) \/ Forget(c) \/ ReleaseStack(c)
  <2>1. UNCHANGED <<fs, svVars, task, vm>> /\ cli[c].pc \in {"forget", "release"}
    BY <1>0, <1>12 DEF UndoEphemeral, Forget, ReleaseStack, Ordered, At, tdVars
  <2>2. Rests(c) \/ (Goes(c, "stop") /\ task = "none")
    BY <1>0, <1>12, <1>pc, <2>1, CliGoes DEF UndoEphemeral, Forget, ReleaseStack, Ordered, At
  <2>3. Ordered(c)' /\ ~Ending(c)
    BY <1>0, <2>1, <2>2 DEF Ordered, Ending, At, Goes, Rests
  <2> QED BY <1>1, <2>1, <2>3 DEF At
<1>13. CASE Halt(c)
  <2>1. task' = "none" /\ vm' = None /\ UNCHANGED <<fs, svVars>> /\ At(c, "halt")
    BY <1>13 DEF Halt, EndTask
  <2>2. Goes(c, "stop")
    BY <1>0, <1>13, <1>pc, CliGoes DEF Halt
  <2>3. Ordered(c)' /\ Ending(c)'
    BY <1>0, <2>1, <2>2 DEF Ordered, Ending, At, Goes
  <2>4. Attached' /\ LinkInDir' /\ OnlyServed'
    BY <1>0, <2>1 DEF KeepInv, Attached, LinkInDir, OnlyServed, svVars
  <2>5. StatedIsAwaited'
    BY <1>0, <2>1, NobodyBegins DEF StatedIsAwaited, svVars, At
  <2>6. LeavingIsStopped'
    BY <2>3 DEF LeavingIsStopped
  <2> QED BY <1>0, <2>3, <2>4, <2>5, <2>6 DEF KeepInv
<1>14. CASE HaltRefused(c)
  <2>1. Rests(c) /\ UNCHANGED <<fs, svVars, task, vm>> /\ At(c, "halt")
    BY <1>0, <1>14, CliGoes DEF HaltRefused, tdVars
  <2>2. Ordered(c)' /\ ~Ending(c)
    BY <1>0, <2>1 DEF Ordered, Ending, At, Rests
  <2> QED BY <1>1, <2>1, <2>2 DEF At
<1>15. CASE StopKill(c)
  <2>1. At(c, "kill") /\ Terminate(cli[c].pid) /\ fs' = fs
    BY <1>15 DEF StopKill
  <2>2. Goes(c, "stopwait") /\ task = "none"
    BY <1>0, <1>15, <1>pc, <2>1, CliGoes DEF StopKill, Ordered, Ending, At
  <2>3. \A t \in Sups : sv[t] \notin Boot \cup {"stated"}
    BY <1>0, <2>1, NobodyBegins DEF At
  <2>4. /\ UNCHANGED <<sv, seen, ready, task, vm>>
        /\ sig' \subseteq sig \cup {s \in Sups : sv[s] # "dead"}
    BY <1>0, <2>1, <2>3 DEF Terminate, Boot, tdVars
  <2>5. Ordered(c)' /\ Ending(c)'
    BY <1>0, <2>2, <2>4 DEF Ordered, Ending, At, Goes
  <2>6. OnlyServed'
    <3>1. \A t \in Sups : sv[t] # "dead" => sv[t] \in {"serving", "closing", "closed", "removed"}
      BY <1>0, <2>3 DEF TypeOK, SvPcs, Boot
    <3> QED BY <1>0, <2>4, <3>1 DEF KeepInv, OnlyServed
  <2>7. LinkInDir' /\ Attached' /\ StatedIsAwaited'
    BY <1>0, <2>1, <2>2, <2>3, <2>4 DEF KeepInv, LinkInDir, Attached, StatedIsAwaited
  <2>8. LeavingIsStopped'
    BY <2>5 DEF LeavingIsStopped
  <2> QED BY <1>0, <2>5, <2>6, <2>7, <2>8 DEF KeepInv
<1>16. CASE StopDeadline(c) \/ StopRemoveDir(c)
  <2>1. /\ UNCHANGED <<svVars, task, vm>> /\ fs' \in {fs, NoDir} /\ ~At(c, "wait")
        /\ \/ Goes(c, "stoprm")
           \/ fs' = NoDir /\ (Rests(c) \/ Goes(c, "forget"))
    BY <1>0, <1>16, <1>pc, CliGoes DEF StopDeadline, StopRemoveDir, tdVars, At
  <2>2. task = "none"
    BY <1>0, <1>16 DEF StopDeadline, StopRemoveDir, Ordered, Ending, At
  <2>3. Ordered(c)' /\ (fs' = NoDir \/ Ending(c)')
    BY <1>0, <2>1, <2>2 DEF Ordered, Ending, At, Goes, Rests
  <2> QED BY <1>1, <2>1, <2>3
<1>17. CASE \E cmd \in Cmds : Type(c, cmd)
  <2>1. PICK cmd \in Cmds : Type(c, cmd)
    BY <1>17
  <2>2. cmd \in AllCmds \ {"runrm", "netstop"}
    BY ConstantsAssumption DEF Undisturbed
  <2>3. [Idle EXCEPT !.cmd = cmd, !.pc = FirstPc[cmd]].cmd = cmd
        /\ [Idle EXCEPT !.cmd = cmd, !.pc = FirstPc[cmd]].pc = FirstPc[cmd]
    BY DEF Idle
  <2>4. cli'[c].cmd = cmd /\ cli'[c].pc = FirstPc[cmd] /\ UNCHANGED <<fs, svVars, task, vm>>
        /\ At(c, "idle")
    BY <1>0, <2>1, <2>3 DEF Type, TypeOK, tdVars
  <2>5. FirstPc[cmd] \in {"prepare", "find", "halt", "list"}
    BY <2>2 DEF FirstPc, AllCmds
  <2>6. Ordered(c)' /\ ~Ending(c)
    BY <2>2, <2>4, <2>5 DEF Ordered, Ending, At
  <2> QED BY <1>1, <2>4, <2>6 DEF At
<1> QED BY <1>2, <1>3, <1>4, <1>5, <1>7, <1>8, <1>9, <1>10, <1>11, <1>12, <1>13, <1>14, <1>15,
           <1>16, <1>17 DEF CliStep

(* No supervisor closes the stack under a sandbox that runs, however its   *)
(* predecessors crashed, failed to open or closed late, and whatever was   *)
(* typed before (Serve, WatchTask, releaseStack, enforce.Stop): for one    *)
(* user, where sandboxes end by commands, and containerd answers.          *)
THEOREM RunningSandboxKeepsStack ==
  ASSUME Undisturbed
  PROVE  Spec => RunningKeepsStack
<1>1. OneTerminal /\ "readyLimit" \notin Faults
  BY DEF Undisturbed
<1>2. Init => StackInv
  <2> SUFFICES ASSUME Init PROVE StackInv
    OBVIOUS
  <2>1. \A c \in Clis : cli[c].cmd = "ls" /\ cli[c].pc = "idle"
    BY DEF Init, Idle
  <2>2. \A s \in Sups : sv[s] = "dead" /\ fs.link # s /\ vm # s
    BY ConstantsAssumption DEF Init, NoDir
  <2>3. fs.link = None /\ sig = {} /\ seen = {}
    BY DEF Init, NoDir
  <2> QED BY <2>1, <2>2, <2>3, OwnInit
          DEF StackInv, KeepInv, LinkInDir, StatedIsAwaited, OnlyServed, LeavingIsStopped,
              Attached, Ordered, Ending, At
<1>3. StackInv /\ [Next]_vars => StackInv'
  <2> SUFFICES ASSUME StackInv, [Next]_vars PROVE KeepInv'
    BY <1>1, OwnStep DEF StackInv
  <2>1. CASE \E s \in Sups :
               \/ ServeStep(s) \/ SupCrash(s) \/ SupTerm(s) \/ ServeOpenFails(s)
               \/ WatchMisreads(s) \/ WatchFails(s)
    BY <2>1, ServeStacks
  <2>2. CASE \E c \in Clis :
               \/ CliStep(c) \/ CommandEnds(c) \/ (\E cmd \in Cmds : Type(c, cmd))
               \/ SpawnTimeout(c) \/ StopDeadline(c) \/ HaltFails(c)
    BY <2>2, CliStacks
  <2>3. CASE GuestExit
    BY <2>3 DEF GuestExit, Undisturbed
  <2>4. CASE UNCHANGED vars
    <3>1. UNCHANGED <<fs, sv, ready, seen, sig, cli, task, vm>>
      BY <2>4 DEF vars, svVars, tdVars
    <3>2. (\A s \in Sups : Leaving(s)' <=> Leaving(s)) /\ (\A c \in Clis : Ordered(c)' <=> Ordered(c))
          /\ \A c \in Clis : Ending(c)' <=> Ending(c)
      BY <3>1 DEF Leaving, Ordered, Ending, At
    <3> QED BY <3>1, <3>2 DEF StackInv, KeepInv, LinkInDir, StatedIsAwaited, OnlyServed,
            LeavingIsStopped, Attached, At
  <2> QED BY <2>1, <2>2, <2>3, <2>4 DEF Next, Fault
<1>4. StackInv => \A s \in Sups : sv[s] = "closing" => vm # s \/ task = "none"
  BY DEF StackInv, KeepInv, Attached
<1>5. (\A s \in Sups : sv[s] = "closing" => vm # s \/ task = "none")
        => [\A s \in Sups : sv[s] = "closing" /\ sv'[s] = "closed"
              => vm # s \/ task = "none"]_vars
  OBVIOUS
<1> QED BY <1>2, <1>3, <1>4, <1>5, PTL DEF Spec, RunningKeepsStack
============================================================================
