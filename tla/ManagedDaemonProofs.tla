------------------------- MODULE ManagedDaemonProofs -------------------------
(***************************************************************************)
(* Proofs about ManagedDaemon for any hosts, supervisors and terminals,    *)
(* and any number of faults.                                               *)
(***************************************************************************)
EXTENDS ManagedDaemon, SequenceTheorems, WellFoundedInduction, TLAPS

Holding == {"locked", "waiting", "write", "serving", "cleanup", "dying", "release"}
SupPcs == Holding \cup {"open"} \cup Ended
Orders == {<<>>} \cup {DiffOrder(h) : h \in Hosts}

SupType == [pc : SupPcs, sig : BOOLEAN, quit : BOOLEAN, ready : BOOLEAN, order : Orders]
CtdType == [st : {"none", "booting", "up", "gone"}, termed : BOOLEAN, deaf : BOOLEAN]

Typed ==
  /\ host \in Hosts
  /\ sup \in [Sups -> SupType] /\ ctd \in [Sups -> CtdType]
  /\ lock \in Sups \cup {None} /\ state \in Sups \cup {None}
  /\ lost \subseteq Sups

(* A supervisor that has not started its containerd, or has no process,    *)
(* has none.                                                               *)
NotYet == \A s \in Sups : sup[s].pc \in {"none", "open", "locked"} => ctd[s].st = "none"

(* The lock is held from before containerd is started ...                  *)
HeldWhileServing == \A s \in Sups : sup[s].pc \in Holding => lock = s \/ s \in lost

(* ... until it has gone, unless it escaped.                               *)
HeldWhileAlive == \A s \in Sups : Alive(s) => lock = s \/ s \in lost \/ Escaped(s)

(* The lock is let go only when containerd has gone or does not listen.    *)
GoneAtRelease == \A s \in Sups : sup[s].pc = "release" => ~Alive(s) \/ ctd[s].deaf

IInv == Typed /\ NotYet /\ HeldWhileServing /\ HeldWhileAlive /\ GoneAtRelease

----------------------------------------------------------------------------
(* The records of a supervisor, and of a containerd, that do not exist     *)
(* yet.                                                                    *)
LEMMA RecordsTyped == NoSup \in SupType /\ NoCtd \in CtdType /\ NoSup.pc = "none"
                      /\ NoCtd.st = "none" /\ ~NoCtd.deaf
BY DEF NoSup, NoCtd, SupType, CtdType, SupPcs, Ended, Orders

(* The invariant holds before any daemon runs. *)
LEMMA InitInv == Init => IInv
BY RecordsTyped DEF Init, IInv, Typed, NotYet, HeldWhileServing, HeldWhileAlive,
  GoneAtRelease, Alive, Holding

(* A step that changes what this invariant speaks of in no way.            *)
LEMMA Signalled ==
  ASSUME IInv, UNCHANGED <<host, lock, lost>>, state' \in Sups \cup {None},
         sup' \in [Sups -> SupType], ctd' \in [Sups -> CtdType],
         \A s \in Sups : sup'[s].pc = sup[s].pc /\ ctd'[s].st = ctd[s].st /\ ctd'[s].deaf = ctd[s].deaf
  PROVE  IInv'
BY DEF IInv, Typed, NotYet, HeldWhileServing, HeldWhileAlive, GoneAtRelease, Alive, Escaped

(* A step of one supervisor that keeps the lock it holds, or has no        *)
(* containerd that needs it.                                               *)
LEMMA OneMoves ==
  ASSUME IInv, NEW s \in Sups, UNCHANGED <<host, lost>>, state' \in Sups \cup {None},
         sup' \in [Sups -> SupType], ctd' \in [Sups -> CtdType],
         \A o \in Sups \ {s} : sup'[o] = sup[o] /\ ctd'[o] = ctd[o],
         lock' = lock \/ (lock = None /\ lock' = s) \/ (lock = s /\ lock' = None),
         sup'[s].pc \in {"none", "open", "locked"} => ctd'[s].st = "none",
         sup'[s].pc \in Holding => lock' = s \/ s \in lost,
         Alive(s)' => lock' = s \/ s \in lost \/ Escaped(s)',
         sup'[s].pc = "release" => ~Alive(s)' \/ ctd'[s].deaf
  PROVE  IInv'
<1>1. Typed'
  BY DEF IInv, Typed
<1>2. ASSUME NEW o \in Sups, o # s
      PROVE  /\ sup'[o] = sup[o] /\ ctd'[o] = ctd[o] /\ Alive(o)' = Alive(o)
             /\ Escaped(o)' = Escaped(o) /\ (lock = o => lock' = o)
  BY <1>2, DaemonAssumption DEF Alive, Escaped, IInv, Typed
<1>3. NotYet'
  BY <1>2 DEF IInv, NotYet
<1>4. HeldWhileServing'
  BY <1>2 DEF IInv, HeldWhileServing
<1>5. HeldWhileAlive'
  BY <1>2 DEF IInv, HeldWhileAlive
<1>6. GoneAtRelease'
  BY <1>2 DEF IInv, GoneAtRelease
<1> QED BY <1>1, <1>3, <1>4, <1>5, <1>6 DEF IInv
----------------------------------------------------------------------------
(* The supervisor's steps. *)
LEMMA GotoKeeps ==
  ASSUME IInv, NEW s \in Sups, NEW pc \in Holding, sup[s].pc \in Holding, Goto(s, pc),
         UNCHANGED <<host, ctd, lock, lost>>, state' \in Sups \cup {None},
         pc = "locked" => ctd[s].st = "none",
         pc = "release" => ~Alive(s) \/ ctd[s].deaf
  PROVE  IInv'
<1>1. /\ sup' \in [Sups -> SupType] /\ sup'[s].pc = pc
      /\ \A o \in Sups \ {s} : sup'[o] = sup[o]
  BY DEF Goto, IInv, Typed, SupType, SupPcs
<1>2. Alive(s)' => lock' = s \/ s \in lost \/ Escaped(s)'
  BY DEF IInv, HeldWhileServing, HeldWhileAlive
<1>3. Alive(s)' = Alive(s) /\ pc \notin {"none", "open"}
  BY DEF Alive, Holding
<1> QED BY <1>1, <1>2, <1>3, OneMoves DEF IInv, Typed, HeldWhileServing

(* A supervisor that opens the lock file, takes the lock, or gives up. *)
LEMMA ServeStartKeeps ==
  ASSUME IInv, NEW s \in Sups, ServeStart(s)
  PROVE  IInv'
<1>0. sup[s].pc = "locked" /\ ctd[s].st = "none" /\ UNCHANGED <<host, state, lost>>
  BY DEF ServeStart, IInv, NotYet
<1>1. CASE EndAs(s, "ended") /\ Release(s) /\ UNCHANGED ctd
  <2>1. /\ sup' \in [Sups -> SupType] /\ sup'[s].pc = "ended"
        /\ \A o \in Sups \ {s} : sup'[o] = sup[o]
    BY <1>1 DEF EndAs, IInv, Typed, SupType, SupPcs, Ended
  <2>2. lock' = lock \/ (lock = s /\ lock' = None)
    BY <1>1 DEF Release
  <2>3. ~Alive(s)' /\ sup'[s].pc \notin Holding \cup {"none", "open"}
    BY <1>0, <1>1, <2>1 DEF Alive, Holding
  <2> QED BY <1>0, <1>1, <2>1, <2>2, <2>3, OneMoves DEF IInv, Typed, Holding
<1>2. ASSUME NEW deaf \in BOOLEAN, UNCHANGED lock,
             sup' = [sup EXCEPT ![s].pc = "waiting", ![s].order = DiffOrder(host)],
             ctd' = [ctd EXCEPT ![s] = [NoCtd EXCEPT !.st = "booting", !.deaf = deaf]]
      PROVE  IInv'
  <2>1. DiffOrder(host) \in Orders
    BY DEF Orders, IInv, Typed
  <2>2. /\ sup' \in [Sups -> SupType] /\ sup'[s].pc = "waiting"
        /\ \A o \in Sups \ {s} : sup'[o] = sup[o]
    BY <1>2, <2>1 DEF IInv, Typed, SupType, SupPcs, Holding
  <2>3. [NoCtd EXCEPT !.st = "booting", !.deaf = deaf] \in CtdType
    BY DEF NoCtd, CtdType
  <2>4. ctd' \in [Sups -> CtdType] /\ \A o \in Sups \ {s} : ctd'[o] = ctd[o]
    BY <1>2, <2>3 DEF IInv, Typed
  <2>5. lock = s \/ s \in lost
    BY <1>0 DEF IInv, HeldWhileServing, Holding
  <2> QED BY <1>0, <1>2, <2>2, <2>4, <2>5, OneMoves DEF IInv, Typed
<1> QED BY <1>1, <1>2 DEF ServeStart

(* Every step of Serve. *)
LEMMA ServeKeeps ==
  ASSUME IInv, NEW s \in Sups, Serve(s)
  PROVE  IInv'
<1>1. CASE ServeOpen(s)
  <2>0. sup[s].pc = "open" /\ ctd[s].st = "none" /\ UNCHANGED <<host, ctd, state, lost>>
    BY <1>1 DEF ServeOpen, IInv, NotYet
  <2>1. CASE lock = None /\ Goto(s, "locked") /\ lock' = s
    <3>1. /\ sup' \in [Sups -> SupType] /\ sup'[s].pc = "locked"
          /\ \A o \in Sups \ {s} : sup'[o] = sup[o]
      BY <2>1 DEF Goto, IInv, Typed, SupType, SupPcs, Holding
    <3> QED BY <2>0, <2>1, <3>1, OneMoves DEF IInv, Typed
  <2>2. CASE EndAs(s, "ended") /\ UNCHANGED lock
    <3>1. /\ sup' \in [Sups -> SupType] /\ sup'[s].pc = "ended"
          /\ \A o \in Sups \ {s} : sup'[o] = sup[o]
      BY <2>2 DEF EndAs, IInv, Typed, SupType, SupPcs, Ended
    <3>2. ~Alive(s)' /\ "ended" \notin Holding
      BY <2>0 DEF Alive, Holding
    <3> QED BY <2>0, <2>2, <3>1, <3>2, OneMoves DEF IInv, Typed
  <2> QED BY <1>1, <2>1, <2>2 DEF ServeOpen
<1>2. CASE ServeStart(s)
  BY <1>2, ServeStartKeeps
<1>3. CASE WaitReady(s) \/ WriteState(s) \/ ServeEnd(s) \/ Dying(s)
  <2>1. CASE WaitReady(s)
    BY <2>1, GotoKeeps DEF WaitReady, Holding, IInv, Typed
  <2>2. CASE WriteState(s)
    <3>1. /\ sup[s].pc = "write" /\ sup[s].pc \in Holding /\ UNCHANGED <<host, ctd, lock, lost>>
          /\ state' \in Sups \cup {None}
      BY <2>2 DEF WriteState, Holding, IInv, Typed
    <3>2. CASE sup' = [sup EXCEPT ![s].pc = "serving", ![s].ready = TRUE]
      <4>1. /\ sup' \in [Sups -> SupType] /\ sup'[s].pc = "serving"
            /\ \A o \in Sups \ {s} : sup'[o] = sup[o]
        BY <3>2 DEF IInv, Typed, SupType, SupPcs, Holding
      <4>2. lock = s \/ s \in lost
        BY <3>1 DEF IInv, HeldWhileServing
      <4> QED BY <3>1, <4>1, <4>2, OneMoves DEF IInv, Typed
    <3>3. CASE Goto(s, "cleanup")
      BY <3>1, <3>3, GotoKeeps DEF Holding
    <3> QED BY <2>2, <3>2, <3>3 DEF WriteState
  <2>3. CASE ServeEnd(s)
    <3> DEFINE pc == IF Alive(s) THEN "cleanup" ELSE "release"
    <3>1. pc \in Holding /\ pc # "locked" /\ (pc = "release" => ~Alive(s))
      BY DEF Holding
    <3>2. sup[s].pc \in Holding /\ Goto(s, pc) /\ UNCHANGED <<host, ctd, lock, lost>> /\ state' = None
      BY <2>3 DEF ServeEnd, Holding
    <3> HIDE DEF pc
    <3> QED BY <3>1, <3>2, GotoKeeps
  <2>4. CASE Dying(s)
    BY <2>4, GotoKeeps DEF Dying, Holding, IInv, Typed
  <2> QED BY <1>3, <2>1, <2>2, <2>3, <2>4
<1>4. CASE Cleanup(s)
  <2>1. /\ sup' \in [Sups -> SupType] /\ sup'[s].pc = "dying"
        /\ \A o \in Sups \ {s} : sup'[o] = sup[o]
    BY <1>4 DEF Cleanup, Goto, IInv, Typed, SupType, SupPcs, Holding
  <2>2. Alive(s) \in BOOLEAN
    BY DEF Alive
  <2>3. /\ ctd' \in [Sups -> CtdType] /\ ctd'[s].st = ctd[s].st /\ ctd'[s].deaf = ctd[s].deaf
        /\ \A o \in Sups \ {s} : ctd'[o] = ctd[o]
    BY <1>4, <2>2 DEF Cleanup, TermCtd, IInv, Typed, CtdType
  <2>4. lock = s \/ s \in lost
    BY <1>4 DEF Cleanup, IInv, HeldWhileServing, Holding
  <2> QED BY <1>4, <2>1, <2>3, <2>4, OneMoves DEF Cleanup, IInv, Typed
<1>5. CASE ServeRelease(s)
  <2>1. /\ sup' \in [Sups -> SupType] /\ sup'[s].pc = "ended"
        /\ \A o \in Sups \ {s} : sup'[o] = sup[o]
    BY <1>5 DEF ServeRelease, EndAs, IInv, Typed, SupType, SupPcs, Ended
  <2>2. lock' = lock \/ (lock = s /\ lock' = None)
    BY <1>5 DEF ServeRelease, Release
  <2>3. Alive(s)' => Escaped(s)'
    BY <1>5 DEF ServeRelease, IInv, GoneAtRelease, Alive, Escaped
  <2>4. "ended" \notin Holding
    BY DEF Holding
  <2> QED BY <1>5, <2>1, <2>2, <2>3, <2>4, OneMoves DEF ServeRelease, IInv, Typed
<1> QED BY <1>1, <1>2, <1>3, <1>4, <1>5 DEF Serve

(* A supervisor is killed and reaped; its containerd answers and ends.     *)
LEMMA KillKeeps ==
  ASSUME IInv, NEW s \in Sups, Kill(s)
  PROVE  IInv'
<1>1. /\ sup' \in [Sups -> SupType] /\ sup'[s].pc = "killed"
      /\ \A o \in Sups \ {s} : sup'[o] = sup[o]
  BY DEF Kill, EndAs, IInv, Typed, SupType, SupPcs, Ended
<1>2. lock' = lock \/ (lock = s /\ lock' = None)
  BY DEF Kill, Release
<1>3. Escaped(s)' /\ "killed" \notin Holding
  BY <1>1 DEF Escaped, Holding
<1> QED BY <1>1, <1>2, <1>3, OneMoves DEF Kill, IInv, Typed

(* A zombie is reaped. *)
LEMMA ReapKeeps ==
  ASSUME IInv, NEW s \in Sups, Reap(s)
  PROVE  IInv'
<1>1. /\ sup' \in [Sups -> SupType] /\ sup'[s].pc = "none"
      /\ ctd' \in [Sups -> CtdType] /\ ctd'[s].st = "none"
      /\ \A o \in Sups \ {s} : sup'[o] = sup[o] /\ ctd'[o] = ctd[o]
  BY RecordsTyped DEF Reap, IInv, Typed
<1>2. ~Alive(s)' /\ "none" \notin Holding
  BY <1>1 DEF Alive, Holding
<1> QED BY <1>1, <1>2, OneMoves DEF Reap, IInv, Typed

(* containerd boots and exits. *)
LEMMA ContainerdKeeps ==
  ASSUME IInv, NEW s \in Sups, Boot(s) \/ Exit(s)
  PROVE  IInv'
<1>1. CASE Boot(s)
  <2>1. /\ ctd' \in [Sups -> CtdType] /\ ctd'[s].deaf = ctd[s].deaf /\ Alive(s)
        /\ \A o \in Sups \ {s} : ctd'[o] = ctd[o]
    BY <1>1 DEF Boot, Alive, IInv, Typed, CtdType
  <2>2. sup[s].pc \notin {"none", "open", "locked"}
    BY <1>1 DEF Boot, IInv, NotYet
  <2> QED BY <1>1, <2>1, <2>2, OneMoves
          DEF Boot, IInv, Typed, HeldWhileServing, HeldWhileAlive, GoneAtRelease, Escaped
<1>2. CASE Exit(s)
  <2>1. [NoCtd EXCEPT !.st = "gone"] \in CtdType /\ [NoCtd EXCEPT !.st = "gone"].st = "gone"
    BY DEF NoCtd, CtdType
  <2>2. /\ ctd' \in [Sups -> CtdType] /\ ctd'[s].st = "gone"
        /\ \A o \in Sups \ {s} : ctd'[o] = ctd[o]
    BY <1>2, <2>1 DEF Exit, IInv, Typed
  <2>3. ~Alive(s)' /\ sup[s].pc \notin {"none", "open", "locked"}
    BY <1>2, <2>2 DEF Exit, Alive, IInv, NotYet
  <2> QED BY <1>2, <2>2, <2>3, OneMoves DEF Exit, IInv, Typed, HeldWhileServing
<1> QED BY <1>1, <1>2
----------------------------------------------------------------------------
(* What a command does to the supervisors: it starts one, signals one, or  *)
(* takes the lock file away from whoever holds it.                         *)
LEMMA SpawnKeeps ==
  ASSUME IInv, NEW t \in Terms, Spawn(t)
  PROVE  IInv'
<1>1. ASSUME NEW s \in Sups, sup[s].pc = "none", ctd[s].st = "none",
             sup' = [sup EXCEPT ![s] = [NoSup EXCEPT !.pc = "open"]]
      PROVE  IInv'
  <2>1. [NoSup EXCEPT !.pc = "open"] \in SupType /\ [NoSup EXCEPT !.pc = "open"].pc = "open"
    BY DEF NoSup, SupType, SupPcs, Orders
  <2>2. /\ sup' \in [Sups -> SupType] /\ sup'[s].pc = "open"
        /\ \A o \in Sups \ {s} : sup'[o] = sup[o]
    BY <1>1, <2>1 DEF IInv, Typed
  <2>3. ~Alive(s)' /\ "open" \notin Holding /\ UNCHANGED <<host, ctd, lock, state, lost>>
    BY <1>1 DEF Spawn, Alive, Holding
  <2> QED BY <1>1, <2>2, <2>3, OneMoves DEF IInv, Typed
<1>2. CASE UNCHANGED sup
  BY <1>2, Signalled DEF Spawn, IInv, Typed
<1> QED BY <1>1, <1>2 DEF Spawn

(* A signal changes neither where a supervisor is nor whether its          *)
(* containerd runs.                                                        *)
LEMMA SignalTyped ==
  ASSUME IInv, NEW s
  PROVE  /\ TermSup(s) \in [Sups -> SupType] /\ TermCtd(s) \in [Sups -> CtdType]
         /\ \A o \in Sups : /\ TermSup(s)[o].pc = sup[o].pc
                            /\ TermCtd(s)[o].st = ctd[o].st /\ TermCtd(s)[o].deaf = ctd[o].deaf
<1>1. (sup[s].pc \notin Ended) \in BOOLEAN /\ Alive(s) \in BOOLEAN
  BY DEF Alive
<1>2. TermSup(s) \in [Sups -> SupType] /\ \A o \in Sups : TermSup(s)[o].pc = sup[o].pc
  BY <1>1 DEF TermSup, IInv, Typed, SupType
<1>3. /\ TermCtd(s) \in [Sups -> CtdType]
      /\ \A o \in Sups : TermCtd(s)[o].st = ctd[o].st /\ TermCtd(s)[o].deaf = ctd[o].deaf
  BY <1>1 DEF TermCtd, IInv, Typed, CtdType
<1> QED BY <1>2, <1>3

(* purge removes the directory, lock file and all. *)
LEMMA ApplyKeeps ==
  ASSUME IInv, NEW t \in Terms, Apply(t)
  PROVE  IInv'
<1>1. /\ UNCHANGED <<host, sup, ctd>> /\ lock' = None /\ state' = None
      /\ lost' = lost \cup {s \in Sups : lock = s \/ Alive(s)}
  BY DEF Apply
<1> QED BY <1>1 DEF IInv, Typed, NotYet, HeldWhileServing, HeldWhileAlive, GoneAtRelease, Alive, Escaped

(* Every step of a command. *)
LEMMA CommandKeeps ==
  ASSUME IInv, NEW t \in Terms, Command(t)
  PROVE  IInv'
<1>1. CASE StartLookup(t) \/ StartClean(t) \/ StopLast(t) \/ Inspect(t)
  BY <1>1, Signalled DEF StartLookup, StartClean, StopLast, Inspect, IInv, Typed
<1>2. CASE Spawn(t)
  BY <1>2, SpawnKeeps
<1>3. CASE Wait(t)
  <2> DEFINE s == cmd[t].s
             q == sup[s].pc \notin Ended
  <2>1. CASE UNCHANGED sup
    BY <1>3, <2>1, Signalled DEF Wait, IInv, Typed
  <2>2. CASE sup' = [TermSup(s) EXCEPT ![s].quit = q]
    <3>1. q \in BOOLEAN
      OBVIOUS
    <3> HIDE DEF q
    <3>2. TermSup(s) \in [Sups -> SupType] /\ \A o \in Sups : TermSup(s)[o].pc = sup[o].pc
      BY SignalTyped
    <3>3. sup' \in [Sups -> SupType] /\ \A o \in Sups : sup'[o].pc = sup[o].pc
      BY <2>2, <3>1, <3>2 DEF SupType
    <3> QED BY <1>3, <3>3, Signalled DEF Wait, IInv, Typed
  <2> QED BY <1>3, <2>1, <2>2 DEF Wait
<1>4. CASE StopSignal(t)
  BY <1>4, SignalTyped, Signalled DEF StopSignal, IInv, Typed
<1>5. CASE StopGrace(t)
  BY <1>5, SignalTyped, Signalled DEF StopGrace, IInv, Typed
<1>6. CASE Apply(t)
  BY <1>6, ApplyKeeps
<1> QED BY <1>1, <1>2, <1>3, <1>4, <1>5, <1>6 DEF Command

(* Every step keeps the invariant. *)
LEMMA InvStep == IInv /\ [Next]_vars => IInv'
<1> SUFFICES ASSUME IInv, [Next]_vars PROVE IInv'
  OBVIOUS
<1>1. ASSUME NEW t \in Terms, Command(t) PROVE IInv'
  BY <1>1, CommandKeeps
<1>2. ASSUME NEW t \in Terms, NEW op \in Ops, Type(t, op) PROVE IInv'
  BY <1>2, Signalled DEF Type, IInv, Typed
<1>3. ASSUME NEW s \in Sups, Serve(s) \/ Kill(s) \/ Reap(s) \/ Boot(s) \/ Exit(s) PROVE IInv'
  BY <1>3, ServeKeeps, KillKeeps, ReapKeeps, ContainerdKeeps
<1>4. CASE UNCHANGED vars
  BY <1>4, Signalled DEF vars, IInv, Typed
<1> QED BY <1>1, <1>2, <1>3, <1>4 DEF Next

(* The lock is held from before containerd is started until it has gone    *)
(* (Serve and its deferred calls).                                         *)
THEOREM LockOutlivesContainerd == Spec => []IInv
BY InitInv, InvStep, PTL DEF Spec

(* Two containerds never run on one root, unless one of them escaped its   *)
(* supervisor or a purge took the lock file away (proclock.Acquire).       *)
THEOREM OneDaemonRuns == Spec => []OneDaemon
<1>1. IInv => OneDaemon
  BY DaemonAssumption DEF IInv, HeldWhileAlive, OneDaemon
<1> QED BY <1>1, LockOutlivesContainerd, PTL
----------------------------------------------------------------------------
(* What a search through directories finds. *)
LEMMA LeastElement ==
  ASSUME NEW T, T \subseteq Nat, T # {}
  PROVE  \E x \in T : \A y \in T : x <= y
<1> DEFINE R == OpToRel(<, Nat)
<1>1. IsWellFoundedOn(R, Nat)
  BY NatLessThanWellFounded
<1>2. \A x, y \in Nat : x < y => <<x, y>> \in R
  BY DEF OpToRel
<1> HIDE DEF R
<1>3. \E x \in T : \A y \in T : <<y, x>> \notin R
  BY <1>1, WFMin
<1>4. \A x, y \in Nat : <<y, x>> \notin R => x <= y
  BY <1>2
<1> QED BY <1>3, <1>4

Hits(dirs, field) == {i \in 1 .. Len(dirs) : dirs[i][field] # 0}

(* First is the value of the first directory that has one, or 0.           *)
LEMMA FirstHit ==
  ASSUME NEW dirs \in Seq(DirType), NEW field
  PROVE  /\ Hits(dirs, field) = {} => First(dirs, field) = 0
         /\ Hits(dirs, field) # {} =>
              \E i \in Hits(dirs, field) : /\ First(dirs, field) = dirs[i][field]
                                           /\ \A j \in Hits(dirs, field) : i <= j
<1>1. {i \in DOMAIN dirs : dirs[i][field] # 0} = Hits(dirs, field)
  BY DEF Hits
<1>2. CASE Hits(dirs, field) = {}
  BY <1>1, <1>2 DEF First
<1>3. CASE Hits(dirs, field) # {}
  <2> DEFINE hits == Hits(dirs, field)
             i == CHOOSE n \in hits : \A j \in hits : n <= j
  <2>1. hits \subseteq Nat
    BY DEF Hits
  <2>2. \E n \in hits : \A j \in hits : n <= j
    BY <1>3, <2>1, LeastElement
  <2>3. i \in hits /\ \A j \in hits : i <= j
    BY <2>2
  <2>4. First(dirs, field) = dirs[i][field]
    BY <1>1, <1>3 DEF First
  <2> QED BY <1>3, <2>3, <2>4
<1> QED BY <1>2, <1>3

(* A search of two lists goes on to the second where the first has none.   *)
LEMMA FirstOfBoth ==
  ASSUME NEW a \in Seq(DirType), NEW b \in Seq(DirType), NEW field
  PROVE  First(a \o b, field) =
           IF First(a, field) # 0 THEN First(a, field) ELSE First(b, field)
<1> DEFINE c == a \o b
<1>1. /\ c \in Seq(DirType) /\ Len(c) = Len(a) + Len(b)
      /\ \A i \in 1 .. Len(a) + Len(b) : c[i] = IF i <= Len(a) THEN a[i] ELSE b[i - Len(a)]
  BY ConcatProperties
<1>2. Len(a) \in Nat /\ Len(b) \in Nat
  OBVIOUS
<1> HIDE DEF c
<1>3. \A i \in Hits(a, field) : i \in Hits(c, field) /\ c[i] = a[i]
  BY <1>1, <1>2 DEF Hits
<1>4. ASSUME NEW i \in Hits(b, field)
      PROVE  i + Len(a) \in Hits(c, field) /\ c[i + Len(a)] = b[i]
  <2> DEFINE j == i + Len(a)
  <2>1. i \in 1 .. Len(b) /\ b[i][field] # 0
    BY DEF Hits
  <2>2. j \in 1 .. Len(a) + Len(b) /\ ~(j <= Len(a)) /\ j - Len(a) = i
    BY <1>2, <2>1
  <2> HIDE DEF j
  <2>3. c[j] = b[i]
    BY <1>1, <2>2
  <2>4. j \in Hits(c, field) /\ c[j] = b[i]
    BY <1>1, <2>1, <2>2, <2>3 DEF Hits
  <2> QED BY <2>4 DEF j
<1>5. ASSUME NEW i \in Hits(c, field)
      PROVE  \/ i \in Hits(a, field) /\ c[i] = a[i]
             \/ i - Len(a) \in Hits(b, field) /\ c[i] = b[i - Len(a)] /\ i > Len(a)
  <2>1. i \in 1 .. Len(a) + Len(b) /\ c[i][field] # 0
    BY <1>1 DEF Hits
  <2>2. CASE i <= Len(a)
    <3>1. i \in 1 .. Len(a) /\ c[i] = a[i]
      BY <1>1, <1>2, <2>1, <2>2
    <3> QED BY <2>1, <3>1 DEF Hits
  <2>3. CASE i > Len(a)
    <3>1. i - Len(a) \in 1 .. Len(b) /\ c[i] = b[i - Len(a)]
      BY <1>1, <1>2, <2>1, <2>3
    <3> QED BY <2>1, <2>3, <3>1 DEF Hits
  <2> QED BY <1>2, <2>1, <2>2, <2>3
<1>6. /\ Hits(a, field) \subseteq 1 .. Len(a) /\ Hits(b, field) \subseteq Nat
      /\ Hits(c, field) \subseteq Nat
      /\ \A i \in Hits(a, field) : a[i][field] # 0
  BY DEF Hits
<1>7. CASE Hits(a, field) # {}
  <2>1. PICK i \in Hits(a, field) : First(a, field) = a[i][field]
                                    /\ \A j \in Hits(a, field) : i <= j
    BY <1>7, FirstHit
  <2>2. Hits(c, field) # {}
    BY <1>3, <1>7
  <2>3. PICK k \in Hits(c, field) : First(c, field) = c[k][field]
                                    /\ \A j \in Hits(c, field) : k <= j
    BY <1>1, <2>2, FirstHit
  <2>4. k <= i
    BY <1>3, <2>3
  <2>5. k \in Hits(a, field) /\ c[k] = a[k]
    BY <1>2, <1>5, <1>6, <2>1, <2>3, <2>4
  <2>6. k = i
    BY <1>6, <2>1, <2>4, <2>5
  <2> QED BY <1>6, <2>1, <2>3, <2>5, <2>6 DEF c
<1>8. CASE Hits(a, field) = {} /\ Hits(b, field) # {}
  <2>1. PICK i \in Hits(b, field) : First(b, field) = b[i][field]
                                    /\ \A j \in Hits(b, field) : i <= j
    BY <1>8, FirstHit
  <2>2. Hits(c, field) # {}
    BY <1>4, <1>8
  <2>3. PICK k \in Hits(c, field) : First(c, field) = c[k][field]
                                    /\ \A j \in Hits(c, field) : k <= j
    BY <1>1, <2>2, FirstHit
  <2>4. k <= i + Len(a)
    BY <1>4, <2>3
  <2>5. k - Len(a) \in Hits(b, field) /\ c[k] = b[k - Len(a)]
    BY <1>5, <1>8, <2>3
  <2>6. i <= k - Len(a)
    BY <2>1, <2>5
  <2>7. k - Len(a) = i
    <3>1. k \in Nat /\ i \in Nat /\ Len(a) \in Nat
      BY <2>1, <2>3 DEF Hits
    <3> QED BY <2>4, <2>6, <3>1
  <2>8. First(a, field) = 0
    BY <1>8, FirstHit
  <2> QED BY <2>1, <2>3, <2>5, <2>7, <2>8 DEF c
<1>9. CASE Hits(a, field) = {} /\ Hits(b, field) = {}
  <2>1. Hits(c, field) = {}
    BY <1>5, <1>9
  <2> QED BY <1>1, <1>9, <2>1, FirstHit DEF c
<1> QED BY <1>7, <1>8, <1>9

(* To search some directories twice finds what searching them once does. *)
LEMMA FirstOfThree ==
  ASSUME NEW a \in Seq(DirType), NEW b \in Seq(DirType), NEW k \in Seq(DirType), NEW field
  PROVE  First(a \o ((a \o b) \o k), field) = First((a \o b) \o k, field)
<1> DEFINE both == a \o b
           all == both \o k
<1>1. both \in Seq(DirType)
  BY ConcatProperties
<1>2. First(both, field) = IF First(a, field) # 0 THEN First(a, field) ELSE First(b, field)
  BY FirstOfBoth
<1> HIDE DEF both
<1>3. all \in Seq(DirType)
  BY <1>1, ConcatProperties
<1>4. First(all, field) = IF First(both, field) # 0 THEN First(both, field) ELSE First(k, field)
  BY <1>1, FirstOfBoth
<1> HIDE DEF all
<1>5. First(a \o all, field) = IF First(a, field) # 0 THEN First(a, field) ELSE First(all, field)
  BY <1>3, FirstOfBoth
<1>6. First(a \o all, field) = First(all, field)
  BY <1>2, <1>4, <1>5
<1> QED BY <1>6 DEF both, all

(* What is found first in a list of directories is a version, 0 for none. *)
LEMMA FirstTyped ==
  ASSUME NEW dirs \in Seq(DirType), NEW field \in {"ctd", "shim"}
  PROVE  First(dirs, field) \in Nat
<1>1. \A i \in Hits(dirs, field) : dirs[i] \in DirType
  BY DEF Hits
<1>2. \A d \in DirType : d[field] \in Nat
  BY DEF DirType
<1> QED BY <1>1, <1>2, FirstHit
----------------------------------------------------------------------------
(* What a command knows while it is under way. *)
CmdType == [pc : {"idle", "lookup", "clean", "spawn", "wait", "stop", "grace", "last",
                  "inspect", "apply"},
            op : Ops \cup {"start"}, s : Sups \cup {None}, res : {"none", "ready", "stopped"},
            notes : SUBSET (Tools \cup {"runtime skew"})]

(* A result is there only at the end; who is waited for is known.          *)
Sensible(c) ==
  /\ c.pc # "idle" => c.res = "none"
  /\ c.pc \in {"wait", "grace", "last"} => c.s \in Sups

Commanded == cmd \in [Terms -> CmdType] /\ \A t \in Terms : Sensible(cmd[t])

(* The record of a terminal where nothing runs. *)
LEMMA NoCmdTyped == NoCmd \in CmdType /\ NoCmd.pc = "idle" /\ NoCmd.res = "none"
BY DEF NoCmd, CmdType

(* Preflight notes missing tools and a skew, nothing else. *)
LEMMA NotesTyped == Preflight(host) \in SUBSET (Tools \cup {"runtime skew"})
BY DEF Preflight, Tools

(* A command that ends leaves its outcome and nothing else. *)
LEMMA FinishedCmd ==
  ASSUME Commanded, NEW t \in Terms, NEW res, Finished(t, res)
  PROVE  /\ Commanded' /\ cmd'[t].pc = "idle"
         /\ cmd'[t].res = IF res \in {"ready", "stopped"} THEN res ELSE "none"
         /\ \A u \in Terms \ {t} : cmd'[u] = cmd[u]
<1> DEFINE r == IF res \in {"ready", "stopped"} THEN res ELSE "none"
           x == NoCmd
<1>1. r \in {"none", "ready", "stopped"} /\ x \in CmdType /\ x.pc = "idle"
  BY NoCmdTyped
<1>2. cmd' = [cmd EXCEPT ![t] = [x EXCEPT !.res = r]]
  BY DEF Finished
<1> HIDE DEF r, x
<1>3. [x EXCEPT !.res = r] \in CmdType /\ [x EXCEPT !.res = r].pc = "idle" /\ [x EXCEPT !.res = r].res = r
  BY <1>1 DEF CmdType
<1>4. /\ cmd' \in [Terms -> CmdType] /\ cmd'[t].pc = "idle" /\ cmd'[t].res = r
      /\ \A u \in Terms \ {t} : cmd'[u] = cmd[u]
  BY <1>2, <1>3 DEF Commanded
<1> QED BY <1>4 DEF Commanded, Sensible, r

(* The program counter alone, or with the supervisor, moves on.            *)
LEMMA CmdGoes ==
  ASSUME Commanded, NEW t \in Terms, NEW x \in CmdType, cmd' = [cmd EXCEPT ![t] = x],
         Sensible(x)
  PROVE  Commanded' /\ cmd'[t] = x /\ \A u \in Terms \ {t} : cmd'[u] = cmd[u]
BY DEF Commanded

(* A command that is typed starts at one of its first steps. *)
LEMMA TypeCommands ==
  ASSUME Commanded, NEW t \in Terms, NEW op \in Ops, Type(t, op)
  PROVE  /\ Commanded' /\ cmd'[t].pc \in {"idle", "lookup", "spawn", "stop", "inspect"}
         /\ \A u \in Terms \ {t} : cmd'[u] = cmd[u]
<1> DEFINE c == [NoCmd EXCEPT !.op = op]
           x == CASE op = "run" /\ (Running \/ Serving) -> c
                  [] op \in {"start", "run"} -> [c EXCEPT !.pc = "lookup"]
                  [] op = "serve" -> [c EXCEPT !.pc = "spawn"]
                  [] op = "stop" -> [c EXCEPT !.pc = "stop"]
                  [] OTHER -> [c EXCEPT !.pc = "inspect"]
<1>1. cmd' = [cmd EXCEPT ![t] = x]
  BY DEF Type
<1>2. c \in CmdType /\ c.res = "none" /\ c.pc = "idle"
  BY DEF CmdType, NoCmd
<1> HIDE DEF c
<1>3. x = c \/ \E pc \in {"lookup", "spawn", "stop", "inspect"} : x = [c EXCEPT !.pc = pc]
  OBVIOUS
<1> HIDE DEF x
<1>4. x \in CmdType /\ x.res = "none"
  BY <1>2, <1>3 DEF CmdType
<1>5. Sensible(x) /\ x.pc \in {"idle", "lookup", "spawn", "stop", "inspect"}
  BY <1>2, <1>3, <1>4 DEF CmdType, Sensible
<1> QED BY <1>1, <1>4, <1>5, CmdGoes

(* A step of a command keeps the commands as they should be; one that      *)
(* reports a daemon ready has seen it ready and looked at the host.        *)
LEMMA CommandCommands ==
  ASSUME IInv, Commanded, NEW t \in Terms, Command(t)
  PROVE  /\ Commanded' /\ \A u \in Terms \ {t} : cmd'[u] = cmd[u]
         /\ cmd'[t].res = "ready" /\ cmd[t].pc = "wait" =>
              sup[cmd[t].s].ready /\ cmd'[t].notes = Preflight(host)
<1>0. cmd[t] \in CmdType /\ cmd \in [Terms -> CmdType]
  BY DEF Commanded
<1>1. CASE \E res \in {"ok", "failed", "refused", "stopped"} : Finished(t, res)
  BY <1>1, FinishedCmd
<1>2. ASSUME NEW pc \in {"clean", "spawn", "last"}, cmd' = [cmd EXCEPT ![t].pc = pc],
             cmd[t].pc # "idle", pc = "last" => cmd[t].pc = "grace"
      PROVE  Commanded' /\ cmd'[t].res = "none" /\ \A u \in Terms \ {t} : cmd'[u] = cmd[u]
  BY <1>0, <1>2 DEF Commanded, Sensible, CmdType
<1>3. CASE StartLookup(t) \/ StartClean(t) \/ StopLast(t) \/ Apply(t) \/ StopGrace(t)
  BY <1>1, <1>2, <1>3 DEF StartLookup, StartClean, StopLast, Apply, StopGrace
<1>4. CASE Spawn(t)
  <2>1. ASSUME NEW s \in Sups, cmd[t].pc = "spawn",
               cmd' = [cmd EXCEPT ![t] = IF @.op = "serve" THEN NoCmd
                                         ELSE [@ EXCEPT !.pc = "wait", !.s = s]]
        PROVE  Commanded' /\ cmd'[t].res = "none" /\ \A u \in Terms \ {t} : cmd'[u] = cmd[u]
    <3>1. [cmd[t] EXCEPT !.pc = "wait", !.s = s] \in CmdType
          /\ [cmd[t] EXCEPT !.pc = "wait", !.s = s].res = "none"
      BY <1>0, <2>1 DEF Commanded, Sensible, CmdType
    <3>2. CASE cmd[t].op = "serve"
      BY <2>1, <3>2, CmdGoes, NoCmdTyped DEF Commanded, Sensible
    <3>3. CASE cmd[t].op # "serve"
      BY <2>1, <3>1, <3>3, CmdGoes DEF Commanded, Sensible
    <3> QED BY <3>2, <3>3
  <2> QED BY <1>1, <1>4, <2>1 DEF Spawn
<1>5. CASE Wait(t)
  <2>1. ASSUME cmd' = [cmd EXCEPT ![t] = [NoCmd EXCEPT !.res = "ready", !.notes = Preflight(host)]]
        PROVE  /\ Commanded' /\ cmd'[t].notes = Preflight(host)
               /\ \A u \in Terms \ {t} : cmd'[u] = cmd[u]
    <3> DEFINE n == Preflight(host)
               y == [NoCmd EXCEPT !.res = "ready", !.notes = n]
    <3>1. n \in SUBSET (Tools \cup {"runtime skew"})
      BY NotesTyped
    <3> HIDE DEF n
    <3>2. y \in CmdType /\ y.pc = "idle" /\ y.notes = n
      BY <3>1 DEF CmdType, NoCmd
    <3>3. cmd' = [cmd EXCEPT ![t] = y]
      BY <2>1 DEF n
    <3> HIDE DEF y
    <3> QED BY <3>2, <3>3, CmdGoes DEF Sensible, n
  <2> QED BY <1>1, <1>5, <2>1 DEF Wait
<1>6. CASE StopSignal(t)
  <2>1. ASSUME cmd[t].pc = "stop", state # None, cmd' = [cmd EXCEPT ![t].pc = "grace", ![t].s = state]
        PROVE  Commanded' /\ cmd'[t].res = "none" /\ \A u \in Terms \ {t} : cmd'[u] = cmd[u]
    BY <1>0, <2>1 DEF Commanded, Sensible, CmdType, IInv, Typed
  <2> QED BY <1>1, <1>6, <2>1 DEF StopSignal, Lookup
<1>7. CASE Inspect(t)
  <2>1. ASSUME cmd[t].pc = "inspect", cmd' = [cmd EXCEPT ![t].pc = "apply"]
        PROVE  Commanded' /\ cmd'[t].res = "none" /\ \A u \in Terms \ {t} : cmd'[u] = cmd[u]
    BY <1>0, <2>1 DEF Commanded, Sensible, CmdType
  <2> QED BY <1>1, <1>7, <2>1 DEF Inspect
<1> QED BY <1>3, <1>4, <1>5, <1>6, <1>7 DEF Command
----------------------------------------------------------------------------
(* A supervisor that started its containerd did so with the order this     *)
(* host allows, and it found a containerd.                                 *)
Configured ==
  \A s \in Sups : sup[s].pc \in {"waiting", "write"} \/ sup[s].ready =>
    sup[s].order = DiffOrder(host) /\ FindContainerd(host) # 0

RInv == IInv /\ Commanded /\ Configured

(* The invariant about readiness holds before any daemon runs. *)
LEMMA InitReady == Init => RInv
<1> SUFFICES ASSUME Init PROVE RInv
  OBVIOUS
<1>1. Commanded
  BY NoCmdTyped DEF Init, Commanded, Sensible
<1>2. Configured
  BY DEF Init, Configured, NoSup
<1> QED BY <1>1, <1>2, InitInv DEF RInv

(* A daemon keeps the configuration that it was found with. *)
LEMMA ConfiguredKept ==
  ASSUME RInv, [Next]_vars
  PROVE  Configured'
<1>1. host' = host
  BY DEF Next, Command, StartLookup, StartClean, Spawn, Wait, StopSignal, StopGrace, StopLast,
         Inspect, Apply, Type, Serve, ServeOpen, ServeStart, WaitReady, WriteState, ServeEnd,
         Cleanup, Dying, ServeRelease, Kill, Reap, Boot, Exit, vars
<1>2. ASSUME \A s \in Sups : \/ /\ sup'[s].ready = sup[s].ready /\ sup'[s].order = sup[s].order
                                /\ sup'[s].pc \in {"waiting", "write"} =>
                                     sup[s].pc \in {"waiting", "write"}
                             \/ sup'[s].pc \notin {"waiting", "write"} /\ ~sup'[s].ready
                             \/ sup'[s].order = DiffOrder(host) /\ FindContainerd(host) # 0
      PROVE  Configured'
  BY <1>1, <1>2 DEF RInv, Configured
<1>3. sup \in [Sups -> SupType] /\ UNCHANGED host
  BY <1>1 DEF RInv, IInv, Typed
<1>4. CASE UNCHANGED sup
  BY <1>2, <1>4
<1>5. ASSUME NEW s \in Sups, NEW pc \in {"locked", "release", "cleanup", "dying"}, Goto(s, pc)
      PROVE  Configured'
  BY <1>2, <1>3, <1>5 DEF Goto, SupType
<1>6. ASSUME NEW s \in Sups, NEW pc \in Ended, EndAs(s, pc) PROVE Configured'
  BY <1>2, <1>3, <1>6 DEF EndAs, SupType, Ended
<1>7. ASSUME NEW t \in Terms, Command(t) PROVE Configured'
  <2>1. CASE Spawn(t)
    <3>1. ASSUME NEW s \in Sups, sup' = [sup EXCEPT ![s] = [NoSup EXCEPT !.pc = "open"]]
          PROVE  Configured'
      <4>1. [NoSup EXCEPT !.pc = "open"].pc = "open" /\ ~[NoSup EXCEPT !.pc = "open"].ready
        BY DEF NoSup
      <4> QED BY <1>2, <1>3, <3>1, <4>1
    <3> QED BY <1>4, <2>1, <3>1 DEF Spawn
  <2>2. ASSUME NEW s, sup' = TermSup(s) PROVE Configured'
    BY <1>2, <1>3, <2>2 DEF TermSup, SupType
  <2>3. ASSUME NEW s, sup' = [TermSup(s) EXCEPT ![s].quit = sup[s].pc \notin Ended]
        PROVE  Configured'
    BY <1>2, <1>3, <2>3 DEF TermSup, SupType
  <2> QED BY <1>4, <1>7, <2>1, <2>2, <2>3
          DEF Command, StartLookup, StartClean, Wait, StopSignal, StopGrace, StopLast, Inspect, Apply
<1>8. ASSUME NEW s \in Sups, Serve(s) PROVE Configured'
  <2>1. CASE ServeOpen(s) \/ Cleanup(s) \/ Dying(s) \/ ServeRelease(s)
    BY <1>5, <1>6, <2>1 DEF ServeOpen, Cleanup, Dying, ServeRelease, Ended
  <2>2. CASE ServeStart(s)
    <3>1. CASE FindContainerd(host) # 0
               /\ sup' = [sup EXCEPT ![s].pc = "waiting", ![s].order = DiffOrder(host)]
      BY <1>2, <1>3, <3>1 DEF SupType
    <3> QED BY <1>6, <2>2, <3>1 DEF ServeStart, Ended
  <2>3. CASE WaitReady(s)
    <3>1. CASE Goto(s, "write")
      BY <1>2, <1>3, <2>3, <3>1 DEF WaitReady, Goto, SupType
    <3> QED BY <1>5, <2>3, <3>1 DEF WaitReady
  <2>4. CASE WriteState(s)
    <3>1. sup[s].order = DiffOrder(host) /\ FindContainerd(host) # 0
      BY <2>4 DEF WriteState, RInv, Configured
    <3>2. CASE sup' = [sup EXCEPT ![s].pc = "serving", ![s].ready = TRUE]
      BY <1>2, <1>3, <3>1, <3>2 DEF SupType
    <3> QED BY <1>5, <2>4, <3>2 DEF WriteState
  <2>5. CASE ServeEnd(s)
    <3> DEFINE pc == IF Alive(s) THEN "cleanup" ELSE "release"
    <3>1. pc \in {"cleanup", "release"} /\ Goto(s, pc)
      BY <2>5 DEF ServeEnd
    <3> HIDE DEF pc
    <3> QED BY <1>5, <3>1
  <2> QED BY <1>8, <2>1, <2>2, <2>3, <2>4, <2>5 DEF Serve
<1>9. ASSUME NEW s \in Sups, Reap(s) PROVE Configured'
  <2>1. sup' = [sup EXCEPT ![s] = NoSup] /\ NoSup.pc = "none" /\ ~NoSup.ready
    BY <1>9 DEF Reap, NoSup
  <2> QED BY <1>2, <1>3, <2>1
<1> QED BY <1>4, <1>6, <1>7, <1>8, <1>9 DEF Next, Kill, Ended, Boot, Exit, Type, vars

(* Commands stay as they should be, whoever takes the step. *)
LEMMA CommandedKept ==
  ASSUME IInv, Commanded, [Next]_vars
  PROVE  Commanded'
<1>1. CASE UNCHANGED cmd
  BY <1>1 DEF Commanded
<1> QED BY <1>1, CommandCommands, TypeCommands
        DEF Next, Serve, ServeOpen, ServeStart, WaitReady, WriteState, ServeEnd,
            Cleanup, Dying, ServeRelease, Kill, Reap, Boot, Exit, vars

(* A start has nothing to remark only where a containerd that was found    *)
(* can start sandboxes, given a shim.                                      *)
LEMMA NothingToRemark ==
  ASSUME host \in Hosts, FindContainerd(host) # 0, Preflight(host) = {}
  PROVE  RunsSandboxes(host, DiffOrder(host)) \/ ~HasShim(host)
<1> DEFINE h == host
           keg == IF h.goos = "darwin" THEN h.keg ELSE <<>>
           both == h.bundle \o h.path
<1>1. h \in HostType
  BY DaemonAssumption
<1>2. /\ h.bundle \in Seq(DirType) /\ h.path \in Seq(DirType) /\ keg \in Seq(DirType)
      /\ h.goos \in {"linux", "darwin", "windows"}
  BY <1>1 DEF HostType
<1>3. ContainerdSearches(h) = both \o keg /\ DaemonPath(h) = both \o keg
  BY DEF ContainerdSearches, DaemonPath, RuntimeDirs, KegDirs
<1>4. \A tool : Installed(h, tool) <=> LookPath(h, tool)
  BY <1>3 DEF Installed, LookPath
<1>5. /\ LookPath(h, "mkfs.erofs") /\ (h.goos # "linux" => LookPath(h, "mkfs.ext4"))
      /\ ~CheckSkew(FindContainerd(h), FindShim(h))
  BY DEF Preflight, BlockWritableLayer
<1> HIDE DEF h, keg
<1>6. both \in Seq(DirType) /\ both \o keg \in Seq(DirType)
  BY <1>2, ConcatProperties
<1>7. FindContainerd(h) = First(both, "ctd")
  BY <1>2, FirstOfBoth DEF FindContainerd, RuntimeDirs
<1>8. FindShim(h) = First(both \o keg, "shim")
  BY <1>2, <1>3, FirstOfThree DEF FindShim, RuntimeDirs
<1>9. First(both \o keg, "shim") <= First(both, "ctd")
  <2>1. First(both \o keg, "shim") \in Nat /\ First(both, "ctd") \in Nat
    BY <1>6, FirstTyped
  <2> QED BY <1>5, <1>7, <1>8, <2>1 DEF CheckSkew, h
<1>10. DiffOrder(h)[1] = "erofs"
  <2>1. CASE h.goos = "windows"
    <3>1. DiffOrder(h) = <<"erofs">> \o <<"windows", "windows-lcow">>
      BY <1>5, <2>1 DEF DiffOrder
    <3> QED BY <3>1
  <2>2. CASE h.goos # "windows"
    <3>1. DiffOrder(h) = <<"erofs">> \o <<"walking">>
      BY <1>5, <2>2 DEF DiffOrder
    <3> QED BY <3>1
  <2> QED BY <2>1, <2>2
<1>11. HasShim(h) => RunsSandboxes(h, DiffOrder(h))
  BY <1>3, <1>4, <1>5, <1>9, <1>10 DEF RunsSandboxes, HasShim
<1> QED BY <1>11 DEF h

(* Every step keeps the invariant about readiness, and reports only        *)
(* daemons that can run a sandbox, or a note of what they lack.            *)
LEMMA ReadyStep == RInv /\ [Next]_vars => RInv' /\ [ReadyRuns]_vars
<1> SUFFICES ASSUME RInv, [Next]_vars PROVE RInv' /\ [ReadyRuns]_vars
  OBVIOUS
<1>1. RInv'
  BY InvStep, CommandedKept, ConfiguredKept DEF RInv
<1>2. ASSUME NEW t \in Terms, Next, cmd[t].pc = "wait", cmd'[t].res = "ready", cmd'[t].notes = {}
      PROVE  RunsSandboxes(host, sup[cmd[t].s].order) \/ ~HasShim(host)
  <2>1. cmd[t].res = "none" /\ cmd[t].s \in Sups /\ host \in Hosts
    BY <1>2 DEF RInv, Commanded, Sensible, IInv, Typed
  <2>2. CASE Command(t)
    <3>1. sup[cmd[t].s].ready /\ Preflight(host) = {}
      BY <1>2, <2>2, CommandCommands DEF RInv
    <3>2. sup[cmd[t].s].order = DiffOrder(host) /\ FindContainerd(host) # 0
      BY <2>1, <3>1 DEF RInv, Configured
    <3> QED BY <2>1, <3>1, <3>2, NothingToRemark
  <2>3. CASE cmd'[t] = cmd[t]
    BY <1>2, <2>1, <2>3
  <2>4. CASE \E op \in Ops : Type(t, op)
    BY <1>2, <2>4 DEF Type
  <2>5. ASSUME NEW u \in Terms \ {t}, Command(u) \/ \E op \in Ops : Type(u, op)
        PROVE  cmd'[t] = cmd[t]
    BY <2>5, CommandCommands, TypeCommands DEF RInv
  <2> QED BY <1>2, <2>2, <2>3, <2>4, <2>5
          DEF Next, Serve, ServeOpen, ServeStart, WaitReady, WriteState, ServeEnd,
              Cleanup, Dying, ServeRelease, Kill, Reap, Boot, Exit
<1> QED BY <1>1, <1>2 DEF ReadyRuns

(* A start that says "ready" and remarks nothing has brought up a daemon   *)
(* that can start sandboxes on this host, given a shim, whatever else is   *)
(* installed where                                                         *)
(* (Preflight, diffOrder, daemonPath, FindContainerd and FindShim).        *)
THEOREM ReadyMeansReady == Spec => ReadyOrNoted
BY InitReady, ReadyStep, PTL DEF Spec, ReadyOrNoted
----------------------------------------------------------------------------
(* One terminal: who stops a daemon is not disturbed by who starts one.    *)
OneTerminal == \A t, u \in Terms : t = u

Early == {"open", "locked", "waiting", "write"}

(* A containerd that nothing but a stop is to end. *)
Unharmed(s) == Alive(s) /\ ~Escaped(s) /\ ~sup[s].quit /\ lost = {}

(* The record names one that is ready, and a signal that no interrupted    *)
(* start sent is the last one of a stop.                                   *)
Recorded ==
  /\ \A s \in Sups : sup[s].ready => sup[s].pc \notin Early \cup {"none"}
  /\ state # None => sup[state].ready
  /\ \A s \in Sups : sup[s].sig /\ ~sup[s].quit =>
       sup[s].pc \notin {"open", "locked"} /\ ~Unharmed(s)

(* A stop waits for the one that the record names, while it lives.         *)
Stopping ==
  \A t \in Terms : cmd[t].pc \in {"grace", "last"} =>
    sup[cmd[t].s].ready /\ (Unharmed(cmd[t].s) => state = cmd[t].s)

(* One that lives and is not harmed has the lock, and nobody else works.   *)
LEMMA UnharmedHolds ==
  ASSUME IInv, NEW s \in Sups, Unharmed(s)
  PROVE  lock = s /\ lock # None /\ \A o \in Sups : sup[o].pc \in Holding => o = s
BY DaemonAssumption DEF IInv, HeldWhileAlive, HeldWhileServing, Unharmed

(* A step of one supervisor. *)
LEMMA RecordMoves ==
  ASSUME IInv, Commanded, Recorded, Stopping, NEW s \in Sups, UNCHANGED <<cmd, lost>>,
         \A o \in Sups \ {s} : sup'[o] = sup[o] /\ ctd'[o] = ctd[o],
         state' \in {state, s, None}, state' # state => sup[s].pc \in Holding,
         sup'[s].ready => sup'[s].pc \notin Early \cup {"none"},
         state' = s => sup'[s].ready,
         sup'[s].sig /\ ~sup'[s].quit => /\ sup[s].sig /\ ~sup[s].quit
                                         /\ sup'[s].pc \notin {"open", "locked"},
         Unharmed(s)' => (Unharmed(s) \/ sup[s].pc = "locked") /\ (state = s => state' = s),
         \/ sup[s].ready => sup'[s].ready
         \/ state # s /\ \A t \in Terms : cmd[t].s # s
  PROVE  Recorded' /\ Stopping'
<1>1. ASSUME NEW o \in Sups \ {s}
      PROVE  /\ sup'[o] = sup[o] /\ (Unharmed(o)' <=> Unharmed(o))
             /\ Unharmed(o) => state' = state
  <2>1. sup'[o] = sup[o] /\ (Unharmed(o)' <=> Unharmed(o))
    BY <1>1 DEF Unharmed, Alive, Escaped
  <2> QED BY <2>1, UnharmedHolds
<1>2. Recorded'
  <2>1. \A o \in Sups : sup'[o].ready => sup'[o].pc \notin Early \cup {"none"}
    BY <1>1 DEF Recorded
  <2>2. state' # None => sup'[state'].ready
    BY <1>1 DEF Recorded, IInv, Typed
  <2>3. ASSUME NEW o \in Sups, sup'[o].sig, ~sup'[o].quit
        PROVE  sup'[o].pc \notin {"open", "locked"} /\ ~Unharmed(o)'
    BY <1>1, <2>3 DEF Recorded
  <2> QED BY <2>1, <2>2, <2>3 DEF Recorded
<1>3. ASSUME NEW t \in Terms, cmd[t].pc \in {"grace", "last"}
      PROVE  sup'[cmd[t].s].ready /\ (Unharmed(cmd[t].s)' => state' = cmd[t].s)
  <2>1. cmd[t].s \in Sups
    BY <1>3 DEF Commanded, Sensible
  <2>2. sup[cmd[t].s].ready /\ (Unharmed(cmd[t].s) => state = cmd[t].s)
    BY <1>3 DEF Stopping
  <2>3. CASE cmd[t].s = s
    BY <2>2, <2>3 DEF Recorded, Early
  <2>4. CASE cmd[t].s # s
    BY <1>1, <2>1, <2>2, <2>4
  <2> QED BY <2>3, <2>4
<1>4. Stopping'
  BY <1>3 DEF Stopping
<1> QED BY <1>2, <1>4

(* A supervisor that goes on: what state files and commands know of it     *)
(* stays true.                                                             *)
LEMMA GotoRecords ==
  ASSUME IInv, Commanded, Recorded, Stopping, NEW s \in Sups,
         NEW pc \in {"locked", "write", "cleanup", "dying", "release"}, Goto(s, pc),
         sup[s].pc \in Holding \cup {"open"}, UNCHANGED <<cmd, lost>>,
         ctd' = ctd \/ ctd' = TermCtd(s),
         state' = state \/ (state' = None /\ sup[s].pc \in Holding /\ (state = s => ~Unharmed(s))),
         pc = "locked" => sup[s].pc = "open", pc = "write" => sup[s].pc = "waiting"
  PROVE  Recorded' /\ Stopping'
<1>1. /\ sup'[s].pc = pc /\ sup'[s].sig = sup[s].sig /\ sup'[s].quit = sup[s].quit
      /\ sup'[s].ready = sup[s].ready /\ \A o \in Sups \ {s} : sup'[o] = sup[o]
  BY DEF Goto, IInv, Typed, SupType
<1>2. /\ ctd'[s].st = ctd[s].st /\ ctd'[s].deaf = ctd[s].deaf
      /\ \A o \in Sups \ {s} : ctd'[o] = ctd[o]
  BY DEF TermCtd, IInv, Typed, CtdType
<1>3. Unharmed(s)' => Unharmed(s)
  BY <1>1, <1>2 DEF Unharmed, Alive, Escaped, Holding
<1>4. sup'[s].ready => pc \notin Early \cup {"none"}
  BY <1>1 DEF Recorded, Early
<1>5. state' = s => sup'[s].ready
  BY <1>1, DaemonAssumption DEF Recorded
<1>6. Unharmed(s)' => (state = s => state' = s)
  BY <1>3
<1>7. sup'[s].sig /\ ~sup'[s].quit => /\ sup[s].sig /\ ~sup[s].quit
                                      /\ sup'[s].pc \notin {"open", "locked"}
  BY <1>1 DEF Recorded
<1>8. state' \in {state, s, None} /\ (state' # state => sup[s].pc \in Holding)
  OBVIOUS
<1> QED BY <1>1, <1>2, <1>3, <1>4, <1>5, <1>6, <1>7, <1>8, RecordMoves

(* A supervisor that ends, or is killed. *)
LEMMA EndAsRecords ==
  ASSUME IInv, Commanded, Recorded, Stopping, NEW s \in Sups, NEW pc \in {"ended", "killed"},
         EndAs(s, pc), UNCHANGED <<cmd, lost, ctd, state>>,
         Alive(s) => pc = "killed" \/ ctd[s].deaf
  PROVE  Recorded' /\ Stopping'
<1>1. /\ sup'[s].pc = pc /\ ~sup'[s].sig /\ sup'[s].ready = sup[s].ready
      /\ \A o \in Sups \ {s} : sup'[o] = sup[o]
  BY DEF EndAs, IInv, Typed, SupType
<1>2. ~Unharmed(s)'
  BY <1>1 DEF Unharmed, Alive, Escaped
<1>3. state' = s => sup'[s].ready
  BY <1>1, DaemonAssumption DEF Recorded
<1>4. pc \notin Early \cup {"none"}
  BY DEF Early
<1> QED BY <1>1, <1>2, <1>3, <1>4, RecordMoves

(* Every step of Serve. *)
LEMMA ServeRecords ==
  ASSUME IInv, Commanded, Recorded, Stopping, NEW s \in Sups, Serve(s)
  PROVE  Recorded' /\ Stopping'
<1>1. CASE ServeOpen(s)
  <2>1. sup[s].pc = "open" /\ ~Alive(s) /\ UNCHANGED <<cmd, lost, ctd, state>>
    BY <1>1 DEF ServeOpen, IInv, NotYet, Alive
  <2> QED BY <1>1, <2>1, GotoRecords, EndAsRecords DEF ServeOpen
<1>2. CASE ServeStart(s)
  <2>1. sup[s].pc = "locked" /\ ~Alive(s) /\ UNCHANGED <<cmd, lost, state>>
    BY <1>2 DEF ServeStart, IInv, NotYet, Alive
  <2>2. CASE EndAs(s, "ended") /\ UNCHANGED ctd
    BY <2>1, <2>2, EndAsRecords
  <2>3. ASSUME NEW deaf \in BOOLEAN,
               sup' = [sup EXCEPT ![s].pc = "waiting", ![s].order = DiffOrder(host)],
               ctd' = [ctd EXCEPT ![s] = [NoCtd EXCEPT !.st = "booting", !.deaf = deaf]]
        PROVE  Recorded' /\ Stopping'
    <3>1. /\ sup'[s].pc = "waiting" /\ sup'[s].sig = sup[s].sig /\ sup'[s].quit = sup[s].quit
          /\ sup'[s].ready = sup[s].ready
          /\ \A o \in Sups \ {s} : sup'[o] = sup[o] /\ ctd'[o] = ctd[o]
      BY <2>3 DEF IInv, Typed, SupType
    <3>2. ~sup'[s].ready /\ state # s
      BY <2>1, <3>1, DaemonAssumption DEF Recorded, Early
    <3>3. ~(sup'[s].sig /\ ~sup'[s].quit)
      BY <2>1, <3>1 DEF Recorded
    <3> QED BY <2>1, <3>1, <3>2, <3>3, RecordMoves
  <2> QED BY <1>2, <2>2, <2>3 DEF ServeStart
<1>3. CASE WaitReady(s)
  BY <1>3, GotoRecords DEF WaitReady, Holding
<1>4. CASE /\ WriteState(s) /\ state' = s
           /\ sup' = [sup EXCEPT ![s].pc = "serving", ![s].ready = TRUE]
  <2>1. /\ sup'[s].pc = "serving" /\ sup'[s].sig = sup[s].sig /\ sup'[s].quit = sup[s].quit
        /\ sup'[s].ready /\ \A o \in Sups \ {s} : sup'[o] = sup[o]
    BY <1>4 DEF WriteState, IInv, Typed, SupType
  <2>2. Unharmed(s)' => Unharmed(s)
    BY <1>4, <2>1 DEF WriteState, Unharmed, Alive, Escaped
  <2>3. sup[s].pc \in Holding /\ "serving" \notin Early \cup {"none", "open", "locked"}
    BY <1>4 DEF WriteState, Holding, Early
  <2>4. state' = s /\ UNCHANGED <<cmd, lost, ctd>>
    BY <1>4 DEF WriteState
  <2> QED BY <2>1, <2>2, <2>3, <2>4, RecordMoves
<1>5. CASE ServeEnd(s)
  <2> DEFINE pc == IF Alive(s) THEN "cleanup" ELSE "release"
  <2>1. pc \in {"cleanup", "release"} /\ Goto(s, pc) /\ state' = None /\ UNCHANGED <<cmd, lost, ctd>>
        /\ sup[s].pc \in Holding
    BY <1>5 DEF ServeEnd, Holding
  <2>2. ~Unharmed(s)
    BY <1>5 DEF ServeEnd, Recorded, Unharmed
  <2> HIDE DEF pc
  <2> QED BY <2>1, <2>2, GotoRecords
<1>6. CASE Cleanup(s) \/ Dying(s)
  BY <1>6, GotoRecords DEF Cleanup, Dying, Holding
<1>7. CASE ServeRelease(s)
  <2>1. Alive(s) => ctd[s].deaf
    BY <1>7 DEF ServeRelease, IInv, GoneAtRelease
  <2> QED BY <1>7, <2>1, EndAsRecords DEF ServeRelease
<1>8. CASE WriteState(s) /\ Goto(s, "cleanup") /\ state' \in {state, None}
  <2>1. sup[s].pc = "write" /\ sup[s].pc \in Holding /\ UNCHANGED <<cmd, lost, ctd>>
    BY <1>8 DEF WriteState, Holding
  <2>2. state # s
    BY <2>1, DaemonAssumption DEF Recorded, Early
  <2> QED BY <1>8, <2>1, <2>2, GotoRecords
<1>9. WriteState(s) => \/ /\ state' = s
                          /\ sup' = [sup EXCEPT ![s].pc = "serving", ![s].ready = TRUE]
                       \/ Goto(s, "cleanup") /\ state' \in {state, None}
  BY DEF WriteState
<1> QED BY <1>1, <1>2, <1>3, <1>4, <1>5, <1>6, <1>7, <1>8, <1>9 DEF Serve

(* Kills, zombies, and containerd itself. *)
LEMMA ProcessRecords ==
  ASSUME IInv, Commanded, Recorded, Stopping, NEW s \in Sups,
         Kill(s) \/ Reap(s) \/ Boot(s) \/ Exit(s)
  PROVE  Recorded' /\ Stopping'
<1>1. CASE Kill(s)
  BY <1>1, EndAsRecords DEF Kill
<1>2. CASE Reap(s)
  <2>1. /\ sup'[s] = NoSup /\ ctd'[s] = NoCtd
        /\ \A o \in Sups \ {s} : sup'[o] = sup[o] /\ ctd'[o] = ctd[o]
    BY <1>2 DEF Reap, IInv, Typed
  <2>2. ~NoSup.ready /\ ~NoSup.sig /\ NoCtd.st = "none"
    BY DEF NoSup, NoCtd
  <2>3. ~Unharmed(s)'
    BY <2>1, <2>2 DEF Unharmed, Alive
  <2>4. UNCHANGED <<cmd, lost, state>> /\ state # s /\ \A t \in Terms : cmd[t].s # s
    BY <1>2 DEF Reap
  <2> QED BY <2>1, <2>2, <2>3, <2>4, RecordMoves
<1>3. CASE Boot(s)
  <2>1. /\ ctd'[s].deaf = ctd[s].deaf /\ Alive(s)
        /\ \A o \in Sups \ {s} : ctd'[o] = ctd[o]
    BY <1>3 DEF Boot, Alive, IInv, Typed, CtdType
  <2>2. Unharmed(s)' => Unharmed(s)
    BY <1>3, <2>1 DEF Boot, Unharmed, Escaped
  <2>3. state' = s => sup'[s].ready
    BY <1>3, DaemonAssumption DEF Boot, Recorded
  <2> QED BY <1>3, <2>1, <2>2, <2>3, RecordMoves DEF Boot, Recorded
<1>4. CASE Exit(s)
  <2>1. [NoCtd EXCEPT !.st = "gone"].st = "gone"
    BY DEF NoCtd
  <2>2. /\ ctd'[s].st = "gone" /\ \A o \in Sups \ {s} : ctd'[o] = ctd[o]
    BY <1>4, <2>1 DEF Exit, IInv, Typed
  <2>3. ~Unharmed(s)'
    BY <2>2 DEF Unharmed, Alive
  <2>4. state' = s => sup'[s].ready
    BY <1>4, DaemonAssumption DEF Exit, Recorded
  <2> QED BY <1>4, <2>2, <2>3, <2>4, RecordMoves DEF Exit, Recorded
<1> QED BY <1>1, <1>2, <1>3, <1>4
(* What a command does, with nobody else at another terminal. *)
LEMMA QuietRecords ==
  ASSUME OneTerminal, IInv, Recorded, NEW t \in Terms, cmd'[t].pc \notin {"grace", "last"},
         state' \in {state, None}, lost \subseteq lost',
         \A s \in Sups : /\ sup'[s].pc = sup[s].pc /\ sup'[s].ready = sup[s].ready
                         /\ \/ sup'[s].sig = sup[s].sig /\ sup'[s].quit = sup[s].quit
                            \/ sup'[s].sig = sup'[s].quit
                         /\ ctd'[s].st = ctd[s].st /\ ctd'[s].deaf = ctd[s].deaf
  PROVE  Recorded' /\ Stopping'
<1>1. Stopping'
  BY DEF Stopping, OneTerminal
<1>2. \A s \in Sups : Unharmed(s)' /\ sup'[s].quit = sup[s].quit => Unharmed(s)
  BY DEF Unharmed, Alive, Escaped
<1>3. state' # None => state' \in Sups
  BY DEF IInv, Typed
<1> QED BY <1>1, <1>2, <1>3 DEF Recorded

(* What is left when a stop reports success: the second half of what       *)
(* "stopped" means.                                                        *)
GoneOrEscaped ==
  \A t \in Terms :
    cmd[t].pc \in {"grace", "last"} /\ cmd'[t].res = "stopped" /\ Alive(cmd[t].s) =>
      Escaped(cmd[t].s) \/ sup[cmd[t].s].quit \/ lost # {}

(* A step of the one command that runs; when it reports the daemon         *)
(* stopped, it is.                                                         *)
LEMMA CommandRecords ==
  ASSUME OneTerminal, IInv, Commanded, Recorded, Stopping, NEW t \in Terms, Command(t)
  PROVE  Recorded' /\ Stopping' /\ GoneOrEscaped
<1>0. cmd[t] \in CmdType /\ cmd \in [Terms -> CmdType] /\ Sensible(cmd[t])
  BY DEF Commanded
<1>1. ASSUME \/ \E res \in {"ok", "failed", "refused", "stopped"} : Finished(t, res)
             \/ \E pc \in {"clean", "spawn"} : cmd' = [cmd EXCEPT ![t].pc = pc]
      PROVE  cmd'[t].pc \notin {"grace", "last"}
  <2>1. ASSUME NEW res \in {"ok", "failed", "refused", "stopped"}, Finished(t, res)
        PROVE  cmd'[t].pc \notin {"grace", "last"}
    BY <2>1, FinishedCmd
  <2>2. ASSUME NEW pc \in {"clean", "spawn"}, cmd' = [cmd EXCEPT ![t].pc = pc]
        PROVE  cmd'[t].pc \notin {"grace", "last"}
    BY <1>0, <2>2 DEF CmdType
  <2> QED BY <1>1, <2>1, <2>2
<1>2. ASSUME NEW s, sup' = TermSup(s)
      PROVE  \A o \in Sups : /\ sup'[o].pc = sup[o].pc /\ sup'[o].ready = sup[o].ready
                             /\ sup'[o].quit = sup[o].quit
                             /\ sup'[o].sig = IF o = s THEN sup[o].pc \notin Ended ELSE sup[o].sig
  BY <1>2 DEF TermSup, IInv, Typed, SupType
<1>3. CASE StartLookup(t) \/ StartClean(t) \/ Apply(t)
  <2>1. cmd[t].pc \notin {"grace", "last"}
    BY <1>3 DEF StartLookup, StartClean, Apply
  <2>2. Recorded' /\ Stopping'
    BY <1>1, <1>3, QuietRecords DEF StartLookup, StartClean, Apply
  <2> QED BY <2>1, <2>2 DEF GoneOrEscaped, OneTerminal
<1>4. CASE Inspect(t)
  <2>1. cmd[t].pc \notin {"grace", "last"} /\ UNCHANGED <<sup, ctd, state, lost>>
    BY <1>4 DEF Inspect
  <2>2. CASE Finished(t, "refused")
    BY <1>1, <2>1, <2>2, QuietRecords DEF GoneOrEscaped, OneTerminal
  <2>3. ASSUME cmd' = [cmd EXCEPT ![t].pc = "apply"] PROVE cmd'[t].pc = "apply"
    BY <1>0, <2>3 DEF CmdType
  <2> QED BY <1>4, <2>1, <2>2, <2>3, QuietRecords DEF Inspect, GoneOrEscaped, OneTerminal
<1>5. CASE Spawn(t)
  <2>1. cmd[t].pc \notin {"grace", "last"} /\ UNCHANGED <<ctd, state, lost>>
    BY <1>5 DEF Spawn
  <2>2. CASE Finished(t, "failed") /\ UNCHANGED sup
    BY <1>1, <2>1, <2>2, QuietRecords DEF GoneOrEscaped, OneTerminal
  <2>3. ASSUME NEW s \in Sups, sup[s].pc = "none", ctd[s].st = "none",
               sup' = [sup EXCEPT ![s] = [NoSup EXCEPT !.pc = "open"]],
               cmd' = [cmd EXCEPT ![t] = IF @.op = "serve" THEN NoCmd
                                         ELSE [@ EXCEPT !.pc = "wait", !.s = s]]
        PROVE  Recorded' /\ Stopping'
    <3> DEFINE n == [NoSup EXCEPT !.pc = "open"]
    <3>1. n.pc = "open" /\ ~n.ready /\ ~n.sig
      BY DEF NoSup
    <3>2. sup'[s] = n /\ \A o \in Sups \ {s} : sup'[o] = sup[o]
      BY <2>3 DEF IInv, Typed
    <3> HIDE DEF n
    <3>3. state # s
      BY <2>3, DaemonAssumption DEF Recorded
    <3>4. \A o \in Sups \ {s} : Unharmed(o)' <=> Unharmed(o)
      BY <2>1, <3>2 DEF Unharmed, Alive, Escaped
    <3>5. cmd'[t].pc \notin {"grace", "last"}
      <4>1. [cmd[t] EXCEPT !.pc = "wait", !.s = s].pc = "wait" /\ NoCmd.pc = "idle"
        BY <1>0, NoCmdTyped DEF CmdType
      <4> QED BY <1>0, <2>3, <4>1
    <3>6. Stopping'
      BY <3>5 DEF Stopping, OneTerminal
    <3> QED BY <2>1, <3>1, <3>2, <3>3, <3>4, <3>6 DEF Recorded, IInv, Typed
  <2> QED BY <1>5, <2>1, <2>2, <2>3 DEF Spawn, GoneOrEscaped, OneTerminal
<1>6. CASE Wait(t)
  <2> DEFINE s == cmd[t].s
  <2>1. cmd[t].pc = "wait" /\ UNCHANGED <<ctd, state, lost>>
    BY <1>6 DEF Wait
  <2>2. cmd'[t].pc \notin {"grace", "last"}
    <3>1. CASE cmd' = [cmd EXCEPT ![t] = [NoCmd EXCEPT !.res = "ready", !.notes = Preflight(host)]]
      <4> DEFINE n == Preflight(host)
      <4> HIDE DEF n
      <4>1. [NoCmd EXCEPT !.res = "ready", !.notes = n].pc = "idle"
        BY DEF NoCmd
      <4> QED BY <1>0, <3>1, <4>1 DEF n
    <3> QED BY <1>1, <1>6, <3>1 DEF Wait
  <2>3. CASE UNCHANGED sup
    BY <2>1, <2>2, <2>3, QuietRecords DEF GoneOrEscaped, OneTerminal
  <2>4. CASE sup' = [TermSup(s) EXCEPT ![s].quit = sup[s].pc \notin Ended]
    <3>1. \A o \in Sups : /\ sup'[o].pc = sup[o].pc /\ sup'[o].ready = sup[o].ready
                          /\ \/ sup'[o].sig = sup[o].sig /\ sup'[o].quit = sup[o].quit
                             \/ sup'[o].sig = sup'[o].quit
      BY <2>4 DEF TermSup, IInv, Typed, SupType
    <3> QED BY <2>1, <2>2, <3>1, QuietRecords DEF GoneOrEscaped, OneTerminal
  <2> QED BY <1>6, <2>3, <2>4 DEF Wait
<1>7. CASE StopSignal(t)
  <2>1. cmd[t].pc = "stop" /\ UNCHANGED <<sup, lost>>
    BY <1>7 DEF StopSignal
  <2>2. CASE Finished(t, "ok") /\ state' = None /\ UNCHANGED ctd
    BY <1>1, <2>1, <2>2, QuietRecords DEF GoneOrEscaped, OneTerminal
  <2>3. CASE /\ Lookup /\ ctd' = TermCtd(state) /\ UNCHANGED state
             /\ cmd' = [cmd EXCEPT ![t].pc = "grace", ![t].s = state]
    <3>1. cmd'[t].s = state /\ state \in Sups
      BY <1>0, <2>3 DEF CmdType, Lookup, IInv, Typed
    <3>2. \A o \in Sups : ctd'[o].st = ctd[o].st /\ ctd'[o].deaf = ctd[o].deaf
      BY <2>3, SignalTyped
    <3>3. Recorded'
      BY <2>1, <2>3, <3>2 DEF Recorded, Unharmed, Alive, Escaped
    <3>4. sup[state].ready
      BY <3>1, DaemonAssumption DEF Recorded
    <3>5. Stopping'
      BY <2>1, <2>3, <3>1, <3>4 DEF Stopping, OneTerminal
    <3> QED BY <2>1, <3>3, <3>5 DEF GoneOrEscaped, OneTerminal
  <2> QED BY <1>7, <2>2, <2>3 DEF StopSignal
<1>8. ASSUME cmd[t].pc \in {"grace", "last"}, ~Running PROVE ~Unharmed(cmd[t].s)
  <2>1. cmd[t].s \in Sups /\ (Unharmed(cmd[t].s) => state = cmd[t].s)
    BY <1>0, <1>8 DEF Sensible, Stopping
  <2> QED BY <1>8, <2>1, UnharmedHolds, DaemonAssumption DEF Running, Lookup
<1>9. CASE StopGrace(t)
  <2> DEFINE s == cmd[t].s
  <2>1. cmd[t].pc = "grace" /\ s \in Sups /\ UNCHANGED <<ctd, lost>>
    BY <1>0, <1>9 DEF StopGrace, Sensible
  <2>2. CASE ~Running /\ state' = None /\ Finished(t, "stopped") /\ UNCHANGED sup
    <3>1. Recorded' /\ Stopping'
      BY <1>1, <2>1, <2>2, QuietRecords
    <3> QED BY <1>8, <2>1, <2>2, <3>1 DEF GoneOrEscaped, OneTerminal, Unharmed
  <2>3. CASE /\ ctd[s].deaf \/ lock # s
             /\ sup' = TermSup(s) /\ cmd' = [cmd EXCEPT ![t].pc = "last"] /\ UNCHANGED state
    <3>1. cmd'[t].s = s /\ cmd'[t].res = "none"
      BY <1>0, <2>1, <2>3 DEF CmdType, Sensible
    <3>2. ~Unharmed(s)
      BY <2>1, <2>3, UnharmedHolds DEF Unharmed, Escaped
    <3>3. \A o \in Sups : Unharmed(o)' <=> Unharmed(o)
      BY <1>2, <2>1, <2>3 DEF Unharmed, Alive, Escaped
    <3>4. sup[s].ready
      BY <2>1 DEF Stopping
    <3>5. Recorded'
      BY <1>2, <2>1, <2>3, <3>2, <3>3, <3>4 DEF Recorded, Early, IInv, Typed
    <3>6. Stopping'
      BY <1>2, <2>1, <2>3, <3>1, <3>2, <3>3, <3>4 DEF Stopping, OneTerminal
    <3> QED BY <3>1, <3>5, <3>6 DEF GoneOrEscaped, OneTerminal
  <2> QED BY <1>9, <2>2, <2>3 DEF StopGrace
<1>10. CASE StopLast(t)
  <2>1. cmd[t].pc = "last" /\ UNCHANGED <<sup, ctd, lost>> /\ state' \in {state, None}
    BY <1>10 DEF StopLast
  <2>2. cmd'[t].pc \notin {"grace", "last"}
    BY <1>1, <1>10 DEF StopLast
  <2>3. Recorded' /\ Stopping'
    BY <2>1, <2>2, QuietRecords
  <2>4. CASE Finished(t, "failed")
    BY <2>3, <2>4, FinishedCmd DEF GoneOrEscaped, OneTerminal
  <2>5. CASE ~Running
    BY <1>8, <2>1, <2>3, <2>5 DEF GoneOrEscaped, OneTerminal, Unharmed
  <2> QED BY <1>10, <2>4, <2>5 DEF StopLast
<1> QED BY <1>3, <1>4, <1>5, <1>6, <1>7, <1>9, <1>10 DEF Command
SInv == IInv /\ Commanded /\ Recorded /\ Stopping

(* The invariant about stopping holds before any daemon runs. *)
LEMMA InitStopping == Init => SInv
<1> SUFFICES ASSUME Init PROVE SInv
  OBVIOUS
<1>1. Commanded /\ Stopping
  BY NoCmdTyped DEF Init, Commanded, Sensible, Stopping
<1>2. Recorded
  BY DEF Init, Recorded, NoSup
<1> QED BY <1>1, <1>2, InitInv DEF SInv

(* Every step keeps the invariant about stopping, and reports only daemons *)
(* that are gone.                                                          *)
LEMMA StopStep ==
  ASSUME OneTerminal
  PROVE  SInv /\ [Next]_vars => SInv' /\ [GoneOrEscaped]_vars
<1> SUFFICES ASSUME SInv, [Next]_vars PROVE SInv' /\ [GoneOrEscaped]_vars
  OBVIOUS
<1>1. IInv' /\ Commanded'
  BY InvStep, CommandedKept DEF SInv
<1>2. ASSUME NEW t \in Terms, Command(t) PROVE Recorded' /\ Stopping' /\ GoneOrEscaped
  BY <1>2, CommandRecords DEF SInv
<1>3. ASSUME NEW t \in Terms, NEW op \in Ops, Type(t, op)
      PROVE  Recorded' /\ Stopping' /\ GoneOrEscaped
  <2>1. cmd[t].pc = "idle" /\ cmd'[t].pc \notin {"grace", "last"}
        /\ UNCHANGED <<sup, ctd, state, lost>>
    BY <1>3, TypeCommands DEF Type, SInv
  <2> QED BY <2>1, QuietRecords DEF SInv, GoneOrEscaped, OneTerminal
<1>4. ASSUME NEW s \in Sups, Serve(s) \/ Kill(s) \/ Reap(s) \/ Boot(s) \/ Exit(s)
      PROVE  Recorded' /\ Stopping' /\ UNCHANGED cmd
  <2>1. UNCHANGED cmd
    BY <1>4 DEF Serve, ServeOpen, ServeStart, WaitReady, WriteState, ServeEnd, Cleanup, Dying,
                ServeRelease, Kill, Reap, Boot, Exit
  <2> QED BY <1>4, <2>1, ServeRecords, ProcessRecords DEF SInv
<1>5. UNCHANGED cmd => GoneOrEscaped
  BY DEF SInv, Commanded, Sensible, GoneOrEscaped
<1>6. CASE UNCHANGED vars
  BY <1>1, <1>6 DEF vars, SInv, Recorded, Stopping, Unharmed, Alive, Escaped
<1> QED BY <1>1, <1>2, <1>3, <1>4, <1>5, <1>6 DEF SInv, Next

(* What a stop waits for has been signalled.                               *)
Told ==
  \A t \in Terms :
    cmd[t].pc \in {"grace", "last"} /\ Alive(cmd[t].s) => ctd[cmd[t].s].termed

(* A supervisor that is ready starts no other containerd, so the signal    *)
(* stays with the one that got it.                                         *)
LEMMA ToldStays ==
  ASSUME SInv, Told, UNCHANGED cmd,
         \A s \in Sups : sup[s].ready /\ (\E t \in Terms : cmd[t].s = s) =>
           /\ Alive(s)' => Alive(s)
           /\ Alive(s)' /\ ctd[s].termed => ctd'[s].termed
  PROVE  Told'
BY DEF Told, SInv, Commanded, Sensible, Stopping

(* A process that exits has nothing left to signal. *)
LEMMA ProcessTold ==
  ASSUME SInv, Told, NEW s \in Sups, Serve(s) \/ Kill(s) \/ Reap(s) \/ Boot(s) \/ Exit(s)
  PROVE  Told'
<1>1. UNCHANGED cmd /\ ctd \in [Sups -> CtdType]
  BY DEF Serve, ServeOpen, ServeStart, WaitReady, WriteState, ServeEnd, Cleanup, Dying,
         ServeRelease, Kill, Reap, Boot, Exit, SInv, IInv, Typed
<1>2. CASE UNCHANGED ctd
  BY <1>1, <1>2, ToldStays DEF Alive
<1>3. CASE ServeStart(s)
  <2>1. ~sup[s].ready /\ \A o \in Sups \ {s} : ctd'[o] = ctd[o]
    BY <1>1, <1>3 DEF ServeStart, SInv, Recorded, Early
  <2> QED BY <1>1, <2>1, ToldStays DEF Alive
<1>4. CASE ctd' = TermCtd(s)
  <2>1. Alive(s) \in BOOLEAN
    BY DEF Alive
  <2>2. \A o \in Sups : ctd'[o].st = ctd[o].st /\ (ctd[o].termed => ctd'[o].termed)
    BY <1>1, <1>4, <2>1 DEF TermCtd, CtdType
  <2> QED BY <1>1, <2>2, ToldStays DEF Alive
<1>5. CASE Reap(s)
  <2>1. (\A t \in Terms : cmd[t].s # s) /\ \A o \in Sups \ {s} : ctd'[o] = ctd[o]
    BY <1>1, <1>5 DEF Reap
  <2> QED BY <1>1, <2>1, ToldStays DEF Alive
<1>6. CASE Boot(s)
  <2>1. /\ ctd'[s].termed = ctd[s].termed /\ Alive(s)
        /\ \A o \in Sups \ {s} : ctd'[o] = ctd[o]
    BY <1>1, <1>6 DEF Boot, Alive, CtdType
  <2> QED BY <1>1, <2>1, ToldStays DEF Alive
<1>7. CASE Exit(s)
  <2>1. [NoCtd EXCEPT !.st = "gone"].st = "gone"
    BY DEF NoCtd
  <2>2. ctd'[s].st = "gone" /\ \A o \in Sups \ {s} : ctd'[o] = ctd[o]
    BY <1>1, <1>7, <2>1 DEF Exit
  <2>3. ~Alive(s)'
    BY <2>2 DEF Alive
  <2> QED BY <1>1, <2>2, <2>3, ToldStays DEF Alive
<1> QED BY <1>2, <1>3, <1>4, <1>5, <1>6, <1>7
        DEF Serve, ServeOpen, WaitReady, WriteState, ServeEnd, Cleanup, Dying, ServeRelease, Kill

(* A stop signals what it will wait for; no other command changes that.    *)
LEMMA CommandTold ==
  ASSUME OneTerminal, SInv, Told, NEW t \in Terms,
         Command(t) \/ \E op \in Ops : Type(t, op)
  PROVE  Told'
<1>0. cmd[t] \in CmdType /\ cmd \in [Terms -> CmdType] /\ Sensible(cmd[t])
      /\ ctd \in [Sups -> CtdType]
  BY DEF SInv, Commanded, IInv, Typed
<1>1. ASSUME cmd'[t].pc \notin {"grace", "last"} PROVE Told'
  BY <1>1 DEF Told, OneTerminal
<1>2. CASE cmd' = [cmd EXCEPT ![t].pc = "last"] /\ cmd[t].pc = "grace" /\ UNCHANGED ctd
  <2>1. cmd'[t].s = cmd[t].s
    BY <1>0, <1>2 DEF CmdType
  <2> QED BY <1>2, <2>1 DEF Told, OneTerminal, Alive
<1>3. CASE /\ Lookup /\ ctd' = TermCtd(state)
           /\ cmd' = [cmd EXCEPT ![t].pc = "grace", ![t].s = state]
  <2>1. cmd'[t].s = state /\ state \in Sups
    BY <1>0, <1>3 DEF CmdType, Lookup, SInv, IInv, Typed
  <2>2. Alive(state) \in BOOLEAN
    BY DEF Alive
  <2>3. ctd'[state].st = ctd[state].st /\ (Alive(state) => ctd'[state].termed)
    BY <1>0, <1>3, <2>1, <2>2 DEF TermCtd, CtdType
  <2> QED BY <2>1, <2>3 DEF Told, OneTerminal, Alive
<1>4. \A res \in {"ok", "failed", "refused", "stopped"} :
        Finished(t, res) => cmd'[t].pc \notin {"grace", "last"}
  BY FinishedCmd DEF SInv
<1>5. \A pc \in {"clean", "spawn", "apply"} :
        cmd' = [cmd EXCEPT ![t].pc = pc] => cmd'[t].pc \notin {"grace", "last"}
  BY <1>0
<1>6. ASSUME NEW op \in Ops, Type(t, op) PROVE cmd'[t].pc \notin {"grace", "last"}
  BY <1>6, TypeCommands DEF SInv
<1>7. ASSUME Spawn(t) PROVE cmd'[t].pc \notin {"grace", "last"}
  <2>1. \A s : [cmd[t] EXCEPT !.pc = "wait", !.s = s].pc = "wait"
    BY <1>0 DEF CmdType
  <2> QED BY <1>0, <1>4, <1>7, <2>1, NoCmdTyped DEF Spawn
<1>8. ASSUME Wait(t) PROVE cmd'[t].pc \notin {"grace", "last"}
  <2> DEFINE n == Preflight(host)
  <2> HIDE DEF n
  <2>1. [NoCmd EXCEPT !.res = "ready", !.notes = n].pc = "idle"
    BY DEF NoCmd
  <2>2. cmd' = [cmd EXCEPT ![t] = [NoCmd EXCEPT !.res = "ready", !.notes = n]]
          => cmd'[t].pc \notin {"grace", "last"}
    BY <1>0, <2>1
  <2> QED BY <1>4, <1>8, <2>2 DEF Wait, n
<1>9. CASE StopSignal(t)
  BY <1>1, <1>3, <1>4, <1>9 DEF StopSignal
<1>10. CASE StopGrace(t)
  BY <1>1, <1>2, <1>4, <1>10 DEF StopGrace
<1> QED BY <1>1, <1>4, <1>5, <1>6, <1>7, <1>8, <1>9, <1>10
        DEF Command, StartLookup, StartClean, StopLast, Inspect, Apply

(* Every step keeps both, and reports only daemons that are gone, or have  *)
(* been told to go and escaped.                                            *)
LEMMA ToldStep ==
  ASSUME OneTerminal
  PROVE  SInv /\ Told /\ [Next]_vars => SInv' /\ Told' /\ [StoppedIsGone]_vars
<1> SUFFICES ASSUME SInv, Told, [Next]_vars PROVE SInv' /\ Told' /\ [StoppedIsGone]_vars
  OBVIOUS
<1>1. SInv' /\ [GoneOrEscaped]_vars
  BY StopStep
<1>2. [StoppedIsGone]_vars
  BY <1>1 DEF GoneOrEscaped, StoppedIsGone, Told
<1>3. ASSUME UNCHANGED vars PROVE Told'
  <2>1. UNCHANGED cmd /\ UNCHANGED ctd
    BY <1>3 DEF vars
  <2> QED BY <2>1, ToldStays DEF Alive
<1>4. ASSUME NEW s \in Sups, Serve(s) \/ Kill(s) \/ Reap(s) \/ Boot(s) \/ Exit(s)
      PROVE  Told'
  BY <1>4, ProcessTold
<1>5. ASSUME NEW t \in Terms, Command(t) \/ \E op \in Ops : Type(t, op)
      PROVE  Told'
  BY <1>5, CommandTold
<1>6. Told'
  BY <1>3, <1>4, <1>5 DEF Next
<1> QED BY <1>1, <1>2, <1>6

(* "Stopped" means that it has, for one who stops at the only terminal:    *)
(* what is left of the daemon was signalled and is deaf, or lost its       *)
(* supervisor to a kill, or is being ended by an interrupted start (Stop,  *)
(* Terminate).                                                             *)
THEOREM StoppedMeansStopped ==
  ASSUME OneTerminal
  PROVE  Spec => StopMeansStopped
<1>1. Init => SInv /\ Told
  BY InitStopping DEF Init, Told, NoCmd
<1>2. SInv /\ Told /\ [Next]_vars => SInv' /\ Told' /\ [StoppedIsGone]_vars
  BY ToldStep
<1> QED BY <1>1, <1>2, PTL DEF Spec, StopMeansStopped
===============================================================================
