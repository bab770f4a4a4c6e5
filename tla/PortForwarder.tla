--------------------------- MODULE PortForwarder ---------------------------
(***************************************************************************)
(* The published ports of one running sandbox: the forwarder's table and   *)
(* host listeners (internal/ports/forward.go), the control requests of     *)
(* "boks ports" that change them (internal/enforce/control.go and          *)
(* handleControl), the connections that come in on them, the list in the   *)
(* supervisor's state file (publishedState), and the teardown.             *)
(*                                                                         *)
(* Every control request and every connection has a goroutine of its own.  *)
(* The forwarder's mutex covers its table, and neither the binding and     *)
(* closing of sockets nor the writing of the state file: those are steps   *)
(* of their own here.  A connection waits in "dial" and "splice" for as    *)
(* long as the guest and the host's client like.                           *)
(***************************************************************************)
EXTENDS Naturals, Sequences, FiniteSets

CONSTANTS Terms,      \* terminals that run "boks ports"
          Conns,      \* connections from the host
          Ids,        \* identities of listeners (the *entry of the code)
          HostPorts,  \* port numbers of the host
          SbPorts,    \* port numbers in the sandbox
          Commands,   \* what users ask for: [un, pub], two sequences of specs
          Initial,    \* the specs the sandbox was created with, a sequence
          HasIPv6,    \* does the virtual network carry IPv6
          MaxDeaf,    \* bound: listeners whose Accept has failed
          Main,       \* the supervisor's own goroutine
          Other,      \* the holder of a host port that is not ours
          None

Addrs == {"v4", "v6"}
Protocols == {"tcp", "tcp4", "tcp6", "udp"}

(* A parsed specification: no address means loopback, port 0 any free port. *)
Specs == [addr : Addrs \cup {"any"}, port : HostPorts \cup {0},
          sb : SbPorts, proto : Protocols]

ASSUME PortsAssumption ==
  /\ HostPorts \subseteq Nat \ {0}
  /\ Commands \subseteq [un : Seq(Specs), pub : Seq(Specs)]
  /\ Initial \in Seq(Specs)
  /\ HasIPv6 \in BOOLEAN
  /\ MaxDeaf \in Nat
  /\ None \notin Ids /\ Other \notin Ids /\ Main \notin Terms

Actors == Terms \cup {Main}
Sockets == Addrs \X HostPorts

(* A row of the table: one listener and what it forwards to; err says that *)
(* its last connection did not reach the guest.                            *)
Entries == [id : Ids, addr : Addrs, port : HostPorts, sb : SbPorts, err : BOOLEAN]

(* What a listing, or the state file, shows of a row. *)
Rows == [addr : Addrs, port : HostPorts, sb : SbPorts, err : BOOLEAN]

VARIABLES
  phase,    \* opening, serving, draining, closing, closed, exited
  sock,     \* the listener bound to each host address and port, None if free
  deaf,     \* the listeners whose serve loop has ended with an error
  table,    \* the forwarder's entries
  closed,   \* the forwarder's closed flag
  told,     \* is the forwarder's onChange set
  doomed,   \* what Close has yet to close: [ents, conns]
  conn,     \* the connections
  tracked,  \* the connections in the forwarder's conns
  act,      \* what each terminal's request, and Main, are doing
  file      \* the state file's ports: [ok, rows, size]

vars == <<phase, told, sock, deaf, table, closed, doomed, conn, tracked, act, file>>

----------------------------------------------------------------------------
IsUDP(proto) == proto = "udp"

(* Spec.Binds: the addresses to bind, in order. *)
Binds(spec) ==
  IF spec.addr # "any" THEN <<spec.addr>>
  ELSE IF spec.proto = "tcp4" THEN <<"v4">>
  ELSE IF spec.proto = "tcp6" THEN <<"v6">>
  ELSE IF HasIPv6 THEN <<"v4", "v6">>
  ELSE <<"v4">>

(* Published.matches *)
Matches(e, spec) ==
  /\ e.port = spec.port /\ e.sb = spec.sb
  /\ ~IsUDP(spec.proto)
  /\ spec.addr \in {"any", e.addr}

(* Two entries with this in common are one key of the map. *)
SameKey(e, d) == e.addr = d.addr /\ e.port = d.port /\ e.sb = d.sb

Row(e) == [addr |-> e.addr, port |-> e.port, sb |-> e.sb, err |-> e.err]
Listing(t) == {Row(e) : e \in t}

(* An actor: op is its request, un and pub what is left of its command;    *)
(* ents are the listeners it is opening, or closing; list is what it will  *)
(* write to the state file; gone are the listeners it took off the table.  *)
Idle == [pc |-> "idle", op |-> "un", un |-> <<>>, pub |-> <<>>, addrs |-> <<>>,
         port |-> 0, ents |-> {}, list |-> {}, gone |-> {}]

ActPcs == {"idle", "call", "next", "bind", "insert", "close", "notify", "write", "listed"}
ActType == [pc : ActPcs, op : {"un", "pub"}, un : Seq(Specs), pub : Seq(Specs),
            addrs : Seq(Addrs), port : HostPorts \cup {0}, ents : SUBSET Entries,
            list : SUBSET Rows, gone : SUBSET Ids]

At(a, pc) == act[a].pc = pc
Spec1(a) == Head(IF act[a].op = "un" THEN act[a].un ELSE act[a].pub)

(* A connection: the listener it came in on, whether the guest answered,   *)
(* and what it will write to the state file.                               *)
NoConn == [pc |-> "none", id |-> None, ok |-> FALSE, list |-> {}]
Over == [NoConn EXCEPT !.pc = "over"]
ConnPcs == {"none", "over", "dial", "note", "notify", "write", "track", "splice", "shut"}
ConnType == [pc : ConnPcs, id : Ids \cup {None}, ok : BOOLEAN, list : SUBSET Rows]

IdsOf(es) == {e.id : e \in es}
Bound == {sock[s] : s \in Sockets} \ {None, Other}

InUse == UNION {IdsOf(table), IdsOf(doomed.ents), Bound,
                UNION {IdsOf(act[a].ents) \cup act[a].gone : a \in Actors},
                {conn[c].id : c \in Conns}}

(* The sockets after some listeners were closed. *)
Freed(ids) == [s \in Sockets |-> IF sock[s] \in ids THEN None ELSE sock[s]]

(* The listeners whose serve loop accepts. *)
Serving ==
  (IdsOf(table) \cup IdsOf(doomed.ents)
     \cup UNION {IdsOf(act[a].ents) : a \in {b \in Actors : At(b, "close")}}) \ deaf

----------------------------------------------------------------------------
(* The state file.  os.WriteFile truncates the file and then writes it; of *)
(* two writers the one with the shorter text leaves the other's tail, and  *)
(* the file cannot be decoded.                                             *)

Size(rows) == Cardinality(rows) + Cardinality({r \in rows : r.err})
Text(rows) == [ok |-> TRUE, rows |-> rows, size |-> Size(rows)]
Torn(n) == [ok |-> FALSE, rows |-> {}, size |-> n]
HasDir == phase \in {"serving", "draining", "closing"}

Truncated == IF HasDir THEN Torn(0) ELSE file
Overwritten(rows) ==
  IF ~HasDir THEN file ELSE IF Size(rows) >= file.size THEN Text(rows) ELSE Torn(file.size)

----------------------------------------------------------------------------
(* Requests. *)

(* A user types "boks ports --unpublish ... --publish ...".  The command   *)
(* refuses UDP before it connects to anything.                             *)
Type(a, cmd) ==
  /\ a \in Terms /\ At(a, "idle")
  /\ \A k \in DOMAIN cmd.pub : ~IsUDP(cmd.pub[k].proto)
  /\ act' = [act EXCEPT ![a] = [Idle EXCEPT !.pc = "call", !.un = cmd.un, !.pub = cmd.pub]]
  /\ UNCHANGED <<phase, sock, deaf, table, closed, told, doomed, conn, tracked, file>>

(* call: one exchange for all unpublishes, then one for all publishes.  It *)
(* needs a state file that Lookup can decode, and an open control socket.  *)
Call(a) ==
  /\ At(a, "call")
  /\ act' = [act EXCEPT ![a] =
       IF phase = "serving" /\ file.ok
         THEN [@ EXCEPT !.pc = "next", !.op = IF act[a].un # <<>> THEN "un" ELSE "pub"]
         ELSE Idle]
  /\ UNCHANGED <<phase, sock, deaf, table, closed, told, doomed, conn, tracked, file>>

(* The request is answered: the publishes are an exchange of their own. *)
Answer(a) ==
  /\ a \in Terms /\ At(a, "next")
  /\ (IF act[a].op = "un" THEN act[a].un ELSE act[a].pub) = <<>>
  /\ act' = [act EXCEPT ![a] = IF act[a].pub # <<>> THEN [@ EXCEPT !.pc = "call"] ELSE Idle]
  /\ UNCHANGED <<phase, sock, deaf, table, closed, told, doomed, conn, tracked, file>>

(* The request fails, and with it the command; what it did before stays.   *)
(* If the supervisor itself fails to publish, it does not come up.         *)
Fail(a) ==
  /\ act' = [act EXCEPT ![a] = Idle]
  /\ sock' = Freed(IdsOf(act[a].ents))
  /\ phase' = IF a = Main THEN "draining" ELSE phase

(* Publish, under the lock: a port that has a name is looked up first. *)
PublishCheck(a) ==
  /\ At(a, "next") /\ act[a].op = "pub" /\ act[a].pub # <<>>
  /\ LET spec == Spec1(a)
         taken == \E e \in table, i \in DOMAIN Binds(spec) :
                     e.port = spec.port /\ e.sb = spec.sb /\ e.addr = Binds(spec)[i]
     IN  IF IsUDP(spec.proto) \/ closed \/ taken
           THEN Fail(a)
           ELSE /\ act' = [act EXCEPT ![a] = [@ EXCEPT !.pc = "bind",
                             !.addrs = Binds(spec), !.port = spec.port]]
                /\ UNCHANGED <<sock, phase>>
  /\ UNCHANGED <<deaf, table, closed, told, doomed, conn, tracked, file>>

(* net.Listen on the next address.  A port the system picks for the first  *)
(* address is the one for the others, too.                                 *)
PublishBind(a) ==
  /\ At(a, "bind") /\ Ids \ InUse # {}
  /\ \E p \in HostPorts :
       LET i == CHOOSE j \in Ids : j \notin InUse
           addr == Head(act[a].addrs)
       IN  /\ act[a].port \in {0, p}
           /\ sock[<<addr, p>>] = None
           /\ sock' = [sock EXCEPT ![<<addr, p>>] = i]
           /\ act' = [act EXCEPT
                ![a].addrs = Tail(@), ![a].port = p,
                ![a].pc = IF Len(act[a].addrs) = 1 THEN "insert" ELSE "bind",
                ![a].ents = @ \cup {[id |-> i, addr |-> addr, port |-> p,
                                     sb |-> Spec1(a).sb, err |-> FALSE]}]
  /\ UNCHANGED <<phase, deaf, table, closed, told, doomed, conn, tracked, file>>

(* The address is in use: the listeners made so far are closed. *)
PublishBindFails(a) ==
  /\ At(a, "bind")
  /\ \A p \in HostPorts : act[a].port \in {0, p} => sock[<<Head(act[a].addrs), p>>] # None
  /\ Fail(a)
  /\ UNCHANGED <<deaf, table, closed, told, doomed, conn, tracked, file>>

(* Mutant: closed is not looked at again. *)
PublishInsert_Unchecked(a) ==
  /\ At(a, "insert")
  /\ table' = table \cup act[a].ents
  /\ act' = [act EXCEPT ![a].pc = "notify", ![a].ents = {},
                         ![a].list = Listing(table'), ![a].pub = Tail(@)]
  /\ UNCHANGED <<sock, phase, deaf, closed, told, doomed, conn, tracked, file>>

(* Publish, under the lock again: the listeners enter the table and serve. *)
PublishInsert(a) ==
  /\ At(a, "insert")
  /\ IF closed \/ \E e \in table, d \in act[a].ents : SameKey(e, d)
       THEN Fail(a) /\ UNCHANGED table
       ELSE /\ table' = table \cup act[a].ents
            /\ act' = [act EXCEPT ![a].pc = "notify", ![a].ents = {},
                                   ![a].list = Listing(table'), ![a].pub = Tail(@)]
            /\ UNCHANGED <<sock, phase>>
  /\ UNCHANGED <<deaf, closed, told, doomed, conn, tracked, file>>

(* Unpublish, under the lock: every binding the specification matches. *)
UnpublishRemove(a) ==
  /\ At(a, "next") /\ act[a].op = "un" /\ act[a].un # <<>>
  /\ LET hit == {e \in table : Matches(e, Spec1(a))}
     IN  IF hit = {}
           THEN Fail(a) /\ UNCHANGED table
           ELSE /\ table' = table \ hit
                /\ act' = [act EXCEPT ![a].pc = "close", ![a].ents = hit,
                                       ![a].list = Listing(table'), ![a].un = Tail(@),
                                       ![a].gone = @ \cup IdsOf(hit)]
                /\ UNCHANGED <<sock, phase>>
  /\ UNCHANGED <<deaf, closed, told, doomed, conn, tracked, file>>

(* Mutant: a serve loop that ended with an error never closes done. *)
UnpublishClose_DeafHangs(a) ==
  /\ At(a, "close")
  /\ \E e \in act[a].ents :
       /\ e.id \notin deaf
       /\ sock' = Freed({e.id})
       /\ deaf' = deaf \ {e.id}
       /\ act' = [act EXCEPT ![a].ents = @ \ {e},
                              ![a].pc = IF act[a].ents = {e} THEN "notify" ELSE "close"]
  /\ UNCHANGED <<phase, table, closed, told, doomed, conn, tracked, file>>

(* ... whose listeners are closed, and waited for, one after the other. *)
UnpublishClose(a) ==
  /\ At(a, "close")
  /\ \E e \in act[a].ents :
       /\ sock' = Freed({e.id})
       /\ deaf' = deaf \ {e.id}
       /\ act' = [act EXCEPT ![a].ents = @ \ {e},
                              ![a].pc = IF act[a].ents = {e} THEN "notify" ELSE "close"]
  /\ UNCHANGED <<phase, table, closed, told, doomed, conn, tracked, file>>

(* notify and publishedState.write, with the list made under the lock;     *)
(* before OnChange is set nobody is told.                                  *)
Notify(a) ==
  /\ At(a, "notify")
  /\ IF ~told
       THEN act' = [act EXCEPT ![a].pc = "next", ![a].list = {}] /\ UNCHANGED file
       ELSE act' = [act EXCEPT ![a].pc = "write"] /\ file' = Truncated
  /\ UNCHANGED <<phase, sock, deaf, table, closed, told, doomed, conn, tracked>>

Write(a) ==
  /\ At(a, "write")
  /\ file' = Overwritten(act[a].list)
  /\ act' = [act EXCEPT ![a].pc = "next", ![a].list = {}]
  /\ UNCHANGED <<phase, sock, deaf, table, closed, told, doomed, conn, tracked>>

----------------------------------------------------------------------------
(* Connections. *)

(* serve: a connection is accepted, and forwarded in its own goroutine. *)
Accept(c, i) ==
  /\ conn[c].pc = "none" /\ i \in Serving
  /\ conn' = [conn EXCEPT ![c] = [NoConn EXCEPT !.pc = "dial", !.id = i]]
  /\ UNCHANGED <<phase, sock, deaf, table, closed, told, doomed, tracked, act, file>>

(* serve: any error of Accept ends the loop, and the listener stays. *)
AcceptFails(i) ==
  /\ i \in Serving /\ Cardinality(deaf) < MaxDeaf
  /\ deaf' = deaf \cup {i}
  /\ UNCHANGED <<phase, sock, table, closed, told, doomed, conn, tracked, act, file>>

(* forward: the guest answers, or refuses, or the dial's time is up. *)
Dial(c, ok) ==
  /\ conn[c].pc = "dial"
  /\ conn' = [conn EXCEPT ![c].pc = "note", ![c].ok = ok]
  /\ UNCHANGED <<phase, sock, deaf, table, closed, told, doomed, tracked, act, file>>

(* forward, once the outcome is recorded: the host's side is closed if     *)
(* the guest's is missing.                                                 *)
Noted(k) == IF k.ok THEN [k EXCEPT !.pc = "track", !.list = {}] ELSE Over

(* Mutant: whatever entry has the key now. *)
NoteError_ByKey(c) ==
  /\ conn[c].pc = "note"
  /\ LET mine == {e \in table : e.err = conn[c].ok}
         new == (table \ mine) \cup {[e EXCEPT !.err = ~@] : e \in mine}
     IN  /\ table' = new
         /\ conn' = [conn EXCEPT ![c] =
              IF mine = {} THEN Noted(@) ELSE [@ EXCEPT !.pc = "notify", !.list = Listing(new)]]
  /\ UNCHANGED <<phase, sock, deaf, closed, told, doomed, tracked, act, file>>

(* noteError: only the entry that is in the table now, and only a change. *)
NoteError(c) ==
  /\ conn[c].pc = "note"
  /\ LET mine == {e \in table : e.id = conn[c].id /\ e.err = conn[c].ok}
         new == (table \ mine) \cup {[e EXCEPT !.err = ~@] : e \in mine}
     IN  /\ table' = new
         /\ conn' = [conn EXCEPT ![c] =
              IF mine = {} THEN Noted(@) ELSE [@ EXCEPT !.pc = "notify", !.list = Listing(new)]]
  /\ UNCHANGED <<phase, sock, deaf, closed, told, doomed, tracked, act, file>>

ConnNotify(c) ==
  /\ conn[c].pc = "notify"
  /\ IF ~told
       THEN conn' = [conn EXCEPT ![c] = Noted(@)] /\ UNCHANGED file
       ELSE conn' = [conn EXCEPT ![c].pc = "write"] /\ file' = Truncated
  /\ UNCHANGED <<phase, sock, deaf, table, closed, told, doomed, tracked, act>>

ConnWrite(c) ==
  /\ conn[c].pc = "write"
  /\ file' = Overwritten(conn[c].list)
  /\ conn' = [conn EXCEPT ![c] = Noted(@)]
  /\ UNCHANGED <<phase, sock, deaf, table, closed, told, doomed, tracked, act>>

(* Mutant: closed is not looked at. *)
Track_Unchecked(c) ==
  /\ conn[c].pc = "track"
  /\ conn' = [conn EXCEPT ![c].pc = "splice"] /\ tracked' = tracked \cup {c}
  /\ UNCHANGED <<phase, sock, deaf, table, closed, told, doomed, act, file>>

(* track: after Close both ends are closed at once. *)
Track(c) ==
  /\ conn[c].pc = "track"
  /\ IF closed
       THEN conn' = [conn EXCEPT ![c] = Over] /\ UNCHANGED tracked
       ELSE conn' = [conn EXCEPT ![c].pc = "splice"] /\ tracked' = tracked \cup {c}
  /\ UNCHANGED <<phase, sock, deaf, table, closed, told, doomed, act, file>>

(* Both directions have ended; both ends are closed, then untracked. *)
SpliceEnds(c) ==
  /\ conn[c].pc \in {"splice", "shut"}
  /\ conn' = [conn EXCEPT ![c] = Over]
  /\ tracked' = tracked \ {c}
  /\ doomed' = [doomed EXCEPT !.conns = @ \ {c}]
  /\ UNCHANGED <<phase, sock, deaf, table, closed, told, act, file>>

----------------------------------------------------------------------------
(* The supervisor. *)

(* Serve, after Open: the initial ports are listed for the state file ... *)
Listed ==
  /\ At(Main, "next") /\ act[Main].pub = <<>>
  /\ act' = [act EXCEPT ![Main].pc = "listed", ![Main].list = Listing(table)]
  /\ UNCHANGED <<phase, sock, deaf, table, closed, told, doomed, conn, tracked, file>>

(* ... which is written; OnChange is set and the control socket bound. *)
Opened ==
  /\ At(Main, "listed")
  /\ file' = Text(act[Main].list)
  /\ phase' = "serving" /\ told' = TRUE
  /\ act' = [act EXCEPT ![Main] = Idle]
  /\ UNCHANGED <<sock, deaf, table, closed, doomed, conn, tracked>>

(* The state file or the control socket cannot be made. *)
ServeFails ==
  /\ At(Main, "listed")
  /\ phase' = "draining" /\ told' \in BOOLEAN
  /\ act' = [act EXCEPT ![Main] = Idle]
  /\ UNCHANGED <<sock, deaf, table, closed, doomed, conn, tracked, file>>

(* A signal, or the end of the task: the control socket is closed first.   *)
(* Requests that are being handled are not waited for.                     *)
Shutdown ==
  /\ phase = "serving"
  /\ phase' = "draining"
  /\ UNCHANGED <<sock, deaf, table, closed, told, doomed, conn, tracked, act, file>>

(* Close, under the lock. *)
CloseStart ==
  /\ phase = "draining"
  /\ phase' = "closing" /\ closed' = TRUE
  /\ doomed' = [ents |-> table, conns |-> tracked]
  /\ table' = {} /\ tracked' = {}
  /\ UNCHANGED <<sock, deaf, told, conn, act, file>>

CloseListener ==
  /\ phase = "closing"
  /\ \E e \in doomed.ents :
       /\ sock' = Freed({e.id})
       /\ deaf' = deaf \ {e.id}
       /\ doomed' = [doomed EXCEPT !.ents = @ \ {e}]
  /\ UNCHANGED <<phase, table, closed, told, conn, tracked, act, file>>

(* The rest of the teardown, and the removal of the supervisor's directory. *)
CloseConns ==
  /\ phase = "closing" /\ doomed.ents = {}
  /\ phase' = "closed"
  /\ conn' = [c \in Conns |-> IF c \in doomed.conns THEN [conn[c] EXCEPT !.pc = "shut"] ELSE conn[c]]
  /\ doomed' = [doomed EXCEPT !.conns = {}]
  /\ file' = Torn(0)
  /\ UNCHANGED <<sock, deaf, table, closed, told, tracked, act>>

(* The end of the process, and of every goroutine and socket in it. *)
Exit ==
  /\ phase = "closed"
  /\ phase' = "exited"
  /\ sock' = Freed(Ids)
  /\ deaf' = {} /\ table' = {} /\ tracked' = {}
  /\ conn' = [c \in Conns |-> Over]
  /\ act' = [a \in Actors |-> Idle]
  /\ UNCHANGED <<closed, told, doomed, file>>

----------------------------------------------------------------------------
(* The host's other programs hold some of the ports. *)
Init ==
  /\ phase = "opening"
  /\ sock \in [Sockets -> {None, Other}]
  /\ deaf = {} /\ table = {} /\ closed = FALSE /\ told = FALSE
  /\ doomed = [ents |-> {}, conns |-> {}]
  /\ conn = [c \in Conns |-> NoConn] /\ tracked = {}
  /\ act = [a \in Actors |-> IF a = Main THEN [Idle EXCEPT !.pc = "next", !.op = "pub",
                                                          !.pub = Initial] ELSE Idle]
  /\ file = Torn(0)

Step(a) ==
  \/ Call(a) \/ Answer(a)
  \/ PublishCheck(a) \/ PublishBind(a) \/ PublishBindFails(a) \/ PublishInsert(a)
  \/ UnpublishRemove(a) \/ UnpublishClose(a)
  \/ Notify(a) \/ Write(a)

ConnStep(c) ==
  \/ \E ok \in BOOLEAN : Dial(c, ok)
  \/ NoteError(c) \/ ConnNotify(c) \/ ConnWrite(c) \/ Track(c)

Teardown == CloseStart \/ CloseListener \/ CloseConns \/ Exit

Next ==
  \/ \E a \in Terms, cmd \in Commands : Type(a, cmd)
  \/ \E a \in Actors : Step(a)
  \/ \E c \in Conns : ConnStep(c) \/ SpliceEnds(c)
  \/ \E c \in Conns, i \in Ids : Accept(c, i)
  \/ \E i \in Ids : AcceptFails(i)
  \/ Listed \/ Opened \/ ServeFails \/ Shutdown
  \/ Teardown

Spec == Init /\ [][Next]_vars

(* Goroutines run, a dial into the guest ends within dialTimeout, and the  *)
(* ends of a connection that Close shut are noticed.  Nothing makes a user *)
(* type, a client connect or hang up, or a sandbox stop.                   *)
Fairness ==
  /\ \A a \in Actors : WF_vars(Step(a))
  /\ \A c \in Conns : WF_vars(ConnStep(c)) /\ WF_vars(conn[c].pc = "shut" /\ SpliceEnds(c))
  /\ WF_vars(Listed \/ Opened \/ ServeFails) /\ WF_vars(Teardown)

FairSpec == Spec /\ Fairness

----------------------------------------------------------------------------
(* Properties. *)

(* Every variable has its type (the fields of Forwarder, entry and State). *)
TypeOK ==
  /\ phase \in {"opening", "serving", "draining", "closing", "closed", "exited"}
  /\ sock \in [Sockets -> Ids \cup {None, Other}]
  /\ deaf \subseteq Ids
  /\ table \subseteq Entries
  /\ closed \in BOOLEAN /\ told \in BOOLEAN
  /\ doomed \in [ents : SUBSET Entries, conns : SUBSET Conns]
  /\ conn \in [Conns -> ConnType]
  /\ tracked \subseteq Conns
  /\ act \in [Actors -> ActType]
  /\ file.ok \in BOOLEAN /\ file.rows \subseteq Rows /\ file.size \in Nat

(* What the table lists is bound on the host, and no two rows share a key: *)
(* no interleaving of Publish, Unpublish and Close leaves a listed port    *)
(* without its listener.                                                   *)
TableServed ==
  /\ \A e \in table : sock[<<e.addr, e.port>>] = e.id
  /\ \A e, d \in table : SameKey(e, d) => e = d

(* No listener is left behind: each one is in the table of a forwarder     *)
(* that is open, in the hands of a request that will insert or close it,   *)
(* or among those Close is closing.                                        *)
NoLeak ==
  \A i \in Bound : \/ ~closed /\ i \in IdsOf(table)
                   \/ i \in IdsOf(doomed.ents)
                   \/ \E a \in Actors : i \in IdsOf(act[a].ents)

(* "--unpublish 8080:3000 --publish 8080:4000" does not race against       *)
(* itself: when the command comes to publish, every listener that it       *)
(* removed is closed (the wait in Unpublish).                              *)
MovesItsPort ==
  \A a \in Actors : At(a, "bind") => act[a].gone \cap Bound = {}

(* What is listed, what is bound and what is being closed stay in step     *)
(* (Publish, Unpublish and Close, which all let go of the lock to bind or  *)
(* to close).                                                              *)
ListenersInStep == TableServed /\ NoLeak /\ MovesItsPort

(* A row's error changes only through a connection that came in on that    *)
(* row's own listener: a late failure of a port's former forward does not  *)
(* mark the one published since (the identity check of noteError).         *)
ErrorIsOwn ==
  \A e \in table, d \in table' :
    SameKey(e, d) /\ e.err # d.err =>
      \E c \in Conns : conn[c].pc = "note" /\ conn[c].id = d.id
ErrorsAreOwn == [][ErrorIsOwn]_vars

(* Once Close has returned no connection is spliced any more: it was shut  *)
(* by Close, or refused by track.                                          *)
NoSpliceAfterClose ==
  phase \in {"closed", "exited"} => \A c \in Conns : conn[c].pc # "splice"

(* Every command is answered, and a teardown that has begun ends, whatever *)
(* requests and connections are under way.                                 *)
RequestsEnd ==
  /\ \A a \in Terms : ~At(a, "idle") ~> At(a, "idle")
  /\ phase = "draining" ~> phase = "exited"

(* The state file is in step with what is published whenever nobody is     *)
(* about to change either (publishedState).                                *)
FileInStep ==
  (/\ phase = "serving"
   /\ \A a \in Actors : At(a, "idle")
   /\ \A c \in Conns : conn[c].pc \in {"none", "splice", "over"})
    => file = Text(Listing(table))
============================================================================
