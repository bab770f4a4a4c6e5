------------------------ MODULE PortForwarderProofs ------------------------
(***************************************************************************)
(* Proofs about PortForwarder for any number of terminals, connections,    *)
(* ports and listeners, and any commands.                                  *)
(***************************************************************************)
EXTENDS PortForwarder, SequenceTheorems, TLAPS

(* Every variable but the state file, which decides nothing here but       *)
(* whether a request is sent.                                              *)
Typed ==
  /\ sock \in [Sockets -> Ids \cup {None, Other}]
  /\ table \subseteq Entries
  /\ closed \in BOOLEAN
  /\ doomed \in [ents : SUBSET Entries, conns : SUBSET Conns]
  /\ conn \in [Conns -> ConnType]
  /\ tracked \subseteq Conns
  /\ act \in [Actors -> ActType]

(* What a request holds goes with what it is doing.                        *)
Purposeful(r) ==
  /\ r.ents # {} => r.pc \in {"bind", "insert", "close"}
  /\ r.pc = "bind" => r.addrs # <<>>
  /\ r.pc \in {"bind", "insert"} => r.op = "pub" /\ r.pub # <<>>
AllPurposeful == \A a \in Actors : Purposeful(act[a])

(* The forwarder is open until the teardown closes it, and then empty; the *)
(* supervisor's own goroutine publishes only before it serves.             *)
Early == phase \in {"opening", "serving", "draining"}
Phases ==
  /\ act[Main].pc # "idle" => phase = "opening"
  /\ Early => ~closed /\ doomed.ents = {} /\ doomed.conns = {}
  /\ ~Early => closed
  /\ closed => table = {} /\ tracked = {}
  /\ phase \in {"closed", "exited"} => doomed.ents = {} /\ doomed.conns = {}

(* Whoever has a listener: it is bound where it says, and nobody else has  *)
(* one of its identity.                                                    *)
Bind(es) == \A e \in es : sock[<<e.addr, e.port>>] = e.id
Served == Bind(table) /\ Bind(doomed.ents) /\ \A a \in Actors : Bind(act[a].ents)

Unique(es) == \A e, d \in es : e.id = d.id => e = d
Apart(es, ds) == \A e \in es, d \in ds : e.id # d.id
Distinct ==
  /\ Unique(table) /\ Unique(doomed.ents) /\ Apart(table, doomed.ents)
  /\ \A a \in Actors : /\ Unique(act[a].ents)
                       /\ Apart(act[a].ents, table) /\ Apart(act[a].ents, doomed.ents)
  /\ \A a, b \in Actors : a # b => Apart(act[a].ents, act[b].ents)

(* A listener that a request took off the table is bound only while that   *)
(* request is about to close it.                                           *)
GoneIsClosing ==
  \A a \in Actors, i \in Ids :
    i \in act[a].gone /\ (\E s \in Sockets : sock[s] = i)
      => act[a].pc = "close" /\ \E e \in act[a].ents : e.id = i

(* A connection that is spliced is known to the forwarder, or to Close.    *)
SplicesKnown ==
  \A c \in Conns : conn[c].pc = "splice" => c \in tracked \cup doomed.conns

Listeners == Served /\ Distinct /\ NoLeak /\ GoneIsClosing
IInv == Typed /\ AllPurposeful /\ Phases /\ Listeners /\ SplicesKnown
----------------------------------------------------------------------------
(* The records that actions start from. *)
LEMMA IdleTyped ==
  /\ Idle \in ActType /\ Idle.pc = "idle" /\ Idle.ents = {} /\ Idle.gone = {}
  /\ Idle.un = <<>> /\ Idle.pub = <<>> /\ Purposeful(Idle)
<1>1. <<>> \in Seq(Specs) /\ <<>> \in Seq(Addrs)
  OBVIOUS
<1>2. /\ Idle \in ActType /\ Idle.pc = "idle" /\ Idle.ents = {} /\ Idle.gone = {}
      /\ Idle.un = <<>> /\ Idle.pub = <<>>
  BY <1>1 DEF Idle, ActType, ActPcs
<1> QED BY <1>2 DEF Purposeful

(* The records of a connection that is yet to come, and of one that is     *)
(* over.                                                                   *)
LEMMA OverTyped ==
  /\ NoConn \in ConnType /\ NoConn.pc = "none"
  /\ Over \in ConnType /\ Over.pc = "over"
<1> DEFINE n == NoConn
<1>1. n \in ConnType /\ n.pc = "none"
  BY DEF NoConn, ConnType, ConnPcs
<1> HIDE DEF n
<1>2. [n EXCEPT !.pc = "over"] \in ConnType /\ [n EXCEPT !.pc = "over"].pc = "over"
  BY <1>1 DEF ConnType, ConnPcs
<1> QED BY <1>1, <1>2 DEF n, Over

(* An entry is bound at one of the host's sockets. *)
LEMMA EntrySocket ==
  ASSUME NEW e \in Entries
  PROVE  <<e.addr, e.port>> \in Sockets /\ e.id \in Ids
BY DEF Entries, Sockets

(* A row of a listing for every entry. *)
LEMMA ListingTyped ==
  ASSUME NEW t, t \subseteq Entries
  PROVE  Listing(t) \subseteq Rows
BY DEF Listing, Row, Rows, Entries

(* A specification has at least one address to bind. *)
LEMMA BindsTyped ==
  ASSUME NEW spec \in Specs
  PROVE  Binds(spec) \in Seq(Addrs) /\ Binds(spec) # <<>>
<1>1. <<"v4">> \in Seq(Addrs) /\ <<"v6">> \in Seq(Addrs) /\ <<"v4", "v6">> \in Seq(Addrs)
  BY DEF Addrs
<1>2. spec.addr # "any" => <<spec.addr>> \in Seq(Addrs)
  BY DEF Specs, Addrs
<1> QED BY <1>1, <1>2 DEF Binds
----------------------------------------------------------------------------
(* Steps that leave every listener where it is. *)
LEMMA ListenersStay ==
  ASSUME IInv, UNCHANGED <<sock, table, closed>>, doomed'.ents = doomed.ents,
         \A a \in Actors : /\ act'[a].ents = act[a].ents /\ act'[a].gone \subseteq act[a].gone
                           /\ act[a].pc = "close" => act'[a].pc = "close"
  PROVE  Listeners'
<1>0. Served /\ Distinct /\ NoLeak /\ GoneIsClosing
  BY DEF IInv, Listeners
<1>1. Served'
  BY <1>0 DEF Served, Bind
<1>2. Distinct'
  BY <1>0 DEF Distinct, Unique, Apart
<1>3. NoLeak'
  BY <1>0 DEF NoLeak, Bound, IdsOf
<1>4. GoneIsClosing'
  BY <1>0 DEF GoneIsClosing
<1> QED BY <1>1, <1>2, <1>3, <1>4 DEF Listeners

(* Steps that close listeners: who had one no longer does, and every other *)
(* stays where it is.                                                      *)
LEMMA ListenersFreed ==
  ASSUME IInv, NEW ids \in SUBSET Ids, sock' = Freed(ids), UNCHANGED closed,
         table' \subseteq table, doomed'.ents \subseteq doomed.ents,
         \A e \in table' \cup doomed'.ents : e.id \notin ids,
         \A e \in table : e \in table' \/ e.id \in ids,
         \A e \in doomed.ents : e \in doomed'.ents \/ e.id \in ids,
         \A a \in Actors :
           /\ act'[a].ents \subseteq act[a].ents /\ act'[a].gone \subseteq act[a].gone
           /\ \A e \in act'[a].ents : e.id \notin ids
           /\ \A e \in act[a].ents : e \in act'[a].ents \/ e.id \in ids
           /\ act[a].pc = "close" /\ act'[a].ents # {} => act'[a].pc = "close"
  PROVE  Listeners'
<1>0. Served /\ Distinct /\ NoLeak /\ GoneIsClosing /\ Typed
  BY DEF IInv, Listeners
<1>1. \A s \in Sockets : sock'[s] = IF sock[s] \in ids THEN None ELSE sock[s]
  BY DEF Freed
<1>2. ASSUME NEW es, es \subseteq Entries, Bind(es), NEW fs, fs \subseteq es,
             \A e \in fs : e.id \notin ids, NEW e \in fs
      PROVE  sock'[<<e.addr, e.port>>] = e.id
  BY <1>1, <1>2, EntrySocket DEF Bind
<1>3. \A a \in Actors : act[a].ents \subseteq Entries
  BY <1>0 DEF Typed, ActType
<1>4. Served'
  <2>1. \A e \in table' : sock'[<<e.addr, e.port>>] = e.id
    BY <1>0, <1>2 DEF Served, Typed
  <2>2. \A e \in doomed'.ents : sock'[<<e.addr, e.port>>] = e.id
    BY <1>0, <1>2 DEF Served, Typed
  <2>3. \A a \in Actors : \A e \in act'[a].ents : sock'[<<e.addr, e.port>>] = e.id
    <3>1. TAKE a \in Actors
    <3>2. /\ act[a].ents \subseteq Entries /\ Bind(act[a].ents)
          /\ act'[a].ents \subseteq act[a].ents
          /\ \A e \in act'[a].ents : e.id \notin ids
      BY <1>0, <1>3 DEF Served
    <3>3. TAKE e \in act'[a].ents
    <3> QED BY <1>2, <3>2
  <2> QED BY <2>1, <2>2, <2>3 DEF Served, Bind
<1>5. Distinct'
  BY <1>0 DEF Distinct, Unique, Apart
<1>6. \A i \in Bound' : i \in Bound /\ i \notin ids
  BY <1>1 DEF Bound
<1>7. NoLeak'
  <2>1. ASSUME NEW i \in Bound'
        PROVE  \/ ~closed' /\ i \in {e.id : e \in table'}
               \/ i \in {e.id : e \in doomed'.ents}
               \/ \E a \in Actors : i \in {e.id : e \in act'[a].ents}
    <3>1. \/ ~closed /\ i \in {e.id : e \in table}
          \/ i \in {e.id : e \in doomed.ents}
          \/ \E a \in Actors : i \in {e.id : e \in act[a].ents}
      BY <1>0, <1>6, <2>1 DEF NoLeak, IdsOf
    <3> QED BY <1>6, <2>1, <3>1
  <2> QED BY <2>1 DEF NoLeak, IdsOf
<1>8. GoneIsClosing'
  <2>1. ASSUME NEW a \in Actors, NEW i \in Ids, i \in act'[a].gone, NEW s \in Sockets, sock'[s] = i
        PROVE  act'[a].pc = "close" /\ \E e \in act'[a].ents : e.id = i
    <3>1. sock[s] = i /\ i \notin ids
      BY <1>1, <2>1, PortsAssumption
    <3>2. act[a].pc = "close" /\ \E e \in act[a].ents : e.id = i
      BY <1>0, <2>1, <3>1 DEF GoneIsClosing
    <3> QED BY <3>1, <3>2
  <2> QED BY <2>1 DEF GoneIsClosing
<1> QED BY <1>4, <1>5, <1>7, <1>8 DEF Listeners
----------------------------------------------------------------------------
(* Steps of one actor. *)
LEMMA ActorMoves ==
  ASSUME IInv, NEW a \in Actors, NEW r \in ActType, Purposeful(r), act' = [act EXCEPT ![a] = r]
  PROVE  /\ act' \in [Actors -> ActType] /\ act'[a] = r
         /\ \A b \in Actors \ {a} : act'[b] = act[b]
         /\ AllPurposeful'
BY DEF IInv, Typed, AllPurposeful

(* A step of one actor that touches no port. *)
LEMMA ActorStep ==
  ASSUME IInv, NEW a \in Actors, NEW r \in ActType, Purposeful(r), act' = [act EXCEPT ![a] = r],
         r.ents = act[a].ents, r.gone \subseteq act[a].gone, act[a].pc # "close",
         UNCHANGED <<sock, table, closed, doomed, conn, tracked>>, Phases'
  PROVE  IInv'
<1>1. /\ act' \in [Actors -> ActType] /\ act'[a] = r
      /\ \A b \in Actors \ {a} : act'[b] = act[b]
      /\ AllPurposeful'
  BY ActorMoves
<1>2. Listeners'
  BY <1>1, ListenersStay
<1>3. Typed' /\ SplicesKnown'
  BY <1>1 DEF IInv, Typed, SplicesKnown
<1> QED BY <1>1, <1>2, <1>3 DEF IInv

(* Main publishes only while it is not idle. *)
LEMMA PhaseStays ==
  ASSUME IInv, NEW a \in Actors, NEW r, act' = [act EXCEPT ![a] = r],
         a = Main => act[a].pc # "idle" \/ r.pc = "idle",
         UNCHANGED <<phase, closed>>, doomed' = doomed, tracked' = tracked,
         closed => table' = {}
  PROVE  Phases'
<1>1. act'[Main].pc # "idle" => phase = "opening"
  BY DEF IInv, Typed, Phases, Actors
<1> QED BY <1>1 DEF IInv, Phases, Early

(* What is known of the actor that takes a step. *)
LEMMA ActorFacts ==
  ASSUME IInv, NEW a \in Actors
  PROVE  /\ act[a] \in ActType /\ Purposeful(act[a])
         /\ act[a].pc \notin {"bind", "insert", "close"} => act[a].ents = {}
         /\ table \subseteq Entries
BY DEF IInv, Typed, AllPurposeful, Purposeful

(* A user types a command. *)
LEMMA TypeKeeps ==
  ASSUME IInv, NEW a \in Terms, NEW cmd \in Commands, Type(a, cmd)
  PROVE  IInv'
<1> DEFINE x == Idle
           un == cmd.un
           pub == cmd.pub
           r == [x EXCEPT !.pc = "call", !.un = un, !.pub = pub]
<1>1. /\ x \in ActType /\ x.ents = {} /\ x.gone = {} /\ un \in Seq(Specs) /\ pub \in Seq(Specs)
      /\ a \in Actors /\ a # Main
  BY IdleTyped, PortsAssumption DEF Actors
<1>2. /\ act[a].pc = "idle" /\ act' = [act EXCEPT ![a] = r]
      /\ UNCHANGED <<phase, sock, deaf, table, closed, told, doomed, conn, tracked, file>>
  BY DEF Type, At
<1>3. act[a].ents = {}
  BY <1>1, <1>2, ActorFacts
<1> HIDE DEF x, un, pub
<1>4. r \in ActType /\ r.pc = "call" /\ r.ents = {} /\ r.gone = {}
  BY <1>1 DEF ActType, ActPcs
<1> HIDE DEF r
<1>5. Purposeful(r)
  BY <1>4 DEF Purposeful
<1>6. Phases'
  BY <1>1, <1>2, PhaseStays DEF IInv, Phases
<1> QED BY <1>1, <1>2, <1>3, <1>4, <1>5, <1>6, ActorStep

(* An actor that is over, where nothing of its own is left. *)
LEMMA EndKeeps ==
  ASSUME IInv, NEW a \in Actors, act[a].pc \notin {"bind", "insert", "close"},
         act' = [act EXCEPT ![a] = Idle],
         UNCHANGED <<sock, table, closed, doomed, conn, tracked>>, Phases'
  PROVE  IInv'
BY ActorFacts, IdleTyped, ActorStep

(* A request is sent, or the sandbox cannot be found. *)
LEMMA CallKeeps ==
  ASSUME IInv, NEW a \in Actors, Call(a)
  PROVE  IInv'
<1> DEFINE x == act[a]
           op == IF x.un # <<>> THEN "un" ELSE "pub"
           r == [x EXCEPT !.pc = "next", !.op = op]
<1>1. /\ x.pc = "call"
      /\ UNCHANGED <<phase, sock, deaf, table, closed, told, doomed, conn, tracked, file>>
      /\ act' = [act EXCEPT ![a] = r] \/ act' = [act EXCEPT ![a] = Idle]
  BY DEF Call, At
<1>2. x \in ActType /\ x.ents = {} /\ op \in {"un", "pub"}
  BY <1>1, ActorFacts
<1>3. ASSUME NEW y, act' = [act EXCEPT ![a] = y] PROVE Phases'
  BY <1>1, <1>3, PhaseStays DEF IInv, Phases
<1>4. CASE act' = [act EXCEPT ![a] = r]
  <2>1. r \in ActType /\ r.pc = "next" /\ r.ents = {} /\ r.gone = x.gone
    <3> HIDE DEF x, op
    <3> QED BY <1>2 DEF ActType, ActPcs
  <2> HIDE DEF r
  <2>2. Purposeful(r)
    BY <2>1 DEF Purposeful
  <2> QED BY <1>1, <1>2, <1>3, <1>4, <2>1, <2>2, ActorStep
<1>5. CASE act' = [act EXCEPT ![a] = Idle]
  BY <1>1, <1>3, <1>5, EndKeeps
<1> QED BY <1>1, <1>4, <1>5

(* A request is answered. *)
LEMMA AnswerKeeps ==
  ASSUME IInv, NEW a \in Actors, Answer(a)
  PROVE  IInv'
<1> DEFINE x == act[a]
           r == [x EXCEPT !.pc = "call"]
<1>1. /\ x.pc = "next"
      /\ UNCHANGED <<phase, sock, deaf, table, closed, told, doomed, conn, tracked, file>>
      /\ act' = [act EXCEPT ![a] = r] \/ act' = [act EXCEPT ![a] = Idle]
  BY DEF Answer, At
<1>2. x \in ActType /\ x.ents = {}
  BY <1>1, ActorFacts
<1>3. ASSUME NEW y, act' = [act EXCEPT ![a] = y] PROVE Phases'
  BY <1>1, <1>3, PhaseStays DEF IInv, Phases
<1>4. CASE act' = [act EXCEPT ![a] = r]
  <2>1. r \in ActType /\ r.pc = "call" /\ r.ents = {} /\ r.gone = x.gone
    <3> HIDE DEF x
    <3> QED BY <1>2 DEF ActType, ActPcs
  <2> HIDE DEF r
  <2>2. Purposeful(r)
    BY <2>1 DEF Purposeful
  <2> QED BY <1>1, <1>2, <1>3, <1>4, <2>1, <2>2, ActorStep
<1>5. CASE act' = [act EXCEPT ![a] = Idle]
  BY <1>1, <1>3, <1>5, EndKeeps
<1> QED BY <1>1, <1>4, <1>5

(* A request has the state file written. *)
LEMMA NotifyKeeps ==
  ASSUME IInv, NEW a \in Actors, Notify(a) \/ Write(a)
  PROVE  IInv'
<1> DEFINE x == act[a]
           r == [x EXCEPT !.pc = "next", !.list = {}]
           w == [x EXCEPT !.pc = "write"]
<1>1. /\ x.pc \in {"notify", "write"}
      /\ UNCHANGED <<phase, sock, deaf, table, closed, told, doomed, conn, tracked>>
      /\ \/ act' = [act EXCEPT ![a].pc = "next", ![a].list = {}]
         \/ act' = [act EXCEPT ![a].pc = "write"]
  BY DEF Notify, Write, At
<1>2. x \in ActType /\ x.ents = {}
  BY <1>1, ActorFacts
<1>3. act' = [act EXCEPT ![a] = r] \/ act' = [act EXCEPT ![a] = w]
  BY <1>1 DEF IInv, Typed
<1>4. ASSUME NEW y, act' = [act EXCEPT ![a] = y] PROVE Phases'
  BY <1>1, <1>4, PhaseStays DEF IInv, Phases
<1>5. /\ r \in ActType /\ r.pc = "next" /\ r.ents = {} /\ r.gone = x.gone
      /\ w \in ActType /\ w.pc = "write" /\ w.ents = {} /\ w.gone = x.gone
  <2> HIDE DEF x
  <2> QED BY <1>2 DEF ActType, ActPcs
<1> HIDE DEF r, w
<1>6. Purposeful(r) /\ Purposeful(w)
  BY <1>5 DEF Purposeful
<1>7. CASE act' = [act EXCEPT ![a] = r]
  BY <1>1, <1>2, <1>4, <1>5, <1>6, <1>7, ActorStep
<1>8. CASE act' = [act EXCEPT ![a] = w]
  BY <1>1, <1>2, <1>4, <1>5, <1>6, <1>8, ActorStep
<1> QED BY <1>3, <1>7, <1>8

(* The supervisor has published the first ports, and serves or gives up. *)
LEMMA ServeKeeps ==
  ASSUME IInv, Listed \/ Opened \/ ServeFails
  PROVE  IInv'
<1> DEFINE x == act[Main]
           l == Listing(table)
           r == [x EXCEPT !.pc = "listed", !.list = l]
<1>1. /\ Main \in Actors /\ x \in ActType /\ table \subseteq Entries /\ x.pc \in {"next", "listed"}
      /\ UNCHANGED <<sock, table, closed, doomed, conn, tracked>>
  BY ActorFacts DEF Actors, Listed, Opened, ServeFails, At
<1>2. x.ents = {} /\ phase = "opening" /\ ~closed /\ doomed.ents = {} /\ doomed.conns = {}
  BY <1>1, ActorFacts DEF IInv, Phases, Early
<1>3. CASE Listed
  <2>1. act' = [act EXCEPT ![Main].pc = "listed", ![Main].list = l] /\ phase' = phase
    BY <1>3 DEF Listed
  <2>2. act' = [act EXCEPT ![Main] = r]
    BY <2>1 DEF IInv, Typed
  <2>3. l \subseteq Rows
    BY <1>1, ListingTyped
  <2>4. r \in ActType /\ r.pc = "listed" /\ r.ents = {} /\ r.gone = x.gone
    <3> HIDE DEF x, l
    <3> QED BY <1>1, <1>2, <2>3 DEF ActType, ActPcs
  <2> HIDE DEF r
  <2>5. Purposeful(r)
    BY <2>4 DEF Purposeful
  <2>6. Phases'
    BY <1>1, <1>2, <2>1, <2>2, PhaseStays
  <2> QED BY <1>1, <1>2, <2>2, <2>4, <2>5, <2>6, ActorStep
<1>4. CASE Opened \/ ServeFails
  <2>1. act' = [act EXCEPT ![Main] = Idle] /\ phase' \in {"serving", "draining"}
    BY <1>4 DEF Opened, ServeFails
  <2>2. act'[Main].pc = "idle"
    BY <1>1, <2>1, IdleTyped DEF IInv, Typed
  <2>3. Phases'
    BY <1>1, <1>2, <2>1, <2>2 DEF Phases, Early
  <2> QED BY <1>1, <2>1, <2>3, EndKeeps
<1> QED BY <1>3, <1>4

(* A request that fails closes what it has bound. *)
LEMMA FailKeeps ==
  ASSUME IInv, NEW a \in Actors, Fail(a), act[a].pc # "idle",
         UNCHANGED <<table, closed, doomed, conn, tracked>>
  PROVE  IInv'
<1> DEFINE ids == IdsOf(act[a].ents)
<1>1. /\ act' = [act EXCEPT ![a] = Idle] /\ sock' = Freed(ids)
      /\ phase' = IF a = Main THEN "draining" ELSE phase
  BY DEF Fail
<1>2. /\ act' \in [Actors -> ActType] /\ act'[a] = Idle
      /\ \A b \in Actors \ {a} : act'[b] = act[b]
      /\ AllPurposeful'
  BY <1>1, IdleTyped, ActorMoves
<1>3. Typed /\ Distinct /\ act[a] \in ActType
  BY ActorFacts DEF IInv, Listeners
<1>4. ids \in SUBSET Ids
  BY <1>3 DEF IdsOf, ActType, Entries
<1>5. \A e \in table \cup doomed.ents : e.id \notin ids
  BY <1>3 DEF IdsOf, Distinct, Apart
<1>6. \A b \in Actors \ {a} : \A e \in act[b].ents : e.id \notin ids
  BY <1>3 DEF IdsOf, Distinct, Apart
<1>7. \A e \in act[a].ents : e.id \in ids
  BY DEF IdsOf
<1>8. Idle.ents = {} /\ Idle.gone = {} /\ Idle.pc = "idle"
  BY IdleTyped
<1>9. \A s \in Sockets : sock'[s] = IF sock[s] \in ids THEN None ELSE sock[s]
  BY <1>1 DEF Freed
<1>10. sock' \in [Sockets -> Ids \cup {None, Other}]
  BY <1>1, <1>3 DEF Freed, Typed
<1> HIDE DEF ids
<1>11. Listeners'
  BY <1>1, <1>2, <1>4, <1>5, <1>6, <1>7, <1>8, ListenersFreed
<1>12. Phases'
  BY <1>1, <1>2, <1>8 DEF IInv, Phases, Early, Actors
<1>13. Typed' /\ SplicesKnown'
  BY <1>2, <1>10 DEF IInv, Typed, SplicesKnown
<1> QED BY <1>2, <1>11, <1>12, <1>13 DEF IInv
----------------------------------------------------------------------------
(* Publish and Unpublish. *)
LEMMA PublishCheckKeeps ==
  ASSUME IInv, NEW a \in Actors, PublishCheck(a)
  PROVE  IInv'
<1> DEFINE x == act[a]
           spec == Spec1(a)
           bs == Binds(spec)
           port == spec.port
           r == [x EXCEPT !.pc = "bind", !.addrs = bs, !.port = port]
<1>1. /\ x.pc = "next" /\ x.op = "pub" /\ x.pub # <<>>
      /\ UNCHANGED <<deaf, table, closed, told, doomed, conn, tracked, file>>
      /\ Fail(a) \/ (act' = [act EXCEPT ![a] = r] /\ UNCHANGED <<sock, phase>>)
  BY DEF PublishCheck, At
<1>2. x \in ActType /\ x.ents = {}
  BY <1>1, ActorFacts
<1>3. spec \in Specs
  BY <1>1, <1>2 DEF Spec1, ActType
<1>4. bs \in Seq(Addrs) /\ bs # <<>> /\ port \in HostPorts \cup {0}
  BY <1>3, BindsTyped DEF Specs
<1>5. CASE act' = [act EXCEPT ![a] = r] /\ UNCHANGED <<sock, phase>>
  <2>1. /\ r \in ActType /\ r.pc = "bind" /\ r.ents = {} /\ r.gone = x.gone /\ r.addrs = bs
        /\ r.op = x.op /\ r.pub = x.pub
    <3> HIDE DEF x, bs, port
    <3> QED BY <1>2, <1>4 DEF ActType, ActPcs
  <2>2. Phases'
    BY <1>1, <1>5, PhaseStays DEF IInv, Phases
  <2> HIDE DEF r
  <2>3. Purposeful(r)
    BY <1>1, <1>4, <2>1 DEF Purposeful
  <2> QED BY <1>1, <1>2, <1>5, <2>1, <2>2, <2>3, ActorStep
<1>6. CASE Fail(a)
  BY <1>1, <1>6, FailKeeps
<1> QED BY <1>1, <1>5, <1>6

(* An address is in use. *)
LEMMA PublishBindFailsKeeps ==
  ASSUME IInv, NEW a \in Actors, PublishBindFails(a)
  PROVE  IInv'
BY FailKeeps DEF PublishBindFails, At

(* A new listener has an identity that nobody has. *)
LEMMA FreshIdentity ==
  ASSUME NEW i, i \notin InUse
  PROVE  /\ \A e \in table \cup doomed.ents : e.id # i
         /\ \A b \in Actors : i \notin act[b].gone /\ \A e \in act[b].ents : e.id # i
<1>1. i \notin IdsOf(table) /\ i \notin IdsOf(doomed.ents)
  BY DEF InUse
<1>2. \A b \in Actors : i \notin IdsOf(act[b].ents) \cup act[b].gone
  BY DEF InUse
<1> QED BY <1>1, <1>2 DEF IdsOf

(* The next address is bound, by a listener with an identity of its own. *)
LEMMA PublishBindKeeps ==
  ASSUME IInv, NEW a \in Actors, PublishBind(a)
  PROVE  IInv'
<1> DEFINE x == act[a]
           addr == Head(x.addrs)
           rest == Tail(x.addrs)
           sb == Spec1(a).sb
           i == CHOOSE j \in Ids : j \notin InUse
           pc == IF Len(x.addrs) = 1 THEN "insert" ELSE "bind"
<1>1. PICK p \in HostPorts :
        /\ sock[<<addr, p>>] = None
        /\ sock' = [sock EXCEPT ![<<addr, p>>] = i]
        /\ act' = [act EXCEPT
             ![a].addrs = Tail(@), ![a].port = p, ![a].pc = pc,
             ![a].ents = @ \cup {[id |-> i, addr |-> addr, port |-> p, sb |-> sb, err |-> FALSE]}]
  BY DEF PublishBind
<1> DEFINE e == [id |-> i, addr |-> addr, port |-> p, sb |-> sb, err |-> FALSE]
           es == x.ents \cup {e}
           r == [x EXCEPT !.addrs = rest, !.port = p, !.pc = pc, !.ents = es]
<1>2. /\ x.pc = "bind" /\ Ids \ InUse # {}
      /\ UNCHANGED <<phase, deaf, table, closed, told, doomed, conn, tracked, file>>
  BY DEF PublishBind, At
<1>3. act' = [act EXCEPT ![a] = r]
  <2>1. act' = [act EXCEPT ![a].addrs = Tail(@), ![a].port = p, ![a].pc = pc, ![a].ents = @ \cup {e}]
    BY <1>1
  <2>2. act \in [Actors -> ActType]
    BY DEF IInv, Typed
  <2> HIDE DEF e, pc
  <2> QED BY <2>1, <2>2 DEF ActType
<1>4. /\ x \in ActType /\ x.addrs # <<>> /\ x.op = "pub" /\ x.pub # <<>>
  BY <1>2, ActorFacts DEF Purposeful
<1>5. i \in Ids /\ i \notin InUse
  BY <1>2
<1>6. /\ addr \in Addrs /\ rest \in Seq(Addrs) /\ pc \in {"bind", "insert"}
      /\ pc = "bind" => rest # <<>>
  <2> DEFINE q == x.addrs
  <2>1. q \in Seq(Addrs) /\ q # <<>>
    BY <1>4 DEF ActType
  <2> HIDE DEF q
  <2>2. /\ Head(q) \in Addrs /\ Tail(q) \in Seq(Addrs) /\ Len(q) \in Nat
        /\ Len(Tail(q)) = Len(q) - 1
    BY <2>1, HeadTailProperties, LenProperties
  <2>3. Tail(q) = <<>> => Len(Tail(q)) = 0
    BY EmptySeq
  <2>4. Len(q) # 1 => Tail(q) # <<>>
    BY <2>2, <2>3
  <2>5. addr = Head(q) /\ rest = Tail(q) /\ pc = IF Len(q) = 1 THEN "insert" ELSE "bind"
    BY DEF q
  <2> HIDE DEF addr, rest, pc
  <2> QED BY <2>2, <2>4, <2>5
<1>7. sb \in SbPorts
  <2>1. Spec1(a) \in Specs
    BY <1>4 DEF Spec1, ActType
  <2> QED BY <2>1 DEF Specs
<1> HIDE DEF i
<1>8. e \in Entries /\ e.id = i /\ e.addr = addr /\ e.port = p
  BY <1>5, <1>6, <1>7 DEF Entries
<1>9. es \subseteq Entries
  BY <1>4, <1>8 DEF ActType
<1>10. /\ r \in ActType /\ r.pc = pc /\ r.ents = es /\ r.gone = x.gone /\ r.addrs = rest
       /\ r.op = x.op /\ r.pub = x.pub
  <2>1. x \in ActType /\ rest \in Seq(Addrs) /\ pc \in {"bind", "insert"} /\ es \subseteq Entries
    BY <1>4, <1>6, <1>9
  <2> HIDE DEF x, rest, pc, es
  <2> QED BY <2>1 DEF ActType, ActPcs
<1> HIDE DEF r, e, pc
<1>11. Purposeful(r)
  BY <1>4, <1>6, <1>10 DEF Purposeful
<1>12. /\ act' \in [Actors -> ActType] /\ act'[a] = r
       /\ \A b \in Actors \ {a} : act'[b] = act[b]
       /\ AllPurposeful'
  BY <1>3, <1>10, <1>11, ActorMoves
<1>13. Phases'
  BY <1>2, <1>3, PhaseStays DEF IInv, Phases
<1>14. /\ Typed /\ Served /\ Distinct /\ NoLeak /\ GoneIsClosing
  BY DEF IInv, Listeners
<1>15. /\ \A d \in table \cup doomed.ents : d.id # i
       /\ \A b \in Actors : i \notin act[b].gone /\ \A d \in act[b].ents : d.id # i
  BY <1>5, FreshIdentity
<1> DEFINE s0 == <<addr, p>>
<1>16. /\ s0 \in Sockets /\ sock[s0] = None /\ sock' \in [Sockets -> Ids \cup {None, Other}]
       /\ sock'[s0] = i /\ \A s \in Sockets \ {s0} : sock'[s] = sock[s]
       /\ <<e.addr, e.port>> = s0
  BY <1>1, <1>5, <1>6, <1>8, <1>14 DEF Typed, Sockets
<1> HIDE DEF s0
<1>17. ASSUME NEW ds, ds \subseteq Entries, Bind(ds), NEW d \in ds
       PROVE  sock'[<<d.addr, d.port>>] = d.id
  <2>1. sock[<<d.addr, d.port>>] = d.id /\ d.id # None /\ <<d.addr, d.port>> \in Sockets
    BY <1>17, EntrySocket, PortsAssumption DEF Bind
  <2> QED BY <1>16, <2>1
<1>18. Served'
  <2>1. \A d \in table : sock'[<<d.addr, d.port>>] = d.id
    BY <1>14, <1>17 DEF Typed, Served
  <2>2. \A d \in doomed.ents : sock'[<<d.addr, d.port>>] = d.id
    BY <1>14, <1>17 DEF Typed, Served
  <2>3. \A b \in Actors : \A d \in act[b].ents : sock'[<<d.addr, d.port>>] = d.id
    BY <1>14, <1>17 DEF Typed, Served, ActType
  <2>4. \A b \in Actors : \A d \in act'[b].ents : sock'[<<d.addr, d.port>>] = d.id
    BY <1>8, <1>10, <1>12, <1>16, <2>3
  <2> QED BY <1>2, <2>1, <2>2, <2>4 DEF Served, Bind
<1>19. Distinct'
  BY <1>2, <1>8, <1>10, <1>12, <1>14, <1>15 DEF Distinct, Unique, Apart
<1>20. NoLeak'
  <2>1. \A j \in Bound' : j \in Bound \/ j = i
    BY <1>16 DEF Bound
  <2>2. \A j \in IdsOf(act[a].ents) \cup {i} : j \in IdsOf(act'[a].ents)
    BY <1>8, <1>10, <1>12 DEF IdsOf
  <2> QED BY <1>2, <1>12, <1>14, <2>1, <2>2 DEF NoLeak, IdsOf
<1>21. GoneIsClosing'
  <2>1. ASSUME NEW b \in Actors, NEW j \in Ids, j \in act'[b].gone, NEW s \in Sockets, sock'[s] = j
        PROVE  act'[b].pc = "close" /\ \E d \in act'[b].ents : d.id = j
    <3>1. j \in act[b].gone /\ j # i
      BY <1>10, <1>12, <1>15, <2>1
    <3>2. sock[s] = j
      BY <1>16, <2>1, <3>1
    <3>3. act[b].pc = "close" /\ \E d \in act[b].ents : d.id = j
      BY <1>14, <2>1, <3>1, <3>2 DEF GoneIsClosing
    <3> QED BY <1>2, <1>12, <3>3
  <2> QED BY <2>1 DEF GoneIsClosing
<1>22. Typed' /\ SplicesKnown'
  BY <1>2, <1>12, <1>16 DEF IInv, Typed, SplicesKnown
<1> QED BY <1>12, <1>13, <1>18, <1>19, <1>20, <1>21, <1>22 DEF IInv, Listeners

(* The listeners of a request enter the table.                             *)
LEMMA PublishInsertKeeps ==
  ASSUME IInv, NEW a \in Actors, PublishInsert(a)
  PROVE  IInv'
<1> DEFINE x == act[a]
           rest == Tail(x.pub)
           l == Listing(table')
           r == [x EXCEPT !.pc = "notify", !.ents = {}, !.list = l, !.pub = rest]
<1>1. /\ x.pc = "insert"
      /\ UNCHANGED <<deaf, closed, told, doomed, conn, tracked, file>>
      /\ \/ Fail(a) /\ UNCHANGED table
         \/ /\ ~closed /\ table' = table \cup x.ents
            /\ act' = [act EXCEPT ![a].pc = "notify", ![a].ents = {}, ![a].list = l, ![a].pub = rest]
            /\ UNCHANGED <<sock, phase>>
  BY DEF PublishInsert, At
<1>2. CASE Fail(a) /\ UNCHANGED table
  BY <1>1, <1>2, FailKeeps
<1>3. CASE /\ ~closed /\ table' = table \cup x.ents
           /\ act' = [act EXCEPT ![a].pc = "notify", ![a].ents = {}, ![a].list = l, ![a].pub = rest]
           /\ UNCHANGED <<sock, phase>>
  <2>1. /\ x \in ActType /\ x.pub # <<>> /\ table \subseteq Entries /\ act \in [Actors -> ActType]
    BY <1>1, ActorFacts DEF Purposeful, IInv, Typed
  <2>2. table' \subseteq Entries /\ x.ents \subseteq Entries /\ x.pub \in Seq(Specs)
    BY <1>3, <2>1 DEF ActType
  <2>3. l \subseteq Rows
    BY <2>2, ListingTyped
  <2>4. rest \in Seq(Specs)
    BY <2>1, <2>2, HeadTailProperties
  <2> HIDE DEF l, rest
  <2>5. act' = [act EXCEPT ![a] = r]
    BY <1>3, <2>1 DEF ActType
  <2>6. r \in ActType /\ r.pc = "notify" /\ r.ents = {} /\ r.gone = x.gone
    <3> HIDE DEF x
    <3> QED BY <2>1, <2>3, <2>4 DEF ActType, ActPcs
  <2> HIDE DEF r
  <2>7. Purposeful(r)
    BY <2>6 DEF Purposeful
  <2>8. /\ act' \in [Actors -> ActType] /\ act'[a] = r
        /\ \A b \in Actors \ {a} : act'[b] = act[b]
        /\ AllPurposeful'
    BY <2>5, <2>6, <2>7, ActorMoves
  <2>9. Phases'
    BY <1>1, <1>3, <2>5, PhaseStays DEF IInv, Phases
  <2>10. Served /\ Distinct /\ NoLeak /\ GoneIsClosing
    BY DEF IInv, Listeners
  <2>11. Served'
    BY <1>1, <1>3, <2>6, <2>8, <2>10 DEF Served, Bind
  <2>12. Distinct'
    BY <1>1, <1>3, <2>6, <2>8, <2>10 DEF Distinct, Unique, Apart
  <2>13. NoLeak'
    <3>1. IdsOf(table') = IdsOf(table) \cup IdsOf(x.ents)
      BY <1>3 DEF IdsOf
    <3>2. \A b \in Actors \ {a} : act'[b].ents = act[b].ents
      BY <2>8
    <3>3. IdsOf(x.ents) \subseteq IdsOf(table') /\ IdsOf(table) \subseteq IdsOf(table')
      BY <3>1
    <3>4. ASSUME NEW i \in Bound
          PROVE  \/ ~closed' /\ i \in IdsOf(table')
                 \/ i \in IdsOf(doomed'.ents)
                 \/ \E b \in Actors : i \in IdsOf(act'[b].ents)
      BY <1>1, <1>3, <2>10, <3>2, <3>3 DEF NoLeak
    <3>5. Bound' = Bound
      BY <1>3 DEF Bound
    <3> QED BY <3>4, <3>5 DEF NoLeak, IdsOf
  <2>14. GoneIsClosing'
    BY <1>1, <1>3, <2>6, <2>8, <2>10 DEF GoneIsClosing
  <2>15. Typed' /\ SplicesKnown'
    BY <1>1, <1>3, <2>2, <2>8 DEF IInv, Typed, SplicesKnown
  <2> QED BY <2>8, <2>9, <2>11, <2>12, <2>13, <2>14, <2>15 DEF IInv, Listeners
<1> QED BY <1>1, <1>2, <1>3

(* A request takes listeners off the table, and holds them until they are  *)
(* closed.                                                                 *)
LEMMA UnpublishRemoveKeeps ==
  ASSUME IInv, NEW a \in Actors, UnpublishRemove(a)
  PROVE  IInv'
<1> DEFINE x == act[a]
           hit == {e \in table : Matches(e, Spec1(a))}
           rest == Tail(x.un)
           l == Listing(table')
           gone == x.gone \cup IdsOf(hit)
           r == [x EXCEPT !.pc = "close", !.ents = hit, !.list = l, !.un = rest, !.gone = gone]
<1>1. /\ x.pc = "next" /\ x.un # <<>>
      /\ UNCHANGED <<deaf, closed, told, doomed, conn, tracked, file>>
      /\ \/ Fail(a) /\ UNCHANGED table
         \/ /\ table' = table \ hit
            /\ act' = [act EXCEPT ![a].pc = "close", ![a].ents = hit, ![a].list = l,
                                  ![a].un = rest, ![a].gone = @ \cup IdsOf(hit)]
            /\ UNCHANGED <<sock, phase>>
  BY DEF UnpublishRemove, At
<1>2. CASE Fail(a) /\ UNCHANGED table
  BY <1>1, <1>2, FailKeeps
<1>3. CASE /\ table' = table \ hit
           /\ act' = [act EXCEPT ![a].pc = "close", ![a].ents = hit, ![a].list = l,
                                 ![a].un = rest, ![a].gone = @ \cup IdsOf(hit)]
           /\ UNCHANGED <<sock, phase>>
  <2>1. /\ x \in ActType /\ x.ents = {} /\ table \subseteq Entries /\ act \in [Actors -> ActType]
    BY <1>1, ActorFacts DEF IInv, Typed
  <2>2. hit \subseteq table
    OBVIOUS
  <2> HIDE DEF hit
  <2>3. table' \subseteq Entries /\ hit \subseteq Entries /\ x.un \in Seq(Specs) /\ x.gone \subseteq Ids
    BY <1>3, <2>1, <2>2 DEF ActType
  <2>4. l \subseteq Rows
    BY <2>3, ListingTyped
  <2>5. rest \in Seq(Specs)
    BY <1>1, <2>3, HeadTailProperties
  <2>6. gone \subseteq Ids
    BY <2>3 DEF IdsOf, Entries
  <2> HIDE DEF l, rest
  <2>7. act' = [act EXCEPT ![a] = r]
    BY <1>3, <2>1 DEF ActType
  <2>8. r \in ActType /\ r.pc = "close" /\ r.ents = hit /\ r.gone = gone
    <3> HIDE DEF x, gone
    <3> QED BY <2>1, <2>3, <2>4, <2>5, <2>6 DEF ActType, ActPcs
  <2> HIDE DEF r
  <2>9. Purposeful(r)
    BY <2>8 DEF Purposeful
  <2>10. /\ act' \in [Actors -> ActType] /\ act'[a] = r
         /\ \A b \in Actors \ {a} : act'[b] = act[b]
         /\ AllPurposeful'
    BY <2>7, <2>8, <2>9, ActorMoves
  <2>11. Phases'
    <3>1. closed => table' = {}
      BY <1>3 DEF IInv, Phases
    <3> QED BY <1>1, <1>3, <2>7, <3>1, PhaseStays
  <2>12. Served /\ Distinct /\ NoLeak /\ GoneIsClosing
    BY DEF IInv, Listeners
  <2>13. Served'
    BY <1>1, <1>3, <2>2, <2>8, <2>10, <2>12 DEF Served, Bind
  <2>14. Distinct'
    BY <1>1, <1>3, <2>2, <2>8, <2>10, <2>12 DEF Distinct, Unique, Apart
  <2>15. NoLeak'
    <3>1. IdsOf(table) = IdsOf(table') \cup IdsOf(hit)
      BY <1>3, <2>2 DEF IdsOf
    <3>2. act'[a].ents = hit /\ \A b \in Actors \ {a} : act'[b].ents = act[b].ents
      BY <2>8, <2>10
    <3>3. IdsOf(x.ents) = {}
      BY <2>1 DEF IdsOf
    <3> QED BY <1>1, <1>3, <2>12, <3>1, <3>2, <3>3 DEF NoLeak, Bound
  <2>16. GoneIsClosing'
    <3>1. ASSUME NEW b \in Actors, NEW i \in Ids, i \in act'[b].gone, NEW s \in Sockets, sock'[s] = i
          PROVE  act'[b].pc = "close" /\ \E e \in act'[b].ents : e.id = i
      <4>1. CASE b # a
        BY <1>3, <2>10, <2>12, <3>1, <4>1 DEF GoneIsClosing
      <4>2. CASE b = a
        <5>1. i \notin x.gone
          BY <1>1, <1>3, <2>12, <3>1 DEF GoneIsClosing
        <5>2. i \in IdsOf(hit)
          BY <2>8, <2>10, <3>1, <4>2, <5>1
        <5> QED BY <2>8, <2>10, <4>2, <5>2 DEF IdsOf
      <4> QED BY <4>1, <4>2
    <3> QED BY <3>1 DEF GoneIsClosing
  <2>17. Typed' /\ SplicesKnown'
    BY <1>1, <1>3, <2>3, <2>10 DEF IInv, Typed, SplicesKnown
  <2> QED BY <2>10, <2>11, <2>13, <2>14, <2>15, <2>16, <2>17 DEF IInv, Listeners
<1> QED BY <1>1, <1>2, <1>3

(* A request closes the next of the listeners it took off the table.       *)
LEMMA UnpublishCloseKeeps ==
  ASSUME IInv, NEW a \in Actors, UnpublishClose(a)
  PROVE  IInv'
<1> DEFINE x == act[a]
<1>1. PICK e \in x.ents :
        /\ sock' = Freed({e.id})
        /\ act' = [act EXCEPT ![a].ents = @ \ {e},
                              ![a].pc = IF act[a].ents = {e} THEN "notify" ELSE "close"]
  BY DEF UnpublishClose
<1> DEFINE pc == IF x.ents = {e} THEN "notify" ELSE "close"
           es == x.ents \ {e}
           r == [x EXCEPT !.ents = es, !.pc = pc]
<1>2. x.pc = "close" /\ UNCHANGED <<phase, table, closed, told, doomed, conn, tracked, file>>
  BY DEF UnpublishClose, At
<1>3. x \in ActType /\ table \subseteq Entries /\ act \in [Actors -> ActType] /\ Distinct
  BY ActorFacts DEF IInv, Typed, Listeners
<1>4. /\ e \in Entries /\ es \subseteq Entries /\ pc \in {"notify", "close"}
      /\ es # {} => pc = "close"
      /\ e.id \in Ids
  BY <1>3, EntrySocket DEF ActType
<1>5. act' = [act EXCEPT ![a] = r]
  <2>1. act' = [act EXCEPT ![a].ents = @ \ {e}, ![a].pc = pc]
    BY <1>1
  <2> HIDE DEF pc
  <2> QED BY <1>3, <2>1 DEF ActType
<1> HIDE DEF pc
<1>6. r \in ActType /\ r.pc = pc /\ r.ents = es /\ r.gone = x.gone
  <2> HIDE DEF x, es
  <2> QED BY <1>3, <1>4 DEF ActType, ActPcs
<1> HIDE DEF r
<1>7. Purposeful(r)
  BY <1>4, <1>6 DEF Purposeful
<1>8. /\ act' \in [Actors -> ActType] /\ act'[a] = r
      /\ \A b \in Actors \ {a} : act'[b] = act[b]
      /\ AllPurposeful'
  BY <1>5, <1>6, <1>7, ActorMoves
<1>9. Phases'
  BY <1>2, <1>5, PhaseStays DEF IInv, Phases
<1> DEFINE ids == {e.id}
<1>10. Listeners'
  <2>1. ids \in SUBSET Ids
    BY <1>4
  <2>2. \A d \in table \cup doomed.ents : d.id \notin ids
    BY <1>3 DEF Distinct, Apart
  <2>3. \A b \in Actors \ {a} : \A d \in act[b].ents : d.id \notin ids
    BY <1>3 DEF Distinct, Apart
  <2>4. \A d \in es : d.id \notin ids
    BY <1>3 DEF Distinct, Unique
  <2>5. \A d \in x.ents : d \in es \/ d.id \in ids
    OBVIOUS
  <2>6. \A b \in Actors :
           /\ act'[b].ents \subseteq act[b].ents /\ act'[b].gone \subseteq act[b].gone
           /\ \A d \in act'[b].ents : d.id \notin ids
           /\ \A d \in act[b].ents : d \in act'[b].ents \/ d.id \in ids
           /\ act[b].pc = "close" /\ act'[b].ents # {} => act'[b].pc = "close"
    BY <1>4, <1>6, <1>8, <2>3, <2>4, <2>5
  <2>7. sock' = Freed(ids)
    BY <1>1
  <2> HIDE DEF ids
  <2> QED BY <1>2, <2>1, <2>2, <2>6, <2>7, ListenersFreed
<1>11. sock' \in [Sockets -> Ids \cup {None, Other}]
  BY <1>1 DEF Freed, IInv, Typed
<1>12. Typed' /\ SplicesKnown'
  BY <1>2, <1>8, <1>11 DEF IInv, Typed, SplicesKnown
<1> QED BY <1>8, <1>9, <1>10, <1>12 DEF IInv
----------------------------------------------------------------------------
(* Connections. *)

(* A step of one connection that leaves the listeners as they should be,   *)
(* and forgets no splice.                                                  *)
LEMMA ConnMoves ==
  ASSUME IInv, NEW c \in Conns, NEW k \in ConnType, conn' = [conn EXCEPT ![c] = k],
         UNCHANGED <<phase, sock, closed, act>>, Listeners', table' \subseteq Entries,
         closed => table' = {} /\ tracked' = {},
         tracked' \subseteq Conns, doomed' \in [ents : SUBSET Entries, conns : SUBSET Conns],
         doomed'.ents = doomed.ents, doomed'.conns \subseteq doomed.conns,
         k.pc = "splice" => c \in tracked',
         \A d \in Conns \ {c} : d \in tracked \cup doomed.conns => d \in tracked' \cup doomed'.conns
  PROVE  IInv'
<1>1. /\ conn' \in [Conns -> ConnType] /\ conn'[c] = k
      /\ \A d \in Conns \ {c} : conn'[d] = conn[d]
  BY DEF IInv, Typed
<1>2. SplicesKnown'
  BY <1>1 DEF IInv, SplicesKnown
<1>3. Typed' /\ AllPurposeful'
  BY <1>1 DEF IInv, Typed, AllPurposeful
<1>4. Phases'
  BY DEF IInv, Phases, Early
<1> QED BY <1>2, <1>3, <1>4 DEF IInv

(* A step of one connection that touches no port.                          *)
LEMMA ConnKeeps ==
  ASSUME IInv, NEW c \in Conns, NEW k \in ConnType, conn' = [conn EXCEPT ![c] = k],
         UNCHANGED <<phase, sock, table, closed, act, tracked, doomed>>, k.pc # "splice"
  PROVE  IInv'
<1>1. Listeners'
  BY ListenersStay
<1>2. /\ table' \subseteq Entries /\ (closed => table' = {} /\ tracked' = {})
      /\ tracked' \subseteq Conns /\ doomed' \in [ents : SUBSET Entries, conns : SUBSET Conns]
  BY DEF IInv, Typed, Phases
<1> QED BY <1>1, <1>2, ConnMoves

(* A connection whose outcome is recorded.                                 *)
LEMMA NotedTyped ==
  ASSUME NEW k \in ConnType
  PROVE  Noted(k) \in ConnType /\ Noted(k).pc \in {"track", "over"}
<1> DEFINE r == [k EXCEPT !.pc = "track", !.list = {}]
<1>1. r \in ConnType /\ r.pc = "track"
  BY DEF ConnType, ConnPcs
<1> HIDE DEF r
<1>2. Noted(k) = r \/ Noted(k) = Over
  BY DEF Noted, r
<1> QED BY <1>1, <1>2, OverTyped

(* A connection comes in. *)
LEMMA AcceptKeeps ==
  ASSUME IInv, NEW c \in Conns, NEW i \in Ids, Accept(c, i)
  PROVE  IInv'
<1> DEFINE x == NoConn
           k == [x EXCEPT !.pc = "dial", !.id = i]
<1>1. x \in ConnType
  BY OverTyped
<1>2. conn' = [conn EXCEPT ![c] = k] /\ UNCHANGED <<phase, sock, table, closed, act, tracked, doomed>>
  BY DEF Accept
<1> HIDE DEF x
<1>3. k \in ConnType /\ k.pc # "splice"
  BY <1>1 DEF ConnType, ConnPcs
<1> HIDE DEF k
<1> QED BY <1>2, <1>3, ConnKeeps

(* The guest answers, or does not. *)
LEMMA DialKeeps ==
  ASSUME IInv, NEW c \in Conns, NEW ok \in BOOLEAN, Dial(c, ok)
  PROVE  IInv'
<1> DEFINE x == conn[c]
           k == [x EXCEPT !.pc = "note", !.ok = ok]
<1>1. x \in ConnType /\ conn \in [Conns -> ConnType]
  BY DEF IInv, Typed
<1>2. /\ conn' = [conn EXCEPT ![c].pc = "note", ![c].ok = ok]
      /\ UNCHANGED <<phase, sock, table, closed, act, tracked, doomed>>
  BY DEF Dial
<1>3. conn' = [conn EXCEPT ![c] = k]
  BY <1>1, <1>2
<1> HIDE DEF x
<1>4. k \in ConnType /\ k.pc # "splice"
  BY <1>1 DEF ConnType, ConnPcs
<1> HIDE DEF k
<1> QED BY <1>2, <1>3, <1>4, ConnKeeps

(* A connection has the state file written. *)
LEMMA ConnNotifyKeeps ==
  ASSUME IInv, NEW c \in Conns, ConnNotify(c) \/ ConnWrite(c)
  PROVE  IInv'
<1> DEFINE x == conn[c]
           w == [x EXCEPT !.pc = "write"]
           n == Noted(x)
<1>1. x \in ConnType /\ conn \in [Conns -> ConnType]
  BY DEF IInv, Typed
<1>2. /\ conn' = [conn EXCEPT ![c] = n] \/ conn' = [conn EXCEPT ![c].pc = "write"]
      /\ UNCHANGED <<phase, sock, table, closed, act, tracked, doomed>>
  BY DEF ConnNotify, ConnWrite
<1>3. conn' = [conn EXCEPT ![c] = n] \/ conn' = [conn EXCEPT ![c] = w]
  <2> HIDE DEF n
  <2> QED BY <1>1, <1>2
<1>4. n \in ConnType /\ n.pc # "splice"
  BY <1>1, NotedTyped
<1> HIDE DEF x, n
<1>5. w \in ConnType /\ w.pc # "splice"
  BY <1>1 DEF ConnType, ConnPcs
<1> HIDE DEF w
<1>6. CASE conn' = [conn EXCEPT ![c] = n]
  BY <1>2, <1>4, <1>6, ConnKeeps
<1>7. CASE conn' = [conn EXCEPT ![c] = w]
  BY <1>2, <1>5, <1>7, ConnKeeps
<1> QED BY <1>3, <1>6, <1>7

(* A connection is spliced, unless the forwarder is closed. *)
LEMMA TrackKeeps ==
  ASSUME IInv, NEW c \in Conns, Track(c)
  PROVE  IInv'
<1> DEFINE x == conn[c]
           k == [x EXCEPT !.pc = "splice"]
<1>1. x \in ConnType /\ conn \in [Conns -> ConnType] /\ tracked \subseteq Conns
  BY DEF IInv, Typed
<1>2. /\ \/ conn' = [conn EXCEPT ![c] = Over] /\ tracked' = tracked
         \/ ~closed /\ conn' = [conn EXCEPT ![c].pc = "splice"] /\ tracked' = tracked \cup {c}
      /\ UNCHANGED <<phase, sock, table, closed, act, doomed>>
  BY DEF Track
<1>3. CASE conn' = [conn EXCEPT ![c] = Over] /\ tracked' = tracked
  BY <1>2, <1>3, OverTyped, ConnKeeps
<1>4. CASE ~closed /\ conn' = [conn EXCEPT ![c].pc = "splice"] /\ tracked' = tracked \cup {c}
  <2>1. conn' = [conn EXCEPT ![c] = k]
    BY <1>1, <1>4
  <2>2. k \in ConnType
    <3> HIDE DEF x
    <3> QED BY <1>1 DEF ConnType, ConnPcs
  <2> HIDE DEF k
  <2>3. Listeners'
    BY <1>2, ListenersStay
  <2>4. /\ table \subseteq Entries /\ doomed \in [ents : SUBSET Entries, conns : SUBSET Conns]
        /\ tracked' \subseteq Conns
    BY <1>1, <1>4 DEF IInv, Typed
  <2> QED BY <1>2, <1>4, <2>1, <2>2, <2>3, <2>4, ConnMoves
<1> QED BY <1>2, <1>3, <1>4

(* A connection ends. *)
LEMMA SpliceEndsKeeps ==
  ASSUME IInv, NEW c \in Conns, SpliceEnds(c)
  PROVE  IInv'
<1> DEFINE cs == doomed.conns \ {c}
<1>1. /\ conn' = [conn EXCEPT ![c] = Over] /\ tracked' = tracked \ {c}
      /\ doomed' = [doomed EXCEPT !.conns = cs]
      /\ UNCHANGED <<phase, sock, table, closed, act>>
  BY DEF SpliceEnds
<1>2. /\ doomed \in [ents : SUBSET Entries, conns : SUBSET Conns]
      /\ table \subseteq Entries /\ tracked \subseteq Conns
  BY DEF IInv, Typed
<1>3. /\ doomed' \in [ents : SUBSET Entries, conns : SUBSET Conns]
      /\ doomed'.ents = doomed.ents /\ doomed'.conns = doomed.conns \ {c}
  BY <1>1, <1>2
<1>4. Listeners'
  BY <1>1, <1>3, ListenersStay
<1>5. closed => table' = {} /\ tracked' = {}
  BY <1>1 DEF IInv, Phases
<1> HIDE DEF cs
<1>6. UNCHANGED <<phase, sock, closed, act>> /\ table' = table
  BY <1>1
<1>7. conn' = [conn EXCEPT ![c] = Over] /\ tracked' = tracked \ {c}
  BY <1>1
<1> QED BY <1>2, <1>3, <1>4, <1>5, <1>6, <1>7, OverTyped, ConnMoves

(* An entry whose error has come, or gone ...                              *)
Flip(e) == [e EXCEPT !.err = ~@]

(* ... is in every other respect the entry it was.                         *)
LEMMA FlipTyped ==
  ASSUME NEW e \in Entries
  PROVE  /\ Flip(e) \in Entries /\ Flip(e).id = e.id
         /\ Flip(e).addr = e.addr /\ Flip(e).port = e.port /\ Flip(e).sb = e.sb
BY DEF Flip, Entries

(* What noteError makes of the table: the same listeners, in the same      *)
(* places.                                                                 *)
LEMMA NoteErrorTable ==
  ASSUME IInv, NEW c \in Conns, NoteError(c)
  PROVE  \E mine \in SUBSET table :
           /\ \A e \in mine : e.id = conn[c].id
           /\ table' = (table \ mine) \cup {Flip(e) : e \in mine}
           /\ \/ conn' = [conn EXCEPT ![c] = Noted(conn[c])]
              \/ conn' = [conn EXCEPT ![c] = [conn[c] EXCEPT !.pc = "notify", !.list = Listing(table')]]
<1> DEFINE mine == {e \in table : e.id = conn[c].id /\ e.err = conn[c].ok}
           new == (table \ mine) \cup {[e EXCEPT !.err = ~@] : e \in mine}
<1>1. /\ table' = new
      /\ conn' = [conn EXCEPT ![c] =
           IF mine = {} THEN Noted(@) ELSE [@ EXCEPT !.pc = "notify", !.list = Listing(new)]]
  BY DEF NoteError
<1>2. \/ conn' = [conn EXCEPT ![c] = Noted(conn[c])]
      \/ conn' = [conn EXCEPT ![c] = [conn[c] EXCEPT !.pc = "notify", !.list = Listing(table')]]
  <2> HIDE DEF mine, new
  <2> QED BY <1>1
<1>3. \A e \in mine : e.id = conn[c].id
  OBVIOUS
<1>4. mine \in SUBSET table
  OBVIOUS
<1>5. table' = (table \ mine) \cup {Flip(e) : e \in mine}
  <2>1. new = (table \ mine) \cup {Flip(e) : e \in mine}
    <3> HIDE DEF mine
    <3> QED BY DEF Flip
  <2> QED BY <1>1, <2>1
<1> HIDE DEF mine, new
<1> QED BY <1>2, <1>3, <1>4, <1>5

(* noteError marks, or clears, its own listener's row. *)
LEMMA NoteErrorKeeps ==
  ASSUME IInv, NEW c \in Conns, NoteError(c)
  PROVE  IInv'
<1>1. PICK mine \in SUBSET table :
        /\ \A e \in mine : e.id = conn[c].id
        /\ table' = (table \ mine) \cup {Flip(e) : e \in mine}
        /\ \/ conn' = [conn EXCEPT ![c] = Noted(conn[c])]
           \/ conn' = [conn EXCEPT ![c] = [conn[c] EXCEPT !.pc = "notify", !.list = Listing(table')]]
  BY NoteErrorTable
<1>2. UNCHANGED <<sock, phase, deaf, closed, told, doomed, tracked, act, file>>
  BY DEF NoteError
<1>3. /\ table \subseteq Entries /\ conn[c] \in ConnType /\ conn \in [Conns -> ConnType]
      /\ tracked \subseteq Conns /\ doomed \in [ents : SUBSET Entries, conns : SUBSET Conns]
  BY DEF IInv, Typed
<1>4. Served /\ Distinct /\ NoLeak /\ GoneIsClosing
  BY DEF IInv, Listeners
<1>5. \A e \in mine : /\ Flip(e) \in Entries /\ Flip(e).id = e.id
                      /\ Flip(e).addr = e.addr /\ Flip(e).port = e.port
  BY <1>3, FlipTyped
<1>6. /\ table' \subseteq Entries
      /\ \A d \in table' : \E e \in table : e.id = d.id /\ e.addr = d.addr /\ e.port = d.port
      /\ \A e \in table : \E d \in table' : e.id = d.id
  BY <1>1, <1>3, <1>5
<1>7. Unique(table')
  <2>1. ASSUME NEW d \in table', NEW f \in table', d.id = f.id
        PROVE  d = f
    <3>1. Unique(table)
      BY <1>4 DEF Distinct
    <3>2. CASE d \in table \ mine /\ f \in table \ mine
      BY <2>1, <3>1, <3>2 DEF Unique
    <3>3. CASE d \in table \ mine /\ \E e \in mine : f = Flip(e)
      BY <1>5, <2>1, <3>1, <3>3 DEF Unique
    <3>4. CASE f \in table \ mine /\ \E e \in mine : d = Flip(e)
      BY <1>5, <2>1, <3>1, <3>4 DEF Unique
    <3>5. CASE (\E e \in mine : d = Flip(e)) /\ \E e \in mine : f = Flip(e)
      BY <1>5, <2>1, <3>1, <3>5 DEF Unique
    <3> QED BY <1>1, <2>1, <3>2, <3>3, <3>4, <3>5
  <2> QED BY <2>1 DEF Unique
<1>8. Served'
  <2>1. ASSUME NEW d \in table' PROVE sock'[<<d.addr, d.port>>] = d.id
    BY <1>2, <1>4, <1>6 DEF Served, Bind
  <2> QED BY <1>2, <1>4, <2>1 DEF Served, Bind
<1>9. Distinct'
  BY <1>2, <1>4, <1>6, <1>7 DEF Distinct, Unique, Apart
<1>10. NoLeak'
  <2>1. \A i \in IdsOf(table) : i \in IdsOf(table')
    BY <1>6 DEF IdsOf
  <2> QED BY <1>2, <1>4, <2>1 DEF NoLeak, Bound
<1>11. GoneIsClosing'
  BY <1>2, <1>4 DEF GoneIsClosing
<1>12. Listeners'
  BY <1>8, <1>9, <1>10, <1>11 DEF Listeners
<1>13. closed => table' = {} /\ tracked' = {}
  <2>1. closed => table = {} /\ tracked = {}
    BY DEF IInv, Phases
  <2> QED BY <1>2, <1>6, <2>1
<1>14. ASSUME NEW k \in ConnType, k.pc # "splice", conn' = [conn EXCEPT ![c] = k]
       PROVE  IInv'
  BY <1>2, <1>3, <1>6, <1>12, <1>13, <1>14, ConnMoves
<1> DEFINE x == conn[c]
           l == Listing(table')
           w == [x EXCEPT !.pc = "notify", !.list = l]
<1>15. Noted(x) \in ConnType /\ Noted(x).pc # "splice"
  BY <1>3, NotedTyped
<1>16. l \subseteq Rows
  BY <1>6, ListingTyped
<1>17. w \in ConnType /\ w.pc # "splice"
  <2>1. x \in ConnType
    BY <1>3
  <2> HIDE DEF x, l
  <2> QED BY <1>16, <2>1 DEF ConnType, ConnPcs
<1>18. conn' = [conn EXCEPT ![c] = Noted(x)] \/ conn' = [conn EXCEPT ![c] = w]
  BY <1>1
<1> HIDE DEF x, w
<1> QED BY <1>14, <1>15, <1>17, <1>18
----------------------------------------------------------------------------
(* The supervisor. *)

(* Close takes over the table and the connections.                         *)
LEMMA CloseStartKeeps ==
  ASSUME IInv, CloseStart
  PROVE  IInv'
<1>1. /\ phase = "draining" /\ phase' = "closing" /\ closed' = TRUE
      /\ doomed' = [ents |-> table, conns |-> tracked] /\ table' = {} /\ tracked' = {}
      /\ UNCHANGED <<sock, deaf, told, conn, act, file>>
  BY DEF CloseStart
<1>2. Served /\ Distinct /\ NoLeak /\ GoneIsClosing /\ Typed /\ SplicesKnown /\ AllPurposeful
  BY DEF IInv, Listeners
<1>3. doomed.ents = {} /\ doomed.conns = {} /\ ~closed /\ act[Main].pc = "idle"
  BY <1>1 DEF IInv, Phases, Early
<1>4. doomed'.ents = table /\ doomed'.conns = tracked
  BY <1>1
<1>5. Served'
  BY <1>1, <1>2, <1>4 DEF Served, Bind
<1>6. Distinct'
  BY <1>1, <1>2, <1>4 DEF Distinct, Unique, Apart
<1>7. NoLeak'
  BY <1>1, <1>2, <1>3, <1>4 DEF NoLeak, Bound, IdsOf
<1>8. GoneIsClosing'
  BY <1>1, <1>2 DEF GoneIsClosing
<1>9. SplicesKnown'
  BY <1>1, <1>2, <1>3, <1>4 DEF SplicesKnown
<1>10. Typed' /\ AllPurposeful'
  BY <1>1, <1>2 DEF Typed, AllPurposeful
<1>11. Phases'
  BY <1>1, <1>3 DEF Phases, Early
<1> QED BY <1>5, <1>6, <1>7, <1>8, <1>9, <1>10, <1>11 DEF IInv, Listeners

(* Close closes the next listener.                                         *)
LEMMA CloseListenerKeeps ==
  ASSUME IInv, CloseListener
  PROVE  IInv'
<1>1. PICK e \in doomed.ents :
        sock' = Freed({e.id}) /\ doomed' = [doomed EXCEPT !.ents = @ \ {e}]
  BY DEF CloseListener
<1> DEFINE ids == {e.id}
<1>2. phase = "closing" /\ UNCHANGED <<phase, table, closed, told, conn, tracked, act, file>>
  BY DEF CloseListener
<1>3. Typed /\ Distinct /\ doomed \in [ents : SUBSET Entries, conns : SUBSET Conns]
  BY DEF IInv, Typed, Listeners
<1>4. /\ doomed' \in [ents : SUBSET Entries, conns : SUBSET Conns]
      /\ doomed'.ents = doomed.ents \ {e} /\ doomed'.conns = doomed.conns
  BY <1>1, <1>3
<1>5. e.id \in Ids
  BY <1>3 DEF Entries
<1>6. Listeners'
  <2>1. ids \in SUBSET Ids /\ sock' = Freed(ids)
    BY <1>1, <1>5
  <2>2. \A d \in table' \cup doomed'.ents : d.id \notin ids
    BY <1>2, <1>3, <1>4 DEF Distinct, Apart, Unique
  <2>3. \A d \in doomed.ents : d \in doomed'.ents \/ d.id \in ids
    BY <1>4
  <2>4. \A b \in Actors : \A d \in act[b].ents : d.id \notin ids
    BY <1>3 DEF Distinct, Apart
  <2> HIDE DEF ids
  <2> QED BY <1>2, <1>4, <2>1, <2>2, <2>3, <2>4, ListenersFreed
<1>7. sock' \in [Sockets -> Ids \cup {None, Other}]
  BY <1>1, <1>3 DEF Freed, Typed
<1>8. Typed' /\ AllPurposeful' /\ SplicesKnown'
  BY <1>2, <1>4, <1>7 DEF IInv, Typed, AllPurposeful, SplicesKnown
<1>9. Phases'
  BY <1>2, <1>4 DEF IInv, Phases, Early
<1> QED BY <1>6, <1>8, <1>9 DEF IInv

(* Close shuts the connections it took over; there are no others.          *)
LEMMA CloseConnsKeeps ==
  ASSUME IInv, CloseConns
  PROVE  IInv'
<1>1. /\ phase = "closing" /\ doomed.ents = {} /\ phase' = "closed"
      /\ conn' = [c \in Conns |-> IF c \in doomed.conns THEN [conn[c] EXCEPT !.pc = "shut"]
                                                        ELSE conn[c]]
      /\ doomed' = [doomed EXCEPT !.conns = {}]
      /\ UNCHANGED <<sock, deaf, table, closed, told, tracked, act>>
  BY DEF CloseConns
<1>2. Typed /\ SplicesKnown /\ doomed \in [ents : SUBSET Entries, conns : SUBSET Conns]
  BY DEF IInv, Typed
<1>3. /\ doomed' \in [ents : SUBSET Entries, conns : SUBSET Conns]
      /\ doomed'.ents = doomed.ents /\ doomed'.conns = {}
  BY <1>1, <1>2
<1>4. Listeners'
  BY <1>1, <1>3, ListenersStay
<1>5. \A k \in ConnType : [k EXCEPT !.pc = "shut"] \in ConnType /\ [k EXCEPT !.pc = "shut"].pc = "shut"
  BY DEF ConnType, ConnPcs
<1>6. closed /\ tracked = {}
  BY <1>1 DEF IInv, Phases, Early
<1>7. \A c \in Conns : conn[c] \in ConnType
  BY <1>2 DEF Typed
<1>8. conn' \in [Conns -> ConnType]
  BY <1>1, <1>5, <1>7
<1>9. \A c \in Conns : conn'[c].pc # "splice"
  BY <1>1, <1>2, <1>5, <1>6, <1>7 DEF SplicesKnown
<1>10. Typed' /\ SplicesKnown' /\ AllPurposeful'
  BY <1>1, <1>3, <1>8, <1>9 DEF IInv, Typed, SplicesKnown, AllPurposeful
<1>11. Phases'
  BY <1>1, <1>3 DEF IInv, Phases, Early
<1> QED BY <1>4, <1>10, <1>11 DEF IInv

(* Nothing is left when the process ends.                                  *)
LEMMA ExitKeeps ==
  ASSUME IInv, Exit
  PROVE  IInv'
<1>1. /\ phase = "closed" /\ phase' = "exited" /\ sock' = Freed(Ids)
      /\ table' = {} /\ tracked' = {} /\ conn' = [c \in Conns |-> Over]
      /\ act' = [a \in Actors |-> Idle] /\ UNCHANGED <<closed, told, doomed, file>>
  BY DEF Exit
<1>2. Typed /\ doomed.ents = {} /\ doomed.conns = {}
  BY <1>1 DEF IInv, Phases
<1>3. \A a \in Actors : act'[a] = Idle
  BY <1>1
<1>4. act' \in [Actors -> ActType] /\ conn' \in [Conns -> ConnType] /\ \A c \in Conns : conn'[c] = Over
  BY <1>1, IdleTyped, OverTyped
<1>5. \A e \in table : e.id \in Ids
  BY <1>2, EntrySocket DEF Typed
<1>6. \A a \in Actors : \A e \in act[a].ents : e.id \in Ids
  BY <1>2, EntrySocket DEF Typed, ActType
<1>7. Idle.ents = {} /\ Idle.gone = {} /\ Idle.pc = "idle" /\ Purposeful(Idle)
  BY IdleTyped
<1>8. Listeners'
  BY <1>1, <1>2, <1>3, <1>5, <1>6, <1>7, ListenersFreed
<1>9. sock' \in [Sockets -> Ids \cup {None, Other}]
  BY <1>1, <1>2 DEF Freed, Typed
<1>10. Typed' /\ SplicesKnown' /\ AllPurposeful'
  BY <1>1, <1>2, <1>3, <1>4, <1>7, <1>9, OverTyped DEF Typed, SplicesKnown, AllPurposeful
<1>11. act'[Main].pc = "idle"
  BY <1>3, <1>7 DEF Actors
<1>12. Phases'
  BY <1>1, <1>2, <1>11 DEF IInv, Phases, Early
<1> QED BY <1>8, <1>10, <1>12 DEF IInv

(* Steps that change no more than the phase to draining, or which          *)
(* listeners still accept.                                                 *)
LEMMA QuietKeeps ==
  ASSUME IInv, UNCHANGED <<sock, table, closed, doomed, conn, tracked, act>>,
         phase' = phase \/ (phase = "serving" /\ phase' = "draining")
  PROVE  IInv'
<1>1. Listeners'
  BY ListenersStay
<1>2. Typed' /\ AllPurposeful' /\ SplicesKnown'
  BY DEF IInv, Typed, AllPurposeful, SplicesKnown
<1>3. Phases'
  BY DEF IInv, Phases, Early
<1> QED BY <1>1, <1>2, <1>3 DEF IInv
----------------------------------------------------------------------------
(* The invariant holds when the supervisor starts ...                      *)
LEMMA InitInv == Init => IInv
<1> SUFFICES ASSUME Init PROVE IInv
  OBVIOUS
<1> DEFINE x == Idle
           m == [x EXCEPT !.pc = "next", !.op = "pub", !.pub = Initial]
<1>1. /\ phase = "opening" /\ sock \in [Sockets -> {None, Other}] /\ table = {} /\ closed = FALSE
      /\ doomed = [ents |-> {}, conns |-> {}] /\ conn = [c \in Conns |-> NoConn] /\ tracked = {}
      /\ act = [a \in Actors |-> IF a = Main THEN m ELSE x]
  BY DEF Init
<1>2. x \in ActType /\ x.ents = {} /\ x.gone = {} /\ Purposeful(x) /\ x.pc = "idle"
  BY IdleTyped
<1> HIDE DEF x
<1>3. m \in ActType /\ m.ents = {} /\ m.gone = {} /\ m.pc = "next"
  BY <1>2, PortsAssumption DEF ActType, ActPcs
<1> HIDE DEF m
<1>4. Purposeful(m)
  BY <1>3 DEF Purposeful
<1>5. act \in [Actors -> ActType] /\ \A a \in Actors : act[a].ents = {} /\ act[a].gone = {}
  BY <1>1, <1>2, <1>3
<1>6. conn \in [Conns -> ConnType] /\ \A c \in Conns : conn[c].pc = "none"
  BY <1>1, OverTyped
<1>7. Typed
  BY <1>1, <1>5, <1>6 DEF Typed
<1>8. AllPurposeful
  BY <1>1, <1>2, <1>4 DEF AllPurposeful
<1>9. Phases
  BY <1>1 DEF Phases, Early
<1>10. Served /\ Distinct
  BY <1>1, <1>5 DEF Served, Distinct, Bind, Unique, Apart
<1>11. NoLeak
  BY <1>1 DEF NoLeak, Bound
<1>12. GoneIsClosing
  BY <1>5 DEF GoneIsClosing
<1>13. SplicesKnown
  BY <1>6 DEF SplicesKnown
<1> QED BY <1>7, <1>8, <1>9, <1>10, <1>11, <1>12, <1>13 DEF IInv, Listeners

(* ... and every step keeps it.                                            *)
LEMMA InvStep == IInv /\ [Next]_vars => IInv'
<1> SUFFICES ASSUME IInv, [Next]_vars PROVE IInv'
  OBVIOUS
<1>1. ASSUME NEW a \in Actors, Step(a) PROVE IInv'
  <2>1. CASE Call(a)
    BY <2>1, CallKeeps
  <2>2. CASE Answer(a)
    BY <2>2, AnswerKeeps
  <2>3. CASE PublishCheck(a)
    BY <2>3, PublishCheckKeeps
  <2>4. CASE PublishBind(a)
    BY <2>4, PublishBindKeeps
  <2>5. CASE PublishBindFails(a)
    BY <2>5, PublishBindFailsKeeps
  <2>6. CASE PublishInsert(a)
    BY <2>6, PublishInsertKeeps
  <2>7. CASE UnpublishRemove(a)
    BY <2>7, UnpublishRemoveKeeps
  <2>8. CASE UnpublishClose(a)
    BY <2>8, UnpublishCloseKeeps
  <2>9. CASE Notify(a) \/ Write(a)
    BY <2>9, NotifyKeeps
  <2> QED BY <1>1, <2>1, <2>2, <2>3, <2>4, <2>5, <2>6, <2>7, <2>8, <2>9 DEF Step
<1>2. ASSUME NEW c \in Conns, ConnStep(c) \/ SpliceEnds(c) PROVE IInv'
  BY <1>2, DialKeeps, NoteErrorKeeps, ConnNotifyKeeps, TrackKeeps, SpliceEndsKeeps DEF ConnStep
<1>3. ASSUME NEW i \in Ids, AcceptFails(i) PROVE IInv'
  BY <1>3, QuietKeeps DEF AcceptFails
<1>4. CASE Shutdown
  BY <1>4, QuietKeeps DEF Shutdown
<1>5. CASE Teardown
  BY <1>5, CloseStartKeeps, CloseListenerKeeps, CloseConnsKeeps, ExitKeeps DEF Teardown
<1>6. CASE UNCHANGED vars
  BY <1>6, QuietKeeps DEF vars
<1>7. CASE Listed \/ Opened \/ ServeFails
  BY <1>7, ServeKeeps
<1> QED BY <1>1, <1>2, <1>3, <1>4, <1>5, <1>6, <1>7, TypeKeeps, AcceptKeeps DEF Next

(* Whoever has a listener in hand, in the table or among those to close:   *)
(* it is bound where it says, it is nobody else's, and nothing else is     *)
(* bound, in every interleaving of Publish, Unpublish, noteError, track    *)
(* and Close (internal/ports/forward.go).                                  *)
THEOREM ForwarderSound == Spec => []IInv
BY InitInv, InvStep, PTL DEF Spec

(* Two rows of one key are bound at one socket, and so are one row.        *)
LEMMA KeysUnique ==
  ASSUME IInv, NEW e \in table, NEW d \in table, SameKey(e, d)
  PROVE  e = d
<1>1. Served /\ Distinct
  BY DEF IInv, Listeners
<1>2. e.id = d.id
  BY <1>1 DEF Served, Bind, SameKey
<1> QED BY <1>1, <1>2 DEF Distinct, Unique

(* What is listed is bound, what is bound is listed or in somebody's       *)
(* hands, and a command that moves a port has closed the old listener when *)
(* it binds the new one: Publish, Unpublish and Close, which let go of the *)
(* lock to bind and to close, stay in step.                                *)
THEOREM PortsInStep == Spec => []ListenersInStep
<1>1. IInv => ListenersInStep
  <2> SUFFICES ASSUME IInv PROVE ListenersInStep
    OBVIOUS
  <2>1. Served /\ NoLeak /\ GoneIsClosing /\ Typed
    BY DEF IInv, Listeners
  <2>2. TableServed
    BY <2>1, KeysUnique DEF TableServed, Served, Bind
  <2>3. MovesItsPort
    <3>1. ASSUME NEW a \in Actors, At(a, "bind"), NEW i \in act[a].gone, i \in Bound
          PROVE  FALSE
      <4>1. i \in Ids /\ \E s \in Sockets : sock[s] = i
        BY <2>1, <3>1 DEF Typed, ActType, Bound
      <4> QED BY <2>1, <3>1, <4>1 DEF GoneIsClosing, At
    <3> QED BY <3>1 DEF MovesItsPort
  <2> QED BY <2>1, <2>2, <2>3 DEF ListenersInStep
<1> QED BY <1>1, ForwarderSound, PTL

(* Once Close has returned no connection is spliced: track refuses those   *)
(* that come later, and Close has shut every one that it knew.             *)
THEOREM ClosedMeansSilent == Spec => []NoSpliceAfterClose
<1>1. IInv => NoSpliceAfterClose
  BY DEF IInv, Phases, Early, SplicesKnown, NoSpliceAfterClose
<1> QED BY <1>1, ForwarderSound, PTL

(* noteError marks a row only for a connection that came in on the row's   *)
(* own listener, whatever was published under its key in the meantime.     *)
THEOREM MarksAreOwn == Spec => ErrorsAreOwn
<1>1. IInv /\ [Next]_vars => [ErrorIsOwn]_vars
  <2> SUFFICES ASSUME IInv, Next, NEW e \in table, NEW d \in table', SameKey(e, d), e.err # d.err
               PROVE  \E c \in Conns : conn[c].pc = "note" /\ conn[c].id = d.id
    BY DEF ErrorIsOwn
  <2>1. d \notin table
    BY KeysUnique
  <2>2. CASE \E a \in Actors : PublishInsert(a)
    <3>1. PICK a \in Actors : table' = table \cup act[a].ents
                              /\ ~ \E f \in table, g \in act[a].ents : SameKey(f, g)
      BY <2>1, <2>2 DEF PublishInsert
    <3> QED BY <2>1, <3>1
  <2>3. ASSUME NEW c \in Conns, NoteError(c)
        PROVE  conn[c].pc = "note" /\ conn[c].id = d.id
    <3>1. PICK mine \in SUBSET table :
            (\A f \in mine : f.id = conn[c].id) /\ table' = (table \ mine) \cup {Flip(f) : f \in mine}
      BY <2>3, NoteErrorTable
    <3>2. PICK f \in mine : d = Flip(f)
      BY <2>1, <3>1
    <3>3. f \in Entries
      BY <3>1 DEF IInv, Typed
    <3>4. d.id = f.id
      BY <3>2, <3>3, FlipTyped
    <3>5. conn[c].pc = "note"
      BY <2>3 DEF NoteError
    <3> QED BY <3>1, <3>4, <3>5
  <2>4. CASE \E a \in Actors : UnpublishRemove(a)
    BY <2>1, <2>4 DEF UnpublishRemove
  <2>5. CASE CloseStart \/ Exit
    BY <2>5 DEF CloseStart, Exit
  <2>6. \/ table' = table
        \/ \E a \in Actors : PublishInsert(a) \/ UnpublishRemove(a)
        \/ \E c \in Conns : NoteError(c)
        \/ CloseStart \/ Exit
    BY DEF Next, Step, ConnStep, Teardown, Type, Call, Answer, PublishCheck, PublishBind,
           PublishBindFails, UnpublishClose, Notify, Write, Accept, AcceptFails, Dial,
           ConnNotify, ConnWrite, Track, SpliceEnds, Listed, Opened, ServeFails, Shutdown,
           CloseListener, CloseConns
  <2> QED BY <2>1, <2>2, <2>3, <2>4, <2>5, <2>6
<1> QED BY <1>1, ForwarderSound, PTL DEF Spec, ErrorsAreOwn
=============================================================================
