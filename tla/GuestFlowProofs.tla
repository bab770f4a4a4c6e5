--------------------------- MODULE GuestFlowProofs ---------------------------
(***************************************************************************)
(* Proofs about GuestFlow for any number of flows, any names, addresses,   *)
(* DNS answers and certificates, and any rules.                            *)
(***************************************************************************)
EXTENDS GuestFlow, TLAPS

(* What judging a flow's target establishes, for as long as the flow goes  *)
(* on: a target that is dialled was permitted or is an opened port of the  *)
(* host, an address literal is dialled and nothing else, and only a flow   *)
(* whose origin proved its name is inspected.                              *)
JudgedFlow(x) ==
  /\ x.pc \in {"resolve", "dial", "hello", "handshake", "inspecting"} =>
       x.ask.kind = "connect" /\ ~IsHost(x.ask.to)
  /\ x.pc \in {"roundtrip", "httpdial", "hostdial", "hosttunnel", "send"} =>
       x.ask.kind = "http" \/ IsHost(x.ask.to)
  /\ x.pc \in {"resolve", "roundtrip", "dial", "httpdial", "hosttunnel", "hostdial", "rawdial"} =>
       IF IsHost(x.ask.to) THEN x.ask.to \in HostPorts ELSE EvaluateDeny(x.ask.to)
  /\ x.pc = "hostdial" => IsHost(x.ask.to)
  /\ x.pc = "rawdial" => x.ask.kind = "raw"
  /\ x.pc \in {"dial", "httpdial"} =>
       ~IsHost(x.ask.to) /\ (x.ask.to.ip => x.left \subseteq {x.ask.to})
  /\ x.pc = "inspecting" => x.ask.to \in Owns[x.addr]
  /\ x.pc \notin {"inspecting", "spliced", "done", "refused"} => x.got = {}

(* NoDeniedContact and CredentialReachesItsHost, of one flow. *)
Reaches(t, a) == EvaluateDeny(a) \/ (t \in HostPorts /\ a = Loopback)
PermittedFlow(x) == x.pc \in Live => Reaches(x.ask.to, x.addr)
FaithfulFlow(x) ==
  x.got # {} =>
    /\ "key" \in x.got => x.ask.to \in Keys
    /\ "token" \in x.got => x.ask.to \in Resources /\ x.ask.kind = "connect"
    /\ x.ask.kind = "connect" /\ ~IsHost(x.ask.to) => x.ask.to \in Owns[x.addr]

TypedFlow(x) ==
  /\ x \in FlowType
  /\ x.pc \in Live => x.addr \in Addrs
  /\ x.pc \notin {"idle", "closed"} => x.ask \in Asks

SoundFlow(x) == TypedFlow(x) /\ JudgedFlow(x) /\ PermittedFlow(x) /\ FaithfulFlow(x)

(* The inductive invariant, in terms of one flow at a time. *)
IInv ==
  /\ allow \in AllowSets /\ up \in {"up", "stopped"}
  /\ pool \subseteq Targets \X Addrs
  /\ flow \in [Flows -> FlowType]
  /\ \A f \in Flows : SoundFlow(flow[f])
  /\ \A c \in pool : Reaches(c[1], c[2])
  /\ NothingOutlivesTheStack

(* One flow moves to a sound state; a flow of the forwarder is not spliced *)
(* by that once the stack has stopped.                                     *)
Moves(f) ==
  /\ flow' = [flow EXCEPT ![f] = flow'[f]]
  /\ SoundFlow(flow'[f])
  /\ up' = up
  /\ flow'[f].pc = "spliced" => flow'[f].mode # "transparent" \/ up = "up"

(* Such a step keeps the invariant if it keeps the pool's connections. *)
LEMMA MovesKeeps ==
  ASSUME IInv, NEW f \in Flows, Moves(f), allow' = allow,
         pool' \subseteq Targets \X Addrs, \A c \in pool' : Reaches(c[1], c[2])
  PROVE  IInv'
<1>1. \A g \in Flows : flow'[g] = IF g = f THEN flow'[f] ELSE flow[g]
  BY DEF IInv, Moves
<1>2. flow' \in [Flows -> FlowType]
  BY DEF IInv, Moves, SoundFlow, TypedFlow
<1>3. \A g \in Flows : SoundFlow(flow'[g])
  BY <1>1 DEF IInv, Moves
<1>4. NothingOutlivesTheStack'
  BY <1>1 DEF IInv, Moves, NothingOutlivesTheStack
<1> QED BY <1>2, <1>3, <1>4
        DEF IInv, Moves, SoundFlow, TypedFlow, JudgedFlow, PermittedFlow, FaithfulFlow, Reaches,
            EvaluateDeny, IsHost

(* The records of flows that are made from others. *)
LEMMA FlowUpdates ==
  ASSUME NEW x \in FlowType, NEW pc \in Pcs
  PROVE  LET y == [x EXCEPT !.pc = pc]
         IN  /\ y \in FlowType /\ y.pc = pc
             /\ y.ask = x.ask /\ y.mode = x.mode /\ y.left = x.left
             /\ y.addr = x.addr /\ y.got = x.got
BY DEF FlowType

(* A flow that does nothing has the type of a flow, and has received       *)
(* nothing.                                                                *)
LEMMA IdleTyped ==
  Idle \in FlowType /\ Idle.pc = "idle" /\ Idle.got = {} /\ Idle.mode = "bypass"
<1>1. <<>> \in Seq(Decisions) /\ 0 \in 0 .. MaxRequests
  BY FlowAssumption
<1> QED BY <1>1 DEF Idle, FlowType, Pcs, Modes

(* A flow that has not been opened, or that is over. *)
LEMMA IdleSound ==
  ASSUME NEW x \in FlowType, x.pc \in {"idle", "closed"}, x.got = {}
  PROVE  SoundFlow(x)
BY DEF SoundFlow, TypedFlow, JudgedFlow, PermittedFlow, FaithfulFlow, Live

(* The invariant holds when the stack comes up. *)
LEMMA InitInv == Init => IInv
<1>1. SoundFlow(Idle)
  BY IdleTyped, IdleSound
<1> QED BY <1>1 DEF Init, IInv, NothingOutlivesTheStack, SoundFlow, TypedFlow

(* What is known of a flow. *)
LEMMA FlowFields ==
  ASSUME IInv, NEW f \in Flows
  PROVE  /\ flow[f] \in FlowType /\ SoundFlow(flow[f])
         /\ flow[f].pc \notin {"idle", "closed"} => flow[f].ask \in AskType
         /\ flow \in [Flows -> FlowType]
BY FlowAssumption DEF IInv, SoundFlow, TypedFlow

(* A flow that only moves to another point keeps everything it has. *)
LEMMA FlowEnters ==
  ASSUME IInv, NEW f \in Flows, NEW pc \in Pcs, flow' = [flow EXCEPT ![f].pc = pc]
  PROVE  /\ flow' = [flow EXCEPT ![f] = flow'[f]]
         /\ flow'[f] \in FlowType /\ flow'[f].pc = pc
         /\ flow'[f].ask = flow[f].ask /\ flow'[f].mode = flow[f].mode
         /\ flow'[f].left = flow[f].left /\ flow'[f].addr = flow[f].addr
         /\ flow'[f].got = flow[f].got
BY FlowFields DEF FlowType

(* Dials and what follows them. *)
LEMMA ResolveMoves ==
  ASSUME IInv, NEW f \in Flows, Resolve(f)
  PROVE  Moves(f)
<1> DEFINE x == flow[f]
           y == flow'[f]
<1>1. SoundFlow(x) /\ x \in FlowType /\ x.ask \in Asks /\ x.ask \in AskType /\ up' = up
  BY FlowFields DEF Resolve, SoundFlow, TypedFlow
<1>2. CASE IsHost(x.ask.to)
  <2>1. flow' = [flow EXCEPT ![f].pc = "hostdial"] /\ x.ask.to \in HostPorts
    BY <1>2 DEF Resolve
  <2>2. "hostdial" \in Pcs
    BY DEF Pcs
  <2> QED BY <1>1, <1>2, <2>1, <2>2, FlowEnters
          DEF Moves, SoundFlow, TypedFlow, JudgedFlow, PermittedFlow, FaithfulFlow, Live, Resolve
<1>3. CASE ~IsHost(x.ask.to)
  <2> DEFINE t == x.ask.to
             pc == IF x.pc = "resolve" THEN "dial" ELSE "httpdial"
  <2>1. PICK found \in IF t.ip THEN {{t}} ELSE SUBSET Resolves[t] :
              flow' = [flow EXCEPT ![f].left = found, ![f].pc = pc]
    BY <1>3 DEF Resolve
  <2>2. found \subseteq Addrs /\ (t.ip => found \subseteq {t})
    BY <1>1, <2>1, FlowAssumption DEF AskType, Targets
  <2>3. pc \in {"dial", "httpdial"} /\ pc \in Pcs
    BY DEF Pcs
  <2>4. /\ flow' = [flow EXCEPT ![f] = y] /\ y \in FlowType
        /\ y.pc = pc /\ y.left = found /\ y.ask = x.ask /\ y.got = x.got
    BY <2>1, <2>2, <2>3, FlowFields DEF FlowType
  <2> QED BY <1>1, <1>3, <2>2, <2>3, <2>4
          DEF Moves, SoundFlow, TypedFlow, JudgedFlow, PermittedFlow, FaithfulFlow, Live, Resolve
<1> QED BY <1>2, <1>3

(* dialTCP and the relay's dial: what is dialled is permitted, or the flow *)
(* ends.                                                                   *)
LEMMA DialMoves ==
  ASSUME IInv, NEW f \in Flows, NEW a \in Addrs, Dial(f, a)
  PROVE  Moves(f)
<1> DEFINE x == flow[f]
           y == flow'[f]
           judged == x.ask.to.ip \/ EvaluateDeny(a)
           log == IF x.ask.to.ip THEN x.log ELSE Log(f, Decision("dial", a, judged, x.mode))
           pc == IF x.pc = "dial" THEN "hello" ELSE "send"
<1>1. /\ SoundFlow(x) /\ x \in FlowType /\ x.ask \in Asks /\ x.pc \in {"dial", "httpdial"}
      /\ a \in x.left /\ up' = up
  BY FlowFields DEF Dial, SoundFlow, TypedFlow
<1>2. log \in Seq(Decisions)
  <2>1. Decision("dial", a, judged, x.mode) \in Decisions
    BY <1>1 DEF Decision, Decisions, FlowType, Stages, Targets
  <2>2. x.log \in Seq(Decisions)
    BY <1>1 DEF FlowType
  <2> QED BY <2>1, <2>2 DEF Log
<1>3. judged => EvaluateDeny(a)
  BY <1>1 DEF SoundFlow, JudgedFlow
<1>4. pc \in {"hello", "send"} /\ pc \in Pcs
  BY DEF Pcs
<1>5. \/ judged /\ flow' = [flow EXCEPT ![f].addr = a, ![f].log = log, ![f].pc = pc]
      \/ flow' = [flow EXCEPT ![f].left = @ \ {a}, ![f].log = log]
  BY DEF Dial
<1> HIDE DEF judged, log
<1>6. CASE judged /\ flow' = [flow EXCEPT ![f].addr = a, ![f].log = log, ![f].pc = pc]
  <2>1. /\ flow' = [flow EXCEPT ![f] = y] /\ y \in FlowType
        /\ y.pc = pc /\ y.addr = a /\ y.ask = x.ask /\ y.got = x.got
    BY <1>2, <1>4, <1>6, FlowFields DEF FlowType
  <2> QED BY <1>1, <1>3, <1>4, <1>6, <2>1
          DEF Moves, SoundFlow, TypedFlow, JudgedFlow, PermittedFlow, FaithfulFlow, Live, Reaches
<1>7. CASE flow' = [flow EXCEPT ![f].left = @ \ {a}, ![f].log = log]
  <2>1. /\ flow' = [flow EXCEPT ![f] = y] /\ y \in FlowType
        /\ y.pc = x.pc /\ y.left = x.left \ {a} /\ y.ask = x.ask /\ y.got = x.got
    BY <1>2, <1>7, FlowFields DEF FlowType
  <2> QED BY <1>1, <2>1
          DEF Moves, SoundFlow, TypedFlow, JudgedFlow, PermittedFlow, FaithfulFlow, Live
<1> QED BY <1>5, <1>6, <1>7

(* A dial by name goes to an address the name resolves to and the policy   *)
(* lets the flow reach.                                                    *)
LEMMA DialHostMoves ==
  ASSUME IInv, NEW f \in Flows, DialHost(f)
  PROVE  Moves(f)
<1> DEFINE x == flow[f]
           y == flow'[f]
<1>1. /\ SoundFlow(x) /\ x \in FlowType /\ x.ask \in Asks /\ x.pc = "hostdial" /\ up' = up
  BY FlowFields DEF DialHost, SoundFlow, TypedFlow
<1>2. {"send", "refused"} \subseteq Pcs
  BY DEF Pcs
<1>3. CASE flow' = [flow EXCEPT ![f].addr = Loopback, ![f].pc = "send"]
  <2>1. /\ flow' = [flow EXCEPT ![f] = y] /\ y \in FlowType
        /\ y.pc = "send" /\ y.addr = Loopback /\ y.ask = x.ask /\ y.got = x.got
    <3>1. Loopback \in Addrs /\ flow \in [Flows -> FlowType] /\ flow[f] \in FlowType
      BY FlowFields, FlowAssumption
    <3> QED BY <1>2, <1>3, <3>1 DEF FlowType
  <2>2. TypedFlow(y)
    BY <1>1, <2>1, FlowAssumption DEF SoundFlow, TypedFlow, Live
  <2>3. JudgedFlow(y)
    BY <1>1, <2>1 DEF SoundFlow, JudgedFlow
  <2>4. PermittedFlow(y)
    BY <1>1, <2>1 DEF SoundFlow, JudgedFlow, PermittedFlow, Reaches
  <2>5. FaithfulFlow(y)
    BY <1>1, <2>1 DEF SoundFlow, FaithfulFlow, JudgedFlow
  <2> QED BY <1>1, <2>1, <2>2, <2>3, <2>4, <2>5 DEF Moves, SoundFlow
<1>4. CASE flow' = [flow EXCEPT ![f].pc = "refused"]
  BY <1>1, <1>2, <1>4, FlowEnters
     DEF Moves, SoundFlow, TypedFlow, JudgedFlow, PermittedFlow, FaithfulFlow, Live
<1> QED BY <1>3, <1>4 DEF DialHost

(* Steps that only move a flow to another point. *)
LEMMA PointMoves ==
  ASSUME IInv, NEW f \in Flows, DialFails(f) \/ Inspect(f) \/ Track(f) \/ HostTunnelLeft(f)
  PROVE  Moves(f)
<1> DEFINE x == flow[f]
<1>1. /\ SoundFlow(x) /\ x \in FlowType /\ x.ask \in Asks /\ up' = up
      /\ x.pc \in {"dial", "httpdial", "handshake", "track", "hosttunnel"}
  BY FlowFields DEF DialFails, Inspect, Track, HostTunnelLeft, Unheard, SoundFlow, TypedFlow
<1>2. {"refused", "inspecting", "spliced", "done"} \subseteq Pcs
  BY DEF Pcs
<1>3. CASE DialFails(f) \/ HostTunnelLeft(f)
  <2>1. flow' = [flow EXCEPT ![f].pc = "refused"]
    BY <1>3 DEF DialFails, HostTunnelLeft
  <2> QED BY <1>1, <1>2, <2>1, FlowEnters
          DEF Moves, SoundFlow, TypedFlow, JudgedFlow, PermittedFlow, FaithfulFlow, Live
<1>4. CASE Inspect(f)
  <2> DEFINE pc == IF x.ask.to \in Owns[x.addr] THEN "inspecting" ELSE "refused"
  <2>1. flow' = [flow EXCEPT ![f].pc = pc] /\ x.pc = "handshake" /\ pc \in Pcs
    BY <1>2, <1>4 DEF Inspect
  <2> QED BY <1>1, <2>1, FlowEnters
          DEF Moves, SoundFlow, TypedFlow, JudgedFlow, PermittedFlow, FaithfulFlow, Live
<1>5. CASE Track(f)
  <2> DEFINE pc == IF up = "up" THEN "spliced" ELSE "done"
  <2>1. flow' = [flow EXCEPT ![f].pc = pc] /\ x.pc = "track" /\ pc \in Pcs
    BY <1>2, <1>5 DEF Track
  <2> QED BY <1>1, <2>1, FlowEnters
          DEF Moves, SoundFlow, TypedFlow, JudgedFlow, PermittedFlow, FaithfulFlow, Live
<1> QED BY <1>3, <1>4, <1>5

(* A log with one decision more. *)
LEMMA LogTyped ==
  ASSUME NEW log \in Seq(Decisions), NEW stage \in Stages, NEW t \in Targets,
         NEW ok \in BOOLEAN, NEW mode \in Modes
  PROVE  Append(log, Decision(stage, t, ok, mode)) \in Seq(Decisions)
<1>1. Decision(stage, t, ok, mode) \in Decisions
  BY DEF Decision, Decisions
<1> QED BY <1>1

(* A raw connection or datagram goes to the address that was asked for. *)
LEMMA RawDialMoves ==
  ASSUME IInv, NEW f \in Flows, RawDial(f)
  PROVE  Moves(f)
<1> DEFINE x == flow[f]
           y == flow'[f]
<1>1. /\ SoundFlow(x) /\ x \in FlowType /\ x.ask \in Asks /\ x.pc = "rawdial" /\ up' = up
  BY FlowFields DEF RawDial, SoundFlow, TypedFlow
<1>2. {"track", "refused"} \subseteq Pcs
  BY DEF Pcs
<1>3. CASE flow' = [flow EXCEPT ![f].addr = x.ask.to, ![f].pc = "track"]
  <2>1. x.ask.kind = "raw" /\ x.ask.to \in Addrs /\ ~IsHost(x.ask.to)
    BY <1>1, FlowAssumption DEF SoundFlow, JudgedFlow, IsHost
  <2>2. /\ flow' = [flow EXCEPT ![f] = y] /\ y \in FlowType
        /\ y.pc = "track" /\ y.addr = x.ask.to /\ y.ask = x.ask /\ y.got = x.got
    BY <1>2, <1>3, <2>1, FlowFields DEF FlowType
  <2> QED BY <1>1, <2>1, <2>2
          DEF Moves, SoundFlow, TypedFlow, JudgedFlow, PermittedFlow, FaithfulFlow, Live, Reaches
<1>4. CASE flow' = [flow EXCEPT ![f].pc = "refused"]
  BY <1>1, <1>2, <1>4, FlowEnters
     DEF Moves, SoundFlow, TypedFlow, JudgedFlow, PermittedFlow, FaithfulFlow, Live
<1> QED BY <1>3, <1>4 DEF RawDial

(* A flow that is over leaves nothing behind. *)
LEMMA FinishMoves ==
  ASSUME IInv, NEW f \in Flows, Finish(f)
  PROVE  Moves(f)
<1> DEFINE y == flow'[f]
<1>1. [Idle EXCEPT !.pc = "closed"] \in FlowType /\ [Idle EXCEPT !.pc = "closed"].pc = "closed"
      /\ [Idle EXCEPT !.pc = "closed"].got = {}
  BY IdleTyped, FlowUpdates DEF Pcs
<1>2. /\ flow' = [flow EXCEPT ![f] = [Idle EXCEPT !.pc = "closed"]] /\ up' = up
  BY DEF Finish
<1>3. y = [Idle EXCEPT !.pc = "closed"] /\ flow' = [flow EXCEPT ![f] = y]
  BY <1>2, FlowFields
<1> QED BY <1>1, <1>2, <1>3, IdleSound DEF Moves

(* What a tunnel to the host, or an inspected one, is found to hold. *)
LEMMA HostTunnelHelloMoves ==
  ASSUME IInv, NEW f \in Flows, HostTunnelHello(f)
  PROVE  Moves(f)
<1> DEFINE x == flow[f]
           y == flow'[f]
           log == Log(f, Decision("connect", x.ask.to, FALSE, "bypass"))
<1>1. /\ SoundFlow(x) /\ x \in FlowType /\ x.ask \in Asks /\ x.ask.to \in Targets
      /\ x.pc = "hosttunnel" /\ up' = up
  BY FlowFields DEF HostTunnelHello, SoundFlow, TypedFlow, AskType
<1>2. {"roundtrip", "refused"} \subseteq Pcs /\ "bypass" \in Modes /\ "connect" \in Stages
  BY DEF Pcs, Modes, Stages
<1>3. CASE \E pc \in {"roundtrip", "refused"} : flow' = [flow EXCEPT ![f].pc = pc]
  BY <1>1, <1>2, <1>3, FlowEnters
     DEF Moves, SoundFlow, TypedFlow, JudgedFlow, PermittedFlow, FaithfulFlow, Live
<1>4. CASE flow' = [flow EXCEPT ![f].pc = "refused", ![f].mode = "bypass", ![f].log = log]
  <2>1. log \in Seq(Decisions)
    BY <1>1, <1>2, LogTyped DEF Log, FlowType
  <2> HIDE DEF log
  <2>2. /\ flow' = [flow EXCEPT ![f] = y] /\ y \in FlowType
        /\ y.pc = "refused" /\ y.ask = x.ask /\ y.got = x.got
    BY <1>2, <1>4, <2>1, FlowFields DEF FlowType
  <2> QED BY <1>1, <2>2
          DEF Moves, SoundFlow, TypedFlow, JudgedFlow, PermittedFlow, FaithfulFlow, Live
<1> QED BY <1>3, <1>4 DEF HostTunnelHello

(* The first bytes name the host: the flow is decided again, under that    *)
(* name.                                                                   *)
LEMMA HelloMoves ==
  ASSUME IInv, NEW f \in Flows, Hello(f)
  PROVE  Moves(f)
<1> DEFINE x == flow[f]
           y == flow'[f]
           sni == ReadClientHello(x.ask)
           same == sni \in {None, x.ask.to}
           ok == same \/ Evaluate(sni)
           log == IF same THEN x.log ELSE Log(f, Decision("sni", sni, ok, x.mode))
           blind == IF x.mode = "bypass" THEN log
                    ELSE Append(log, Decision("connect", x.ask.to, TRUE, "bypass"))
<1>1. /\ SoundFlow(x) /\ x \in FlowType /\ x.ask \in AskType /\ x.ask \in Asks
      /\ x.ask.to \in Targets /\ x.mode \in Modes /\ x.log \in Seq(Decisions)
      /\ x.pc = "hello" /\ up' = up
  BY FlowFields DEF Hello, SoundFlow, TypedFlow, AskType, FlowType
<1>2. {"refused", "handshake", "spliced"} \subseteq Pcs /\ {"bypass"} \subseteq Modes
      /\ {"sni", "connect"} \subseteq Stages
  BY DEF Pcs, Modes, Stages
<1>3. ok \in BOOLEAN /\ (same \/ sni \in Targets)
  <2>1. sni \in Names \cup {None}
    BY <1>1 DEF ReadClientHello, AskType
  <2>2. Evaluate(sni) \in BOOLEAN
    BY DEF Evaluate, EvaluateDeny
  <2> QED BY <2>1, <2>2 DEF Targets
<1> HIDE DEF sni, same, ok
<1>4. log \in Seq(Decisions)
  BY <1>1, <1>2, <1>3, LogTyped DEF Log
<1> HIDE DEF log
<1>5. blind \in Seq(Decisions)
  BY <1>1, <1>2, <1>4, LogTyped
<1> HIDE DEF blind
<1>6. \/ flow' = [flow EXCEPT ![f].pc = "refused", ![f].log = log]
      \/ flow' = [flow EXCEPT ![f].pc = "handshake"]
      \/ flow' = [flow EXCEPT ![f].pc = "spliced", ![f].mode = "bypass", ![f].log = blind]
  BY DEF Hello, Blind, sni, same, ok, log, blind
<1>7. CASE flow' = [flow EXCEPT ![f].pc = "handshake"]
  BY <1>1, <1>2, <1>7, FlowEnters
     DEF Moves, SoundFlow, TypedFlow, JudgedFlow, PermittedFlow, FaithfulFlow, Live
<1>8. CASE flow' = [flow EXCEPT ![f].pc = "refused", ![f].log = log]
  <2>1. /\ flow' = [flow EXCEPT ![f] = y] /\ y \in FlowType
        /\ y.pc = "refused" /\ y.ask = x.ask /\ y.got = x.got
    BY <1>2, <1>4, <1>8, FlowFields DEF FlowType
  <2> QED BY <1>1, <2>1
          DEF Moves, SoundFlow, TypedFlow, JudgedFlow, PermittedFlow, FaithfulFlow, Live
<1>9. CASE flow' = [flow EXCEPT ![f].pc = "spliced", ![f].mode = "bypass", ![f].log = blind]
  <2>1. /\ flow' = [flow EXCEPT ![f] = y] /\ y \in FlowType /\ y.pc = "spliced"
        /\ y.mode = "bypass" /\ y.ask = x.ask /\ y.got = x.got /\ y.addr = x.addr
    BY <1>2, <1>5, <1>9, FlowFields DEF FlowType
  <2> QED BY <1>1, <2>1
          DEF Moves, SoundFlow, TypedFlow, JudgedFlow, PermittedFlow, FaithfulFlow, Live
<1> QED BY <1>6, <1>7, <1>8, <1>9

(* Requests. *)
LEMMA ServeInspectedMoves ==
  ASSUME IInv, NEW f \in Flows, NEW host \in Headers, NEW upgrade \in BOOLEAN,
         ServeInspected(f, host, upgrade)
  PROVE  Moves(f)
<1> DEFINE x == flow[f]
           y == flow'[f]
           t == x.ask.to
           ok == host = t \/ Evaluate(host)
           log == IF host = t THEN x.log ELSE Log(f, Decision("request", host, ok, "forward"))
           got == IF ok THEN x.got \cup Apply(t, TRUE) ELSE x.got
           pc == IF ~ok THEN "refused" ELSE IF upgrade THEN "spliced" ELSE "inspecting"
           mode == IF ok /\ upgrade THEN "bypass" ELSE x.mode
           all == IF ok /\ upgrade THEN Append(log, Decision("request", t, TRUE, "bypass"))
                  ELSE log
<1>1. /\ SoundFlow(x) /\ x \in FlowType /\ x.ask \in Asks /\ t \in Targets /\ host \in Targets
      /\ x.mode \in Modes /\ x.log \in Seq(Decisions) /\ x.n \in 0 .. MaxRequests
      /\ x.got \subseteq {"key", "token"}
      /\ x.pc = "inspecting" /\ x.n < MaxRequests /\ up' = up
  BY FlowFields, FlowAssumption
     DEF ServeInspected, SoundFlow, TypedFlow, AskType, FlowType, Targets
<1>2. {"refused", "inspecting", "spliced"} \subseteq Pcs /\ {"forward", "bypass"} \subseteq Modes
      /\ "request" \in Stages
  BY DEF Pcs, Modes, Stages
<1>3. ok \in BOOLEAN
  BY DEF Evaluate, EvaluateDeny
<1>4. flow' = [flow EXCEPT ![f].n = @ + 1, ![f].got = got, ![f].pc = pc, ![f].mode = mode,
                           ![f].log = all]
  BY DEF ServeInspected
<1>5. /\ got \subseteq {"key", "token"}
      /\ "key" \in got => "key" \in x.got \/ t \in Keys
      /\ "token" \in got => "token" \in x.got \/ t \in Resources
  BY <1>1 DEF Apply, Substitute, MatchesResource
<1> HIDE DEF ok
<1>6. log \in Seq(Decisions)
  BY <1>1, <1>2, <1>3, LogTyped DEF Log
<1> HIDE DEF log
<1>7. all \in Seq(Decisions)
  BY <1>1, <1>2, <1>6, LogTyped
<1>8. pc \in {"refused", "inspecting", "spliced"} /\ mode \in Modes
      /\ (pc = "spliced" => mode = "bypass") /\ x.n + 1 \in 0 .. MaxRequests
  BY <1>1, <1>2, <1>3, FlowAssumption
<1> HIDE DEF got, pc, mode, all
<1>9. /\ flow' = [flow EXCEPT ![f] = y] /\ y \in FlowType
      /\ y.pc = pc /\ y.mode = mode /\ y.got = got /\ y.ask = x.ask /\ y.addr = x.addr
  <2>1. flow \in [Flows -> FlowType] /\ flow[f] \in FlowType
    BY FlowFields
  <2>2. got \in SUBSET {"key", "token"} /\ pc \in Pcs /\ all \in Seq(Decisions)
        /\ mode \in Modes /\ x.n + 1 \in 0 .. MaxRequests
    BY <1>2, <1>5, <1>7, <1>8
  <2> QED BY <1>4, <2>1, <2>2 DEF FlowType
<1>10. TypedFlow(y)
  BY <1>1, <1>8, <1>9 DEF SoundFlow, TypedFlow, Live
<1>11. JudgedFlow(y)
  BY <1>1, <1>8, <1>9 DEF SoundFlow, JudgedFlow
<1>12. PermittedFlow(y)
  BY <1>1, <1>8, <1>9 DEF SoundFlow, PermittedFlow, Live
<1>13. FaithfulFlow(y)
  BY <1>1, <1>5, <1>8, <1>9 DEF SoundFlow, FaithfulFlow, JudgedFlow
<1> QED BY <1>1, <1>8, <1>9, <1>10, <1>11, <1>12, <1>13 DEF Moves, SoundFlow

(* The transport's connections: one that is kept was dialled for a request *)
(* to the same name.                                                       *)
LEMMA ReuseMoves ==
  ASSUME IInv, NEW f \in Flows, Reuse(f)
  PROVE  Moves(f) /\ pool' \subseteq pool
<1> DEFINE x == flow[f]
           y == flow'[f]
<1>1. /\ SoundFlow(x) /\ x \in FlowType /\ x.ask \in Asks /\ x.pc = "roundtrip" /\ up' = up
  BY FlowFields DEF Reuse, SoundFlow, TypedFlow
<1>2. PICK c \in pool : /\ c[1] = x.ask.to /\ pool' = pool \ {c}
                        /\ flow' = [flow EXCEPT ![f].addr = c[2], ![f].pc = "send"]
  BY DEF Reuse
<1>3. c[2] \in Addrs /\ Reaches(x.ask.to, c[2])
  BY <1>2 DEF IInv
<1>4. /\ flow' = [flow EXCEPT ![f] = y] /\ y \in FlowType
      /\ y.pc = "send" /\ y.addr = c[2] /\ y.ask = x.ask /\ y.got = x.got
  <2>1. "send" \in Pcs
    BY DEF Pcs
  <2> QED BY <1>2, <1>3, <2>1, FlowFields DEF FlowType
<1>5. TypedFlow(y)
  BY <1>1, <1>3, <1>4 DEF SoundFlow, TypedFlow, Live
<1>6. JudgedFlow(y)
  BY <1>1, <1>4 DEF SoundFlow, JudgedFlow
<1>7. PermittedFlow(y)
  BY <1>3, <1>4 DEF SoundFlow, PermittedFlow, Live
<1>8. FaithfulFlow(y)
  BY <1>1, <1>4 DEF SoundFlow, FaithfulFlow, JudgedFlow
<1> QED BY <1>1, <1>2, <1>4, <1>5, <1>6, <1>7, <1>8 DEF Moves, SoundFlow

(* A request goes out on a connection of the transport's pool, and every   *)
(* one of those is to an address its host may be reached at.               *)
LEMMA SendMoves ==
  ASSUME IInv, NEW f \in Flows, Send(f)
  PROVE  /\ Moves(f) /\ pool' \subseteq Targets \X Addrs
         /\ \A c \in pool' : Reaches(c[1], c[2])
<1> DEFINE x == flow[f]
           y == flow'[f]
           got == Apply(x.ask.to, FALSE)
<1>1. /\ SoundFlow(x) /\ x \in FlowType /\ x.ask \in Asks /\ x.ask.to \in Targets
      /\ x.pc = "send" /\ x.addr \in Addrs /\ up' = up
  BY FlowFields DEF Send, SoundFlow, TypedFlow, AskType, Live
<1>2. got \subseteq {"key"} /\ (got # {} => x.ask.to \in Keys)
  BY DEF Apply, Substitute
<1> HIDE DEF got
<1>3. flow' = [flow EXCEPT ![f].got = got, ![f].pc = "done"]
  BY DEF Send, got
<1>4. /\ flow' = [flow EXCEPT ![f] = y] /\ y \in FlowType
      /\ y.pc = "done" /\ y.got = got /\ y.ask = x.ask
  <2>1. "done" \in Pcs
    BY DEF Pcs
  <2> QED BY <1>2, <1>3, <2>1, FlowFields DEF FlowType
<1>5. Reaches(x.ask.to, x.addr)
  BY <1>1 DEF SoundFlow, PermittedFlow, Live
<1>6. pool' = pool \cup {<<x.ask.to, x.addr>>} \/ pool' = pool
  BY DEF Send
<1>7. Moves(f)
  BY <1>1, <1>2, <1>4
     DEF Moves, SoundFlow, TypedFlow, JudgedFlow, PermittedFlow, FaithfulFlow, Live
<1> QED BY <1>1, <1>5, <1>6, <1>7 DEF IInv

(* Flows that are opened. *)
LEMMA JudgedTyped ==
  ASSUME IInv, NEW f \in Flows, NEW ask \in Asks, NEW mode \in Modes, NEW stage \in Stages,
         NEW ok \in BOOLEAN, NEW next \in Pcs, Judged(f, ask, mode, stage, ask.to, ok, next)
  PROVE  LET y == flow'[f]
         IN  /\ flow' = [flow EXCEPT ![f] = y] /\ y \in FlowType
             /\ y.pc = (IF ok THEN next ELSE "refused")
             /\ y.ask = ask /\ y.mode = mode /\ y.got = {}
<1> DEFINE log == <<Decision(stage, ask.to, ok, mode)>>
           pc == IF ok THEN next ELSE "refused"
<1>1. ask.to \in Targets
  BY FlowAssumption DEF AskType
<1>2. log \in Seq(Decisions)
  BY <1>1 DEF Decision, Decisions
<1>3. pc \in Pcs
  BY DEF Pcs
<1>4. flow' = [flow EXCEPT ![f] =
                 [Idle EXCEPT !.ask = ask, !.mode = mode, !.pc = pc, !.log = log]]
  BY DEF Judged
<1> HIDE DEF log, pc
<1>5. ASSUME NEW x \in FlowType
      PROVE  LET y == [x EXCEPT !.ask = ask, !.mode = mode, !.pc = pc, !.log = log]
             IN  /\ y \in FlowType /\ y.pc = pc /\ y.ask = ask /\ y.mode = mode
                 /\ y.got = x.got
  BY <1>2, <1>3 DEF FlowType
<1> DEFINE z == [Idle EXCEPT !.ask = ask, !.mode = mode, !.pc = pc, !.log = log]
<1>6. z \in FlowType /\ z.pc = pc /\ z.ask = ask /\ z.mode = mode /\ z.got = {}
  BY <1>5, IdleTyped
<1>7. flow' = [flow EXCEPT ![f] = z]
  BY <1>4
<1> HIDE DEF z
<1>8. flow'[f] = z
  BY <1>7, FlowFields
<1>9. pc = IF ok THEN next ELSE "refused"
  BY DEF pc
<1> QED BY <1>6, <1>7, <1>8, <1>9

(* A flow that was refused at once, or that the link let through. *)
LEMMA DroppedTyped ==
  ASSUME IInv, NEW f \in Flows, NEW ask \in Asks, NEW pc \in {"refused", "done"},
         NEW addr \in Addrs \cup {None}, NEW log \in Seq(Decisions),
         \/ flow' = [flow EXCEPT ![f] = [Idle EXCEPT !.ask = ask, !.pc = pc]]
         \/ flow' = [flow EXCEPT ![f] = [Idle EXCEPT !.ask = ask, !.pc = pc, !.addr = addr]]
         \/ flow' = [flow EXCEPT ![f] = [Idle EXCEPT !.ask = ask, !.pc = pc, !.log = log]]
  PROVE  /\ flow' = [flow EXCEPT ![f] = flow'[f]] /\ SoundFlow(flow'[f])
         /\ flow'[f].pc = pc
<1>1. ASSUME NEW x \in FlowType, x.got = {},
             NEW y \in {[x EXCEPT !.ask = ask, !.pc = pc],
                        [x EXCEPT !.ask = ask, !.pc = pc, !.addr = addr],
                        [x EXCEPT !.ask = ask, !.pc = pc, !.log = log]}
      PROVE  y \in FlowType /\ y.pc = pc /\ y.ask = ask /\ y.got = {}
  <2>1. pc \in Pcs
    BY DEF Pcs
  <2>2. CASE y = [x EXCEPT !.ask = ask, !.pc = pc]
    BY <1>1, <2>1, <2>2 DEF FlowType
  <2>3. CASE y = [x EXCEPT !.ask = ask, !.pc = pc, !.addr = addr]
    BY <1>1, <2>1, <2>3 DEF FlowType
  <2>4. CASE y = [x EXCEPT !.ask = ask, !.pc = pc, !.log = log]
    BY <1>1, <2>1, <2>4 DEF FlowType
  <2> QED BY <1>1, <2>2, <2>3, <2>4
<1> DEFINE y == flow'[f]
<1>2. /\ flow' = [flow EXCEPT ![f] = y]
      /\ y \in {[Idle EXCEPT !.ask = ask, !.pc = pc],
                [Idle EXCEPT !.ask = ask, !.pc = pc, !.addr = addr],
                [Idle EXCEPT !.ask = ask, !.pc = pc, !.log = log]}
  BY FlowFields
<1>3. y \in FlowType /\ y.pc = pc /\ y.ask = ask /\ y.got = {}
  BY <1>1, <1>2, IdleTyped
<1> QED BY <1>2, <1>3
        DEF SoundFlow, TypedFlow, JudgedFlow, PermittedFlow, FaithfulFlow, Live

(* A new flow starts with nothing and is decided first. *)
LEMMA OpenMoves ==
  ASSUME IInv, NEW f \in Flows, NEW ask \in Asks, Open(f, ask)
  PROVE  Moves(f)
<1> DEFINE t == ask.to
           y == flow'[f]
<1> USE DEF Moves, SoundFlow, TypedFlow, JudgedFlow, PermittedFlow, FaithfulFlow, Live
<1>1. /\ up' = up /\ {"forward", "bypass", "transparent"} \subseteq Modes
      /\ {"roundtrip", "resolve", "hosttunnel", "rawdial"} \subseteq Pcs
      /\ {"http", "connect", "network"} \subseteq Stages
  BY DEF Open, Modes, Pcs, Stages
<1>2. Evaluate(t) \in BOOLEAN /\ (Evaluate(t) => EvaluateDeny(t))
  BY DEF Evaluate, EvaluateDeny
<1>3. CASE HandleHTTP(f, ask)
  <2> DEFINE ok == IF IsHost(t) THEN t \in HostPorts ELSE Evaluate(t)
  <2>1. ask.kind = "http" /\ Judged(f, ask, "forward", "http", t, ok, "roundtrip")
    BY <1>3 DEF HandleHTTP
  <2>2. ok \in BOOLEAN /\ (ok => IF IsHost(t) THEN t \in HostPorts ELSE EvaluateDeny(t))
    <3>1. ~IsHost(t) => ok = Evaluate(t)
      OBVIOUS
    <3>2. IsHost(t) => ok = (t \in HostPorts)
      OBVIOUS
    <3> HIDE DEF ok
    <3>3. (t \in HostPorts) \in BOOLEAN
      OBVIOUS
    <3>4. CASE IsHost(t)
      <4>1. ok \in BOOLEAN
        BY <3>2, <3>3, <3>4, Zenon
      <4> QED BY <3>2, <3>4, <4>1
    <3>5. CASE ~IsHost(t)
      <4>1. ok = Evaluate(t)
        BY <3>1, <3>5, Zenon
      <4> QED BY <1>2, <3>5, <4>1, Zenon
    <3> QED BY <3>4, <3>5
  <2> HIDE DEF ok
  <2>3. /\ flow' = [flow EXCEPT ![f] = y] /\ y \in FlowType /\ y.ask = ask /\ y.got = {}
        /\ y.pc = (IF ok THEN "roundtrip" ELSE "refused")
    BY <1>1, <2>1, <2>2, JudgedTyped
  <2> QED BY <1>1, <2>1, <2>2, <2>3
<1>4. CASE HandleConnect(f, ask)
  <2> DEFINE ok == Evaluate(t)
             mode == IF ShouldInspect(t) THEN "forward" ELSE "bypass"
  <2>1. /\ ok \in BOOLEAN /\ mode \in Modes /\ ask.kind = "connect" /\ ~IsHost(t)
        /\ Judged(f, ask, mode, "connect", t, ok, "resolve")
    BY <1>1, <1>2, <1>4 DEF HandleConnect
  <2> HIDE DEF mode
  <2>2. /\ flow' = [flow EXCEPT ![f] = y] /\ y \in FlowType /\ y.ask = ask /\ y.got = {}
        /\ y.pc = (IF ok THEN "resolve" ELSE "refused")
    BY <1>1, <2>1, JudgedTyped
  <2> QED BY <1>1, <1>2, <2>1, <2>2
<1>5. CASE HandleHostTunnel(f, ask)
  <2> DEFINE ok == t \in HostPorts
  <2>1. IsHost(t) /\ Judged(f, ask, "forward", "connect", t, ok, "hosttunnel")
    BY <1>5 DEF HandleHostTunnel
  <2>2. ok \in BOOLEAN /\ (ok => t \in HostPorts)
    OBVIOUS
  <2> HIDE DEF ok
  <2>3. /\ flow' = [flow EXCEPT ![f] = y] /\ y \in FlowType /\ y.ask = ask /\ y.got = {}
        /\ y.pc = (IF ok THEN "hosttunnel" ELSE "refused")
    BY <1>1, <2>1, <2>2, JudgedTyped
  <2> QED BY <1>1, <2>1, <2>2, <2>3
<1>6. CASE ForwardTCP(f, ask)
  <2>1. CASE flow' = [flow EXCEPT ![f] = [Idle EXCEPT !.ask = ask, !.pc = "refused"]]
    <3>1. <<>> \in Seq(Decisions) /\ None \in Addrs \cup {None}
      OBVIOUS
    <3> QED BY <1>1, <2>1, <3>1, DroppedTyped
  <2>2. CASE Judged(f, ask, "transparent", "network", t, Evaluate(t), "rawdial")
    <3>1. ask.kind = "raw" /\ ~IsHost(t)
      BY <1>6, FlowAssumption DEF ForwardTCP, IsHost
    <3>2. /\ flow' = [flow EXCEPT ![f] = y] /\ y \in FlowType /\ y.ask = ask /\ y.got = {}
          /\ y.pc = (IF Evaluate(t) THEN "rawdial" ELSE "refused")
      BY <1>1, <1>2, <2>2, JudgedTyped
    <3> QED BY <1>1, <1>2, <3>1, <3>2
  <2> QED BY <1>6, <2>1, <2>2 DEF ForwardTCP
<1>7. CASE DeliverNetworkPacket(f, ask)
  <2>1. ask.to \in Targets /\ "network" \in Stages /\ "transparent" \in Modes
    BY FlowAssumption DEF AskType, Stages, Modes
  <2>2. <<Decision("network", t, FALSE, "transparent")>> \in Seq(Decisions)
        /\ <<>> \in Seq(Decisions)
    BY <2>1 DEF Decision, Decisions
  <2>3. Gateway \in Addrs \cup {None}
    BY FlowAssumption
  <2>4. \/ flow' = [flow EXCEPT ![f] = [Idle EXCEPT !.ask = ask, !.pc = "done", !.addr = Gateway]]
        \/ flow' = [flow EXCEPT ![f] = [Idle EXCEPT !.ask = ask, !.pc = "refused"]]
        \/ \E log \in {<<>>, <<Decision("network", t, FALSE, "transparent")>>} :
             flow' = [flow EXCEPT ![f] = [Idle EXCEPT !.ask = ask, !.pc = "refused", !.log = log]]
    BY <1>7 DEF DeliverNetworkPacket, NoteDroppedFlow
  <2> HIDE DEF t
  <2>5. CASE flow' = [flow EXCEPT ![f] = [Idle EXCEPT !.ask = ask, !.pc = "done", !.addr = Gateway]]
    BY <1>1, <2>2, <2>3, <2>5, DroppedTyped
  <2>6. CASE flow' = [flow EXCEPT ![f] = [Idle EXCEPT !.ask = ask, !.pc = "refused"]]
    BY <1>1, <2>2, <2>3, <2>6, DroppedTyped
  <2>7. ASSUME NEW log \in Seq(Decisions),
               flow' = [flow EXCEPT ![f] = [Idle EXCEPT !.ask = ask, !.pc = "refused", !.log = log]]
        PROVE  Moves(f)
    BY <1>1, <2>3, <2>7, DroppedTyped
  <2> QED BY <2>2, <2>4, <2>5, <2>6, <2>7
<1> QED BY <1>3, <1>4, <1>5, <1>6, <1>7 DEF Open

(* Every step keeps the invariant. *)
LEMMA InvStep == IInv /\ [Next]_vars => IInv'
<1> SUFFICES ASSUME IInv, [Next]_vars PROVE IInv'
  OBVIOUS
<1>1. pool \subseteq Targets \X Addrs /\ \A c \in pool : Reaches(c[1], c[2])
  BY DEF IInv
<1>2. ASSUME NEW f \in Flows, Moves(f), allow' = allow, pool' \subseteq pool
      PROVE  IInv'
  BY <1>1, <1>2, MovesKeeps
<1>3. ASSUME NEW f \in Flows, NEW ask \in Asks, Open(f, ask) PROVE IInv'
  BY <1>2, <1>3, OpenMoves DEF Open
<1>4. ASSUME NEW f \in Flows, Advance(f) PROVE IInv'
  <2>1. CASE Resolve(f)
    BY <1>2, <2>1, ResolveMoves DEF Resolve
  <2>2. ASSUME NEW a \in Addrs, Dial(f, a) PROVE IInv'
    BY <1>2, <2>2, DialMoves DEF Dial
  <2>3. CASE DialFails(f)
    BY <1>2, <2>3, PointMoves DEF DialFails
  <2>4. CASE DialHost(f)
    BY <1>2, <2>4, DialHostMoves DEF DialHost
  <2>5. CASE Reuse(f)
    BY <1>2, <2>5, ReuseMoves DEF Reuse
  <2>6. CASE Send(f)
    BY <2>6, SendMoves, MovesKeeps DEF Send
  <2>7. CASE HostTunnelHello(f)
    BY <1>2, <2>7, HostTunnelHelloMoves DEF HostTunnelHello
  <2>8. CASE Hello(f)
    BY <1>2, <2>8, HelloMoves DEF Hello
  <2>9. CASE Inspect(f)
    BY <1>2, <2>9, PointMoves DEF Inspect
  <2>10. CASE RawDial(f)
    BY <1>2, <2>10, RawDialMoves DEF RawDial
  <2>11. CASE Track(f)
    BY <1>2, <2>11, PointMoves DEF Track
  <2> QED BY <1>4, <2>1, <2>2, <2>3, <2>4, <2>5, <2>6, <2>7, <2>8, <2>9, <2>10, <2>11
          DEF Advance
<1>5. ASSUME NEW f \in Flows, NEW host \in Headers, NEW upgrade \in BOOLEAN,
             ServeInspected(f, host, upgrade)
      PROVE  IInv'
  BY <1>2, <1>5, ServeInspectedMoves DEF ServeInspected
<1>6. ASSUME NEW f \in Flows, Finish(f) PROVE IInv'
  BY <1>2, <1>6, FinishMoves DEF Finish
<1>11. ASSUME NEW f \in Flows, HostTunnelLeft(f) PROVE IInv'
  BY <1>2, <1>11, PointMoves DEF HostTunnelLeft
<1> USE DEF NothingOutlivesTheStack, SoundFlow, TypedFlow, JudgedFlow, PermittedFlow,
            FaithfulFlow, Reaches, EvaluateDeny, IsHost
<1>7. ASSUME NEW c \in pool, IdleTimeout(c) PROVE IInv'
  BY <1>7 DEF IInv, IdleTimeout
<1>8. ASSUME NEW rules \in AllowSets, Reload(rules) PROVE IInv'
  BY <1>8 DEF IInv, Reload
<1>9. CASE UNCHANGED vars
  BY <1>9 DEF IInv, vars
<1>10. CASE Stop
  <2> DEFINE hit(f) == flow[f].mode = "transparent" /\ flow[f].pc = "spliced"
  <2>1. /\ flow' = [f \in Flows |-> IF hit(f) THEN [flow[f] EXCEPT !.pc = "done"] ELSE flow[f]]
        /\ up' = "stopped" /\ allow' = allow /\ pool' = pool
    BY <1>10 DEF Stop
  <2>2. ASSUME NEW f \in Flows
        PROVE  /\ SoundFlow(flow'[f]) /\ flow'[f] \in FlowType
               /\ flow'[f].mode = "transparent" => flow'[f].pc # "spliced"
    <3>1. CASE hit(f)
      <4>1. flow'[f] = [flow[f] EXCEPT !.pc = "done"] /\ "done" \in Pcs
        BY <2>1, <3>1 DEF Pcs
      <4>2. /\ flow'[f] \in FlowType /\ flow'[f].pc = "done" /\ flow'[f].ask = flow[f].ask
            /\ flow'[f].got = flow[f].got /\ flow'[f].addr = flow[f].addr
        BY <4>1, FlowFields, FlowUpdates
      <4> QED BY <3>1, <4>2, FlowFields DEF Live
    <3>2. CASE ~hit(f)
      BY <2>1, <3>2, FlowFields
    <3> QED BY <3>1, <3>2
  <2>3. flow' \in [Flows -> FlowType]
    BY <2>1, <2>2
  <2> QED BY <2>1, <2>2, <2>3 DEF IInv
<1> QED BY <1>3, <1>4, <1>5, <1>6, <1>7, <1>8, <1>9, <1>10, <1>11 DEF Next

(* Every flow is where the decision it got lets it be, and so is every     *)
(* connection the proxy's transport keeps (internal/proxy and              *)
(* internal/netstack, in every interleaving with the policy's reloads).    *)
THEOREM FlowsSound == Spec => []IInv
BY InitInv, InvStep, PTL DEF Spec

(* What of the invariant the properties are. *)
LEMMA InvImplies ==
  IInv => TypeOK /\ NoDeniedContact /\ CredentialReachesItsHost /\ NothingOutlivesTheStack
BY DEF IInv, SoundFlow, TypedFlow, PermittedFlow, FaithfulFlow, Reaches, TypeOK,
       NoDeniedContact, CredentialReachesItsHost

(* Every variable keeps its type (the fields of the proxy's flows). *)
THEOREM FlowTypes == Spec => []TypeOK
BY FlowsSound, InvImplies, PTL

(* A connection is open only to an address that no deny rule names, or to  *)
(* a port of the host opened for this sandbox (Server.dial, Engine.Deny),  *)
(* whatever DNS answers, the rules are reloaded to, and the guest asks.    *)
THEOREM ContactPermitted == Spec => []NoDeniedContact
BY FlowsSound, InvImplies, PTL

(* A credential reaches only the host of its rule, and on an inspected     *)
(* flow only an origin that proved to be that host (Injector.Apply,        *)
(* inspect).                                                               *)
THEOREM CredentialFaithful == Spec => []CredentialReachesItsHost
BY FlowsSound, InvImplies, PTL

(* The forwarder carries nothing once the stack has stopped, dials that    *)
(* were under way included (hostStack.stop, track).                        *)
THEOREM StackEndsFlows == Spec => []NothingOutlivesTheStack
BY FlowsSound, InvImplies, PTL
===============================================================================
