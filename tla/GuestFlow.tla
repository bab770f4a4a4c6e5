----------------------------- MODULE GuestFlow -----------------------------
(***************************************************************************)
(* What leaves a sandbox: the forward proxy (internal/proxy), the virtual  *)
(* network's own TCP forwarder (internal/network/stack.go), the policy     *)
(* engine both ask (internal/policy) and the credential injector           *)
(* (internal/secret/secret.go).                                            *)
(*                                                                         *)
(* A flow takes many steps (judge, resolve, dial address by address, read  *)
(* the ClientHello, two handshakes, requests), other flows and a policy    *)
(* reload come between any two of them, and the stack can stop at any      *)
(* point.  Names, origins, DNS and the guest's bytes are external.         *)
(***************************************************************************)
EXTENDS Naturals, Sequences, FiniteSets

CONSTANTS Flows,       \* slots for connections the guest opens
          Asks,        \* what the guest asks for, see AskType
          Names,       \* host names: targets with ip = FALSE
          Addrs,       \* addresses: targets with ip = TRUE
          Resolves,    \* DNS: Resolves[name], the addresses of a name
          Owns,        \* Owns[address], the names its origin has a certificate for
          Loopback,    \* the host's own address
          Gateway,     \* the address of the virtual network's gateway
          HostPorts,   \* names of host ports opened with --allow-host-port
          ShutPorts,   \* names of host ports that were not
          Deny,        \* deny rules, fixed for the life of a supervisor
          AllowSets,   \* the sets of allow rules a reload may install
          DefaultAllow,
          Keys,        \* names with a header rule
          Resources,   \* names where the login's sentinel becomes a token
          HasCA,       \* a certificate authority was opened
          Headers,     \* names a request's Host header may hold
          MaxRequests, \* bound: requests read from one inspected flow
          None

(* A target is its labels, host first for a name and network first for an  *)
(* address; a pattern is a kind and labels.                                *)
Targets == Names \cup Addrs
Kinds == {"any", "exact", "suffix", "addr", "prefix"}
HostNames == HostPorts \cup ShutPorts
Datagrams == {"dns", "dhcp", "udp", "icmp", "fragment", "ethertype"}
AskType == [kind : {"http", "connect", "raw"} \cup Datagrams, to : Targets,
            hello : {"tls", "plain", "silent"}, sni : Names \cup {None}, whole : BOOLEAN]

ASSUME FlowAssumption ==
  /\ \A n \in Names : n.ip = FALSE
  /\ \A a \in Addrs : a.ip = TRUE
  /\ Loopback \in Addrs /\ Gateway \in Addrs
  /\ HostNames \subseteq Names /\ HostPorts \cap ShutPorts = {}
  /\ Resolves \in [Names -> SUBSET Addrs] /\ Owns \in [Addrs -> SUBSET Names]
  /\ \A r \in UNION ({Deny} \cup AllowSets) : r.kind \in Kinds
  /\ Asks \subseteq AskType
  /\ \A q \in Asks : q.kind \in {"raw"} \cup Datagrams => q.to \in Addrs
  /\ Keys \cup Resources \cup Headers \subseteq Names
  /\ MaxRequests \in Nat

VARIABLES
  allow,   \* the allow rules in force
  up,      \* the stack: "up" or "stopped"
  flow,    \* flow[f]: a connection and what became of it
  pool     \* the HTTP transport's idle connections: <<name, address>>

vars == <<allow, up, flow, pool>>

Modes == {"forward", "bypass", "transparent"}
Idle == [pc |-> "idle", ask |-> None, mode |-> "bypass", left |-> {},
         addr |-> None, got |-> {}, log |-> <<>>, n |-> 0]

----------------------------------------------------------------------------
(* Rules. *)
Suffix(s, t) == Len(s) < Len(t) /\ SubSeq(t, Len(t) - Len(s) + 1, Len(t)) = s
Prefix(s, t) == Len(s) <= Len(t) /\ SubSeq(t, 1, Len(s)) = s

(* Pattern.Match *)
Match(r, t) ==
  CASE r.kind = "any"    -> TRUE
    [] r.kind = "exact"  -> ~t.ip /\ t.host = r.host
    [] r.kind = "suffix" -> ~t.ip /\ Suffix(r.host, t.host)
    [] r.kind = "addr"   -> t.ip /\ t.host = r.host
    [] r.kind = "prefix" -> t.ip /\ Prefix(r.host, t.host)

(* Policy.Evaluate and EvaluateDeny: a deny wins over every allow. *)
EvaluateDeny(t) == ~\E r \in Deny : Match(r, t)
Evaluate(t) == EvaluateDeny(t) /\ ((\E r \in allow : Match(r, t)) \/ DefaultAllow)

(* Engine.record: the log entry of a decision. *)
Decision(stage, t, ok, mode) == [stage |-> stage, to |-> t, ok |-> ok, mode |-> mode]
Log(f, d) == Append(flow[f].log, d)

(* Injector.Handles: the hosts whose TLS is terminated are those with a    *)
(* credential rule, and shouldInspect asks for an authority as well.       *)
MatchesResource(t) == t \in Resources

Handles(t) == t \in Keys \/ MatchesResource(t)
ShouldInspect(t) == HasCA /\ Handles(t)

(* Injector.Apply: what is attached to a request on the way to t: a key    *)
(* wherever its rule matches, the login's token (for its sentinel, which   *)
(* every request here carries) only on a terminated flow.                  *)
Substitute(t, tls) == IF MatchesResource(t) /\ tls THEN {"token"} ELSE {}
Apply(t, tls) == (IF t \in Keys THEN {"key"} ELSE {}) \cup Substitute(t, tls)

IsHost(t) == t \in HostNames

----------------------------------------------------------------------------
(* A decision on the way in: the flow goes on to next, or is refused. *)
Judged(f, ask, mode, stage, t, ok, next) ==
  flow' = [flow EXCEPT ![f] =
    [Idle EXCEPT !.ask = ask, !.mode = mode, !.pc = IF ok THEN next ELSE "refused",
                 !.log = <<Decision(stage, t, ok, mode)>>]]

(* handleHTTP: judge, attach, send: a connection the transport keeps to    *)
(* the name is used before one is dialled.                                 *)
HandleHTTP(f, ask) ==
  /\ ask.kind = "http"
  /\ Judged(f, ask, "forward", "http", ask.to,
            IF IsHost(ask.to) THEN ask.to \in HostPorts ELSE Evaluate(ask.to), "roundtrip")

(* handleConnect: whether the flow will be terminated is decided from the  *)
(* target alone, before it is judged.                                      *)
HandleConnect(f, ask) ==
  /\ ask.kind = "connect" /\ ~IsHost(ask.to)
  /\ Judged(f, ask, IF ShouldInspect(ask.to) THEN "forward" ELSE "bypass", "connect", ask.to,
            Evaluate(ask.to), "resolve")

(* handleHostTunnel: a tunnel to the host is read as HTTP; TLS inside it   *)
(* ends it, with a record.                                                 *)
HandleHostTunnel(f, ask) ==
  /\ ask.kind = "connect" /\ IsHost(ask.to)
  /\ Judged(f, ask, "forward", "connect", ask.to, ask.to \in HostPorts, "hosttunnel")

HostTunnelHello(f) ==
  /\ flow[f].pc = "hosttunnel"
  /\ \/ /\ flow[f].ask.hello = "plain"
        /\ flow' = [flow EXCEPT ![f].pc = "roundtrip"]
     \/ /\ flow[f].ask.hello = "tls"
        /\ flow' = [flow EXCEPT ![f].pc = "refused", ![f].mode = "bypass",
             ![f].log = Log(f, Decision("connect", flow[f].ask.to, FALSE, "bypass"))]
  /\ UNCHANGED <<allow, up, pool>>

(* The first byte of a tunnel to the host is waited for without a          *)
(* deadline: a guest that sends no request is there until it leaves.       *)
Unheard(f) == flow[f].pc = "hosttunnel" /\ flow[f].ask.hello = "silent"

HostTunnelLeft(f) ==
  /\ Unheard(f)
  /\ flow' = [flow EXCEPT ![f].pc = "refused"]
  /\ UNCHANGED <<allow, up, pool>>

(* forwardTCP: a connection to an address, judged as one; the sandbox's    *)
(* own network and link-local addresses lead nowhere, whatever the policy. *)
NowhereNets == {"own", "linklocal"}
ForwardTCP(f, ask) ==
  /\ ask.kind = "raw"
  /\ IF ask.to.host[1] \in NowhereNets
       THEN flow' = [flow EXCEPT ![f] = [Idle EXCEPT !.ask = ask, !.pc = "refused"]]
       ELSE Judged(f, ask, "transparent", "network", ask.to, Evaluate(ask.to), "rawdial")

(* classify: what the link lets through to the stack besides TCP, which is *)
(* judged above: datagrams to the gateway's two services.  The rest is     *)
(* dropped, with a record where its destination can be read.               *)
Classify(ask) ==
  CASE ask.kind = "dns"  -> IF ask.to = Gateway THEN "deliver" ELSE "note"
    [] ask.kind = "dhcp" -> "deliver"
    [] ask.kind \in {"udp", "icmp"} -> "note"
    [] ask.kind \in {"fragment", "ethertype"} -> "drop"

(* noteDroppedFlow: the record of a drop, made once for a destination and  *)
(* for so many destinations: here it may be missing.                       *)
NoteDroppedFlow(f, ask) ==
  \E log \in {<<>>, <<Decision("network", ask.to, FALSE, "transparent")>>} :
    flow' = [flow EXCEPT ![f] = [Idle EXCEPT !.ask = ask, !.pc = "refused", !.log = log]]

DeliverNetworkPacket(f, ask) ==
  /\ ask.kind \in Datagrams
  /\ \/ /\ Classify(ask) = "deliver"
        /\ flow' = [flow EXCEPT ![f] =
                      [Idle EXCEPT !.ask = ask, !.pc = "done", !.addr = Gateway]]
     \/ Classify(ask) = "note" /\ NoteDroppedFlow(f, ask)
     \/ /\ Classify(ask) = "drop"
        /\ flow' = [flow EXCEPT ![f] = [Idle EXCEPT !.ask = ask, !.pc = "refused"]]

Open(f, ask) ==
  /\ up = "up" /\ flow[f].pc = "idle"
  /\ \/ HandleHTTP(f, ask) \/ HandleConnect(f, ask) \/ HandleHostTunnel(f, ask)
     \/ ForwardTCP(f, ask) \/ DeliverNetworkPacket(f, ask)
  /\ UNCHANGED <<allow, up, pool>>

----------------------------------------------------------------------------
(* dial: the candidates are an address literal, or what DNS says now.  The *)
(* host's names are not resolved: an opened port is dialled on loopback.   *)
Resolve(f) ==
  /\ flow[f].pc \in {"resolve", "roundtrip"}
  /\ LET t == flow[f].ask.to IN
     \/ /\ IsHost(t) /\ t \in HostPorts
        /\ flow' = [flow EXCEPT ![f].pc = "hostdial"]
     \/ /\ ~IsHost(t)
        /\ \E found \in IF t.ip THEN {{t}} ELSE SUBSET Resolves[t] :
             flow' = [flow EXCEPT ![f].left = found, ![f].pc =
                        IF flow[f].pc = "resolve" THEN "dial" ELSE "httpdial"]
  /\ UNCHANGED <<allow, up, pool>>

(* Mutant: the address a permitted name resolved to is not looked at. *)
Dial_Unchecked(f, a) ==
  /\ flow[f].pc \in {"dial", "httpdial"} /\ a \in flow[f].left
  /\ \/ flow' = [flow EXCEPT ![f].addr = a,
                   ![f].pc = IF flow[f].pc = "dial" THEN "hello" ELSE "send"]
     \/ flow' = [flow EXCEPT ![f].left = @ \ {a}]
  /\ UNCHANGED <<allow, up, pool>>

(* One candidate: judged by the deny rules unless it is what was asked     *)
(* for, and then connected to, which may fail.                             *)
Dial(f, a) ==
  /\ flow[f].pc \in {"dial", "httpdial"} /\ a \in flow[f].left
  /\ LET judged == flow[f].ask.to.ip \/ EvaluateDeny(a)
         log == IF flow[f].ask.to.ip THEN flow[f].log
                ELSE Log(f, Decision("dial", a, judged, flow[f].mode))
     IN  \/ /\ judged
            /\ flow' = [flow EXCEPT ![f].addr = a, ![f].log = log,
                          ![f].pc = IF flow[f].pc = "dial" THEN "hello" ELSE "send"]
         \/ flow' = [flow EXCEPT ![f].left = @ \ {a}, ![f].log = log]
  /\ UNCHANGED <<allow, up, pool>>

(* No candidate was both permitted and reachable. *)
DialFails(f) ==
  /\ flow[f].pc \in {"dial", "httpdial"} /\ flow[f].left = {}
  /\ flow' = [flow EXCEPT ![f].pc = "refused"]
  /\ UNCHANGED <<allow, up, pool>>

DialHost(f) ==
  /\ flow[f].pc = "hostdial"
  /\ \/ flow' = [flow EXCEPT ![f].addr = Loopback, ![f].pc = "send"]
     \/ flow' = [flow EXCEPT ![f].pc = "refused"]
  /\ UNCHANGED <<allow, up, pool>>

(* The transport takes an idle connection instead of dialling. *)
Reuse(f) ==
  /\ flow[f].pc = "roundtrip"
  /\ \E c \in pool :
       /\ c[1] = flow[f].ask.to
       /\ pool' = pool \ {c}
       /\ flow' = [flow EXCEPT ![f].addr = c[2], ![f].pc = "send"]
  /\ UNCHANGED <<allow, up>>

(* The request of handleHTTP and serveHostRequests, with its header; the   *)
(* connection is kept, or not.                                             *)
Send(f) ==
  /\ flow[f].pc = "send"
  /\ flow' = [flow EXCEPT ![f].got = Apply(flow[f].ask.to, FALSE), ![f].pc = "done"]
  /\ \/ pool' = pool \cup {<<flow[f].ask.to, flow[f].addr>>}
     \/ UNCHANGED pool
  /\ UNCHANGED <<allow, up>>

IdleTimeout(c) ==
  /\ c \in pool
  /\ pool' = pool \ {c}
  /\ UNCHANGED <<allow, up, flow>>

----------------------------------------------------------------------------
(* readClientHello: a hello that does not come in one read has no name,    *)
(* since extractSNI asks for more without an error.                        *)
ReadClientHello(ask) == IF ask.hello = "tls" /\ ask.whole THEN ask.sni ELSE None

Blind(f, log) ==
  flow' = [flow EXCEPT ![f].pc = "spliced", ![f].mode = "bypass", ![f].log = log]

(* The rest of handleConnect: a name other than the target's is judged as  *)
(* well; TLS for the target is terminated if it was to be, and everything  *)
(* else is carried blind, with a record where it was to be read.           *)
Hello(f) ==
  /\ flow[f].pc = "hello"
  /\ LET ask == flow[f].ask
         sni == ReadClientHello(ask)
         same == sni \in {None, ask.to}
         ok == same \/ Evaluate(sni)
         log == IF same THEN flow[f].log ELSE Log(f, Decision("sni", sni, ok, flow[f].mode))
     IN  IF ~ok THEN flow' = [flow EXCEPT ![f].pc = "refused", ![f].log = log]
         ELSE IF flow[f].mode = "forward" /\ same /\ ask.hello = "tls"
           THEN flow' = [flow EXCEPT ![f].pc = "handshake"]
         ELSE Blind(f, IF flow[f].mode = "bypass" THEN log
                       ELSE Append(log, Decision("connect", ask.to, TRUE, "bypass")))
  /\ UNCHANGED <<allow, up, pool>>

(* Mutant: the guest's handshake has no deadline. *)
Inspect_Waits(f) ==
  /\ flow[f].pc = "handshake" /\ flow[f].ask.sni # None
  /\ flow' = [flow EXCEPT ![f].pc =
                IF flow[f].ask.to \in Owns[flow[f].addr] THEN "inspecting" ELSE "refused"]
  /\ UNCHANGED <<allow, up, pool>>

(* inspect: a certificate for the target, a handshake with the guest, and  *)
(* one with the origin, whose certificate must be the target's.            *)
Inspect(f) ==
  /\ flow[f].pc = "handshake"
  /\ flow' = [flow EXCEPT ![f].pc =
                IF flow[f].ask.to \in Owns[flow[f].addr] THEN "inspecting" ELSE "refused"]
  /\ UNCHANGED <<allow, up, pool>>

(* Mutant: the credential follows the request's Host header. *)
ServeInspected_ByHost(f, host, upgrade) ==
  /\ flow[f].pc = "inspecting" /\ flow[f].n < MaxRequests
  /\ flow' = [flow EXCEPT ![f].n = @ + 1, ![f].got = @ \cup Apply(host, TRUE),
                ![f].pc = IF upgrade THEN "spliced" ELSE "inspecting",
                ![f].mode = IF upgrade THEN "bypass" ELSE @,
                ![f].log = IF upgrade THEN Log(f, Decision("request", host, TRUE, "bypass")) ELSE @]
  /\ UNCHANGED <<allow, up, pool>>

(* serveInspected: a request, whose Host header is judged when it is not   *)
(* the target's; the credential is the target's.  After an upgrade the     *)
(* rest is carried blind.                                                  *)
ServeInspected(f, host, upgrade) ==
  /\ flow[f].pc = "inspecting" /\ flow[f].n < MaxRequests
  /\ LET t == flow[f].ask.to
         ok == host = t \/ Evaluate(host)
         log == IF host = t THEN flow[f].log ELSE Log(f, Decision("request", host, ok, "forward"))
     IN  flow' = [flow EXCEPT ![f].n = @ + 1,
           ![f].got = IF ok THEN @ \cup Apply(t, TRUE) ELSE @,
           ![f].pc = IF ~ok THEN "refused" ELSE IF upgrade THEN "spliced" ELSE "inspecting",
           ![f].mode = IF ok /\ upgrade THEN "bypass" ELSE @,
           ![f].log = IF ok /\ upgrade THEN Append(log, Decision("request", t, TRUE, "bypass"))
                      ELSE log]
  /\ UNCHANGED <<allow, up, pool>>

----------------------------------------------------------------------------
(* The forwarder's dial, which the stack may outlive. *)
RawDial(f) ==
  /\ flow[f].pc = "rawdial"
  /\ \/ up = "up" /\ flow' = [flow EXCEPT ![f].addr = flow[f].ask.to, ![f].pc = "track"]
     \/ flow' = [flow EXCEPT ![f].pc = "refused"]
  /\ UNCHANGED <<allow, up, pool>>

(* Mutant: a connection made while the stack stopped is served. *)
Track_Late(f) ==
  /\ flow[f].pc = "track"
  /\ flow' = [flow EXCEPT ![f].pc = "spliced"]
  /\ UNCHANGED <<allow, up, pool>>

(* splice and track: both ends are closed if the stack has stopped. *)
Track(f) ==
  /\ flow[f].pc = "track"
  /\ flow' = [flow EXCEPT ![f].pc = IF up = "up" THEN "spliced" ELSE "done"]
  /\ UNCHANGED <<allow, up, pool>>

(* The guest or the origin ends the connection. *)
Finish(f) ==
  /\ flow[f].pc \in {"spliced", "inspecting", "done", "refused"}
  /\ flow' = [flow EXCEPT ![f] = [Idle EXCEPT !.pc = "closed"]]
  /\ UNCHANGED <<allow, up, pool>>

(* hostStack.stop closes the listeners and every tracked connection. *)
Stop ==
  /\ up = "up"
  /\ up' = "stopped"
  /\ flow' = [f \in Flows |->
       IF flow[f].mode = "transparent" /\ flow[f].pc = "spliced"
         THEN [flow[f] EXCEPT !.pc = "done"] ELSE flow[f]]
  /\ UNCHANGED <<allow, pool>>

(* reloadPolicy replaces the allow rules; the denies stay. *)
Reload(rules) ==
  /\ up = "up" /\ rules # allow
  /\ allow' = rules
  /\ UNCHANGED <<up, flow, pool>>

----------------------------------------------------------------------------
Init ==
  /\ allow \in AllowSets
  /\ up = "up"
  /\ flow = [f \in Flows |-> Idle]
  /\ pool = {}

Advance(f) ==
  \/ Resolve(f) \/ (\E a \in Addrs : Dial(f, a)) \/ DialFails(f) \/ DialHost(f) \/ Reuse(f)
  \/ Send(f) \/ HostTunnelHello(f) \/ Hello(f) \/ Inspect(f) \/ RawDial(f) \/ Track(f)

Next ==
  \/ \E f \in Flows :
       \/ \E ask \in Asks : Open(f, ask)
       \/ Advance(f)
       \/ HostTunnelLeft(f)
       \/ \E host \in Headers, upgrade \in BOOLEAN : ServeInspected(f, host, upgrade)
       \/ Finish(f)
  \/ \E c \in pool : IdleTimeout(c)
  \/ \E rules \in AllowSets : Reload(rules)
  \/ Stop

(* Every step of Advance ends: dials and handshakes have a timeout, and    *)
(* the wait for a ClientHello a deadline.  HostTunnelLeft is not one: it   *)
(* is the guest's, which may hold its tunnel to the host for ever.         *)
Spec == Init /\ [][Next]_vars /\ \A f \in Flows : WF_vars(Advance(f))

----------------------------------------------------------------------------
Pcs == {"idle", "roundtrip", "resolve", "dial", "httpdial", "hostdial", "hello", "handshake",
        "hosttunnel", "rawdial", "track", "send", "inspecting", "spliced", "done", "refused",
        "closed"}
Live == {"hello", "handshake", "track", "send", "inspecting", "spliced"}

Stages == {"http", "connect", "network", "dial", "sni", "request"}
Decisions == [stage : Stages, to : Targets, ok : BOOLEAN, mode : Modes]
FlowType == [pc : Pcs, ask : Asks \cup {None}, mode : Modes, left : SUBSET Addrs,
             addr : Addrs \cup {None}, got : SUBSET {"key", "token"},
             log : Seq(Decisions), n : 0 .. MaxRequests]

(* Every variable has its type, and a flow with a connection knows whose. *)
TypeOK ==
  /\ allow \in AllowSets /\ up \in {"up", "stopped"}
  /\ pool \subseteq Targets \X Addrs
  /\ flow \in [Flows -> FlowType]
  /\ \A f \in Flows : /\ flow[f].pc \in Live => flow[f].addr \in Addrs
                      /\ flow[f].pc \notin {"idle", "closed"} => flow[f].ask \in Asks

(* No connection is open to an address a deny rule names, whatever the     *)
(* name it was reached by resolves to and however the allow rules change:  *)
(* but for ports of the host that were opened for this sandbox.            *)
NoDeniedContact ==
  /\ \A f \in Flows : flow[f].pc \in Live =>
       \/ EvaluateDeny(flow[f].addr)
       \/ flow[f].ask.to \in HostPorts /\ flow[f].addr = Loopback
  /\ \A c \in pool : EvaluateDeny(c[2]) \/ (c[1] \in HostPorts /\ c[2] = Loopback)

(* A credential goes to the host its rule names and no other: on a         *)
(* terminated flow to an origin that proved to be that host, and the       *)
(* login's token on no other kind of flow.                                 *)
CredentialReachesItsHost ==
  \A f \in Flows :
    LET t == flow[f].ask.to IN
    flow[f].got # {} =>
      /\ "key" \in flow[f].got => t \in Keys
      /\ "token" \in flow[f].got => t \in Resources /\ flow[f].ask.kind = "connect"
      /\ flow[f].ask.kind = "connect" /\ ~IsHost(t) => t \in Owns[flow[f].addr]

(* As documented: a tunnel whose ClientHello names a forbidden host is     *)
(* denied, in however many reads the ClientHello arrives.                  *)
ForbiddenGreetingDenied ==
  \A f \in Flows :
    LET ask == flow[f].ask IN
    flow[f].pc = "spliced" /\ ask.kind = "connect" /\ ask.hello = "tls" /\ ask.sni # None =>
      EvaluateDeny(ask.sni)

(* Nothing the forwarder connected survives the stack. *)
NothingOutlivesTheStack ==
  up = "stopped" =>
    \A f \in Flows : flow[f].mode = "transparent" => flow[f].pc # "spliced"

(* Every connection is answered, refused or carried: none waits for good,  *)
(* the stack stopping included, but for the tunnel to a port of the host   *)
(* whose guest sends no request, which has no deadline.                    *)
FlowsSettle ==
  \A f \in Flows :
    flow[f].pc # "idle" ~>
      \/ flow[f].pc \in {"done", "refused", "spliced", "inspecting", "closed"}
      \/ Unheard(f)
============================================================================
