----------------------------- MODULE MCSandbox -----------------------------
(***************************************************************************)
(* Instances of Sandbox for TLC: two directories of one base name, one of  *)
(* them a repository, and kits that vary one part of the grammar each.     *)
(***************************************************************************)
EXTENDS Sandbox

CONSTANTS W1, W2

Req(op, w, clone) == [op |-> op, ws |-> w, clone |-> clone]

TermSymmetry == Permutations(Terms)

MCRequests ==
  {Req("run", W1, FALSE), Req("run", W1, TRUE),
   Req("create", W2, FALSE), Req("runrm", W1, FALSE)}
  \cup {Req(op, None, FALSE) : op \in {"exec", "start", "stop", "rm", "rmf"}}

MCRunRequests == {Req("run", W1, TRUE)}
MCCreateRequests == {Req("create", W1, FALSE)}
MCCloneRequests == {Req("run", W1, TRUE), Req("create", W1, FALSE)}
MCRemoveRequests == {Req("run", W1, FALSE), Req("create", W2, FALSE), Req("rmf", None, FALSE)}
MCEphemeralRequests == {Req("runrm", W1, TRUE)}

---------------------------------------------------------------------------
Plain == [SandboxV1 EXCEPT !.image = "img"]
V1 == [SpecV1 EXCEPT !.kind = "sandbox", !.name = "team", !.sandbox = Plain]

(* The shapes of a kit, good and bad. *)
Kinds ==
  {[V1 EXCEPT !.kind = k, !.name = n, !.extends = e, !.mixins = m, !.requires = q,
              !.sandbox = s, !.agent = a] :
     k \in {"agent", "sandbox", "mixin", ""}, n \in {"team", "claude"}, e \in BOOLEAN,
     m \in BOOLEAN, q \in {"", "claude"}, s \in {None, Plain},
     a \in {None, [Plain EXCEPT !.image = ""]}}

(* Both spellings of the command, one of them at a time. *)
Mapped == {[Plain EXCEPT !.run = r, !.args = a, !.ttyArgs = y, !.pipeMode = p,
                         !.persistence = q, !.memoryMB = m] :
             r \in {<<>>, <<"bin">>, <<"">>}, a \in {<<>>, <<"-d">>},
             y \in {<<>>, <<"-i">>}, p \in BOOLEAN, q \in BOOLEAN,
             m \in {"", "ok", "negative", "huge"}}
Flat == {[Plain EXCEPT !.binary = r, !.runOptions = a, !.interactiveOptions = y,
                       !.aiFilename = f] :
           r \in {<<>>, <<"bin">>}, a \in {<<>>, <<"-d">>}, y \in {<<>>, <<"-i">>},
           f \in {"", "A.md"}}
Blocks == {[V1 EXCEPT !.sandbox = b] : b \in Mapped \cup Flat}
          \cup {[V1 EXCEPT !.sandbox = None, !.agent = b, !.kind = "agent"] : b \in Flat}

(* What is renamed, joined or removed. *)
Others ==
  {[V1 EXCEPT !.agentContext = c, !.memory = m, !.caps.allow = ca, !.network.allow = na,
              !.network.deny = nd, !.ports = p, !.network.ports = q] :
     c \in {"", "c"}, m \in {"", "m"}, ca \in {{}, {"x"}}, na \in {{}, {"y"}},
     nd \in {{}, {"z"}}, p \in {{}, {80}}, q \in {{}, {81}, {0}}}
  \cup {[V1 EXCEPT !.commands = c, !.volumes = v, !.tmpfs = w, !.removed = r,
                   !.secrets = s, !.egress = e] :
          c \in {None, [SetupV2 EXCEPT !.install = {"i"}, !.files = {"f"}],
                 [SetupV2 EXCEPT !.install = {""}]},
          v \in {Empty, "/a" :> "1g", "/a" :> "unitless"}, w \in {Empty, "/a" :> "", "/b" :> "1m"},
          r \in {{}, {"settings:", "kitDir:"}, {"persistence:"}}, s \in BOOLEAN, e \in BOOLEAN}

(* Two services and two domains over the four credential surfaces. *)
Source(env) == [env |-> env, required |-> TRUE]
Sources == {Empty, "a" :> Source(<<"A">>), "a" :> Source(<<>>),
            ("a" :> Source(<<"A">>)) @@ ("b" :> Source(<<"B">>))}
ServiceDomains == {Empty, "d1" :> "a"} \cup {("d1" :> s) @@ ("d2" :> u) : s, u \in {"a", "b"}}
ServiceAuth ==
  {Empty, "a" :> [header |-> "X-Key", format |-> "token %s"],
   ("a" :> [header |-> "", format |-> ""]) @@ ("b" :> [header |-> "X-Key", format |-> ""]),
   "b" :> [header |-> "X:Key", format |-> "two %s %s"]}
Token == [OAuthV2 EXCEPT !.service = "a", !.host = "d2", !.path = "/t", !.sentinels = TRUE,
                         !.skip = TRUE]
OAuths == {None, Token, [Token EXCEPT !.service = "b", !.sentinels = FALSE],
           [Token EXCEPT !.service = "", !.passthrough = TRUE]}

Inject(dom) == [domain |-> dom, username |-> "", scheme |-> "", header |-> "", format |-> ""]
Injections ==
  {{[Inject("d1") EXCEPT !.scheme = "bearer"]},
   {[Inject("d1") EXCEPT !.scheme = "bearer"], [Inject("d2") EXCEPT !.scheme = "bearer"]},
   {[Inject("d1") EXCEPT !.format = "%s"], [Inject("d2") EXCEPT !.format = "%s", !.header = "X-Key"]},
   {[Inject("d1") EXCEPT !.scheme = "bearer", !.format = "%s"]},
   {Inject("")}, {}}
KeyOf(inject) ==
  [NoCredential EXCEPT !.key = [name |-> "A", managed |-> FALSE, inject |-> inject]]
Lists == {"a" :> KeyOf(i) : i \in Injections}
         \cup {("a" :> KeyOf(i)) @@ ("b" :> [KeyOf({}) EXCEPT !.key = None]) : i \in Injections}

CredentialDocs ==
  {[V1 EXCEPT !.sources = s, !.network.serviceDomains = d, !.network.serviceAuth = a,
              !.oauth = o, !.proxyManaged = p] :
     s \in Sources, d \in ServiceDomains, a \in ServiceAuth, o \in OAuths,
     p \in {{}, {"A"}, {"A", "B"}}}
  \cup {[V1 EXCEPT !.list = l, !.network.serviceDomains = d, !.network.serviceAuth = a,
                   !.oauth = o] :
          l \in Lists, d \in ServiceDomains, a \in ServiceAuth, o \in OAuths}

(* Version 2: the same model, written directly. *)
Spec2 ==
  [SpecV2 EXCEPT !.name = "team", !.kind = "sandbox", !.allow = {"x"},
     !.sandbox = [SandboxV2 EXCEPT !.image = "img", !.build = TRUE, !.entrypoint = <<"bin">>,
                                   !.default = <<"-d">>]]
V2 == {[schema |-> s, unknown |-> u, spec |-> [Spec2 EXCEPT !.credentials = l]] :
         s \in {"2", "3"}, u \in BOOLEAN, l \in Lists}

Ref(form, ref, dir, doc) == [form |-> form, ref |-> ref, dir |-> dir, doc |-> doc]
MCKits ==
  {Ref("local", "", "", d) : d \in Kinds \cup Blocks \cup Others \cup CredentialDocs \cup V2 \cup {None}}
  \cup {Ref(f, r, d, V1) : f \in {"git+", "git+-", "oci", "zip"},
                           r \in {"", "branch", "sha"}, d \in {"", "sub", "up", "absolute"}}

(* These are kits the theorem about InjectsAsWritten speaks of. *)
ASSUME MCKitsAssumption == \A k \in MCKits : k.doc # None => PlainRules(k.doc)

(* A domain of a service that is also in the list. *)
MCListedKits ==
  {Ref("local", "", "", [V1 EXCEPT !.list = "a" :> KeyOf({}), !.network.serviceDomains = "d1" :> "a"])}

(* A git host that asks for HTTP Basic with a fixed user name, in both     *)
(* versions.                                                               *)
Git == [Inject("d1") EXCEPT !.scheme = "basic", !.username = "x-access-token"]
MCBasicKits ==
  {Ref("local", "", "", d) :
     d \in {[V1 EXCEPT !.list = "a" :> KeyOf({Git})],
           [schema |-> "2", unknown |-> FALSE, spec |-> [Spec2 EXCEPT !.credentials = "a" :> KeyOf({Git})]]}}
MCGapKits == MCListedKits \cup MCBasicKits

---------------------------------------------------------------------------
(* Images over four ids, and the hosts and shares they meet. *)
Passwd(uid, gid) == <<[name |-> "node", uid |-> uid, gid |-> gid]>>
Groups(gid) == <<[name |-> "grp", gid |-> gid, members |-> {"node"}]>>
Layer(passwd, group, gone) ==
  [files |-> ("passwd" :> passwd) @@ ("group" :> group), gone |-> gone, links |-> {},
   broken |-> FALSE]
Base == Layer(Passwd(2, 2), Groups(3), {})
Opaque == Layer(None, None, {"root/opaque"})
Linked == [Layer(Passwd(1, 1), None, {}) EXCEPT !.links = {"passwd"}]
Uppers == {Layer(None, None, g) : g \in {{}, {"passwd"}, {"group"}, {"etc"}, {"etc/opaque"}}}
          \cup {Opaque, Linked}
          \cup {Layer(Passwd(3, 1), None, {}), Layer(<<>>, Groups(1), {}),
                Layer(Passwd(1, 1), None, {"etc/opaque"})}
Broken == [Layer(None, None, {}) EXCEPT !.broken = TRUE]
Id(n) == [id |-> n, name |-> ""]
Called(name) == [id |-> None, name |-> name]
Users == {None} \cup {[u |-> u, g |-> g] : u \in {Called("node"), Called("ghost"), Id(2)},
                                          g \in {None, Called("grp"), Id(3)}}
Image(user, layers) == [user |-> user, layers |-> layers]
Host(goos, uid, gid, idmap) ==
  [goos |-> goos, uid |-> uid, gid |-> gid, idmap |-> idmap, resolves |-> FALSE]
Machine(image, host, shares, clone) ==
  [image |-> image, host |-> host, shares |-> shares, clone |-> clone]

(* An image whose last layer hides the whole filesystem below it. *)
MCOpaqueMachines ==
  {Machine(Image([u |-> Id(2), g |-> None], <<Base, Opaque>>), Host("darwin", 1, 1, TRUE), <<"rw">>, FALSE)}

MCMachines ==
  {Machine(Image(u, <<l1, l2, l3>>), Host(os, 1, 1, TRUE), <<"rw">>, FALSE) :
     u \in Users, l1 \in {Base, Broken}, l2 \in Uppers, l3 \in Uppers \cup {Broken},
     os \in {"linux", "darwin"}}
  \cup {Machine(Image([u |-> u, g |-> g], <<Base>>), Host(os, uid, gid, map), s, c) :
          u \in {Id(n) : n \in 0 .. 3} \cup {Called("node")}, g \in {None, Id(0), Id(3)}, os \in {"linux", "darwin", "windows"},
          uid \in 0 .. 3, gid \in 0 .. 3, map \in BOOLEAN,
          s \in {<<>>, <<"rw", "ro">>, <<"ro", "rw">>}, c \in BOOLEAN}
============================================================================
