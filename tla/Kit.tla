-------------------------------- MODULE Kit --------------------------------
(***************************************************************************)
(* Kits (internal/kit, internal/cli/kitagent.go): a document written by    *)
(* someone else, of which a command makes network rules, an agent and      *)
(* credential rules.  Nothing here keeps state: the module defines what    *)
(* loading one yields, as a function of the document, and Sandbox takes it *)
(* as the first step of a command.                                         *)
(*                                                                         *)
(* A document is a record of its surfaces.  A map is a function whose      *)
(* domain is the keys that are written; a list whose order nothing reads   *)
(* is a set; "" is a field left out.  A version 1 document has the fields  *)
(* of SpecV1; one of version 2 is the model itself, with what the decoder  *)
(* did not know.                                                           *)
(***************************************************************************)
EXTENDS Sequences, FiniteSets, Functions, TLC

CONSTANTS None,         \* an absent block
          Builtins      \* the names of the agents Boks ships

Empty == <<>>           \* the map without keys

(* sandboxV1, networkV1, specV1: a version 1 document in which nothing is  *)
(* written.  Fields that only describe a kit, or that nothing reads, are   *)
(* left out; removed is the set of the fields kept for old documents.      *)
SandboxV1 == [image |-> "", build |-> FALSE, memoryMB |-> "", run |-> <<>>, args |-> <<>>,
              ttyArgs |-> <<>>, binary |-> <<>>, runOptions |-> <<>>,
              interactiveOptions |-> <<>>, persistence |-> FALSE, pipeMode |-> FALSE,
              aiFilename |-> ""]

NetworkV1 == [allow |-> {}, deny |-> {}, ports |-> {},
              serviceDomains |-> Empty, serviceAuth |-> Empty]

SpecV1 == [schema |-> "1", kind |-> "", name |-> "", extends |-> FALSE,
           mixins |-> FALSE, requires |-> "", secrets |-> FALSE, egress |-> FALSE,
           sandbox |-> None, agent |-> None, agentContext |-> "", memory |-> "",
           caps |-> [allow |-> {}, deny |-> {}], network |-> NetworkV1, ports |-> {},
           list |-> Empty, sources |-> Empty, oauth |-> None, variables |-> Empty,
           proxyManaged |-> {}, commands |-> None, volumes |-> Empty, vlist |-> {},
           tmpfs |-> Empty, removed |-> {}]

(* Sandbox, Credential, OAuth, Setup, Spec: the model of version 2, which  *)
(* both versions are read into, with nothing written.                      *)
SandboxV2 == [image |-> "", build |-> FALSE, memory |-> "", entrypoint |-> <<>>,
              default |-> <<>>, interactive |-> <<>>]

NoCredential == [key |-> None, required |-> FALSE, oauth |-> None]

OAuthV2 == [service |-> "", host |-> "", path |-> "", hosts |-> {}, sentinels |-> FALSE,
            passthrough |-> FALSE, skip |-> FALSE]

SetupV2 == [install |-> {}, startup |-> {}, files |-> {}]

Volume(path, type, size) == [path |-> path, type |-> type, size |-> size]

SpecV2 == [schema |-> "2", name |-> "", kind |-> "", extends |-> FALSE, mixins |-> FALSE,
           requires |-> "", sandbox |-> None, filename |-> "", content |-> "",
           allow |-> {}, deny |-> {}, ports |-> {}, credentials |-> Empty,
           variables |-> Empty, setup |-> None, volumes |-> {}]

(* What a step of the translation returns: the model and what it warned of, *)
(* or a refusal.                                                            *)
Fine(spec, warned) == [ok |-> TRUE, spec |-> spec, warned |-> warned]
Refused == [ok |-> FALSE, spec |-> None, warned |-> {}]

WarnIf(cond, surface) == IF cond THEN {surface} ELSE {}

(* APIKeyInject, APIKey, OAuth and Credential, and what a decoded document  *)
(* of version 1 has in the surfaces that are joined into credentials.       *)
InjectType == [domain : STRING, username : STRING, scheme : STRING, header : STRING,
               format : STRING]
KeyType == [name : STRING, managed : BOOLEAN, inject : SUBSET InjectType]
OAuthType == [service : STRING, host : STRING, path : STRING, hosts : SUBSET STRING,
              sentinels : BOOLEAN, passthrough : BOOLEAN, skip : BOOLEAN]
CredentialType == [key : KeyType \cup {None}, required : BOOLEAN, oauth : OAuthType \cup {None}]

(* A variable has a name: the one entry of proxyManaged that names a       *)
(* credential by itself is for a source whose first variable has none.     *)
SourceType == [env : Seq(STRING \ {""}), required : BOOLEAN]
AuthType == [header : STRING, format : STRING]

Keyed(f, S) == DOMAIN f \subseteq STRING /\ f \in [DOMAIN f -> S]
DocumentOk(d) ==
  IF d.schema = "1"
  THEN /\ Keyed(d.list, CredentialType)
       /\ Keyed(d.sources, SourceType)
       /\ Keyed(d.network.serviceDomains, STRING)
       /\ Keyed(d.network.serviceAuth, AuthType)
       /\ d.oauth \in OAuthType \cup {None}
       /\ d.proxyManaged \subseteq STRING
       /\ \A b \in {d.sandbox, d.agent} \ {None} :
            {b.run, b.args, b.ttyArgs, b.binary, b.runOptions, b.interactiveOptions}
              \subseteq Seq(STRING)
  ELSE d.schema = "2" => /\ "credentials" \in DOMAIN d.spec
                         /\ Keyed(d.spec.credentials, CredentialType)

---------------------------------------------------------------------------
(* Version 1: every legacy surface is folded onto the version 2 model.     *)

(* translateV1Sandbox: the block under either of its names.  The mapping   *)
(* form of the entrypoint wins over the three flat fields.                 *)
Block(d) == IF d.sandbox = None THEN d.agent ELSE d.sandbox

Or(first, second) == IF first # <<>> THEN first ELSE second

(* Mutant: ttyArgs is decoded and then not carried over. *)
SandboxOf_NoTty(b) ==
  [image |-> b.image, build |-> b.build, memory |-> b.memoryMB,
   entrypoint |-> Or(b.run, b.binary), default |-> Or(b.args, b.runOptions),
   interactive |-> b.interactiveOptions]

SandboxOf(b) ==
  [image |-> b.image, build |-> b.build, memory |-> b.memoryMB,
   entrypoint |-> Or(b.run, b.binary), default |-> Or(b.args, b.runOptions),
   interactive |-> Or(b.ttyArgs, b.interactiveOptions)]

SandboxWarnings(d, b) ==
  UNION {WarnIf(d.agent # None, "agent:"),
         WarnIf(b.persistence, "sandbox.persistence"),
         WarnIf(b.pipeMode, "sandbox.entrypoint.pipeMode"),
         WarnIf(b.run = <<>> /\ b.binary # <<>>, "agent.binary"),
         WarnIf(b.args = <<>> /\ b.runOptions # <<>>, "agent.runOptions"),
         WarnIf(b.ttyArgs = <<>> /\ b.interactiveOptions # <<>>,
                "agent.interactiveOptions"),
         WarnIf(b.memoryMB # "", "sandbox.resources.memoryMB")}

(* translateV1AgentInstructions: agentContext wins over memory. *)
ContentOf(d) == IF d.agentContext # "" THEN d.agentContext ELSE d.memory

InstructionWarnings(d) ==
  UNION {WarnIf(Block(d) # None /\ Block(d).aiFilename # "", "sandbox.aiFilename"),
         WarnIf(d.agentContext # "", "agentContext:"),
         WarnIf(d.memory # "", "memory:")}

(* translateV1Network: the two spellings of the rules are joined, and the  *)
(* ports of both places are kept.                                          *)
NetworkWarnings(d) ==
  UNION {WarnIf(d.caps.allow \cup d.caps.deny # {}, "caps:"),
         WarnIf(d.network.allow # {}, "network.allowedDomains"),
         WarnIf(d.network.deny # {}, "network.deniedDomains"),
         WarnIf(d.network.ports # {}, "network.publishedPorts")}

(* translateV1Credentials: the four surfaces, one credential per service.  *)
(* A service the author wrote in the version 2 form is left to that entry. *)
Legacy(d, svc) == svc \notin DOMAIN d.list

(* environment.proxyManaged names variables; the service is found through  *)
(* credentials.sources.  Two sources may list one variable, and Go's map   *)
(* order then decides: hence a set of possible maps.                       *)
Listing(d, name) ==
  {svc \in DOMAIN d.sources : \E i \in DOMAIN d.sources[svc].env : d.sources[svc].env[i] = name}
EnvToService(d) ==
  LET named == {n \in d.proxyManaged : Listing(d, n) # {}}
  IN  {f \in [named -> DOMAIN d.sources] : \A n \in named : f[n] \in Listing(d, n)}

Pending(d, managed) ==
  {svc \in DOMAIN d.sources \cup Range(d.network.serviceDomains) \cup Range(managed) :
     Legacy(d, svc)}

(* Mutant: the header of one service is taken for every domain. *)
InjectOf_AnyAuth(d, svc) ==
  {[domain |-> dom, username |-> "", scheme |-> "",
    header |-> IF d.network.serviceAuth # Empty
               THEN d.network.serviceAuth[CHOOSE s \in DOMAIN d.network.serviceAuth : TRUE].header
               ELSE "",
    format |-> "%s"] :
   dom \in {x \in DOMAIN d.network.serviceDomains : d.network.serviceDomains[x] = svc}}

InjectOf(d, svc) ==
  LET auth == d.network.serviceAuth
      known == svc \in DOMAIN auth
  IN  {[domain |-> dom, username |-> "", scheme |-> "",
        header |-> IF known THEN auth[svc].header ELSE "",
        format |-> IF known /\ auth[svc].format # "" THEN auth[svc].format ELSE "%s"] :
       dom \in {x \in DOMAIN d.network.serviceDomains : d.network.serviceDomains[x] = svc}}

NameOf(d, svc) ==
  IF svc \in DOMAIN d.sources /\ d.sources[svc].env # <<>>
  THEN d.sources[svc].env[1] ELSE ""

Collapse(d, managed, svc) ==
  LET name == NameOf(d, svc)
      inject == InjectOf(d, svc)
  IN  [NoCredential EXCEPT
         !.key = IF name = "" /\ inject = {} THEN None
                 ELSE [name |-> name, managed |-> svc \in Range(managed), inject |-> inject],
         !.required = svc \in DOMAIN d.sources /\ d.sources[svc].required]

Credentials(d, managed) ==
  [svc \in DOMAIN d.list \cup Pending(d, managed) |->
     IF Legacy(d, svc) THEN Collapse(d, managed, svc) ELSE d.list[svc]]

CredentialWarnings(d, managed) ==
  UNION {WarnIf(\E s \in DOMAIN d.sources : Legacy(d, s), "credentials.sources"),
         WarnIf(\E x \in DOMAIN d.network.serviceDomains :
                  Legacy(d, d.network.serviceDomains[x]), "network.serviceDomains"),
         WarnIf(d.network.serviceAuth # Empty, "network.serviceAuth"),
         WarnIf(d.proxyManaged # {}, "environment.proxyManaged"),
         d.proxyManaged \ DOMAIN managed}      \* each such entry by its name

(* translateV1OAuth: the standalone block joins the credential of its      *)
(* service.  An API key with targets and no name was only routing, and its *)
(* domains become resource hosts.                                          *)
RoutingOnly(key) == key # None /\ key.name = "" /\ key.inject # {}

OAuthOf(d, hosts) ==
  [d.oauth EXCEPT !.hosts = hosts \ {"", d.oauth.host}]

FoldOAuth(d, creds) ==
  LET svc == d.oauth.service
      old == IF svc \in DOMAIN creds THEN creds[svc] ELSE NoCredential
      routed == RoutingOnly(old.key)
      new == [old EXCEPT !.key = IF routed THEN None ELSE @,
                         !.oauth = OAuthOf(d, IF routed THEN {i.domain : i \in old.key.inject}
                                              ELSE {})]
  IN  IF d.oauth = None THEN Fine(creds, {})
      ELSE IF svc = "" \/ old.oauth # None THEN Refused
      ELSE Fine([s \in {svc} \cup DOMAIN creds |-> IF s = svc THEN new ELSE creds[s]],
                UNION {{"oauth:"}, WarnIf(d.oauth.passthrough, "oauth.passthroughResponse"),
                       WarnIf(d.oauth.skip, "oauth.skipIfEnv")})

(* translateV1Setup, translateV1Volumes and translateV1Removed. *)
VolumesOf(d) ==
  d.vlist \cup {Volume(p, "", d.volumes[p]) : p \in DOMAIN d.volumes}
          \cup {Volume(p, "tmpfs", d.tmpfs[p]) : p \in DOMAIN d.tmpfs}

OtherWarnings(d) ==
  UNION {WarnIf(d.kind = "agent", "kind: agent"),
         WarnIf(d.commands # None, "commands:"),
         WarnIf(d.commands # None /\ d.commands.files # {}, "commands.initFiles"),
         WarnIf(d.volumes # Empty, "volumes: (mapping form)"),
         WarnIf(d.tmpfs # Empty, "tmpfs:"),
         d.removed}

(* translateV1: the model, and what the translation warns of. *)
ModelOf(d, creds) ==
  LET block == Block(d)
  IN  [schema |-> "1", name |-> d.name, extends |-> d.extends, mixins |-> d.mixins,
       requires |-> d.requires, kind |-> IF d.kind = "agent" THEN "sandbox" ELSE d.kind,
       sandbox |-> IF block = None THEN None ELSE SandboxOf(block),
       filename |-> IF block = None THEN "" ELSE block.aiFilename, content |-> ContentOf(d),
       allow |-> d.caps.allow \cup d.network.allow, deny |-> d.caps.deny \cup d.network.deny,
       ports |-> d.ports \cup d.network.ports, credentials |-> creds,
       variables |-> d.variables, setup |-> d.commands, volumes |-> VolumesOf(d)]

SurfaceWarnings(d) ==
  UNION {OtherWarnings(d), NetworkWarnings(d), InstructionWarnings(d),
         IF Block(d) = None THEN {} ELSE SandboxWarnings(d, Block(d))}

(* Every value is a set: one member for each map order. *)
Translate(d) ==
  LET result(managed) ==
        LET creds == FoldOAuth(d, Credentials(d, managed))
        IN  IF ~creds.ok THEN Refused
            ELSE Fine(ModelOf(d, creds.spec),
                      UNION {creds.warned, CredentialWarnings(d, managed), SurfaceWarnings(d)})
  IN  IF d.secrets \/ d.egress \/ (Block(d) # None /\ Block(d).memoryMB = "negative")
      THEN {Refused}
      ELSE {result(managed) : managed \in EnvToService(d)}

---------------------------------------------------------------------------
(* Both grammars: schemes, warnings, validation.                           *)

(* decodeV2 is strict: a version 1 key, an unknown one in either form of   *)
(* sandbox.command, or a second document is an error.                      *)
DecodeV2(d) == IF d.unknown THEN Refused ELSE Fine(d.spec, {})

Injects(spec) ==
  UNION {IF spec.credentials[s].key = None THEN {} ELSE spec.credentials[s].key.inject :
         s \in DOMAIN spec.credentials}

(* ExpandSchemes: scheme becomes header and format, and is cleared. *)
SchemeFits(in) ==
  \/ in.scheme = ""
  \/ in.scheme = "bearer" /\ in.format = "" /\ in.username = ""
  \/ in.scheme = "basic" /\ in.format = "" /\ in.username # ""

ExpandScheme(in) ==
  CASE in.scheme = "bearer" ->
         [in EXCEPT !.scheme = "", !.format = "Bearer %s",
                    !.header = IF @ = "" THEN "Authorization" ELSE @]
    [] in.scheme = "basic" -> [in EXCEPT !.scheme = "", !.format = "%s"]
    [] OTHER -> in

Expanded(c) ==
  IF c.key = None THEN c ELSE [c EXCEPT !.key.inject = {ExpandScheme(in) : in \in @}]

ExpandSchemes(spec) ==
  [spec EXCEPT !.credentials = [s \in DOMAIN @ |-> Expanded(@[s])]]

(* warnV2: what both grammars accept and nothing acts on. *)
WarnV2(spec) ==
  UNION {WarnIf(spec.mixins, "mixins"),
         WarnIf(spec.sandbox # None /\ spec.sandbox.build, "sandbox.build"),
         WarnIf(spec.kind = "mixin" /\ spec.filename # "", "agentInstructions.filename"),
         WarnIf(spec.schema = "2" /\ \E s \in DOMAIN spec.credentials :
                  spec.credentials[s].oauth # None /\ spec.credentials[s].oauth.skip,
                "oauth.skipIfEnv")}

ValidKind(spec) ==
  \/ /\ spec.kind = "mixin"
     /\ spec.sandbox = None
     /\ ~(spec.extends /\ spec.schema = "2")
     /\ ~spec.mixins
  \/ /\ spec.kind = "sandbox"
     /\ spec.requires = ""
     /\ (spec.sandbox = None) = spec.extends

(* parseByteSize: refuses a unit it does not know, and a size that does    *)
(* not fit in 62 bits.  An absent size is not parsed.                      *)
ByteSize(text) == text \notin {"huge", "unitless"}

ValidSandbox(sb) ==
  \/ sb = None
  \/ /\ sb.image # ""
     /\ ByteSize(sb.memory)
     /\ sb.entrypoint = <<>> \/ sb.entrypoint[1] # ""

(* A format has exactly one placeholder. *)
OnePlaceholder == {"%s", "Bearer %s", "token %s"}

ValidAPIKey(key) ==
  \/ key = None
  \/ /\ key.managed => key.name # ""
     /\ \A in \in key.inject : /\ in.domain # ""
                               /\ in.scheme = ""
                               /\ in.username # "" => in.format = "%s"
                               /\ in.format \in OnePlaceholder

ValidOAuth(o) ==
  o = None \/ (o.host # "" /\ o.path # "" /\ (o.passthrough \/ o.sentinels))

ValidCredentials(creds) ==
  \A s \in DOMAIN creds : /\ s # ""
                          /\ creds[s].key # None \/ creds[s].oauth # None
                          /\ ValidAPIKey(creds[s].key)
                          /\ ValidOAuth(creds[s].oauth)

ValidSetup(setup) ==
  \/ setup = None
  \/ "" \notin setup.install \cup setup.startup \cup setup.files

ValidVolumes(volumes) ==
  /\ \A v \in volumes : v.path # "" /\ v.type \in {"", "tmpfs"} /\ ByteSize(v.size)
  /\ \A v, w \in volumes : v.path = w.path => v = w

ValidPorts(ports) == \A p \in ports : p \in 1..65535

(* A variable's name is a shell identifier. *)
ValidEnvironment(variables) == DOMAIN variables \cap {"", "1X"} = {}

Validate(spec) ==
  /\ spec.kind \in {"sandbox", "mixin"}
  /\ spec.name # ""
  /\ ValidKind(spec)
  /\ ValidSandbox(spec.sandbox)
  /\ ValidPorts(spec.ports)
  /\ ValidEnvironment(spec.variables)
  /\ ValidSetup(spec.setup)
  /\ ValidCredentials(spec.credentials)
  /\ ValidVolumes(spec.volumes)

(* ParseSpec: the version selects the grammar; schemes are expanded before *)
(* the result is validated.                                                *)
Decode(d) ==
  CASE d.schema = "1" -> Translate(d)
    [] d.schema = "2" -> {DecodeV2(d)}
    [] OTHER -> {Refused}

Finish(r) ==
  IF ~r.ok \/ ~(\A in \in Injects(r.spec) : SchemeFits(in)) \/ ~Validate(ExpandSchemes(r.spec))
  THEN Refused
  ELSE Fine(ExpandSchemes(r.spec), r.warned \cup WarnV2(ExpandSchemes(r.spec)))

ParseSpec(d) == {Finish(r) : r \in Decode(d)}

---------------------------------------------------------------------------
(* Where a document comes from.  A reference is                            *)
(* [form, ref, dir, doc]: doc is what the place holds, or None.            *)

(* remoteForm: the references Boks refuses to fetch. *)
RemoteForm(r) == r.form \in {"git://", "http", "oci", "registry", "zip"}

(* parseGitRef: a directory that is absolute or leaves the repository is   *)
(* refused, never cleaned into another one.                                *)
ParseGitRef(r) == r.form # "git+-" /\ r.dir \notin {"absolute", "up"}

(* loadGit and fetchGit: the commit is always told, and a reference that is *)
(* not one exact commit is told to be movable.                              *)
LoadGit(r) ==
  IF ~ParseGitRef(r) \/ r.doc = None THEN {Refused}
  ELSE {IF ~p.ok THEN p
        ELSE [p EXCEPT !.warned = @ \cup {"fetched at commit"}
                                    \cup WarnIf(r.ref # "sha", "not a fixed commit")] :
        p \in ParseSpec(r.doc)}

Load(r) ==
  IF r.form \in {"git+", "git+-"} THEN LoadGit(r)
  ELSE IF RemoteForm(r) \/ r.doc = None THEN {Refused} ELSE ParseSpec(r.doc)

---------------------------------------------------------------------------
(* What a command makes of a loaded kit.                                   *)

(* kitCommand: the entrypoint and the tail for the way the command runs. *)
KitCommand(spec, interactive) ==
  spec.sandbox.entrypoint \o
    (IF interactive /\ spec.sandbox.interactive # <<>> THEN spec.sandbox.interactive
     ELSE spec.sandbox.default)

(* registerKitAgent and agentFromKit: a mixin adds no agent, a built-in's  *)
(* name is refused, and so is an agent without an image (one that extends  *)
(* another kit).                                                           *)
RegisterKitAgent(spec, interactive) ==
  IF spec.kind # "sandbox" THEN Fine(None, {})
  ELSE IF spec.name \in Builtins \/ spec.sandbox = None THEN Refused
  ELSE Fine([name |-> spec.name, image |-> spec.sandbox.image,
             command |-> KitCommand(spec, interactive), env |-> spec.variables], {})

(* kitAttachForm, in the grammar of --inject. *)
FormRefused(in) == in.scheme = "" /\ (in.header = "X:Key" \/ in.format \notin OnePlaceholder \cup {""})
KitAttachForm(in) ==
  IF in.scheme # "" THEN <<in.scheme, in.username>>
  ELSE <<IF in.header = "" THEN "Authorization" ELSE in.header, in.format>>

(* kitInjectSpecs: one rule per service and form, with its hosts. *)
KitInjectSpecs(spec) ==
  UNION {LET key == spec.credentials[s].key
         IN  IF key = None THEN {}
             ELSE {[service |-> s, form |-> f,
                    hosts |-> {in.domain : in \in {x \in key.inject : KitAttachForm(x) = f}}] :
                   f \in {KitAttachForm(in) : in \in key.inject}} :
         s \in DOMAIN spec.credentials}

(* parseAttachment: a form is cut at its first colon.  The two names of    *)
(* schemes are not headers, whoever wrote them.                            *)
ParseAttachment(form) ==
  LET rule(h, f, s, u) == [header |-> h, format |-> f, scheme |-> s, username |-> u]
  IN  CASE form[1] = "bearer" -> rule("", "", "bearer", "")
        [] form[1] = "basic" -> rule("", "", "basic", form[2])
        [] OTHER -> rule(form[1], form[2], "", "")

(* Inject.Validate: no catch-all domain; the format of a rule without a    *)
(* scheme has its one placeholder.                                         *)
InjectValid(domain, rule) ==
  /\ domain \notin {"", "*"}
  /\ rule.scheme = "" => rule.username = "" /\ rule.format \in OnePlaceholder \cup {""}

(* Inject.header and effectiveFormat: what a request is given. *)
HeaderValue(rule) ==
  CASE rule.scheme = "basic" -> <<"Authorization", "Basic %s", rule.username>>
    [] rule.scheme = "bearer" -> <<"Authorization", "Bearer %s">>
    [] OTHER -> <<IF rule.header = "" THEN "Authorization" ELSE rule.header,
                  IF rule.format = "" THEN "%s" ELSE rule.format>>

(* ParseInject: one rule per host, or a refusal of the whole. *)
ParseInject(k) ==
  LET rule == ParseAttachment(k.form)
      field == k.form[1] = "bearer" /\ k.form[2] # ""     \* bearer takes none
  IN  IF ~field /\ \A h \in k.hosts : InjectValid(h, rule)
      THEN Fine({<<h, HeaderValue(rule)>> : h \in k.hosts}, {}) ELSE Refused

(* ParseCredentials: the rules of one service gather on one credential. *)
ParseCredentials(specs) ==
  LET parsed(s) == {ParseInject(k) : k \in {x \in specs : x.service = s}}
  IN  IF \E k \in specs : ~ParseInject(k).ok THEN Refused
      ELSE Fine([s \in {k.service : k \in specs} |-> UNION {p.spec : p \in parsed(s)}], {})
============================================================================
