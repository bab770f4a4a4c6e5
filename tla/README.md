# TLA+ models of Boks

Boks runs agents in microVMs: one sandbox is one containerd container with a
task, a VM, and a virtual network that a host process of its own, the network
supervisor, terminates. These modules model the parts of Boks where several
processes, goroutines and users meet, and the parts whose answer depends on many
cases at once: who serves a sandbox's network and when, what that network lets
through and with which credential, what the host publishes into it, where
credentials are kept and renewed, the private containerd below everything, and
which sandbox, user and kit a command ends up with. TLC checks small instances of
every module; TLAPS proves every safety statement that the runs check, for any number of
processes, connections, rules, tokens, commands, images and kits. Liveness is
model-checked only.

Paths below are relative to `src/internal/`.

## 1. Inventory

| component | state it keeps | operations | interacts through |
|---|---|---|---|
| network supervisor (`enforce/supervisor.go`, `enforce/lock.go`, `proclock/`) | `<state>/net/<sandbox>/` with lock file, state file, link socket; one process | `Serve`, `Lookup`, `List`, `Ensure`, `spawn`, `Stop`, `Forget` | files, `flock`, SIGTERM, a ready pipe, the VM's link socket |
| sandbox lifecycle (`sandbox/`) | container, task and VM in containerd; the clone in the guest | `ChooseName`, `Run`, `Up`, `Start`, `Stop`, `Remove`, `Exec`, `WatchTask`, `Running`, clone | containerd; polled by the supervisor |
| commands (`cli/run.go`, `cli/lifecycle.go`, `cli/net.go`, `cli/create.go`) | none of their own | run, start, exec, stop, rm, create, net | all of the above, with deferred clean-up |
| policy store and resolution (`policy/`, `cli/policystore.go`, `cli/netflags.go`) | the store's file; the selection recorded on a sandbox | allow, deny, rm, init, reset, profiles; `Resolve`, `ToRequest` | files; hot reload over the control socket |
| policy engine (`enforce/enforce.go`, `policy/policy.go`) | the policy in force, the decision log | `Evaluate`, `Update`, `reloadPolicy` | asked by the proxy and the network for every flow |
| published ports and control socket (`ports/`, `enforce/control.go`, `cli/ports.go`) | table of host listeners, connections; the ports in the state file | `Publish`, `Unpublish`, `serve`, `forward`, `noteError`, `Close` | unix socket, one goroutine per request and per connection |
| proxy and virtual network (`proxy/`, `network/`) | flows, sniffed names, pooled connections, the netstack | judge, resolve, dial, inspect, inject, splice, stop | the engine, the CA, the credentials |
| secret store (`secret/`, `cli/secret.go`, `cli/servicecreds.go`) | keyring entries and their index file; an encrypted file | set, adopt, login, import, rm, reset; the plan of a run | the system's keyring, the environment |
| OAuth rotation (`secret/secret.go`, `secret/acquire.go`, `enforce/rotation.go`) | the pair of tokens in keyring, memory store and injector | inject, refresh, capture, recover, write back | proxy requests, vendors' token endpoints, the host's own agent |
| daemon and purge (`daemon/`, `cli/purge.go`, `purge/`) | private containerd, its lock, record and socket | start, autostart, serve, stop, purge | a lock file, a ready pipe, signals |
| kits (`kit/`, `cli/kitagent.go`) | none; a document of somebody else | load, decode, fold, validate | rules, agent and credentials given to a run |
| certificate authority (`ca/`) | a CA key and certificate | create, load, sign | the proxy |
| guest identity and images (`sandbox/imageuser.go`, `sandbox/hostuser.go`) | none | user of an image, id mapping | the container's specification |
| agents, workspaces | tables, paths | look up, inspect a repository | rules and mounts given to a run |
| doctor, update, release | none shared | diagnose, download, delete | the file system |

What is hard here, and where:

* Nothing but a directory coordinates supervisors and commands. Each of them
  reads, tests, removes, spawns and signals in separate steps; a supervisor may
  crash between any two, or still be closing when its successor starts.
* A VM attaches to its link socket once, when it boots. A stack that goes away
  under it is not replaced, so every path that ends a stack must be right about
  whether the sandbox runs.
* The policy of a running sandbox is computed from four sources that change at
  different times (store, record, flags, agent and kit), and partly recomputed
  while it runs.
* The forwarder's mutex covers its table, and not the sockets, the state file or
  the connections.
* A refresh token is good for one exchange. It is copied to a keyring, a memory
  store and an injector, and the host's own agent uses it too; every answer of
  the vendor may be lost after the vendor acted.
* A flow is judged several times, by name, address and greeting, and rules, DNS and
  the stack may change between any two of these.
* No command holds a lock on a sandbox: names are chosen from a list that may be
  stale when they are used, and each call to containerd may fail or be cut off.
* A kit's older format says one thing in four places, which the decoder joins.

What makes each part correct, in a sentence: one visible supervisor per sandbox,
never taken from a running VM, never left behind; a policy boundary that nothing
typed elsewhere can move while the sandbox runs, and that restarts restore; a
listing that is bound and a binding that has an owner; no contact and no credential
that a rule does not permit; a login that is neither spent twice nor lost; one
containerd; the sandbox, the user and the credentials that were asked for.

`PROJECT.json` lists the hazards at their lines, with the property that covers
each.

## 2. Modules

| module | models |
|---|---|
| `StackLock` | abstract specification: at most one process is the sandbox's supervisor, and it goes before another comes |
| `NetSupervisor` | supervisor processes, commands, containerd's task and the directory between them; refines `StackLock` |
| `NetPolicy` | store, record, resolution, engine, hot reload, and the commands that touch them |
| `PortForwarder` | published ports: requests, serve loops, connections, state file, teardown |
| `GuestFlow` | what leaves a sandbox: proxy, raw forwarder, engine, credential injection, reload, stop |
| `OAuthLogin` | a login shared by the host's agent, the keyring and running sandboxes |
| `SecretStore` | the stores of credentials, the commands on them, the credential plan of a run |
| `ManagedDaemon` | the private containerd, its supervisor, the daemon commands and purge |
| `Kit` | what loading a kit yields, as functions on documents |
| `GuestSpec` | user, groups and id mapping of a container, as functions on images and hosts; extends `Kit` |
| `Sandbox` | containers, tasks, clones, the authority's files and the commands on them; extends `GuestSpec` |
| `MC...` | instances for TLC |
| `...Proofs` | theorems and proofs |

`Sandbox` composes `Kit` and `GuestSpec`: loading the kit and building the container's
specification are steps of its create. The other modules describe the same system
from different sides and share no variable: how the supervisor comes and goes (its
policy does not matter), what its engine holds (only whether it runs matters), what
happens inside it between `Open` and the end of the process (`PortForwarder`,
`GuestFlow`, `OAuthLogin`), and what lies around it on the host.

Each module ends with its properties. `TypeOK` documents the shape of its state; it is
proved for `NetSupervisor`, `NetPolicy`, `GuestFlow`, `SecretStore`, `OAuthLogin` and
`Sandbox`, and as far as the other proofs need it for `PortForwarder` and `ManagedDaemon`.

### NetSupervisor

`fs` is the directory: whether it exists, which lock file (an inode identity, so
that removing and re-creating the file gives a different lock), which PID the state
file names, whose socket the link is. `sv` is each process's place in `Serve`:
made the directory, opened the lock file, flocked it, opened the session, wrote the
state, serving, closing, closed, removed. `cli` is each terminal's place in its
command. `container`, `task`, `vm` are containerd's side. Every file operation,
lock, signal and containerd call is a step of its own; the deferred calls of a
command are steps it takes in their order. A PID and an inode are reused once
nobody holds them, as the kernel does.

Faults are named in `AllFaults` and switched on per run: a killed supervisor, a
stack that does not open, a guest that exits, failing boots and halts, unreadable
statuses, timeouts, slow teardowns, Ctrl-C during a spawn. `start` stands for
`exec` too; both go through `ensureNetworkForExisting`.

Left out: log files and messages, the link watchdog (`network.Unexercised` disarms
it), clone, terminals and exit codes. The state file is written once here; its
rewriting when ports change is in `PortForwarder`.

### NetPolicy

A destination stands for everything one rule covers. Rules keep the label of the
layer they came from, because `ToRequest` takes a resolution apart by label. `store`
is the file; `box` the record on the sandbox; `net` the resolution and the engine's
policy in a live supervisor. A store command loads, then saves (two steps: there is
no lock), and an `allow` then asks for a reload, which loads the store in one step
and merges in the next. `Resolve`, `ToRequest`, `Merge` and `Permits` translate the
functions of those names (`Permits` is `Evaluate`). `typed` is a history variable: the
destinations a user ever allowed in words, in the store or with a flag. Ports and schemes
of rules, and the migration of old stores, are left out; patterns are in `GuestFlow`.

### PortForwarder

`sock` is who is bound to each host address and port, other programs included;
`table` the forwarder's entries, whose `id` is the identity of the `*entry`. A
request goes check (lock) - bind (no lock, one address at a time) - insert (lock) -
notify - write, or remove (lock) - close (no lock, one listener at a time) - notify -
write. A connection goes dial - note (lock) - notify - write - track (lock) -
splice. `os.WriteFile` is its two steps, truncate and write; the text of the shorter
of two overlapping writers keeps the tail of the longer (`Overwritten`). `Call`
fails on a file that does not decode, because `Lookup` does. Teardown closes the
control socket without waiting for requests, then closes the forwarder, then removes
the directory; the end of the process takes what is left.

`HasIPv6` is the forwarder's own parameter. Sessions pass false today; the
`ports_requests` run sets it, so that a specification binds two addresses and the
second may fail. A specification's text and its parsing are left out, and so is the
client's ten-second deadline: a client that gave up is a terminal whose request is
still being handled, which the second terminal covers.

### GuestFlow

`flow[f]` is a connection from the guest: through the proxy (a plain request or a
CONNECT) or raw through the network's own forwarder. A target is its labels and a
rule a kind and labels, so that `Match` really matches names by suffix and addresses
by prefix. Each judgement, the DNS answer, each dialled address, the reading of
the ClientHello, the handshakes and each inspected request are steps, between which
the other flow moves, `Reload` installs another set of allows (the denies are fixed
for a supervisor's life, see `NetPolicy`), or `Stop` ends the stack. `pool` is the
HTTP transport's idle connections, which outlive the request that judged them.
A CONNECT to a port of the host waits for the guest's first byte without a deadline
(`HostTunnelHello`): a guest that stays silent is heard only when it goes
(`HostTunnelLeft`). Datagrams are classified as `deliverNetworkPacket` does; what is dropped may be
missing from the record, which keeps a destination once and 64 in all. Left out:
the framing of the link, bodies, header syntax.

### OAuthLogin

Tokens are numbered by the vendor's order of issue. A request of the guest, for a
resource or for the token endpoint, goes through the injector: read the current
pair, refresh under the mutex, recover from the host's login, capture a login made
inside the sandbox; then save to the memory store and write back to the keyring,
outside or inside the mutex as the code has it. The vendor retires a refresh token
when it answers; an exchange may be lost on either side of that. The host's agent
refreshes, logs in to another account and out on its own, and the user adopts,
imports or removes. Calls to the keyring carry `context.Background`, so a tool that
waits for a prompt waits for the user, with the injector's mutex held (`AsksKeyring`).
`Ported` says that the token endpoint's name has a port, of which `NewTarget`
makes nothing. `spent` and `owed` are history variables.

### SecretStore

`held` is what each store contains, `idx` the names in the keyring store's index.
A `put` on the keyring is three steps (set, verify, index), a delete two, any of
which an interruption may cut; the keyring's tool may store nothing or something
else. A file opens with the passphrase it was written with. `Run` is the
credential plan: the rules in force, what the store has, what `--inject`,
`--oauth` and `--no-secrets` say, and which of a key and a login wins. Encryption,
prompts and listing are left out.

### ManagedDaemon

`sup[s]` is a `daemon serve` process and `ctd[s]` its containerd; `lock`, `state` and
`sock` are the files between them and the commands. Starting is open - lock - write
the configuration for what is installed - exec - wait for the socket - record -
tell the pipe; stopping is signal - wait - kill - clean up - release, each a step.
Where the record cannot be written the supervisor ends containerd and itself.
`host` is what is installed; `FindContainerd` and `FindShim` search it in the code's order,
so that a skew between containerd and its shim is one of the cases, and a host
without a shim (`HasShim`) another. Faults: a
killed supervisor leaves its containerd, a containerd may be deaf, a start may be
interrupted. Left out: what the configuration contains, the list of directories
`purge` deletes, Windows' `Terminate`.

### Kit, GuestSpec, Sandbox

`Kit` translates the decoders: version 1's surfaces folded onto version 2's model
(`SandboxOf`, `Credentials`, ...), with warnings, validation, schemes, and the trip
of a credential through the grammar of `--inject`. `GuestSpec` translates how `USER`,
the layers' passwd and group and the host's user decide who runs in the guest and
how ids of shared directories are mapped. A layer may carry a file or a link, and
hide a file, the directory or all that lies below the root; `Hides` is the code's
test of that and `Removes` an overlay's, written apart. Both only define functions, and
the types of what they are applied to (`DocumentOk`, `ImageOk`, `MachineOk`).

`Sandbox` has the state: `ctr` and `task` are containerd's, `repo` the clone in a
snapshot, `script` the terminal whose clone script runs in the guest (it ends by
itself, or with the task), `caKey` and `caCert` the authority's files; a container of
nobody's labels may be there from the beginning. `cmd[t].seen` is the number of
containers made when the command looked, `how` what it found then, `id` the container
it brought up and `warned` whether it said that the directory is another; `cut` and
`lent` are history variables, of scripts cut short and of tasks under an ephemeral
name that another command touched. A command is a pipeline of
steps (resolve a name, authority, kit, create, start, clone, process, deferred
removal), one containerd call each; a step may fail, the user may interrupt, the
process may be killed, a guest may not die of SIGTERM. All workspaces have one base
name, so that they compete for it. Left out: pulls, snapshots, terminals, exit
codes, copying, `ca regenerate`.

## 3. Runs

| run | instance | states | shows |
|---|---|---|---|
| `sup_sequence` | 1 terminal: run, start, stop, rm; 3 processes; crash, failed open, slow close | 153 293 | the certificate directory lives as long as the container; no stack is closed under an attached VM; `Stop` signals the process that owns the lock |
| `sup_faults` | 1 terminal: run, start, stop, net stop; 2 processes; 8 faults; fairness | 219 553 | no orphan supervisors; a SIGTERM at any moment ends its process; no command hangs |
| `sup_race` | 2 terminals: run --rm and listings, interrupted spawns; 2 processes, 3 lock files; symmetry | 1 670 422 | refinement of `StackLock` |
| `pol_sequence` | 1 terminal; 12 store edits, 3 flag sets, 4 destinations | 2 282 376 | a locked sandbox reaches only what was allowed in words; starts keep the record's denies; stored rules take effect at a start |
| `ports_requests` | 2 terminals, 4 commands, 1 host port on 2 addresses, any of them held by others | 2 421 489 | listed is bound, bound has an owner, a move never meets itself |
| `ports_conns` | 1 terminal, 1 connection, 1 failing serve loop; fairness | 44 842 | errors reach their own row; `Close` ends every splice; requests and teardown end |
| `flow` | 2 flows, 23 kinds of request, 2 sets of allows, stop; fairness | 459 576 | no contact with what a deny covers; a credential reaches only its host; nothing outlives the stack; every flow settles but a silent one to a port of the host |
| `flow_hello` | a greeting in one read or in two | violation | a split ClientHello is not judged by its name |
| `oauth` | 1 sandbox, 2 requests at a time, 2 pairs, 1 command; no port in the endpoint's name, prompts are answered; fairness | 126 880 | a refresh token is spent once; nothing new is kept from the host unsaid; the account does not change by itself; a dead login recovers; requests end |
| `store` | 2 names and a sandbox's own, 2 stores, 2 passphrases, lock and unlock | 934 752 | what was reported stored is listed and readable; a run carries what the store says, if the keyring answers |
| `daemon` | 1 terminal, 2 supervisors, 5 installations, 1 fault; fairness | 473 232 | one containerd at a time; after a stop containerd has gone, was told to or escaped; a start with a shim is ready or says why not; supervisors end |
| `sandbox` | 2 terminals, 2 directories of one base name, 3 commands, 1 fault; all kits and machines of `MCSandbox`; symmetry | 1 616 537 | a run re-attaches to the sandbox it could have seen, and works on its own directory or says that it does not; no script that fails leaves half a clone; what `--rm` leaves is said, or is one of three cases; an interrupted first run can be repeated; kits inject as written and what is said once is not lost silently; the guest runs as the image says, if its layers can be read, and owns what it writes |

Why the bounds are enough:

* Two supervisor processes are the fewest for a predecessor and a successor, three
  for a successor that is itself replaced while the first still closes. One lock
  file more than the processes that can hold one lets a removed file be in use.
* In the supervisor, policy, ports, store and daemon runs a terminal types any
  sequence of commands without limit: the state is finite, so the depth of the
  search is not bounded. Two terminals give every pair of overlapping commands.
* In `pol_sequence` there is one destination of each kind that the layers tell apart:
  allowed by the preset, denied by it, asked for by the agent, and unknown.
* In the ports runs one host port makes every two commands collide. `Ids` (7) covers the
  two listeners that can be bound, the two removed ones each terminal remembers
  and a connection's, so `PublishBind` never waits for one.
  A connection happens once. `MaxDeaf` bounds failing serve loops.
* In `flow` there is a name with an OAuth resource, one with a header rule and both a
  public and the host's own address, a forbidden one, a port of the host that is
  open and one that is not; a raw flow meets each kind of network. `MaxRequests` = 1
  gives an inspected flow a request under a decision made before it.
* In `oauth` two requests are the fewest that race for a pair, two pairs the fewest
  with a retired one.
* In `store` one name has a key whose hosts the login covers, the other has no rule.
* In `daemon` the second supervisor is the successor, or the one a second start
  spawns while the first is still closing; `MaxFaults` counts kills and deaf containerds
  together (a record that cannot be written is not counted). One installation has no shim.
* In `sandbox` three commands are two that race and one that finds what they left.
  `run --rm --clone` is left to `sandbox_rm.cfg` and the theorem `EphemeralsGo`.
  `IdSpace` = 4 makes first, last, adjacent and equal ids all occur. The kits vary one
  part of the grammar at a time, over the whole product of that part.

Fairness: weak fairness of every process, goroutine and command step that the
scheduler or a timer lets go on.
`TaskAppearTimeout`, `dialTimeout`, the handshake and ClientHello deadlines and the
ready and stop timeouts of the daemon are timers, so they pass. Two waits have no
timer and no fairness either: for a guest's first byte to a port of the host
(`proxy/host.go:100`), which `FlowsSettle` names as its exception, and for a keyring that
asks its user (`enforce/rotation.go:90`, `secret/keyringstore.go:146`), with the injector's
mutex held. `OAuthLogin` has two specifications therefore: `Spec`, in which that
wait may last for ever, and `AnsweredSpec` of the run, in which prompts are answered;
under the first `RequestsEnd` fails (`oauth_prompt.cfg`). In both it is
strong fairness of a request's other steps, because Go's mutex lets every waiter in, weak
fairness of the interval between two looks at the host's login, and strong
fairness of the guest's agent asking again, which `DeadLoginRecovers` presupposes in
words. What users type, faults, clients that connect or hang up, guests that exit and
the five-second limit of `Stop` carry no fairness: `CommandsEnd` holds without that
limit. Liveness is checked without symmetry. `SecretStore` and `Sandbox` have no
fairness and only safety.

Deadlock is checked except in `flow` and `flow_hello` (flows that are spliced or settled
and a stack that stopped may rest), `oauth` (the bounds on tokens and commands are
spent) and `sandbox` (the bound on commands is spent).

Every checked property has a mutant: a form of one action or helper with a plausible
bug (a lock not tested, a closed flag not looked at again, a wait left out), defined
next to it, under which TLC finds the property violated.

## 4. Disagreements with the documents

`flow_hello` refutes a sentence of the repository; `PROJECT.json` quotes it. These
configurations do the same and are run by hand (`tlc -config X.cfg Module`, with
`-continue` where one has two properties):

| configuration, module | property | the code | the sentence |
|---|---|---|---|
| `sup_flake.cfg`, `MCNetSupervisor` | `RunningKeepsStack` | `taskRunning` answers a status error with "not running", so one of them ends the stack of a running VM (`sandbox/lifecycle.go:405`) | `sandbox/lifecycle.go:349` "polled in a loop by the supervisor while a VM is booting, where a momentary unreadable status must not end the stack" |
| `sup_successor.cfg`, `MCNetSupervisor` | `SuccessorUntouched` | a supervisor removes its directory twice (`network/provider.go:272`, `enforce/supervisor.go:496`); the second takes its successor's | `enforce/supervisor.go:239` "wait for it rather than racing it, so a stop followed by a start cannot collide on the socket" |
| `sup_rmname.cfg`, `MCNetSupervisor` | `CertKept` | `run --rm` with the name of an existing sandbox fails and removes that sandbox's certificate directory (`cli/run.go:227`) | `enforce/supervisor.go:258` "the certificate directory is the source of a mount and has to survive a stop [...] Only removal takes it." |
| `pol_kit.cfg`, `MCNetPolicy` | `FixedRulesStay` | `ToRequest` drops the rules of a kit, so a reload deletes its allows (`policy/resolve.go:499`) | `policy/resolve.go:474` "every rule that was fixed at startup time remain unchanged" |
| `pol_deny.cfg`, `MCNetPolicy` | `DeniesSurvive` | a run with flags replaces the record before resolution, and its denies with it (`cli/net.go:202`) | `cli/netflags.go:164` "`--deny` is *added to* the recorded denies. A prohibition a sandbox was created with does not disappear because this invocation typed a different one." |
| `ports_state.cfg`, `MCPortForwarder` | `FileInStep` | of two changes the older list can be saved last, or the file be left undecodable (`enforce/supervisor.go:583`) | `enforce/supervisor.go:570` "publishedState keeps the sandbox's state file in step with what is actually published" |
| `store_locked.cfg`, `MCSecretStore` | `RefusalReported` | the openers wrap a keyring that refuses its probe in `ErrNoKeyring` (`secret/keyring.go:99`), which becomes `ErrNoStore`: a run starts without its credentials and says nothing | `cli/servicecreds.go:229` "A store that EXISTS and refuses — a locked keychain, a file that will not decrypt — is a real error and is returned" |
| `kit_gaps.cfg`, `MCSandbox` | `InjectsAsWritten` | `ExpandSchemes` turns `scheme: basic` into a bare `%s` and clears the scheme (`kit/parse.go:170`), after which `kitAttachForm` (`cli/kitagent.go:179`) no longer writes the user name: the bare secret is sent | `kit/spec.go:414` "Username is the username for HTTP Basic auth — the proxy uses it as the username and the resolved credential as the password" |
| `sup_release.cfg`, `MCNetSupervisor` | `ReleaseSparesRunning` | a `run` that failed looks whether the sandbox runs and signals its supervisor some steps later; a `start` of another terminal comes in between (`cli/net.go:646`) | `cli/net.go:616` "A sandbox that is running keeps its stack; nothing else does." |
| `pol_profile.cfg`, `MCNetPolicy` | `LockedByProfile` | rules of a preset that a profile chose carry the profile's label (`policy/resolve.go:178`); if the profile is removed and created on `standard`, the next reload lets its allows into a locked sandbox | `docs/cli.md:864` "`locked`: deny everything; every destination must be added with `--allow`" |
| `pol_reload.cfg`, `MCNetPolicy` | `ReloadsDoNotRace` | a reload loads the store before it calls `Update` (`enforce/enforce.go:632`), so the one that read first may apply last and undo a newer allow | `enforce/enforce.go:647` "The entire read-modify-write is done inside Update so that two concurrent reloads cannot race" |
| `oauth_port.cfg`, `MCOAuthLogin` | `KeptOnHost` | of a token endpoint with a port `NewTarget` makes no target and the handler returns before it saves or notes anything (`enforce/rotation.go:65`) | `enforce/rotation.go:58` "a credential the user believes is stored and is not is the failure this exists to prevent, and it must not be silent" |
| `oauth_prompt.cfg`, `MCOAuthLogin` | `RequestsEnd` | the callers pass `context.Background` (`enforce/rotation.go:90`, `secret/keyringstore.go:146`), which has no deadline, and hold the mutex every request needs | `secret/keyring_linux.go:193` "a keyring daemon that has stopped answering [...] must fail on the caller's deadline rather than hang" |
| `daemon_deaf.cfg`, `MCManagedDaemon` | `StopsHappen` | `stop` waits for the lock; a supervisor that was killed, or gave up on its containerd, has let go of it while containerd runs on | `daemon/daemon.go:432` "rather than reporting a stop that did not happen" |
| `daemon_purge.cfg`, `MCManagedDaemon` | `PurgeSparesAll` | `purge` sees supervisors by their state files, before it asks the user; one that is booting or ending, or was started meanwhile, is deleted from under (`cli/purge.go:115`) | `docs/cli.md:1119` "nothing is deleted from under a process still using it" |
| `sandbox_races.cfg`, `MCSandbox` | `OneSandboxEach` | two commands that both found no sandbox of a directory make one each, under its two names (`sandbox/identity.go:394`) | `docs/cli.md:1174` a second run there "re-attaches to it" |
| `sandbox_clone.cfg`, `MCSandbox` | `CloneWhenAsked` | `--clone` is compared with the sandbox that was there when the command looked; it re-attaches to another's without a clone, or creates one again after a removal with the flags unread | `cli/fixed.go:337` a `--clone` that is quietly ignored hands the guest "a read-write share of the very repository" |
| `sandbox_races.cfg`, `MCSandbox` | `WarnedWherever` | the sandbox is compared with the directory once, before it is brought up; one removed and made again for another directory in between gets the process without a warning | `sandbox/identity.go:387` on running in a sandbox of another directory |
| `sandbox_rm.cfg`, `MCSandbox` | `EphemeralLeavesNothing` | `cleanupTask` is deferred only after `ensureRunning` (`sandbox/sandbox.go:313`): an interrupted or failed `run --rm --clone` leaves its VM and container; a start that failed leaves a created task, which containerd does not delete | `sandbox/sandbox.go:276` "nothing survives it" |
| `image_opaque.cfg`, `MCSandbox` | `AlwaysTheImagesUser` | the walk up from `/etc/passwd` stops before the root, so a layer that makes the root opaque hides nothing; a link is read as an empty file (`sandbox/imageuser.go:157`) | `sandbox/imageuser.go:151` "hides reports whether this layer hides name, or any directory above it" |
| `kit_gaps.cfg`, `MCSandbox` | `NothingEverLostSilently` | the service domains and the source of a service that is also listed are dropped without a warning (`kit/decode_v1.go:669`) | `kit/decode_v1.go:609` says that the entry "wins outright", and not that the author is told |

`NeverSwapped` (`OAuthLogin`, with `MaxPairs` = 3) and `ServingIsTracked` (`ManagedDaemon`, with
two terminals) are stated in their modules and also fail; what they show is in the
lists below.

Observations without a configuration of their own, because nothing in the repository
promises the opposite or because they follow at once from the code.

Supervisor, policy, ports:

* Two `Ensure` at once may both spawn; one command clears the directory under the
  other's child, which lives on, unseen, until its watch ends it.
* A start right after the guest exited, or after a boot or a halt that failed half way,
  finds the supervisor that has seen the task end and not closed yet, reuses it and
  attaches the VM to a stack that closes in the next moment.
* Two policy commands at once lose one of the changes (`cli/policystore.go:113`).
* A second `run` with other flags reuses the running supervisor and says nothing
  (`cli/net.go:274`). A kit's denies are not recorded, so `boks start` comes up
  without them.
* A port whose `Accept` fails once stays bound and listed and forwards nothing
  (`ports/forward.go:271`). `OnChange` is set after the first ports serve
  (`enforce/supervisor.go:522`), though `ports/forward.go:82` asks for it before first use.
* While a port list is being rewritten the state file does not decode, and for that
  moment `Lookup` reports a running supervisor as absent.
* `docs/security-model.md:363` says that the supervisor never reads the policy store;
  `reloadPolicy` does.

Credentials:

* A record adopted from elsewhere can be followed by the host's login after a sandbox
  captured and wrote back another (`cli/secret.go:243` "never swapped for the host's").
* A capture and a recovery at the same time can leave the captured pair only in the
  memory of the supervisor. `secret login` says that a login inside a sandbox "is not
  written back here"; `enforce/rotation.go:90` writes it back.
* Once the index has drifted, `secret ls` says "Set them again" (`cli/secret.go:970`),
  and set, import and login refuse with `ErrIndexDrift`.
* A key stored only for one sandbox, without a machine-wide one, is never attached.

Daemon and purge:

* Two starts, or a `serve` by hand and a start: the second clears a record just written
  and containerd runs unrecorded.
* A host with containerd and `mkfs.erofs` and no shim starts with no note
  (`daemon/locate.go:152` leaves it to `doctor`) and can start nothing. Preflight's remedy "run
  'boks daemon start' again" does nothing while it runs. Purge's list lacks the
  `credentials` directory and the secret index.

Sandboxes:

* `stopContainer` sends SIGKILL under the context whose time the SIGTERM used up
  (`sandbox/lifecycle.go:251`), so a guest deaf to SIGTERM is never killed and `stop`
  and `rm -f` fail.
* Between the choice of a name and its use another command can create under it: the
  command then runs in the other directory's sandbox, with a warning.
* A clone that is killed half way, or is still being made, is adopted as finished.
* Of two commands that start one task, the one whose start fails kills the other's
  work (`sandbox/lifecycle.go:514`); `rm` without `-f` can kill a task started after it
  looked. Two first runs at once can leave a key and a certificate of different pairs.

Images and kits (excluded from the instances where they would hide the rest; the
theorems say which documents they speak of):

* `USER 1000:1000` gets supplementary groups or not
  depending on the path taken.
* A header called "basic" or "bearer" is read as a scheme. A format
  with `%%` passes the kit's validation and fails the injection's.
* `proxyManaged` naming another variable than the first, and `binary` beside an
  entrypoint, are ignored without a word.
* `docs/kits.md:11` and `:211` say that image, entrypoint and credentials are not
  applied; they are. `create --kit` does not register the kit's agent.

## 5. Proofs

| module | theorem | statement |
|---|---|---|
| `NetSupervisorProofs` | `TypeCorrect` | `Spec => []TypeOK` |
| | `LockExclusive` | `Spec => []LockInv` |
| | `VisibleSupervisor` | `Spec => OneVisibleSupervisor`: refinement of `StackLock` under `owner <- Owner` |
| | `CertificateKept` | `Spec => []CertKept`, one terminal, no `run --rm` |
| | `StopSignalsTheOwner` | `Spec => StopNamesOwner`, one terminal, no abandoned `spawn` |
| | `RunningSandboxKeepsStack` | `Spec => RunningKeepsStack`, `Undisturbed` |
| `NetPolicyProofs` | `PolicyBoundary` | `Spec => BoundaryFixed` |
| | `LockedStays` | `Spec => []LockedMeansLocked` |
| | `PolicyTypes` | `Spec => []TypeOK` |
| | `StartsKeepDenies` | `Spec => StartKeepsDenies`, one terminal |
| | `StoredRulesRule` | `Spec => RulesTakeEffectAtStart`, one terminal |
| `GuestFlowProofs` | `FlowsSound`, `FlowTypes` | `Spec => []IInv`, `Spec => []TypeOK` |
| | `ContactPermitted` | `Spec => []NoDeniedContact` |
| | `CredentialFaithful` | `Spec => []CredentialReachesItsHost` |
| | `StackEndsFlows` | `Spec => []NothingOutlivesTheStack` |
| `PortForwarderProofs` | `ForwarderSound` | `Spec => []IInv` |
| | `PortsInStep` | `Spec => []ListenersInStep` |
| | `ClosedMeansSilent` | `Spec => []NoSpliceAfterClose` |
| | `MarksAreOwn` | `Spec => ErrorsAreOwn` |
| `OAuthLoginProofs` | `LoginsSound`, `LoginTypes` | `Spec => []IInv`, `Spec => []TypeOK` |
| | `NeverSpentTwice` | `Spec => []SpendsOnce` |
| | `RotationsKept` | `Spec => []KeptOnHost`, `~Ported` |
| | `AccountsAreOwn` | `Spec => OwnAccount` |
| `SecretStoreProofs` | `StoresSound`, `StoreTypes` | `Spec => []IInv`, `Spec => []TypeOK` |
| | `IndexFollowsStore` | `Spec => []IndexInStep` |
| | `RunsCarryTheStore` | `Spec => RunCarriesTheStore` |
| `ManagedDaemonProofs` | `LockOutlivesContainerd` | `Spec => []IInv` |
| | `OneDaemonRuns` | `Spec => []OneDaemon` |
| | `ReadyMeansReady` | `Spec => ReadyOrNoted` |
| | `StoppedMeansStopped` | `Spec => StopMeansStopped`, one terminal |
| `SandboxProofs` | `SandboxInvariant`, `SandboxTypes` | `Spec => []IInv`, `Spec => []TypeOK` |
| | `WorksWhereAsked` | `Spec => []AskedFor` |
| | `ClonesWhole` | `Spec => []NoHalfClone` |
| | `AuthorityAgrees` | `Spec => []FirstRunRetries` |
| | `RunsReattach` | `Spec => ReattachesToItsOwn` |
| | `EphemeralsGo` | `Spec => EphemeralGone` |
| | `GuestsIdentified` | `Spec => []GuestIdentity` |
| | `RunsAsNamed`, `OwnsItsFiles` | of every machine: `RunsAsTheImageSays`, `OwnsWhatItWrites` |
| | `KitsInjectAsWritten` | `Spec => []InjectsAsWritten`, kits with `PlainRules` |
| | `KitsTellTheirLosses` | `Spec => []NothingLostSilently` |
| | `RulesArrive`, `LossesAreTold` | the same of every such kit that loads: `AsWritten`, `Lost(..) \subseteq warned` |

Every proof module has the same plan: an inductive invariant made of named conjuncts,
lemmas on the record types and on the ways actions update a record, one lemma per
action or group of actions that disturbs the invariant, and one that puts them
together along `Next`. An action property follows from the invariant by one more pass
over the actions. What makes each invariant inductive:

*Lock* (`NetSupervisor`). That two processes never hold one lock file is not inductive
by itself: a process in `lockfd` could have no file open. `LockInv` adds `TypeOK` and
`FdOpen`. Each step leaves every holder as it is (`LockKept`), or is the one flock that
succeeds, whose guard says that nobody holds that inode (`NewHolder`). The refinement
needs one more fact about steps, `NoExchange`: the visible lock file is never replaced
by another in a single step, only removed or created, so an owner vanishes before the
next one appears.

*Whom Stop signals* (`NetSupervisor`). The PID is in one file and the lock in another, and
both are removed and created while predecessors still close. `OwnInv` says why they
agree: somebody waits for every process that boots, so with one terminal there is one
(`BootIsAwaited`); the command that spawned it removed the old state file first
(`BootIsFirst`); what a booting process locked is the file that is there, or there is none
(`BootIsVisible`); so when it writes its state the two files name one process, and stay
so, because other steps only remove them together (`StateIsHolder`). An abandoned spawn
breaks the first of these, a second terminal the second; TLC finds both.

*Running sandboxes* (`NetSupervisor`). A stack goes because a command signals it or because
its watch saw the task end, and in both cases several steps after somebody looked.
`StackInv`, on top of `OwnInv`, says what holds in between. A VM attaches to the socket
that the link names, so `LeavingIsStopped` says that when its owner is about to close
(was signalled, has seen the task end, or is closing), a command is about to stop it, and
then no VM is started. `StatedIsAwaited` and `OnlyServed` keep signals and watches away
from a process that has its socket and does not serve yet; `Ordered` says that a command
has ended the task before it comes to the stack. `Attached` is what all that is for.

*Certificates* (`NetSupervisor`). `CommandSound` says what each command relies on at each of
its points: a run on its way to creating the container has prepared the directory, an
`rm` on its way to `Forget` has removed the container.

*Locked policy* (`NetPolicy`). `LockedMeansLocked` speaks of the engine's rules, which come
from resolutions that commands carry from one step to the next, and from reloads of
stores read earlier, while profiles are removed and created again. `LockedInv` says of
the supervisor and of every resolution in a terminal's hands that, if its preset is the
locked one, its default is deny, its agent's rules are denies only and each of its allows
is of a destination in `typed`; and it says the same of the allows in what such a
resolution and a reload are made from: the store, the copies of it that commands read
earlier, the record and the flags. Where a profile chose the preset, a reload reads it
from the profile anew, and the statement fails (`pol_profile.cfg`).
`PolicyBoundary` is an action property: each action leaves `net` alone, creates it, ends it,
or is a reload, and `Merge` keeps denies and default.

*Starts* (`NetPolicy`). The record and the store are read when a command resolves its
policy and may have changed when it spawns the supervisor. `FreshInv` says that with one
terminal they have not: what a command carries to the spawn holds every stored rule and,
if it is a start, every deny of the record. What follows is a lemma on `Permits`: a deny
among the rules decides, whatever order `ToRequest`, `Resolve` and `Merge` left them in.

*Flows* (`GuestFlow`). What is contacted was judged several steps earlier. `JudgedFlow`
carries the judgement along: a target that is still to be dialled was permitted or is an
opened port of the host, an address literal is dialled and nothing else, only a flow
whose origin proved its name is inspected. `PermittedFlow` says of whoever is connected,
and the invariant of every idle connection of the transport's pool, that its address is
not denied or is the loopback of an opened port. Reloads do not disturb it because only
allows move. `Moves` is stated of one flow, so the number of flows does not matter.

*Listeners* (`PortForwarder`). `ListenersInStep` relates the table to the sockets, but
listeners are for some steps in nobody's table: bound and not inserted, removed and not
closed, taken by `Close`. `Served`, `Distinct` and `NoLeak` say that table, requests and
`Close` hold disjoint sets of listeners, each bound where its row says, and that nothing
else is bound; `GoneIsClosing` that a removed one is bound only while its remover is
about to close it; `SplicesKnown` that a spliced connection is tracked, or in the hands of
`Close`. The state file is not part of it: `FileInStep` is false (section 4).

*Logins* (`OAuthLogin`). `SpendsOnce` looks at the moment a token is presented; it holds
because the mutex is held across the exchange (`MutexHeld`), because what is about to be
presented is the injector's pair, or the host's, and unspent (`ExchangeSound`,
`TokUnspent`), and because captured pairs that are not yet the injector's are nobody
else's (`CapturesOwn`). `SpentIsGone` ties the history variable to the vendor's. For
`KeptOnHost`, `OwedIsBrought`: if the endpoint's name has no port, a rotation that the
keyring lacks is in the hands of a request that is bringing it. For `OwnAccount`, that a
step that changes the pair in force keeps its owner or is a login.

*Index* (`SecretStore`). `IndexInStep` allows one name to differ, the one of the command
under way; `Underway` says how far that command is. `RunCarriesTheStore` is then a fact
about one action: `planCredentials`, `preferOAuth`, `resolveCredentials` and `enforceSpec`
composed yield what the statement describes.

*Containerd* (`ManagedDaemon`). `HeldWhileAlive`: a supervisor holds the lock from before
its containerd is started until it has gone, unless containerd escaped or a purge took
the lock file. Readiness rests on lemmas about `FindContainerd` and `FindShim` over any list of
directories (`FirstOfBoth`, `FirstOfThree`): searching the daemon's own path finds what the
preflight found. Stopping needs that what `daemon.json` names is the daemon that runs
(`Recorded`) and follows a stop through signal, wait and kill (`Stopping`): what a stop
waits for has been signalled (`Told`), whatever became of its supervisor.

*Sandboxes* (`Sandbox`). No command holds a lock, so the invariant says what a command may
rely on in a container somebody else may remove or replace. `Registered`: the name
qualified by a directory is only ever that directory's. `Looked`: what a command found
out when it looked holds of every container that was there then, which it knows by
comparing identities with `seen`, and of those only. `Brought`: the container it brought
up is, while it exists, of its directory, of none, or one it warned of, and a clone in
the cases of `AskedFor`. `Loans`, for `--rm`: a task has a container (`Held`), a command that
failed is on its way to the removal (`Path`), and where no other command touched the
task, a run without a clone that failed leaves none or one that was created and never
started (`Rests`).
`Scripts`: a clone script runs in a guest that is up and for a
command that waits there, and half a clone has a script, or one that was cut off.
`AuthoritySound`: unless two commands overlapped, one at most makes the authority, and
there is no certificate while it does.

*Guests* (`GuestSpec`). The code finds an image's user by walking its layers from the top
until one decides; the reference is the file in the overlay of all layers, which has its
own notion of what a layer removes (`Removes`). The lemmas
relate the topmost layer that settles a file to the merged one, for any
number of layers; that it is the one the code stops at holds of layers that the code
can read (`Readable`: none makes the root opaque, and the files are no links).
`SwapIDMapping` swaps two ids and cuts the space into at most five pieces;
`OwnsItsFiles` shows by cases on their order that the pieces cover it once on either side
and send one id to the other.

*Kits* (`Kit`). A credential goes through fold, expansion, gathering by form and the grammar
of `--inject`. One lemma per stage says which triples of service, host and form come out
of it; `RulesArrive` composes them. The fold of version 1 is described surface by surface,
so `LossesAreTold` compares, for each part of the document, the field it lands in and
the warning that replaces it.

Assumptions on constants say that inputs have their types, that `None` and its like are
not processes, files or tokens (nor, in `PolicyAssumption`, a pair of a resolution and its
policy), and: names are not addresses, and raw connections and datagrams go to addresses
(`FlowAssumption`); versions are natural numbers and `PATH` has a directory
(`DaemonAssumption`); published ports are positive (`PortsAssumption`); the bound on issued
pairs leaves room for one exchange (`OAuthAssumption`); a command that creates has a
directory (`SandboxAssumption`); documents, images and hosts are of the shape the decoders
and the host produce, ids inside the id space (`KitsAssumption`, `MachinesAssumption`). The
first conjunct of `KitsAssumption` says that four literals are strings, which the provers
do not know. TLC evaluates them on every run. In the proofs the bounds `MaxFaults`,
`MaxDeaf`, `MaxRequests`, `MaxCommands` and `IdSpace` are any natural numbers (`IdSpace` not 0),
and `MaxPairs` any from two.

Some theorems have hypotheses, because the statement is false without them:

* `OneTerminal`. With two, a start may spawn a second supervisor behind a stop
  (`StoppedMeansStopped`); an `rm` may remove the directory that another terminal's `run` has
  just prepared (`CertificateKept`); an `Ensure` may clear the state file of the other's child
  (`StopSignalsTheOwner`); the store may be edited, or the sandbox
  removed and created again, between a resolution and the spawn (`StoredRulesRule`,
  `StartsKeepDenies`).
* No `run --rm` (`CertificateKept`): see `sup_rmname.cfg`.
* No `readyLimit` (`StopSignalsTheOwner`): an abandoned child boots on, and may write its
  state into the directory of the next.
* `~Ported` (`RotationsKept`): see `oauth_port.cfg`.
* `Undisturbed` (`RunningSandboxKeepsStack`): one terminal; no `net stop` and no `run --rm`,
  which take the stack by hand or with the sandbox of that name; of the faults only
  crashed supervisors, stacks that do not open and slow teardowns. After a guest that
  exits, a boot or a halt that fails, or a time limit on the task, the next start
  attaches its VM to a stack that is about to close; an unreadable status ends a stack
  (`sup_flake.cfg`).
* `PlainRules` (`KitsInjectAsWritten`): no injection is HTTP Basic (`kit_gaps.cfg`) or names its
  header `basic`, and the standalone OAuth block takes no listed key for its routing.

Other conditions are part of the properties themselves, which say where they hold:
`NothingLostSilently` of documents that say each thing once (`SaidOnce`: no empty domain,
not both spellings of a part of the command, no older surface of a listed service, and
a variable left to the proxy is the first of its source), `GuestIdentity` of layers that
are `Readable`, `ReadyOrNoted` of hosts with a shim, `StopMeansStopped` of a containerd that
has not escaped, `RunCarriesTheStore` of a keyring that answers, `EphemeralGone` with its
three cases. Each of these is refuted without its condition by a configuration of
section 4, but for the shim.

The runs of the theorems with hypotheses satisfy them; `MCKitsAssumption` has TLC evaluate
`PlainRules` for the kits of the `sandbox` run. All other theorems hold for any number of
the terminals their modules have.

Only model-checked: liveness (`NoOrphans`, `SignalEnds`, `CommandsEnd`, `RequestsEnd`,
`FlowsSettle`, `DeadLoginRecovers`, `SupervisorsEnd`), which the prover does not reach.

The proofs changed the models in these places: raw connections and datagrams go to
addresses only (`FlowAssumption`); record types were made exact where an action relied on
a field; nested `EXCEPT`s that use `@` twice are written as paths (`![a].x`), which the
prover reads as TLC does; the arms of a `CASE` exclude each other (`ManagedDaemon`). In
`Sandbox` a clone script became a process of its own (`script`): another command can end
the task it runs in, and the state of the command that waits does not tell. `GuestSpec`
merges layers by a recursive function, and the long operators of `Kit` are split at the
stages that the lemmas speak of.

## 6. Plan

What is left, in order:

1. Two terminals in `ManagedDaemon` under the statements that survive them.
2. Pulls, snapshots and `ca regenerate` in `Sandbox`.

Not modelled, and why: cryptography and certificate formats; wire formats (link
framing, DHCP, DNS, YAML, archives), whose outcome is modelled where a decision hangs
on it; the decision log, which nothing reads back; diagnosis (`doctor/`), updates and
their cache, packaging, terminals, progress and other output; containerd, the system's
keyrings, vendors and gvisor's stack, which are external; Windows pipes and `Terminate`.
