--------------------------- MODULE MCSecretStore ---------------------------
(* Instances of SecretStore for TLC: a key whose hosts the login covers,   *)
(* and a name without a rule, under which the login is usually stored.     *)
EXTENDS SecretStore, TLC

MCNames == {"anthropic", "claude"}
MCKeyHosts == [n \in MCNames |-> IF n = "anthropic" THEN {"api"} ELSE {}]
MCLoginHosts == {"api"}

Cmd(op, scope, n, force) ==
  [op |-> op, slot |-> <<scope, n>>, store |-> "ring", pass |-> "p1", force |-> force]
FileCmd(op, n, p) ==
  [op |-> op, slot |-> <<"machine", n>>, store |-> "file", pass |-> p, force |-> FALSE]

MCCommands ==
  {Cmd(op, "machine", "anthropic", FALSE) : op \in {"set", "import", "adopt", "rm"}}
    \cup {Cmd(op, "machine", "claude", FALSE) : op \in {"set", "adopt", "login", "rm"}}
    \cup {Cmd("set", "web", "anthropic", FALSE), Cmd("import", "machine", "anthropic", TRUE)}
    \cup {FileCmd(op, "anthropic", p) : op \in {"set", "adopt", "rm", "reset"}, p \in {"p1", "p2"}}

Flags(inject, oauth, no, st) ==
  [inject |-> inject, oauth |-> oauth, noSecrets |-> no, store |-> st, pass |-> "p1"]
MCRuns ==
  {Flags({}, {}, no, st) : no \in BOOLEAN, st \in {"ring", "file"}}
    \cup {Flags({"anthropic"}, {}, FALSE, "ring"), Flags({}, {"claude"}, TRUE, "ring")}
============================================================================
