---------------------------- MODULE MCGuestFlow ----------------------------
(* Instances of GuestFlow for TLC: a vendor's API with a credential, a     *)
(* mirror that is allowed by a wildcard and resolves to the host, too, a   *)
(* forbidden name, and a port of the host that is open and one that is not.*)
EXTENDS GuestFlow, TLC

Name(labels) == [host |-> labels, ip |-> FALSE]
Addr(labels) == [host |-> labels, ip |-> TRUE]
Rule(kind, labels) == [kind |-> kind, host |-> labels]

Api == Name(<<"api", "vendor">>)
Mirror == Name(<<"m", "mirror">>)
Evil == Name(<<"evil", "test">>)
HostOpen == Name(<<"host", "open">>)
HostShut == Name(<<"host", "shut">>)
Lo == Addr(<<"lo", "1">>)
Pub == Addr(<<"pub", "1">>)
Other == Addr(<<"pub", "2">>)
Meta == Addr(<<"linklocal", "1">>)
Gw == Addr(<<"own", "1">>)

MCNames == {Api, Mirror, Evil, HostOpen, HostShut}
MCAddrs == {Lo, Pub, Other, Meta, Gw}
MCResolves == [n \in MCNames |->
  CASE n = Api -> {Pub, Other} [] n = Mirror -> {Pub, Lo} [] OTHER -> {Pub}]
MCOwns == [a \in MCAddrs |-> IF a = Pub THEN {Api, Evil} ELSE {}]
MCDeny == {Rule("prefix", <<"lo">>), Rule("exact", <<"evil", "test">>)}
MCAllowSets == {{Rule("exact", <<"api", "vendor">>)},
                {Rule("exact", <<"api", "vendor">>), Rule("suffix", <<"mirror">>),
                 Rule("addr", <<"pub", "2">>)}}
MCHostPorts == {HostOpen}
MCShutPorts == {HostShut}
MCKeys == {Mirror, HostOpen}
MCResources == {Api}
MCHeaders == {Api, Mirror, Evil}

Ask(kind, to, hello, sni, whole) ==
  [kind |-> kind, to |-> to, hello |-> hello, sni |-> sni, whole |-> whole]
MCAsks ==
  {Ask("connect", Api, "tls", sni, TRUE) : sni \in {Api, Mirror, Evil, None}}
    \cup {Ask("connect", Api, "tls", Api, FALSE), Ask("connect", Api, "plain", None, TRUE)}
    \cup {Ask("connect", Mirror, "silent", None, TRUE), Ask("connect", Evil, "tls", Evil, TRUE)}
    \cup {Ask("connect", Other, "tls", Evil, TRUE)}
    \cup {Ask("http", n, "plain", None, TRUE) : n \in {Mirror, HostOpen, HostShut}}
    \cup {Ask("connect", HostOpen, h, None, TRUE) : h \in {"plain", "tls", "silent"}}
    \cup {Ask("raw", a, "plain", None, TRUE) : a \in {Lo, Other, Meta}}
    \cup {Ask(k, Gw, "plain", None, TRUE) : k \in {"dns", "dhcp"}}
    \cup {Ask(k, Other, "plain", None, TRUE) : k \in {"dns", "icmp", "fragment"}}
MCSplitAsks == {Ask("connect", Api, "tls", Evil, whole) : whole \in BOOLEAN}
============================================================================
