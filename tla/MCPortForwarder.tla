-------------------------- MODULE MCPortForwarder --------------------------
(***************************************************************************)
(* Instances of PortForwarder for TLC.                                     *)
(***************************************************************************)
EXTENDS PortForwarder

CONSTANTS T1, T2, C1

MCIds == 1..7

Tcp(addr, port, sb) == [addr |-> addr, port |-> port, sb |-> sb, proto |-> "tcp"]

(* "8080:3000", bound on both loopbacks, and its move to another port. *)
Web == Tcp("any", 8080, 3000)
Api == Tcp("any", 8080, 4000)
MovePort == [un |-> <<Web>>, pub |-> <<Api>>]

(* "3000" on a port the system picks, "8080:3000/tcp6", and UDP. *)
Ephemeral == Tcp("any", 0, 3000)
Web6 == [Tcp("any", 8080, 3000) EXCEPT !.proto = "tcp6"]
Udp == [Tcp("any", 8080, 3000) EXCEPT !.proto = "udp"]

PortCommands ==
  {MovePort,
   [un |-> <<Api>>, pub |-> <<Ephemeral>>],
   [un |-> <<Udp>>, pub |-> <<>>],
   [un |-> <<Tcp("v4", 8080, 3000)>>, pub |-> <<Web6>>]}

PortInitial == <<Web>>

(* Two terminals that publish one port each. *)
WebOn(port) == [un |-> <<>>, pub |-> <<Tcp("v4", port, 3000)>>]
PublishCommands == {WebOn(8080), WebOn(9090)}
NoInitial == <<>>
============================================================================
