-------------------------- MODULE MCManagedDaemon --------------------------
(***************************************************************************)
(* Instances of ManagedDaemon for TLC.                                     *)
(***************************************************************************)
EXTENDS ManagedDaemon

CONSTANTS S1, S2, T1, T2

Dir(c, h, tools) == [ctd |-> c, shim |-> h, tools |-> tools]
Empty == Dir(0, 0, {})

(* A package with the runtime beside boks and an older containerd in PATH; *)
(* a Mac with the ext4 tools in a keg; Windows with an old daemon; a       *)
(* containerd and no shim; nothing.                                        *)
Linux == [goos |-> "linux", bundle |-> <<Dir(3, 3, {}), Dir(2, 0, {})>>,
          path |-> <<Dir(2, 0, {"mkfs.erofs"})>>, keg |-> <<>>, system |-> FALSE]
Mac == [goos |-> "darwin", bundle |-> <<Empty>>, path |-> <<Dir(3, 3, {"mkfs.erofs"})>>,
        keg |-> <<Dir(0, 0, {"mkfs.ext4"})>>, system |-> FALSE]
Windows == [goos |-> "windows", bundle |-> <<Dir(0, 3, Tools)>>, path |-> <<Dir(2, 0, {})>>,
            keg |-> <<>>, system |-> TRUE]
NoShim == [goos |-> "linux", bundle |-> <<Empty>>, path |-> <<Dir(3, 0, {"mkfs.erofs"})>>,
           keg |-> <<>>, system |-> FALSE]
Bare == [goos |-> "linux", bundle |-> <<>>, path |-> <<Empty>>, keg |-> <<>>, system |-> FALSE]

MCHosts == {Linux, Mac, Windows, NoShim, Bare}
OneHost == {Linux}
============================================================================
