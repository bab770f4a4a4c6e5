----------------------------- MODULE GuestSpec -----------------------------
(***************************************************************************)
(* Who the process in a guest runs as, and who owns what it writes         *)
(* (internal/sandbox: imageconfig.go, imageuser.go, hostuser.go, the order *)
(* of specOptions).  Nothing here keeps state: the module defines the      *)
(* container that create registers, as a function of the image, the host   *)
(* and the directories it shares.                                          *)
(*                                                                         *)
(* An image is [user, layers]: its USER, as [u, g] with g None when there  *)
(* is no colon, and its layers from the bottom up.  A layer says of        *)
(* /etc/passwd and /etc/group what it carries, which of them are links,    *)
(* and what it hides.  A passwd is a sequence of [name, uid, gid]; a group *)
(* one of [name, gid, members]; a link stands for what is at its end.      *)
(* A half of USER is [id, name]: an id, or None and a name.                *)
(***************************************************************************)
EXTENDS Kit, Naturals, SequencesExt

CONSTANT IdSpace        \* how many ids there are: 2^32 - 1 in the code

(* parseID: a half of USER that is a number is an id, never a name. *)
ParseID(half) == half.id # None

---------------------------------------------------------------------------
(* The two files as the image's layers, read from the top, show them.      *)

EtcFiles == {"passwd", "group"}

(* What an image and a host can be.  parseID and numericIDs take no number *)
(* beyond 2^31 - 1, which is less than IdSpace: an entry with another is   *)
(* skipped, and a half with another is a name.  No user of a host but that *)
(* of Windows is -1.                                                       *)
Ids == 0 .. IdSpace - 1
IsSequence(s) == s \in Seq({s[i] : i \in DOMAIN s})
HalfOk(half) == ParseID(half) => half.id \in Ids
FileOk(entries, file) ==
  /\ IsSequence(entries)
  /\ \A i \in DOMAIN entries :
       entries[i].gid \in Ids /\ (file = "passwd" => entries[i].uid \in Ids)
ImageOk(image) ==
  /\ IsSequence(image.layers)
  /\ \A i \in DOMAIN image.layers, f \in EtcFiles :
       image.layers[i].files[f] # None => FileOk(image.layers[i].files[f], f)
  /\ image.user # None => /\ HalfOk(image.user.u)
                          /\ image.user.g # None => HalfOk(image.user.g)
MachineOk(m) ==
  /\ ImageOk(m.image)
  /\ m.host.goos # "windows" => m.host.uid \in Ids /\ m.host.gid \in Ids

(* scanLayer: what a layer carries of a file, None or its entries; and     *)
(* what it deletes: a file, the directory, or the lower contents of that   *)
(* directory or of the root.                                               *)
(* layerScan.hides: a layer that deletes the file, or /etc, or makes /etc  *)
(* opaque, hides the file in the layers below.  The walk up stops before   *)
(* the root.                                                               *)
Hides(layer, file) == layer.gone \cap {file, "etc", "etc/opaque"} # {}

(* Mutant: a whiteout of the directory is not noticed. *)
Decides_FileOnly(layer, file) == layer.files[file] # None \/ file \in layer.gone

Decides(layer, file) == layer.files[file] # None \/ Hides(layer, file)

(* findLayerFiles: the topmost layer that decides.  One it cannot read     *)
(* before both files are decided fails the whole.                          *)
TopLayer(layers, file) ==
  LET deciding == {i \in DOMAIN layers : Decides(layers[i], file)}
  IN  IF deciding = {} THEN 0 ELSE CHOOSE i \in deciding : \A j \in deciding : j <= i

ScanFails(layers) ==
  \E i \in DOMAIN layers :
    layers[i].broken /\ \E f \in EtcFiles : TopLayer(layers, f) < i

(* A file that is hidden or nowhere reads as empty, and so does a link. *)
FindLayerFile(layers, file) ==
  LET i == TopLayer(layers, file)
  IN  IF i = 0 \/ layers[i].files[file] = None \/ file \in layers[i].links THEN <<>>
      ELSE layers[i].files[file]

---------------------------------------------------------------------------
(* resolveUserString: each half of USER on its own.                        *)

Root == [uid |-> 0, gid |-> 0, groups |-> {0}]

FirstOf(entries, Match(_)) ==
  LET found == {i \in DOMAIN entries : Match(entries[i])}
  IN  IF found = {} THEN None ELSE entries[Min(found)]

ResolveUserString(user, passwd, group) ==
  LET entry == FirstOf(passwd, LAMBDA e : IF ParseID(user.u) THEN e.uid = user.u.id
                                          ELSE e.name = user.u.name)
      named == FirstOf(group, LAMBDA g : g.name = user.g.name)
      uid == IF ParseID(user.u) THEN user.u.id ELSE entry.uid
      primary == IF entry = None THEN 0 ELSE entry.gid
      gid == IF user.g = None THEN primary
             ELSE IF ParseID(user.g) THEN user.g.id ELSE named.gid
      groups == IF entry = None THEN {}
                ELSE {g.gid : g \in {x \in Range(group) : entry.name \in x.members}}
  IN  IF \/ ~ParseID(user.u) /\ entry = None
         \/ user.g # None /\ ~ParseID(user.g) /\ named = None
      THEN Refused
      ELSE Fine([uid |-> uid, gid |-> gid, groups |-> groups \cup {gid}], {})

(* applyImageUser and numericIDs: what USER states outright. *)
ApplyImageUser(user) ==
  LET gid == IF user.g # None /\ ParseID(user.g) THEN user.g.id ELSE 0
  IN  [uid |-> IF ParseID(user.u) THEN user.u.id ELSE 0, gid |-> gid, groups |-> {gid}]

(* needsImageUserFiles: a half that is a name, or a uid alone. *)
NeedsImageUserFiles(user) ==
  ~ParseID(user.u) \/ user.g = None \/ ~ParseID(user.g)

(* withImageConfigFromMetadata: any failure leaves what USER states. *)
UserFromLayers(image) ==
  LET found == ResolveUserString(image.user, FindLayerFile(image.layers, "passwd"),
                                 FindLayerFile(image.layers, "group"))
  IN  CASE image.user = None -> Root
        [] image.user # None /\ ~NeedsImageUserFiles(image.user) -> ApplyImageUser(image.user)
        [] image.user # None /\ NeedsImageUserFiles(image.user) ->
             IF ScanFails(image.layers) \/ ~found.ok THEN ApplyImageUser(image.user)
             ELSE found.spec

(* The merged filesystem: the layers laid over each other from the bottom, *)
(* each without what is whited out and what lies below a directory that is *)
(* opaque; whoever opens a link there gets what is at its end.             *)
Removes(layer, file) ==
  \/ file \in layer.gone \/ "etc" \in layer.gone
  \/ \E dir \in {"etc/opaque", "root/opaque"} : dir \in layer.gone
Over(layer, file, below) ==
  IF layer.files[file] # None THEN layer.files[file]
  ELSE IF Removes(layer, file) THEN None ELSE below
Merged(layers, file) ==
  LET upTo[n \in 0 .. Len(layers)] ==
        IF n = 0 THEN None ELSE Over(layers[n], file, upTo[n - 1])
  IN  upTo[Len(layers)]
MergedFile(layers, file) ==
  IF Merged(layers, file) = None THEN <<>> ELSE Merged(layers, file)

(* The layers from which the code reads what the merged filesystem shows. *)
Readable(image) ==
  \A i \in DOMAIN image.layers :
    LET layer == image.layers[i]
    IN  ~layer.broken /\ "root/opaque" \notin layer.gone /\ layer.links = {}

(* oci.WithImageConfig, which a Linux host uses: it mounts the image, and  *)
(* a user it does not find fails the creation.                             *)
UserFromMount(image) ==
  IF image.user = None THEN Fine(Root, {})
  ELSE ResolveUserString(image.user, MergedFile(image.layers, "passwd"),
                         MergedFile(image.layers, "group"))

(* imageConfigOpt and usesMetadataImageConfigOn. *)
ImageUser(image, host) ==
  IF host.goos = "linux" /\ ~host.resolves THEN UserFromMount(image)
  ELSE Fine(UserFromLayers(image), {})

---------------------------------------------------------------------------
(* withHostUser, the last option: the process and the host's files agree.  *)

Entry(disk, seen, size) == [disk |-> disk, seen |-> seen, size |-> size]

(* swapIDMapping: the two ids trade places and every other is itself.      *)
SwapIDMapping(onDisk, seen) ==
  LET lo == IF onDisk < seen THEN onDisk ELSE seen
      hi == IF onDisk < seen THEN seen ELSE onDisk
  IN  IF onDisk = seen THEN {Entry(0, 0, IdSpace)}
      ELSE UNION {IF lo > 0 THEN {Entry(0, 0, lo)} ELSE {},
                  {Entry(lo, hi, 1), Entry(hi, lo, 1)},
                  IF hi - lo > 1 THEN {Entry(lo + 1, lo + 1, hi - lo - 1)} ELSE {},
                  IF hi < IdSpace - 1 THEN {Entry(hi + 1, hi + 1, IdSpace - hi - 1)} ELSE {}}

(* guestShares: in clone mode the first workspace is shared read-only. *)
GuestShares(shares, clone) ==
  IF clone /\ shares # <<>> THEN [shares EXCEPT ![1] = "ro"] ELSE shares

(* idmapWorkspaceMounts: on the writable mounts only. *)
Mounts(shares, uids, gids) ==
  [i \in DOMAIN shares |->
     IF shares[i] = "rw" THEN [mode |-> "rw", uids |-> uids, gids |-> gids]
     ELSE [mode |-> "ro", uids |-> {}, gids |-> {}]]

(* reconcileWorkspaceIdentity and overrideWithHostUser: an image that is   *)
(* not root keeps its user behind a mapping, where the guest can map.      *)
Reconcile(user, shares, host) ==
  IF user.uid # 0 /\ host.idmap
  THEN [user |-> user,
        mounts |-> Mounts(shares, SwapIDMapping(host.uid, user.uid),
                          SwapIDMapping(host.gid, user.gid))]
  ELSE [user |-> [uid |-> host.uid, gid |-> host.gid, groups |-> {host.gid}],
        mounts |-> Mounts(shares, {}, {})]

WithHostUser(user, shares, clone, host) ==
  LET given == GuestShares(shares, clone)
  IN  IF shares = <<>> \/ host.goos = "windows" \/ host.uid <= 0
      THEN [user |-> user, mounts |-> Mounts(given, {}, {})]
      ELSE Reconcile(user, given, host)

(* specOptions, as far as the user and the mounts go. *)
SpecOptions(m) ==
  LET user == ImageUser(m.image, m.host)
  IN  IF ~user.ok THEN Refused
      ELSE Fine(WithHostUser(user.spec, m.shares, m.clone, m.host), {})
============================================================================
