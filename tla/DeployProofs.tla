---------------------------- MODULE DeployProofs ------------------------------
(* Proofs about BuildPipeline, for every set of nodes, about FlashRootfs, and   *)
(* about NodeRoot, for every set of drivers and of kernel modules.             *)
EXTENDS BuildPipeline, FlashRootfs, NodeRoot, TLAPS

-------------------------------------------------------------------------------
(* The markers and the cards.                                                  *)

\* The steps of each script, after its first line has not ended it.
UbootSteps == {"clone u-boot", "patch u-boot", "mark u-boot", "clone firmware", "mark firmware",
               "make firmware", "make nanopc-t4", "make nanopi-m4", "mark loaders"}
LinuxSteps == {"clone linux", "mark linux", "reset linux", "patch linux", "make linux",
               "mark kernel"}
ImageSteps == {"debootstrap", "mark rootfs", "fill image", "mark image"}
CardSteps == {"31", "install", "90"}

BuildTypeOK ==
  /\ node \in Node
  /\ tree \in [{"u-boot", "arm-trusted-firmware", "linux"} -> {"none", "part", "clone", "patched"}]
  /\ bl31 \in BOOLEAN
  /\ loader \in [Board -> {"none", "part", "bad", "good"}]
  /\ image \in [Board -> {"none", "part", "bad", "good"}]

\* 10-build-u-boot.sh works while its last marker is missing, and on trees it has marked.
UbootInv ==
  /\ step \in UbootSteps => "u-boot.ready" \notin marker
  /\ step \in {"patch u-boot", "mark u-boot"} => "u-boot/.ready" \notin marker
  /\ step = "mark u-boot" => tree["u-boot"] = "patched"
  /\ step \in UbootSteps \ {"clone u-boot", "patch u-boot", "mark u-boot"} =>
       "u-boot/.ready" \in marker
  /\ step = "mark firmware" => tree["arm-trusted-firmware"] = "clone"
  /\ step \in {"make firmware", "make nanopc-t4", "make nanopi-m4", "mark loaders"} =>
       "arm-trusted-firmware/.ready" \in marker
  /\ step \in {"make nanopc-t4", "make nanopi-m4", "mark loaders"} => bl31
  /\ step \in {"make nanopi-m4", "mark loaders"} => loader["nanopc-t4"] = "good"
  /\ step = "mark loaders" => loader["nanopi-m4"] = "good"
  /\ step \in {"20", "30"} \cup LinuxSteps \cup ImageSteps \cup CardSteps => "u-boot.ready" \in marker

LinuxInv ==
  /\ step \in LinuxSteps => "linux.ready" \notin marker
  /\ step \in {"mark linux", "patch linux"} => tree["linux"] = "clone"
  /\ step \in {"reset linux", "patch linux", "make linux", "mark kernel"} =>
       "linux/.ready" \in marker
  /\ step = "make linux" => tree["linux"] = "patched"
  /\ step = "mark kernel" => kernel = "good"
  /\ step \in {"30"} \cup ImageSteps \cup CardSteps => "linux.ready" \in marker

ImageInv ==
  /\ step \in ImageSteps => NodeMarker \notin marker
  /\ step = "mark rootfs" => rootfs = "good" /\ "rootfs.ready" \notin marker
  /\ step \in {"fill image", "mark image"} => "rootfs.ready" \in marker
  /\ step = "mark image" => image[BoardOf(node)] = "good"
  /\ step \in CardSteps => NodeMarker \in marker

Fits(d, n) ==
  /\ n = Head => d.root = "good"
  /\ n # Head => d.mac = n /\ d.ip = Plan[n]

\* The environment is made anew before it is installed, and the image before it is copied.
CardInv ==
  /\ step = "install" /\ node # Head => env.mac = node /\ env.ip = Plan[node]
  /\ step = "90" => disk[node].loader = "good" /\ Fits(disk[node], node)

DiskType == [loader : {"none", "part", "bad", "good"}, mac : Nat, ip : Nat,
             root : {"none", "part", "bad", "good"}]
CardTypeOK == env \in DiskType /\ disk \in [Node -> DiskType] /\ card \in [Node -> DiskType]

BuildInv ==
  /\ BuildTypeOK /\ CardTypeOK /\ MarkersTellTruth /\ CardFitsNode
  /\ UbootInv /\ LinuxInv /\ ImageInv /\ CardInv

LEMMA NodeFacts ==
  /\ Head \notin Index /\ Head \in Node
  /\ \A n \in Node : BoardOf(n) \in Board
  /\ \A n \in Node : n # Head => n \in Nat /\ n + 100 \in Nat /\ Plan[n] = n + 100
BY IndexAssumption DEF Head, Node, Board, BoardOf, Plan

LEMMA InitBuildInv == BuildInit => BuildInv
<1> SUFFICES ASSUME BuildInit PROVE BuildInv
  OBVIOUS
<1> USE NodeFacts DEF BuildInit
<1>1. BuildTypeOK
  BY DEF BuildTypeOK
<1>2. CardTypeOK /\ CardFitsNode
  BY DEF CardTypeOK, CardFitsNode, DiskType, Blank
<1>3. MarkersTellTruth
  BY DEF MarkersTellTruth
<1>4. UbootInv /\ LinuxInv /\ ImageInv /\ CardInv
  BY DEF UbootInv, LinuxInv, ImageInv, CardInv, UbootSteps, LinuxSteps, ImageSteps, CardSteps
<1> QED BY <1>1, <1>2, <1>3, <1>4 DEF BuildInv

\* No script but the last two changes what CardFitsNode is about.
LEMMA CardsStay ==
  ASSUME BuildInv, UNCHANGED <<node, nodeVars>>, step' \notin {"install", "90"}
  PROVE  CardTypeOK' /\ CardFitsNode' /\ CardInv'
BY DEF BuildInv, CardTypeOK, CardFitsNode, CardInv, nodeVars

\* A step of 10-build-u-boot.sh preserves the invariant.
LEMMA UbootStep ==
  ASSUME BuildInv, SkipUboot \/ EnterUboot \/ CloneUboot \/ PatchUboot \/ MarkUboot
  PROVE  BuildInv'
<1> USE NodeFacts DEF BuildInv, BuildTypeOK, UbootSteps, LinuxSteps, ImageSteps, CardSteps,
        At, Then, HalfWay, Skip, Touch, imageVars, nodeVars, treeVars
<1>1. CASE SkipUboot
  <2>1. CardTypeOK' /\ CardFitsNode' /\ CardInv'
    BY <1>1, CardsStay DEF SkipUboot
  <2>2. BuildTypeOK'
    BY <1>1 DEF SkipUboot
  <2>3. MarkersTellTruth'
    BY <1>1 DEF SkipUboot, UbootInv, LinuxInv, ImageInv, MarkersTellTruth, NodeMarker, ImageMarker, BoardOf, Board
  <2>4. UbootInv' /\ LinuxInv' /\ ImageInv'
    BY <1>1 DEF SkipUboot, UbootInv, LinuxInv, ImageInv, MarkersTellTruth, NodeMarker, ImageMarker, BoardOf, Board
  <2> QED BY <2>1, <2>2, <2>3, <2>4
<1>2. CASE EnterUboot
  <2>1. CardTypeOK' /\ CardFitsNode' /\ CardInv'
    BY <1>2, CardsStay DEF EnterUboot
  <2>2. BuildTypeOK'
    BY <1>2 DEF EnterUboot
  <2>3. MarkersTellTruth'
    BY <1>2 DEF EnterUboot, UbootInv, LinuxInv, ImageInv, MarkersTellTruth, NodeMarker, ImageMarker, BoardOf, Board
  <2>4. UbootInv' /\ LinuxInv' /\ ImageInv'
    BY <1>2 DEF EnterUboot, UbootInv, LinuxInv, ImageInv, MarkersTellTruth, NodeMarker, ImageMarker, BoardOf, Board
  <2> QED BY <2>1, <2>2, <2>3, <2>4
<1>3. CASE CloneUboot
  <2>1. CardTypeOK' /\ CardFitsNode' /\ CardInv'
    BY <1>3, CardsStay DEF CloneUboot
  <2>2. BuildTypeOK'
    BY <1>3 DEF CloneUboot
  <2>3. MarkersTellTruth'
    BY <1>3 DEF CloneUboot, UbootInv, LinuxInv, ImageInv, MarkersTellTruth, NodeMarker, ImageMarker, BoardOf, Board
  <2>4. UbootInv' /\ LinuxInv' /\ ImageInv'
    BY <1>3 DEF CloneUboot, UbootInv, LinuxInv, ImageInv, MarkersTellTruth, NodeMarker, ImageMarker, BoardOf, Board
  <2> QED BY <2>1, <2>2, <2>3, <2>4
<1>4. CASE PatchUboot
  <2>1. CardTypeOK' /\ CardFitsNode' /\ CardInv'
    BY <1>4, CardsStay DEF PatchUboot
  <2>2. BuildTypeOK'
    BY <1>4 DEF PatchUboot
  <2>3. MarkersTellTruth'
    BY <1>4 DEF PatchUboot, UbootInv, LinuxInv, ImageInv, MarkersTellTruth, NodeMarker, ImageMarker, BoardOf, Board
  <2>4. UbootInv' /\ LinuxInv' /\ ImageInv'
    BY <1>4 DEF PatchUboot, UbootInv, LinuxInv, ImageInv, MarkersTellTruth, NodeMarker, ImageMarker, BoardOf, Board
  <2> QED BY <2>1, <2>2, <2>3, <2>4
<1>5. CASE MarkUboot
  <2>1. CardTypeOK' /\ CardFitsNode' /\ CardInv'
    BY <1>5, CardsStay DEF MarkUboot
  <2>2. BuildTypeOK'
    BY <1>5 DEF MarkUboot
  <2>3. MarkersTellTruth'
    BY <1>5 DEF MarkUboot, UbootInv, LinuxInv, ImageInv, MarkersTellTruth, NodeMarker, ImageMarker, BoardOf, Board
  <2>4. UbootInv' /\ LinuxInv' /\ ImageInv'
    BY <1>5 DEF MarkUboot, UbootInv, LinuxInv, ImageInv, MarkersTellTruth, NodeMarker, ImageMarker, BoardOf, Board
  <2> QED BY <2>1, <2>2, <2>3, <2>4
<1> QED BY <1>1, <1>2, <1>3, <1>4, <1>5

\* Its second half.
LEMMA FirmwareStep ==
  ASSUME BuildInv, SkipFirmware \/ CloneFirmware \/ MarkFirmware \/ MakeFirmware \/ MakeLoader("nanopc-t4", "make nanopc-t4", "make nanopi-m4") \/ MakeLoader("nanopi-m4", "make nanopi-m4", "mark loaders") \/ MarkLoaders
  PROVE  BuildInv'
<1> USE NodeFacts DEF BuildInv, BuildTypeOK, UbootSteps, LinuxSteps, ImageSteps, CardSteps,
        At, Then, HalfWay, Skip, Touch, imageVars, nodeVars, treeVars
<1>1. CASE SkipFirmware
  <2>1. CardTypeOK' /\ CardFitsNode' /\ CardInv'
    BY <1>1, CardsStay DEF SkipFirmware
  <2>2. BuildTypeOK'
    BY <1>1 DEF SkipFirmware, Made
  <2>3. MarkersTellTruth'
    BY <1>1 DEF SkipFirmware, UbootInv, LinuxInv, ImageInv, MarkersTellTruth, NodeMarker, ImageMarker, BoardOf, Board, Made
  <2>4. UbootInv' /\ LinuxInv' /\ ImageInv'
    BY <1>1 DEF SkipFirmware, UbootInv, LinuxInv, ImageInv, MarkersTellTruth, NodeMarker, ImageMarker, BoardOf, Board, Made
  <2> QED BY <2>1, <2>2, <2>3, <2>4
<1>2. CASE CloneFirmware
  <2>1. CardTypeOK' /\ CardFitsNode' /\ CardInv'
    BY <1>2, CardsStay DEF CloneFirmware
  <2>2. BuildTypeOK'
    BY <1>2 DEF CloneFirmware, Made
  <2>3. MarkersTellTruth'
    BY <1>2 DEF CloneFirmware, UbootInv, LinuxInv, ImageInv, MarkersTellTruth, NodeMarker, ImageMarker, BoardOf, Board, Made
  <2>4. UbootInv' /\ LinuxInv' /\ ImageInv'
    BY <1>2 DEF CloneFirmware, UbootInv, LinuxInv, ImageInv, MarkersTellTruth, NodeMarker, ImageMarker, BoardOf, Board, Made
  <2> QED BY <2>1, <2>2, <2>3, <2>4
<1>3. CASE MarkFirmware
  <2>1. CardTypeOK' /\ CardFitsNode' /\ CardInv'
    BY <1>3, CardsStay DEF MarkFirmware
  <2>2. BuildTypeOK'
    BY <1>3 DEF MarkFirmware, Made
  <2>3. MarkersTellTruth'
    BY <1>3 DEF MarkFirmware, UbootInv, LinuxInv, ImageInv, MarkersTellTruth, NodeMarker, ImageMarker, BoardOf, Board, Made
  <2>4. UbootInv' /\ LinuxInv' /\ ImageInv'
    BY <1>3 DEF MarkFirmware, UbootInv, LinuxInv, ImageInv, MarkersTellTruth, NodeMarker, ImageMarker, BoardOf, Board, Made
  <2> QED BY <2>1, <2>2, <2>3, <2>4
<1>4. CASE MakeFirmware
  <2>1. CardTypeOK' /\ CardFitsNode' /\ CardInv'
    BY <1>4, CardsStay DEF MakeFirmware
  <2>2. BuildTypeOK'
    BY <1>4 DEF MakeFirmware, Made
  <2>3. MarkersTellTruth'
    BY <1>4 DEF MakeFirmware, UbootInv, LinuxInv, ImageInv, MarkersTellTruth, NodeMarker, ImageMarker, BoardOf, Board, Made
  <2>4. UbootInv' /\ LinuxInv' /\ ImageInv'
    BY <1>4 DEF MakeFirmware, UbootInv, LinuxInv, ImageInv, MarkersTellTruth, NodeMarker, ImageMarker, BoardOf, Board, Made
  <2> QED BY <2>1, <2>2, <2>3, <2>4
<1>5. CASE MakeLoader("nanopc-t4", "make nanopc-t4", "make nanopi-m4")
  <2>1. CardTypeOK' /\ CardFitsNode' /\ CardInv'
    BY <1>5, CardsStay DEF MakeLoader
  <2>2. BuildTypeOK'
    BY <1>5 DEF MakeLoader, Made
  <2>3. MarkersTellTruth'
    BY <1>5 DEF MakeLoader, UbootInv, LinuxInv, ImageInv, MarkersTellTruth, NodeMarker, ImageMarker, BoardOf, Board, Made
  <2>4. UbootInv' /\ LinuxInv' /\ ImageInv'
    BY <1>5 DEF MakeLoader, UbootInv, LinuxInv, ImageInv, MarkersTellTruth, NodeMarker, ImageMarker, BoardOf, Board, Made
  <2> QED BY <2>1, <2>2, <2>3, <2>4
<1>6. CASE MakeLoader("nanopi-m4", "make nanopi-m4", "mark loaders")
  <2>1. CardTypeOK' /\ CardFitsNode' /\ CardInv'
    BY <1>6, CardsStay DEF MakeLoader
  <2>2. BuildTypeOK'
    BY <1>6 DEF MakeLoader, Made
  <2>3. MarkersTellTruth'
    BY <1>6 DEF MakeLoader, UbootInv, LinuxInv, ImageInv, MarkersTellTruth, NodeMarker, ImageMarker, BoardOf, Board, Made
  <2>4. UbootInv' /\ LinuxInv' /\ ImageInv'
    BY <1>6 DEF MakeLoader, UbootInv, LinuxInv, ImageInv, MarkersTellTruth, NodeMarker, ImageMarker, BoardOf, Board, Made
  <2> QED BY <2>1, <2>2, <2>3, <2>4
<1>7. CASE MarkLoaders
  <2>1. CardTypeOK' /\ CardFitsNode' /\ CardInv'
    BY <1>7, CardsStay DEF MarkLoaders
  <2>2. BuildTypeOK'
    BY <1>7 DEF MarkLoaders, Made
  <2>3. MarkersTellTruth'
    BY <1>7 DEF MarkLoaders, UbootInv, LinuxInv, ImageInv, MarkersTellTruth, NodeMarker, ImageMarker, BoardOf, Board, Made
  <2>4. UbootInv' /\ LinuxInv' /\ ImageInv'
    BY <1>7 DEF MarkLoaders, UbootInv, LinuxInv, ImageInv, MarkersTellTruth, NodeMarker, ImageMarker, BoardOf, Board, Made
  <2> QED BY <2>1, <2>2, <2>3, <2>4
<1> QED BY <1>1, <1>2, <1>3, <1>4, <1>5, <1>6, <1>7

\* A step of 20-build-linux.sh.
LEMMA LinuxStep ==
  ASSUME BuildInv, SkipLinux \/ EnterLinux \/ CloneLinux \/ MarkLinux \/ ResetLinux \/ PatchLinux \/ MakeLinux \/ MarkKernel
  PROVE  BuildInv'
<1> USE NodeFacts DEF BuildInv, BuildTypeOK, UbootSteps, LinuxSteps, ImageSteps, CardSteps,
        At, Then, HalfWay, Skip, Touch, imageVars, nodeVars, treeVars
<1>1. CASE SkipLinux
  <2>1. CardTypeOK' /\ CardFitsNode' /\ CardInv'
    BY <1>1, CardsStay DEF SkipLinux
  <2>2. BuildTypeOK'
    BY <1>1 DEF SkipLinux, Made
  <2>3. MarkersTellTruth'
    BY <1>1 DEF SkipLinux, UbootInv, LinuxInv, ImageInv, MarkersTellTruth, NodeMarker, ImageMarker, BoardOf, Board, Made
  <2>4. UbootInv' /\ LinuxInv' /\ ImageInv'
    BY <1>1 DEF SkipLinux, UbootInv, LinuxInv, ImageInv, MarkersTellTruth, NodeMarker, ImageMarker, BoardOf, Board, Made
  <2> QED BY <2>1, <2>2, <2>3, <2>4
<1>2. CASE EnterLinux
  <2>1. CardTypeOK' /\ CardFitsNode' /\ CardInv'
    BY <1>2, CardsStay DEF EnterLinux
  <2>2. BuildTypeOK'
    BY <1>2 DEF EnterLinux, Made
  <2>3. MarkersTellTruth'
    BY <1>2 DEF EnterLinux, UbootInv, LinuxInv, ImageInv, MarkersTellTruth, NodeMarker, ImageMarker, BoardOf, Board, Made
  <2>4. UbootInv' /\ LinuxInv' /\ ImageInv'
    BY <1>2 DEF EnterLinux, UbootInv, LinuxInv, ImageInv, MarkersTellTruth, NodeMarker, ImageMarker, BoardOf, Board, Made
  <2> QED BY <2>1, <2>2, <2>3, <2>4
<1>3. CASE CloneLinux
  <2>1. CardTypeOK' /\ CardFitsNode' /\ CardInv'
    BY <1>3, CardsStay DEF CloneLinux
  <2>2. BuildTypeOK'
    BY <1>3 DEF CloneLinux, Made
  <2>3. MarkersTellTruth'
    BY <1>3 DEF CloneLinux, UbootInv, LinuxInv, ImageInv, MarkersTellTruth, NodeMarker, ImageMarker, BoardOf, Board, Made
  <2>4. UbootInv' /\ LinuxInv' /\ ImageInv'
    BY <1>3 DEF CloneLinux, UbootInv, LinuxInv, ImageInv, MarkersTellTruth, NodeMarker, ImageMarker, BoardOf, Board, Made
  <2> QED BY <2>1, <2>2, <2>3, <2>4
<1>4. CASE MarkLinux
  <2>1. CardTypeOK' /\ CardFitsNode' /\ CardInv'
    BY <1>4, CardsStay DEF MarkLinux
  <2>2. BuildTypeOK'
    BY <1>4 DEF MarkLinux, Made
  <2>3. MarkersTellTruth'
    BY <1>4 DEF MarkLinux, UbootInv, LinuxInv, ImageInv, MarkersTellTruth, NodeMarker, ImageMarker, BoardOf, Board, Made
  <2>4. UbootInv' /\ LinuxInv' /\ ImageInv'
    BY <1>4 DEF MarkLinux, UbootInv, LinuxInv, ImageInv, MarkersTellTruth, NodeMarker, ImageMarker, BoardOf, Board, Made
  <2> QED BY <2>1, <2>2, <2>3, <2>4
<1>5. CASE ResetLinux
  <2>1. CardTypeOK' /\ CardFitsNode' /\ CardInv'
    BY <1>5, CardsStay DEF ResetLinux
  <2>2. BuildTypeOK'
    BY <1>5 DEF ResetLinux, Made
  <2>3. MarkersTellTruth'
    BY <1>5 DEF ResetLinux, UbootInv, LinuxInv, ImageInv, MarkersTellTruth, NodeMarker, ImageMarker, BoardOf, Board, Made
  <2>4. UbootInv' /\ LinuxInv' /\ ImageInv'
    BY <1>5 DEF ResetLinux, UbootInv, LinuxInv, ImageInv, MarkersTellTruth, NodeMarker, ImageMarker, BoardOf, Board, Made
  <2> QED BY <2>1, <2>2, <2>3, <2>4
<1>6. CASE PatchLinux
  <2>1. CardTypeOK' /\ CardFitsNode' /\ CardInv'
    BY <1>6, CardsStay DEF PatchLinux
  <2>2. BuildTypeOK'
    BY <1>6 DEF PatchLinux, Made
  <2>3. MarkersTellTruth'
    BY <1>6 DEF PatchLinux, UbootInv, LinuxInv, ImageInv, MarkersTellTruth, NodeMarker, ImageMarker, BoardOf, Board, Made
  <2>4. UbootInv' /\ LinuxInv' /\ ImageInv'
    BY <1>6 DEF PatchLinux, UbootInv, LinuxInv, ImageInv, MarkersTellTruth, NodeMarker, ImageMarker, BoardOf, Board, Made
  <2> QED BY <2>1, <2>2, <2>3, <2>4
<1>7. CASE MakeLinux
  <2>1. CardTypeOK' /\ CardFitsNode' /\ CardInv'
    BY <1>7, CardsStay DEF MakeLinux
  <2>2. BuildTypeOK'
    BY <1>7 DEF MakeLinux, Made
  <2>3. MarkersTellTruth'
    BY <1>7 DEF MakeLinux, UbootInv, LinuxInv, ImageInv, MarkersTellTruth, NodeMarker, ImageMarker, BoardOf, Board, Made
  <2>4. UbootInv' /\ LinuxInv' /\ ImageInv'
    BY <1>7 DEF MakeLinux, UbootInv, LinuxInv, ImageInv, MarkersTellTruth, NodeMarker, ImageMarker, BoardOf, Board, Made
  <2> QED BY <2>1, <2>2, <2>3, <2>4
<1>8. CASE MarkKernel
  <2>1. CardTypeOK' /\ CardFitsNode' /\ CardInv'
    BY <1>8, CardsStay DEF MarkKernel
  <2>2. BuildTypeOK'
    BY <1>8 DEF MarkKernel, Made
  <2>3. MarkersTellTruth'
    BY <1>8 DEF MarkKernel, UbootInv, LinuxInv, ImageInv, MarkersTellTruth, NodeMarker, ImageMarker, BoardOf, Board, Made
  <2>4. UbootInv' /\ LinuxInv' /\ ImageInv'
    BY <1>8 DEF MarkKernel, UbootInv, LinuxInv, ImageInv, MarkersTellTruth, NodeMarker, ImageMarker, BoardOf, Board, Made
  <2> QED BY <2>1, <2>2, <2>3, <2>4
<1> QED BY <1>1, <1>2, <1>3, <1>4, <1>5, <1>6, <1>7, <1>8

\* A step of 30-rootfs.sh.
LEMMA RootfsStep ==
  ASSUME BuildInv, SkipRootfs \/ MakeImage \/ Debootstrap \/ MarkRootfs \/ FillImage \/ MarkImage
  PROVE  BuildInv'
<1> USE NodeFacts DEF BuildInv, BuildTypeOK, UbootSteps, LinuxSteps, ImageSteps, CardSteps,
        At, Then, HalfWay, Skip, Touch, imageVars, nodeVars, treeVars
<1>1. CASE SkipRootfs
  <2>1. CardTypeOK' /\ CardFitsNode' /\ CardInv'
    BY <1>1, CardsStay DEF SkipRootfs
  <2>2. BuildTypeOK'
    BY <1>1 DEF SkipRootfs, Made
  <2>3. MarkersTellTruth'
    BY <1>1 DEF SkipRootfs, UbootInv, LinuxInv, ImageInv, MarkersTellTruth, NodeMarker, ImageMarker, BoardOf, Board, Made
  <2>4. UbootInv' /\ LinuxInv' /\ ImageInv'
    BY <1>1 DEF SkipRootfs, UbootInv, LinuxInv, ImageInv, MarkersTellTruth, NodeMarker, ImageMarker, BoardOf, Board, Made
  <2> QED BY <2>1, <2>2, <2>3, <2>4
<1>2. CASE MakeImage
  <2>1. CardTypeOK' /\ CardFitsNode' /\ CardInv'
    BY <1>2, CardsStay DEF MakeImage
  <2>2. BuildTypeOK'
    BY <1>2 DEF MakeImage, Made
  <2>3. MarkersTellTruth'
    BY <1>2 DEF MakeImage, UbootInv, LinuxInv, ImageInv, MarkersTellTruth, NodeMarker, ImageMarker, BoardOf, Board, Made
  <2>4. UbootInv' /\ LinuxInv' /\ ImageInv'
    BY <1>2 DEF MakeImage, UbootInv, LinuxInv, ImageInv, MarkersTellTruth, NodeMarker, ImageMarker, BoardOf, Board, Made
  <2> QED BY <2>1, <2>2, <2>3, <2>4
<1>3. CASE Debootstrap
  <2>1. CardTypeOK' /\ CardFitsNode' /\ CardInv'
    BY <1>3, CardsStay DEF Debootstrap
  <2>2. BuildTypeOK'
    BY <1>3 DEF Debootstrap, Made
  <2>3. MarkersTellTruth'
    BY <1>3 DEF Debootstrap, UbootInv, LinuxInv, ImageInv, MarkersTellTruth, NodeMarker, ImageMarker, BoardOf, Board, Made
  <2>4. UbootInv' /\ LinuxInv' /\ ImageInv'
    BY <1>3 DEF Debootstrap, UbootInv, LinuxInv, ImageInv, MarkersTellTruth, NodeMarker, ImageMarker, BoardOf, Board, Made
  <2> QED BY <2>1, <2>2, <2>3, <2>4
<1>4. CASE MarkRootfs
  <2>1. CardTypeOK' /\ CardFitsNode' /\ CardInv'
    BY <1>4, CardsStay DEF MarkRootfs
  <2>2. BuildTypeOK'
    BY <1>4 DEF MarkRootfs, Made
  <2>3. MarkersTellTruth'
    BY <1>4 DEF MarkRootfs, UbootInv, LinuxInv, ImageInv, MarkersTellTruth, NodeMarker, ImageMarker, BoardOf, Board, Made
  <2>4. UbootInv' /\ LinuxInv' /\ ImageInv'
    BY <1>4 DEF MarkRootfs, UbootInv, LinuxInv, ImageInv, MarkersTellTruth, NodeMarker, ImageMarker, BoardOf, Board, Made
  <2> QED BY <2>1, <2>2, <2>3, <2>4
<1>5. CASE FillImage
  <2>1. CardTypeOK' /\ CardFitsNode' /\ CardInv'
    BY <1>5, CardsStay DEF FillImage
  <2>2. BuildTypeOK'
    BY <1>5 DEF FillImage, Made
  <2>3. MarkersTellTruth'
    BY <1>5 DEF FillImage, UbootInv, LinuxInv, ImageInv, MarkersTellTruth, NodeMarker, ImageMarker, BoardOf, Board, Made
  <2>4. UbootInv' /\ LinuxInv' /\ ImageInv'
    BY <1>5 DEF FillImage, UbootInv, LinuxInv, ImageInv, MarkersTellTruth, NodeMarker, ImageMarker, BoardOf, Board, Made
  <2> QED BY <2>1, <2>2, <2>3, <2>4
<1>6. CASE MarkImage
  <2>1. CardTypeOK' /\ CardFitsNode' /\ CardInv'
    BY <1>6, CardsStay DEF MarkImage
  <2>2. BuildTypeOK'
    BY <1>6 DEF MarkImage, Made
  <2>3. MarkersTellTruth'
    BY <1>6 DEF MarkImage, UbootInv, LinuxInv, ImageInv, MarkersTellTruth, NodeMarker, ImageMarker, BoardOf, Board, Made
  <2>4. UbootInv' /\ LinuxInv' /\ ImageInv'
    BY <1>6 DEF MarkImage, UbootInv, LinuxInv, ImageInv, MarkersTellTruth, NodeMarker, ImageMarker, BoardOf, Board, Made
  <2> QED BY <2>1, <2>2, <2>3, <2>4
<1> QED BY <1>1, <1>2, <1>3, <1>4, <1>5, <1>6


\* The environment is written.
LEMMA EnvStep ==
  ASSUME BuildInv, SkipEnv \/ WriteEnv
  PROVE  BuildInv'
<1> USE NodeFacts DEF BuildInv, BuildTypeOK, UbootSteps, LinuxSteps, ImageSteps, CardSteps,
        At, Then, HalfWay, imageVars, nodeVars, treeVars
<1>1. BuildTypeOK' /\ MarkersTellTruth'
  BY DEF SkipEnv, WriteEnv, MarkersTellTruth
<1>2. UbootInv' /\ LinuxInv' /\ ImageInv'
  BY DEF SkipEnv, WriteEnv, UbootInv, LinuxInv, ImageInv, NodeMarker
<1>3. CASE SkipEnv
  <2>1. CardTypeOK' /\ CardFitsNode' /\ CardInv'
    BY <1>3 DEF SkipEnv, CardTypeOK, CardFitsNode, CardInv
  <2> QED BY <1>1, <1>2, <2>1
<1>4. CASE WriteEnv
  <2> DEFINE w == [Blank EXCEPT !.mac = node, !.ip = node + 100]
  <2>1. node \in Node /\ node # Head /\ node \in Nat /\ Plan[node] = node + 100
    BY <1>4 DEF WriteEnv
  <2>2. /\ UNCHANGED <<node, card>>
        /\ \/ step' = "install" /\ env' = w /\ disk' = [disk EXCEPT ![node] = Blank]
           \/ step' = "none" /\ env' \in {env, Blank} /\ UNCHANGED disk
    BY <1>4 DEF WriteEnv
  <2>3. Blank \in DiskType /\ w \in DiskType /\ w.mac = node /\ w.ip = Plan[node]
    BY <2>1 DEF Blank, DiskType
  <2> HIDE DEF w
  <2>4. CardTypeOK' /\ CardFitsNode' /\ CardInv'
    BY <2>1, <2>2, <2>3 DEF CardTypeOK, CardFitsNode, CardInv
  <2> QED BY <1>1, <1>2, <2>4
<1> QED BY <1>3, <1>4

\* The image of the disk is made and copied to the card of this node, and of no other.
LEMMA InstallStep ==
  ASSUME BuildInv, Install
  PROVE  BuildInv'
<1> USE NodeFacts DEF BuildInv, BuildTypeOK, UbootSteps, LinuxSteps, ImageSteps, CardSteps,
        At, Then, HalfWay, imageVars, nodeVars, treeVars
<1>1. BuildTypeOK' /\ MarkersTellTruth'
  BY DEF Install, MarkersTellTruth
<1>2. UbootInv' /\ LinuxInv' /\ ImageInv'
  BY DEF Install, UbootInv, LinuxInv, ImageInv, NodeMarker
<1>3. step = "install" /\ node \in Node /\ BoardOf(node) \in Board
  BY DEF Install
<1>4. loader[BoardOf(node)] = "good" /\ image[BoardOf(node)] = "good"
  BY <1>3 DEF UbootInv, ImageInv, MarkersTellTruth, NodeMarker
<1> DEFINE e == IF node = Head THEN Blank ELSE env
           r == IF node = Head THEN "good" ELSE "none"
           new == [e EXCEPT !.loader = "good", !.root = r]
<1>5. e \in DiskType /\ new \in DiskType
  BY DEF CardTypeOK, DiskType, Blank
<1>6. new.loader = "good" /\ Fits(new, node)
  BY <1>3, <1>5 DEF Fits, CardInv, DiskType
<1>7. \/ step' = "90" /\ disk' = [disk EXCEPT ![node] = new]
      \/ step' = "none" /\ disk' \in {disk, [disk EXCEPT ![node].loader = "part"]}
  BY <1>3, <1>4 DEF Install
<1>8. UNCHANGED <<node, env, card>>
  BY DEF Install
<1>9. CardTypeOK'
  <2>1. [disk[node] EXCEPT !.loader = "part"] \in DiskType
    BY <1>3 DEF CardTypeOK, DiskType
  <2> QED BY <2>1, <1>3, <1>5, <1>7, <1>8 DEF CardTypeOK
<1>10. CardFitsNode' /\ CardInv'
  BY <1>3, <1>6, <1>7, <1>8 DEF CardTypeOK, CardFitsNode, CardInv, Fits
<1> QED BY <1>1, <1>2, <1>9, <1>10

LEMMA DeployStep ==
  ASSUME BuildInv, Deploy
  PROVE  BuildInv'
<1> USE NodeFacts DEF BuildInv, BuildTypeOK, UbootSteps, LinuxSteps, ImageSteps, CardSteps,
        At, Then, HalfWay, imageVars, nodeVars, treeVars
<1>1. BuildTypeOK' /\ MarkersTellTruth'
  BY DEF Deploy, MarkersTellTruth
<1>2. UbootInv' /\ LinuxInv' /\ ImageInv'
  BY DEF Deploy, UbootInv, LinuxInv, ImageInv
<1>3. /\ step = "90" /\ step' = "none" /\ node \in Node /\ UNCHANGED <<node, env, disk>>
      /\ \/ card' = [card EXCEPT ![node] = disk[node]]
         \/ card' = [card EXCEPT ![node].loader = "part"]
  BY DEF Deploy
<1>4. CardTypeOK'
  <2>1. [card[node] EXCEPT !.loader = "part"] \in DiskType
    BY <1>3 DEF CardTypeOK, DiskType
  <2> QED BY <2>1, <1>3 DEF CardTypeOK
<1>5. CardFitsNode' /\ CardInv'
  BY <1>3 DEF CardTypeOK, CardFitsNode, CardInv, Fits, DiskType
<1> QED BY <1>1, <1>2, <1>4, <1>5

LEMMA NextBuildInv == BuildInv /\ [BuildNext]_buildVars => BuildInv'
<1> SUFFICES ASSUME BuildInv, [BuildNext]_buildVars PROVE BuildInv'
  OBVIOUS
<1>1. ASSUME NEW n \in Node, StartRun(n) PROVE BuildInv'
  <2>1. CardTypeOK' /\ CardFitsNode' /\ CardInv'
    BY <1>1 DEF StartRun, BuildInv, CardTypeOK, CardFitsNode, CardInv, nodeVars
  <2>2. BuildTypeOK' /\ MarkersTellTruth'
    BY <1>1 DEF StartRun, BuildInv, BuildTypeOK, MarkersTellTruth, treeVars, imageVars
  <2>3. UbootInv' /\ LinuxInv' /\ ImageInv'
    BY <1>1 DEF StartRun, UbootInv, LinuxInv, ImageInv, UbootSteps, LinuxSteps, ImageSteps, CardSteps
  <2> QED BY <2>1, <2>2, <2>3 DEF BuildInv
<1>2. CASE UNCHANGED buildVars
  <2>1. CardTypeOK' /\ CardFitsNode' /\ CardInv'
    BY <1>2 DEF buildVars, nodeVars, BuildInv, CardTypeOK, CardFitsNode, CardInv
  <2>2. BuildTypeOK' /\ MarkersTellTruth'
    BY <1>2 DEF buildVars, treeVars, imageVars, BuildInv, BuildTypeOK, MarkersTellTruth
  <2>3. UbootInv' /\ LinuxInv'
    BY <1>2 DEF buildVars, treeVars, imageVars, BuildInv, UbootInv, LinuxInv
  <2>4. ImageInv'
    BY <1>2 DEF buildVars, imageVars, BuildInv, ImageInv, NodeMarker
  <2> QED BY <2>1, <2>2, <2>3, <2>4 DEF BuildInv
<1> QED
  BY <1>1, <1>2, UbootStep, FirmwareStep, LinuxStep, RootfsStep, EnvStep, InstallStep, DeployStep
  DEF BuildNext

LEMMA BuildInvariant == BuildSpec => []BuildInv
<1>1. BuildInit => BuildInv
  BY InitBuildInv
<1>2. BuildInv /\ [BuildNext]_buildVars => BuildInv'
  BY NextBuildInv
<1> QED BY <1>1, <1>2, PTL DEF BuildSpec

\* However often and wherever a build is interrupted, a marker stands for work that is
\* done and complete.
THEOREM MarkersAreTrue == BuildSpec => []MarkersTellTruth
<1>1. BuildInv => MarkersTellTruth
  BY DEF BuildInv
<1> QED BY <1>1, BuildInvariant, PTL

\* Whatever cards were made before, a card that is complete carries the loader of its
\* board and the root or the addresses of its node.
THEOREM CardsFit == BuildSpec => []CardFitsNode
<1>1. BuildInv => CardFitsNode
  BY DEF BuildInv
<1> QED BY <1>1, BuildInvariant, PTL

-------------------------------------------------------------------------------
(* The flashing of the nodes' root file system.                                *)

\* Where the server and the disk are at each command.
FlashInv ==
  /\ fArg \in {"flash", "start", "stop"} /\ inTrap \in BOOLEAN /\ fFailed \in BOOLEAN
  /\ fAt \in {"end", "stop nfs", "umount", "open", "zcat", "sync", "mount", "start nfs"}
  /\ fAt \in {"stop nfs", "umount"} => ~inTrap /\ fArg # "start"
  /\ fAt \in {"umount", "open", "zcat", "sync"} => ~nfs /\ ~inTrap
  /\ fAt \in {"open", "zcat", "sync"} => fArg = "flash"
  /\ fAt = "sync" => emmc = "root"
  /\ fAt \in {"mount", "start nfs"} /\ ~inTrap => fArg # "stop"
  /\ fAt \in {"mount", "start nfs"} /\ ~inTrap /\ fArg = "flash" => emmc = "root"
  /\ fAt = "start nfs" => mounted
  /\ fAt = "end" => inTrap \/ fFailed \/ fArg # "flash" \/ emmc = "root"
  /\ fAt # "end" => ~fFailed

FlashIInv == FlashInv /\ FlashEndsServing

LEMMA InitFlashInv == FlashInit => FlashIInv
BY DEF FlashInit, FlashIInv, FlashInv, FlashEndsServing

LEMMA NextFlashInv == FlashIInv /\ [FlashNext]_flashVars => FlashIInv'
<1> SUFFICES ASSUME FlashIInv, [FlashNext]_flashVars PROVE FlashIInv'
  OBVIOUS
<1> USE DEF FlashIInv, FlashInv, FlashEndsServing, Command, GoOn, Fails, Trapped
<1>1. ASSUME NEW arg \in {"flash", "start", "stop"}, RunFlash(arg) PROVE FlashIInv'
  BY <1>1 DEF RunFlash
<1>2. CASE StopNfs \/ Umount
  <2>1. CASE StopNfs
    <3>1. fAt = "stop nfs" /\ UNCHANGED <<fArg, fSignal, mounted, emmc>>
      BY <2>1 DEF StopNfs
    <3>2. CASE GoOn("umount") /\ nfs' = FALSE
      BY <3>1, <3>2
    <3>3. CASE Fails /\ UNCHANGED nfs
      <4>1. CASE Trapped /\ fAt' = "mount" /\ inTrap' = TRUE /\ UNCHANGED fFailed
        BY <3>1, <3>3, <4>1
      <4>2. CASE fAt' = "end" /\ fFailed' = TRUE /\ UNCHANGED inTrap
        BY <3>1, <3>3, <4>2
      <4> QED BY <3>3, <4>1, <4>2
    <3> QED BY <2>1, <3>2, <3>3 DEF StopNfs
  <2>2. CASE Umount
    BY <2>2 DEF Umount
  <2> QED BY <1>2, <2>1, <2>2
<1>3. CASE OpenDisk \/ Zcat
  <2>1. CASE OpenDisk
    BY <2>1 DEF OpenDisk
  <2>2. CASE Zcat
    <3>1. fAt = "zcat" /\ UNCHANGED <<fArg, fSignal, nfs, mounted>>
      BY <2>2 DEF Zcat
    <3>2. CASE GoOn("sync") /\ emmc' = "root"
      BY <3>1, <3>2
    <3>3. CASE Fails /\ UNCHANGED emmc
      <4>1. CASE Trapped /\ fAt' = "mount" /\ inTrap' = TRUE /\ UNCHANGED fFailed
        BY <3>1, <3>3, <4>1
      <4>2. CASE fAt' = "end" /\ fFailed' = TRUE /\ UNCHANGED inTrap
        BY <3>1, <3>3, <4>2
      <4> QED BY <3>3, <4>1, <4>2
    <3> QED BY <2>2, <3>2, <3>3 DEF Zcat
  <2> QED BY <1>3, <2>1, <2>2
<1>4. CASE Sync \/ Mount \/ StartNfs
  BY <1>4 DEF Sync, Mount, StartNfs
<1>5. ASSUME NEW s \in {"INT", "TERM"}, Signal(s) PROVE FlashIInv'
  BY <1>5 DEF Signal
<1>6. CASE Automount
  BY <1>6 DEF Automount
<1>7. CASE UNCHANGED flashVars
  BY <1>7 DEF flashVars
<1> QED BY <1>1, <1>2, <1>3, <1>4, <1>5, <1>6, <1>7 DEF FlashNext

\* Whatever signals come and whichever command fails, no node reads an image that is being
\* written, and a run in which no command failed leaves the server running.
THEOREM FlashServes == FlashSpec => []FlashEndsServing
<1>1. FlashInit => FlashIInv
  BY InitFlashInv
<1>2. FlashIInv /\ [FlashNext]_flashVars => FlashIInv'
  BY NextFlashInv
<1>3. FlashIInv => FlashEndsServing
  BY DEF FlashIInv
<1> QED BY <1>1, <1>2, <1>3, PTL DEF FlashSpec

-------------------------------------------------------------------------------
(* The root of a node.                                                         *)


\* The next commands for which the root is still at rootmnt ...
Before == {"start", "file", "driver", "modprobe", "point rw", "point ro", "tmpfs",
           "upper", "work", "move"}
\* ... has been moved away ...
Away == {"mount", "recover", "moveRo", "moveRw", "fstab", "append"}
\* ... and the layered root is there instead, unless there was a panic.
Layered == {"moveRo", "moveRw", "fstab", "append"}

\* Where the file systems are, by the next command.
Places ==
  /\ pc \in Before => at["root"] = "rootmnt" /\ at["union"] = NotMounted
  /\ pc \in Away => at["root"] # "rootmnt"
  /\ pc \in {"moveRw", "fstab", "append"} => at["root"] = "rootmnt/ro"
  /\ pc \in {"fstab", "append"} => at["tmpfs"] = "rootmnt/rw"
  /\ pc \in Layered /\ panics = 0 => at["union"] = "rootmnt"

\* mount is called without parameters only after a panic, and no panic follows
\* another one.
OnePanic ==
  /\ pc \in {"start", "file", "driver"} => panics = 0 /\ params = ""
  /\ pc \notin {"start", "file", "driver", "exit"} => (panics = 0 <=> params # "")
  /\ pc = "recover" => params # ""

\* What the script has reported by now; on success everything is in its place.
Reported ==
  /\ log = "success" => pc = "exit"
  /\ log = "success" /\ panics = 0 =>
       at["root"] = "rootmnt/ro" /\ at["tmpfs"] = "rootmnt/rw" /\ at["union"] = "rootmnt"
  /\ fstab # "original" => pc \in {"append", "exit"}

\* The inductive invariant.
RootInv ==
  /\ TypeOK /\ Places /\ OnePanic /\ Reported
  /\ BootHasRoot /\ RootUntouched /\ FstabFitsRoot

------------------------------------------------------------------------------

\* The script starts with the root where the initramfs mounts it.
LEMMA InitRootInv == Init => RootInv
<1> SUFFICES ASSUME Init PROVE RootInv
  OBVIOUS
<1>1. at["root"] = "rootmnt" /\ at["union"] = NotMounted
  BY DEF Init, FileSystem
<1>2. at \in [FileSystem -> {NotMounted, "rootmnt", "ro", "rw", "rootmnt/ro", "rootmnt/rw"}]
  BY DEF Init
<1>3. TypeOK
  BY <1>2 DEF Init, TypeOK, Message
<1>4. Places /\ OnePanic /\ Reported
  BY <1>1 DEF Init, Places, OnePanic, Reported, Before, Away, Layered
<1>5. BootHasRoot /\ RootUntouched /\ FstabFitsRoot
  BY <1>1 DEF Init, BootHasRoot, RootUntouched, FstabFitsRoot
<1> QED
  BY <1>3, <1>4, <1>5 DEF RootInv

\* Nothing changes between two commands.
LEMMA StutterRootInv ==
  ASSUME RootInv, UNCHANGED vars
  PROVE  RootInv'
<1>1. TypeOK'
  BY DEF vars, RootInv, TypeOK
<1>2. Places' /\ OnePanic' /\ Reported'
  BY DEF vars, RootInv, Places, OnePanic, Reported
<1>3. BootHasRoot' /\ RootUntouched' /\ FstabFitsRoot'
  BY DEF vars, RootInv, BootHasRoot, RootUntouched, FstabFitsRoot
<1> QED
  BY <1>1, <1>2, <1>3 DEF RootInv

\* The first panic is the only one.
LEMMA FirstPanic ==
  ASSUME NEW next, NEW message, panics = 0, Panic(next, message)
  PROVE  pc' = next /\ log' = message /\ panics' = 1 /\ panics' # 0
  BY DEF Panic

\* A path under rootmnt is in one of the two file systems or in the initramfs.
LEMMA WriteTargets ==
  ASSUME TypeOK, WriteUnderRoot
  PROVE  changed' \subseteq {"root", "tmpfs", "initramfs"}
  BY DEF TypeOK, WriteUnderRoot

\* Each command preserves the invariant, whether it fails or not.
LEMMA NextRootInv == RootInv /\ [Next]_vars => RootInv'
<1> SUFFICES ASSUME RootInv, [Next]_vars
             PROVE  RootInv'
  OBVIOUS
<1> USE DEF RootInv, TypeOK, FileSystem, NotMounted, Message
<1>1. CASE Start
  <2>1. TypeOK'
    BY <1>1 DEF Start, Go, Exit
  <2>2. Places' /\ OnePanic'
    BY <1>1 DEF Start, Go, Exit, Places, OnePanic, Before, Away, Layered
  <2>3. Reported' /\ FstabFitsRoot'
    BY <1>1 DEF Start, Go, Exit, Places, Reported, Before, Away, Layered, FstabFitsRoot
  <2>4. BootHasRoot' /\ RootUntouched'
    BY <1>1 DEF Start, Go, Exit, Places, OnePanic, Before, Away, Layered, BootHasRoot,
       RootUntouched
  <2> QED BY <2>1, <2>2, <2>3, <2>4
<1>2. CASE LookForFile
  <2>1. TypeOK'
    BY <1>2 DEF LookForFile, Go, Exit
  <2>2. Places' /\ OnePanic'
    BY <1>2 DEF LookForFile, Go, Exit, Places, OnePanic, Before, Away, Layered
  <2>3. Reported' /\ FstabFitsRoot'
    BY <1>2 DEF LookForFile, Go, Exit, Places, Reported, Before, Away, Layered, FstabFitsRoot
  <2>4. BootHasRoot' /\ RootUntouched'
    BY <1>2 DEF LookForFile, Go, Exit, Places, OnePanic, Before, Away, Layered,
       BootHasRoot, RootUntouched
  <2> QED BY <2>1, <2>2, <2>3, <2>4
<1>3. CASE SelectDriver
  <2>1. CASE UNCHANGED panics /\ params' \in {"overlay", "aufs"} /\ UNCHANGED log
    <3>1. pc' = "modprobe"
      BY <1>3 DEF SelectDriver, Go, Panic
    <3>2. pc = "driver" /\ driver' \in Driver \cup {"overlay"} /\ UNCHANGED <<at, changed, fstab>>
      BY <1>3 DEF SelectDriver
    <3>3. TypeOK'
      BY <2>1, <3>1, <3>2
    <3> QED
      BY <2>1, <3>1, <3>2, <3>3 DEF Places, OnePanic, Reported, Before, Away, Layered,
         BootHasRoot, RootUntouched, FstabFitsRoot
  <2>2. CASE Panic("modprobe", "error 1") /\ UNCHANGED params
    <3>1. pc = "driver" /\ driver' \in Driver \cup {"overlay"} /\ UNCHANGED <<at, changed, fstab>>
      BY <1>3 DEF SelectDriver
    <3>2. panics = 0 /\ params = ""
      BY <3>1 DEF OnePanic
    <3>3. pc' = "modprobe" /\ log' = "error 1" /\ panics' = 1 /\ panics' # 0 /\ params' = ""
      BY <2>2, <3>2, FirstPanic
    <3>4. TypeOK'
      BY <3>1, <3>3
    <3>5. Places' /\ OnePanic'
      <4>1. at["root"] = "rootmnt" /\ at["union"] = NotMounted
        BY <3>1 DEF Places, Before
      <4>2. Places'
        BY <4>1, <3>1, <3>3 DEF Places, Before, Away, Layered
      <4>3. OnePanic'
        BY <3>3 DEF OnePanic
      <4> QED
        BY <4>2, <4>3
    <3>6. Reported' /\ BootHasRoot' /\ RootUntouched' /\ FstabFitsRoot'
      BY <3>1, <3>3 DEF Reported, BootHasRoot, RootUntouched, FstabFitsRoot
    <3> QED
      BY <3>4, <3>5, <3>6
  <2> QED
    BY <1>3, <2>1, <2>2 DEF SelectDriver, Go
<1>4. CASE Modprobe
  <2>1. TypeOK'
    BY <1>4 DEF Modprobe, Go, Exit
  <2>2. Places' /\ OnePanic'
    BY <1>4 DEF Modprobe, Go, Exit, Places, OnePanic, Before, Away, Layered
  <2>3. Reported' /\ FstabFitsRoot'
    BY <1>4 DEF Modprobe, Go, Exit, Places, Reported, Before, Away, Layered, FstabFitsRoot
  <2>4. BootHasRoot' /\ RootUntouched'
    BY <1>4 DEF Modprobe, Go, Exit, Places, OnePanic, Before, Away, Layered,
       BootHasRoot, RootUntouched
  <2> QED BY <2>1, <2>2, <2>3, <2>4
<1>5. CASE MakeRw
  <2>1. TypeOK'
    BY <1>5 DEF MakeRw, Go, Exit
  <2>2. Places' /\ OnePanic'
    BY <1>5 DEF MakeRw, Go, Exit, Places, OnePanic, Before, Away, Layered
  <2>3. Reported' /\ FstabFitsRoot'
    BY <1>5 DEF MakeRw, Go, Exit, Places, Reported, Before, Away, Layered, FstabFitsRoot
  <2>4. BootHasRoot' /\ RootUntouched'
    BY <1>5 DEF MakeRw, Go, Exit, Places, OnePanic, Before, Away, Layered,
       BootHasRoot, RootUntouched
  <2> QED BY <2>1, <2>2, <2>3, <2>4
<1>6. CASE MakeRo
  <2>1. TypeOK'
    BY <1>6 DEF MakeRo, Go, Exit
  <2>2. Places' /\ OnePanic'
    BY <1>6 DEF MakeRo, Go, Exit, Places, OnePanic, Before, Away, Layered
  <2>3. Reported' /\ FstabFitsRoot'
    BY <1>6 DEF MakeRo, Go, Exit, Places, Reported, Before, Away, Layered, FstabFitsRoot
  <2>4. BootHasRoot' /\ RootUntouched'
    BY <1>6 DEF MakeRo, Go, Exit, Places, OnePanic, Before, Away, Layered,
       BootHasRoot, RootUntouched
  <2> QED BY <2>1, <2>2, <2>3, <2>4
<1>7. CASE MountTmpfs
  <2>1. TypeOK'
    BY <1>7 DEF MountTmpfs, Go, Exit
  <2>2. Places' /\ OnePanic'
    BY <1>7 DEF MountTmpfs, Go, Exit, Places, OnePanic, Before, Away, Layered
  <2>3. Reported' /\ FstabFitsRoot'
    BY <1>7 DEF MountTmpfs, Go, Exit, Places, Reported, Before, Away, Layered, FstabFitsRoot
  <2>4. BootHasRoot' /\ RootUntouched'
    BY <1>7 DEF MountTmpfs, Go, Exit, Places, OnePanic, Before, Away, Layered,
       BootHasRoot, RootUntouched
  <2> QED BY <2>1, <2>2, <2>3, <2>4
<1>8. CASE MakeUpper
  <2>1. TypeOK'
    BY <1>8 DEF MakeUpper, Go, Exit
  <2>2. Places' /\ OnePanic'
    BY <1>8 DEF MakeUpper, Go, Exit, Places, OnePanic, Before, Away, Layered
  <2>3. Reported' /\ FstabFitsRoot'
    BY <1>8 DEF MakeUpper, Go, Exit, Places, Reported, Before, Away, Layered, FstabFitsRoot
  <2>4. BootHasRoot' /\ RootUntouched'
    BY <1>8 DEF MakeUpper, Go, Exit, Places, OnePanic, Before, Away, Layered,
       BootHasRoot, RootUntouched
  <2> QED BY <2>1, <2>2, <2>3, <2>4
<1>9. CASE MakeWork
  <2>1. TypeOK'
    BY <1>9 DEF MakeWork, Go, Exit
  <2>2. Places' /\ OnePanic'
    BY <1>9 DEF MakeWork, Go, Exit, Places, OnePanic, Before, Away, Layered
  <2>3. Reported' /\ FstabFitsRoot'
    BY <1>9 DEF MakeWork, Go, Exit, Places, Reported, Before, Away, Layered, FstabFitsRoot
  <2>4. BootHasRoot' /\ RootUntouched'
    BY <1>9 DEF MakeWork, Go, Exit, Places, OnePanic, Before, Away, Layered,
       BootHasRoot, RootUntouched
  <2> QED BY <2>1, <2>2, <2>3, <2>4
<1>10. CASE MoveRoot
  <2>1. TypeOK'
    BY <1>10 DEF MoveRoot, Go, Exit
  <2>2. Places' /\ OnePanic'
    BY <1>10 DEF MoveRoot, Go, Exit, Places, OnePanic, Before, Away, Layered
  <2>3. Reported' /\ FstabFitsRoot'
    BY <1>10 DEF MoveRoot, Go, Exit, Places, Reported, Before, Away, Layered, FstabFitsRoot
  <2>4. BootHasRoot' /\ RootUntouched'
    BY <1>10 DEF MoveRoot, Go, Exit, Places, OnePanic, Before, Away, Layered,
       BootHasRoot, RootUntouched
  <2> QED BY <2>1, <2>2, <2>3, <2>4
<1>11. CASE MountUnion
  <2>1. TypeOK'
    BY <1>11 DEF MountUnion, Go
  <2>2. Places' /\ OnePanic'
    BY <1>11 DEF MountUnion, Go, Places, OnePanic, Before, Away, Layered
  <2>3. Reported' /\ FstabFitsRoot'
    BY <1>11 DEF MountUnion, Go, Places, Reported, Before, Away, Layered, FstabFitsRoot
  <2>4. BootHasRoot' /\ RootUntouched'
    BY <1>11 DEF MountUnion, Go, Places, OnePanic, Before, Away, Layered, BootHasRoot,
       RootUntouched
  <2> QED BY <2>1, <2>2, <2>3, <2>4
<1>12. CASE Recover
  <2>1. pc = "recover" /\ pc' = "exit" /\ log' # "success" /\ fstab = "original"
    BY <1>12 DEF Recover, Exit, Panic, Reported
  <2>2. panics = 0
    BY <2>1 DEF OnePanic
  <2>3. \/ panics' = 0 /\ at' = [at EXCEPT !["root"] = "rootmnt"] /\ log' = "error 8"
        \/ panics' = 1 /\ panics' # 0 /\ UNCHANGED at /\ log' = "recovery error"
    <3>1. CASE Exit("error 8") /\ at' = [at EXCEPT !["root"] = "rootmnt"] /\ UNCHANGED panics
      BY <2>2, <3>1 DEF Exit
    <3>2. CASE Panic("exit", "recovery error") /\ UNCHANGED at
      BY <2>2, <3>2, FirstPanic
    <3> QED
      BY <1>12, <3>1, <3>2 DEF Recover
  <2>5. fstab' = "original" /\ UNCHANGED <<driver, params, changed>>
    BY <1>12, <2>1 DEF Recover
  <2>6. at' \in [FileSystem -> {NotMounted, "rootmnt", "ro", "rw", "rootmnt/ro", "rootmnt/rw"}]
    BY <2>3
  <2>7. TypeOK'
    BY <2>1, <2>3, <2>5, <2>6
  <2>8. Places' /\ OnePanic' /\ Reported'
    BY <2>1, <2>5 DEF Places, OnePanic, Reported, Before, Away, Layered
  <2>9. BootHasRoot'
    <3>1. CASE panics' = 0 /\ at' = [at EXCEPT !["root"] = "rootmnt"]
      <4>1. at'["root"] = "rootmnt"
        BY <3>1
      <4> QED
        BY <4>1 DEF BootHasRoot
    <3>2. CASE panics' # 0
      BY <3>2 DEF BootHasRoot
    <3> QED
      BY <2>3, <3>1, <3>2
  <2>10. RootUntouched' /\ FstabFitsRoot'
    BY <2>5 DEF RootUntouched, FstabFitsRoot
  <2> QED
    BY <2>7, <2>8, <2>9, <2>10
<1>13. CASE MoveRo
  <2>0. changed' \subseteq {"root", "tmpfs", "initramfs"}
    BY <1>13, WriteTargets DEF MoveRo, MayMakeDirectory
  <2>1. TypeOK'
    BY <1>13, <2>0 DEF MoveRo, Go, Exit
  <2>2. Places' /\ OnePanic'
    BY <1>13 DEF MoveRo, Go, Exit, WriteUnderRoot, MayMakeDirectory, Places, OnePanic,
       Before, Away, Layered
  <2>3. Reported' /\ FstabFitsRoot'
    BY <1>13 DEF MoveRo, Go, Exit, WriteUnderRoot, MayMakeDirectory, Places, Reported,
       Before, Away, Layered, FstabFitsRoot
  <2>4. BootHasRoot' /\ RootUntouched'
    BY <1>13 DEF MoveRo, Go, Exit, WriteUnderRoot, MayMakeDirectory, Places, OnePanic,
       Before, Away, Layered, BootHasRoot, RootUntouched
  <2> QED BY <2>1, <2>2, <2>3, <2>4
<1>14. CASE MoveRw
  <2>0. changed' \subseteq {"root", "tmpfs", "initramfs"}
    BY <1>14, WriteTargets DEF MoveRw, MayMakeDirectory
  <2>1. TypeOK'
    BY <1>14, <2>0 DEF MoveRw, Go, Exit
  <2>2. Places' /\ OnePanic'
    BY <1>14 DEF MoveRw, Go, Exit, WriteUnderRoot, MayMakeDirectory, Places, OnePanic,
       Before, Away, Layered
  <2>3. Reported' /\ FstabFitsRoot'
    BY <1>14 DEF MoveRw, Go, Exit, WriteUnderRoot, MayMakeDirectory, Places, Reported,
       Before, Away, Layered, FstabFitsRoot
  <2>4. BootHasRoot' /\ RootUntouched'
    BY <1>14 DEF MoveRw, Go, Exit, WriteUnderRoot, MayMakeDirectory, Places, OnePanic,
       Before, Away, Layered, BootHasRoot, RootUntouched
  <2> QED BY <2>1, <2>2, <2>3, <2>4
<1>15. CASE WriteFstab
  <2>0. changed' \subseteq {"root", "tmpfs", "initramfs"}
    BY <1>15, WriteTargets DEF WriteFstab
  <2>1. TypeOK'
    BY <1>15, <2>0 DEF WriteFstab
  <2>2. Places' /\ OnePanic'
    BY <1>15 DEF WriteFstab, WriteUnderRoot, Places, OnePanic, Before, Away, Layered
  <2>3. Reported' /\ FstabFitsRoot'
    BY <1>15 DEF WriteFstab, WriteUnderRoot, Places, Reported, Before, Away, Layered,
       FstabFitsRoot
  <2>4. BootHasRoot' /\ RootUntouched'
    BY <1>15 DEF WriteFstab, WriteUnderRoot, Places, OnePanic, Before, Away, Layered,
       BootHasRoot, RootUntouched
  <2> QED BY <2>1, <2>2, <2>3, <2>4
<1>16. CASE AppendFstab
  <2>0. changed' \subseteq {"root", "tmpfs", "initramfs"}
    BY <1>16, WriteTargets DEF AppendFstab
  <2>1. TypeOK'
    BY <1>16, <2>0 DEF AppendFstab, Exit
  <2>2. Places' /\ OnePanic'
    BY <1>16 DEF AppendFstab, Exit, WriteUnderRoot, Places, OnePanic, Before, Away, Layered
  <2>3. Reported' /\ FstabFitsRoot'
    BY <1>16 DEF AppendFstab, Exit, WriteUnderRoot, Places, Reported, Before, Away,
       Layered, FstabFitsRoot
  <2>4. BootHasRoot' /\ RootUntouched'
    BY <1>16 DEF AppendFstab, Exit, WriteUnderRoot, Places, OnePanic, Before, Away,
       Layered, BootHasRoot, RootUntouched
  <2> QED BY <2>1, <2>2, <2>3, <2>4
<1>17. CASE UNCHANGED vars
  BY <1>17, StutterRootInv
<1> QED
  BY <1>1, <1>2, <1>3, <1>4, <1>5, <1>6, <1>7, <1>8, <1>9,
     <1>10, <1>11, <1>12, <1>13, <1>14, <1>15, <1>16, <1>17 DEF Next

\* The script's next command, its mounts and its reports always fit together.
THEOREM RootInvariant == Spec => []RootInv
<1>1. Init => RootInv
  BY InitRootInv
<1>2. RootInv /\ [Next]_vars => RootInv'
  BY NextRootInv
<1> QED BY <1>1, <1>2, PTL DEF Spec

\* The states of the script are as declared; there is at most one panic.
THEOREM TypeCorrect == Spec => []TypeOK
<1>1. RootInv => TypeOK
  BY DEF RootInv
<1> QED BY <1>1, RootInvariant, PTL

\* Whatever command fails, without a panic the node boots with a root.
THEOREM NodeHasRoot == Spec => []BootHasRoot
<1>1. RootInv => BootHasRoot
  BY DEF RootInv
<1> QED BY <1>1, RootInvariant, PTL

\* The script never writes to the root file system that all nodes share, not even
\* after a panic.
THEOREM SharedRootUntouched == Spec => []RootUntouched
<1>1. RootInv => RootUntouched
  BY DEF RootInv
<1> QED BY <1>1, RootInvariant, PTL

\* When success is logged, all three file systems are where they belong.
THEOREM SuccessIsTrue == Spec => []SuccessIsLayered
<1>1. RootInv => SuccessIsLayered
  <2> SUFFICES ASSUME RootInv, log = "success", panics = 0
               PROVE  at = [root |-> "rootmnt/ro", tmpfs |-> "rootmnt/rw", union |-> "rootmnt"]
    BY DEF SuccessIsLayered
  <2>1. at["root"] = "rootmnt/ro" /\ at["tmpfs"] = "rootmnt/rw" /\ at["union"] = "rootmnt"
    BY DEF RootInv, Reported
  <2>2. at = [f \in FileSystem |-> at[f]]
    BY DEF RootInv, TypeOK
  <2> QED BY <2>1, <2>2 DEF FileSystem
<1> QED BY <1>1, RootInvariant, PTL

\* The fstab is rewritten only in a layered root.
THEOREM FstabIsTrue == Spec => []FstabFitsRoot
<1>1. RootInv => FstabFitsRoot
  BY DEF RootInv
<1> QED BY <1>1, RootInvariant, PTL

\* A node that goes on finds its root as the log and the fstab say, and has not
\* touched what it shares.
THEOREM LayeredRootIsTrue == Spec => []LayeredRootHolds
BY SharedRootUntouched, SuccessIsTrue, FstabIsTrue, PTL DEF LayeredRootHolds
===============================================================================
