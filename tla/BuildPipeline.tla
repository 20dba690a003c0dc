----------------------------- MODULE BuildPipeline ----------------------------
(***************************************************************************)
(* do-board-sequence.sh makes the SD card of one node: it runs the scripts *)
(* 10-build-u-boot, 20-build-linux, 30-rootfs, 31-install-u-boot and       *)
(* 90-deploy-image, which leave marker files behind for what they need not *)
(* do again.  A step may fail or be interrupted half way; set -e ends the  *)
(* run then, and somebody starts another one, for this or another node.    *)
(* One run goes on at a time.                                              *)
(***************************************************************************)
EXTENDS Naturals

CONSTANTS Index    \* the INDEX of the compute nodes with a card to make

ASSUME IndexAssumption == Index \subseteq 0 .. 15

Board == {"nanopc-t4", "nanopi-m4"}
Head == 255
Node == Index \cup {Head}
BoardOf(n) == IF n = Head THEN "nanopc-t4" ELSE "nanopi-m4"

VARIABLES
  step,        \* the next step of the run, "none" if there is no run
  node,        \* whose card it makes
  marker,      \* the marker files there are
  tree,        \* the source trees u-boot, arm-trusted-firmware and linux
  rebasing,    \* does build/linux have the state of a git am that did not end?
  bl31,        \* is bl31.elf of the firmware in the u-boot tree?
  loader,      \* spl_mmc.img and u-boot.itb of each board
  kernel,      \* build/images/kernel
  rootfs,      \* build/rootfs
  image,       \* the file system in IMAGE of each board
  env,         \* u-boot.env of the nanopi-m4
  disk,        \* UBOOT_IMAGE of each node: loader and environment
  card         \* the card of each node

treeVars == <<tree, rebasing, bl31>>
imageVars == <<loader, kernel, rootfs, image>>
nodeVars == <<env, disk, card>>
buildVars == <<step, node, marker, treeVars, imageVars, nodeVars>>

Marker == {"u-boot/.ready", "arm-trusted-firmware/.ready", "u-boot.ready", "linux/.ready",
           "linux.ready", "rootfs.ready", "nanopc-t4.ready", "nanopi-m4.ready"}

\* What is made of patched sources and complete is "good".
Made(good) == IF good THEN "good" ELSE "bad"
Blank == [loader |-> "none", mac |-> 0, ip |-> 0, root |-> "none"]

BuildInit ==
  /\ step = "none" /\ node = Head /\ marker = {}
  /\ tree = [t \in {"u-boot", "arm-trusted-firmware", "linux"} |-> "none"]
  /\ rebasing = FALSE /\ bl31 = FALSE
  /\ loader = [b \in Board |-> "none"] /\ image = [b \in Board |-> "none"]
  /\ kernel = "none" /\ rootfs = "none"
  /\ env = Blank /\ disk = [n \in Node |-> Blank] /\ card = [n \in Node |-> Blank]

-------------------------------------------------------------------------------
StartRun(n) ==
  /\ step = "none" /\ step' = "10" /\ node' = n
  /\ UNCHANGED <<marker, treeVars, imageVars, nodeVars>>

\* A step of the run that may also end half way: then the run is over.
At(s) == step = s /\ UNCHANGED node
Then(s) == step' = s
HalfWay == step' = "none"

\* A step that is left out because its marker is there.
Skip(s, m, to) ==
  /\ At(s) /\ m \in marker /\ Then(to)
  /\ UNCHANGED <<marker, treeVars, imageVars, nodeVars>>

\* A marker is made, or the run is interrupted before.
Touch(s, m, to) ==
  /\ At(s)
  /\ \/ Then(to) /\ marker' = marker \cup {m}
     \/ HalfWay /\ UNCHANGED marker
  /\ UNCHANGED <<treeVars, imageVars, nodeVars>>

-------------------------------------------------------------------------------
(* 10-build-u-boot.sh                                                      *)

SkipUboot == Skip("10", "u-boot.ready", "20") \/ Skip("clone u-boot", "u-boot/.ready", "clone firmware")
EnterUboot ==
  /\ At("10") /\ "u-boot.ready" \notin marker /\ Then("clone u-boot")
  /\ UNCHANGED <<marker, treeVars, imageVars, nodeVars>>

\* rm -rf takes bl31.elf with it.
CloneUboot ==
  /\ At("clone u-boot") /\ "u-boot/.ready" \notin marker
  /\ bl31' = FALSE
  /\ \/ Then("patch u-boot") /\ tree' = [tree EXCEPT !["u-boot"] = "clone"]
     \/ HalfWay /\ tree' = [tree EXCEPT !["u-boot"] = "part"]
  /\ UNCHANGED <<marker, rebasing, imageVars, nodeVars>>

\* A version without set -e.
PatchUbootUnchecked ==
  /\ At("patch u-boot") /\ Then("mark u-boot")
  /\ \E t \in {"patched", "part"} : tree' = [tree EXCEPT !["u-boot"] = t]
  /\ UNCHANGED <<marker, rebasing, bl31, imageVars, nodeVars>>

PatchUboot ==
  /\ At("patch u-boot")
  /\ \/ Then("mark u-boot") /\ tree' = [tree EXCEPT !["u-boot"] = "patched"]
     \/ HalfWay /\ tree' = [tree EXCEPT !["u-boot"] = "part"]
  /\ UNCHANGED <<marker, rebasing, bl31, imageVars, nodeVars>>

MarkUboot == Touch("mark u-boot", "u-boot/.ready", "clone firmware")

SkipFirmware == Skip("clone firmware", "arm-trusted-firmware/.ready", "make firmware")
CloneFirmware ==
  /\ At("clone firmware") /\ "arm-trusted-firmware/.ready" \notin marker
  /\ \/ Then("mark firmware") /\ tree' = [tree EXCEPT !["arm-trusted-firmware"] = "clone"]
     \/ HalfWay /\ tree' = [tree EXCEPT !["arm-trusted-firmware"] = "part"]
  /\ UNCHANGED <<marker, rebasing, bl31, imageVars, nodeVars>>
MarkFirmware == Touch("mark firmware", "arm-trusted-firmware/.ready", "make firmware")

MakeFirmware ==
  /\ At("make firmware")
  /\ \/ Then("make nanopc-t4") /\ bl31' = (tree["arm-trusted-firmware"] = "clone")
     \/ HalfWay /\ UNCHANGED bl31
  /\ UNCHANGED <<marker, tree, rebasing, imageVars, nodeVars>>

\* build_uboot: the copy of the two files may end after the first one.
MakeLoader(b, from, to) ==
  /\ At(from)
  /\ \/ Then(to) /\ loader' = [loader EXCEPT ![b] = Made(tree["u-boot"] = "patched" /\ bl31)]
     \/ HalfWay /\ loader' \in {loader, [loader EXCEPT ![b] = "part"]}
  /\ UNCHANGED <<marker, treeVars, kernel, rootfs, image, nodeVars>>

MarkLoaders == Touch("mark loaders", "u-boot.ready", "20")

-------------------------------------------------------------------------------
(* 20-build-linux.sh                                                       *)

SkipLinux == Skip("20", "linux.ready", "30") \/ Skip("clone linux", "linux/.ready", "reset linux")
EnterLinux ==
  /\ At("20") /\ "linux.ready" \notin marker /\ Then("clone linux")
  /\ UNCHANGED <<marker, treeVars, imageVars, nodeVars>>

CloneLinux ==
  /\ At("clone linux") /\ "linux/.ready" \notin marker
  /\ rebasing' = FALSE
  /\ \/ Then("mark linux") /\ tree' = [tree EXCEPT !["linux"] = "clone"]
     \/ HalfWay /\ tree' = [tree EXCEPT !["linux"] = "part"]
  /\ UNCHANGED <<marker, bl31, imageVars, nodeVars>>
MarkLinux == Touch("mark linux", "linux/.ready", "reset linux")

ResetLinux ==
  /\ At("reset linux")
  /\ \/ Then("patch linux") /\ tree' = [tree EXCEPT !["linux"] = "clone"]
     \/ HalfWay /\ UNCHANGED tree
  /\ UNCHANGED <<marker, rebasing, bl31, imageVars, nodeVars>>

\* git am refuses to start while there is the state of an earlier one, which git
\* reset does not remove.
PatchLinux ==
  /\ At("patch linux")
  /\ \/ ~rebasing /\ Then("make linux") /\ tree' = [tree EXCEPT !["linux"] = "patched"] /\ UNCHANGED rebasing
     \/ HalfWay /\ ~rebasing /\ tree' = [tree EXCEPT !["linux"] = "part"] /\ rebasing' = TRUE
     \/ HalfWay /\ rebasing /\ UNCHANGED <<tree, rebasing>>
  /\ UNCHANGED <<marker, bl31, imageVars, nodeVars>>

MakeLinux ==
  /\ At("make linux")
  /\ \/ Then("mark kernel") /\ kernel' = Made(tree["linux"] = "patched")
     \/ HalfWay /\ kernel' \in {kernel, "part"}
  /\ UNCHANGED <<marker, treeVars, loader, rootfs, image, nodeVars>>
MarkKernel == Touch("mark kernel", "linux.ready", "30")

-------------------------------------------------------------------------------
(* 30-rootfs.sh                                                            *)

ImageMarker(b) == IF b = "nanopc-t4" THEN "nanopc-t4.ready" ELSE "nanopi-m4.ready"
NodeMarker == ImageMarker(BoardOf(node))
SkipRootfs == Skip("30", NodeMarker, "31") \/ Skip("debootstrap", "rootfs.ready", "fill image")

MakeImage ==
  /\ At("30") /\ NodeMarker \notin marker
  /\ Then("debootstrap") \/ HalfWay
  /\ image' = [image EXCEPT ![BoardOf(node)] = "part"]
  /\ UNCHANGED <<marker, treeVars, loader, kernel, rootfs, nodeVars>>

Debootstrap ==
  /\ At("debootstrap") /\ "rootfs.ready" \notin marker
  /\ \/ Then("mark rootfs") /\ rootfs' = "good"
     \/ HalfWay /\ rootfs' = "part"
  /\ UNCHANGED <<marker, treeVars, loader, kernel, image, nodeVars>>
MarkRootfs == Touch("mark rootfs", "rootfs.ready", "fill image")

\* The root file system, the set-up of the board, the kernel, keys and hosts.
FillImage ==
  /\ At("fill image")
  /\ \/ Then("mark image")
        /\ image' = [image EXCEPT ![BoardOf(node)] = Made(rootfs = "good" /\ kernel = "good")]
     \/ HalfWay /\ UNCHANGED image
  /\ UNCHANGED <<marker, treeVars, loader, kernel, rootfs, nodeVars>>
MarkImage == Touch("mark image", NodeMarker, "31")

-------------------------------------------------------------------------------
(* 31-install-u-boot.sh and 90-deploy-image.sh                             *)

SkipEnv ==
  /\ At("31") /\ node = Head /\ Then("install")
  /\ UNCHANGED <<marker, treeVars, imageVars, nodeVars>>

\* A version that leaves an environment that is there.
WriteEnvOnce ==
  /\ At("31") /\ node # Head /\ Then("install")
  /\ env' = IF env = Blank THEN [Blank EXCEPT !.mac = node, !.ip = node + 100] ELSE env
  /\ disk' = [disk EXCEPT ![node] = Blank]
  /\ UNCHANGED <<marker, treeVars, imageVars, card>>

\* INDEX_HEX, two digits of ethaddr, and INDEX_IP; the empty disk image.
WriteEnv ==
  /\ At("31") /\ node # Head
  /\ \/ Then("install") /\ env' = [Blank EXCEPT !.mac = node, !.ip = node + 100]
                        /\ disk' = [disk EXCEPT ![node] = Blank]
     \/ HalfWay /\ env' \in {env, Blank} /\ UNCHANGED disk
  /\ UNCHANGED <<marker, treeVars, imageVars, card>>

\* The head has no environment, its loader goes into the image of its root.
Install ==
  LET board == BoardOf(node)
      root == IF node = Head THEN image[board] ELSE "none"
      e == IF node = Head THEN Blank ELSE env
  IN /\ At("install")
     /\ \/ Then("90") /\ disk' = [disk EXCEPT ![node] = [e EXCEPT !.loader = loader[board], !.root = root]]
        \/ HalfWay /\ disk' \in {disk, [disk EXCEPT ![node].loader = "part"]}
     /\ UNCHANGED <<marker, treeVars, imageVars, env, card>>

Deploy ==
  /\ At("90") /\ Then("none")
  /\ \/ card' = [card EXCEPT ![node] = disk[node]]
     \/ card' = [card EXCEPT ![node].loader = "part"]
  /\ UNCHANGED <<marker, treeVars, imageVars, env, disk>>

-------------------------------------------------------------------------------
BuildNext ==
  \/ \E n \in Node : StartRun(n)
  \/ SkipUboot \/ EnterUboot \/ CloneUboot \/ PatchUboot \/ MarkUboot
  \/ SkipFirmware \/ CloneFirmware \/ MarkFirmware \/ MakeFirmware
  \/ MakeLoader("nanopc-t4", "make nanopc-t4", "make nanopi-m4")
  \/ MakeLoader("nanopi-m4", "make nanopi-m4", "mark loaders") \/ MarkLoaders
  \/ SkipLinux \/ EnterLinux \/ CloneLinux \/ MarkLinux \/ ResetLinux \/ PatchLinux \/ MakeLinux \/ MarkKernel
  \/ SkipRootfs \/ MakeImage \/ Debootstrap \/ MarkRootfs \/ FillImage \/ MarkImage
  \/ SkipEnv \/ WriteEnv \/ Install \/ Deploy

BuildSpec == BuildInit /\ [][BuildNext]_buildVars

-------------------------------------------------------------------------------
\* However often a run was interrupted and wherever: each marker stands for what is
\* there, complete and with its patches, although most markers outlive the run that
\* made them and what they stand for is made by other steps.
MarkersTellTruth ==
  /\ "u-boot/.ready" \in marker => tree["u-boot"] = "patched"
  /\ "arm-trusted-firmware/.ready" \in marker => tree["arm-trusted-firmware"] = "clone"
  /\ "u-boot.ready" \in marker => \A b \in Board : loader[b] = "good"
  /\ "linux/.ready" \in marker => tree["linux"] # "none"
  /\ "linux.ready" \in marker => kernel = "good"
  /\ "rootfs.ready" \in marker => rootfs = "good"
  /\ \A b \in Board : ImageMarker(b) \in marker => image[b] = "good"

\* dhcp-host of the head: an address for each MAC address.
Plan == [mac \in 0 .. 15 |-> 100 + mac]

\* A card that was written to the end starts: it has the boot loader of its board, the
\* head's has its root, and that of a compute node the MAC address and the address the
\* head expects of this node and of no other, although all of them go through one
\* u-boot.env.
CardFitsNode ==
  \A n \in Node :
    card[n].loader \notin {"none", "part"} =>
      /\ card[n].loader = "good"
      /\ n = Head => card[n].root = "good"
      /\ n # Head => card[n].mac = n /\ card[n].ip = Plan[n]
===============================================================================
