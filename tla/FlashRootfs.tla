------------------------------ MODULE FlashRootfs -----------------------------
(***************************************************************************)
(* flash-m4-rootfs.sh on the head node: the NFS server is stopped, the     *)
(* image goes from stdin to the eMMC that holds the root file system of    *)
(* the compute nodes, and the server is started again.  INT and TERM are   *)
(* trapped: the shell runs the trap when the command that is running has   *)
(* ended, and a trap that has started the server again ends the script.    *)
(* Under set -e any command that fails ends it as well.  Somebody may run  *)
(* it again.                                                               *)
(***************************************************************************)

VARIABLES
  fAt,         \* the next command, "end" when no run goes on
  fArg,        \* flash, start or stop
  fSignal,     \* the signal that has come to this run, or "none"
  inTrap,      \* is it in the trap of the signal?
  fFailed,     \* has a command failed and ended the run?
  nfs,         \* does the NFS server run?
  mounted,     \* is the eMMC mounted?
  emmc         \* what is on it: "root", "half" while or after half of an image was written

flashVars == <<fAt, fArg, fSignal, inTrap, fFailed, nfs, mounted, emmc>>

FlashInit ==
  /\ fAt = "end" /\ fArg = "start" /\ fSignal = "none" /\ inTrap = FALSE /\ fFailed = FALSE
  /\ nfs = TRUE /\ mounted = TRUE /\ emmc = "root"

\* The server as init(1) has brought it up; the script without an argument flashes.
RunFlash(arg) ==
  /\ fAt = "end" /\ fAt' = (IF arg = "start" THEN "mount" ELSE "stop nfs")
  /\ fArg' = arg /\ fSignal' = "none" /\ inTrap' = FALSE /\ fFailed' = FALSE
  /\ UNCHANGED <<nfs, mounted, emmc>>

\* A command ends: the trap comes first, if there is a signal.
Command(c) == fAt = c /\ UNCHANGED <<fArg, fSignal>>
Trapped == fSignal # "none" /\ ~inTrap
GoOn(c) ==
  IF Trapped THEN fAt' = "mount" /\ inTrap' = TRUE /\ UNCHANGED fFailed
  ELSE fAt' = c /\ UNCHANGED <<inTrap, fFailed>>
\* Shells differ in what they look at first after a command that failed.
Fails ==
  \/ Trapped /\ fAt' = "mount" /\ inTrap' = TRUE /\ UNCHANGED fFailed
  \/ fAt' = "end" /\ fFailed' = TRUE /\ UNCHANGED inTrap

StopNfs ==
  /\ Command("stop nfs")
  /\ \/ GoOn("umount") /\ nfs' = FALSE
     \/ Fails /\ UNCHANGED nfs
  /\ UNCHANGED <<mounted, emmc>>

\* || true
Umount ==
  /\ Command("umount") /\ GoOn(IF fArg = "stop" THEN "end" ELSE "open")
  /\ mounted' \in {FALSE, mounted}
  /\ UNCHANGED <<nfs, emmc>>

\* A version that does not look at the result.
ZcatUnchecked ==
  /\ Command("zcat")
  /\ GoOn("sync") /\ emmc' \in {"root", "half"}
  /\ UNCHANGED <<nfs, mounted>>

\* zcat writes, and comes to the end of the image or fails.
OpenDisk ==
  /\ Command("open") /\ fAt' = "zcat" /\ emmc' = "half"
  /\ UNCHANGED <<inTrap, fFailed, nfs, mounted>>

Zcat ==
  /\ Command("zcat")
  /\ \/ GoOn("sync") /\ emmc' = "root"
     \/ Fails /\ UNCHANGED emmc
  /\ UNCHANGED <<nfs, mounted>>

Sync ==
  /\ Command("sync") /\ (GoOn("mount") \/ Fails)
  /\ UNCHANGED <<nfs, mounted, emmc>>

\* mount fails for what is mounted already, and may fail for other reasons.
Mount ==
  /\ Command("mount")
  /\ \/ ~mounted /\ GoOn("start nfs") /\ mounted' = TRUE
     \/ Fails /\ UNCHANGED mounted
  /\ UNCHANGED <<nfs, emmc>>

StartNfs ==
  /\ Command("start nfs")
  /\ \/ GoOn("end") /\ nfs' = TRUE
     \/ Fails /\ UNCHANGED nfs
  /\ UNCHANGED <<mounted, emmc>>

\* One signal for each run.
Signal(s) ==
  /\ fAt # "end" /\ fSignal = "none" /\ fSignal' = s
  /\ UNCHANGED <<fAt, fArg, inTrap, fFailed, nfs, mounted, emmc>>

\* x-systemd.automount: somebody looks at the directory, which is shared over samba too.
Automount ==
  /\ ~mounted /\ mounted' = TRUE
  /\ UNCHANGED <<fAt, fArg, fSignal, inTrap, fFailed, nfs, emmc>>

FlashNext ==
  \/ \E arg \in {"flash", "start", "stop"} : RunFlash(arg)
  \/ StopNfs \/ Umount \/ OpenDisk \/ Zcat \/ Sync \/ Mount \/ StartNfs
  \/ \E s \in {"INT", "TERM"} : Signal(s)
  \/ Automount

FlashSpec == FlashInit /\ [][FlashNext]_flashVars

-------------------------------------------------------------------------------
\* The nodes read no image that is being written, whatever signals come and whatever runs
\* were there before; and a run to flash or to start that ends without a command that
\* failed leaves the server running on a mounted disk, with a whole image unless it was
\* interrupted.
FlashEndsServing ==
  /\ fAt = "zcat" => ~nfs
  /\ fAt = "end" /\ ~fFailed /\ (fArg # "stop" \/ inTrap) => nfs /\ mounted
  /\ fAt = "end" /\ ~fFailed /\ fArg = "flash" /\ ~inTrap => emmc = "root"
===============================================================================
