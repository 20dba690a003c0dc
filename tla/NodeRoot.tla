------------------------------- MODULE NodeRoot -------------------------------
(***************************************************************************)
(* A compute node has its root file system on the head node, shared with   *)
(* all others.  The script root-ro, which the initramfs runs after it has  *)
(* mounted it, puts a file system in memory over it, so that each node     *)
(* writes into its own.  The script has no set -e: it looks at the result  *)
(* of (almost) every command itself, and every command may fail.           *)
(***************************************************************************)
EXTENDS Naturals

CONSTANTS
  Driver,    \* values of root-ro-driver= on the command line, "" if it is not there
  Modules    \* drivers that modprobe may find

ASSUME DriverAssumption == Driver \subseteq STRING /\ Modules \subseteq STRING

VARIABLES
  pc,        \* the next command of the script; "exit" in the end
  driver,    \* ROOT_RO_DRIVER
  params,    \* what kind of file system MOUNT_PARMS mounts; "" if it is not set
  at,        \* where each file system is mounted
  changed,   \* the file systems that were written to
  fstab,     \* what /etc/fstab under rootmnt says: "original", "layered" or "damaged"
  log,       \* the message of the script
  panics     \* how often it has called panic

vars == <<pc, driver, params, at, changed, fstab, log, panics>>

FileSystem == {"root", "tmpfs", "union"}
NotMounted == ""

Message == {"none", "disabled by parameter", "disabled by file", "error 1", "error 2",
            "error 3", "error 4", "error 6", "error 6.1", "error 6.2", "error 7", "error 8",
            "error 9", "error 10", "error 11", "recovery error", "success"}

Init ==
  /\ pc = "start"
  /\ driver \in Driver
  /\ params = ""
  /\ at = [f \in FileSystem |-> IF f = "root" THEN "rootmnt" ELSE NotMounted]
  /\ changed = {}
  /\ fstab = "original"
  /\ log = "none"
  /\ panics = 0

\* A command succeeds and the script goes on ...
Go(next) == pc' = next /\ UNCHANGED log

\* ... or it fails, and the script logs an error and exits.
Exit(message) == pc' = "exit" /\ log' = message

\* panic of the initramfs opens a shell on the console.  When the user leaves
\* it, the script goes on.
Panic(next, message) == pc' = next /\ log' = message /\ panics' = panics + 1

\* A path under rootmnt is written: a layered root sends it to the file system in
\* memory, and if nothing is mounted it ends up in the initramfs.
WriteUnderRoot ==
  changed' = changed \cup
    {IF at["union"] = "rootmnt" THEN "tmpfs"
     ELSE IF at["root"] = "rootmnt" THEN "root" ELSE "initramfs"}

\* A mount point is made if it is not there.
MayMakeDirectory == WriteUnderRoot \/ UNCHANGED changed

------------------------------------------------------------------------------

\* The read-only root may be disabled by a boot parameter ...
Start ==
  /\ pc = "start"
  /\ Exit("disabled by parameter") \/ Go("file")
  /\ UNCHANGED <<driver, params, at, changed, fstab, panics>>

\* ... or by a file of the root.
LookForFile ==
  /\ pc = "file"
  /\ Exit("disabled by file") \/ Go("driver")
  /\ UNCHANGED <<driver, params, at, changed, fstab, panics>>

SelectDriver ==
  LET d == IF driver = "" THEN "overlay" ELSE driver IN
  /\ pc = "driver"
  /\ driver' = d
  /\ IF d \in {"overlay", "aufs"}
       THEN Go("modprobe") /\ params' = d /\ UNCHANGED panics
       ELSE Panic("modprobe", "error 1") /\ UNCHANGED params
  /\ UNCHANGED <<at, changed, fstab>>

Modprobe ==
  /\ pc = "modprobe"
  /\ (driver \in Modules /\ Go("point rw")) \/ Exit("error 2")
  /\ UNCHANGED <<driver, params, at, changed, fstab, panics>>

\* The mount points in the initramfs.
MakeRw ==
  /\ pc = "point rw"
  /\ Go("point ro") \/ Exit("error 3")
  /\ UNCHANGED <<driver, params, at, changed, fstab, panics>>

\* The next test asks for the directory ROOT_WORKDIR, which is set nowhere, and
\* always succeeds.
MakeRo ==
  /\ pc = "point ro"
  /\ Go("tmpfs") \/ Exit("error 4")
  /\ UNCHANGED <<driver, params, at, changed, fstab, panics>>

MountTmpfs ==
  /\ pc = "tmpfs"
  /\ \/ Go(IF driver = "overlay" THEN "upper" ELSE "move") /\ at' = [at EXCEPT !["tmpfs"] = "rw"]
     \/ Exit("error 6") /\ UNCHANGED at
  /\ UNCHANGED <<driver, params, changed, fstab, panics>>

MakeUpper ==
  /\ pc = "upper"
  /\ \/ Go("work") /\ changed' = changed \cup {"tmpfs"}
     \/ Exit("error 6.1") /\ UNCHANGED changed
  /\ UNCHANGED <<driver, params, at, fstab, panics>>

MakeWork ==
  /\ pc = "work"
  /\ Go("move") \/ Exit("error 6.2")
  /\ UNCHANGED <<driver, params, at, changed, fstab, panics>>

MoveRoot ==
  /\ pc = "move"
  /\ \/ Go("mount") /\ at' = [at EXCEPT !["root"] = "ro"]
     \/ Exit("error 7") /\ UNCHANGED at
  /\ UNCHANGED <<driver, params, changed, fstab, panics>>

\* Without parameters mount lists what is mounted, and succeeds.
MountUnion ==
  /\ pc = "mount"
  /\ \/ Go("moveRo") /\ at' = IF params = "" THEN at ELSE [at EXCEPT !["union"] = "rootmnt"]
     \/ params # "" /\ Go("recover") /\ UNCHANGED at
  /\ UNCHANGED <<driver, params, changed, fstab, panics>>

\* A version that just exits.
RecoverNot ==
  /\ pc = "recover"
  /\ Exit("error 8")
  /\ UNCHANGED <<driver, params, at, changed, fstab, panics>>

\* The root is moved back; if that fails the user may fix it in a shell.
Recover ==
  /\ pc = "recover"
  /\ \/ Exit("error 8") /\ at' = [at EXCEPT !["root"] = "rootmnt"] /\ UNCHANGED panics
     \/ Panic("exit", "recovery error") /\ UNCHANGED at
  /\ UNCHANGED <<driver, params, changed, fstab>>

\* The directory is made without a look at the result; if it is not there, the
\* mount cannot be moved.
MoveRo ==
  /\ pc = "moveRo"
  /\ MayMakeDirectory
  /\ \/ Go("moveRw") /\ at' = [at EXCEPT !["root"] = "rootmnt/ro"]
     \/ Exit("error 9") /\ UNCHANGED at
  /\ UNCHANGED <<driver, params, fstab, panics>>

\* A version that does not look at the result.
MoveRwUnchecked ==
  /\ pc = "moveRw"
  /\ MayMakeDirectory
  /\ Go("fstab")
  /\ at' = [at EXCEPT !["tmpfs"] = "rootmnt/rw"] \/ UNCHANGED at
  /\ UNCHANGED <<driver, params, fstab, panics>>

MoveRw ==
  /\ pc = "moveRw"
  /\ MayMakeDirectory
  /\ \/ Go("fstab") /\ at' = [at EXCEPT !["tmpfs"] = "rootmnt/rw"]
     \/ Exit("error 10") /\ UNCHANGED at
  /\ UNCHANGED <<driver, params, fstab, panics>>

\* The new entry for the root.  An error is logged and the script goes on.
WriteFstab ==
  /\ pc = "fstab"
  /\ WriteUnderRoot
  /\ pc' = "append"
  /\ \/ fstab' = "layered" /\ UNCHANGED log
     \/ fstab' = "damaged" /\ log' = "error 11"
  /\ UNCHANGED <<driver, params, at, panics>>

\* The other entries of the old fstab, and the end.
AppendFstab ==
  /\ pc = "append"
  /\ WriteUnderRoot
  /\ Exit("success")
  /\ UNCHANGED fstab \/ fstab' = "damaged"
  /\ UNCHANGED <<driver, params, at, panics>>

Next ==
  \/ Start \/ LookForFile \/ SelectDriver \/ Modprobe \/ MakeRw \/ MakeRo
  \/ MountTmpfs \/ MakeUpper \/ MakeWork \/ MoveRoot \/ MountUnion \/ Recover \/ MoveRo \/ MoveRw
  \/ WriteFstab \/ AppendFstab

Spec == Init /\ [][Next]_vars

------------------------------------------------------------------------------
(* Properties.                                                              *)

TypeOK ==
  /\ pc \in {"start", "file", "driver", "modprobe", "point rw", "point ro", "tmpfs",
             "upper", "work", "move", "mount", "recover", "moveRo", "moveRw", "fstab", "append", "exit"}
  /\ driver \in Driver \cup {"overlay"}
  /\ params \in {"", "overlay", "aufs"}
  /\ at \in [FileSystem -> {NotMounted, "rootmnt", "ro", "rw", "rootmnt/ro", "rootmnt/rw"}]
  /\ changed \subseteq {"root", "tmpfs", "initramfs"}
  /\ fstab \in {"original", "layered", "damaged"}
  /\ log \in Message
  /\ panics \in {0, 1}

\* However the script ends, without a panic the boot goes on with the root file
\* system or the layered one at rootmnt.
BootHasRoot ==
  pc = "exit" /\ panics = 0 => \E f \in {"root", "union"} : at[f] = "rootmnt"

\* The notes of the script say that it makes no changes to the root file
\* system, which all nodes share.
RootUntouched == "root" \notin changed

\* Success is logged only if the layered root is complete and both of its parts
\* have been moved to where the running system finds them.
SuccessIsLayered ==
  log = "success" /\ panics = 0 =>
    at = [root |-> "rootmnt/ro", tmpfs |-> "rootmnt/rw", union |-> "rootmnt"]

\* The fstab says that the root is layered only if it is, and is left alone in a
\* root that is not.
FstabFitsRoot ==
  fstab # "original" /\ panics = 0 => at["root"] = "rootmnt/ro" /\ at["union"] = "rootmnt"

\* What a node that logs success and goes on may rely on: its root is layered, its
\* fstab says so, and the file system it shares with the other nodes is untouched.
LayeredRootHolds == RootUntouched /\ SuccessIsLayered /\ FstabFitsRoot

\* A comment says that the script stops if the driver is not supported.
StopsIfUnsupported ==
  driver \notin {"", "overlay", "aufs"} => at["root"] = "rootmnt"
===============================================================================
