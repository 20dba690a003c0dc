\* Two compute nodes and the head; the supported drivers, a module that is not
\* supported and a driver that is not a module; any command may fail.  The boot ends.
CONSTANTS
  Index = {0, 15}
  Driver = {"", "overlay", "aufs", "ext4", "overlayfs"}
  Modules = {"overlay", "aufs", "ext4"}
SPECIFICATION DeploySpec
INVARIANTS   FlashEndsServing BootHasRoot 
CHECK_DEADLOCK FALSE
