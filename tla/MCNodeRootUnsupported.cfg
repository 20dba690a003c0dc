\* A driver that is a module of the kernel but not supported.
CONSTANTS
  Driver = {"ext4"}
  Modules = {"ext4"}
SPECIFICATION Spec
INVARIANT StopsIfUnsupported
CHECK_DEADLOCK FALSE
