\* begin() is called while the port is open.  A call that hangs is the end of
\* the behaviour: that is what the property is about.
CONSTANTS
  Byte = {0}
  TxSize = 2
  Reopen = TRUE
SPECIFICATION Spec
PROPERTY WriteReturns
CHECK_DEADLOCK FALSE
