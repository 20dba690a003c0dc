\* A ring of three slots and two byte values; nothing is bounded: the port is
\* used, closed and opened again for ever.
CONSTANTS
  Byte = {0, 1}
  TxSize = 3
  Reopen = FALSE
SPECIFICATION Spec
PROPERTIES  FlushedMeansSent CallReturns
