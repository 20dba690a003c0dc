\* Ring of four slots; enough arrivals to fill it, overflow it and wrap both indexes.
CONSTANTS
  Byte = {0, 1}
  RxSize = 4
  UdrDepth = 1
  ParityError = {FALSE, TRUE}
  MaxArrivals = 6
SPECIFICATION Spec
INVARIANTS AvailableIsLowerBound
PROPERTY FifoSpec
