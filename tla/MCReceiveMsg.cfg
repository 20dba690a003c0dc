\* Two messages of three data bytes: a message cut short and the one after it,
\* in both modes; any data byte may be lost, and the device restarts once.
\* Serial holds them all: that it never is full is the subject of CofferLed.
CONSTANTS
  MsgLen = 3
  HostMode = {1, 2}
  Data = {0, 100}
  Capacity = 8
  Lossy = {"data"}
  MaxSent = 2
  MaxResets = 1
SPECIFICATION Spec
INVARIANT NotPassedOver
PROPERTIES ChannelSpec HandedOn
CHECK_DEADLOCK FALSE
