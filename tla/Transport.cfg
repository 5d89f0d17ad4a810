SPECIFICATION TransportSpec
CONSTANTS
  Calls = {1, 2, 3}
  MaxConn = 3
  Faults = {"split", "die", "disconnect"}
  big = "big"
  empty = "empty"
  Uploads = {"big", "empty"}
  Size <- MCSize
  UploadFaults = {"lose", "stop"}
  MaxClicks = 2
  MaxConnections = 2
  MaxLines = 2
  Callers = {"x", "y"}
  Commands = {"p"}
  MaxServers = 2
  MaxRequests = 2
INVARIANTS
  RpcInv
  UploadsCorrect
PROPERTIES
  ImplementsCalls
  ChannelPromise
  EverythingGoes
  ServersPromise
  BridgePromise
CHECK_DEADLOCK FALSE
