SPECIFICATION Spec
CONSTANTS
  Calls = {c1, c2, c3}
  MaxConn = 3
  Faults = {"split", "die"}
PROPERTIES
  AnsweredWhenReceived
CHECK_DEADLOCK FALSE
