SPECIFICATION Spec
CONSTANTS
  Ids = {i1, i2}
  Kinds = {"once"}
  Flags = {TRUE, FALSE}
  Defs = {d1}
  StarterDefs = {}
  ReplyDefs = {}
  RunTimes = {r1}
  Callers = {c1}
  Slots = {}
  Sweep = sweep
  Faults = {}
PROPERTIES
  NothingFiresWhilePaused
