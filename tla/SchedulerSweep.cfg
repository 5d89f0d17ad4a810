SPECIFICATION FairSpec
CONSTANTS
  Ids = {i1, i2}
  Kinds = {"once"}
  Flags = {TRUE, FALSE}
  Defs = {d1}
  StarterDefs = {}
  ReplyDefs = {d1}
  RunTimes = {r1}
  Callers = {c1}
  Slots = {}
  Sweep = sweep
  Faults = {"invoke"}
PROPERTIES
  SweepPromise
