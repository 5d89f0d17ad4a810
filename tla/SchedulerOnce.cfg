SPECIFICATION Spec
CONSTANTS
  Ids = {i1}
  Kinds = {"cron", "once"}
  Flags = {TRUE}
  Defs = {d1}
  StarterDefs = {d1}
  ReplyDefs = {}
  RunTimes = {r1}
  Callers = {c1}
  Slots = {s1}
  Sweep = sweep
  Faults = {"save", "starter", "invoke", "crash"}
INVARIANTS
  TypeOK
  RunningIsOwned
