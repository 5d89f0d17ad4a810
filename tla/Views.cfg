SPECIFICATION ViewsSpec
CONSTANTS
  Ids = {i1}
  Kinds = {"cron"}
  Flags = {TRUE, FALSE}
  Defs = {d1, d2}
  StarterDefs = {}
  ReplyDefs = {}
  RunTimes = {r1}
  Callers = {c1, c2}
  Slots = {s1}
  Sweep = sweep
  Faults = {"save"}
  Executions = {1}
  Starters = {1}
  ToolNames = {"x", "transfer"}
  Transfers = {"transfer"}
  ToolCalls = {1, 2}
  ImapTools = {"a", "b"}
  Handlers = {1, 2}
  MaxPolls = 2
  Estimates = {1, 2}
  Lifetime = 2
  MaxMoments = 3
  MaxResets = 1
  Attachments = {1, 2, 3}
  PageSize = 2
  MaxRequests = 3
  Refs = {"a", "b"}
  Previewed = {"a", "b"}
  TextRefs = {"b"}
  Calls = {1, 2}
  MaxThread = 3
  Memos = {"x", "y"}
  MemoSlots = {1, 2}
SYMMETRY Symmetry
INVARIANTS
  JobTableExact
  ViewsCorrect
  ItemsOfTurn
CHECK_DEADLOCK FALSE
