SPECIFICATION FairSpec
CONSTANTS
  Keys = {"k1", "k2"}
  MaxLaunches = 3
  Mems = {m1, m2}
  MemCalls = {c1, c2}
  MaxRevision = 2
  Attached = {"pdf", "png"}
  Extractable = {"pdf"}
  Parallelism = 2
  MaxClears = 1
  Files = {"f1", "f2"}
  AgentsFile = "f1"
  Agents = {"a", "b"}
  Pages = {"p1"}
  MaxEdits = 1
  MaxCalls = 4
  BrowseCalls = {"b1", "b2"}
  MaxBrowsers = 2
  MaxContexts = 2
  MaxUses = 1
  DockerCalls = {"d1", "d2"}
  MaxContainers = 2
  UploadPaths = 2
  MaxFiles = 1
  MaxBytes = 1
  SecretFiles <- MCSecretFiles
  SecretNames = {"a", "b"}
  SaveSlots = {1, 2}
  MaxSaves = 2
  MaxReveals = 2
  ConfigFiles <- MCConfigFiles
  KnownTools = {"t"}
INVARIANTS
  ProcessesCorrect
  MemoriesCorrect
  SessionsCorrect
  AttachmentsCorrect
  DockerCorrect
PROPERTIES
  ConfigurationPromise
  ToolsGoOn
CHECK_DEADLOCK FALSE
