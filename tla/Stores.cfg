SPECIFICATION StoresSpec
CONSTANTS
  Folders = {f1}
  MaxUid = 3
  Crawls = {k1, k2}
  BatchSize = 2
  Limit = 1
  Options = {"full", "since", "folder"}
  Ops = {"stop", "clear", "reindex"}
  Faults = {"connect", "imap", "embed", "reset", "crash"}
  MaxUpsets = 2
  Mailbox <- MCMailbox
  WithId = {1, 2, 3}
  MailFolders = {"in", "old"}
  Scores <- MCScores
  MaxCandidates = 3
  PageSize = 1
  MaxMoves = 2
  MaxLength = 5
  Chars = {"w", " ", "n", "q", "f"}
  Sizes = {1, 3, 4}
  Overlaps = {0, 1, 5}
  Personal = {"m", "n"}
  Tokens = {"t", "u"}
  MaxPieces = 2
  MaxPerMemory = 1
  TopK = 1
  Chats = {"chat"}
  MaxGrants = 3
  Calls = {c1, c2}
  Imaps <- MCImaps
INVARIANTS
  CrawlCorrect
  NothingSkipped
  SearchCorrect
  ChunksCorrect
  TokenOpens
  BestAreShown
  LifeCorrect
PROPERTIES
  StoresGoOn
  GrantsPromise
CHECK_DEADLOCK FALSE
