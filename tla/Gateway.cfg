SPECIFICATION FairSpec
CONSTANTS
  MaxUsers = 2
  Passkeys = {k1}
  Challenges = {h1, h2}
  Texts <- MCTexts
  Styles = {"delta", "snapshot"}
  MinOverlap = 2
  MaxCalls = 2
  MaxShown = 6
  MaxMessages = 8
  Preserve = 1
  Window = 5
  Dispatches = {"d1", "d2", "d3"}
  Turns = {t1, t2}
  Delegated = {t1}
  Convs = {"chat"}
  Sources = {"web", "sms"}
  Observers <- MCObservers
  Plains = {"p", "q"}
  Mailboxes = {"m"}
  Transport <- MCTransport
  Offerings <- MCOfferings
  RoutedNames = {"imap_search", "imap_get_thread"}
  AgentEntries <- MCAgentEntries
  Ailing = {"q"}
  MaxInline = 2
  MaxRestarts = 1
  MaxToolCalls = 1
  Guids = {"g", "h"}
  Ttl = 2
  MaxAttachments = 2
  MaxLen = 3
  MaxText = 7
  MaxClock = 4
  MaxIncoming = 3
INVARIANTS
  AccountsCorrect
  StreamCorrect
  PromptCorrect
  RoutingCorrect
  ChannelsCorrect
  TurnsCorrect
PROPERTIES
  TitlesPromise
  StoppedIsSilent
  EveryTurnEnds
CHECK_DEADLOCK FALSE
