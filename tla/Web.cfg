SPECIFICATION WebSpec
CONSTANTS
  Rooms = {"a", "b"}
  PersonalTokens = {"t"}
  ReceiveAll = TRUE
  MaxSockets = 3
  MaxFrames = 4
  Chats = {"a", "b"}
  Slots = {1, 2}
  MaxAsked = 3
PROPERTIES
  ChatPromise
  SignInPromise
CHECK_DEADLOCK FALSE
