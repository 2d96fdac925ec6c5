CONSTANTS
  talk = talk
  shot = shot
  user = user
  chat = chat
  Requests <- MCRequests
  Users <- MCUsers
  Chats <- MCChats
  UserOf <- MCUserOf
  ChatOf <- MCChatOf
  Rounds <- MCRounds
  Estimate <- MCEstimate
  Cap = 3
  UserLimit = 2
  ChatLimit = 3
  Store = "local"
  MaxCrashes = 1
SPECIFICATION FairSpec
INVARIANTS CapHeld SpendingInv QuotaHeld
PROPERTIES EveryRequestEnds
