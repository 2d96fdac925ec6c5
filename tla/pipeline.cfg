CONSTANTS
  g = g h = h admin = admin member = member
  mute = mute unmute = unmute cmd1 = cmd1 cmd2 = cmd2 other = other
  Messages <- MCMessages
  Chats <- MCChats
  ChatOf <- MCChatOf
  Users <- MCUsers
  SenderOf <- MCSenderOf
  KindOf <- MCKindOf
  Victim = member
  Concurrency = 1
  Wedged = {h}
SPECIFICATION FairSpec
INVARIANTS MuteBindsLaterMessages
PROPERTIES ServesInOrder ChatsProceed
