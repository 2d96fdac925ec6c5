CONSTANTS
  k1 = k1
  k2 = k2
  Keys <- MCKeys
  Requests = {0, 2, 5}
  MinDuration = 1
  MaxDuration = 3
  Horizon = 3
  MuteStores = {"postgres", "mongo", "redis"}
  Mutees <- MCKeys
  Terms = {1, 2}
  LogLength = 2
  MaxEvents = 3
  MaxClock = 1
  GroupStores = {"sqlite", "postgres"}
  Members = {p1}
  MaxSetting = 1
  MaxNotes = 2
  MaxSecond = 1
  MaxGroupTrouble = 1
  Talkers = {h1, h2}
  MemoryTurns = 3
  MaxRounds = 2
  MaxCalls = 1
  MaxHeavy = 1
  Abreast = {1, 2}
  MaxTalks = 4
  MaxClears = 1
  MaxCalled = 2
  MaxTalkTrouble = 1
SPECIFICATION KeepsSpec
INVARIANTS MutesKept MuteRowsInv GroupsInv ConversationInv
SYMMETRY MCSymmetry
