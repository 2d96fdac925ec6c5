CONSTANTS
  Watchers = {u1}
  Targets = {t1, t2}
  Verdicts = {v0, v1}
  NoVerdict = NoVerdict
  Absent = Absent
  WatchStores = {"rows", "hash"}
  MaxWatchTrouble = 1
  Msgs = {m1, m2}
  RowStores = {"sqlite", "postgres", "mongo"}
  MaxEdits = 1
  ReadStatus = 1
  MaxCalls = 1
  MaxBatch = 2
  MaxBuffer = 2
  MaxMsgTrouble = 2
  LevelStores = {"sqlite", "server", "redis"}
  Awards = {a1, a2}
  Award = 8
  BaseThreshold = 4
  Grace = 1
  MaxWeek = 4
  MaxXpTrouble = 1
  EventStores = {"sqlite", "postgres", "mongo", "redis"}
  Contacts = {c1, c2}
  LabelIds = {l1}
  Lids = {d1, d2}
  Chats = {k1}
  MaxViews = 3
  None = None
  Presences = {available, unavailable}
  MaxEvents = 3
  MaxEventTrouble = 1
SPECIFICATION RecordsSpec
INVARIANTS
  WatchInv
  RowsInv
  LevelingInv
  EventRowsInv
PROPERTIES
  VerdictsAreSeen
  RowsLand
