CONSTANTS
  Cmds = {c1}
  WindowMinutes = 2
  MinInvocations = 2
  RateNum = 1
  RateDen = 2
  MaxMinute = 4
  MaxRuns = 5
  CostRule = CostRule
  DecayRule = DecayRule
  CooldownMinutes = 2
  MaxRuleMinute = 4
  MaxDecayFailures = 2
  MaxSweeps = 2
  MaxLines = 4
  MaxTgTrouble = 2
  Senders = {j1}
  Threshold = 3
  FailureWindow = 2
  RecoveryCooldown = 4
  MaxTick = 8
  MaxDecrypt = 2
  JournalStores = {"sqlite", "postgres", "mongo", "redis"}
  Whos = {w1}
  Whats = {x1, x2}
  NoEntity = NoEntity
  LogCap = 2
  SideCap = 1
  Slack = 1
  Retention = 1
  MaxEntries = 3
  MaxDay = 2
  MaxPrunes = 1
  MaxJournalTrouble = 1
SPECIFICATION MonitoringSpec
INVARIANTS
  RateIsRight
  BridgeInv
  JournalInv
PROPERTIES
  RulesKeepCooldown
  ResetsAreDue
  LinesEnd
