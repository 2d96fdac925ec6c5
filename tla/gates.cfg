CONSTANTS
  Callers = {s1}
  d1 = d1
  d2 = d2
  Dialogs <- MCDialogs
  CallerOf <- MCCallerOf
  SenderCapacity = 2
  SenderRefill = 1
  BotCapacity = 4
  BotRefill = 1
  BucketTtl = 2
  Cooldown = 1
  CooldownTtl = 3
  Warmup = 2
  WarmupTicks = 3
  MaxPosts = 2
  PostTtl = 2
  Deadline = 2
  MaxClock = 6
  MaxAsked = 2
  Jobs = {j1, j2, j3}
  PoolSlots = {p1, p2}
  MaxRespawns = 1
  MaxPoolTrouble = 1
  SendConcurrency = 1
  MaxPerChat = 2
  Purgers = {u1}
  MaxSends = 4
  MaxSockets = 2
  MaxSendTrouble = 1
SPECIFICATION GatesSpec
INVARIANTS
  GateInv
  PoolInv
  OutboundInv
PROPERTIES
  RunsApart
  EveryJobSettled
