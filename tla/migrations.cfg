CONSTANTS
  bot = bot
  script = script
  Procs <- MCProcs
  Supervised <- MCSupervised
  Backends = {"sqlite", "postgres", "mongo", "redis"}
  Latest = 3
  Rename = 2
  MaxTrouble = 2
SPECIFICATION FairSpec
INVARIANTS MigrationsInv
PROPERTIES LedgerKept BootCompletes
