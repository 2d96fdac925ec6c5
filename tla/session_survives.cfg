CONSTANTS
  MaxBackoff = 3
  Stable = 3
  Grace = 2
  Codes <- MCCodes
  Setups = {"files", "servers"}
  MaxReconnect = 2
SPECIFICATION Spec
INVARIANT SessionSurvivesStop
