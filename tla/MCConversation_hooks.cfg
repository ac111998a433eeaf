\* A hook that ends with status 2 and does not read its input.
SPECIFICATION TheSpec
CONSTANTS
  Tools <- TwoTools
  Requirements <- TwoRequirements
  MaxIterations = 2
  PreHooks = 0
  PostHooks = 0
  UsageValues = {1}
  NoUsage = NoUsage
  MaxTurns = 1
  MaxCalls = 1
  Persistent = {}
  CallWishes <- MCWishes
  SettingsWishes <- MCSettings
  Machines <- MCMachines
  Invocations <- MCInvocations
  Programs <- MCPrograms
  Capacity = 1
  EnvLimit = 2
INVARIANT
  DenialsAreHeard
CHECK_DEADLOCK FALSE
