SPECIFICATION Spec
CONSTANTS
  SavedAtFirst = {alice}
  TypedAccounts = {bob}
  None = None
  MaxGeneration = 3
  RefreshedIn = {3}
INVARIANTS
  ClientsInv
  CredentialsFollowCommands
  ShownIsCurrent
  UnlocksGetLastChance
PROPERTIES
  BusyEnds
  ShutdownEnds
