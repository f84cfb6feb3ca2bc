SPECIFICATION Spec
CONSTANTS
  MaxPort = 3
  Protocols = {"Link", "Relay"}
  Fresh = 4
  Valid = 8
  Blocks <- MCBlocks
  Documents <- MCDocuments
  Chunk = 2
  FirstPhases = {3}
  MaxHops = 3
  UserPorts = {2}
  Scenarios <- MCScenarios
INVARIANTS RelaysAreTheirOwn PathIsSound ChoiceByWeight FetchedInTime
PROPERTIES BootstrapComplete PathKeepsItsRelays RefreshContinues
CHECK_DEADLOCK FALSE
