\* The project loop and the metrics loop of a hub.
SPECIFICATION MCSpec
CONSTANTS
  safety = safety
  concise = concise
  sonnet = sonnet
  haiku = haiku
  judge = judge
  chat = chat
  rca = rca
  None = None
  NoValue = NoValue
  Names = {safety, concise}
  Definitions <- MCDefinitions
  Catalogs <- MCCatalogs
  UserEvaluators <- MCUserEvaluators
  PageSize = 1
  MaxRestarts = 1
  MaxPauses = 1
  MaxLost = 1
  Agents = {1, 2}
  Objects = {judge}
  Plans <- MCPlans
  Windows = {1, 2}
  Traces <- MCTraces
  Values = {0, 1}
  ChunkSize = 1
INVARIANTS
  DuplicatesComeFromLostWrites
  VersionsHaveCauses
  SuccessMeansPublished
  CountsAreReal
  GaugesShowOnePass
PROPERTY
  EventuallyPublished
