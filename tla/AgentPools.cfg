\* Safety and liveness of the pools and caches of one agent process.
SPECIFICATION FairSpec
CONSTANTS
  alice = alice
  bob = bob
  tokenA = tokenA
  tokenB = tokenB
  c1 = c1
  Workload = Workload
  None = None
  Routes = {chat}
  Requests <- MCRequests
  Pools <- MCPools
  Urls = {u1}
  MaxPools = 1
  MaxAgents = 1
  MaxAge = 1
  TokenLife = 2
INVARIANTS
  
  CallerPoolsAreBounded
  
PROPERTIES
  CallersIsolated
  EventuallyReady
