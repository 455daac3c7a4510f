SPECIFICATION Spec
CONSTANTS
  a1 = a1
  a2 = a2
  h1 = h1
  h2 = h2
  ping = ping
  Agents = {a1, a2}
  Conns = {h1, h2, ping}
  NumNodes = 1
  HeadConns = {h1, h2}
  AgentOf <- MCAgentOf
  MaxRegions = 1
  MicroBatches = 2
  MaxCalls = 2
INVARIANTS
  HeadersInStep
CHECK_DEADLOCK FALSE
