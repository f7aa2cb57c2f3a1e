\* Service::OnMessage on a connection without a context.
SPECIFICATION Spec
CONSTANTS
  INT64_MAX = 39
  PortMax = 20
  Inputs <- MCFreshInputs
  Paths <- MCPaths
INVARIANT FirstMessageServed
CHECK_DEADLOCK FALSE
