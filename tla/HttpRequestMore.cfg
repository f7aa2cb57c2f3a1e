\* The same streams: the parser's asserts, the URL's parts and the query.
SPECIFICATION Spec
CONSTANTS
  INT64_MAX = 39
  PortMax = 20
  Inputs <- MCInputs
  Paths <- MCPaths
INVARIANTS ParserAssertsHold UrlAccounted FirstQueryFound
CHECK_DEADLOCK FALSE
