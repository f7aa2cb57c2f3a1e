\* HttpRequest, Service and the URL functions on short streams, cut everywhere.
SPECIFICATION Spec
CONSTANTS
  INT64_MAX = 39
  PortMax = 20
  Inputs <- MCInputs
  Paths <- MCPaths
INVARIANTS SplitIndependent BodyAsAnnounced PipelinedAnswered OpenReplyFramed UrlParsersAgree
CHECK_DEADLOCK FALSE
