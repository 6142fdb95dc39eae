\* Three routes of ten patterns and three methods, then requests of seven paths.
SPECIFICATION RouterSpec
CONSTANTS
  Patterns <- MCPatterns
  Paths <- MCPaths
  Params <- MCParams
  MaxRoutes = 3
INVARIANTS
  RouteFound
  ParamsRight
  StaticFirst
  AllowRight
