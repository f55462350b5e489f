SPECIFICATION Spec
CONSTANTS
  A = A
  B = B
  C = C
  T = T
  U = U
  Routers = {A, B, C, T}
  Clients = {U}
  PathEnd <- MCPathEnd
  Distance <- MCDistance
  Bootstrap = {A, C}
  Requests <- MCRequests
  Views <- MCViews
  MaxIds <- MCMaxIds
  MaxChores = 1

PROPERTY PathIsToldTheResult
CHECK_DEADLOCK FALSE
