SPECIFICATION ServicesSpec
CONSTANTS
  i1 = i1
  i2 = i2
  r1 = r1
  r2 = r2
  q1 = q1
  q2 = q2
  Requests = {q1, q2}
  Data = {q2}
  Versions = {1, 2}
  Intros = {i1, i2}
  IntroSets <- MCIntroSets
  RouterOf <- MCRouterOf
  Parallel = 1
  PerPath = 2
  MaxUpdates = 1
  MaxUpsets = 1
  NoIntro = NoIntro
  NoContext = NoContext
  A = A
  B = B
  C = C
  Endpoint = Endpoint
  Redundancy = 1
  MaxVersion = 2
INVARIANTS HooksTracked 
PROPERTIES NoOlderIntroSet LookupResolves
CHECK_DEADLOCK FALSE
