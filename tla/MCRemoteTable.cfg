SPECIFICATION FairSpec
CONSTANTS
  c1 = c1  s1 = s1  a = a  b = b
  Client = {c1}
  Stranger = {s1}
  Key = {a, b}
  NoKey = NoKey
  NoValue = NoValue
  Films <- MCFilms
  Strange <- Strangers
  RETRIES = 3
  Backlog = 4
  MaxKills = 1
INVARIANTS NotFoundAfterDelete FoundAfterSet
PROPERTIES EveryClientEnds
CHECK_DEADLOCK FALSE
