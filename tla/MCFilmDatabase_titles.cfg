SPECIFICATION Spec
CONSTANTS
  Worker <- MCOne
  Request <- MCRequest
  Key <- MCKey
  Hash <- MCHash
  Body <- MCBody
  INITIAL_SIZE = 3
  MAX_FILMS = 4
  Block <- MCBlock
  NoValue <- MCNoValue
  Idle = Idle
  NoFilm = NoFilm
  NoData = NoData
  NoAnswer = NoAnswer
CHECK_DEADLOCK FALSE
INVARIANT TitlesIndexed
