SPECIFICATION StoreSpec
CONSTANTS
  Node <- MCNode
  IdSpace = 8
  First = 1
  None = None
  MaxLost = 0
  MaxCopied = 0
  Member <- MCMember
  Client <- MCClient
  Tid <- MCTids
  Request <- MCRequest
  Key <- MCKey
  NoKey = ""
  c1 = c1
  c2 = c2
  Hash <- MCHash
  Value <- MCValue
  Empty = ""
  Absent = Absent
  Size <- MCSize
  Cut = "cut"
  NoReply = NoReply
CHECK_DEADLOCK FALSE
INVARIANT StrangersPanic
