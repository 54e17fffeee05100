SPECIFICATION FairSpec
CONSTANTS
  Node <- MCNode
  IdSpace = 8
  First = 4
  None = None
  MaxLost = 1
  MaxCopied = 1
CONSTRAINT FewWhenCopied
CHECK_DEADLOCK FALSE
INVARIANT TypeOK
INVARIANT RingWhenQuiet
INVARIANT NeverOwnSuccessor
INVARIANT JoinedWhenQuiet
PROPERTY SuccessorOnlyCloser
PROPERTY BecomesQuiet
