\* parse ends, with a tree or an exception; nothing follows.
CONSTANTS
  Sources <- MCSources
SPECIFICATION FairSpec
CHECK_DEADLOCK FALSE
INVARIANTS
  AcceptedTreesFit
  AcceptedBracketsNest
  AcceptedTreesKeepTokens
PROPERTY ParseEnds
