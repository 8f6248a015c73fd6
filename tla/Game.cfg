CONSTANTS
  CodeLength = 3
  Base = 3
  Games <- AllGames
  Strange <- StrangeMessages
  MaxStrange = 4
SPECIFICATION FairSpec
INVARIANTS TypeOK IndexInBounds HintIsRight PlayerNeverDropped
PROPERTIES ImplementsMastermind NobodyWaitsForEver WinIsAcknowledged
CHECK_DEADLOCK FALSE
