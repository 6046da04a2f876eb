CONSTANTS
  a = a
  b = b
  untitled = untitled
  p1 = p1
  p2 = p2
  Unusable = Unusable
  Last = 2
  MaxAttempts = 2
  MaxRequests = 2
  Server <- Servers
  Stem <- Words
  Typed <- Texts
  Legacy <- Rows
SPECIFICATION FairSpec
INVARIANTS NamesAreSound NamesComeFromTheText
PROPERTIES OldNamesKeepWorking NoLostUpdate EveryRequestEnds
