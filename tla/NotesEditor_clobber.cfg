\* A draft is restored over a note that another browser has added to.
CONSTANTS
  Note = {n1, n2}
  Page = {p1, p2}
  Existing = {n1}
  MaxWords = 2
  Titles = {}
  MaxTroubles = 2
  MaxVersion = 2
  Patient = TRUE
  Nothing = Nothing
SPECIFICATION Spec
PROPERTY NoSilentClobber
CHECK_DEADLOCK FALSE
