\* Two instances of the page after or beside one another, two notes, and people
\* who wait until what they typed is saved before they go elsewhere.
CONSTANTS
  Note = {n1, n2}
  Page = {p1, p2}
  Existing = {n1}
  MaxWords = 2
  Titles = {1}
  MaxTroubles = 2
  MaxVersion = 2
  Patient = TRUE
  Nothing = Nothing
SYMMETRY Symmetry
SPECIFICATION Spec
INVARIANTS TypingIsKept TextStaysInItsNote BufferIsTheNote NothingToRestore
CHECK_DEADLOCK FALSE
