\* Three requests, one fault; people wait for an answer or leave the page.
CHECK_DEADLOCK FALSE
SPECIFICATION Spec
CONSTANTS
  Account = {ann, bob}
  Admin = ann
  Pin = {p1, p2, p3}
  Page <- Pages4
  NoAccount = NoAccount
  NoPin = NoPin
  NoRequest = NoRequest
  MaxSent = 3
  MaxFaults = 1
  InUse <- Places
  Impatient = FALSE
SYMMETRY Symmetry
INVARIANTS CodesWorkOnce OldSessionsEnd FactorHasItsCodes ShownCodesWork
