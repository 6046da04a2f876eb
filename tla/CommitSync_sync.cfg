\* Two accounts push three commits in two pushes or more; the profile's account
\* changes twice; one statement fails or the process stops once; two rows fit.
CONSTANTS
  Account = {ann, bob}
  Commit = {c1, c2, c3}
  Configured = NoAccount
  NoAccount = NoAccount
  NoTag = NoTag
  Keep = 2
  MaxPushes = 2
  MaxMoves = 2
  MaxTroubles = 1
SPECIFICATION FairSpec
INVARIANT EtagIsEarned
PROPERTY SyncCatchesUp
\* No account is followed and none will be: the loop only looks again.
CHECK_DEADLOCK FALSE
