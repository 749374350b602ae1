\* The accounts: two users, two calls of the backend, the bot, fptn-passwd and
\* the server, up to two more writes of the file.
SPECIFICATION AccountsSpec
SYMMETRY Symmetry
CONSTANTS
  Users = {u1, u2}
  Workers = {w1, w2}
  Terms = {1}
  Junk = Junk
  None = None
  MaxWrites = 3
  MaxBusy = 2
  MaxAside = 0
INVARIANTS LoginsSeeFile 
PROPERTIES LockedUpdatesKept SpeedAnswersPrompt
