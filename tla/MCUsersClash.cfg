\* The backend and the bot must not overwrite each other's changes: refuted.
SPECIFICATION AccountsSpec
SYMMETRY Symmetry
CONSTANTS
  Users = {u1, u2}
  Workers = {w1}
  Terms = {1}
  Junk = Junk
  None = None
  MaxWrites = 4
  MaxBusy = 2
  MaxAside = 0
INVARIANTS NeverClash
