SPECIFICATION MCSpec
CONSTANTS
  Users = {u1, u2}
  NoUser = NoUser
  Tasks = {t1, t2, t3}
  FirstTasks = {t1}
  Parts = 2
  Mappers = {u1, u2}
  Validators = {u2}
  Admitted = {u1, u2}
  Admins = {u1}
  Managers = {u1}
  Comments = {FALSE}
  MaxRows = 6
SYMMETRY Symmetry
INVARIANTS BulkInv CountersAfterRestarts
CHECK_DEADLOCK FALSE
