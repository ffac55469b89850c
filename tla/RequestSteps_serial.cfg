SPECIFICATION SerialSpec
CONSTANTS
  Users = {u1, u2}
  NoUser = NoUser
  Tasks = {t1}
  Mappers = {u1, u2}
  Validators = {u1, u2}
  Admitted = {u1, u2}
  Admins = {}
  Comments = {FALSE}
  Workers = {w1}
  MaxRows = 5
  MaxCrashes = 0
PROPERTY WholeRequests
CHECK_DEADLOCK FALSE
