SPECIFICATION StepsSpec
CONSTANTS
  Users = {u1, u2}
  NoUser = NoUser
  Tasks = {t1}
  Mappers = {u1}
  Validators = {u2}
  Admitted = {u1, u2}
  Admins = {}
  Comments = {FALSE}
  Workers = {w1}
  MaxRows = 7
  MaxCrashes = 1
CONSTRAINT OnlyVerdicts
INVARIANT NoSelfValidation
CHECK_DEADLOCK FALSE
