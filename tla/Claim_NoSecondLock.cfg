SPECIFICATION TwoSpec
CONSTANTS
  Users = {u1, u2}
  NoUser = NoUser
  Tasks = {t1}
  Mappers = {u1, u2}
  Validators = {u1}
  Admitted = {u1, u2}
  OtherMappers = {u1, u2}
  OtherValidators = {u2}
  OtherAdmitted = {u1, u2}
  Admins = {}
  Comments = {FALSE}
  MaxRows = 3
PROPERTY NoSecondLock
CHECK_DEADLOCK FALSE
