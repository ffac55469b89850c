SPECIFICATION MCSpec
CONSTANTS
  Users = {u1, u2}
  NoUser = NoUser
  Tasks = {t1, t2}
  Worked = {t1}
  Mappers = {u1, u2}
  Validators = {u1, u2}
  Admitted = {u1, u2}
  OtherMappers = {u1, u2}
  OtherValidators = {u1, u2}
  OtherAdmitted = {u1, u2}
  Admins = {}
  Comments = {FALSE}
  MaxRows = 10
  ShortRows = 6
  SharedRows = 6
SYMMETRY Symmetry
INVARIANTS TypeOK StatusOnRecord LockOnRecord LockIsReapable InvalidationPending NoSelfValidation ValidatorOnRecord CountersExact
PROPERTIES RecordsKept NoNewIds
CHECK_DEADLOCK FALSE
