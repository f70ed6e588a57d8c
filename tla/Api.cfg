SPECIFICATION ApiSpec
CONSTANTS
  ann = ann
  eve = eve
  bob = bob
  c1 = c1
  Nobody = Nobody
  Clients = {c1}
  People = {ann, eve, bob}
  Staff <- SomeStaff
  StaffRoles = {"Accountant", "Receptionist"}
  MaxChanges = 2
  Null = Null
  Bare = 0
  Malformed = Malformed
  DefaultLimit = 2
  MaxLimit = 3
  RowIds = {1, 2, 3, 4}
  RowNames = {1, 2}
  Tables <- SomeTables
  Queries <- SomeQueries
  MaxWrites = 2
CHECK_DEADLOCK FALSE
INVARIANTS
  ApiType
  AnswersTruthful
  NothingMissed
  NothingRepeated
  FilterSound
PROPERTIES
  AccessAsHeld
  OwnRowsOnly
  EveryRequestAnswered
