SPECIFICATION BackOfficeSpec
CONSTANTS
  t1 = t1
  t2 = t2
  Null = Null
  Tasks = {t1, t2}
  KeptApart <- Apart
  Days = {1, 2, 3}
  Periods <- SomePeriods
  Promotions = {1, 2}
  Names = {"spa", "bar"}
  Services = {1, 2}
  Users = {1, 2, 3, 4, 5}
  Emails = {"guest"}
  GivenRoles = {"Accountant"}
  Features = {1, 2}
  MaxGuests = 2
  MaxCrashes = 2
  HotelRooms = {1, 2, 3}
  Kinds = {1, 2}
  Labels = {"A", "B"}
  Lists <- RoomLists
CHECK_DEADLOCK FALSE
INVARIANTS
  BackOfficeType
  OnePromotionPerDay
  SeededBeforeServing
PROPERTIES
  RemovedStaysRemoved
  ListBecomesRooms
  OnlyItsOwnColumns
  EventuallyServes
