SPECIFICATION FairSpec
CONSTANTS
  r1 = r1
  r2 = r2
  s1 = s1
  s2 = s2
  u1 = u1
  Rooms = {r1}
  RoomTypes = {"single"}
  TypeOf <- OneType
  Stays <- OneStay
  ResponseCodes = {"00", "24"}
  Usages = {}
  MaxBookings = 1
  MaxQuantity = 1
  MaxWalkIns = 0
  MaxServiceBills = 1
  Slots = {s1, s2}
  Payments = {"Vnpay"}
  Faults = FALSE
  Exclusive = {}
CHECK_DEADLOCK FALSE
PROPERTIES
  EveryRequestEnds
  CallbackRecorded
