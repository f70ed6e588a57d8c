SPECIFICATION FairSpec
CONSTANTS
  r1 = r1
  r2 = r2
  s1 = s1
  s2 = s2
  u1 = u1
  Rooms = {r1}
  RoomTypes = {"single"}
  TypeOf <- OneType
  Stays <- ApartStays
  ResponseCodes = {}
  Usages = {u1}
  MaxBookings = 2
  MaxQuantity = 1
  MaxWalkIns = 0
  MaxServiceBills = 1
  Slots = {s1, s2}
  Payments = {"Cash", "Momo"}
  Faults = FALSE
  Exclusive = {"create", "cmsCreate", "checkin", "addService"}
CHECK_DEADLOCK FALSE
INVARIANT
  RoomFlagExact
PROPERTIES
  CheckoutBillsServices
  CancelledRoomsComeBack
