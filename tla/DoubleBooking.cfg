SPECIFICATION Spec
CONSTANTS
  r1 = r1
  r2 = r2
  s1 = s1
  s2 = s2
  u1 = u1
  Rooms = {r1}
  RoomTypes = {"single"}
  TypeOf <- OneType
  Stays <- ApartStays
  ResponseCodes = {}
  Usages = {}
  MaxBookings = 3
  MaxQuantity = 1
  MaxWalkIns = 0
  MaxServiceBills = 0
  Slots = {s1}
  Payments = {"Cash"}
  Faults = FALSE
  Exclusive = {}
CHECK_DEADLOCK FALSE
INVARIANT
  NoDoubleBooking
