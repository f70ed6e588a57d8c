SPECIFICATION Spec
CONSTANTS
  r1 = r1
  r2 = r2
  s1 = s1
  s2 = s2
  u1 = u1
  Rooms = {r1, r2}
  RoomTypes = {"single"}
  TypeOf <- OneType
  Stays <- TouchingStays
  ResponseCodes = {"24"}
  Usages = {}
  MaxBookings = 2
  MaxQuantity = 2
  MaxWalkIns = 0
  MaxServiceBills = 1
  Slots = {s1}
  Payments = {"Vnpay"}
  Faults = TRUE
  Exclusive = {}
CHECK_DEADLOCK FALSE
SYMMETRY RoomSymmetry
INVARIANTS
  LinkHasItsRooms
  NoDoubleBooking
  LiveRoomsMarked
