SPECIFICATION Spec
CONSTANTS
  r1 = r1
  r2 = r2
  s1 = s1
  s2 = s2
  u1 = u1
  Rooms = {r1}
  RoomTypes = {"single"}
  TypeOf <- OneType
  Stays <- AllStays
  ResponseCodes = {}
  Usages = {}
  MaxBookings = 3
  MaxQuantity = 1
  MaxWalkIns = 0
  MaxServiceBills = 1
  Slots = {s1, s2}
  Payments = {"Cash", "Momo"}
  Faults = FALSE
  Exclusive = {"create", "cmsCreate", "checkin"}
CHECK_DEADLOCK FALSE
SYMMETRY SlotSymmetry
INVARIANTS
  LiveRoomsMarked
  OnlyAThirdDoubles
