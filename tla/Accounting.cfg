SPECIFICATION AccountingSpec
CONSTANTS
  NoOffer = NoOffer
  Ticks = 2
  MonthDays = 2
  YearMonths = 2
  Years = {0, 1}
  Stays <- SomeStays
  TypeRooms = {"single"}
  Services = {"spa"}
  Prices = {3, 10}
  Quantities = {1, 2}
  Portions = {2}
  Offers <- SomeOffers
  MaxInteger = 40
  MaxBookings = 2
  MaxUses = 2
  MaxBills = 3
  MaxReprices = 1
CHECK_DEADLOCK FALSE
INVARIANTS
  AccountingType
  CountedOnce
  StatsWithinRevenue
PROPERTIES
  CheckoutBalances
  RevenueStands
