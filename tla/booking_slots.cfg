SPECIFICATION Spec
CONSTANTS
  Users = {"ann", "bob"}
  Visitor = "visitor"
  Calendars = {1, 2, 3}
  Diary <- MCDiary
  Links = {"meetAnn", "meetBob"}
  NoLink = "none"
  Host <- MCHost
  Places <- MCPlaces
  Rules <- MCRules
  MaxSlugs = 2
  Free = 0
  MaxRequests = 3
  Times = {0, 1}
  Sessions <- MCSessions
INVARIANTS NoDoubleBooking   ToldOnce
PROPERTIES BookingIsAtomic RequestsFinish
CHECK_DEADLOCK FALSE
