\* One handler at a time, through rejections, cancellations and revisions.
SPECIFICATION Spec
CONSTANTS
  buyer = buyer
  lead = lead
  admin = admin
  NoUser = NoUser
  Users = {buyer, lead, admin}
  Owner = admin
  Drafted <- DraftedBuyer
  Chain <- LongChain
  Required = 3
  Admins = {}
  Supers = {}
  Workers = {w1}
  Ops <- PageOps
  MaxRound = 2
  MaxRecords = 9
INVARIANTS TypeOK OwnStepOnly RequestFollowsTask SlotFree
CHECK_DEADLOCK FALSE
