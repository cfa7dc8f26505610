\* Two workers and every handler that keeps the records.
SPECIFICATION Spec
CONSTANTS
  buyer = buyer
  lead = lead
  admin = admin
  NoUser = NoUser
  Users = {buyer, lead}
  Owner = buyer
  Drafted <- DraftedBuyer
  Chain <- MCChain
  Required = 2
  Admins = {}
  Supers = {lead}
  Workers = {w1, w2}
  Ops <- RaceOps
  MaxRound = 1
  MaxRecords = 3
INVARIANTS NoStepSkipped ChainComplete
CHECK_DEADLOCK FALSE
