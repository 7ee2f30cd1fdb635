SPECIFICATION PacingSpec
CONSTANTS
  e1 = e1
  e2 = e2
  e3 = e3
  Emails <- ThreeEmails
  RecipientDomain <- Domains
  Hash <- Hashes
  Expires <- Expiries
  Policies <- TwoPolicies
  FirstPolicy <- Tight
  Hour = 3
  Day = 5
  MaxTime = 6
INVARIANTS SendsSpaced CapsKept DeferralHolds
CHECK_DEADLOCK FALSE
