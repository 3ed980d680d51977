SPECIFICATION AppFairSpec
CONSTANTS
  MAX_CAPTURE_ATTEMPTS = 3
  MAX_SINGLE_CAPTURE_ATTEMPTS = 3
  IDS = 2
  Disturbed = TRUE
INVARIANTS AppTypeOK WaitsBounded MatchHonest EnrollHonest
PROPERTIES PressActedOn
