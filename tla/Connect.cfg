\* All three programs, three kills.
CONSTANTS
  Setups = {"mpcops_test", "main", "ot_tests"}
  MaxKills = 3
SPECIFICATION FairSpec
INVARIANTS TypeOK LabelsRight ReadyMeansPaired
PROPERTIES EverybodyJoins
CHECK_DEADLOCK FALSE
