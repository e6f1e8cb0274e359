CONSTANTS
  Key = {k1}
  Intent = {i1, i2}
  Call = {c1, c2, c3}
  MaxCrash = 1
  MaxPrune = 1
SPECIFICATION Spec
SYMMETRY Symmetry
INVARIANTS
  TypeOK
  AtMostOneSubmission
  AnswersAreTrue
  ClaimsAreDurable
PROPERTIES
  SettledStays
