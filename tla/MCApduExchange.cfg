SPECIFICATION Spec
CONSTANTS
  Caller = {c1, c2}
  Body = {b1, b2}
  Amount = {e1, e2}
  Length = {256}
  Nothing = Nothing
SYMMETRY Symmetry
INVARIANTS
  TypeOK
PROPERTIES
  AnswersOwnCommand
  RefusedOnlyIfBeyondRepair
  TwiceOnlyAfterEmpty
