SPECIFICATION Spec
CONSTANTS
  Caller = {c1}
  Body = {b1}
  Amount = {e1}
  Length = {2, 258}
  Nothing = Nothing
INVARIANTS
  ResponseFits
