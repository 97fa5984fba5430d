SPECIFICATION DeliverySpec
CONSTANTS
  mine = mine
  theirs = theirs
  other = other
  q1 = q1
  q2 = q2
  Intent = {mine, theirs, other}
  KeyOf <- Keys
  Call = {q1, q2}
  MaxCommands = 3
  MaxRequests = 4
  CommandId = {1, 2, 3}
  History = 1
  MaxSends = 3
SYMMETRY AnyCall
INVARIANTS OncePerIntent AnswersAgree
