SPECIFICATION Spec
CONSTANTS
  User = {root, ops}
  Root = root
  Request = {q1, q2}
  Node = {n1, n2}
  MaxVersion = 2
PROPERTIES ImplementsAccountTable
