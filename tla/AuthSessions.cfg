SPECIFICATION Spec
CONSTANTS
  User = {u1}
  Request = {q1, q2}
  MaxVersion = 1
  AccessLife = 2
  RefreshLife = 2
  TicketLife = 0
  Second = 2
  Start = 1
  Floors = {"operator"}
  MaxRequests = 4
  GuardErrors = 2
  MaxGrants = 3
  MaxTickets = 1
  MaxClock = 3
INVARIANTS RotatesOnce ReplayEndsSessions LoggedOutIsDead PasswordEndsOld TicketOnce
PROPERTIES ImplementsTokenLife SessionStaysOver SocketFollowsSession
