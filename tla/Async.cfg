SPECIFICATION MCSpec
CONSTANTS
  Users = {u1, u2, u3}
  MaxOpen = 1
  MaxOpens = 3
  Promises = {1, 2, 3}
  Combinators = {"All", "Race", "Best", "RunWaiting"}
  Cancels = TRUE
  None = None
  Nil = Nil
  Done = Done
CHECK_DEADLOCK FALSE
INVARIANT OneUser
INVARIANT Bounded
INVARIANT Faithful
PROPERTY OpenReturns
PROPERTY Settles
