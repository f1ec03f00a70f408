SPECIFICATION Spec
CONSTANTS
  Gateways = {"lemonSqueezy", "razorpay"}
  Subs = {e1, e2}
  NoSub = NoSub
  Starts <- MCStarts
  e1 = e1
  e2 = e2
  Actors = {a1, a2}
  Plans <- MCPlans
  MaxEvents = 2
  Horizon = 1
INVARIANTS TypeOK   
SYMMETRY Sym
CHECK_DEADLOCK FALSE
