SPECIFICATION Spec
CONSTANTS
  Hook = {h1}
  Checkout = {s1}
  MaxEvents = 4
  Env = {}
INVARIANTS Converges
CHECK_DEADLOCK FALSE
