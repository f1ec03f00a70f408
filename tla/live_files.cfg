\* One file, a stream that fails, a page that is left and entered again.
SPECIFICATION Spec
CONSTANTS
  Files = {f1}
  MaxVersion = 2
  Terminal = {2}
  MaxQueue = 2
INVARIANTS TypeOK TabConverges
CHECK_DEADLOCK FALSE
