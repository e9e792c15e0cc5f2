SPECIFICATION Spec
CONSTANTS
  Point = {a, b, c}
  Zero = Zero
  RingSize = 3
INVARIANTS TypeOK ClearedOutsideWindow
PROPERTY FifoSpec
