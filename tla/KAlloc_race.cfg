\* Preemption inside kalloc.
SPECIFICATION Spec
CONSTANTS
  Proc = {1, 2}
  NPAGE = 2
  Overlap = TRUE
INVARIANT
  OneOwner
