\* One process at a time in the allocator.
SPECIFICATION Spec
CONSTANTS
  Proc = {1, 2, 3}
  NPAGE = 3
  Overlap = FALSE
INVARIANTS
  TypeOK
  OneOwner
  ListIsFreePages
PROPERTY
  ImplementsAbsPages
