SPECIFICATION Spec
CONSTANTS
  Items = {i1, i2}
  Branches <- MCBranches
  Versions <- MCVersions
  ItemDefs <- MCItemDefs
SYMMETRY ItemSymmetry
INVARIANTS
  PlannedIsServed
  NothingOpenedInVain
  VariantsAreExact
  FallbackIsPlanned
  PlanDoesNotFail
  
CHECK_DEADLOCK FALSE
