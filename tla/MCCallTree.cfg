SPECIFICATION Spec
CONSTANTS
  Kids = {k1, k2}
  Tops = {"direct", "routed", "hub"}
  MaxCancels = 2
  MaxFaults = 1
SYMMETRY Symmetry
INVARIANTS TypeOK NothingStranded 
