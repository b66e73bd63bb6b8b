SPECIFICATION Spec
CONSTANTS
  Size = 8
  Keys <- MCKeys
  Zero = 0
  Values = {v1, v2}
  NoOrder = none
  Policies <- MCPolicies
INVARIANTS
  EveryEntryReachable
PROPERTIES
  IsAMap
SYMMETRY AnyValue
