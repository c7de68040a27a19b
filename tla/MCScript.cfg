\* One object, steps of up to three competing leaves.
CONSTANTS
  o = o  p = p  q = q  Empty = Empty  NoFit = NoFit
  Allows <- AllAllows
  Events <- AllEvents
  Declarations <- AllDeclarations
  Forbidden <- OnlyDeletes
  Uses = {"plain", "pinned", "dropped"}
  orderSearchBudget = 7
  MaxEvents = 4
  MaxCalls = 2
SPECIFICATION Spec
INVARIANTS VerdictsAreRight ClosedWorld PinsAreEvidence
CHECK_DEADLOCK FALSE
