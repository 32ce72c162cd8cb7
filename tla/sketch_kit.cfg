SPECIFICATION Spec
INVARIANT ResolutionIsPairing
INVARIANT CheckIsExact
CHECK_DEADLOCK FALSE
INVARIANT GenerationIsExact
INVARIANT DiffIsSemantic
INVARIANT BudgetsAreTruthful
