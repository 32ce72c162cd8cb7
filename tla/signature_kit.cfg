SPECIFICATION Spec
CONSTANT Names <- Identifiers
CONSTANT Files <- SourceFiles
CONSTANT Items <- KitItems
CONSTANT Words <- KitWords
CONSTANT Aliases <- KitAliases
INVARIANT GraphIsExact
INVARIANT ProjectionIsExact
INVARIANT AdmittedIsConsistent
INVARIANT OperationIsExact
INVARIANT StatementsAreExact
INVARIANT RefreshIsLossless
CHECK_DEADLOCK FALSE
