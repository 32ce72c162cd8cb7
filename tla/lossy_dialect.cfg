SPECIFICATION ItemsSpec
CONSTANT Names <- Identifiers
CONSTANT Files <- SourceFiles
CONSTANT Items <- KitItems
CONSTANT Words <- KitWords
CONSTANT Aliases <- KitAliases
INVARIANT DialectIsLossless
CHECK_DEADLOCK FALSE
