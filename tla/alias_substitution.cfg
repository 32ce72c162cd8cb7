SPECIFICATION TypesSpec
CONSTANT Names <- Identifiers
CONSTANT Files <- SourceFiles
CONSTANT Items <- KitItems
CONSTANT Words <- KitWords
CONSTANT Aliases <- KitAliases
INVARIANT AliasIsSubstitution
CHECK_DEADLOCK FALSE
