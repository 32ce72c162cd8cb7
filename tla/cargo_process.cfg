SPECIFICATION MCSpec
CONSTANTS
    Limit = 1
    Used <- MCUsed
    MaxOutput <- MCMaxOutput
    Outsiders = {"stderr"}
    PipeSize = 1
    MaxEvidence = 1
    MaxFaults = 2
    Call <- MCCall
    Metadata <- MCMetadata
    Records <- MCRecords
    Documents <- MCDocuments
    Versions <- MCVersions
    Catalog <- MCCatalog
    Text <- MCText
    SourceRoot <- MCRoot
    Directory <- MCDirectory
    Unlisted <- MCUnlisted
    Links <- MCLinks
    Most <- MCMost
    MaxEdits = 1
    KitMost <- MCKitMost
INVARIANT OutcomeIsTruthful
INVARIANT ExtractionIsUsable
PROPERTY ProcessEnds
