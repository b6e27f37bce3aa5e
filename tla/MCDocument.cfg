SPECIFICATION Requests
CONSTANTS
    None = None
    NoPath = None
    Documents <- MCAll
    Damaged <- MCDamaged
    Readable <- MCReadable
    Slugs <- MCSlugs
    Misspelled <- MCMisspelled
    Fronts <- MCFronts
    Marks <- SourceMarks
    Colons <- MCColons
    LeadInMax = 2
INVARIANTS TreeIsRight ItemTextIsFirstParagraph CommentsReachNextLine PathsLeadBack ReadingMatchesListing CorrectionsAreRight UnitsCoverDocument SearchFindsSmallest
