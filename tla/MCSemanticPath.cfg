CONSTANTS
    Null = Null
    Unnormalized = Unnormalized
    Sources = {"vector", "SYNTHETIC-DEMO"}
    Versions = {"v1"}
    Digests = {"d0", "d1"}
    Jurisdictions = {"j1"}
    Applicabilities = {"a1"}
    Bases = {"b1", "b2"}
    Documents = {}
    Spans = {"duty", "DUTY", "foreign", "blank"}
    BlankSpans = {"blank"}
    LiteralSpans = {"duty", "blank"}
    FoldedSpans = {"duty", "DUTY", "blank"}
    UnitTypes = {"obligation", "advisory"}
    Slots = {"action", "bearer"}
    Quotes = {"must", "other"}
    QuotedIn <- MCQuotedIn
    References = {"SYN-9", "SYN-8"}
    Malformed = Malformed
    NoQuote = NoQuote
    Nothing = Nothing
    Fixtures <- MCFixtures
    Templates <- MCTemplates
    SourceId = "SYNTHETIC-DEMO"
    SourceDigest = "d1"
    ExpectedReference = "SYN-9"
SPECIFICATION Spec
INVARIANTS
    TypeOK
    InterpretationAuthorized
    ReplayAccounted
    DocketCompares
    ControlsDiscriminate
    PublishedIsAccounted
CHECK_DEADLOCK FALSE
