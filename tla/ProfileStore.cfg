\* Imported, edited and hand-written profiles; the editor may or may not see the secrets.
CONSTANTS
    Keys <- MCKeys
    BadKey = BadKey
    PskOf <- MCPskOf
    PrivateKey = PrivateKey
    OtherKeys <- MCOtherKeys
    NoBase64 = NoBase64
    ShortKey = ShortKey
    Rests <- MCRests
    Offered <- MCOffered
    OfferedInterfaces <- MCOfferedInterfaces
    Imported <- MCImported
    ImportedInterfaces <- MCImportedInterfaces
    HandWritten <- MCHandWritten
    Shown <- Both
    IntMax = 3
    Overflow <- Lowest
    MaxPeers = 2
    MaxListed = 3
    MaxEdits = 1
    None = None
    NoProfile = NoProfile
    NoEditor = NoEditor
    k1 = k1
    k2 = k2
    p1 = p1
    r1 = r1
SPECIFICATION Spec
INVARIANTS
    WrittenIsLoaded
    TunnelHasItsPsks
    SavedProfileIsValid
    RefusedOnlyForUnsetPsk
PROPERTIES
    OpenAndSaveKeepsProfile
    ShownKeySurvives
    PskStaysWithItsPeer
