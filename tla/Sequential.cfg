SPECIFICATION PartsSpec
CONSTANTS
    Off = Off
    NoWord = NoWord
    Chars <- Letters
    Parts <- SomeParts
    MaxParts = 3
    Heads <- SomeHeads
    Scopes <- SomeScopes
    Texts <- SomeTexts
    MaxOffered = 2
    Bytes <- SomeBytes
    KeyLen = 2
    Strings <- SomeStrings
    Envelopes <- SomeEnvelopes
    Writes <- SomeWrites
    MaxChanges = 2
    Items = {"x", "y", "z"}
    Ks = {1, 60}
    MaxLists = 2
    MaxItems = 3
    Unit = 113460
    Tokens <- SomeTokens
    Bits <- SomeBits
    Hash <- SomeHash
    MaxTokens = 3
    Backends <- AllBackends
INVARIANTS
    TypeOK ContainsIsSubtree MatchIsSymmetric NormalizeIsIdempotent
    KeysSeparateEntries HexRoundTrip EnvelopeSurvives
    FusionIsBySums AgreementOutranks
    FingerprintIsMajority JoinedTextIsBetween VerdictIsSound
CHECK_DEADLOCK FALSE
