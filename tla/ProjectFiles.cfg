SPECIFICATION MCSpec
CONSTANTS
    MaxSourcePromptChars = 3
    MaxSourceCharsPerItem = 2
    Lengths = {0, 1, 3}
    MaxUrls = 2
    MaxUploadedFiles = 1
    OtherPaths = {"logs/build_log.md", ".gitignore"}
    RefusedPaths = {".gitignore"}
    SkippedNames = {".env"}
    MaxEntries = 2

CHECK_DEADLOCK FALSE
INVARIANTS
    SourcesAreAccounted
    PromptIsBounded
    ValidatedIsCommitted
    ManifestIsCommitted
    LinksResolve
