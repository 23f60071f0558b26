SPECIFICATION MCSpec
CONSTANTS
    t1 = t1
    t2 = t2
    w1 = w1
    w2 = w2
    base = base
    slug1 = slug1
    slug2 = slug2
    second = second
    Tasks = {t1, t2}
    LogWriters = {w1, w2}
    Names = {base, slug1, slug2, second}
    Candidates <- MCCandidates
    FirstFile = readme
    OtherFiles = {source}
    LogPath = log
    UserFile = notes
    User = user
    Nobody = nobody
    BuildLogRetryLimit = 1
    BuildLogVerifyAttempts = 2

CHECK_DEADLOCK FALSE
INVARIANTS
    CreatorsDoNotShare
    CommittedIsOnBranch
    UserFilesSurvive
    LoggedIsOnBranch
    RepeatsAreBounded
PROPERTIES
    HistoryIsKept
    EntriesAreKept
    CallsSettle
