SPECIFICATION Spec
CONSTANTS
    t1 = t1
    t2 = t2
    guide = guide
    log = log
    rules = rules
    page = page
    Tasks = {t1, t2}
    Files = {guide}
    Logs = {log}
    Configured = {rules}
    Submitted <- MCSubmittedRules
    Sections <- MCSections
    MaxVersion = 2
    TopK = 1

SYMMETRY TaskSymmetry
INVARIANTS
    OneReadingPerSource
PROPERTY LossIsReported
