SPECIFICATION Spec
CONSTANTS
    t1 = t1
    t2 = t2
    guide = guide
    log = log
    rules = rules
    page = page
    Tasks = {t1, t2}
    Files = {guide}
    Logs = {log}
    Configured = {rules}
    Submitted <- MCSubmitted
    Sections <- MCSections
    MaxVersion = 2
    TopK = 2

INVARIANT EvidenceIsOwn
