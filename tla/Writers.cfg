SPECIFICATION BSpec
CONSTANTS
    d1 = d1
    d2 = d2
    d3 = d3
    f1 = f1
    f2 = f2
    a1 = a1
    a2 = a2
    p1 = p1
    p2 = p2
    Docs = {p1, p2}
    None = None
    Decisions = {d1, d2, d3}
    Facts = {f1, f2}
    Agents = {a1, a2}
    Global = {d3}
    MaxFacts = 1
    Settings <- MCSettings
    Texts = {t1, t2}
INVARIANTS SuccessionIsSound AutoMeansComplete OneRecordPerDocument
PROPERTIES EvidenceIsHandled DuplicatesStrandNothing ReimportFindsItsRecord BatchesComplete
CHECK_DEADLOCK FALSE
