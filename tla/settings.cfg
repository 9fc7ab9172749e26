\* Two clients ask again and again, three checks are remembered, two saves; a key
\* is set or forgotten.
CONSTANTS
    p1 = p1
    k1 = k1
    Provider <- MCProvider
    ApiKey <- MCApiKey
    Default <- MCDefault
    Probe = {c1, c2, c3}
    Ask = {a1, a2}
    Torn = Torn
    None = None
    Absent = Absent
    CacheTtl = 2
    ProbeTimeout = 1
    MaxClock = 3
    MaxSets = 1
    MaxFailed = 1
SYMMETRY Symmetry
SPECIFICATION Spec
INVARIANTS AnswerOfItsConfig AnswerIsRecent OldResultIsLate SettingsSurvive
