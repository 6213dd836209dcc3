SPECIFICATION MCSpec
SYMMETRY ProcessSymmetry
CHECK_DEADLOCK FALSE
CONSTANTS
    early = early
    late = late
    Rules = {early, late}
    Early = {early}
    Chats = {early}
    Gap = 1
    Windows = {0, 3}
    Back = 1
    MaxDay = 3
    MaxId = 2
    MaxRollbacks = 1
    ayse = ayse
    bob = bob
    briefJob1 = briefJob1
    briefJob2 = briefJob2
    listener1 = listener1
    listener2 = listener2
    warmer1 = warmer1
    Markets <- MCMarkets
    Users = {ayse, bob}
    BriefLang <- MCBriefLang
    Receives <- MCReceives
    Kinds <- MCKinds
    BriefJobs = {briefJob1, briefJob2}
    Readers = {"r"}
    NoKey = NoKey
    MaxBreaks = 1
    Listeners = {listener1, listener2}
    Warmers = {warmer1}
    Chunks = 2
    MaxFiles = 4
    Numbers <- MCNumbers
    NoFile = NoFile
    Stories = {"alerts", "briefs", "speech", "numbers"}
INVARIANTS
    OutcomeOwned
    NotifiedAtMostOnce
    Announced
    HeardAsOwed
    BriefOnce
    HeardAsWritten
PROPERTY FirstDayKept
