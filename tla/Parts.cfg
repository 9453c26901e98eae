SPECIFICATION PartsSpec
CONSTANTS
    a1 = a1
    a2 = a2
    b1 = b1
    b2 = b2
    c1 = c1
    c2 = c2
    Agents = {a1, a2}
    Objects = {b1, b2}
    Labels = {c1, c2}
    Procs = {a1, a2}
    Keys = {b1, b2}
    Owners = {c1, c2}
    Nobody = Nobody
    NoRule = NoRule
    NoSample = NoSample
    Nil = Nil
    Horizon = 1
    MaxEvents = 2
    Editors = {a1, a2}
    Names = {b1}
    Hashes = {c1, c2}
    TokenRoles = {admin}
    NoRow = NoRow
    MaxWrites = 4
    Sources = {a1, a2, s3}
    MaxAttempts = 2
    Secs = 2
    MaxEntries = 2
    LastSecond = 3
    Nodes = {a1, a2}
    Readonly = {}
    Items = {plain, hidden}
    Hidden = {hidden}
    Values = {b1, b2}
    Null = Null
    Mask = Mask
    MaxTrouble = 1
    Runs = {a1, a2}
    NoRun = NoRun
    Last = 4
    SKIP = {2}
    Once = {3}
    MaxFormEdits = 3
SYMMETRY Symmetry
CHECK_DEADLOCK FALSE
INVARIANTS CountedOnce AnswerWasTrue WrongAnswersBounded AnswerIsTrue GroupAllOrNone RecordedIsThere BlameIsShown
PROPERTIES BilledToHolder ForgottenLast UndoSparesOthers
