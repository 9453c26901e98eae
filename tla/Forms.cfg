SPECIFICATION FormsSpec
CONSTANTS
    MaxNames = 3
    MaxEdits = 3
    Absent = Absent
    Blank = Blank
    EditSections = {"outlier_detection", "idle_timeout", "half_close_timeout", "extra_listen_addrs"}
    MaxSteps = 3
    Pods = {p1, p2}
    PodTokens = {t1, t2}
    Requests = {r1, r2}
    NoPod = NoPod
    NoToken = NoToken
    MaxRewrites = 2
    GroupNodes = {"s", "t"}
    Special = "s"
    Limits <- RoleSettings
    Reserved <- ReservedPorts
    DashNodes = 2
    GlobalNodes = {r1, r2}
    MaxUse = 3
CHECK_DEADLOCK FALSE
INVARIANTS SentIsWhatWasChecked RunsWhatIsStored NotLockedOut ListedIsCurrent ListIsTrue
PROPERTIES RenameChangesNothing OnlyWhatWasTouched AppliedWasPlanned KeptAsItIs ResendRepairs UsersAddWhatIsAllowed
