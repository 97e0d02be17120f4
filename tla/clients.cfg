SPECIFICATION Spec
CONSTANTS
    Tickets = {k1, k2}
    Agents = {g1}
    Forms = {"comment", "reminder"}
    MaxActs = 4
    Accounts = {a1, a2}
    MaxDeeds = 5
    Entries = {e1, e2, e3}
    MaxEntries = 2
    MaxTurns = 3
    Users = {u1, u2}
    Names = {n1, n2}
    Filters = {"all", "open"}
    Widgets <- Order
    MaxTokens = 2
    MaxSaves = 2
    MaxEdits = 2
    MaxMoves = 1
    Hosts = {h1, h2}
    MaxIssued = 1
    MaxClicks = 6
    Versions = {1, 2}
    MaxFallbacks = 2
    Servers = {s1, s2}
    MaxTaps = 6
    MaxTasks = 2
    Posted = {r1, r2}
    ours = ours
    damaged = damaged
    foreign = foreign
    legacy = legacy
    Backups <- Files
    Contents <- Inside
INVARIANTS TypesOK WindowFaithful TabsFaithful PreferencesKept RightServer UpdateSafe
    OneSessionOneTicket RestoreSafe BackupsAnswered
VIEW InFocus
CHECK_DEADLOCK FALSE
