SPECIFICATION Spec
CONSTANTS
    Logging = {l1, l2}
    Accounts = {a1}
    Passwords = {p1, p2}
    LoginMaxFailures = 2
    LoginWindow = 2
    MaxTime = 3
    Requests = {r1, r2}
    Users = {u1, u2}
    Founder = u1
    Tokens = {t1, t2}
    Uploads = {f1, f2}
    Ticketed = {k1}
    LastMs = 1
    MaxTrouble = 2
    Editors = {e1, e2}
    Sections = {s1, s2}
    Selfsignup = s1
    SignupCodes = {n1}
    SetupTokensMade = 2
    TokenTtls = {1, 2}
    SessionTtl = 2
    MaxAttempts = {1, 2}
    TokenTime = 3
    Limited = {i1, i2}
    Limit = 2
    Window = 2
    MaxBuckets = 1
    LastTick = 4
    Burst = 3
    Targets = 5
    Pool = 3
    MaxResults = 2
    Latencies = {1, 2}
    Callers = {c1, c2}
    Mails = {m1}
    Phones <- MCPhones
    Names <- MCNames
    MaxPeople = 1
    MaxEdits = 1
    Letters = {"'", "dq", ";", "-", "/", "*", "nl", "x"}
    MaxText = 5
INVARIANTS TypesOK AccountsGuarded RevokedStaysOut FilesMatchRows
    ChangesKept TokensEnd PassesBounded ScanComplete RefusedForCause StatementsRight
VIEW InFocus
CHECK_DEADLOCK FALSE
