\* Two tabs and a script, with the static token, an administrator's JWT and a user's
\* API key.
SPECIFICATION Spec
CONSTANTS
    t1 = t1
    t2 = t2
    s1 = s1
    dashboard = dashboard
    logs = logs
    api = api
    users = users
    static = static
    key = key
    jwt = jwt
    None = None
    Tab = {t1, t2}
    Script = {s1}
    Page = {dashboard, logs}
    Api = {api}
    Elsewhere = {users}
    Dashboard = dashboard
    Jwt = {jwt}
    ApiKey = {key}
    Static = {static}
    Admins = {static, jwt}
    MaxVisits = 3
    MaxFaults = 1
SYMMETRY TabSymmetry
INVARIANTS
    TypeOK
    AdminsOnly
    LandsOnGoal
\* The system is idle once the users have done all they may.
CHECK_DEADLOCK FALSE
