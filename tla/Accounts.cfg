SPECIFICATION Accounts
CONSTANTS
    u1 = u1 u2 = u2 u3 = u3 c1 = c1 c2 = c2 b1 = b1 l1 = l1 e1 = e1 e2 = e2 e3 = e3 n1 = n1
    Users = {u1, u2, u3}
    Browsers = {c1, c2}
    Barbers = {b1}
    Locations = {l1}
    Emails = {e1, e2, e3}
    Invites = {1, 2, 3}
    None = None
    BarberEmail <- MCBarberEmail
    Grants <- MCGrants
    Installations <- MCInstallations
    Ops <- MCOps
    MaxRequests = 2
    LegacyAdmins = {1, 2}
    LegacyBarbers = {1, 2}
    LegacyUsers = {1, 2, 3, 4}
    LegacyInvites = {1, 2}
    LegacyEmails = {e1, e2}
    LegacyNames = {n1}
    LegacyOps = {"invite", "accept", "change", "edit", "reset", "create_admin"}
    WholeRecords = TRUE
    LegacyInstallations <- MCLegacyInstallations
    LegacyMaxRequests = 2
    MaxBackfills = 1
INVARIANTS LiveSessionsKnowThePassword OneOpenInvite OnlyAResetTakesTheLastAdministrator
INVARIANTS OnlyAStaleEditKeepsAccess ApplyDoesWhatTheDryRunSaid ReadyKeepsLogins
PROPERTIES SessionsEndWithTheirRights RightsAreHandedDown LinkedAsTheyAre
CHECK_DEADLOCK FALSE
