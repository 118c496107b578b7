SPECIFICATION MCSpec
CONSTANTS
    boss = boss
    lead = lead
    ann = ann
    Member = {boss, lead, ann}
    Admin = {boss}
    Bootstrap = {}
    JobRole = {"head", "staff"}
    RoleRow <- MCRoleRow
    FirstRole <- MCFirstRole
    FirstJob <- MCFirstJob
    Nobody = nobody
    NoRole = norole
    MaxChange = 1
    MaxWatchers = 1
    Device = {phone, tablet}
    NoDevice = nodevice
    DeviceName <- MCDeviceName
    Subject = {google, other}
    NoSubject = nosubject
    MaxRequest = 3
    MaxKeys = 2
    MaxMail = 1
    Keyset = {k1, k2, k3}
    First = k1
    Writer = {w1, w2}
    NoKeyset = nokeyset
    MaxCrash = 1
SYMMETRY Symmetry
INVARIANTS
    DatesMatchStatus
    DoneByItsAssignee
    SessionOwnsDevice
    CredentialKept
    GoogleIdentity
    RevokedStays
    LossExplained
PROPERTIES
    AssigneeTold
    ImplementsLife
    OverwrittenInOverlap
CHECK_DEADLOCK FALSE
