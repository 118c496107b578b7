SPECIFICATION Spec
CONSTANTS
    ann = ann
    bob = bob
    ann1 = ann1
    bob1 = bob1
    bob2 = bob2
    bob3 = bob3
    m1 = m1
    m2 = m2
    r1 = r1
    r2 = r2
    User = {ann, bob}
    Device = {ann1, bob1, bob2}
    Owner <- MCOwner
    Initial = {ann1, bob1}
    Revocable = {bob2}
    Returning = {}
    Msg = {m1}
    Sender <- MCSenderOne
    Marker = {r1}
    MaxKeys = 2
    MaxLost = 0
PROPERTY RefreshedBeforeFailing
CHECK_DEADLOCK FALSE
