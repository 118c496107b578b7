SPECIFICATION Spec
CONSTANTS
    ann = ann
    bob = bob
    ann1 = ann1
    bob1 = bob1
    bob2 = bob2
    bob3 = bob3
    m1 = m1
    m2 = m2
    r1 = r1
    r2 = r2
    User = {ann, bob}
    Device = {ann1, bob1, bob2}
    Owner <- MCOwner
    Initial = {ann1, bob2}
    Revocable = {bob2}
    Returning = {bob2}
    Msg = {m1, m2}
    Sender <- MCSenderTwo
    Marker = {r1}
    MaxKeys = 3
    MaxLost = 1
INVARIANTS
    HeldIsPublished
    SignedIsHeld
    SentIsReadable
    ExcludedUnlessRaced
CHECK_DEADLOCK FALSE
