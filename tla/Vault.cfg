SPECIFICATION Spec
CONSTANTS
    Device = {d1, d2}
    Kind = {"background", "page"}
    Tx = {t1, t2}
    NoTx = none
    MaxVersion = 1
    MaxFail = 1
    MaxPage = 1
    Revocable = {d2}
SYMMETRY Requests
INVARIANT VaultConsistent
PROPERTY ImplementsLog
