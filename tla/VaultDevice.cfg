SPECIFICATION FairSpec
CONSTANTS
    Device = {d1}
    Kind = {"background", "page"}
    Tx = {t1, t2}
    NoTx = none
    MaxVersion = 2
    MaxFail = 1
    MaxPage = 1
    Revocable = {d1}
INVARIANTS
    RememberedIsStored
    RecordsInOrder
PROPERTY Published
