SPECIFICATION Spec
CONSTANTS
    Device = {d1}
    Kind = {"background"}
    Tx = {t1, t2}
    NoTx = none
    MaxVersion = 1
    MaxFail = 0
    MaxPage = 0
    Revocable = {d1}
INVARIANT RestoreWorks
