SPECIFICATION Spec
CONSTANTS
    Device = {d1}
    Kind = {"background", "page"}
    Tx = {t1, t2}
    NoTx = none
    MaxVersion = 2
    MaxFail = 0
    MaxPage = 1
    Revocable = {}
INVARIANT DeviceInOrder
