CONSTANTS
    c1 = c1
    c2 = c2
    r1 = r1
    r2 = r2
    CallbackId <- MCCallbackId
    Requests <- MCRequests
    Forged = Forged
    NoRecord = NoRecord
SYMMETRY Symmetry
SPECIFICATION Spec
PROPERTY SingleUseCallback
