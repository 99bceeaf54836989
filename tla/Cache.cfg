SPECIFICATION Spec
CONSTANTS
    Account = {a1, a2}
    Message = {m1}
    NoAccount = NoAccount
SYMMETRY AnyAccount
INVARIANTS SealedIsUnreadable GoneIsGone ShownIsKnown AnnouncedOnce
PROPERTY PurgesInOneStep
