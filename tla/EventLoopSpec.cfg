SPECIFICATION Spec
CONSTANTS
    Backends = {"poll", "epoll"}
    MaxRules = 2
    Files = {f1, f2}
    NoFile = NoFile
    MaxUnread = 1
SYMMETRY Symmetry
INVARIANTS
    NothingUnreadIsAbandoned
    RegistrationIsCurrent
    NoLostWakeup
    ErrorsAreHandledEagerly
