SPECIFICATION Spec
CONSTANTS
    Backends = {"epoll"}
    MaxRules = 2
    Files = {f1, f2}
    NoFile = NoFile
    MaxUnread = 1
SYMMETRY Symmetry
INVARIANTS
    EpollMirrorsEventLoop
