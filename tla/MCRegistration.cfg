CONSTANTS
    p1 = p1
    p2 = p2
    new = new
    old = old
    Procs <- TwoProcs
    Dirs <- TwoDirs
    Installed <- Bitness
    None = None
SYMMETRY EitherProc
SPECIFICATION Spec
INVARIANTS TypeOK ProfileHasServer
PROPERTIES RegisterRepairs UnregisterCleans ReadyIsComplete
