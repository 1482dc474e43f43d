SPECIFICATION Spec
CONSTANTS
    get = get
    subGet = subGet
    Methods = {get, subGet}
    sub = sub
    Classes = {sub}
    Threads = {t1, t2}
    Codes = {c1, c2}
    NoMethod = NoMethod
    NoCode = NoCode
    NoThread = NoThread
    Calls <- MCCalls
    VTable <- MCVTable
    MaxFrames = 2
SYMMETRY MCSymmetry
INVARIANTS LinkedCodeIsValid SuspendedCodeIsValid CodeInUseIsCached OverriddenHasNoDirectCallers CompiledOnce
