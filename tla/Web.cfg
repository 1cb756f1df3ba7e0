SPECIFICATION Spec
CONSTANTS
    Stories <- AllStories
    Users = {root, op, pat, spare}
    Spaces = {A, B}
    Tables = {t1, t2}
    LastPage = 2
    Everything = Everything
    Nowhere = Nowhere
    Nothing = Nothing
    Unknown = Unknown
    NoUser = NoUser
    MaxReads = 2
    root = root
    op = op
    pat = pat
    spare = spare
    A = A
    B = B
    t1 = t1
    t2 = t2
INVARIANTS
    PagesAreHonest
    BooksMatchServer
    OfferedIsPermitted
CHECK_DEADLOCK FALSE
