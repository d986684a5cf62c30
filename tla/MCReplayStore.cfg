SPECIFICATION Spec
CONSTANTS
    edit = edit
    batch = batch
    fix = fix
    c1 = c1
    c2 = c2
    c3 = c3
    Callers = {c1, c2, c3}
    Requests = {edit, batch, fix}
    tool_name <- Tools
    OtherBytes = OtherBytes
    NoRecord = NoRecord
    Corrupt = Corrupt
    NoImage = NoImage
SYMMETRY CallerSymmetry
INVARIANT ExecutesOnce
PROPERTIES ReplayIsEarned EndedStays ImplementsContract
