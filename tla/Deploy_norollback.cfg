SPECIFICATION Spec
CONSTANTS
    Tags = {t1, t2}
    Local = Local
    NoImage = NoImage
    Blank = Blank
    NoFile = NoFile
    Faults = {}
SYMMETRY Symmetry
INVARIANT UnhealthyReleaseIsRolledBack
