SPECIFICATION Spec
CONSTANTS
    NULL = NULL
    Handles = {h1, h2, h3}
    Buffers = {b1, b2}
    Data = {d1}
    MaxReferences = 5
SYMMETRY Symmetry
INVARIANTS ReferencesAreHandles
