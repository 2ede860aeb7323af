CONSTANTS
    NumClient = 3
    NumServer = 2
    NumKv = 4
    NumBatch = 2
    NumSlot = 2
    BucketOf <- MCBucketOf
    Residues <- MCResidues
CHECK_DEADLOCK FALSE
SPECIFICATION Spec
INVARIANTS
    ReplyHasValue
