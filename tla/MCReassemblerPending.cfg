SPECIFICATION MapSpec
CONSTANTS
    Source <- MCSource
    Capacity = 6
    MaxSeg = 5
    AbsMod = 64
INVARIANTS
    EntriesAreSeparated
    OutputIsFaithful
PROPERTIES
    ImplementsReassembler
