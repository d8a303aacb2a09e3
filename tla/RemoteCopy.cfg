\* Two files; the first version is less than a block and a refusal, the third shorter
\* than the second, so that a block may be cut short while it is sent, and the fourth
\* as long as a refusal.
CONSTANTS
    Files = {f1, f2}
    Versions = {1, 2, 3, 4}
    Size <- MCSize
    Block = 2
    Refusal = 2
    MaxCopies = 3
    None = None
SPECIFICATION Spec
CONSTRAINTS UntilLost FewChanges
INVARIANTS AnswersMatch CopiedWhole
PROPERTY KeepsDestination
CHECK_DEADLOCK FALSE
SYMMETRY Symmetry
