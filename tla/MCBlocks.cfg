SPECIFICATION Spec
CONSTANTS
    UInt32Max = 3
    LongMax = 7
    Slots = {s1, s2}
    Validators = {1, 2}
    Verdicts <- MCVerdicts
    Genesises <- MCGenesises
    Reconciliations <- MCReconciliations
    Nodes <- MCNodes
    Transactions <- MCTransactions
    MineActionObjects <- MCMineActionObjects
INVARIANTS
    ObjectsOK
    ContentSurvives
    SignaturesVerify
    EncodingCanonical
