\* Two clients with chains of two, and a word the seed amount just fits.
SPECIFICATION Spec
CONSTANTS
    NumClients = 2
    NumTxs = 2
    TxFee = 5
    Word = 16
INVARIANTS
    TypeOK
    ChainsAreValid
    FailsOnlyOutside
    ConfirmedUnlessDropped
