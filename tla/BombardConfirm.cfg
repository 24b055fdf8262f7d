\* The same test: what its last message says.
SPECIFICATION Spec
CONSTANTS
    NumClients = 2
    NumTxs = 2
    TxFee = 5
    Word = 16
INVARIANTS
    ConfirmedAll
