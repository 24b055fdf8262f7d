\* Three lists of two transactions; one unit of fee, amounts that tell the assets apart.
SPECIFICATION Spec
CONSTANTS
    NumLists = 3
    NumTxs = 2
    Funds = 15
    TxFee = 1
    ExportAmount = 4
    AssetAmount = 3
    AssetKept = 1
INVARIANTS
    TypeOK
    PassIsComplete
    ReadingsConfirm
    PromptSucceeds
PROPERTIES
    Ends
