\* The certificates of the two nodes with one configuration.
SPECIFICATION Spec
CONSTANTS
    Boot = {boot0, boot1}
    boot0 = boot0
    boot1 = boot1
    vanilla = vanilla
    nonvalidator = nonvalidator
    bad1 = bad1
    bad2 = bad2
INVARIANTS
    SameCertEachTime
