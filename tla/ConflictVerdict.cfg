\* The same test: what its last check says.
SPECIFICATION Spec
INVARIANTS
    AcceptedFails
