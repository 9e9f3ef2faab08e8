SPECIFICATION Spec
INVARIANTS TypeOK BilledWithConsent
