SPECIFICATION Spec
CONSTANT Calls <- Renewals
INVARIANT RenewAllProofShown
