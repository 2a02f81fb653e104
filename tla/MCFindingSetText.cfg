SPECIFICATION Spec
CONSTANT Calls <- FullKeys
INVARIANT LongKeyAccepted
