SPECIFICATION Spec
CONSTANT Calls <- HugeNames
INVARIANT HugeNameShown
