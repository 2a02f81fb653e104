SPECIFICATION Spec
CONSTANT Calls <- LongAddresses
INVARIANT LongAddressShown
