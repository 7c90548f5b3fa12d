CONSTANT MaxChainHeight = 33000
SPECIFICATION Spec
INVARIANTS LocatorMatchesReference LocatorWellFormed
