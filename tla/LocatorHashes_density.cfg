CONSTANT MaxChainHeight = 40
SPECIFICATION Spec
INVARIANT LocatorMatchesSpecDensity
