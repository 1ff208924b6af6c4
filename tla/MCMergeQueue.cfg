SPECIFICATION Spec
CONSTANTS
  f1 = f1  f2 = f2  f3 = f3
  Branch = {1, 2, 3, 4}
  Files <- MCFiles
  Clash <- MCClash
  Red <- MCRed
  MaxFaults = 2
INVARIANTS AlwaysGreen LandedStays VerdictTruth NoCollateral BaseGreen
PROPERTY ImplementsMain
