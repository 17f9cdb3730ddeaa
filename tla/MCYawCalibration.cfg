CONSTANTS
  FourLap = 100
  SettleSamples = 2
  Yaws <- MCYaws
  ProfileScale <- MCProfileScale
SPECIFICATION Spec
INVARIANTS
  ScaleIsGoodUnlessRestarted
  ResultIsBetween
  SettlesAtRest
