SPECIFICATION Spec
CONSTANTS
  Rank <- MCRank
  CanonLabel <- MCCanonLabel
  NormAlias <- MCNormAlias
  Environments <- MCEnvironments
  Verdicts <- vectors
  InternalVerdict <- internalChecks
INVARIANT AllVectorsPass
INVARIANT VerdictIsAboutTheModule
CHECK_DEADLOCK FALSE
