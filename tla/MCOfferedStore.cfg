SPECIFICATION Spec
CONSTANTS
  Rank <- MCRank
  CanonLabel <- MCCanonLabel
  NormAlias <- MCNormAlias
  Catalogues <- MCCatalogues
INVARIANT TypeOK
INVARIANT OverlapIsACommonDelay
INVARIANT RivalryIsSound
INVARIANT NoGapIsLost
INVARIANT BridgesDescend
INVARIANT LineageIsWhatSuccessionsConnect
INVARIANT RetractionsHaveAuthority
INVARIANT SearchFindsEveryCycle
INVARIANT GateBlamesTheCulprit
INVARIANT ShownTaxonomyIsAcyclic
INVARIANT ResolveAgreesWithGet
INVARIANT ViewsForgetOrder
PROPERTY GapsCloseOnlyByWork
PROPERTY VerdictsStand
PROPERTY WritesCloseNoCycle
