CONSTANTS
  f = f
  n = n
  Handles = {h1, h2}
  MaxWrites = 2
  DeviceFails = TRUE
  Keys <- MCKeys
  Underlay <- MCUnderlay
  Contents <- MCContents
  Empty <- MCEmpty
CONSTRAINT SecondWriteAtOneName
VIEW LossesAsOne
SPECIFICATION Spec
INVARIANTS TypeOK OverlayHandlesStayCovered NothingLostSilently ReadOnlyStagesNothing ReadAnswersWhatWasThere
PROPERTIES CreatorsExcludeEachOther OnlyFreeNamesAreTaken TombstonesAreLiftedKnowingly CallbacksActAsOne
SYMMETRY HandleSymmetry
