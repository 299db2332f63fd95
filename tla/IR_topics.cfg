SPECIFICATION FairSpec
CONSTANTS
  NumTopics = 3
  NumNames = 4
  NumExternals = 3
  Canonical <- MCCanonical
  ExternalDocs <- MCDocs
  Fields = {"title", "details"}
  Scenes <- AllScenes
\* The resolver stops when it has returned.
CHECK_DEADLOCK FALSE
INVARIANTS
  ProseComesFromFirstDonor
  MemosServe
  NothingIsLostInSilence
  SectionsComeFromFirstDonor
  ParametersAreWhole
PROPERTIES
  EveryTopicIsResolved
