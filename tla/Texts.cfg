SPECIFICATION TextsSpec
CONSTANTS
  Alphabet <- MCAlphabet
  Begin <- MCBegin
  Longest <- MCLongest
  Containers <- MCContainers
  Siblings <- MCSiblings
CHECK_DEADLOCK FALSE
INVARIANTS
  TemplatesSplitExactly
  YamlReadsBack
  ScalarsKeepType
  InferredAccepts
  OutlineRecovered
  LinesUsedOnce
  MetadataRouted
