SPECIFICATION Reviews
CONSTANTS
  None = None
  StandardMetadata <- MCStandardMetadata
  Samples <- MCSamples
  ExactPairs <- MCExactPairs
  SubstringPairs <- MCSubstringPairs
  NearPairs <- MCNearPairs
  RawNearPairs <- MCRawNearPairs
  Compared <- MCCompared
  Reviewed <- MCReviewed
  Sheets <- MCSheets
  UpdateSheets <- MCUpdateSheets
  ChunkSizes = {2}
  UpdateFlags <- MCUpdateFlags
  MappingOf <- MCMappingOf
  CurrentMajor = 2
  MaxCommands = 3
  Absent = Absent
  AnnotationNames = {"@odata.id"}
  AnnotatedNames = {"ListAgent@odata.count"}
  Texts <- MCTexts
  RangeMaximum <- MCRangeMaximum
  ExemptEnumerations = {}
  ReferenceMap <- MCReferenceMap
  INT16_MAX = 7
  INT32_MAX = 31
  ENUM_MIN_SAMPLE = 2
  ENUM_MAX_DISTINCT = 2
  SHAPE_VALUE_SAMPLE = 1
  ORDER_STRIDE = 1000
  IdfOfFrequency <- MCIdf
  KindMatchOptions <- MCKindMatch
  ReferenceReports <- MCReferenceReports
  RCF_DEFAULT_DD_VERSION = 20
  VALIDATION_BATCH_SIZE = 2
  Cases <- MCCases
INVARIANTS
  V2DiffersAsNamed
  EveryEntryIsAddressable
  CommittedIsCounted
  StreamedAsIfWhole
  VerdictIsTheData
PROPERTIES
  SheetLandsWhole
CHECK_DEADLOCK FALSE
