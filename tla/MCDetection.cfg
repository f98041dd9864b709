SPECIFICATION BenchSpec
CONSTANTS
  ga = ga
  na = na
  da = da
  dots = dots
  Ann = Ann
  Bob = Bob
  f1 = f1
  f2 = f2
  Punct = {dots}
  NoSpeaker = NoSpeaker
  NoTime = NoTime
  NoQuote = NoQuote
  None = None
  MaxSpan = 3
  FlagTypes = {1, 2}
  PredTypes = {1, 2, 3}
  Segments = {1, 2, 3}
  ThreshNum = 1
  ThreshDen = 2
  NoId = NoId
  FallbackBase = 100
  Transcripts <- MCTranscripts
  Quotations <- MCQuotations
  Meetings <- MCMeetings
  Responses <- MCResponses
INVARIANTS
  HintsOnlyChoose
  VerbatimFindsItself
  NoBystander
  OwnWindowOrNothing
  ReferencesAgree
  GoldsAsApproved
  AnswerNotStolen
  ZeroMeansNone
  CutOffIsRefused
  LoaderTakesIt
  ExtrasMistyped
  NoBlockingPair
  ScoreBalances
  OrderBlindWithIds
CHECK_DEADLOCK FALSE
