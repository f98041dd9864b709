SPECIFICATION MCSpec
CONSTANTS
  ga = ga
  na = na
  da = da
  dots = dots
  Ann = Ann
  Bob = Bob
  f1 = f1
  f2 = f2
  Punct = {dots}
  NoSpeaker = NoSpeaker
  NoTime = NoTime
  NoQuote = NoQuote
  None = None
  MaxSpan = 3
  Transcripts <- MCTranscripts
  Quotations <- MCQuotations
  Meetings <- MCMeetings
  Responses <- MCResponses
INVARIANTS
  SingleStaysIn
CHECK_DEADLOCK FALSE
