SPECIFICATION DataSpec
CONSTANTS
  Day = 4
  Week = 3
  Timezones <- MCTimezones
  FirstTick = 24
  Horizon = 14
  IntWidth = 8
  Values <- MCValues
  SampleBytes <- MCSampleBytes
  MaxAltered = 2
  Streams <- MCStreams
  UsizeWidth = 16
  Xml <- MCXml
  TagWidth = 16
  validate_user_defined_fields = FALSE
  EngineMessages <- MCEngineMessages
  AppMsgTypes <- MCAppMsgTypes
  AppFields <- MCAppFields
  AppGroups <- MCAppGroups
  MaxOps = 3
  OtherTags <- MCOtherTags
INVARIANTS
  PeriodsAreActiveRuns
  FailsOnlyAtClockChange
  OpensAgain
  ReadsWhatWasWritten
  RewriteKeepsValue
  FramesAsSent
  MessageReadsBack
  NothingLost
  ResentIsTheSame
CHECK_DEADLOCK FALSE
