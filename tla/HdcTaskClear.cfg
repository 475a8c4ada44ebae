SPECIFICATION FairSpec
CONSTANTS
  Session <- MCSession
  Task <- MCTask
  owner <- MCOwner
  channelId <- MCChannelId
  Modulus <- MCModulus
  MaxTimes <- MCMaxTimes
PROPERTY StopEnds
CHECK_DEADLOCK FALSE
