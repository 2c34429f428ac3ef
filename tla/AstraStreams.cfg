SPECIFICATION FairSpec
CONSTANTS
  Streams = {Infra, Color}
  Infra = Infra
  Color = Color
  MaxEvents = 4
  MaxSubs = 2
INVARIANTS
  TypeOK
  StreamFollowsSubscribers
  PollReadsLiveStreams
PROPERTIES
  NodeEnds
CHECK_DEADLOCK FALSE
