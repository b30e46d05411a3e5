SPECIFICATION FairRaceSpec
CONSTANTS
  a = a b = b far = far None = None Anyone = Anyone Reply = Reply
  Thread = {a, b, far}
  Home <- HomeOf
  Scenes <- AllScenes
INVARIANTS NoMissedRendezvous CapLiveUntilRace
PROPERTIES ImplementsUntilRace CancelHeard HandshakeEnds
CHECK_DEADLOCK FALSE
