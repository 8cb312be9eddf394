\* One participant, whose old peer may still be closing when the next is made.
SPECIFICATION FairSpec
CONSTANTS
  Sids = {alice}
  MaxPeers = 2
  MaxRetries = 1
  MaxInbox = 1
  MaxAsked = 1
CHECK_DEADLOCK FALSE
INVARIANTS TypeOK PeersTracked LeavingClosesPeers
PROPERTIES NegotiationsEnd RecoveryGoesOn TheGoneAreLeftAlone
