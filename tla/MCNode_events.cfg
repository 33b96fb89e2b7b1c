SPECIFICATION FairSpec
CONSTANTS
  QueueSize = 4
  VALID_TIME = 1
  Others <- Crowd
INVARIANTS TypeOK HealthShown
PROPERTIES ChangesHeard PauseEndsUnlessFull LinkReported TimeExpiresCalm
