CONSTANTS
  Parts = {"upload", "publish", "poisoned", "path", "expiring", "down", "keys", "lease"}
  Rest = Rest  None = None  Bad = Bad
SPECIFICATION FairSpec
PROPERTIES
  UploadSettles
  PublicationConverges
  Served
  StaleExpires
  CallsEnd
  NoStuckClaim
CHECK_DEADLOCK FALSE
