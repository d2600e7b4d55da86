CONSTANTS
  File = {"f", "g"}
  Channel = {"c", "d"}
  Wanted <- MCWanted
  Held <- MCHeld
  Uploads = {"f"}
  None = None
  MaxRequests = 2
  MaxUnresolved = 1
  MaxAhead = 2
SPECIFICATION FairSpec
INVARIANT RequestsHaveOneOwner
PROPERTIES RequestsLeaveSettled AsksAgain
