SPECIFICATION Spec
CONSTANTS
  Ranges <- MCRanges
  Replies <- MCReplies
  ArgumentSizes <- MCArgumentSizes
  MaxRequestBytes = 1024
  ServerBuffer = 1024
INVARIANTS SameTypesAgree DriftNeverMisleads CarriesOutWhatWasCalled
CHECK_DEADLOCK FALSE
