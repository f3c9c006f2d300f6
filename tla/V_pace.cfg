\* Requests that find the bucket empty, one after another.
SPECIFICATION BucketSpec
CONSTANTS
  MaxNow = 8
  Rate = 3
  Period = 3
  MaxRequests = 20
INVARIANT PromisedPace
CHECK_DEADLOCK FALSE
