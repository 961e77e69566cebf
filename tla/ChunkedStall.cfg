\* A chunked request without trailers, from a client that is never late.
SPECIFICATION Spec
CONSTANTS
  Plans <- ChunkedPlans
  MaxRequests = 2
PROPERTIES
  TrailersOptional
CHECK_DEADLOCK FALSE
