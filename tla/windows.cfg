\* Both windows, one request, two openings, a call that is lost; calls are served
\* and answered in any order.
SPECIFICATION FairWindowSpec
CONSTANTS
  Kinds = {"deposit", "withdraw"}
  Requests = {1}
  Funds = 2
  Openings = 2
  MaxCalls = 2
  MaxLosses = 1
INVARIANTS RequestIsInView 
 
CHECK_DEADLOCK FALSE
