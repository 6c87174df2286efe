CONSTANTS
  r1 = r1
  r2 = r2
  w1 = w1
  w2 = w2
  b1 = b1
  b2 = b2
  None = None
  Browsers <- MCBrowsers
  WebOf <- MCWebOf
  Requests <- MCRequests
  Webs <- MCOneWeb
  MaxSnapshots = 1
  MaxLosses = 0
SPECIFICATION Spec
PROPERTY ForwardedIsQueued
CHECK_DEADLOCK FALSE
