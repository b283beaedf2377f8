SPECIFICATION Spec
CONSTANTS
  q1 = q1
  q2 = q2
  q3 = q3
  NoSubmission = NoSubmission
  Requests <- MCRequests
  Submissions <- CheckerSubmissions
  NumTests = 1
  Endings = {"same", "accepted", "wrong", "crash", "unreadable"}
  Known = {"cpp", "py3"}
  Native = {"cpp"}
  AllowCustomChecker = TRUE
  MaxInflight = 2
  MaxRaised = 1
INVARIANT CheckerHonoured
