SPECIFICATION FairSpec
CONSTANTS
  q1 = q1
  q2 = q2
  q3 = q3
  NoSubmission = NoSubmission
  Requests <- MCRequests
  Submissions <- MCSubmissions
  NumTests = 2
  Endings = {"same", "wrong", "unreadable"}
  Known = {"cpp", "py3"}
  Native = {"cpp"}
  AllowCustomChecker = TRUE
  MaxInflight = 2
  MaxRaised = 1
INVARIANTS GivenBack ArtifactsInPlace FirstFailureReported
PROPERTY Answered
