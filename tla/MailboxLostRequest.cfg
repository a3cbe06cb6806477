\* Does "other core resets the gate" mean that it is done?
CONSTANTS
  WordMax <- MCWordMax
  Sent <- MCSent
  PollLimit <- MCPollLimit
SPECIFICATION Spec
INVARIANT ResetMeansDone
