\* Safety of the mailbox, the refinement and the termination of a request.
CONSTANTS
  WordMax <- MCWordMax
  Sent <- MCSent
  PollLimit <- MCPollLimit
SPECIFICATION FairSpec
INVARIANTS WordExclusion NoLostUpdate ExactReply AnswerHasAuthor IInv
PROPERTIES HangsWithoutCore1 JobReturns ImplementsHandoff
