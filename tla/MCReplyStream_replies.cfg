\* Text and two tool calls, interleaved in an OpenAI-style reply and one
\* after the other in a Claw-style one; and requests that fail, are tried
\* again, and whose replies arrive in pieces; and the Markdown of a reply, cut
\* anywhere, and the documents it may be; and clients made for models of each
\* family with the credentials there are, which may change meanwhile.
SPECIFICATION TheSpec
CONSTANTS
  Calls = {0, 1}
  Setups <- MCSetups
  MaxPieces = 2
  MaxChunks <- MCMaxChunks
  Policies <- MCPolicies
  Replies <- MCReplies
  Owners <- MCOwners
  WireReplies <- MCWireReplies
  MaxReplies = 2
  Writings <- MCWritings
  MaxDelta = 4
  Documents <- MCDocuments
  Sizes <- MCSizes
  Asked <- MCAsked
  GrokNames = {"grok", "grok-2", "grok-3", "grok-3-mini", "grok-mini", "grok-9"}
  OpusNames <- MCOpusNames
  Environments <- MCEnvironments
  MaxChanges = 1
INVARIANTS
  ReplyIsTrue
  RetriesAreHonest
  RoundsAreTold
  OnlyOfferedToolsWork
CHECK_DEADLOCK FALSE
