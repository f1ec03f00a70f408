\* Two sends at a time, the same request id or not; summaries fail, sends are cut short.
SPECIFICATION MessagesSpec
CONSTANTS
  s1 = s1
  s2 = s2
  q1 = q1
  q2 = q2
  q3 = q3
  Sends <- TwoSends
  RequestIds <- ThreeRequests
  Threshold = 2
  Keep = 1
  HistoryLimit = 4
  MaxMessages = 6
  MaxSetbacks = 1
SYMMETRY Symmetric
INVARIANTS MessagesTypeOK NothingForgotten EachIsCounted
PROPERTY SecondReplyWasUnderWay
CHECK_DEADLOCK FALSE
