SPECIFICATION FairSpec
CONSTANTS
  Records = {r1}
  Requests = {q1, q2, q3}
  Archive = 2
  MaxLag = 1
PROPERTIES
  DeletedLongResolved
  AnswerIsTrue
  ResolvedLeaves
