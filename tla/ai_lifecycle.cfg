SPECIFICATION MCFairSpec
CONSTANTS
  Users = {u1}
  q2 = q2
  w2 = w2
  a1 = a1
  Queries = {q1, q2}
  Workers = {w1, w2}
  Projects = {p1}
  LLMAnswers = {a1, a2}
  MaxDeliveries = 2
  NoProject = NoProject
  NoQuery = NoQuery
  NoRow = NoRow
  NoAnswer = NoAnswer
  NoEmbedding = NoEmbedding
CONSTANT Similar <- AllSimilar
INVARIANTS IInv StatusMatchesAnswer
PROPERTIES EmbeddedWithItsAnswer ImplementsPromise OldQueriesPurged
