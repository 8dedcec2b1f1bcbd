\* A row enters below what another request is deleting.
SPECIFICATION Spec
CONSTANTS
  s1 = s1  s2 = s2  p1 = p1  p2 = p2  m1 = m1  i1 = i1  d1 = d1  q1 = q1  q2 = q2
  NoRow = NoRow
  Subjects = {s1, s2}
  Plans = {p1, p2}
  Modules = {m1}
  Items = {i1}
  Documents = {d1}
  Requests = {q1, q2}
  Trees <- SmallTrees
  LateEntries = TRUE
INVARIANT NoLiveBelowDeleted
CHECK_DEADLOCK FALSE
