SPECIFICATION Spec
CONSTANTS
  h1 = h1  h2 = h2  h3 = h3  h4 = h4  h5 = h5
  d1 = d1
  a1 = a1  a2 = a2
  s1 = s1  s2 = s2
  Handle = {h1, h2, h3, h4, h5}
  Foreign = {}
  Text <- MCText
  Data <- MCData
  Uninit = Uninit
  Null = Null
  Index = {1, 2}
  Terminal = {v1}
  Arr = {a1, a2}
  Str = {s1, s2}
SYMMETRY Symmetry
CONSTRAINT Claimed
INVARIANTS OwnedOnce OwnersUsable LostOnlyWithArray SourceSurvivesClone
