SPECIFICATION Spec
CONSTANTS
  h1 = h1  h2 = h2  h3 = h3  h4 = h4
  t1 = t1  t2 = t2
  d1 = d1  d2 = d2
  Handle = {h1, h2, h3, h4}
  Foreign = {f1}
  Data = {d1, d2}
  Uninit = Uninit
  Null = Null
  Thread = {t1, t2}
  Slot = {s1, s2}
  Var = {v1, v2}
INVARIANT NoLeak
