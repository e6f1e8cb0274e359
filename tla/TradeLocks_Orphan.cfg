CONSTANTS
  h1 = h1
  h2 = h2
  fb = fb
  s1 = s1
  s2 = s2
  s3 = s3
  Hook = {h1, h2}
  TsTrade = {}
  Signal = {s1, s2, s3}
  Manual = {m1}
  Target <- TwiceTarget
  KeyOrder <- TwiceOrder
  Fallback = fb
  Object = {o1, o2, o3, o4, o5}
  NoLock = NoLock
  NoTask = NoTask
SPECIFICATION Spec
INVARIANTS
  NoSecondLock
