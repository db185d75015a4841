\* The upload form of the transcript page and the scheduling form.
SPECIFICATION PagesSpec
CONSTANTS
  x1 = x1
  x2 = x2
  t1 = t1
  t2 = t2
  Requests = {q1, q2}
  Submissions = {s1, s2, s3}
  Plans <- TwoPlans
  Blank = "blank"
  Existing = "existing"
  Texts = {x1, x2}
  NoText = NoText
  Tabs = {t1, t2}
  Organizers = {t1, t2}
  Files <- SomeFiles
  NoRequest = NoRequest
CONSTRAINT SecondTabTypes
SYMMETRY CallSymmetry
CHECK_DEADLOCK FALSE
INVARIANTS
  ShownIsStored
  CopiesAreOfRetries
  
