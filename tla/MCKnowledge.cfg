\* Three imports of a changing file and four publications.
CONSTANTS
  k1 = k1
  k2 = k2
  t1 = t1
  t2 = t2
  i1 = i1
  i2 = i2
  i3 = i3
  Key = {k1, k2}
  Text = {t1, t2}
  MaxVersion = 3
  Publication = {p1, p2, p3, p4}
  Import = {i1, i2, i3}
  FilesOf <- ChangingFiles
  None = None
SPECIFICATION Spec
SYMMETRY Interchangeable
INVARIANTS KnowledgeInvariant OnePublishedVersion
PROPERTIES ImportIsStored ImplementsApprovedKnowledge
CHECK_DEADLOCK FALSE
