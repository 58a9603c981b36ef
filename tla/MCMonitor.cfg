\* Answers from two or three adapters, lost ones, and links that are idle.
SPECIFICATION Spec
CONSTANTS
  a = a
  b = b
  c = c
  Adapters <- ThreeAdapters
  A = a
  B = b
  Lids = {1, 2}
  MaxSections = 3
INVARIANTS
  TypeOK SameLink EveryAnswerPrinted
