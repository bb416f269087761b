SPECIFICATION Spec
CONSTANTS
  Key = {1, 2, 3, 4, 5, 6, 7, 8, 9}
  Nil = Nil
INVARIANT TypeOK
INVARIANT LinksAgree
INVARIANT RedRule
INVARIANT BlackHeights
INVARIANT NoNullFollowed
PROPERTY IsIndex
