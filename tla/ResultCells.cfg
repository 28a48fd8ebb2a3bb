CONSTANTS
  Blogs = {b1, b2}
  NoBlog = NoBlog
  Cells = {c1, c2}
  MaxRows = 2
  MaxUses = 3
SPECIFICATION Spec
INVARIANT WrongImageIsExplained
PROPERTY RightImageLostOnlyToReuse
