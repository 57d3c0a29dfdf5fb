CONSTANTS
  ProductCount = 4
  Categories = {c1, c2}
  MaxRows = 2
  MaxNative = 2
  MaxSections = 1
  MaxEdits = 2
SPECIFICATION Spec
INVARIANTS
  TypeOK
  PageFits
  EveryProductReachable
  CategoriesStayTogether
PROPERTIES
  MoreIsNeverEmpty
