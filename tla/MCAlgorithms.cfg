\* Every geometry of the camera, padded rows, ids made of the delimiters, and layouts
\* of two elements with a banner.
SPECIFICATION PartsSpec
CONSTANTS
  Widths = {1, 2, 4, 6, 8}
  Heights = {1, 2, 4, 6}
  Slacks = {0, 3}
  Outputs <- Geometries
  Overlays <- Geometries
  Alphas = {255}
  Unders = {0}
  Groups <- ShortIds
  Indices = {0, 1, 11}
  Matches <- LikeCaptures
  MaxCaptures = 2
  Opaque = 2
  LayoutElements <- SomeElements
  BannerElements <- SomeBanners
  MaxElements = 2
CHECK_DEADLOCK FALSE
INVARIANTS
  MatrixIsTheImage
  EachIsPainted
  OpacityAppliedOnce
  ListingIsFaithful
