SPECIFICATION Spec
CONSTANTS
  Content <- MCContent
  Unsafe = {}
  ProfileOf <- MCProfileOf
  DocumentOf <- MCDocumentOf
  Name <- MCName
  Normal <- MCNormal
  RoastedAt <- MCRoastedAt
  Path <- MCPath
  FirstNotebooks <- MCFirstNotebooks
  Queries <- MCQueries
  MaxWrites = 3
  MaxRestarts = 1
INVARIANTS
  LibraryAgrees
  PagesWhole
  SeriesIsOwn
