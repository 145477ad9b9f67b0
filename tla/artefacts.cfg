SPECIFICATION Spec
CONSTANTS
  NumReviews = 2
  NumDays = 2
  Prs = {1}
  PrOf <- SamePr
  Names = {"whole_review", "leaf"}
  NamesOf <- OneLeaf
  Jobs <- TwoReviews
  MaxCrashes = 2
INVARIANTS
  RecordIsWhole
  PrintedAsRecorded
  IngestIsWhole
PROPERTIES
  ImplementsRecords
