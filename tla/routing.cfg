SPECIFICATION Spec
CONSTANTS
  root = root
  sub = sub
  deep = deep
  p1 = p1
  p2 = p2
  p3 = p3
  Root = root
  Dirs = {root, sub, deep}
  Pages = {p1, p2, p3}
  NumIds = 3
  Wikis <- ReviewerWikis
  PromptCap = 9
  HeavyWeight = 3
  Styles <- ModelStyles
  Strays <- StrayIds
  MaxRetries = 1
  Security <- SecurityPages
  StrongIds = {3}
INVARIANTS
  WikiWalked
  ActivatedIsClosure
  LeavesReachTheModel
  MetadataSurvives
