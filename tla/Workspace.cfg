SPECIFICATION Spec
CONSTANTS
  Portfolio = {p1}
  Folder = {f1}
  Session = {s1, s2}
  None = None
  Tags <- MCTags
  MaxTags = 5
  Prompts <- MCPrompts
  Schemas <- MCSchemas
  Drafts <- MCDrafts
  Slots = {"checklist", "merged"}
  MaxRows = 2
  Cap = 1
  MaxFiles = 2
  MaxKeys = 2
  MaxTimes = 1
  MaxTotal = 2
SYMMETRY Symmetry
CHECK_DEADLOCK FALSE
INVARIANT TypeOK
INVARIANT Unambiguous
INVARIANT TemplateFound
INVARIANT QuotaOvershoot
INVARIANT UploadedKept
PROPERTY ActivationLocal
