SPECIFICATION FairLogsSpec
CONSTANTS
  None = None
  Runs = {r1, r2, r3}
  Requests = {q1}
  Permits = 2
  ReaderCapacity = 2
  MaxActive = 2
  PageLimit = 2
  MaxRetained = 2
  DiskBudget = 2
  Budgets <- LogBudgets
  FileBytes = 2
  FileCount = 3
  MemoryBytes = 3
  ChunkBytes = 2
  Texts <- StreamTexts
  MaxBytes = 6
  MaxFailures = 2
  CodePage <- TextCodePage
  Pipelines <- TextPipelines
CHECK_DEADLOCK FALSE
INVARIANTS
  FilesStayWhileUsed
  SlotsAreReclaimable
  DiskIsAccounted
  ReadsAreFaithful
  TextIsSafe
PROPERTIES
  MarkedLogsGo
  AllIsTold
