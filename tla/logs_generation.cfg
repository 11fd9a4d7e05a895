SPECIFICATION ReadersSpec
CONSTANTS
  None = None
  Runs = {r1, r2}
  Requests = {q1}
  Permits = 2
  ReaderCapacity = 1
  MaxActive = 1
  PageLimit = 2
  MaxRetained = 2
  DiskBudget = 3
  Budgets <- CalmBudgets
  FileBytes = 2
  FileCount = 3
  MemoryBytes = 3
  ChunkBytes = 2
  Texts <- StreamTexts
  MaxBytes = 6
  MaxFailures = 2
  CodePage <- TextCodePage
  Pipelines <- TextPipelines
CHECK_DEADLOCK FALSE
INVARIANTS
  OffsetsKeepTheirGeneration
