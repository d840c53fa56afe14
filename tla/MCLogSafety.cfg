\* Rotation at midnight under two writers, :clear-runtime and restarts.
SPECIFICATION Spec
CONSTANTS
  ui = ui
  worker = worker
  Thread <- MCThread
  UI = ui
  MaxDay = 3
  MaxLines = 2
INVARIANTS
  TypeOK
  LinesInOrder
  FileOfTheDay
  LinesKept
