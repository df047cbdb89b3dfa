CONSTANTS
  FileLength = 5
  TaskNum = 2
  AutoNumTasks = 1
  BufSize = 2
  IOErrors = TRUE
  CloseErrors = FALSE

SPECIFICATION USpec

CHECK_DEADLOCK FALSE

PROPERTY UploadTerminates
