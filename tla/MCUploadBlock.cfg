CONSTANTS
  FileLength = 5
  TaskNum = 2
  AutoNumTasks = 1
  BufSize = 2
  IOErrors = TRUE
  CloseErrors = TRUE

SPECIFICATION USpec

CHECK_DEADLOCK FALSE

PROPERTY UploadTerminates
