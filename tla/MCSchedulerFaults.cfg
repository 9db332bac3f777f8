SPECIFICATION Spec
CONSTANTS
  Jobs = {j1}
  Recurring = {}
  MaxRetries = 3
  MaxTasks = 2
  SavesFail = TRUE
  MaxReloads = 1
INVARIANT SuccessIsPaid
