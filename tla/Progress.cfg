SPECIFICATION ProgressSpec
CHECK_DEADLOCK FALSE
PROPERTIES QueuedTasksServed AttemptsEnd UsageArrives DraftsArrive
