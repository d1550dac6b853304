\* RMM alerts, GLPI tickets and the shared GLPI session.
CONSTANTS
    disk = disk
    command = command
    Alerts <- MCAlerts
    Commands <- MCCommands
    Severities = {"warning", "error"}
    Threshold = "error"
    Codes = {1, 5}
    MaxAtOnce = 2
    MaxRequests = 3
    MaxChanges = 2
    MaxMishaps = 2
SPECIFICATION Spec
INVARIANTS TypeOK AnnouncedOnce StoredOnce RoomUpToDate RetryHeals
CHECK_DEADLOCK FALSE
