SPECIFICATION MCSpec
CONSTANTS
    rate = rate
    Engines = {e1, e2}
    Order <- OneRule
    Graded = {}
    EnvKey = FALSE
    MaxAlerts = 2
    MaxFaults = 1
    None = None
INVARIANTS MailedOnce AcknowledgedIsQuiet
PROPERTIES Mailed Cleared
CHECK_DEADLOCK FALSE
