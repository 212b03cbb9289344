CONSTANTS
    v1 = v1
    v2 = v2
    None = None
    Version = {v1, v2}
    Kind = {"triage_issue", "handle_comment", "review_pr"}
    MaxReminders = 1
    MaxRetries = 1
    MaxEntries = 1
    MaxRestarts = 1
SPECIFICATION FairSpec
CHECK_DEADLOCK FALSE
INVARIANT TypeOK
PROPERTIES DoneIsFinished AbortStands RunSettles
