CONSTANTS
    v1 = v1
    v2 = v2
    None = None
    Version = {v1, v2}
    Kind = {"triage_issue", "handle_comment", "handle_review", "review_pr", "handle_release_ci"}
    MaxReminders = 1
    MaxRetries = 1
    MaxEntries = 1
    MaxRestarts = 0
SPECIFICATION FairSpec
CHECK_DEADLOCK FALSE
INVARIANT EntriesMatchTheirKey
