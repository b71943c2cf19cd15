SPECIFICATION CrawlerSpec
CONSTANTS
    all_repos = all_repos
    none = none
    u1 = u1
    u2 = u2
    Payload = {all_repos, none}
    NoPayload = none
    AllRepos = all_repos
    Update = {u1, u2}
    MaxTriggers = 2
    MaxPauses = 1
    MaxErrors = 1
INVARIANTS CrawlerTypeOK NotStranded OneStepQueued PauseExcludesWork
PROPERTIES UpdatesServed CancelEnds ImplementsWakeup
CHECK_DEADLOCK FALSE
