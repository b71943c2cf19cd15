SPECIFICATION CrawlerSpec
CONSTANTS
    all_repos = all_repos
    none = none
    u1 = u1
    u2 = u2
    Payload = {all_repos, none}
    NoPayload = none
    AllRepos = all_repos
    Update = {u1, u2}
    MaxTriggers = 2
    MaxPauses = 0
    MaxErrors = 0
PROPERTIES PeriodicCrawl
CHECK_DEADLOCK FALSE
