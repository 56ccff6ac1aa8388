SPECIFICATION SourcesSpec
CONSTANTS
    Save = {s1, s2}
    Adapter = {"arxiv"}
    PageSize <- MCPageSize
    Listings = {3}
    Requested = {2}
    MaxFaults = 0
    Delay = 2
    Attempts = 1
PROPERTY ConsecutiveRequestsArePaced
CHECK_DEADLOCK FALSE
