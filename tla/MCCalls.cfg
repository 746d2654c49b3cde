SPECIFICATION Spec
CONSTANTS
    Ids = {"x", "sizing", ".", ".."}
    Absent = "absent"
    BaseURLs <- SomeBaseURLs
    ReplyCodes = {200, 202, 404, 415}
    MaxKeys = 2
INVARIANTS TypeOK RoutesIdentify BelowBaseURL OwnCredentials
