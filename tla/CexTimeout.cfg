SPECIFICATION LiveSpec
CONSTANTS
    Ids = {"x"}
    Absent = "absent"
    BaseURLs <- SomeBaseURLs
    ReplyCodes = {200}
    MaxKeys = 1
PROPERTIES RequestsEnd
