SPECIFICATION Spec
CONSTANTS
    MaxRetries = 2
    AuthTypes = {"login", "AccessToken"}
    Instances = {i1, i2}
    NoInstance = NoInstance
    MaxTokens = 3
PROPERTIES
    RetriesEveryServerError
