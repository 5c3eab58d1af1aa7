\* One resource that changes its mode and is deleted; changes of its finalizer fail.
SPECIFICATION FairSpec
CONSTANTS
    offline = offline
    online = online
    Config <- MCConfig
    Online <- MCOnline
    NoConfig = NoConfig
    Refusable = {"finalizer"}
    MaxUid = 1
    MaxGeneration = 2
PROPERTIES
    Converges
    DeletionCompletes
