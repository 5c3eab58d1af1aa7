\* Calls about the DaemonSet and the status fail, for a time or for good.
SPECIFICATION FairSpec
CONSTANTS
    offline = offline
    online = online
    Config <- MCOnline
    Online <- MCOnline
    NoConfig = NoConfig
    Refusable = {"daemonset", "status"}
    MaxUid = 1
    MaxGeneration = 1
PROPERTIES
    StatusSettles
    ErrorIsReported
