\* One resource that changes its mode.
SPECIFICATION Spec
CONSTANTS
    offline = offline
    online = online
    Config <- MCConfig
    Online <- MCOnline
    NoConfig = NoConfig
    Refusable = {}
    MaxUid = 1
    MaxGeneration = 2
PROPERTY
    ReadyIsCurrent
