\* Two resources one after the other, two generations each; calls about the
\* Deployment fail at any time.
SPECIFICATION Spec
CONSTANTS
    offline = offline
    online = online
    Config <- MCConfig
    Online <- MCOnline
    NoConfig = NoConfig
    Refusable = {"deployment"}
    MaxUid = 2
    MaxGeneration = 2
INVARIANTS
    TypeOK
    HeldWhileApplying
    Inv
    ResourceStaysDue
    AppliedOrDue
PROPERTIES
    GenerationsAdvance
    SettledRunConverges
    NoIdleWrite
