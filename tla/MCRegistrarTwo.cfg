\* Two platforms, two inputs, two slots; the secret of one of them changes.
SPECIFICATION Spec
CONSTANTS
    p1 = p1
    p2 = p2
    d1 = d1
    d2 = d2
    Malformed = Malformed
    NoSecret = NoSecret
    Damaged = Damaged
    Never = Never
    Platform = {p1, p2}
    Data = {d1, d2}
    MAX_CONCURRENT_REGISTRATIONS = 2
    REGISTRATION_RETRY_DELAY = 1
    K8S_API_WATCH_ERROR_BACKOFF = 1
    RetryAfter = {1, 2}
    Refusable = {}
    Edited = {p1}
    Tampered = {}
INVARIANTS
    Inv
PROPERTIES
    RetryAfterRespected
    NoRedundantRegistration
