\* The PIID index after a partial failure.
SPECIFICATION Spec
CONSTANTS
    p1 = p1
    p2 = p2
    d1 = d1
    d2 = d2
    Malformed = Malformed
    NoSecret = NoSecret
    Damaged = Damaged
    Never = Never
    Platform = {p1}
    Data = {d1, d2}
    MAX_CONCURRENT_REGISTRATIONS = 1
    REGISTRATION_RETRY_DELAY = 2
    K8S_API_WATCH_ERROR_BACKOFF = 1
    RetryAfter = {0, 2}
    Refusable = {d2}
    Edited = {p1}
    Tampered = {p1}
INVARIANTS
    IndexCoversRegistered
