CONSTANTS
    Creators = {c1}
    NULL = NULL
    EINTR = EINTR
SPECIFICATION Spec
INVARIANTS EintrMeansNeverWoken
