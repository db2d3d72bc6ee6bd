\* Two conversations and two signals; two messages can be in one thread at once.
CONSTANTS
    Threads = {t1, t2}
    Handlers = {h1, h2}
    Signals = {int, term}
    NoThread = none
SPECIFICATION Spec
INVARIANTS SessionsInvariant
PROPERTIES InUseNotExpired IdleSessionsGo ShutdownEnds
