SPECIFICATION MCSpec
CONSTANTS
    Conns = {c1, c2}
    Tasks = {r1, r2}
    Targets = {t1, t2}
    Host = t1
    KubeteeAge = 2
    MaxAge = 1
    MaxIdleAge = 1
    MaxRequests = 2
    MaxIdle = 1
    Attempts = 2
    Deadlines = {1}
    MaxTime = 1
    None = None
INVARIANTS PoolSound DeliveredOnce
PROPERTIES ForwardAnswers SentOnlyAttested
