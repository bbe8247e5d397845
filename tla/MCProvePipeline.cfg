SPECIFICATION Spec
CONSTANTS
    N = 4
    K = 3
    AudLimit = 4
    Auds = {app1, app2}
    Issuers = {google, kakao}
    Subs = {alice, bob}
    Keys = {key1}
    Ops = {op1, op2}
    Exps = {t1, t2}
    Forbidden = Forbidden
    Nobody = Nobody
    Workers = 2
    MaxCalls = 2
    google = google
    kakao = kakao
    app1 = app1
    app2 = app2
    alice = alice
    bob = bob
    op1 = op1
    op2 = op2
    t1 = t1
    t2 = t2
    key1 = key1
    Requests <- MCRequests
INVARIANTS NoBufferLeaks ProofWorkIsEarned
PROPERTIES ImplementsProveService AnsweredAsDeserved
CHECK_DEADLOCK FALSE
