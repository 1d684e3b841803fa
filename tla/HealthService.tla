---------------------------- MODULE HealthService ----------------------------
(***************************************************************************)
(* The health of the platform (backend/core/health_service.py): GET        *)
(* /health/system asks the database, Redis, the Celery workers, the cached *)
(* prices and AWS one after the other and makes one answer of what each of *)
(* them said at its moment; the others ask the first two of them.  What    *)
(* is asked may fail, slow down or recover between two of the questions.   *)
(* Of the cached prices one is sampled, whichever a scan finds first; it   *)
(* may expire between being found and being asked for its time to live,    *)
(* while the others stand.                                                 *)
(***************************************************************************)
EXTENDS Integers, FiniteSets, NoneValue

CONSTANTS
    PriceKeys,      \* spot_price:{region}:{az}:{type}
    MaxPartChanges  \* bound on the changes of what is asked

Parts == {"database", "redis", "workers", "aws"}
Checks == {"database", "redis", "celery", "data_freshness", "aws_connectivity"}

VARIABLES
    condition,      \* of each part: "up", "slow" (above its limit) or "down"
    price,          \* each cached price: "fresh" with more than 300 seconds to
                    \* live, "aging", "ending" (a time to live that Redis rounds
                    \* to 0) or "none"
    probe,          \* the request that is answered
    partChanges,
    stale,          \* the pooled connection is of before a failure of the database
    configured,     \* whether there are credentials for AWS
    \* history of the request: the parts that were down ("prices": no price was
    \* cached) at some moment of it, and at every one; the parts that were slow
    \* and the prices that were about to expire, or gone, at some moment
    failed, broken, wavered

healthVars == <<condition, price, probe, partChanges, stale, configured,
                failed, broken, wavered>>

healthHistory == <<failed, broken, wavered>>

HealthInit ==
    /\ condition \in [Parts -> {"up", "down"}]
    /\ price \in [PriceKeys -> {"fresh", "ending", "none"}]
    /\ probe = None /\ partChanges = 0 /\ stale = FALSE /\ configured \in BOOLEAN
    /\ failed = {} /\ broken = {} /\ wavered = {}

CachedPrices == {k \in PriceKeys : price[k] # "none"}

Bad ==
    {p \in Parts : condition[p] = "down"}
      \cup (IF CachedPrices = {} THEN {"prices"} ELSE {})

Wavering ==
    {p \in Parts : condition[p] = "slow"}
      \cup {k \in PriceKeys : price[k] \in {"ending", "none"}}

Slow(part) ==
    CASE condition[part] = "up"   -> "healthy"
      [] condition[part] = "slow" -> "degraded"
      [] condition[part] = "down" -> "unhealthy"

-----------------------------------------------------------------------------
BeginProbe(kind) ==
    /\ probe = None
    /\ probe' = [kind |-> kind, step |-> "database", checks |-> [c \in Checks |-> "none"],
                 key |-> None]
    /\ failed' = Bad /\ broken' = Bad /\ wavered' = Wavering
    /\ UNCHANGED <<condition, price, partChanges, stale, configured>>

\* get_system_health(): require_super_admin has read the user over the
\* connection that the checks use.
BeginSystem == condition["database"] # "down" /\ ~stale /\ BeginProbe("system")

\* There is no answer otherwise; an error makes the pool connect anew.
RefuseSystem ==
    /\ probe = None /\ stale /\ condition["database"] # "down"
    /\ stale' = FALSE
    /\ UNCHANGED <<condition, price, probe, partChanges, configured, healthHistory>>

\* check_readiness(), and detailed_health_check() of the gateway
BeginOther == \E kind \in {"ready", "detailed"} : BeginProbe(kind)

Step(step) == probe # None /\ probe.step = step

\* A check is entered in the answer.
Enter(check, status, next) ==
    /\ probe' = [probe EXCEPT !.checks[check] = status, !.step = next]
    /\ UNCHANGED <<condition, price, partChanges, configured, healthHistory>>

\* _check_database(): "SELECT 1" and its time
CheckDatabase ==
    /\ Step("database")
    /\ Enter("database", IF stale THEN "unhealthy" ELSE Slow("database"), "redis")
    /\ stale' = (stale /\ condition["database"] = "down")

\* _check_redis(): PING and its time, the memory being asked afterwards
CheckRedis ==
    /\ Step("redis")
    /\ Enter("redis", Slow("redis"), IF probe.kind = "system" THEN "celery" ELSE "answer")
    /\ UNCHANGED stale

\* Mutant: an inspection that fails is taken for one nobody answers.
CeleryStatusesMutant ==
    IF condition["redis"] = "down" \/ condition["workers"] # "up" THEN {"unhealthy"}
    ELSE IF condition["redis"] = "slow" THEN {"healthy", "unhealthy"} ELSE {"healthy"}

\* inspect() waits one second for answers: workers that do not run and workers
\* that are slow look alike, and over a slow broker (above 100 milliseconds) the
\* answers may come too late.
CeleryStatuses ==
    IF condition["redis"] = "down" THEN {"degraded"}
    ELSE IF condition["workers"] # "up" THEN {"unhealthy"}
    ELSE IF condition["redis"] = "slow" THEN {"healthy", "unhealthy"} ELSE {"healthy"}

\* _check_celery(): "No active Celery workers found" when nobody has answered
\* the inspection, which cannot be sent when the broker, which is Redis, is down.
CheckCelery ==
    /\ Step("celery")
    /\ \E status \in CeleryStatuses : Enter("celery", status, "scan")
    /\ UNCHANGED stale

\* _check_data_freshness() samples the first of the cached prices that is found.
ScanPrices ==
    /\ Step("scan")
    /\ UNCHANGED stale
    /\ IF condition["redis"] = "down" THEN Enter("data_freshness", "degraded", "aws")
       ELSE IF CachedPrices = {} THEN Enter("data_freshness", "unhealthy", "aws")
       ELSE /\ \E k \in CachedPrices : probe' = [probe EXCEPT !.step = "ttl", !.key = k]
            /\ UNCHANGED <<condition, price, partChanges, configured, healthHistory>>

\* What its time to live says, which is -2 of a price that is gone
Freshness(k) ==
    CASE price[k] = "fresh" -> "healthy"
      [] price[k] = "aging" -> "degraded"
      [] price[k] \in {"ending", "none"} -> "unhealthy"

ReadTtl ==
    /\ Step("ttl")
    /\ Enter("data_freshness",
             IF condition["redis"] = "down" THEN "degraded" ELSE Freshness(probe.key), "aws")
    /\ UNCHANGED stale

\* _check_aws_connectivity() with credentials; without, it says healthy.
CheckAws ==
    /\ Step("aws")
    /\ Enter("aws_connectivity", IF configured THEN Slow("aws") ELSE "healthy", "answer")
    /\ UNCHANGED stale

\* check_overall_health()
Overall(statuses) ==
    IF statuses = {"healthy"} THEN "healthy"
    ELSE IF "unhealthy" \in statuses THEN "unhealthy" ELSE "degraded"

\* check_readiness() and detailed_health_check(), which call slow well
BothWell == "unhealthy" \notin {probe.checks["database"], probe.checks["redis"]}

Answer ==
    /\ Step("answer")
    /\ probe' = [step |-> "done", kind |-> probe.kind, checks |-> probe.checks,
         key |-> probe.key,
         answer |-> CASE probe.kind = "system" -> Overall({probe.checks[c] : c \in Checks})
                      [] probe.kind = "ready" -> IF BothWell THEN "ready" ELSE "unready"
                      [] probe.kind = "detailed" -> IF BothWell THEN "healthy" ELSE "degraded"]
    /\ UNCHANGED <<condition, price, partChanges, stale, configured, healthHistory>>

Leave ==
    /\ Step("done")
    /\ probe' = None /\ failed' = {} /\ broken' = {} /\ wavered' = {}
    /\ UNCHANGED <<condition, price, partChanges, stale, configured>>

-----------------------------------------------------------------------------
\* What is asked changes, and the history of a request takes note of it.
NoteBad ==
    /\ IF probe = None \/ Step("done") THEN UNCHANGED healthHistory
       ELSE /\ failed' = failed \cup Bad' /\ broken' = broken \cap Bad'
            /\ wavered' = wavered \cup Wavering'
    /\ UNCHANGED <<probe, configured>>

ChangePart(part) ==
    /\ partChanges < MaxPartChanges /\ partChanges' = partChanges + 1
    /\ \E c \in {"up", "slow", "down"} \ {condition[part]} :
         condition' = [condition EXCEPT ![part] = c]
    /\ stale' = (stale \/ condition'["database"] = "down")
    /\ UNCHANGED price
    /\ NoteBad

\* A cached price is stored anew, ages, and expires.
Store(k) ==
    /\ partChanges < MaxPartChanges /\ partChanges' = partChanges + 1
    /\ price[k] # "fresh" /\ condition["redis"] # "down"
    /\ price' = [price EXCEPT ![k] = "fresh"]
    /\ UNCHANGED <<condition, stale>> /\ NoteBad

Age(k) ==
    /\ partChanges < MaxPartChanges /\ partChanges' = partChanges + 1
    /\ price[k] # "none"
    /\ price' = [price EXCEPT ![k] = CASE @ = "fresh"  -> "aging"
                                      [] @ = "aging"  -> "ending"
                                      [] @ = "ending" -> "none"]
    /\ UNCHANGED <<condition, stale>> /\ NoteBad

HealthNext ==
    \/ BeginSystem \/ RefuseSystem \/ BeginOther
    \/ CheckDatabase \/ CheckRedis \/ CheckCelery \/ ScanPrices \/ ReadTtl
    \/ CheckAws \/ Answer \/ Leave
    \/ \E p \in Parts : ChangePart(p)
    \/ \E k \in PriceKeys : Store(k) \/ Age(k)

HealthSpec == HealthInit /\ [][HealthNext]_healthVars

-----------------------------------------------------------------------------
\* The parts a check may blame
Blamed == [c \in Checks |-> CASE c = "database" -> "database" [] c = "redis" -> "redis"
                              [] c = "celery" -> "workers" [] c = "data_freshness" -> "prices"
                              [] c = "aws_connectivity" -> "aws"]

\* An alarm has a cause within the request: the part that a check calls
\* unhealthy was down, or no price was cached, at some moment of it.  Three of
\* them may be false alarms, each of one kind: readiness and the gateway may call
\* the database so after it has recovered, over a connection of before (the
\* system's check may not, because the same connection has served to
\* authenticate its request); workers are missing that are slow, or whose answers
\* a slow Redis holds up; and the prices have expired when the one that was
\* sampled has, or has less than half a second to live, whatever the others.
AlarmHasACause ==
    Step("done") =>
      \A c \in Checks : probe.checks[c] = "unhealthy" =>
        \/ Blamed[c] \in failed
        \/ c = "database" /\ probe.kind # "system"
        \/ c = "celery" /\ {"workers", "redis"} \cap wavered # {}
        \/ c = "data_freshness" /\ probe.key \in wavered

\* An outage that lasts from the beginning of a request to its end is told: of
\* the database or Redis every answer is the worst there is, of the workers,
\* the cached prices or AWS the system's is not "healthy".  (It may be
\* "healthy" of a system that was well at no moment: what fails behind its
\* question goes unsaid.)
OutageIsTold ==
    Step("done") =>
      /\ {"database", "redis"} \cap broken # {} =>
           probe.answer = CASE probe.kind = "system" -> "unhealthy"
                              [] probe.kind = "ready" -> "unready"
                              [] probe.kind = "detailed" -> "degraded"
      /\ probe.kind = "system" /\ broken \ (IF configured THEN {} ELSE {"aws"}) # {}
           => probe.answer # "healthy"

\* An alarm has a cause, and an outage that lasts is told.
HealthIsTold == AlarmHasACause /\ OutageIsTold
=============================================================================
