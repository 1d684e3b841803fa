----------------------------- MODULE RiskTracker ------------------------------
(***************************************************************************)
(* backend/modules/risk_tracker.py: GlobalRiskTracker.  flag_risky_pool()  *)
(* makes four calls of Redis, check_pool_risk() two; each is a step here,  *)
(* and a client may break between them.  The flag and its metadata live    *)
(* for 30 minutes each, the counter for ever.                              *)
(***************************************************************************)
EXTENDS Integers, FiniteSets, NoneValue

CONSTANTS
    Clients,
    SpotPools,
    MaxFlags   \* bound on the calls of flag_risky_pool()

ASSUME ClientsAssumption == IsFiniteSet(Clients)

VARIABLES
    risk,       \* pools with a key RISK:{az}:{type}
    metadata,   \* pools with a key RISK:{az}:{type}:metadata
    count,      \* interruption_history:{region}:{az}:{type}
    call,       \* what each client is doing
    flags,      \* history: how often each pool was flagged,
    published,  \*          how often that was published,
    broken      \*          and how often a call broke before its last step

riskVars == <<risk, metadata, count, call, flags, published, broken>>

NoCall == [step |-> "idle", pool |-> None, todo |-> {}, list |-> {}, held |-> {}]

Calling(c, step) == call[c].step = step

Become(c, step) == call' = [call EXCEPT ![c].step = step]

\* The key of a pool goes away: no call that read it holds it any more.
KeyGone(p) == [c \in Clients |-> [call[c] EXCEPT !.held = @ \ {p}]]

RiskInit ==
    /\ risk = {} /\ metadata = {}
    /\ count = [p \in SpotPools |-> 0]
    /\ call = [c \in Clients |-> NoCall]
    /\ flags = [p \in SpotPools |-> 0]
    /\ published = [p \in SpotPools |-> 0]
    /\ broken = [p \in SpotPools |-> 0]

-----------------------------------------------------------------------------
\* flag_risky_pool()
SetFlag(c, p) ==
    /\ Calling(c, "idle") /\ flags[p] < MaxFlags
    /\ risk' = risk \cup {p}
    /\ flags' = [flags EXCEPT ![p] = @ + 1]
    /\ call' = [call EXCEPT ![c] = [NoCall EXCEPT !.step = "count", !.pool = p]]
    /\ UNCHANGED <<metadata, count, published, broken>>

\* Mutant: the counter is written with the value that was read at the start.
CountMutant(c) ==
    /\ Calling(c, "count")
    /\ count' = [count EXCEPT ![call[c].pool] = published[call[c].pool] + 1]
    /\ \E step \in {"meta", "publish"} : Become(c, step)
    /\ UNCHANGED <<risk, metadata, flags, published, broken>>

\* With or without metadata
Count(c) ==
    /\ Calling(c, "count")
    /\ count' = [count EXCEPT ![call[c].pool] = @ + 1]
    /\ \E step \in {"meta", "publish"} : Become(c, step)
    /\ UNCHANGED <<risk, metadata, flags, published, broken>>

SetMetadata(c) ==
    /\ Calling(c, "meta")
    /\ metadata' = metadata \cup {call[c].pool}
    /\ Become(c, "publish")
    /\ UNCHANGED <<risk, count, flags, published, broken>>

Publish(c) ==
    /\ Calling(c, "publish")
    /\ published' = [published EXCEPT ![call[c].pool] = @ + 1]
    /\ call' = [call EXCEPT ![c] = NoCall]
    /\ UNCHANGED <<risk, metadata, count, flags, broken>>

\* A call of Redis raises in the middle of flag_risky_pool().
BreakOff(c) ==
    /\ call[c].step \in {"count", "meta", "publish"}
    /\ broken' = [broken EXCEPT ![call[c].pool] = @ + 1]
    /\ call' = [call EXCEPT ![c] = NoCall]
    /\ UNCHANGED <<risk, metadata, count, flags, published>>

-----------------------------------------------------------------------------
\* check_pool_risk() reads one key, get_all_risky_pools() all of them; both
\* then read the time left of each key they found, one after the other.
\* "held" are the keys found that have been there without a break since.
Read(c, pools) ==
    /\ Calling(c, "idle")
    /\ call' = [call EXCEPT ![c] =
                  [NoCall EXCEPT !.step = "read", !.todo = pools, !.held = pools]]
    /\ UNCHANGED <<risk, metadata, count, flags, published, broken>>

CheckPool(c, p) == Read(c, {p} \cap risk)

\* The keys of the metadata match RISK:* too, and are dropped: they have four
\* parts.  The scan is one step although it takes a call of Redis for each part of
\* the keys, with the reads of the time left in between: a key that is there from
\* its beginning to its end is found in any case, and nothing is asked of others.
AllPools(c) == Read(c, risk)

\* The key may have gone since it was found: Redis then answers -2.
TimeLeft(p) == IF p \in risk THEN 1 ELSE -2

ReadTime(c, p) ==
    /\ Calling(c, "read") /\ p \in call[c].todo
    /\ call' = [call EXCEPT ![c].todo = @ \ {p},
                            ![c].list = @ \cup {[pool |-> p, ttl |-> TimeLeft(p)]}]
    /\ UNCHANGED <<risk, metadata, count, flags, published, broken>>

Answer(c) ==
    /\ Calling(c, "read") /\ call[c].todo = {}
    /\ call' = [call EXCEPT ![c] = NoCall]
    /\ UNCHANGED <<risk, metadata, count, flags, published, broken>>

\* clear_pool_flag() leaves the metadata and the counter as they are.
ClearFlag(p) ==
    /\ p \in risk
    /\ risk' = risk \ {p}
    /\ call' = KeyGone(p)
    /\ UNCHANGED <<metadata, count, flags, published, broken>>

ExpireFlag(p) ==
    /\ p \in risk
    /\ risk' = risk \ {p}
    /\ call' = KeyGone(p)
    /\ UNCHANGED <<metadata, count, flags, published, broken>>

ExpireMetadata(p) ==
    /\ p \in metadata
    /\ metadata' = metadata \ {p}
    /\ UNCHANGED <<risk, count, call, flags, published, broken>>

RiskNext ==
    \/ \E c \in Clients :
         \/ \E p \in SpotPools : SetFlag(c, p) \/ CheckPool(c, p) \/ ReadTime(c, p)
         \/ Count(c) \/ SetMetadata(c) \/ Publish(c) \/ BreakOff(c)
         \/ AllPools(c) \/ Answer(c)
    \/ \E p \in SpotPools : ClearFlag(p) \/ ExpireFlag(p) \/ ExpireMetadata(p)

RiskSpec == RiskInit /\ [][RiskNext]_riskVars

-----------------------------------------------------------------------------
\* The counter, which is what the spot optimizer reads as history, counts
\* every flagging but those still at their first call or broken there, and
\* no interruption is published that was not counted.
FlagsAreCounted ==
    \A p \in SpotPools :
      LET InCall(steps) == Cardinality({c \in Clients :
                             call[c].pool = p /\ call[c].step \in steps})
      IN /\ published[p] + InCall({"meta", "publish"}) <= count[p]
         /\ count[p] + InCall({"count"}) <= flags[p]
         /\ flags[p] = published[p] + broken[p] + InCall({"count", "meta", "publish"})

\* A pool that is answered to be risky was flagged when the call found it; a
\* pool flagged from then on is always answered, with the time it has left,
\* and a negative time says that the flag was cleared or ran out on the way.
AnswerMatchesFlag ==
    \A c \in Clients : Calling(c, "read") =>
      /\ \A answer \in call[c].list :
           /\ answer.ttl < 0 => answer.pool \notin call[c].held
           /\ flags[answer.pool] > 0
      /\ call[c].held \subseteq call[c].todo \cup {answer.pool : answer \in call[c].list}

\* Every flagging that was published is counted, and the list of risky pools
\* has every pool that was flagged throughout the call.
RisksAreKnown == FlagsAreCounted /\ AnswerMatchesFlag
=============================================================================
