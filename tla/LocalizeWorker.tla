--------------------------- MODULE LocalizeWorker ---------------------------
(***************************************************************************)
(* The matcher in a subprocess (src/src/nav/localize/localize_worker.py).  *)
(* Several threads call it at once: the localization supervisor, a start-  *)
(* up, a command of the user.  They share one pool of one worker process,  *)
(* which keeps the maps it was sent by their token; a caller that sees the *)
(* pool fail kills whichever pool is there and may start another.          *)
(*                                                                         *)
(* A call names a map; what the matcher finds on it is left out, but the   *)
(* map it found it on is kept.  Pools are counted modulo those that some   *)
(* call still holds.                                                       *)
(***************************************************************************)
EXTENDS Naturals, FiniteSets, Sequences

CONSTANTS
    Callers,
    Maps,           \* the maps each of them asks about, [walls, origin]: two may have the same walls
    CacheMax        \* _MAP_CACHE_MAX

ASSUME WorkerAssumption == CacheMax \in Nat \ {0} /\ IsFiniteSet(Callers)

VARIABLES
    enabled,        \* _enabled
    pool,           \* _pool, 0 when there is none
    sent,           \* _sent_tokens
    pools,          \* of each pool: whether it runs, its jobs, the maps its worker holds
    call            \* of each thread: where it is in call()

workerVars == <<enabled, pool, sent, pools, call>>

\* A pool nobody holds any more gives its number to a new one.
PoolIds == 1 .. Cardinality(Callers)

Fresh == [status |-> "up", jobs |-> <<>>, held |-> <<>>]
NoMap == [walls |-> 0, origin |-> 0]
Idle == [at |-> "idle", map |-> NoMap, pool |-> 0, try |-> 1, retry |-> FALSE, answer |-> "none", on |-> NoMap]

\* hash over the cells, the resolution and the origin
TokenOfWalls(m) == m.walls
Token(m) == m

WorkerInit ==
    /\ enabled \in BOOLEAN
    /\ pool = 0 /\ sent = {}
    /\ pools = [p \in PoolIds |-> [Fresh EXCEPT !.status = "shut"]]
    /\ call = [c \in Callers |-> Idle]

Goes(c, place) == call' = [call EXCEPT ![c].at = place]

\* A failure: the pool is killed, then there may be another attempt.
Kills(c, retry) == call' = [call EXCEPT ![c] = [@ EXCEPT !.at = "kill", !.pool = 0, !.retry = retry, !.answer = "none", !.on = NoMap]]

\* The call returns, with what was found or with an error.
Returns(c) == [call EXCEPT ![c] = Idle]

-----------------------------------------------------------------------------
(* The worker process.                                                     *)

HasToken(held, t) == \E i \in DOMAIN held : held[i].token = t
MapOf(held, t) == held[CHOOSE i \in DOMAIN held : held[i].token = t].map

\* The map that came with the job is kept under its token; the oldest goes when
\* the cache is full.
Keep(held, m) ==
    LET room == IF Len(held) >= CacheMax THEN Tail(held) ELSE held
        entry == [token |-> Token(m), map |-> m]
    IN IF HasToken(room, Token(m))
       THEN [i \in DOMAIN room |-> IF room[i].token = Token(m) THEN entry ELSE room[i]]
       ELSE Append(room, entry)

\* The calls that wait for a job: none once the wait has timed out.
Waiters(jobs) == UNION {jobs[i].by : i \in DOMAIN jobs}

\* Each call that waits for a job gets its answer.
Answer(jobs, answer) ==
    [c \in Callers |-> IF c \in Waiters(jobs) THEN [call[c] EXCEPT !.answer = answer] ELSE call[c]]

\* The job at the head is done: the matcher finds something, or raises.
WorkerCall(p) ==
    /\ pools[p].status # "broken" /\ pools[p].jobs # <<>>
    /\ LET job == Head(pools[p].jobs)
           held == IF job.with THEN Keep(pools[p].held, job.map) ELSE pools[p].held
       IN /\ pools' = [pools EXCEPT ![p].jobs = Tail(@), ![p].held = held]
          /\ IF HasToken(held, Token(job.map))
             THEN \E answer \in {"found", "raised"} :
                    call' = [c \in Callers |->
                                IF c \in job.by
                                THEN [call[c] EXCEPT !.answer = answer, !.on = MapOf(held, Token(job.map))]
                                ELSE call[c]]
             ELSE call' = Answer(<<job>>, "not cached")
    /\ UNCHANGED <<enabled, pool, sent>>

\* The process dies (out of memory, a native fault): every job of the pool fails.
Breaks(p) ==
    /\ pools[p].status # "broken" /\ pools[p].jobs # <<>>
    /\ pools' = [pools EXCEPT ![p] = [Fresh EXCEPT !.status = "broken"]]
    /\ call' = Answer(pools[p].jobs, "broken")
    /\ UNCHANGED <<enabled, pool, sent>>

-----------------------------------------------------------------------------
(* A thread in call().                                                     *)

Unheld(c) == {p \in PoolIds : \A d \in Callers \ {c} : call[d].pool # p}

\* Where a caller goes on with a pool in its hands.
With(p, going) == IF going.at = "idle" THEN going ELSE [going EXCEPT !.pool = p]

\* _ensure_pool: the pool there is, or a new one unless none can be started.  A
\* caller without a pool falls back: the matcher runs in its own thread, touches
\* nothing shared, and the call returns.
EnsurePool(c, going) ==
    \/ /\ ~enabled
       /\ call' = Returns(c) /\ UNCHANGED <<enabled, pool, sent, pools>>
    \/ /\ enabled /\ pool # 0
       /\ call' = [call EXCEPT ![c] = With(pool, going)]
       /\ UNCHANGED <<enabled, pool, sent, pools>>
    \/ /\ enabled /\ pool = 0
       /\ pool' = (CHOOSE p \in Unheld(c) : TRUE) /\ sent' = {}
       /\ pools' = [pools EXCEPT ![pool'] = Fresh]
       /\ call' = [call EXCEPT ![c] = With(pool', going)]
       /\ UNCHANGED enabled
    \/ /\ enabled /\ pool = 0 /\ enabled' = FALSE
       /\ call' = Returns(c)
       /\ UNCHANGED <<pool, sent, pools>>

Start(c, m) ==
    /\ call[c].at = "idle"
    /\ EnsurePool(c, [Idle EXCEPT !.at = "submit", !.map = m])

\* The map goes along unless the worker was sent it.  A pool that another
\* thread shut down refuses the job with a RuntimeError, which is taken for the
\* matcher's own; a process that cannot be started raises another error.
Submit(c) ==
    /\ call[c].at = "submit"
    /\ LET p == call[c].pool IN
       \/ /\ pools[p].status = "up"
          /\ pools' = [pools EXCEPT ![p].jobs =
                        Append(@, [by |-> {c}, map |-> call[c].map, with |-> Token(call[c].map) \notin sent])]
          /\ Goes(c, "wait")
       \/ /\ pools[p].status = "broken"
          /\ Kills(c, TRUE) /\ UNCHANGED pools
       \/ /\ pools[p].status = "shut"
          /\ call' = Returns(c) /\ UNCHANGED pools
       \/ /\ pools[p].status = "up"
          /\ Kills(c, FALSE) /\ UNCHANGED pools
    /\ UNCHANGED <<enabled, pool, sent>>

\* The loop has two attempts.
LastTryNever(c) == FALSE
LastTry(c) == call[c].try = 2

Collect(c) ==
    /\ call[c].at = "wait"
    /\ \/ /\ call[c].answer = "found"
          /\ sent' = sent \cup {Token(call[c].map)}
          /\ call' = Returns(c)
       \/ /\ call[c].answer = "raised"
          /\ call' = Returns(c) /\ UNCHANGED sent
       \/ /\ call[c].answer = "not cached"
          /\ sent' = sent \ {Token(call[c].map)}
          /\ call' = IF LastTry(c) THEN Returns(c)
                     ELSE [call EXCEPT ![c].at = "submit", ![c].try = 2, ![c].answer = "none"]
       \/ /\ call[c].answer = "broken"
          /\ Kills(c, TRUE) /\ UNCHANGED sent
       \/ /\ call[c].answer = "cancelled"
          /\ Kills(c, FALSE) /\ UNCHANGED sent
    /\ UNCHANGED <<enabled, pool, pools>>

\* call_timeout_s: the job is left where it is.
WithoutWaiter(jobs, c) == [i \in DOMAIN jobs |-> [jobs[i] EXCEPT !.by = @ \ {c}]]

TimesOut(c) ==
    /\ call[c].at = "wait" /\ call[c].answer = "none"
    /\ Kills(c, FALSE)
    /\ pools' = [pools EXCEPT ![call[c].pool].jobs = WithoutWaiter(@, c)]
    /\ UNCHANGED <<enabled, pool, sent>>

\* What a caller does once the pool is dead: a broken one is tried again.
After(c) == IF call[c].retry THEN [call EXCEPT ![c].at = "ensure", ![c].pool = 0] ELSE Returns(c)

\* _kill_pool, under the lock: whichever pool is there by now is taken away.
KillPool(c) ==
    /\ call[c].at = "kill"
    /\ pool' = 0 /\ sent' = {}
    /\ call' = IF pool = 0 THEN After(c) ELSE [call EXCEPT ![c].at = "shut", ![c].pool = pool]
    /\ UNCHANGED <<enabled, pools>>

\* Whether a submit to the dead pool will find it shut or broken is a race; it
\* does not matter once nobody holds it.
DeadAs(c, p) == {s \in {"shut", "broken"} : IF p \in Unheld(c) THEN s = "shut" ELSE pools[p].status = "broken" => s = "broken"}

\* After the lock: its process is killed and it is shut down; its jobs fail or
\* are cancelled.
Shut(c) ==
    /\ call[c].at = "shut"
    /\ LET p == call[c].pool
           w == Waiters(pools[p].jobs)
       IN \E status \in DeadAs(c, p), answers \in [w -> {"broken", "cancelled"}] :
            /\ pools' = [pools EXCEPT ![p] = [Fresh EXCEPT !.status = status]]
            /\ call' = [d \in Callers |-> IF d \in w THEN [call[d] EXCEPT !.answer = answers[d]] ELSE After(c)[d]]
    /\ UNCHANGED <<enabled, pool, sent>>

\* The second attempt takes the pool there is by then; after it there is none.
Retry(c) ==
    /\ call[c].at = "ensure"
    /\ EnsurePool(c, IF LastTry(c) THEN Idle ELSE [Idle EXCEPT !.at = "submit", !.map = call[c].map, !.try = 2])

\* close(), when the service is configured anew or ends: the job under way ends,
\* the others are cancelled.
Close ==
    /\ pool # 0 /\ pool' = 0
    /\ pools' = [pools EXCEPT ![pool].status = IF @ = "broken" THEN @ ELSE "shut",
                              ![pool].jobs = IF Waiters(@) = {} THEN <<>> ELSE <<Head(@)>>]
    /\ call' = IF pools[pool].jobs = <<>> THEN call ELSE Answer(Tail(pools[pool].jobs), "cancelled")
    /\ UNCHANGED <<enabled, sent>>

Steps(c) == Submit(c) \/ Collect(c) \/ TimesOut(c) \/ KillPool(c) \/ Shut(c) \/ Retry(c)

WorkerNext ==
    \/ \E c \in Callers : Steps(c) \/ \E m \in Maps[c] : Start(c, m)
    \/ \E p \in PoolIds : WorkerCall(p) \/ Breaks(p)
    \/ Close

WorkerSpec == WorkerInit /\ [][WorkerNext]_workerVars

-----------------------------------------------------------------------------
(* What a call answers was matched on the map it was called with, although *)
(* the worker finds the map by a token, drops old maps, dies, and has jobs *)
(* of several callers.                                                     *)
RightMap == \A c \in Callers : call[c].answer = "found" => call[c].on = call[c].map

(* Every call returns, however often workers die and callers kill each     *)
(* other's pools (localize_worker.py:20-21, "localization never stops").   *)
CallsReturn == \A c \in Callers : call[c].at # "idle" ~> call[c].at = "idle"
=============================================================================
