----------------------------- MODULE SingleFlight -----------------------------
(***************************************************************************)
(* single_flight (src/jarvise/jobs.py): the lock that keeps two runs of one*)
(* job apart.  A run takes "SET key token NX EX ttl" in Redis and gives it *)
(* back with a script that deletes the key only while it holds the run's   *)
(* own token.  When Redis cannot be reached the run falls back to a lock   *)
(* inside its process.  Any call to Redis may fail, before or after Redis  *)
(* has carried it out; a process may die with its runs.                    *)
(***************************************************************************)
EXTENDS Naturals

CONSTANTS
    Process,    \* the jobs service, a CLI, a worker
    Thread,     \* request threads of one process
    Token,      \* what secrets.token_hex can return
    TTL,        \* JOB_LOCK_TTL_S of the job, in ticks
    NoToken

ASSUME FlightAssumption == TTL \in Nat \ {0} /\ NoToken \notin Token

VARIABLES
    lock,       \* the Redis key: its token and the ticks left before it lapses
    local,      \* local[p]: the in-process lock of p is taken
    run         \* run[p][t]: what thread t of process p is doing

flightVars == <<lock, local, run>>

Free == [token |-> NoToken, left |-> 0]
Idle == [via |-> "none", token |-> NoToken, left |-> 0]

FlightInit ==
    /\ lock = Free
    /\ local = [p \in Process |-> FALSE]
    /\ run = [p \in Process |-> [t \in Thread |-> Idle]]

Running(p, t) == run[p][t].via # "none"
TokensInUse == {lock.token} \cup {run[p][t].token : p \in Process, t \in Thread}
Fresh == Token \ TokensInUse

Sets(p, t, r) == run' = [run EXCEPT ![p][t] = r]

\* SET NX EX succeeds and its reply arrives.
TakesRedis(p, t, k) ==
    /\ ~Running(p, t)
    /\ lock = Free
    /\ k \in Fresh
    /\ lock' = [token |-> k, left |-> TTL]
    /\ Sets(p, t, [via |-> "redis", token |-> k, left |-> TTL])
    /\ UNCHANGED local

\* The call raises: the run takes the in-process lock, if it is free.  Redis may
\* have set the key all the same; nobody will release that one.
FallsBack(p, t) ==
    /\ ~Running(p, t)
    /\ ~local[p]
    /\ \/ UNCHANGED lock
       \/ lock = Free /\ \E k \in Fresh : lock' = [token |-> k, left |-> TTL]
    /\ local' = [local EXCEPT ![p] = TRUE]
    /\ Sets(p, t, [via |-> "local", token |-> NoToken, left |-> 0])

\* Mutated form of Released: the key is deleted whoever holds it.
ReleasedBlindly(k) == Free

\* The release script, carried out by Redis.
Released(k) == IF lock.token = k THEN Free ELSE lock

\* A run over Redis ends; when the release cannot reach Redis the key is left to
\* lapse.
EndsRedis(p, t) ==
    /\ run[p][t].via = "redis"
    /\ lock' \in {lock, Released(run[p][t].token)}
    /\ Sets(p, t, Idle)
    /\ UNCHANGED local

EndsLocal(p, t) ==
    /\ run[p][t].via = "local"
    /\ local' = [local EXCEPT ![p] = FALSE]
    /\ Sets(p, t, Idle)
    /\ UNCHANGED lock

\* The process dies: its threads and its in-process lock are gone, the Redis key
\* stays.
ProcessDies(p) ==
    /\ \E t \in Thread : Running(p, t)
    /\ local' = [local EXCEPT ![p] = FALSE]
    /\ run' = [run EXCEPT ![p] = [t \in Thread |-> Idle]]
    /\ UNCHANGED lock

Less(n) == IF n = 0 THEN 0 ELSE n - 1

\* Mutated form of AgedLock: the key was set without EX.
AgedLockForever(l) == l

\* Redis drops a key whose time is up.
AgedLock(l) == IF l.left <= 1 THEN Free ELSE [l EXCEPT !.left = l.left - 1]

RedisTick ==
    /\ lock' = AgedLock(lock)
    /\ run' = [p \in Process |-> [t \in Thread |->
                  [run[p][t] EXCEPT !.left = Less(run[p][t].left)]]]
    /\ UNCHANGED local

FlightNext ==
    \/ \E p \in Process, t \in Thread :
          \/ \E k \in Token : TakesRedis(p, t, k)
          \/ FallsBack(p, t) \/ EndsRedis(p, t) \/ EndsLocal(p, t)
    \/ \E p \in Process : ProcessDies(p)
    \/ RedisTick

FlightSpec == FlightInit /\ [][FlightNext]_flightVars
FlightFairSpec == FlightSpec /\ WF_flightVars(RedisTick)

-----------------------------------------------------------------------------

RunState == [via : {"none", "redis", "local"}, token : Token \cup {NoToken},
             left : 0..TTL]

\* Every variable holds values of its type.
TypeOK ==
    /\ lock \in [token : Token \cup {NoToken}, left : 0..TTL]
    /\ local \in [Process -> BOOLEAN]
    /\ run \in [Process -> [Thread -> RunState]]

\* Two runs that both hold the Redis lock and are within its lifetime are one
\* run, in whichever processes they are and whatever calls to Redis were lost,
\* whoever released late, fell back or died in between.
RunsExclusive ==
    \A p, q \in Process, t, u \in Thread :
        (/\ run[p][t].via = "redis" /\ run[p][t].left > 0
         /\ run[q][u].via = "redis" /\ run[q][u].left > 0)
            => p = q /\ t = u

\* A run that outlived its lock does not take the next run's lock away: a live
\* run keeps the key until it ends or dies.
HolderKeepsKey ==
    \A p \in Process, t \in Thread :
        run[p][t].via = "redis" /\ run[p][t].left > 0
            => lock.token = run[p][t].token

\* "A crashed holder frees the lock automatically" (jobs.py:74): a key nobody is
\* running under does not stay.
Orphaned(k) ==
    /\ lock.token = k
    /\ \A p \in Process, t \in Thread : run[p][t].token # k
OrphanLapses == \A k \in Token : Orphaned(k) ~> lock.token # k

=============================================================================
