------------------------------ MODULE TokenPool ------------------------------
(***************************************************************************)
(* The Keystone operation set of a pressure run                            *)
(* (internal/pressure/keystoneops/ops.go, pool.go) and the order in which  *)
(* runKeystonePressure drives it: the reader grants, the priming of the    *)
(* token pools, the workers' operations, the refresher, the propagation    *)
(* probes, the growth of the fan users' grants between two stages, and     *)
(* Close.                                                                  *)
(*                                                                         *)
(* A token is its (user, project) pair and an id; an id nothing refers to  *)
(* any more may be issued again, which stands for a token never seen       *)
(* before.  Time is coarse: a pool                                         *)
(* token comes within the refresh margin of its expiry, and a revoked      *)
(* token reaches revokedTokenAge, at any moment.  A call of Keystone       *)
(* succeeds, fails, or takes effect and loses its answer; the last two use *)
(* up one of MaxFaults.  What a read answers (validate, effective, probe)  *)
(* is only recorded, so the token it drew is not kept.                     *)
(***************************************************************************)
EXTENDS Integers, Sequences, FiniteSets, SequencesExt, FiniteSetsExt

CONSTANTS
  Workers,        \* the engine's workers, of which a run uses some
  Probes,         \* bound: the propagation probes in flight at once
  PoolPairs,      \* how many pool pairs the plan has (Set.poolPairs)
  Projects,       \* the plan's projects, 1..Projects; a fan user holds the first
  Configs,        \* the runs: the workers, Options.Tokens, the operations with a weight,
                  \* whether the propagation probe is on, whether tokens report an expiry,
                  \* how many fan users the plan has, each stage's fan_assignments target
  ChurnGrants,    \* the assignments of the churn users, 0..ChurnGrants-1
  Concurrency,    \* the setup calls and the refreshes in flight at once
  maxRevokedTokens, \* the length of the ring of revoked tokens
  MaxIds,         \* bound: the token ids of one pair
  MaxFaults       \* bound: the calls that fail or lose their answer

\* Operations: what a worker draws from; validate stands for effective too.
Operations == {"validate", "revoke", "grant_churn", "issue", "probe", "bad_token"}

ASSUME PoolAssumption ==
  /\ IsFiniteSet(Workers) /\ IsFiniteSet(Probes)
  /\ PoolPairs \in Nat \ {0}
  /\ Projects \in Nat \ {0}
  /\ \A c \in Configs : /\ c.workers \subseteq Workers /\ c.tokens \in Nat \ {0}
                        /\ c.mix \subseteq Operations /\ c.mix # {}
                        /\ c.propagation \in BOOLEAN /\ c.expiry \in BOOLEAN
                        /\ c.fan \in Nat /\ c.targets \in Seq(1..Projects)
  /\ ChurnGrants \in Nat /\ Concurrency \in Nat \ {0}
  /\ maxRevokedTokens \in Nat \ {0} /\ MaxIds \in Nat /\ MaxFaults \in Nat


VARIABLES
  config,     \* the run, one of Configs
  main,       \* where runKeystonePressure is
  stage,      \* how many stages it entered
  ended,      \* the run's context ended: the duration is over, or a signal
  closed,     \* Set.closed, with the contexts Close cancels
  fanout,     \* the loop of GrantPool, Prime or GrowFan
  created,    \* the grants in the run's created resources
  pool,       \* Set.pool.entries: a set, their order means nothing
  fanPool,    \* Set.fanPool.entries
  held,       \* held[u]: fanUser.held
  worker,     \* worker[w]: the operation w is in
  churnLock,  \* the churn grants whose lock is held
  refresher,  \* the refresher goroutine and the refreshDue it is in
  ticker,     \* the propagation ticker goroutine
  probe,      \* probe[p]: the propagation probe p is in
  ring,       \* Set.revoked.entries: the revoked tokens, oldest first
  status,     \* Keystone: whether a token is live, near its expiry, or revoked
  granted,    \* Keystone: the churn grants that exist
  grants,     \* Keystone: the reader and fan grants that exist
  faults,     \* how many calls failed or lost their answer
  lost,       \* history: lost[i]: tokens of pair i a failed reissue cost the pool
  lostGrants, \* history: grants made by a call whose answer was lost
  unrestored  \* history: churn grants whose last re-grant reported an error

\* The fan users; user u's pair comes after the pool pairs.
FanUsers == config.fan
Tokens == config.tokens
Pairs == UNION {1..(PoolPairs + c.fan) : c \in Configs}
Token == Pairs \X (1..MaxIds)
None == <<0, 0>>
pairOf(t) == t[1]

setVars   == <<config, main, stage, ended, closed, fanout, created, held>>
poolVars  == <<pool, fanPool, status, lost>>
churnVars == <<churnLock, granted, unrestored>>
vars == <<setVars, poolVars, churnVars, worker, refresher, ticker, probe, ring,
          grants, faults, lostGrants>>

(***************************************************************************)
(* Keystone's side of a call: its outcomes, and the issue of a token.      *)
(***************************************************************************)
\* ok: it took effect; err: it did not; lost: it did, and the caller sees an error.
Outcomes == IF faults < MaxFaults THEN {"ok", "err", "lost"} ELSE {"ok"}
Fault(o) == faults' = IF o = "ok" THEN faults ELSE faults + 1
TakesEffect(o) == o \in {"ok", "lost"}

\* The tokens the program still refers to.
Referenced ==
  pool \cup fanPool \cup {worker[w].tok : w \in Workers}
    \cup {probe[p].tok : p \in Probes} \cup {ring[i].tok : i \in DOMAIN ring}
    \cup refresher.due \cup refresher.flight \cup Range(fanout.entries)

\* issue: the token IssueScopedToken answers with for pair pr, an id not in use.
freeIds(pr) == {n \in 1..MaxIds : <<pr, n>> \notin Referenced}
fresh(pr) == <<pr, Min(freeIds(pr))>>
\* The bound MaxIds: a token is issued only while an id of its pair is free.
Issues(pr, o) == o = "ok" => freeIds(pr) # {}

\* What Keystone knows of its tokens after a step; an id nothing refers to is as new.
TokensBecome(stat) == status' = [t \in Token |-> IF t \in Referenced' THEN stat[t] ELSE "live"]

(***************************************************************************)
(* The pool: take, put and replace of pool.go, each under its lock.        *)
(***************************************************************************)
take(entries, t) == entries \ {t}
put(entries, t) == entries \cup {t}

\* mutant of replace: a refresh whose entry is gone adds its token.
replaceOrAdd(entries, old, next) == put(take(entries, old), next)

\* replace: only while the old token is still there; else next is discarded.
replace(entries, old, next) == IF old \in entries THEN put(take(entries, old), next) ELSE entries

\* mutant of expiringBefore: only the pool is looked through, not the fan pool.
expiringPool == {t \in pool : status[t] = "due"}

\* expiringBefore over both pools: the tokens within the margin of their expiry.
expiringBefore == {t \in pool \cup fanPool : status[t] = "due"}

\* add: the oldest revoked token goes once the ring is over its length.  Only bad_token
\* reads the ring, so a run that does not draw it leaves the ring out.
RingAdd(t) ==
  LET more == Append(ring, [tok |-> t, old |-> FALSE])
  IN  IF "bad_token" \notin config.mix THEN ring
      ELSE IF Len(more) > maxRevokedTokens THEN Tail(more) ELSE more

\* pick: the tokens revoked at least revokedTokenAge ago.
oldEnough == {ring[i].tok : i \in {j \in DOMAIN ring : ring[j].old}}

(***************************************************************************)
(* Init: the set as Build returns it, its pools empty, each fan user       *)
(* holding the first project and every churn grant in place.               *)
(***************************************************************************)
NoFanout == [jobs |-> <<>>, next |-> 1, flight |-> {}, made |-> {}, failed |-> FALSE, entries |-> <<>>]
Idle == [op |-> "idle", tok |-> None, grant |-> 0, err |-> FALSE]

Init ==
  /\ config \in Configs
  /\ main = "lookup" /\ stage = 0 /\ ended = FALSE /\ closed = FALSE
  /\ fanout = NoFanout /\ created = {} /\ grants = {} /\ lostGrants = {}
  /\ pool = {} /\ fanPool = {} /\ ring = <<>>
  /\ held = [u \in 1..FanUsers |-> {1}]
  /\ worker = [w \in Workers |-> Idle] /\ probe = [p \in Probes |-> Idle]
  /\ churnLock = {} /\ granted = 0..(ChurnGrants - 1) /\ unrestored = {}
  /\ refresher = [at |-> "off", due |-> {}, flight |-> {}]
  /\ ticker = "off"
  /\ status = [t \in Token |-> "live"]
  /\ faults = 0 /\ lost = [i \in Pairs |-> 0]

(***************************************************************************)
(* GrantPool, Prime and GrowFan: a loop that starts at most Concurrency    *)
(* calls, starts none after the first failure or the end of the context,   *)
(* and waits for the ones in flight.                                       *)
(***************************************************************************)
Fanouts == {"granting", "priming", "growing"}
Begin(phase, jobs) ==
  /\ main' = phase
  /\ fanout' = [NoFanout EXCEPT !.jobs = jobs, !.entries = [k \in DOMAIN jobs |-> None]]

\* The next turn of the loop: a slot is free, so a call starts or the loop breaks.
FanoutTurn ==
  /\ main \in Fanouts /\ fanout.next <= Len(fanout.jobs)
  /\ Cardinality(fanout.flight) < Concurrency
  /\ fanout' = IF fanout.failed \/ ended
               THEN [fanout EXCEPT !.failed = TRUE, !.next = Len(fanout.jobs) + 1]
               ELSE [fanout EXCEPT !.flight = @ \cup {fanout.next}, !.next = @ + 1]
  /\ UNCHANGED <<config, main, stage, ended, closed, created, held, poolVars, churnVars, worker,
                 refresher, ticker, probe, ring, grants, faults, lostGrants>>

\* GrantPool and GrowFan: AssignRole through WithRetry returns for job k.
GrantAnswer(k, o) ==
  /\ main \in {"granting", "growing"} /\ k \in fanout.flight /\ Fault(o)
  /\ LET g == fanout.jobs[k]
     IN  /\ grants' = IF TakesEffect(o) THEN grants \cup {g} ELSE grants
         /\ lostGrants' = IF o = "lost" THEN lostGrants \cup {g} ELSE lostGrants
         /\ held' = IF o = "ok" /\ g.kind = "fan" THEN [held EXCEPT ![g.who] = @ \cup {g.project}]
                                                  ELSE held
         /\ fanout' = [fanout EXCEPT !.flight = @ \ {k},
                                     !.made = IF o = "ok" THEN @ \cup {g} ELSE @,
                                     !.failed = @ \/ o # "ok"]
  /\ UNCHANGED <<config, main, stage, ended, closed, created, poolVars, churnVars, worker, refresher,
                 ticker, probe, ring>>

\* Prime: token k is issued, or its issue fails.
PrimeAnswer(k, o) ==
  /\ main = "priming" /\ k \in fanout.flight /\ Fault(o) /\ Issues(fanout.jobs[k], o)
  /\ fanout' = [fanout EXCEPT !.flight = @ \ {k},
                              !.entries[k] = IF o = "ok" THEN fresh(fanout.jobs[k]) ELSE None,
                              !.failed = @ \/ o # "ok"]
  /\ UNCHANGED <<config, main, stage, ended, closed, created, held, pool, fanPool, lost, churnVars,
                 worker, refresher, ticker, probe, ring, grants, lostGrants>>
  /\ TokensBecome(status)

\* wg.Wait: the loop is over and no call is in flight.
FanoutOver == fanout.next > Len(fanout.jobs) /\ fanout.flight = {}

(***************************************************************************)
(* runKeystonePressure.                                                    *)
(***************************************************************************)
\* Token k < Tokens is pool token k, for pair k modulo the pool pairs; then the fan's.
PrimeJobs == [k \in 1..(Tokens + FanUsers) |->
                IF k <= Tokens THEN ((k - 1) % PoolPairs) + 1 ELSE PoolPairs + k - Tokens]

\* needsServices, and grantPoolReader's condition: the run sends tokens to the services.
needsServices == config.mix \cap {"probe", "bad_token"} # {} \/ config.propagation
sendsLive == "probe" \in config.mix \/ config.propagation

\* grantPoolReader: a run that sends live tokens looks the role up; without it no grant.
LookupReader(o) ==
  /\ main = "lookup" /\ Fault(o)
  /\ IF sendsLive /\ o = "ok"
     THEN Begin("granting", [i \in 1..PoolPairs |-> [kind |-> "reader", who |-> i, project |-> i]])
     ELSE Begin("priming", PrimeJobs)
  /\ UNCHANGED <<config, stage, ended, closed, created, held, poolVars, churnVars, worker, refresher,
                 ticker, probe, ring, grants, lostGrants>>

\* GrantPool returns; its grants join the created resources, those before a failure too.
GrantPoolReturns ==
  /\ main = "granting" /\ FanoutOver
  /\ created' = created \cup fanout.made
  /\ IF fanout.failed THEN main' = "failed" /\ fanout' = NoFanout ELSE Begin("priming", PrimeJobs)
  /\ UNCHANGED <<config, stage, ended, closed, held, poolVars, churnVars, worker, refresher, ticker,
                 probe, ring, grants, faults, lostGrants>>

\* Prime returns: the entries enter their pools, and the refresher, when the first token
\* reported an expiry, and the propagation ticker start; or a failure ends the run, or a
\* catalog that lists no service the run needs.
PrimeReturns ==
  /\ main = "priming" /\ FanoutOver
  /\ \E listed \in BOOLEAN :
       IF fanout.failed \/ (needsServices /\ ~listed)
       THEN /\ main' = "failed" /\ UNCHANGED <<pool, fanPool, refresher, ticker>>
       ELSE /\ main' = "running"
            /\ pool' = {fanout.entries[k] : k \in 1..Tokens}
            /\ fanPool' = {fanout.entries[k] : k \in (Tokens + 1)..(Tokens + FanUsers)}
            /\ refresher' = IF config.expiry /\ ~closed THEN [refresher EXCEPT !.at = "idle"] ELSE refresher
            /\ ticker' = IF config.propagation /\ ~closed THEN "ticking" ELSE ticker
  /\ fanout' = NoFanout
  /\ UNCHANGED <<config, stage, ended, closed, created, held, lost, churnVars, worker, probe, ring,
                 grants, faults, lostGrants>>
  /\ TokensBecome(status)

AllIdle == \A w \in Workers : worker[w].op = "idle"

\* The grants GrowFan makes, in plan order: each fan user's first projects without one.
FanJobs(n) ==
  LET missing(u) == {p \in 1..Projects \ held[u] :
                       Cardinality(held[u]) + Cardinality((1..(p - 1)) \ held[u]) < n}
      jobs == {[kind |-> "fan", who |-> u, project |-> p] : u \in 1..FanUsers, p \in 1..Projects}
  IN  SetToSortSeq({g \in jobs : g.project \in missing(g.who)},
                   LAMBDA g, h : g.who < h.who \/ (g.who = h.who /\ g.project < h.project))

\* The engine enters the next stage while no operation is in flight.
EnterStage ==
  /\ main = "running" /\ ~ended /\ AllIdle /\ stage < Len(config.targets)
  /\ stage' = stage + 1
  /\ Begin("growing", FanJobs(config.targets[stage + 1]))
  /\ UNCHANGED <<config, ended, closed, created, held, poolVars, churnVars, worker, refresher, ticker,
                 probe, ring, grants, faults, lostGrants>>

\* mutant of GrowFanReturns: a failed growth returns no grants.
GrowFanReturnsNone ==
  /\ main = "growing" /\ FanoutOver
  /\ created' = IF fanout.failed THEN created ELSE created \cup fanout.made
  /\ main' = IF fanout.failed THEN "failed" ELSE "running"
  /\ fanout' = NoFanout
  /\ UNCHANGED <<config, stage, ended, closed, held, poolVars, churnVars, worker, refresher, ticker,
                 probe, ring, grants, faults, lostGrants>>

\* GrowFan returns; its grants join the created resources even when it failed.
GrowFanReturns ==
  /\ main = "growing" /\ FanoutOver
  /\ created' = created \cup fanout.made
  /\ main' = IF fanout.failed THEN "failed" ELSE "running"
  /\ fanout' = NoFanout
  /\ UNCHANGED <<config, stage, ended, closed, held, poolVars, churnVars, worker, refresher, ticker,
                 probe, ring, grants, faults, lostGrants>>

\* The run's duration is over, or a signal arrived.
End ==
  /\ ~ended /\ main \notin {"waiting", "done"} /\ ended' = TRUE
  /\ UNCHANGED <<config, main, stage, closed, fanout, created, held, poolVars, churnVars, worker,
                 refresher, ticker, probe, ring, grants, faults, lostGrants>>

\* Close, once Run returned with its workers done, or a setup step failed.
Close ==
  /\ \/ main = "failed"
     \/ main = "running" /\ ended /\ AllIdle
  /\ closed' = TRUE /\ main' = "waiting"
  /\ UNCHANGED <<config, stage, ended, fanout, created, held, poolVars, churnVars, worker, refresher,
                 ticker, probe, ring, grants, faults, lostGrants>>

\* mutant of CloseReturns: it waits for a goroutine that was never started, too.
CloseReturnsWaitsAll ==
  /\ main = "waiting" /\ refresher.at = "stopped" /\ ticker = "stopped"
  /\ main' = "done"
  /\ UNCHANGED <<config, stage, ended, closed, fanout, created, held, poolVars, churnVars, worker,
                 refresher, ticker, probe, ring, grants, faults, lostGrants>>

\* Close returns once both goroutines it waits for have.
CloseReturns ==
  /\ main = "waiting"
  /\ refresher.at \in {"off", "stopped"} /\ ticker \in {"off", "stopped"}
  /\ main' = "done"
  /\ UNCHANGED <<config, stage, ended, closed, fanout, created, held, poolVars, churnVars, worker,
                 refresher, ticker, probe, ring, grants, faults, lostGrants>>

(***************************************************************************)
(* The workers' operations.                                                *)
(***************************************************************************)
workerOnly == <<setVars, refresher, ticker, probe, grants, lostGrants>>
Draws(w, op) == /\ main = "running" /\ ~ended /\ worker[w].op = "idle" /\ op \in config.mix
               /\ w \in config.workers

\* validate, effective and probe: a token is read and stays where it is.
Read(w) ==
  /\ \/ Draws(w, "validate") /\ pool \cup fanPool # {}
     \/ Draws(w, "probe") /\ pool # {}
  /\ worker' = [worker EXCEPT ![w].op = "reading"]
  /\ UNCHANGED <<workerOnly, poolVars, churnVars, ring, faults>>

\* badToken: an old enough revoked token or, always possible, a random string.
BadToken(w) ==
  /\ Draws(w, "bad_token") /\ pool # {}
  /\ \E t \in oldEnough \cup {None} :
       worker' = [worker EXCEPT ![w].op = "rejecting", ![w].tok = t]
  /\ UNCHANGED <<workerOnly, poolVars, churnVars, ring, faults>>

\* The service or Keystone answers a read or a bad token.
ReadAnswer(w) ==
  /\ worker[w].op \in {"reading", "rejecting"}
  /\ worker' = [worker EXCEPT ![w] = Idle]
  /\ UNCHANGED <<workerOnly, pool, fanPool, lost, churnVars, ring, faults>>
  /\ TokensBecome(status)

\* revoke and reissue start: an entry is taken; an empty pool ends the operation at once.
Take(w, op, call) ==
  /\ Draws(w, op)
  /\ \E t \in pool :
       /\ worker' = [worker EXCEPT ![w].op = call, ![w].tok = t]
       /\ pool' = take(pool, t)
  /\ UNCHANGED <<workerOnly, fanPool, status, lost, churnVars, ring, faults>>

\* reissue: the new token goes into the pool, or the old one goes back.
ReissueAnswer(w, o) ==
  /\ worker[w].op = "issuing" /\ Fault(o) /\ Issues(pairOf(worker[w].tok), o)
  /\ LET t == worker[w].tok
     IN  /\ pool' = put(pool, IF o = "ok" THEN fresh(pairOf(t)) ELSE t)
         /\ worker' = [worker EXCEPT ![w] = Idle]
         /\ UNCHANGED <<workerOnly, fanPool, lost, churnVars, ring>>
         /\ TokensBecome(status)

\* revokeAndReplace, the revoke: shared with the propagation probe.
RevokeToken(c, o) ==
  status' = IF TakesEffect(o) THEN [status EXCEPT ![c.tok] = "revoked"] ELSE status

RevokeAnswer(w, o) ==
  /\ worker[w].op = "revoking" /\ Fault(o)
  /\ RevokeToken(worker[w], o)
  /\ worker' = [worker EXCEPT ![w].op = "replacing", ![w].err = (o # "ok")]
  /\ UNCHANGED <<workerOnly, pool, fanPool, lost, churnVars, ring>>

\* revokeAndReplace, the reissue, and the revoked token's entry in the ring.
Replace(c, o) ==
  /\ Issues(pairOf(c.tok), o)
  /\ pool' = IF o = "ok" THEN put(pool, fresh(pairOf(c.tok))) ELSE pool
  /\ lost' = IF o = "ok" THEN lost ELSE [lost EXCEPT ![pairOf(c.tok)] = @ + 1]
  /\ ring' = IF c.err THEN ring ELSE RingAdd(c.tok)

ReplaceAnswer(w, o) ==
  /\ worker[w].op = "replacing" /\ Fault(o)
  /\ Replace(worker[w], o)
  /\ worker' = [worker EXCEPT ![w] = Idle]
  /\ UNCHANGED <<workerOnly, fanPool, churnVars>>
  /\ TokensBecome(status)

\* lockChurn: the first grant from i on whose lock is free, or a wait for grant i.
GrantChurn(w) ==
  /\ Draws(w, "grant_churn") /\ ChurnGrants > 0
  /\ \E i \in 0..(ChurnGrants - 1) :
       LET round == [j \in 1..ChurnGrants |-> (i + j - 1) % ChurnGrants]
           unlocked  == {j \in DOMAIN round : round[j] \notin churnLock}
       IN  IF unlocked = {}
           THEN worker' = [worker EXCEPT ![w].op = "locking", ![w].grant = i] /\ UNCHANGED churnLock
           ELSE /\ worker' = [worker EXCEPT ![w].op = "removing", ![w].grant = round[Min(unlocked)]]
                /\ churnLock' = churnLock \cup {round[Min(unlocked)]}
  /\ UNCHANGED <<workerOnly, poolVars, granted, unrestored, ring, faults>>

GetsLock(w) ==
  /\ worker[w].op = "locking" /\ worker[w].grant \notin churnLock
  /\ churnLock' = churnLock \cup {worker[w].grant}
  /\ worker' = [worker EXCEPT ![w].op = "removing"]
  /\ UNCHANGED <<workerOnly, poolVars, granted, unrestored, ring, faults>>

\* mutant of RemoveAnswer: a failed removal ends the operation.
RemoveAnswerReturns(w, o) ==
  /\ worker[w].op = "removing" /\ Fault(o)
  /\ granted' = IF TakesEffect(o) THEN granted \ {worker[w].grant} ELSE granted
  /\ worker' = [worker EXCEPT ![w] = IF o = "ok" THEN [@ EXCEPT !.op = "regranting"] ELSE Idle]
  /\ churnLock' = IF o = "ok" THEN churnLock ELSE churnLock \ {worker[w].grant}
  /\ UNCHANGED <<workerOnly, poolVars, unrestored, ring>>

\* grantChurn: the grant is removed, and granted again whatever the removal answered.
RemoveAnswer(w, o) ==
  /\ worker[w].op = "removing" /\ Fault(o)
  /\ granted' = IF TakesEffect(o) THEN granted \ {worker[w].grant} ELSE granted
  /\ worker' = [worker EXCEPT ![w].op = "regranting"]
  /\ UNCHANGED <<workerOnly, churnLock, poolVars, unrestored, ring>>

RegrantAnswer(w, o) ==
  /\ worker[w].op = "regranting" /\ Fault(o)
  /\ LET g == worker[w].grant
     IN  /\ granted' = IF TakesEffect(o) THEN granted \cup {g} ELSE granted
         /\ unrestored' = IF o = "ok" THEN unrestored \ {g} ELSE unrestored \cup {g}
         /\ churnLock' = churnLock \ {g}
  /\ worker' = [worker EXCEPT ![w] = Idle]
  /\ UNCHANGED <<workerOnly, poolVars, ring>>

(***************************************************************************)
(* The refresher.  Its context is done once the run ended or Close ran.    *)
(***************************************************************************)
Done == ended \/ closed
refresherOnly == <<setVars, churnVars, worker, ticker, probe, ring, grants, lostGrants>>

\* A tick: refreshDue copies the entries that are due.
RefreshTick ==
  /\ refresher.at = "idle" /\ expiringBefore # {}
  /\ refresher' = [refresher EXCEPT !.at = "refreshing", !.due = expiringBefore]
  /\ UNCHANGED <<refresherOnly, poolVars, faults>>

RefreshIssue(t) ==
  /\ t \in refresher.due /\ Cardinality(refresher.flight) < Concurrency
  /\ refresher' = [refresher EXCEPT !.due = @ \ {t}, !.flight = @ \cup {t}]
  /\ UNCHANGED <<refresherOnly, poolVars, faults>>

\* The issue for the copied entry returns; after the context's end it may fail at no cost.
RefreshAnswer(t, o) ==
  /\ t \in refresher.flight /\ Issues(pairOf(t), o)
  /\ \/ o \in Outcomes /\ Fault(o)
     \/ Done /\ o = "err" /\ UNCHANGED faults
  /\ refresher' = [refresher EXCEPT !.flight = @ \ {t}]
  /\ IF o # "ok" THEN UNCHANGED <<pool, fanPool>>
     ELSE IF t \in fanPool
          THEN fanPool' = replace(fanPool, t, fresh(pairOf(t))) /\ UNCHANGED pool
          ELSE pool' = replace(pool, t, fresh(pairOf(t))) /\ UNCHANGED fanPool
  /\ UNCHANGED <<refresherOnly, lost>>
  /\ TokensBecome(status)

\* refreshDue returns once no issue is left or in flight; the goroutine goes on or stops.
RefreshOver ==
  /\ refresher.at = "refreshing" /\ refresher.flight = {} /\ (refresher.due = {} \/ Done)
  /\ refresher' = [refresher EXCEPT !.at = "idle", !.due = {}]
  /\ UNCHANGED <<refresherOnly, pool, fanPool, lost, faults>>
  /\ TokensBecome(status)

RefresherStops ==
  /\ refresher.at = "idle" /\ Done
  /\ refresher' = [refresher EXCEPT !.at = "stopped"]
  /\ UNCHANGED <<refresherOnly, poolVars, faults>>

(***************************************************************************)
(* The propagation probes.                                                 *)
(***************************************************************************)
probeOnly == <<setVars, churnVars, worker, refresher, fanPool, grants, lostGrants>>

\* A tick starts a probe; a tick that raced the context's end does too.
PropagationTick(p) ==
  /\ ticker = "ticking" /\ probe[p].op = "idle"
  /\ probe' = [probe EXCEPT ![p].op = "starting"]
  /\ UNCHANGED <<probeOnly, pool, status, lost, ticker, ring, faults>>

\* propagate: nothing is taken once the context ended, and an empty pool skips the probe.
ProbeTakes(p) ==
  /\ probe[p].op = "starting"
  /\ IF Done \/ pool = {}
     THEN probe' = [probe EXCEPT ![p] = Idle] /\ UNCHANGED pool
     ELSE \E t \in pool :
            /\ probe' = [probe EXCEPT ![p].op = "revoking", ![p].tok = t]
            /\ pool' = take(pool, t)
  /\ UNCHANGED <<probeOnly, status, lost, ticker, ring, faults>>

ProbeRevokeAnswer(p, o) ==
  /\ probe[p].op = "revoking" /\ Fault(o)
  /\ RevokeToken(probe[p], o)
  /\ probe' = [probe EXCEPT ![p].op = "replacing", ![p].err = (o # "ok")]
  /\ UNCHANGED <<probeOnly, pool, lost, ticker, ring>>

\* The probe goes on to poll unless its revoke failed, no service is listed, or the run ended.
ProbeReplaceAnswer(p, o) ==
  /\ probe[p].op = "replacing" /\ Fault(o)
  /\ Replace(probe[p], o)
  /\ \E listed \in BOOLEAN :
       probe' = [probe EXCEPT ![p] = IF @.err \/ ~listed \/ Done THEN Idle
                                                               ELSE [@ EXCEPT !.op = "polling"]]
  /\ UNCHANGED <<probeOnly, ticker>>
  /\ TokensBecome(status)

\* A poll: a 401, the context's end and the deadline end the probe; else it waits and polls again.
Poll(p) ==
  /\ probe[p].op = "polling"
  /\ \E rejected, deadline \in BOOLEAN :
       probe' = IF rejected \/ deadline \/ Done THEN [probe EXCEPT ![p] = Idle] ELSE probe
  /\ UNCHANGED <<probeOnly, pool, lost, ticker, ring, faults>>
  /\ TokensBecome(status)

\* The ticker goroutine sees the end, and returns once every probe has.
TickerStops ==
  /\ ticker = "ticking" /\ Done
  /\ ticker' = "draining"
  /\ UNCHANGED <<probeOnly, pool, status, lost, probe, ring, faults>>

TickerReturns ==
  /\ ticker = "draining" /\ \A p \in Probes : probe[p].op = "idle"
  /\ ticker' = "stopped"
  /\ UNCHANGED <<probeOnly, pool, status, lost, probe, ring, faults>>

(***************************************************************************)
(* Time.                                                                   *)
(***************************************************************************)
\* A pool token comes within the refresh margin of its expiry.
TokenDue(t) ==
  /\ config.expiry /\ t \in pool \cup fanPool /\ status[t] = "live"
  /\ status' = [status EXCEPT ![t] = "due"]
  /\ UNCHANGED <<setVars, pool, fanPool, lost, churnVars, worker, refresher, ticker,
                 probe, ring, grants, faults, lostGrants>>

\* A revoked token, and with it every older one, reaches revokedTokenAge.
RevokedAge(i) ==
  /\ i \in DOMAIN ring /\ ~ring[i].old
  /\ ring' = [j \in DOMAIN ring |-> IF j <= i THEN [ring[j] EXCEPT !.old = TRUE] ELSE ring[j]]
  /\ UNCHANGED <<setVars, poolVars, churnVars, worker, refresher, ticker, probe, grants,
                 faults, lostGrants>>

(***************************************************************************)
(* The specification.                                                      *)
(***************************************************************************)
Setup ==
  \/ FanoutTurn \/ GrantPoolReturns \/ PrimeReturns \/ GrowFanReturns
  \/ \E o \in Outcomes :
       \/ LookupReader(o)
       \/ \E k \in fanout.flight : GrantAnswer(k, o) \/ PrimeAnswer(k, o)

WorkerCall(w) ==
  \/ ReadAnswer(w) \/ GetsLock(w)
  \/ \E o \in Outcomes : \/ ReissueAnswer(w, o) \/ RevokeAnswer(w, o) \/ ReplaceAnswer(w, o)
                         \/ RemoveAnswer(w, o) \/ RegrantAnswer(w, o)

WorkerDraw(w) == Read(w) \/ BadToken(w) \/ Take(w, "issue", "issuing")
                 \/ Take(w, "revoke", "revoking") \/ GrantChurn(w)

Refresher ==
  \/ RefreshTick \/ RefreshOver \/ RefresherStops
  \/ \E t \in refresher.due : RefreshIssue(t)
  \/ \E t \in refresher.flight, o \in Outcomes \cup {"err"} : RefreshAnswer(t, o)

Probe(p) ==
  \/ ProbeTakes(p) \/ Poll(p)
  \/ \E o \in Outcomes : ProbeRevokeAnswer(p, o) \/ ProbeReplaceAnswer(p, o)

Ticker == TickerStops \/ TickerReturns

Next ==
  \/ Setup \/ EnterStage \/ End \/ Close \/ CloseReturns
  \/ \E w \in Workers : WorkerDraw(w) \/ WorkerCall(w)
  \/ Refresher
  \/ Ticker \/ \E p \in Probes : PropagationTick(p) \/ Probe(p)
  \/ \E t \in Token : TokenDue(t)
  \/ \E i \in DOMAIN ring : RevokedAge(i)

\* Every call is bounded by OpTimeout and every goroutine is scheduled; a select between
\* the context's end and a tick is decided at random, so it is not decided for the tick
\* forever.  When tokens age, what a worker draws and when the run ends are left open.
Fairness ==
  /\ WF_vars(Setup) /\ WF_vars(Close) /\ WF_vars(CloseReturns)
  /\ \A w \in Workers : WF_vars(WorkerCall(w))
  /\ WF_vars(Refresher) /\ SF_vars(RefresherStops) /\ WF_vars(Ticker)
  /\ \A p \in Probes : WF_vars(Probe(p))

Spec == Init /\ [][Next]_vars /\ Fairness

(***************************************************************************)
(* Properties.                                                             *)
(***************************************************************************)
Op == {"idle", "reading", "rejecting", "issuing", "revoking", "replacing", "locking",
       "removing", "regranting", "starting", "polling"}
Call == [op : Op, tok : Token \cup {None}, grant : 0..ChurnGrants, err : BOOLEAN]

\* The states of the set, its goroutines and Keystone.
TypeOK ==
  /\ main \in Fanouts \cup {"lookup", "running", "failed", "waiting", "done"}
  /\ stage \in 0..Len(config.targets) /\ ended \in BOOLEAN /\ closed \in BOOLEAN
  /\ pool \subseteq Token /\ fanPool \subseteq Token
  /\ held \in [1..FanUsers -> SUBSET (1..Projects)]
  /\ worker \in [Workers -> Call] /\ probe \in [Probes -> Call]
  /\ churnLock \subseteq 0..(ChurnGrants - 1) /\ granted \subseteq 0..(ChurnGrants - 1)
  /\ refresher.at \in {"off", "idle", "refreshing", "stopped"}
  /\ refresher.due \subseteq Token /\ refresher.flight \subseteq Token
  /\ ticker \in {"off", "ticking", "draining", "stopped"}
  /\ \A i \in DOMAIN ring : ring[i].tok \in Token /\ ring[i].old \in BOOLEAN
  /\ status \in [Token -> {"live", "due", "revoked"}]
  /\ faults \in 0..MaxFaults /\ lost \in [Pairs -> 0..MaxFaults]

Count(entries, pr) == Cardinality({t \in entries : pairOf(t) = pr})
HasTaken(c) == c.op \in {"issuing", "revoking", "replacing"}
Takers(calls, S, pr) == {a \in S : HasTaken(calls[a]) /\ pairOf(calls[a].tok) = pr}
Taken(pr) == Cardinality(Takers(worker, Workers, pr)) + Cardinality(Takers(probe, Probes, pr))

\* Once primed, the pools hold for every (user, project) pair the tokens it was primed
\* with, less those an operation or a probe has taken and those a failed reissue cost,
\* however revokes, reissues and refreshes of the same token interleave: a refresh never
\* grows the pool (replace) and a replacement is for the pair it replaces.
PoolAccounted ==
  main \in {"running", "growing"} \/ refresher.at # "off" \/ ticker # "off" =>
    \A i \in Pairs : Count(pool, i) + Count(fanPool, i) + Taken(i) + lost[i]
                        = Cardinality({k \in DOMAIN PrimeJobs : PrimeJobs[k] = i})

\* No pool entry is a token Keystone has revoked, also when the revoke's answer was lost:
\* take removes the entry before the revoke, and nothing puts it back.
RevokedLeavesPool == \A t \in pool \cup fanPool : status[t] # "revoked"

\* A token bad_token sends as one to be refused is revoked at Keystone and in no pool, so a
\* service that accepts it is at fault; a token whose revoke failed is never sent.
BadTokensAreBad ==
  \A w \in Workers : worker[w].op = "rejecting" /\ worker[w].tok # None =>
    status[worker[w].tok] = "revoked" /\ worker[w].tok \notin pool \cup fanPool

\* The pool holds what it should, however revokes, reissues, refreshes and probes of the
\* same token interleave (take, put, replace, revokeAndReplace, refreshDue).
PoolSound == PoolAccounted /\ RevokedLeavesPool /\ BadTokensAreBad

\* A churn grant no worker is churning exists, unless its last re-grant reported an error:
\* a removal that failed, or took effect and lost its answer, is still followed by one.
GrantsRestored ==
  \A g \in 0..(ChurnGrants - 1) : g \in churnLock \/ g \in granted \/ g \in unrestored

\* Outside the loops of GrantPool and GrowFan, every grant they made in Keystone is among
\* the created resources of the run, those made beside a failing one included, unless the
\* answer to the grant was lost: the record lists it and the teardown removes it.
GrantsAccounted == main \notin {"granting", "growing"} => grants \subseteq created \cup lostGrants

\* A token near its expiry is replaced or taken, in the pool and in the fan pool, until
\* the run ends: again and again no pool entry of a pair is close to its expiry.  The
\* refresher gets to every entry, whatever the workers do with it meanwhile.
DueIsReplaced ==
  \A i \in Pairs :
    []<>(Done \/ \A t \in pool \cup fanPool : pairOf(t) = i => status[t] # "due")

\* Once the run's context ended, or a setup step failed, Close is called and returns: the
\* probe that is revoking finishes, and nothing waits for a goroutine never started.
RunEnds == (ended \/ main = "failed") ~> main = "done"
=============================================================================
