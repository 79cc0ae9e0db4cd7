--------------------------- MODULE TokenPoolProofs ---------------------------
(***************************************************************************)
(* Proofs about the token pools and the grants of a Keystone pressure run, *)
(* for every number of workers, probes, pairs and tokens, and for every    *)
(* number of failed calls and lost answers.                                *)
(***************************************************************************)
EXTENDS TokenPool, FiniteSetTheorems, SequenceTheorems, WellFoundedInduction, TLAPS

-----------------------------------------------------------------------------
(***************************************************************************)
(* The inductive invariant of the pools.                                   *)
(*                                                                         *)
(* A token that an operation or a probe has taken is in no pool and is     *)
(* taken once, so that a token that goes back was not there, and a token   *)
(* that is revoked is nobody else's.  A token never seen before is one the *)
(* program does not refer to, and what Keystone remembers of such a token  *)
(* is that it is live.                                                     *)
(***************************************************************************)
Calling == {c \in [op : Op, tok : Token \cup {None}, grant : Int, err : BOOLEAN] :
               c.op \in {"idle", "starting", "locking", "removing", "regranting"} => c.tok = None}

Typed ==
  /\ config \in Configs
  /\ pool \subseteq Token /\ IsFiniteSet(pool)
  /\ fanPool \subseteq Token /\ IsFiniteSet(fanPool)
  /\ worker \in [Workers -> Calling] /\ probe \in [Probes -> Calling]
  /\ refresher \in [at : {"off", "idle", "refreshing", "stopped"},
                    due : SUBSET Token, flight : SUBSET Token]
  /\ refresher.at # "refreshing" => refresher.due = {} /\ refresher.flight = {}
  /\ ring \in Seq([tok : Token, old : BOOLEAN])
  /\ status \in [Token -> {"live", "due", "revoked"}]
  /\ lost \in [Pairs -> Nat]

\* The calls f of F and g of G, and the pools' entries.
ApartOf(f, F, g, G, entries) ==
  \A a \in F : HasTaken(f[a]) =>
    /\ f[a].tok \in Token \ entries
    /\ \A b \in F : HasTaken(f[b]) /\ f[b].tok = f[a].tok => b = a
    /\ \A b \in G : HasTaken(g[b]) => g[b].tok # f[a].tok
Apart ==
  /\ pool \cap fanPool = {}
  /\ ApartOf(worker, Workers, probe, Probes, pool \cup fanPool)
  /\ ApartOf(probe, Probes, worker, Workers, pool \cup fanPool)

\* What Keystone did to the tokens the program holds.
RevokedCall(c) ==
  \/ c.op = "replacing" /\ ~c.err
  \/ c.op = "rejecting" /\ c.tok # None
Verdicts ==
  /\ \A t \in pool \cup fanPool : status[t] # "revoked"
  /\ \A w \in Workers : /\ worker[w].op = "issuing" => status[worker[w].tok] # "revoked"
                        /\ RevokedCall(worker[w]) => status[worker[w].tok] = "revoked"
  /\ \A p \in Probes : RevokedCall(probe[p]) => status[probe[p].tok] = "revoked"
  /\ \A i \in DOMAIN ring : status[ring[i].tok] = "revoked"
  /\ \A t \in Token : t \notin Referenced => status[t] = "live"

\* Before the tokens are there nothing else is.
Unprimed == main \in {"lookup", "granting", "priming"}
Setting ==
  Unprimed =>
    /\ pool = {} /\ fanPool = {} /\ ring = <<>> /\ lost = [i \in Pairs |-> 0]
    /\ refresher = [at |-> "off", due |-> {}, flight |-> {}] /\ ticker = "off"
    /\ worker = [w \in Workers |-> Idle] /\ probe = [p \in Probes |-> Idle]

FanoutShape ==
  fanout = [jobs |-> fanout.jobs, next |-> fanout.next, flight |-> fanout.flight,
            made |-> fanout.made, failed |-> fanout.failed, entries |-> fanout.entries]

Jobs == 1..(Tokens + FanUsers)
Primes ==
  /\ main # "priming" => \A k \in DOMAIN fanout.entries : fanout.entries[k] = None
  /\ main = "priming" =>
    /\ fanout.jobs = PrimeJobs /\ fanout.next \in Nat \ {0} /\ fanout.flight \subseteq Jobs
    /\ fanout.entries \in [Jobs -> Token \cup {None}]
    /\ \A k \in Jobs : (k \in fanout.flight => k < fanout.next)
    /\ ~fanout.failed => \A k \in Jobs : k < fanout.next /\ k \notin fanout.flight =>
         fanout.entries[k] # None
    /\ \A k \in Jobs : fanout.entries[k] # None =>
         /\ pairOf(fanout.entries[k]) = PrimeJobs[k] /\ status[fanout.entries[k]] # "revoked"
         /\ \A l \in Jobs : fanout.entries[l] = fanout.entries[k] => l = k

PInv == /\ Typed /\ Apart /\ Verdicts /\ Setting /\ FanoutShape /\ Primes /\ PoolAccounted

-----------------------------------------------------------------------------
(***************************************************************************)
(* Counting.                                                               *)
(***************************************************************************)
Of(t, i) == IF pairOf(t) = i THEN 1 ELSE 0
By(c, i) == IF HasTaken(c) /\ pairOf(c.tok) = i THEN 1 ELSE 0

\* An entry more, and an entry less.
LEMMA CountPut ==
  ASSUME NEW S, IsFiniteSet(S), NEW t, t \notin S, NEW i
  PROVE  /\ IsFiniteSet(put(S, t)) /\ Count(S, i) \in Nat
         /\ Count(put(S, t), i) = Count(S, i) + Of(t, i)
<1> DEFINE P == {x \in S : pairOf(x) = i}
<1>1. IsFiniteSet(P) /\ t \notin P
  BY FS_Subset
<1>2. IsFiniteSet(put(S, t))
  BY FS_AddElement DEF put
<1>3. Cardinality(P) \in Nat /\ Cardinality(P \cup {t}) = Cardinality(P) + 1
  BY <1>1, FS_AddElement, FS_CardinalityType
<1>4. {x \in put(S, t) : pairOf(x) = i} = IF pairOf(t) = i THEN P \cup {t} ELSE P
  BY DEF put
<1>5. QED
  BY <1>2, <1>3, <1>4 DEF Count, Of

LEMMA CountTake ==
  ASSUME NEW S, IsFiniteSet(S), NEW t \in S, NEW i
  PROVE  /\ IsFiniteSet(take(S, t)) /\ Count(take(S, t), i) \in Nat
         /\ Count(take(S, t), i) = Count(S, i) - Of(t, i)
<1> DEFINE T == take(S, t)
<1>1. IsFiniteSet(T) /\ t \notin T /\ put(T, t) = S
  BY FS_RemoveElement DEF take, put
<1> HIDE DEF T
<1>2. Count(T, i) \in Nat /\ Count(S, i) = Count(T, i) + Of(t, i)
  BY <1>1, CountPut
<1>3. QED
  BY <1>1, <1>2 DEF T, Of

\* One call of a set of them, and the rest.
LEMMA TakenSplit ==
  ASSUME NEW A, IsFiniteSet(A), NEW f, NEW a \in A, NEW i
  PROVE  /\ Cardinality(Takers(f, A \ {a}, i)) \in Nat
         /\ Cardinality(Takers(f, A, i)) = Cardinality(Takers(f, A \ {a}, i)) + By(f[a], i)
<1> DEFINE B == Takers(f, A \ {a}, i)
<1>1. IsFiniteSet(B) /\ a \notin B
  BY FS_Subset DEF Takers
<1>2. Cardinality(B) \in Nat /\ Cardinality(B \cup {a}) = Cardinality(B) + 1
  BY <1>1, FS_AddElement, FS_CardinalityType
<1>3. CASE HasTaken(f[a]) /\ pairOf(f[a].tok) = i
  <2>1. Takers(f, A, i) = B \cup {a}
    BY <1>3 DEF Takers
  <2>2. QED
    BY <1>2, <1>3, <2>1 DEF By
<1>4. CASE ~(HasTaken(f[a]) /\ pairOf(f[a].tok) = i)
  <2>1. Takers(f, A, i) = B
    BY <1>4 DEF Takers
  <2>2. QED
    BY <1>2, <1>4, <2>1 DEF By
<1>5. QED
  BY <1>3, <1>4

\* One call moves.
Moved(f, F, a, f1) == a \in F /\ \A b \in F \ {a} : f1[b] = f[b]

LEMMA TakenMoves ==
  ASSUME NEW A, IsFiniteSet(A), NEW f, NEW g, NEW a, Moved(f, A, a, g), NEW i
  PROVE  /\ Cardinality(Takers(f, A, i)) \in Nat /\ Cardinality(Takers(g, A, i)) \in Nat
         /\ Cardinality(Takers(g, A, i)) + By(f[a], i) = Cardinality(Takers(f, A, i)) + By(g[a], i)
<1>1. a \in A /\ Takers(g, A \ {a}, i) = Takers(f, A \ {a}, i)
  BY DEF Takers, Moved
<1>2. By(f[a], i) \in {0, 1} /\ By(g[a], i) \in {0, 1}
  BY DEF By
<1>3. /\ Cardinality(Takers(f, A \ {a}, i)) \in Nat
      /\ Cardinality(Takers(f, A, i)) = Cardinality(Takers(f, A \ {a}, i)) + By(f[a], i)
  BY <1>1, TakenSplit
<1>4. Cardinality(Takers(g, A, i)) = Cardinality(Takers(g, A \ {a}, i)) + By(g[a], i)
  BY <1>1, TakenSplit
<1>5. QED
  BY <1>1, <1>2, <1>3, <1>4

-----------------------------------------------------------------------------
(***************************************************************************)
(* Tokens.                                                                 *)
(***************************************************************************)
LEMMA SmallestId ==
  ASSUME NEW S \in SUBSET Nat, S # {}
  PROVE  Min(S) \in S
<1>1. PICK m \in S : \A j \in S : ~(<<j, m>> \in OpToRel(<, Nat))
  BY WFMin, NatLessThanWellFounded
<1>2. \A j \in S : m <= j
  <2>1. ASSUME NEW j \in S, ~(m <= j) PROVE FALSE
    <3>1. <<j, m>> \in Nat \X Nat /\ j < m
      BY <2>1
    <3>2. QED
      BY <1>1, <3>1 DEF OpToRel
  <2>2. QED
    BY <2>1
<1>3. QED
  BY <1>2 DEF Min

LEMMA TokenFacts ==
  /\ None \notin Token
  /\ \A t \in Token : pairOf(t) \in Pairs
BY PoolAssumption DEF None, Token, pairOf

\* A fresh token is nowhere in the program, and live.
LEMMA FreshIsNew ==
  ASSUME PInv, NEW i \in Pairs, Issues(i, "ok"), NEW t, t = fresh(i)
  PROVE  /\ t \in Token /\ pairOf(t) = i /\ t \notin Referenced /\ status[t] = "live"
<1>1. freeIds(i) # {} /\ freeIds(i) \in SUBSET Nat
  BY DEF Issues, freeIds
<1>2. PICK n : n = Min(freeIds(i))
  OBVIOUS
<1>3. n \in freeIds(i)
  BY <1>1, <1>2, SmallestId
<1>4. t = <<i, n>>
  BY <1>2 DEF fresh
<1>5. t \in Token /\ t \notin Referenced
  BY <1>3, <1>4 DEF freeIds, Token
<1>6. QED
  BY <1>4, <1>5 DEF pairOf, PInv, Verdicts

LEMMA NotReferenced ==
  ASSUME NEW t, t \notin Referenced
  PROVE  /\ t \notin pool /\ t \notin fanPool
         /\ \A w \in Workers : worker[w].tok # t
         /\ \A p \in Probes : probe[p].tok # t
         /\ \A i \in DOMAIN ring : ring[i].tok # t
         /\ \A k \in DOMAIN fanout.entries : fanout.entries[k] # t
BY DEF Referenced, Range

(***************************************************************************)
(* A step that changes what Keystone knows of no token the program still   *)
(* holds.                                                                  *)
(***************************************************************************)
Kept(t) == status'[t] = IF t \in Referenced' THEN status[t] ELSE "live"
StatusKept ==
  /\ status' \in [Token -> {"live", "due", "revoked"}]
  /\ \A t \in Token : Kept(t)

LEMMA BecomesKept ==
  ASSUME PInv, TokensBecome(status)
  PROVE  StatusKept
BY DEF PInv, Typed, TokensBecome, StatusKept, Kept

LEMMA UnchangedKept ==
  ASSUME PInv, UNCHANGED status, Referenced \cap Token \subseteq Referenced'
  PROVE  StatusKept
BY DEF PInv, Typed, Verdicts, StatusKept, Kept

LEMMA VerdictsKept ==
  ASSUME PInv, StatusKept,
         \A t \in pool' \cup fanPool' : t \in Token /\ status[t] # "revoked",
         \A w \in Workers : /\ worker'[w].op = "issuing" =>
                                 worker'[w].tok \in Token /\ status[worker'[w].tok] # "revoked"
                            /\ RevokedCall(worker'[w]) =>
                                 worker'[w].tok \in Token /\ status[worker'[w].tok] = "revoked",
         \A p \in Probes : RevokedCall(probe'[p]) =>
                              probe'[p].tok \in Token /\ status[probe'[p].tok] = "revoked",
         \A i \in DOMAIN ring' : ring'[i].tok \in Token /\ status[ring'[i].tok] = "revoked"
  PROVE  Verdicts'
<1>1. /\ pool' \cup fanPool' \subseteq Referenced'
      /\ \A w \in Workers : worker'[w].tok \in Referenced'
      /\ \A p \in Probes : probe'[p].tok \in Referenced'
      /\ \A i \in DOMAIN ring' : ring'[i].tok \in Referenced'
  BY DEF Referenced
<1>2. \A t \in Token : t \in Referenced' => status'[t] = status[t]
  BY DEF StatusKept, Kept
<1>3. \A t \in Token : t \notin Referenced' => status'[t] = "live"
  BY DEF StatusKept, Kept
<1>4. QED
  BY <1>1, <1>2, <1>3 DEF Verdicts, RevokedCall

(***************************************************************************)
(* The sum that is accounted for.                                          *)
(***************************************************************************)
Sum(i) == Count(pool, i) + Count(fanPool, i) + Taken(i) + lost[i]
Primed == main \in {"running", "growing"} \/ refresher.at # "off" \/ ticker # "off"
LEMMA SumKept ==
  ASSUME PInv, UNCHANGED config, Primed' => Primed, \A i \in Pairs : Sum(i)' = Sum(i)
  PROVE  PoolAccounted'
<1>1. PrimeJobs' = PrimeJobs
  BY DEF PrimeJobs, FanUsers, Tokens
<1>2. QED
  BY <1>1 DEF PInv, PoolAccounted, Primed, Sum

(***************************************************************************)
(* One call moves: it holds on to its token, or takes one from the pools,  *)
(* and what enters the pools is its token given back or nobody's.          *)
(***************************************************************************)
LEMMA ApartMoves ==
  ASSUME NEW f, NEW F, NEW g, NEW G, NEW old, NEW f1, NEW new,
         ApartOf(f, F, g, G, old), ApartOf(g, G, f, F, old),
         NEW a, Moved(f, F, a, f1),
         HasTaken(f1[a]) => /\ f1[a].tok \in Token \ new
                            /\ \/ HasTaken(f[a]) /\ f1[a].tok = f[a].tok
                               \/ f1[a].tok \in old,
         \A x \in new : \/ x \in old
                        \/ HasTaken(f[a]) /\ x = f[a].tok
                        \/ (\A b \in F : f[b].tok # x) /\ (\A b \in G : g[b].tok # x)
  PROVE  ApartOf(f1, F, g, G, new) /\ ApartOf(g, G, f1, F, new)
<1>1. ASSUME NEW b \in F \ {a}, HasTaken(f[b])
      PROVE  /\ f[b].tok \in Token \ new
             /\ HasTaken(f1[a]) => f1[a].tok # f[b].tok
  BY <1>1 DEF ApartOf, Moved
<1>2. ASSUME NEW b \in G, HasTaken(g[b])
      PROVE  /\ g[b].tok \in Token \ new
             /\ HasTaken(f1[a]) => f1[a].tok # g[b].tok
  BY <1>2 DEF ApartOf, Moved
<1>3. ApartOf(f1, F, g, G, new)
  BY <1>1, <1>2 DEF ApartOf, Moved
<1>4. ApartOf(g, G, f1, F, new)
  BY <1>1, <1>2 DEF ApartOf, Moved
<1>5. QED
  BY <1>3, <1>4

LEMMA CallTokens ==
  ASSUME PInv
  PROVE  /\ \A w \in Workers : HasTaken(worker[w]) \/ RevokedCall(worker[w]) => worker[w].tok \in Token
         /\ \A p \in Probes : HasTaken(probe[p]) \/ RevokedCall(probe[p]) => probe[p].tok \in Token
         /\ \A i \in DOMAIN ring : ring[i].tok \in Token
<1>1. ASSUME NEW c \in Calling, RevokedCall(c), ~HasTaken(c) PROVE c.tok \in Token
  BY <1>1 DEF RevokedCall, HasTaken, Calling
<1>2. \A i \in DOMAIN ring : ring[i].tok \in Token
  <2>1. ring \in Seq([tok : Token, old : BOOLEAN])
    BY DEF PInv, Typed
  <2>2. DOMAIN ring = 1..Len(ring) /\ \A i \in 1..Len(ring) : ring[i] \in [tok : Token, old : BOOLEAN]
    BY ONLY <2>1, LenProperties, ElementOfSeq
  <2>3. QED
    BY ONLY <2>2
<1>3. \A w \in Workers : HasTaken(worker[w]) \/ RevokedCall(worker[w]) => worker[w].tok \in Token
  BY <1>1 DEF PInv, Typed, Apart, ApartOf
<1>4. \A p \in Probes : HasTaken(probe[p]) \/ RevokedCall(probe[p]) => probe[p].tok \in Token
  BY <1>1 DEF PInv, Typed, Apart, ApartOf
<1>5. QED
  BY <1>2, <1>3, <1>4

(***************************************************************************)
(* A step while the pools are primed keeps what is said of the setup.      *)
(***************************************************************************)
LEMMA RunningStep ==
  ASSUME PInv, ~Unprimed, UNCHANGED <<config, main, fanout>>,
         ticker' # "off" => ticker # "off", refresher'.at # "off" => refresher.at # "off",
         Typed', Apart', Verdicts', \A i \in Pairs : Sum(i)' = Sum(i)
  PROVE  PInv'
<1>1. ~Unprimed'
  BY DEF Unprimed
<1>2. PoolAccounted'
  BY SumKept DEF Primed
<1>3. Setting' /\ Primes'
  BY <1>1 DEF PInv, Setting, Primes, Unprimed
<1>4. FanoutShape'
  BY DEF PInv, FanoutShape
<1>5. QED
  BY <1>2, <1>3, <1>4 DEF PInv

(***************************************************************************)
(* Steps that leave every call and every pool alone.                       *)
(***************************************************************************)
LEMMA CallsStay ==
  ASSUME PInv, UNCHANGED <<config, pool, fanPool, worker, probe, ring, lost>>, StatusKept
  PROVE  Apart' /\ Verdicts' /\ \A i \in Pairs : Sum(i)' = Sum(i)
<1>1. Apart'
  BY DEF PInv, Apart
<1>2. \A i \in Pairs : Sum(i)' = Sum(i)
  BY DEF Sum, Taken
<1>3. Verdicts'
  <2>1. \A t \in pool' \cup fanPool' : t \in Token /\ status[t] # "revoked"
    BY DEF PInv, Typed, Verdicts
  <2>2. \A w \in Workers : /\ worker'[w].op = "issuing" =>
                                worker'[w].tok \in Token /\ status[worker'[w].tok] # "revoked"
                           /\ RevokedCall(worker'[w]) =>
                                worker'[w].tok \in Token /\ status[worker'[w].tok] = "revoked"
    BY CallTokens DEF PInv, Verdicts, HasTaken
  <2>3. \A p \in Probes : RevokedCall(probe'[p]) =>
                             probe'[p].tok \in Token /\ status[probe'[p].tok] = "revoked"
    BY CallTokens DEF PInv, Verdicts
  <2>4. \A i \in DOMAIN ring' : ring'[i].tok \in Token /\ status[ring'[i].tok] = "revoked"
    BY CallTokens DEF PInv, Verdicts
  <2>5. QED
    BY <2>1, <2>2, <2>3, <2>4, VerdictsKept
<1>4. QED
  BY <1>1, <1>2, <1>3

(***************************************************************************)
(* A call of a worker or a probe moves from c to d: what it takes comes    *)
(* out of the pool, what goes into the pool is what it held or nobody's,   *)
(* and the tokens it took, lost and put back balance.                      *)
(***************************************************************************)
Turns(f, a, d, f1) == f1 = [f EXCEPT ![a] = d]

PoolMoves(c, d) ==
  /\ pool' \subseteq Token /\ IsFiniteSet(pool') /\ pool' \cap fanPool = {}
  /\ \A t \in pool' : /\ status[t] # "revoked"
                      /\ t \in pool \/ (HasTaken(c) /\ t = c.tok) \/ t \notin Referenced
  /\ HasTaken(d) => /\ d.tok \in Token \ (pool' \cup fanPool)
                    /\ (HasTaken(c) /\ d.tok = c.tok) \/ d.tok \in pool
  /\ d.op = "issuing" => status[d.tok] # "revoked"
  /\ RevokedCall(d) => d.tok \in Token /\ status[d.tok] = "revoked"
  /\ ring' \in Seq([tok : Token, old : BOOLEAN])
  /\ \A i \in DOMAIN ring' : ring'[i].tok \in Token /\ status[ring'[i].tok] = "revoked"
  /\ lost' \in [Pairs -> Nat]
  /\ \A i \in Pairs : Count(pool', i) + By(d, i) + lost'[i] = Count(pool, i) + By(c, i) + lost[i]

LEMMA WorkerMoves ==
  ASSUME PInv, ~Unprimed, NEW w \in Workers, NEW d \in Calling, Turns(worker, w, d, worker'),
         UNCHANGED <<config, main, fanout, fanPool, probe, refresher, ticker>>, StatusKept,
         PoolMoves(worker[w], d)
  PROVE  PInv'
<1>1. worker \in [Workers -> Calling] /\ worker'[w] = d /\ Moved(worker, Workers, w, worker')
  BY DEF PInv, Typed, Moved, Turns
<1>2. Typed'
  <2>1. /\ pool' \subseteq Token /\ IsFiniteSet(pool') /\ lost' \in [Pairs -> Nat]
        /\ ring' \in Seq([tok : Token, old : BOOLEAN])
    BY DEF PoolMoves
  <2>2. status' \in [Token -> {"live", "due", "revoked"}]
    BY DEF StatusKept
  <2>3. worker' \in [Workers -> Calling] /\ probe' \in [Probes -> Calling]
    BY <1>1 DEF PInv, Typed, Turns
  <2>4. QED
    BY <2>1, <2>2, <2>3 DEF PInv, Typed
<1>3. Apart'
  <2>1. ApartOf(worker, Workers, probe, Probes, pool \cup fanPool)
        /\ ApartOf(probe, Probes, worker, Workers, pool \cup fanPool)
    BY DEF PInv, Apart
  <2>2. \A t \in pool' \cup fanPool :
           \/ t \in pool \cup fanPool
           \/ HasTaken(worker[w]) /\ t = worker[w].tok
           \/ (\A b \in Workers : worker[b].tok # t) /\ (\A b \in Probes : probe[b].tok # t)
    BY NotReferenced DEF PoolMoves
  <2>3. HasTaken(worker'[w]) =>
          /\ worker'[w].tok \in Token \ (pool' \cup fanPool)
          /\ \/ HasTaken(worker[w]) /\ worker'[w].tok = worker[w].tok
             \/ worker'[w].tok \in pool \cup fanPool
    BY <1>1 DEF PoolMoves
  <2>4. ApartOf(worker', Workers, probe, Probes, pool' \cup fanPool)
        /\ ApartOf(probe, Probes, worker', Workers, pool' \cup fanPool)
    BY ONLY <1>1, <2>1, <2>2, <2>3, ApartMoves
  <2>5. QED
    BY <2>4 DEF Apart, PoolMoves
<1>4. Verdicts'
  <2>1. \A t \in pool' \cup fanPool' : t \in Token /\ status[t] # "revoked"
    <3>1. pool' \subseteq Token /\ \A t \in pool' : status[t] # "revoked"
      BY DEF PoolMoves
    <3>2. \A t \in fanPool' : t \in Token /\ status[t] # "revoked"
      BY DEF PInv, Typed, Verdicts
    <3>3. QED
      BY <3>1, <3>2
  <2>2. \A v \in Workers : /\ worker'[v].op = "issuing" =>
                                worker'[v].tok \in Token /\ status[worker'[v].tok] # "revoked"
                           /\ RevokedCall(worker'[v]) =>
                                worker'[v].tok \in Token /\ status[worker'[v].tok] = "revoked"
    BY <1>1, CallTokens DEF PInv, Verdicts, HasTaken, Moved, PoolMoves
  <2>3. \A p \in Probes : RevokedCall(probe'[p]) =>
                             probe'[p].tok \in Token /\ status[probe'[p].tok] = "revoked"
    BY <1>1, CallTokens DEF PInv, Verdicts, Moved, PoolMoves
  <2>4. \A i \in DOMAIN ring' : ring'[i].tok \in Token /\ status[ring'[i].tok] = "revoked"
    BY DEF PoolMoves
  <2>5. QED
    BY <2>1, <2>2, <2>3, <2>4, VerdictsKept
<1>5. \A i \in Pairs : Sum(i)' = Sum(i)
  <2>1. TAKE i \in Pairs
  <2>2. IsFiniteSet(Workers) /\ IsFiniteSet(Probes)
    BY PoolAssumption
  <2>3. /\ Cardinality(Takers(worker', Workers, i)) \in Nat
        /\ Cardinality(Takers(worker, Workers, i)) \in Nat
        /\ Cardinality(Takers(worker', Workers, i)) + By(worker[w], i)
              = Cardinality(Takers(worker, Workers, i)) + By(d, i)
    BY ONLY <1>1, <2>2, TakenMoves
  <2>4. By(d, i) \in Nat /\ By(worker[w], i) \in Nat /\ lost[i] \in Nat /\ lost'[i] \in Nat
    BY DEF By, PInv, Typed, PoolMoves
  <2>5. /\ Cardinality(Takers(probe, Probes, i)) \in Nat
        /\ Count(pool, i) \in Nat /\ Count(pool', i) \in Nat /\ Count(fanPool, i) \in Nat
    <3>1. IsFiniteSet(pool) /\ IsFiniteSet(fanPool) /\ IsFiniteSet(pool')
      BY DEF PInv, Typed, PoolMoves
    <3>2. QED
      BY <2>2, <3>1, FS_Subset, FS_CardinalityType DEF Count, Takers
  <2>6. Count(pool', i) + By(d, i) + lost'[i] = Count(pool, i) + By(worker[w], i) + lost[i]
    BY DEF PoolMoves
  <2>7. /\ Sum(i) = Count(pool, i) + Count(fanPool, i)
                      + (Cardinality(Takers(worker, Workers, i)) + Cardinality(Takers(probe, Probes, i)))
                      + lost[i]
        /\ Sum(i)' = Count(pool', i) + Count(fanPool, i)
                      + (Cardinality(Takers(worker', Workers, i)) + Cardinality(Takers(probe, Probes, i)))
                      + lost'[i]
    BY DEF Sum, Taken
  <2>8. QED
    BY ONLY <2>3, <2>4, <2>5, <2>6, <2>7
<1>6. QED
  BY <1>2, <1>3, <1>4, <1>5, RunningStep

LEMMA ProbeMoves ==
  ASSUME PInv, ~Unprimed, NEW p \in Probes, NEW d \in Calling, Turns(probe, p, d, probe'),
         UNCHANGED <<config, main, fanout, fanPool, worker, refresher, ticker>>, StatusKept,
         PoolMoves(probe[p], d)
  PROVE  PInv'
<1>1. probe \in [Probes -> Calling] /\ probe'[p] = d /\ Moved(probe, Probes, p, probe')
  BY DEF PInv, Typed, Moved, Turns
<1>2. Typed'
  <2>1. /\ pool' \subseteq Token /\ IsFiniteSet(pool') /\ lost' \in [Pairs -> Nat]
        /\ ring' \in Seq([tok : Token, old : BOOLEAN])
    BY DEF PoolMoves
  <2>2. status' \in [Token -> {"live", "due", "revoked"}]
    BY DEF StatusKept
  <2>3. worker' \in [Workers -> Calling] /\ probe' \in [Probes -> Calling]
    BY <1>1 DEF PInv, Typed, Turns
  <2>4. QED
    BY <2>1, <2>2, <2>3 DEF PInv, Typed
<1>3. Apart'
  <2>1. ApartOf(probe, Probes, worker, Workers, pool \cup fanPool)
        /\ ApartOf(worker, Workers, probe, Probes, pool \cup fanPool)
    BY DEF PInv, Apart
  <2>2. \A t \in pool' \cup fanPool :
           \/ t \in pool \cup fanPool
           \/ HasTaken(probe[p]) /\ t = probe[p].tok
           \/ (\A b \in Probes : probe[b].tok # t) /\ (\A b \in Workers : worker[b].tok # t)
    BY NotReferenced DEF PoolMoves
  <2>3. HasTaken(probe'[p]) =>
          /\ probe'[p].tok \in Token \ (pool' \cup fanPool)
          /\ \/ HasTaken(probe[p]) /\ probe'[p].tok = probe[p].tok
             \/ probe'[p].tok \in pool \cup fanPool
    BY <1>1 DEF PoolMoves
  <2>4. ApartOf(probe', Probes, worker, Workers, pool' \cup fanPool)
        /\ ApartOf(worker, Workers, probe', Probes, pool' \cup fanPool)
    BY ONLY <1>1, <2>1, <2>2, <2>3, ApartMoves
  <2>5. QED
    BY <2>4 DEF Apart, PoolMoves
<1>4. Verdicts'
  <2>1. \A t \in pool' \cup fanPool' : t \in Token /\ status[t] # "revoked"
    <3>1. pool' \subseteq Token /\ \A t \in pool' : status[t] # "revoked"
      BY DEF PoolMoves
    <3>2. \A t \in fanPool' : t \in Token /\ status[t] # "revoked"
      BY DEF PInv, Typed, Verdicts
    <3>3. QED
      BY <3>1, <3>2
  <2>2. \A v \in Workers : /\ worker'[v].op = "issuing" =>
                                worker'[v].tok \in Token /\ status[worker'[v].tok] # "revoked"
                           /\ RevokedCall(worker'[v]) =>
                                worker'[v].tok \in Token /\ status[worker'[v].tok] = "revoked"
    BY <1>1, CallTokens DEF PInv, Verdicts, HasTaken, Moved, PoolMoves
  <2>3. \A q \in Probes : RevokedCall(probe'[q]) =>
                             probe'[q].tok \in Token /\ status[probe'[q].tok] = "revoked"
    BY <1>1, CallTokens DEF PInv, Verdicts, Moved, PoolMoves
  <2>4. \A i \in DOMAIN ring' : ring'[i].tok \in Token /\ status[ring'[i].tok] = "revoked"
    BY DEF PoolMoves
  <2>5. QED
    BY <2>1, <2>2, <2>3, <2>4, VerdictsKept
<1>5. \A i \in Pairs : Sum(i)' = Sum(i)
  <2>1. TAKE i \in Pairs
  <2>2. IsFiniteSet(Probes) /\ IsFiniteSet(Workers)
    BY PoolAssumption
  <2>3. /\ Cardinality(Takers(probe', Probes, i)) \in Nat
        /\ Cardinality(Takers(probe, Probes, i)) \in Nat
        /\ Cardinality(Takers(probe', Probes, i)) + By(probe[p], i)
              = Cardinality(Takers(probe, Probes, i)) + By(d, i)
    BY ONLY <1>1, <2>2, TakenMoves
  <2>4. By(d, i) \in Nat /\ By(probe[p], i) \in Nat /\ lost[i] \in Nat /\ lost'[i] \in Nat
    BY DEF By, PInv, Typed, PoolMoves
  <2>5. /\ Cardinality(Takers(worker, Workers, i)) \in Nat
        /\ Count(pool, i) \in Nat /\ Count(pool', i) \in Nat /\ Count(fanPool, i) \in Nat
    <3>1. IsFiniteSet(pool) /\ IsFiniteSet(fanPool) /\ IsFiniteSet(pool')
      BY DEF PInv, Typed, PoolMoves
    <3>2. QED
      BY <2>2, <3>1, FS_Subset, FS_CardinalityType DEF Count, Takers
  <2>6. Count(pool', i) + By(d, i) + lost'[i] = Count(pool, i) + By(probe[p], i) + lost[i]
    BY DEF PoolMoves
  <2>7. /\ Sum(i) = Count(pool, i) + Count(fanPool, i)
                      + (Cardinality(Takers(worker, Workers, i)) + Cardinality(Takers(probe, Probes, i)))
                      + lost[i]
        /\ Sum(i)' = Count(pool', i) + Count(fanPool, i)
                      + (Cardinality(Takers(worker, Workers, i)) + Cardinality(Takers(probe', Probes, i)))
                      + lost'[i]
    BY DEF Sum, Taken
  <2>8. QED
    BY ONLY <2>3, <2>4, <2>5, <2>6, <2>7
<1>6. QED
  BY <1>2, <1>3, <1>4, <1>5, RunningStep

LEMMA PoolFacts ==
  ASSUME PInv
  PROVE  /\ pool \subseteq Token /\ fanPool \subseteq Token /\ IsFiniteSet(pool) /\ pool \cap fanPool = {}
         /\ \A t \in pool : status[t] # "revoked"
         /\ ring \in Seq([tok : Token, old : BOOLEAN])
         /\ \A i \in DOMAIN ring : ring[i].tok \in Token /\ status[ring[i].tok] = "revoked"
         /\ lost \in [Pairs -> Nat] /\ worker \in [Workers -> Calling] /\ probe \in [Probes -> Calling]
         /\ \A i \in Pairs : Count(pool, i) \in Nat
<1>1. IsFiniteSet(pool)
  BY DEF PInv, Typed
<1>2. \A i \in Pairs : Count(pool, i) \in Nat
  BY <1>1, FS_Subset, FS_CardinalityType DEF Count
<1>3. QED
  BY <1>2, CallTokens DEF PInv, Typed, Apart, Verdicts

(***************************************************************************)
(* A worker's call, or a probe's, that takes no token and holds none.      *)
(***************************************************************************)
LEMMA WorkerAside ==
  ASSUME PInv, ~Unprimed, NEW w \in Workers, NEW d \in Calling, Turns(worker, w, d, worker'),
         UNCHANGED <<config, main, fanout, pool, fanPool, probe, ring, lost, refresher, ticker>>,
         StatusKept, ~HasTaken(worker[w]), ~HasTaken(d),
         RevokedCall(d) => d.tok \in Token /\ status[d.tok] = "revoked"
  PROVE  PInv'
<1>1. d.op # "issuing" /\ \A i : By(d, i) = 0 /\ By(worker[w], i) = 0
  BY DEF By, HasTaken
<1>2. PoolMoves(worker[w], d)
  BY <1>1, PoolFacts DEF PoolMoves
<1>3. QED
  BY <1>2, WorkerMoves

LEMMA ProbeAside ==
  ASSUME PInv, ~Unprimed, NEW p \in Probes, NEW d \in Calling, Turns(probe, p, d, probe'),
         UNCHANGED <<config, main, fanout, pool, fanPool, worker, ring, lost, refresher, ticker>>,
         StatusKept, ~HasTaken(probe[p]), ~HasTaken(d),
         RevokedCall(d) => d.tok \in Token /\ status[d.tok] = "revoked"
  PROVE  PInv'
<1>1. d.op # "issuing" /\ \A i : By(d, i) = 0 /\ By(probe[p], i) = 0
  BY DEF By, HasTaken
<1>2. PoolMoves(probe[p], d)
  BY <1>1, PoolFacts DEF PoolMoves
<1>3. QED
  BY <1>2, ProbeMoves

-----------------------------------------------------------------------------
(***************************************************************************)
(* The steps of a worker.                                                  *)
(***************************************************************************)
LEMMA AwakeIsPrimed ==
  ASSUME PInv
  PROVE  /\ \A w \in Workers : worker[w].op # "idle" => ~Unprimed
         /\ \A p \in Probes : probe[p].op # "idle" => ~Unprimed
         /\ refresher.at # "off" \/ refresher.due # {} \/ refresher.flight # {} => ~Unprimed
         /\ ticker # "off" \/ pool \cup fanPool # {} \/ ring # <<>> => ~Unprimed
BY DEF PInv, Setting, Idle

LEMMA WorkerRefs ==
  ASSUME NEW w \in Workers, worker \in [Workers -> Calling], NEW d, Turns(worker, w, d, worker'),
         UNCHANGED <<fanPool, probe, ring, refresher, fanout>>,
         \A t \in Token : t \in pool \/ t = worker[w].tok => t \in pool' \/ t = d.tok
  PROVE  Referenced \cap Token \subseteq Referenced'
<1>1. worker'[w] = d /\ \A v \in Workers : v # w => worker'[v] = worker[v]
  BY DEF Turns
<1>2. \A t \in Token : t \in pool \/ (\E v \in Workers : worker[v].tok = t)
        => t \in pool' \/ (\E v \in Workers : worker'[v].tok = t)
  BY <1>1
<1>3. QED
  BY <1>2 DEF Referenced

LEMMA ProbeRefs ==
  ASSUME NEW p \in Probes, probe \in [Probes -> Calling], NEW d, Turns(probe, p, d, probe'),
         UNCHANGED <<fanPool, worker, ring, refresher, fanout>>,
         \A t \in Token : t \in pool \/ t = probe[p].tok => t \in pool' \/ t = d.tok
  PROVE  Referenced \cap Token \subseteq Referenced'
<1>1. probe'[p] = d /\ \A v \in Probes : v # p => probe'[v] = probe[v]
  BY DEF Turns
<1>2. \A t \in Token : t \in pool \/ (\E v \in Probes : probe[v].tok = t)
        => t \in pool' \/ (\E v \in Probes : probe'[v].tok = t)
  BY <1>1
<1>3. QED
  BY <1>2 DEF Referenced

LEMMA CallTypes ==
  /\ Idle \in Calling /\ ~HasTaken(Idle) /\ ~RevokedCall(Idle)
  /\ \A c \in Calling : /\ c.op \in Op /\ c.grant \in Int /\ c.err \in BOOLEAN
                        /\ c.tok \in Token \cup {None}
                        /\ c.op \in {"idle", "starting", "locking", "removing", "regranting"} =>
                             c.tok = None
BY DEF Idle, Calling, HasTaken, RevokedCall, Op

LEMMA ReadSteps ==
  ASSUME PInv, NEW w \in Workers, Read(w) \/ BadToken(w) \/ ReadAnswer(w)
  PROVE  PInv'
<1>1. worker \in [Workers -> Calling] /\ worker[w] \in Calling
  BY DEF PInv, Typed
<1>2. CASE Read(w)
  <2> DEFINE d == [worker[w] EXCEPT !.op = "reading"]
  <2>1. worker[w].op = "idle" /\ ~Unprimed
    BY <1>2 DEF Read, Draws, Unprimed
  <2>2. d \in Calling /\ ~HasTaken(worker[w]) /\ ~HasTaken(d) /\ ~RevokedCall(d) /\ d.tok = worker[w].tok
    BY <1>1, <2>1 DEF Calling, HasTaken, RevokedCall, Op
  <2>3. Turns(worker, w, d, worker')
    BY <1>1, <1>2 DEF Read, Turns
  <2>4. UNCHANGED <<config, main, fanout, pool, fanPool, probe, ring, lost, refresher, ticker, status>>
    BY <1>2 DEF Read, workerOnly, setVars, poolVars
  <2> HIDE DEF d
  <2>5. StatusKept
    BY <1>1, <2>2, <2>3, <2>4, WorkerRefs, UnchangedKept
  <2>6. QED
    BY <2>1, <2>2, <2>3, <2>4, <2>5, WorkerAside
<1>3. CASE BadToken(w)
  <2>1. PICK t \in oldEnough \cup {None} :
          worker' = [worker EXCEPT ![w].op = "rejecting", ![w].tok = t]
    BY <1>3 DEF BadToken
  <2> DEFINE d == [worker[w] EXCEPT !.op = "rejecting", !.tok = t]
  <2>2. worker[w].op = "idle" /\ ~Unprimed
    BY <1>3 DEF BadToken, Draws, Unprimed
  <2>3. t = None \/ (t \in Token /\ status[t] = "revoked")
    BY <2>1, PoolFacts DEF oldEnough
  <2>4. /\ d \in Calling /\ ~HasTaken(worker[w]) /\ ~HasTaken(d) /\ worker[w].tok = None
        /\ RevokedCall(d) => d.tok \in Token /\ status[d.tok] = "revoked"
    BY <1>1, <2>2, <2>3 DEF Calling, HasTaken, RevokedCall, Op
  <2>5. Turns(worker, w, d, worker')
    BY <1>1, <2>1 DEF Turns
  <2>6. UNCHANGED <<config, main, fanout, pool, fanPool, probe, ring, lost, refresher, ticker, status>>
    BY <1>3 DEF BadToken, workerOnly, setVars, poolVars
  <2> HIDE DEF d
  <2>7. StatusKept
    BY <1>1, <2>4, <2>5, <2>6, WorkerRefs, UnchangedKept, TokenFacts
  <2>8. QED
    BY <2>2, <2>4, <2>5, <2>6, <2>7, WorkerAside
<1>4. CASE ReadAnswer(w)
  <2>1. worker[w].op \in {"reading", "rejecting"} /\ ~Unprimed
    BY <1>4, AwakeIsPrimed DEF ReadAnswer
  <2>2. Turns(worker, w, Idle, worker')
    BY <1>4 DEF ReadAnswer, Turns
  <2>3. UNCHANGED <<config, main, fanout, pool, fanPool, probe, ring, lost, refresher, ticker>>
    BY <1>4 DEF ReadAnswer, workerOnly, setVars
  <2>4. StatusKept
    BY <1>4, BecomesKept DEF ReadAnswer
  <2>5. ~HasTaken(worker[w])
    BY <2>1 DEF HasTaken
  <2>6. QED
    BY <2>1, <2>2, <2>3, <2>4, <2>5, WorkerAside, CallTypes
<1>5. QED
  BY <1>2, <1>3, <1>4

LEMMA GrantSteps ==
  ASSUME PInv, NEW w \in Workers, NEW o,
         GrantChurn(w) \/ GetsLock(w) \/ RemoveAnswer(w, o) \/ RegrantAnswer(w, o)
  PROVE  PInv'
<1>1. worker \in [Workers -> Calling] /\ worker[w] \in Calling
  BY DEF PInv, Typed
<1>2. UNCHANGED <<config, main, fanout, pool, fanPool, probe, ring, lost, refresher, ticker, status>>
  BY DEF GrantChurn, GetsLock, RemoveAnswer, RegrantAnswer, workerOnly, setVars, poolVars
<1>3. worker[w].op \in {"idle", "locking", "removing", "regranting"} /\ ~Unprimed
  BY AwakeIsPrimed DEF GrantChurn, GetsLock, RemoveAnswer, RegrantAnswer, Draws, Unprimed
<1>4. PICK d \in Calling : /\ Turns(worker, w, d, worker') /\ ~HasTaken(d) /\ ~RevokedCall(d)
                           /\ worker[w].tok = None \/ d.tok = worker[w].tok
  <2>1. CASE GrantChurn(w)
    <3>1. PICK op \in {"locking", "removing"}, g \in Int :
            worker' = [worker EXCEPT ![w].op = op, ![w].grant = g]
      <4>1. PICK i \in 0..(ChurnGrants - 1) :
              LET round == [j \in 1..ChurnGrants |-> (i + j - 1) % ChurnGrants]
                  unlocked == {j \in DOMAIN round : round[j] \notin churnLock}
              IN  IF unlocked = {}
                  THEN worker' = [worker EXCEPT ![w].op = "locking", ![w].grant = i]
                  ELSE worker' = [worker EXCEPT ![w].op = "removing", ![w].grant = round[Min(unlocked)]]
        BY <2>1 DEF GrantChurn
      <4> DEFINE round == [j \in 1..ChurnGrants |-> (i + j - 1) % ChurnGrants]
                 unlocked == {j \in DOMAIN round : round[j] \notin churnLock}
      <4>2. CASE unlocked = {}
        BY <4>1, <4>2
      <4>3. CASE unlocked # {}
        <5>1. unlocked \in SUBSET Nat /\ unlocked \subseteq 1..ChurnGrants
          OBVIOUS
        <5> HIDE DEF unlocked
        <5>2. Min(unlocked) \in 1..ChurnGrants
          BY <4>3, <5>1, SmallestId
        <5>3. PICK m \in 1..ChurnGrants : m = Min(unlocked)
          BY <5>2
        <5>4. round[m] \in Int
          BY PoolAssumption, <5>3
        <5> USE DEF unlocked
        <5>5. worker' = [worker EXCEPT ![w].op = "removing", ![w].grant = round[m]]
          BY <4>1, <4>3, <5>3
        <5>6. QED
          BY <5>4, <5>5
      <4>4. QED
        BY <4>2, <4>3
    <3> DEFINE d == [worker[w] EXCEPT !.op = op, !.grant = g]
    <3>2. d \in Calling /\ ~HasTaken(d) /\ ~RevokedCall(d) /\ d.tok = worker[w].tok
      BY <1>1, <1>3, <3>1 DEF Calling, HasTaken, RevokedCall, Op
    <3>3. Turns(worker, w, d, worker')
      BY <1>1, <3>1 DEF Turns
    <3>4. QED
      BY <3>2, <3>3
  <2>2. CASE GetsLock(w)
    <3> DEFINE d == [worker[w] EXCEPT !.op = "removing"]
    <3>1. d \in Calling /\ ~HasTaken(d) /\ ~RevokedCall(d) /\ d.tok = worker[w].tok
      BY <1>1, <1>3 DEF Calling, HasTaken, RevokedCall, Op
    <3>2. Turns(worker, w, d, worker')
      BY <1>1, <2>2 DEF Turns, GetsLock
    <3>3. QED
      BY <3>1, <3>2
  <2>3. CASE RemoveAnswer(w, o)
    <3> DEFINE d == [worker[w] EXCEPT !.op = "regranting"]
    <3>1. d \in Calling /\ ~HasTaken(d) /\ ~RevokedCall(d) /\ d.tok = worker[w].tok
      BY <1>1, <1>3 DEF Calling, HasTaken, RevokedCall, Op
    <3>2. Turns(worker, w, d, worker')
      BY <1>1, <2>3 DEF Turns, RemoveAnswer
    <3>3. QED
      BY <3>1, <3>2
  <2>4. CASE RegrantAnswer(w, o)
    BY <1>1, <1>3, <2>4, CallTypes DEF RegrantAnswer, Turns
  <2>5. QED
    BY <2>1, <2>2, <2>3, <2>4
<1>5. StatusKept
  BY <1>1, <1>2, <1>4, WorkerRefs, UnchangedKept, TokenFacts
<1>6. ~HasTaken(worker[w])
  BY <1>3 DEF HasTaken
<1>7. QED
  BY <1>2, <1>3, <1>4, <1>5, <1>6, WorkerAside

(***************************************************************************)
(* What a step does to the pool.                                           *)
(***************************************************************************)
\* An entry is taken.
LEMMA TakeMove ==
  ASSUME PInv, NEW c, ~HasTaken(c), NEW d, d.op \in {"issuing", "revoking"}, d.tok \in pool,
         pool' = take(pool, d.tok), UNCHANGED <<ring, lost>>
  PROVE  PoolMoves(c, d)
<1>1. PICK t : t = d.tok /\ t \in pool /\ pool' = take(pool, t)
  OBVIOUS
<1>2. IsFiniteSet(pool') /\ \A i : Count(pool', i) = Count(pool, i) - Of(t, i)
  BY <1>1, PoolFacts, CountTake
<1>3. \A i \in Pairs : Count(pool', i) + By(d, i) + lost'[i] = Count(pool, i) + By(c, i) + lost[i]
  <2>1. TAKE i \in Pairs
  <2>2. By(d, i) = Of(t, i) /\ By(c, i) = 0 /\ Of(t, i) \in {0, 1}
    BY <1>1 DEF By, HasTaken, Of
  <2>3. Count(pool, i) \in Nat /\ lost[i] \in Nat
    BY PoolFacts
  <2>4. Count(pool', i) = Count(pool, i) - Of(t, i) /\ lost'[i] = lost[i]
    BY <1>2
  <2>5. QED
    BY ONLY <2>2, <2>3, <2>4
<1>4. pool' \subseteq pool /\ t \notin pool' /\ t \notin fanPool /\ t \in Token
  BY <1>1, PoolFacts DEF take
<1>5. ~RevokedCall(d)
  BY DEF RevokedCall
<1>6. QED
  BY <1>1, <1>2, <1>3, <1>4, <1>5, PoolFacts DEF PoolMoves

\* A token comes into the pool for the one that was taken.
LEMMA PutMove ==
  ASSUME PInv, NEW c, HasTaken(c), NEW d, ~HasTaken(d), ~RevokedCall(d),
         NEW t \in Token, pairOf(t) = pairOf(c.tok), status[t] # "revoked",
         t \notin pool \cup fanPool, t = c.tok \/ t \notin Referenced,
         pool' = put(pool, t), UNCHANGED lost,
         ring' \in Seq([tok : Token, old : BOOLEAN]),
         \A i \in DOMAIN ring' : ring'[i].tok \in Token /\ status[ring'[i].tok] = "revoked"
  PROVE  PoolMoves(c, d)
<1>1. IsFiniteSet(pool') /\ \A i : Count(pool', i) = Count(pool, i) + Of(t, i)
  BY PoolFacts, CountPut
<1>2. \A i \in Pairs : Count(pool', i) + By(d, i) + lost'[i] = Count(pool, i) + By(c, i) + lost[i]
  <2>1. TAKE i \in Pairs
  <2>2. By(d, i) = 0 /\ By(c, i) = Of(t, i) /\ Of(t, i) \in {0, 1}
    BY DEF By, Of
  <2>3. Count(pool, i) \in Nat /\ lost[i] \in Nat
    BY PoolFacts
  <2>4. Count(pool', i) = Count(pool, i) + Of(t, i) /\ lost'[i] = lost[i]
    BY <1>1
  <2>5. QED
    BY ONLY <2>2, <2>3, <2>4
<1>3. /\ pool' \subseteq Token /\ pool' \cap fanPool = {}
      /\ \A x \in pool' : x \in pool \/ x = t
  BY PoolFacts DEF put
<1>4. d.op # "issuing"
  BY DEF HasTaken
<1>5. QED
  BY <1>1, <1>2, <1>3, <1>4, PoolFacts DEF PoolMoves

\* The pool loses the token that was taken.
LEMMA LoseMove ==
  ASSUME PInv, NEW c, HasTaken(c), c.tok \in Token, NEW d, ~HasTaken(d), ~RevokedCall(d),
         UNCHANGED pool, lost' = [lost EXCEPT ![pairOf(c.tok)] = @ + 1],
         ring' \in Seq([tok : Token, old : BOOLEAN]),
         \A i \in DOMAIN ring' : ring'[i].tok \in Token /\ status[ring'[i].tok] = "revoked"
  PROVE  PoolMoves(c, d)
<1>1. PICK n : n = pairOf(c.tok) /\ n \in Pairs /\ lost' = [lost EXCEPT ![n] = @ + 1]
  BY TokenFacts
<1>2. lost' \in [Pairs -> Nat] /\ \A i \in Pairs : lost'[i] = IF i = n THEN lost[i] + 1 ELSE lost[i]
  BY <1>1, PoolFacts
<1>3. \A i \in Pairs : Count(pool', i) + By(d, i) + lost'[i] = Count(pool, i) + By(c, i) + lost[i]
  <2>1. TAKE i \in Pairs
  <2>2. By(d, i) = 0 /\ By(c, i) = IF i = n THEN 1 ELSE 0
    BY <1>1 DEF By
  <2>3. Count(pool, i) \in Nat /\ lost[i] \in Nat
    BY PoolFacts
  <2>4. Count(pool', i) = Count(pool, i) /\ lost'[i] = IF i = n THEN lost[i] + 1 ELSE lost[i]
    BY <1>2
  <2>5. QED
    BY ONLY <2>2, <2>3, <2>4
<1>4. d.op # "issuing"
  BY DEF HasTaken
<1>5. QED
  BY <1>2, <1>3, <1>4, PoolFacts DEF PoolMoves

\* The ring takes a revoked token in, and lets its oldest go.
LEMMA RingTakes ==
  ASSUME PInv, NEW t \in Token, status[t] = "revoked", NEW r, r = RingAdd(t)
  PROVE  /\ r \in Seq([tok : Token, old : BOOLEAN])
         /\ \A i \in DOMAIN r : r[i].tok \in Token /\ status[r[i].tok] = "revoked"
<1> DEFINE E == {e \in [tok : Token, old : BOOLEAN] : status[e.tok] = "revoked"}
           e == [tok |-> t, old |-> FALSE]
           more == Append(ring, e)
<1>1. ring \in Seq(E)
  <2>1. ring \in Seq([tok : Token, old : BOOLEAN])
    BY PoolFacts
  <2>2. Len(ring) \in Nat /\ DOMAIN ring = 1..Len(ring)
    BY ONLY <2>1, LenProperties
  <2>3. \A i \in 1..Len(ring) : ring[i] \in E
    BY <2>1, <2>2, ElementOfSeq, PoolFacts
  <2>4. ring = [i \in 1..Len(ring) |-> ring[i]]
    BY ONLY <2>1, <2>2
  <2>5. QED
    BY ONLY <2>2, <2>3, <2>4, IsASeq
<1>2. e \in E
  OBVIOUS
<1> HIDE DEF E, e
<1>3. more \in Seq(E) /\ more # <<>>
  BY ONLY <1>1, <1>2, AppendProperties
<1>4. r = ring \/ r = more \/ r = Tail(more)
  BY DEF RingAdd, e
<1>5. Tail(more) \in Seq(E)
  BY ONLY <1>3, HeadTailProperties
<1>6. r \in Seq(E)
  BY <1>1, <1>3, <1>4, <1>5
<1>7. DOMAIN r = 1..Len(r) /\ \A i \in 1..Len(r) : r[i] \in E
  BY ONLY <1>6, LenProperties, ElementOfSeq
<1>8. E \subseteq [tok : Token, old : BOOLEAN] /\ \A x \in E : x.tok \in Token /\ status[x.tok] = "revoked"
  BY DEF E
<1>9. r \in Seq([tok : Token, old : BOOLEAN])
  BY ONLY <1>6, <1>8, SeqMonotonic
<1>10. QED
  BY ONLY <1>7, <1>8, <1>9

\* revokeAndReplace's reissue, of a worker or of a probe.
LEMMA ReplaceMove ==
  ASSUME PInv, NEW c, c.op = "replacing", c.tok \in Token, c.tok \notin pool \cup fanPool,
         ~c.err => status[c.tok] = "revoked", NEW o, Replace(c, o),
         NEW d, ~HasTaken(d), ~RevokedCall(d)
  PROVE  PoolMoves(c, d)
<1>1. HasTaken(c)
  BY DEF HasTaken
<1>2. /\ ring' \in Seq([tok : Token, old : BOOLEAN])
      /\ \A i \in DOMAIN ring' : ring'[i].tok \in Token /\ status[ring'[i].tok] = "revoked"
  <2>1. PICK r : r = ring'
    OBVIOUS
  <2>2. CASE c.err
    BY <2>2, PoolFacts DEF Replace
  <2>3. CASE ~c.err
    <3>1. r = RingAdd(c.tok)
      BY <2>1, <2>3 DEF Replace
    <3>2. QED
      BY <2>1, <2>3, <3>1, RingTakes
  <2>4. QED
    BY <2>2, <2>3
<1>3. CASE o = "ok"
  <2>1. PICK t : t = fresh(pairOf(c.tok)) /\ pool' = put(pool, t)
    BY <1>3 DEF Replace
  <2>2. Issues(pairOf(c.tok), "ok") /\ pairOf(c.tok) \in Pairs
    BY <1>3, TokenFacts DEF Replace
  <2>3. t \in Token /\ pairOf(t) = pairOf(c.tok) /\ t \notin Referenced /\ status[t] = "live"
    BY <2>1, <2>2, FreshIsNew
  <2>4. t \notin pool \cup fanPool /\ lost' = lost
    BY <1>3, <2>3, NotReferenced DEF Replace
  <2>5. QED
    BY <1>1, <1>2, <2>1, <2>3, <2>4, PutMove
<1>4. CASE o # "ok"
  BY <1>1, <1>2, <1>4, LoseMove DEF Replace
<1>5. QED
  BY <1>3, <1>4

LEMMA TakenTokens ==
  ASSUME PInv
  PROVE  /\ \A w \in Workers : HasTaken(worker[w]) =>
              /\ worker[w].tok \in Token /\ worker[w].tok \notin pool \cup fanPool
              /\ \A v \in Workers : HasTaken(worker[v]) /\ worker[v].tok = worker[w].tok => v = w
              /\ \A p \in Probes : HasTaken(probe[p]) => probe[p].tok # worker[w].tok
         /\ \A p \in Probes : HasTaken(probe[p]) =>
              /\ probe[p].tok \in Token /\ probe[p].tok \notin pool \cup fanPool
              /\ \A q \in Probes : HasTaken(probe[q]) /\ probe[q].tok = probe[p].tok => q = p
BY DEF PInv, Apart, ApartOf

LEMMA WorkerTakes ==
  ASSUME PInv, NEW w \in Workers, NEW op, NEW call \in {"issuing", "revoking"}, Take(w, op, call)
  PROVE  PInv'
<1>1. worker \in [Workers -> Calling] /\ worker[w] \in Calling
  BY DEF PInv, Typed
<1>2. PICK t \in pool : /\ worker' = [worker EXCEPT ![w].op = call, ![w].tok = t]
                        /\ pool' = take(pool, t)
  BY DEF Take
<1> DEFINE d == [worker[w] EXCEPT !.op = call, !.tok = t]
<1>3. worker[w].op = "idle" /\ ~Unprimed
  BY DEF Take, Draws, Unprimed
<1>4. t \in Token
  BY <1>2, PoolFacts
<1>5. d \in Calling /\ ~HasTaken(worker[w]) /\ d.op = call /\ d.tok = t /\ worker[w].tok = None
  BY <1>1, <1>3, <1>4 DEF Calling, HasTaken, Op
<1>6. Turns(worker, w, d, worker')
  BY <1>1, <1>2 DEF Turns
<1>7. UNCHANGED <<config, main, fanout, fanPool, probe, ring, lost, refresher, ticker, status>>
  BY DEF Take, workerOnly, setVars
<1> HIDE DEF d
<1>8. PoolMoves(worker[w], d)
  BY <1>2, <1>5, <1>7, TakeMove
<1>9. StatusKept
  <2>1. \A x \in Token : x \in pool \/ x = worker[w].tok => x \in pool' \/ x = d.tok
    BY <1>2, <1>5, TokenFacts DEF take
  <2>2. QED
    BY <1>1, <1>6, <1>7, <2>1, WorkerRefs, UnchangedKept
<1>10. QED
  BY <1>3, <1>5, <1>6, <1>7, <1>8, <1>9, WorkerMoves

LEMMA WorkerReissues ==
  ASSUME PInv, NEW w \in Workers, NEW o, ReissueAnswer(w, o)
  PROVE  PInv'
<1>1. worker[w].op = "issuing" /\ HasTaken(worker[w]) /\ ~Unprimed
  BY AwakeIsPrimed DEF ReissueAnswer, HasTaken
<1>2. Turns(worker, w, Idle, worker')
  BY DEF ReissueAnswer, Turns
<1>3. UNCHANGED <<config, main, fanout, fanPool, probe, ring, lost, refresher, ticker>>
  BY DEF ReissueAnswer, workerOnly, setVars
<1>4. PICK i : i = pairOf(worker[w].tok)
  OBVIOUS
<1>5. PICK t : t = IF o = "ok" THEN fresh(i) ELSE worker[w].tok
  OBVIOUS
<1>6. worker[w].tok \in Token /\ i \in Pairs
  BY <1>1, <1>4, TakenTokens, TokenFacts
<1>7. pool' = put(pool, t)
  BY <1>4, <1>5 DEF ReissueAnswer
<1>8. /\ t \in Token /\ pairOf(t) = i /\ status[t] # "revoked" /\ t \notin pool \cup fanPool
      /\ t = worker[w].tok \/ t \notin Referenced
  <2>1. CASE o = "ok"
    <3>1. Issues(i, "ok")
      BY <1>4, <2>1 DEF ReissueAnswer
    <3>2. t \in Token /\ pairOf(t) = i /\ t \notin Referenced /\ status[t] = "live"
      BY <1>5, <1>6, <2>1, <3>1, FreshIsNew
    <3>3. QED
      BY <3>2, NotReferenced
  <2>2. CASE o # "ok"
    BY <1>1, <1>4, <1>5, <1>6, <2>2, TakenTokens DEF PInv, Verdicts
  <2>3. QED
    BY <2>1, <2>2
<1>9. PoolMoves(worker[w], Idle)
  <2>1. /\ ring' \in Seq([tok : Token, old : BOOLEAN])
        /\ \A n \in DOMAIN ring' : ring'[n].tok \in Token /\ status[ring'[n].tok] = "revoked"
    BY <1>3, PoolFacts
  <2>2. QED
    BY <1>1, <1>3, <1>4, <1>7, <1>8, <2>1, PutMove, CallTypes
<1>10. StatusKept
  BY BecomesKept DEF ReissueAnswer
<1>11. QED
  BY <1>1, <1>2, <1>3, <1>9, <1>10, WorkerMoves, CallTypes

LEMMA WorkerReplaces ==
  ASSUME PInv, NEW w \in Workers, NEW o, ReplaceAnswer(w, o)
  PROVE  PInv'
<1>1. worker[w].op = "replacing" /\ HasTaken(worker[w]) /\ ~Unprimed
  BY AwakeIsPrimed DEF ReplaceAnswer, HasTaken
<1>2. Turns(worker, w, Idle, worker')
  BY DEF ReplaceAnswer, Turns
<1>3. UNCHANGED <<config, main, fanout, fanPool, probe, refresher, ticker>>
  BY DEF ReplaceAnswer, workerOnly, setVars
<1>4. /\ worker[w].tok \in Token /\ worker[w].tok \notin pool \cup fanPool
      /\ ~worker[w].err => status[worker[w].tok] = "revoked"
  BY <1>1, TakenTokens DEF PInv, Verdicts, RevokedCall
<1>5. Replace(worker[w], o)
  BY DEF ReplaceAnswer
<1>6. PoolMoves(worker[w], Idle)
  BY <1>1, <1>4, <1>5, ReplaceMove, CallTypes
<1>7. StatusKept
  BY BecomesKept DEF ReplaceAnswer
<1>8. QED
  BY <1>1, <1>2, <1>3, <1>6, <1>7, WorkerMoves, CallTypes

LEMMA WorkerRevokes ==
  ASSUME PInv, NEW w \in Workers, NEW o, RevokeAnswer(w, o)
  PROVE  PInv'
<1> DEFINE d == [worker[w] EXCEPT !.op = "replacing", !.err = (o # "ok")]
<1>1. worker \in [Workers -> Calling] /\ worker[w] \in Calling /\ status \in [Token -> {"live", "due", "revoked"}]
  BY DEF PInv, Typed
<1>2. worker[w].op = "revoking" /\ HasTaken(worker[w]) /\ ~Unprimed
  BY AwakeIsPrimed DEF RevokeAnswer, HasTaken
<1>3. UNCHANGED <<config, main, fanout, pool, fanPool, probe, ring, lost, refresher, ticker>>
  BY DEF RevokeAnswer, workerOnly, setVars
<1>4. /\ d \in Calling /\ HasTaken(d) /\ d.op = "replacing" /\ d.tok = worker[w].tok
      /\ RevokedCall(d) => o = "ok"
  BY <1>1 DEF Calling, HasTaken, RevokedCall, Op
<1>5. worker' = [worker EXCEPT ![w] = d]
  BY <1>1 DEF RevokeAnswer
<1> HIDE DEF d
<1>6. worker' \in [Workers -> Calling] /\ worker'[w] = d /\ Moved(worker, Workers, w, worker')
  BY <1>1, <1>4, <1>5 DEF Moved
<1>7. PICK t \in Token : t = worker[w].tok /\ t \notin pool \cup fanPool
  BY <1>2, TakenTokens
<1>8. /\ status' \in [Token -> {"live", "due", "revoked"}]
      /\ \A x \in Token : x # t => status'[x] = status[x]
      /\ status'[t] = status[t] \/ status'[t] = "revoked"
      /\ o = "ok" => status'[t] = "revoked"
  BY <1>1, <1>7 DEF RevokeAnswer, RevokeToken, TakesEffect
<1>9. Typed'
  BY <1>3, <1>6, <1>8 DEF PInv, Typed
<1>10. Apart'
  <2>1. ApartOf(worker, Workers, probe, Probes, pool \cup fanPool)
        /\ ApartOf(probe, Probes, worker, Workers, pool \cup fanPool) /\ pool \cap fanPool = {}
    BY DEF PInv, Apart
  <2>2. worker'[w].tok = worker[w].tok /\ worker'[w].tok \in Token \ (pool \cup fanPool)
    BY <1>4, <1>6, <1>7
  <2>3. ApartOf(worker', Workers, probe, Probes, pool \cup fanPool)
        /\ ApartOf(probe, Probes, worker', Workers, pool \cup fanPool)
    BY ONLY <1>2, <1>6, <2>1, <2>2, ApartMoves
  <2>4. QED
    BY <1>3, <2>1, <2>3 DEF Apart
<1>11. Verdicts'
  <2>1. \A x \in pool' \cup fanPool' : status'[x] # "revoked"
    BY <1>3, <1>7, <1>8, PoolFacts DEF PInv, Verdicts
  <2>2. ASSUME NEW v \in Workers
        PROVE  /\ worker'[v].op = "issuing" => status'[worker'[v].tok] # "revoked"
               /\ RevokedCall(worker'[v]) => status'[worker'[v].tok] = "revoked"
    <3>1. worker[v].op = "issuing" => HasTaken(worker[v])
      BY DEF HasTaken
    <3>2. worker[v].op = "issuing" => worker[v].tok \in Token /\ worker[v].tok # t
      BY <1>2, <1>7, <3>1, TakenTokens
    <3>3. worker'[v] = worker[v] \/ (v = w /\ worker'[v] = d)
      BY <1>3, <1>6 DEF Moved
    <3>4. RevokedCall(worker[v]) => worker[v].tok \in Token /\ status[worker[v].tok] = "revoked"
      BY CallTokens DEF PInv, Verdicts
    <3>5. QED
      BY <1>4, <1>7, <1>8, <3>2, <3>3, <3>4 DEF PInv, Verdicts
  <2>3. ASSUME NEW q \in Probes
        PROVE  RevokedCall(probe'[q]) => status'[probe'[q].tok] = "revoked"
    <3>1. probe'[q] = probe[q]
      BY <1>3, <1>6 DEF Moved
    <3>2. RevokedCall(probe[q]) => probe[q].tok \in Token /\ status[probe[q].tok] = "revoked"
      BY CallTokens DEF PInv, Verdicts
    <3>3. QED
      BY <1>4, <1>7, <1>8, <3>1, <3>2
  <2>4. \A i \in DOMAIN ring' : status'[ring'[i].tok] = "revoked"
    BY <1>3, <1>8, PoolFacts
  <2>5. ASSUME NEW x \in Token, x \notin Referenced' PROVE status'[x] = "live"
    <3>1. x \notin Referenced
      BY <1>3, <1>4, <1>6, <2>5 DEF Referenced, Moved
    <3>2. x # t
      BY <1>7, <3>1 DEF Referenced
    <3>3. QED
      BY <1>8, <3>1, <3>2 DEF PInv, Verdicts
  <2>6. QED
    BY <2>1, <2>2, <2>3, <2>4, <2>5 DEF Verdicts
<1>12. \A i \in Pairs : Sum(i)' = Sum(i)
  <2>1. ASSUME NEW i PROVE Taken(i)' = Taken(i)
    <3>1. IsFiniteSet(Workers)
      BY PoolAssumption
    <3>2. By(worker[w], i) = By(worker'[w], i) /\ By(worker[w], i) \in {0, 1}
      BY <1>2, <1>4, <1>6 DEF By
    <3>3. Cardinality(Takers(worker', Workers, i)) = Cardinality(Takers(worker, Workers, i))
      BY ONLY <1>6, <3>1, <3>2, TakenMoves
    <3>4. QED
      BY <1>3, <3>3 DEF Taken
  <2>2. QED
    BY <1>3, <2>1 DEF Sum
<1>13. QED
  BY <1>2, <1>3, <1>9, <1>10, <1>11, <1>12, RunningStep

-----------------------------------------------------------------------------
(***************************************************************************)
(* The steps of a probe.                                                   *)
(***************************************************************************)
LEMMA ProbeRevokes ==
  ASSUME PInv, NEW p \in Probes, NEW o, ProbeRevokeAnswer(p, o)
  PROVE  PInv'
<1> DEFINE d == [probe[p] EXCEPT !.op = "replacing", !.err = (o # "ok")]
<1>1. probe \in [Probes -> Calling] /\ probe[p] \in Calling /\ status \in [Token -> {"live", "due", "revoked"}]
  BY DEF PInv, Typed
<1>2. probe[p].op = "revoking" /\ HasTaken(probe[p]) /\ ~Unprimed
  BY AwakeIsPrimed DEF ProbeRevokeAnswer, HasTaken
<1>3. UNCHANGED <<config, main, fanout, pool, fanPool, worker, ring, lost, refresher, ticker>>
  BY DEF ProbeRevokeAnswer, probeOnly, setVars
<1>4. /\ d \in Calling /\ HasTaken(d) /\ d.op = "replacing" /\ d.tok = probe[p].tok
      /\ RevokedCall(d) => o = "ok"
  BY <1>1 DEF Calling, HasTaken, RevokedCall, Op
<1>5. probe' = [probe EXCEPT ![p] = d]
  BY <1>1 DEF ProbeRevokeAnswer
<1> HIDE DEF d
<1>6. probe' \in [Probes -> Calling] /\ probe'[p] = d /\ Moved(probe, Probes, p, probe')
  BY <1>1, <1>4, <1>5 DEF Moved
<1>7. PICK t \in Token : t = probe[p].tok /\ t \notin pool \cup fanPool
  BY <1>2, TakenTokens
<1>8. /\ status' \in [Token -> {"live", "due", "revoked"}]
      /\ \A x \in Token : x # t => status'[x] = status[x]
      /\ status'[t] = status[t] \/ status'[t] = "revoked"
      /\ o = "ok" => status'[t] = "revoked"
  BY <1>1, <1>7 DEF ProbeRevokeAnswer, RevokeToken, TakesEffect
<1>9. Typed'
  BY <1>3, <1>6, <1>8 DEF PInv, Typed
<1>10. Apart'
  <2>1. ApartOf(probe, Probes, worker, Workers, pool \cup fanPool)
        /\ ApartOf(worker, Workers, probe, Probes, pool \cup fanPool) /\ pool \cap fanPool = {}
    BY DEF PInv, Apart
  <2>2. probe'[p].tok = probe[p].tok /\ probe'[p].tok \in Token \ (pool \cup fanPool)
    BY <1>4, <1>6, <1>7
  <2>3. ApartOf(probe', Probes, worker, Workers, pool \cup fanPool)
        /\ ApartOf(worker, Workers, probe', Probes, pool \cup fanPool)
    BY ONLY <1>2, <1>6, <2>1, <2>2, ApartMoves
  <2>4. QED
    BY <1>3, <2>1, <2>3 DEF Apart
<1>11. Verdicts'
  <2>1. \A x \in pool' \cup fanPool' : status'[x] # "revoked"
    BY <1>3, <1>7, <1>8, PoolFacts DEF PInv, Verdicts
  <2>2. ASSUME NEW v \in Workers
        PROVE  /\ worker'[v].op = "issuing" => status'[worker'[v].tok] # "revoked"
               /\ RevokedCall(worker'[v]) => status'[worker'[v].tok] = "revoked"
    <3>1. worker[v].op = "issuing" => HasTaken(worker[v])
      BY DEF HasTaken
    <3>2. worker[v].op = "issuing" => worker[v].tok \in Token /\ worker[v].tok # t
      BY <1>2, <1>7, <3>1, TakenTokens
    <3>3. worker'[v] = worker[v]
      BY <1>3, <1>6 DEF Moved
    <3>4. RevokedCall(worker[v]) => worker[v].tok \in Token /\ status[worker[v].tok] = "revoked"
      BY CallTokens DEF PInv, Verdicts
    <3>5. QED
      BY <1>4, <1>7, <1>8, <3>2, <3>3, <3>4 DEF PInv, Verdicts
  <2>3. ASSUME NEW q \in Probes
        PROVE  RevokedCall(probe'[q]) => status'[probe'[q].tok] = "revoked"
    <3>1. probe'[q] = probe[q] \/ (q = p /\ probe'[q] = d)
      BY <1>3, <1>6 DEF Moved
    <3>2. RevokedCall(probe[q]) => probe[q].tok \in Token /\ status[probe[q].tok] = "revoked"
      BY CallTokens DEF PInv, Verdicts
    <3>3. QED
      BY <1>4, <1>7, <1>8, <3>1, <3>2
  <2>4. \A i \in DOMAIN ring' : status'[ring'[i].tok] = "revoked"
    BY <1>3, <1>8, PoolFacts
  <2>5. ASSUME NEW x \in Token, x \notin Referenced' PROVE status'[x] = "live"
    <3>1. x \notin Referenced
      BY <1>3, <1>4, <1>6, <2>5 DEF Referenced, Moved
    <3>2. x # t
      BY <1>7, <3>1 DEF Referenced
    <3>3. QED
      BY <1>8, <3>1, <3>2 DEF PInv, Verdicts
  <2>6. QED
    BY <2>1, <2>2, <2>3, <2>4, <2>5 DEF Verdicts
<1>12. \A i \in Pairs : Sum(i)' = Sum(i)
  <2>1. ASSUME NEW i PROVE Taken(i)' = Taken(i)
    <3>1. IsFiniteSet(Probes)
      BY PoolAssumption
    <3>2. By(probe[p], i) = By(probe'[p], i) /\ By(probe[p], i) \in {0, 1}
      BY <1>2, <1>4, <1>6 DEF By
    <3>3. Cardinality(Takers(probe', Probes, i)) = Cardinality(Takers(probe, Probes, i))
      BY ONLY <1>6, <3>1, <3>2, TakenMoves
    <3>4. QED
      BY <1>3, <3>3 DEF Taken
  <2>2. QED
    BY <1>3, <2>1 DEF Sum
<1>13. QED
  BY <1>2, <1>3, <1>9, <1>10, <1>11, <1>12, RunningStep

LEMMA ProbeStarts ==
  ASSUME PInv, NEW p \in Probes, PropagationTick(p)
  PROVE  PInv'
<1>1. probe \in [Probes -> Calling] /\ probe[p] \in Calling
  BY DEF PInv, Typed
<1> DEFINE d == [probe[p] EXCEPT !.op = "starting"]
<1>2. probe[p].op = "idle" /\ ~Unprimed
  BY AwakeIsPrimed DEF PropagationTick
<1>3. d \in Calling /\ ~HasTaken(probe[p]) /\ ~HasTaken(d) /\ ~RevokedCall(d) /\ d.tok = probe[p].tok
  BY <1>1, <1>2 DEF Calling, HasTaken, RevokedCall, Op
<1>4. Turns(probe, p, d, probe')
  BY <1>1 DEF PropagationTick, Turns
<1>5. UNCHANGED <<config, main, fanout, pool, fanPool, worker, ring, lost, refresher, ticker, status>>
  BY DEF PropagationTick, probeOnly, setVars
<1> HIDE DEF d
<1>6. StatusKept
  BY <1>1, <1>3, <1>4, <1>5, ProbeRefs, UnchangedKept
<1>7. QED
  BY <1>2, <1>3, <1>4, <1>5, <1>6, ProbeAside

LEMMA ProbeTakesOne ==
  ASSUME PInv, NEW p \in Probes, ProbeTakes(p)
  PROVE  PInv'
<1>1. probe \in [Probes -> Calling] /\ probe[p] \in Calling
  BY DEF PInv, Typed
<1>2. probe[p].op = "starting" /\ probe[p].tok = None /\ ~HasTaken(probe[p]) /\ ~Unprimed
  BY <1>1, AwakeIsPrimed, CallTypes DEF ProbeTakes, HasTaken
<1>3. UNCHANGED <<config, main, fanout, fanPool, worker, ring, lost, refresher, ticker, status>>
  BY DEF ProbeTakes, probeOnly, setVars
<1>4. CASE Done \/ pool = {}
  <2>1. Turns(probe, p, Idle, probe') /\ UNCHANGED pool
    BY <1>4 DEF ProbeTakes, Turns
  <2>2. StatusKept
    BY <1>1, <1>2, <1>3, <2>1, ProbeRefs, UnchangedKept, TokenFacts
  <2>3. QED
    BY <1>2, <1>3, <2>1, <2>2, ProbeAside, CallTypes
<1>5. CASE ~(Done \/ pool = {})
  <2>1. PICK t \in pool : /\ probe' = [probe EXCEPT ![p].op = "revoking", ![p].tok = t]
                          /\ pool' = take(pool, t)
    BY <1>5 DEF ProbeTakes
  <2> DEFINE d == [probe[p] EXCEPT !.op = "revoking", !.tok = t]
  <2>2. t \in Token
    BY <2>1, PoolFacts
  <2>3. d \in Calling /\ d.op = "revoking" /\ d.tok = t
    BY <1>1, <2>2 DEF Calling, Op
  <2>4. Turns(probe, p, d, probe')
    BY <1>1, <2>1 DEF Turns
  <2> HIDE DEF d
  <2>5. PoolMoves(probe[p], d)
    BY <1>2, <1>3, <2>1, <2>3, TakeMove
  <2>6. StatusKept
    <3>1. \A x \in Token : x \in pool \/ x = probe[p].tok => x \in pool' \/ x = d.tok
      BY <1>2, <2>1, <2>3, TokenFacts DEF take
    <3>2. QED
      BY <1>1, <1>3, <2>4, <3>1, ProbeRefs, UnchangedKept
  <2>7. QED
    BY <1>2, <1>3, <2>3, <2>4, <2>5, <2>6, ProbeMoves
<1>6. QED
  BY <1>4, <1>5

LEMMA ProbeReplaces ==
  ASSUME PInv, NEW p \in Probes, NEW o, ProbeReplaceAnswer(p, o)
  PROVE  PInv'
<1>1. probe \in [Probes -> Calling] /\ probe[p] \in Calling
  BY DEF PInv, Typed
<1>2. probe[p].op = "replacing" /\ HasTaken(probe[p]) /\ ~Unprimed
  BY AwakeIsPrimed DEF ProbeReplaceAnswer, HasTaken
<1>3. PICK d \in Calling : Turns(probe, p, d, probe') /\ ~HasTaken(d) /\ ~RevokedCall(d)
  <2> DEFINE e == [probe[p] EXCEPT !.op = "polling"]
  <2>1. e \in Calling /\ ~HasTaken(e) /\ ~RevokedCall(e)
    BY <1>1 DEF Calling, HasTaken, RevokedCall, Op
  <2>2. Turns(probe, p, Idle, probe') \/ Turns(probe, p, e, probe')
    BY <1>1 DEF ProbeReplaceAnswer, Turns
  <2>3. QED
    BY <2>1, <2>2, CallTypes
<1>4. UNCHANGED <<config, main, fanout, fanPool, worker, refresher, ticker>>
  BY DEF ProbeReplaceAnswer, probeOnly, setVars
<1>5. /\ probe[p].tok \in Token /\ probe[p].tok \notin pool \cup fanPool
      /\ ~probe[p].err => status[probe[p].tok] = "revoked"
  BY <1>2, TakenTokens DEF PInv, Verdicts, RevokedCall
<1>6. Replace(probe[p], o)
  BY DEF ProbeReplaceAnswer
<1>7. PoolMoves(probe[p], d)
  BY <1>2, <1>3, <1>5, <1>6, ReplaceMove
<1>8. StatusKept
  BY BecomesKept DEF ProbeReplaceAnswer
<1>9. QED
  BY <1>2, <1>3, <1>4, <1>7, <1>8, ProbeMoves

LEMMA ProbePolls ==
  ASSUME PInv, NEW p \in Probes, Poll(p)
  PROVE  PInv'
<1>1. probe \in [Probes -> Calling] /\ probe[p] \in Calling
  BY DEF PInv, Typed
<1>2. ~HasTaken(probe[p]) /\ ~RevokedCall(probe[p]) /\ ~Unprimed
  BY AwakeIsPrimed DEF Poll, HasTaken, RevokedCall
<1>3. PICK d \in Calling : Turns(probe, p, d, probe') /\ ~HasTaken(d) /\ ~RevokedCall(d)
  <2>1. Turns(probe, p, Idle, probe') \/ Turns(probe, p, probe[p], probe')
    BY <1>1 DEF Poll, Turns
  <2>2. QED
    BY <1>1, <1>2, <2>1, CallTypes
<1>4. UNCHANGED <<config, main, fanout, pool, fanPool, worker, ring, lost, refresher, ticker>>
  BY DEF Poll, probeOnly, setVars
<1>5. StatusKept
  BY BecomesKept DEF Poll
<1>6. QED
  BY <1>2, <1>3, <1>4, <1>5, ProbeAside

-----------------------------------------------------------------------------
(***************************************************************************)
(* The steps of the refresher.                                             *)
(***************************************************************************)
LEMMA RefresherMoves ==
  ASSUME PInv, RefreshTick \/ RefreshOver \/ RefresherStops \/ (\E t \in refresher.due : RefreshIssue(t))
  PROVE  PInv'
<1>1. UNCHANGED <<config, main, fanout, pool, fanPool, worker, probe, ring, lost, ticker>>
  BY DEF RefreshTick, RefreshOver, RefresherStops, RefreshIssue, refresherOnly, poolVars, setVars
<1>2. refresher \in [at : {"off", "idle", "refreshing", "stopped"},
                     due : SUBSET Token, flight : SUBSET Token]
  BY DEF PInv, Typed
<1>3. refresher.at # "off" /\ ~Unprimed
  <2>1. refresher.at # "off" \/ refresher.due # {}
    BY DEF RefreshTick, RefreshOver, RefresherStops
  <2>2. refresher.due # {} => refresher.at = "refreshing"
    BY DEF PInv, Typed
  <2>3. QED
    BY <2>1, <2>2, AwakeIsPrimed
<1>4. /\ refresher' \in [at : {"off", "idle", "refreshing", "stopped"},
                         due : SUBSET Token, flight : SUBSET Token]
      /\ refresher'.at # "refreshing" => refresher'.due = {} /\ refresher'.flight = {}
  <2>1. expiringBefore \subseteq Token
    BY DEF PInv, Typed, expiringBefore
  <2>2. CASE RefreshTick
    BY <1>2, <2>1, <2>2 DEF RefreshTick
  <2>3. CASE RefreshOver
    BY <1>2, <2>3 DEF RefreshOver
  <2>4. CASE RefresherStops
    BY <1>2, <2>4 DEF RefresherStops, PInv, Typed
  <2>5. CASE \E t \in refresher.due : RefreshIssue(t)
    <3>1. PICK t \in refresher.due : RefreshIssue(t)
      BY <2>5
    <3>2. refresher' = [refresher EXCEPT !.due = @ \ {t}, !.flight = @ \cup {t}]
      BY <3>1 DEF RefreshIssue
    <3>3. refresher.at = "refreshing"
      BY <3>1 DEF PInv, Typed
    <3>4. QED
      BY <1>2, <3>1, <3>2, <3>3
  <2>6. QED
    BY <2>2, <2>3, <2>4, <2>5
<1>5. StatusKept
  <2>1. CASE RefreshOver
    BY <2>1, BecomesKept DEF RefreshOver
  <2>2. CASE RefreshTick
    <3>1. refresher.due = {} /\ refresher'.flight = refresher.flight /\ UNCHANGED status
      BY <1>2, <2>2 DEF RefreshTick, PInv, Typed, poolVars
    <3>2. Referenced \subseteq Referenced'
      BY <1>1, <3>1 DEF Referenced
    <3>3. QED
      BY <3>1, <3>2, UnchangedKept
  <2>3. CASE RefresherStops
    <3>1. refresher'.due = refresher.due /\ refresher'.flight = refresher.flight /\ UNCHANGED status
      BY <1>2, <2>3 DEF RefresherStops, poolVars
    <3>2. Referenced \subseteq Referenced'
      BY <1>1, <3>1 DEF Referenced
    <3>3. QED
      BY <3>1, <3>2, UnchangedKept
  <2>4. CASE \E t \in refresher.due : RefreshIssue(t)
    <3>1. PICK t \in refresher.due : RefreshIssue(t)
      BY <2>4
    <3>2. /\ refresher'.due = refresher.due \ {t} /\ refresher'.flight = refresher.flight \cup {t}
          /\ UNCHANGED status
      BY <1>2, <3>1 DEF RefreshIssue, poolVars
    <3>3. Referenced \subseteq Referenced'
      BY <1>1, <3>2 DEF Referenced
    <3>4. QED
      BY <3>2, <3>3, UnchangedKept
  <2>5. QED
    BY <2>1, <2>2, <2>3, <2>4
<1>6. Typed'
  BY <1>1, <1>4, <1>5 DEF PInv, Typed, StatusKept
<1>7. Apart' /\ Verdicts' /\ \A i \in Pairs : Sum(i)' = Sum(i)
  BY <1>1, <1>5, CallsStay
<1>8. QED
  BY <1>1, <1>3, <1>6, <1>7, RunningStep

\* An entry's token is replaced by one of the same pair, wherever the entry is.
LEMMA ReplaceKeeps ==
  ASSUME PInv, NEW S, S \in {pool, fanPool}, NEW t \in Token, NEW x, Issues(pairOf(t), "ok"),
         x = fresh(pairOf(t)), NEW R, R = replace(S, t, x)
  PROVE  /\ R \subseteq Token /\ IsFiniteSet(R) /\ x \notin Referenced /\ status[x] = "live" /\ x \in Token
         /\ \A y \in R : y \in S \/ y = x
         /\ \A i : Count(R, i) = Count(S, i)
<1>1. S \subseteq Token /\ IsFiniteSet(S)
  BY DEF PInv, Typed
<1>2. pairOf(t) \in Pairs
  BY TokenFacts
<1>3. x \in Token /\ pairOf(x) = pairOf(t) /\ x \notin Referenced /\ status[x] = "live"
  BY <1>2, FreshIsNew
<1>4. x \notin S
  BY <1>3, NotReferenced
<1>5. CASE t \in S
  <2>1. PICK T : T = take(S, t)
    OBVIOUS
  <2>2. R = put(T, x)
    BY <1>5, <2>1 DEF replace
  <2>3. IsFiniteSet(T) /\ \A i : Count(T, i) \in Nat /\ Count(T, i) = Count(S, i) - Of(t, i)
    BY <1>1, <1>5, <2>1, CountTake
  <2>4. x \notin T
    BY <1>4, <2>1 DEF take
  <2>5. IsFiniteSet(R) /\ \A i : Count(R, i) = Count(T, i) + Of(x, i)
    BY <2>2, <2>3, <2>4, CountPut
  <2>6. ASSUME NEW i PROVE Count(R, i) = Count(S, i)
    <3>1. Of(x, i) = Of(t, i) /\ Of(t, i) \in {0, 1}
      BY <1>3 DEF Of
    <3>2. Count(S, i) \in Nat
      BY <1>1, FS_Subset, FS_CardinalityType DEF Count
    <3>3. Count(T, i) \in Nat /\ Count(T, i) = Count(S, i) - Of(t, i) /\ Count(R, i) = Count(T, i) + Of(x, i)
      BY <2>3, <2>5
    <3>4. QED
      BY ONLY <3>1, <3>2, <3>3
  <2>7. \A y \in R : y \in S \/ y = x
    BY <2>1, <2>2 DEF put, take
  <2>8. QED
    BY <1>1, <1>3, <2>5, <2>6, <2>7
<1>6. CASE t \notin S
  BY <1>1, <1>3, <1>6 DEF replace
<1>7. QED
  BY <1>5, <1>6

LEMMA RefresherAnswers ==
  ASSUME PInv, NEW t \in refresher.flight, NEW o, RefreshAnswer(t, o)
  PROVE  PInv'
<1>1. UNCHANGED <<config, main, fanout, worker, probe, ring, lost, ticker>>
  BY DEF RefreshAnswer, refresherOnly, setVars
<1>2. refresher \in [at : {"off", "idle", "refreshing", "stopped"},
                     due : SUBSET Token, flight : SUBSET Token]
  BY DEF PInv, Typed
<1>3. refresher.at = "refreshing" /\ ~Unprimed
  BY AwakeIsPrimed DEF PInv, Typed
<1>4. /\ refresher' \in [at : {"off", "idle", "refreshing", "stopped"},
                         due : SUBSET Token, flight : SUBSET Token]
      /\ refresher'.at = "refreshing"
  BY <1>2, <1>3 DEF RefreshAnswer
<1>5. StatusKept
  BY BecomesKept DEF RefreshAnswer
<1>6. t \in Token
  BY <1>2
<1>7. PICK x : x = fresh(pairOf(t))
  OBVIOUS
<1>8. /\ pool' \subseteq Token /\ IsFiniteSet(pool') /\ fanPool' \subseteq Token /\ IsFiniteSet(fanPool')
      /\ \A y \in pool' \cup fanPool' : status[y] # "revoked"
      /\ \A y \in pool' \cup fanPool' : y \in pool \cup fanPool \/ y \notin Referenced
      /\ pool' \cap fanPool' = {}
      /\ \A i : Count(pool', i) = Count(pool, i) /\ Count(fanPool', i) = Count(fanPool, i)
  <2>1. CASE o # "ok"
    BY <2>1 DEF RefreshAnswer, PInv, Typed, Verdicts, Apart
  <2>2. CASE o = "ok" /\ t \in fanPool
    <3>1. PICK R : R = replace(fanPool, t, x)
      OBVIOUS
    <3>2. fanPool' = R /\ pool' = pool /\ Issues(pairOf(t), "ok")
      BY <1>7, <2>2, <3>1 DEF RefreshAnswer
    <3>3. /\ R \subseteq Token /\ IsFiniteSet(R) /\ x \notin Referenced /\ status[x] = "live"
          /\ \A y \in R : y \in fanPool \/ y = x
          /\ \A i : Count(R, i) = Count(fanPool, i)
      BY <1>6, <1>7, <3>1, <3>2, ReplaceKeeps
    <3>4. x \notin pool
      BY <3>3, NotReferenced
    <3>5. QED
      BY <3>2, <3>3, <3>4, PoolFacts DEF PInv, Verdicts
  <2>3. CASE o = "ok" /\ t \notin fanPool
    <3>1. PICK R : R = replace(pool, t, x)
      OBVIOUS
    <3>2. pool' = R /\ fanPool' = fanPool /\ Issues(pairOf(t), "ok")
      BY <1>7, <2>3, <3>1 DEF RefreshAnswer
    <3>3. /\ R \subseteq Token /\ IsFiniteSet(R) /\ x \notin Referenced /\ status[x] = "live"
          /\ \A y \in R : y \in pool \/ y = x
          /\ \A i : Count(R, i) = Count(pool, i)
      BY <1>6, <1>7, <3>1, <3>2, ReplaceKeeps
    <3>4. x \notin fanPool /\ IsFiniteSet(fanPool)
      BY <3>3, NotReferenced DEF PInv, Typed
    <3>5. QED
      BY <3>2, <3>3, <3>4, PoolFacts DEF PInv, Verdicts
  <2>4. QED
    BY <2>1, <2>2, <2>3
<1>9. Typed'
  BY <1>1, <1>4, <1>5, <1>8 DEF PInv, Typed, StatusKept
<1>10. Apart'
  <2>1. /\ \A w \in Workers : HasTaken(worker[w]) => worker[w].tok \notin pool' \cup fanPool'
        /\ \A p \in Probes : HasTaken(probe[p]) => probe[p].tok \notin pool' \cup fanPool'
    BY <1>8, TakenTokens, NotReferenced
  <2>2. ApartOf(worker, Workers, probe, Probes, pool' \cup fanPool')
        /\ ApartOf(probe, Probes, worker, Workers, pool' \cup fanPool')
    BY <2>1 DEF PInv, Apart, ApartOf
  <2>3. QED
    BY <1>1, <1>8, <2>2 DEF Apart
<1>11. Verdicts'
  <2>1. \A y \in pool' \cup fanPool' : y \in Token /\ status[y] # "revoked"
    BY <1>8
  <2>2. \A w \in Workers : /\ worker'[w].op = "issuing" =>
                                worker'[w].tok \in Token /\ status[worker'[w].tok] # "revoked"
                           /\ RevokedCall(worker'[w]) =>
                                worker'[w].tok \in Token /\ status[worker'[w].tok] = "revoked"
    BY <1>1, CallTokens DEF PInv, Verdicts, HasTaken
  <2>3. \A p \in Probes : RevokedCall(probe'[p]) =>
                             probe'[p].tok \in Token /\ status[probe'[p].tok] = "revoked"
    BY <1>1, CallTokens DEF PInv, Verdicts
  <2>4. \A i \in DOMAIN ring' : ring'[i].tok \in Token /\ status[ring'[i].tok] = "revoked"
    BY <1>1, CallTokens DEF PInv, Verdicts
  <2>5. QED
    BY <1>5, <2>1, <2>2, <2>3, <2>4, VerdictsKept
<1>12. \A i \in Pairs : Sum(i)' = Sum(i)
  BY <1>1, <1>8 DEF Sum, Taken
<1>13. QED
  BY <1>1, <1>3, <1>9, <1>10, <1>11, <1>12, RunningStep

-----------------------------------------------------------------------------
(***************************************************************************)
(* The ticker's steps, and time's.                                         *)
(***************************************************************************)
LEMMA TickerMoves ==
  ASSUME PInv, TickerStops \/ TickerReturns
  PROVE  PInv'
<1>1. UNCHANGED <<config, main, fanout, pool, fanPool, worker, probe, ring, lost, refresher, status>>
  BY DEF TickerStops, TickerReturns, probeOnly, setVars
<1>2. ticker # "off" /\ ~Unprimed
  BY AwakeIsPrimed DEF TickerStops, TickerReturns
<1>3. Referenced \subseteq Referenced'
  BY <1>1 DEF Referenced
<1>4. StatusKept
  BY <1>1, <1>3, UnchangedKept
<1>5. Typed'
  BY <1>1 DEF PInv, Typed
<1>6. Apart' /\ Verdicts' /\ \A i \in Pairs : Sum(i)' = Sum(i)
  BY <1>1, <1>4, CallsStay
<1>7. QED
  BY <1>1, <1>2, <1>5, <1>6, RunningStep

LEMMA TokenAges ==
  ASSUME PInv, NEW t \in Token, TokenDue(t)
  PROVE  PInv'
<1>1. UNCHANGED <<config, main, fanout, pool, fanPool, worker, probe, ring, lost, refresher, ticker>>
  BY DEF TokenDue, setVars
<1>2. t \in pool \cup fanPool /\ status[t] = "live" /\ status' = [status EXCEPT ![t] = "due"] /\ ~Unprimed
  BY AwakeIsPrimed DEF TokenDue
<1>3. /\ status' \in [Token -> {"live", "due", "revoked"}]
      /\ \A x \in Token : x # t => status'[x] = status[x]
      /\ status'[t] = "due"
  BY <1>2 DEF PInv, Typed
<1>4. Typed' /\ Apart'
  BY <1>1, <1>3 DEF PInv, Typed, Apart
<1>5. Verdicts'
  <2>1. \A x \in pool \cup fanPool : status'[x] # "revoked"
    BY <1>3, PoolFacts DEF PInv, Verdicts
  <2>2. ASSUME NEW w \in Workers
        PROVE  /\ worker[w].op = "issuing" => status'[worker[w].tok] # "revoked"
               /\ RevokedCall(worker[w]) => status'[worker[w].tok] = "revoked"
    <3>1. worker[w].op = "issuing" => HasTaken(worker[w])
      BY DEF HasTaken
    <3>2. worker[w].op = "issuing" => worker[w].tok \in Token
      BY <3>1, TakenTokens
    <3>3. RevokedCall(worker[w]) => worker[w].tok \in Token /\ status[worker[w].tok] = "revoked"
      BY CallTokens DEF PInv, Verdicts
    <3>4. QED
      BY <1>2, <1>3, <3>2, <3>3 DEF PInv, Verdicts
  <2>3. \A p \in Probes : RevokedCall(probe[p]) => status'[probe[p].tok] = "revoked"
    BY <1>2, <1>3, CallTokens DEF PInv, Verdicts
  <2>4. \A i \in DOMAIN ring : status'[ring[i].tok] = "revoked"
    BY <1>2, <1>3, PoolFacts
  <2>5. Referenced' = Referenced
    BY <1>1 DEF Referenced
  <2>6. t \in Referenced
    BY <1>2 DEF Referenced
  <2>7. \A x \in Token : x \notin Referenced' => status'[x] = "live"
    BY <1>3, <2>5, <2>6 DEF PInv, Verdicts
  <2>8. QED
    BY <1>1, <2>1, <2>2, <2>3, <2>4, <2>7 DEF Verdicts
<1>6. \A i \in Pairs : Sum(i)' = Sum(i)
  BY <1>1 DEF Sum, Taken
<1>7. QED
  BY <1>1, <1>2, <1>4, <1>5, <1>6, RunningStep

LEMMA RevokedAges ==
  ASSUME PInv, NEW i \in DOMAIN ring, RevokedAge(i)
  PROVE  PInv'
<1>1. UNCHANGED <<config, main, fanout, pool, fanPool, worker, probe, status, lost, refresher, ticker>>
  BY DEF RevokedAge, setVars, poolVars
<1>2. ring \in Seq([tok : Token, old : BOOLEAN])
  BY PoolFacts
<1>3. DOMAIN ring = 1..Len(ring) /\ Len(ring) \in Nat
      /\ \A j \in 1..Len(ring) : ring[j] \in [tok : Token, old : BOOLEAN]
  BY ONLY <1>2, LenProperties, ElementOfSeq
<1>4. ring # <<>> /\ ~Unprimed
  BY <1>3, AwakeIsPrimed
<1>5. PICK r : r = ring'
  OBVIOUS
<1>6. r = [j \in 1..Len(ring) |-> IF j <= i THEN [ring[j] EXCEPT !.old = TRUE] ELSE ring[j]]
  BY <1>3, <1>5 DEF RevokedAge
<1>7. \A j \in 1..Len(ring) :
        /\ (IF j <= i THEN [ring[j] EXCEPT !.old = TRUE] ELSE ring[j]) \in [tok : Token, old : BOOLEAN]
        /\ (IF j <= i THEN [ring[j] EXCEPT !.old = TRUE] ELSE ring[j]).tok = ring[j].tok
  BY <1>3
<1>8. r \in Seq([tok : Token, old : BOOLEAN])
  BY ONLY <1>3, <1>6, <1>7, IsASeq
<1>9. DOMAIN ring' = DOMAIN ring /\ \A j \in DOMAIN ring : ring'[j].tok = ring[j].tok
  BY <1>3, <1>5, <1>6, <1>7
<1>10. Typed' /\ Apart'
  BY <1>1, <1>5, <1>8 DEF PInv, Typed, Apart
<1>11. Referenced' = Referenced
  BY <1>1, <1>9 DEF Referenced
<1>12. Verdicts'
  BY <1>1, <1>9, <1>11 DEF PInv, Verdicts
<1>13. \A n \in Pairs : Sum(n)' = Sum(n)
  BY <1>1 DEF Sum, Taken
<1>14. QED
  BY <1>1, <1>4, <1>10, <1>12, <1>13, RunningStep

-----------------------------------------------------------------------------
(***************************************************************************)
(* The steps of the setup, and of the run.                                 *)
(***************************************************************************)
LEMMA SetupStep ==
  ASSUME PInv, UNCHANGED <<config, pool, fanPool, worker, probe, ring, lost, refresher, ticker>>,
         StatusKept, FanoutShape', Primes', Unprimed' => Unprimed, Primed' => Primed
  PROVE  PInv'
<1>1. Typed'
  BY DEF PInv, Typed, StatusKept
<1>2. Apart' /\ Verdicts' /\ \A i \in Pairs : Sum(i)' = Sum(i)
  BY CallsStay
<1>3. PoolAccounted'
  BY <1>2, SumKept
<1>4. Setting'
  BY DEF PInv, Setting
<1>5. QED
  BY <1>1, <1>2, <1>3, <1>4 DEF PInv

\* Outside the priming the loop holds no token.
NoTokens(f) == \A k \in DOMAIN f.entries : f.entries[k] = None

LEMMA FanoutRefs ==
  ASSUME PInv, main # "priming" \/ fanout'.entries = fanout.entries, UNCHANGED status,
         UNCHANGED <<pool, fanPool, worker, probe, ring, refresher>>
  PROVE  StatusKept
<1>1. Referenced \cap Token \subseteq Referenced'
  <2>1. ASSUME NEW t \in Token, t \in Referenced PROVE t \in Referenced'
    <3>1. CASE t \in Range(fanout.entries)
      <4>1. PICK k \in DOMAIN fanout.entries : t = fanout.entries[k]
        BY <3>1 DEF Range
      <4>2. main = "priming"
        BY <4>1, TokenFacts DEF PInv, Primes
      <4>3. QED
        BY <3>1, <4>2 DEF Referenced
    <3>2. CASE t \notin Range(fanout.entries)
      BY <2>1, <3>2 DEF Referenced
    <3>3. QED
      BY <3>1, <3>2
  <2>2. QED
    BY <2>1
<1>2. QED
  BY <1>1, UnchangedKept

LEMMA PrimingFacts ==
  ASSUME PInv, main = "priming"
  PROVE  /\ Unprimed /\ Jobs = 1..Len(fanout.jobs) /\ Len(fanout.jobs) = Tokens + FanUsers
         /\ Tokens \in Nat \ {0} /\ FanUsers \in Nat /\ DOMAIN PrimeJobs = Jobs
         /\ \A k \in Jobs : PrimeJobs[k] \in Pairs
<1>1. Tokens \in Nat \ {0} /\ FanUsers \in Nat
  BY PoolAssumption DEF PInv, Typed, Tokens, FanUsers
<1>2. PICK n \in Nat : n = Tokens + FanUsers
  BY <1>1
<1>3. DOMAIN fanout.jobs = 1..n
  BY <1>2 DEF PInv, Primes, PrimeJobs
<1>4. Len(fanout.jobs) = n
  <2>1. PICK j : j = fanout.jobs
    OBVIOUS
  <2>2. j = [k \in 1..n |-> j[k]]
    BY <1>2, <2>1 DEF PInv, Primes, PrimeJobs
  <2>3. j \in Seq({j[k] : k \in 1..n})
    BY ONLY <2>2, IsASeq
  <2>4. Len(j) = n
    BY <1>3, <2>1, <2>3, LenProperties
  <2>5. QED
    BY <2>1, <2>4
<1>5. \A k \in Jobs : PrimeJobs[k] \in Pairs
  <2>1. TAKE k \in Jobs
  <2>2. k \in 1..n /\ PrimeJobs[k] = IF k <= Tokens THEN ((k - 1) % PoolPairs) + 1 ELSE PoolPairs + k - Tokens
    BY <1>2 DEF Jobs, PrimeJobs
  <2>3. PoolPairs \in Nat \ {0}
    BY PoolAssumption
  <2>4. (k - 1) % PoolPairs \in 0..(PoolPairs - 1)
    BY <2>2, <2>3
  <2>5. PrimeJobs[k] \in 1..(PoolPairs + FanUsers)
    BY <1>1, <1>2, <2>2, <2>3, <2>4
  <2>6. QED
    BY <2>5 DEF Pairs, FanUsers, PInv, Typed
<1>6. QED
  BY <1>1, <1>2, <1>3, <1>4, <1>5 DEF Jobs, PrimeJobs, Unprimed

LEMMA LoopBegins ==
  ASSUME PInv, NEW phase, phase = "priming", Begin(phase, PrimeJobs), UNCHANGED config
  PROVE  FanoutShape' /\ Primes'
<1>1. PrimeJobs' = PrimeJobs /\ Jobs' = Jobs
  BY DEF PrimeJobs, Jobs, Tokens, FanUsers
<1>2. DOMAIN PrimeJobs = Jobs
  BY DEF PrimeJobs, Jobs
<1>3. fanout' = [jobs |-> PrimeJobs, next |-> 1, flight |-> {}, made |-> {}, failed |-> FALSE,
                 entries |-> [k \in Jobs |-> None]]
  BY <1>2 DEF Begin, NoFanout
<1>4. main' = "priming"
  BY DEF Begin
<1>5. \A k \in Jobs : ~(k < 1)
  BY DEF Jobs, Tokens, FanUsers
<1>6. QED
  BY <1>1, <1>3, <1>4, <1>5 DEF FanoutShape, Primes

LEMMA OtherLoopBegins ==
  ASSUME PInv, NEW phase, phase # "priming", NEW jobs, Begin(phase, jobs)
  PROVE  FanoutShape' /\ Primes'
BY DEF Begin, NoFanout, FanoutShape, Primes

LEMMA LoopTurns ==
  ASSUME PInv, FanoutTurn
  PROVE  PInv'
<1>1. UNCHANGED <<config, main, pool, fanPool, worker, probe, ring, lost, refresher, ticker, status>>
  BY DEF FanoutTurn, poolVars
<1> DEFINE broken == [fanout EXCEPT !.failed = TRUE, !.next = Len(fanout.jobs) + 1]
           started == [fanout EXCEPT !.flight = @ \cup {fanout.next}, !.next = @ + 1]
<1>2. fanout' \in {broken, started} /\ fanout.next <= Len(fanout.jobs)
      /\ (fanout' = started \/ fanout'.failed)
  BY DEF FanoutTurn, PInv, FanoutShape
<1>3. FanoutShape' /\ UNCHANGED <<fanout.jobs, fanout.entries>>
  BY <1>2 DEF PInv, FanoutShape
<1>4. StatusKept
  BY <1>1, <1>3, FanoutRefs
<1>5. Primes'
  <2>1. CASE main # "priming"
    BY <1>1, <1>3, <2>1 DEF PInv, Primes
  <2>2. CASE main = "priming"
    <3>1. /\ fanout.jobs = PrimeJobs /\ fanout.next \in Nat \ {0} /\ fanout.flight \subseteq Jobs
          /\ fanout.entries \in [Jobs -> Token \cup {None}]
          /\ \A k \in Jobs : k \in fanout.flight => k < fanout.next
          /\ ~fanout.failed => \A k \in Jobs : k < fanout.next /\ k \notin fanout.flight =>
               fanout.entries[k] # None
      BY <2>2 DEF PInv, Primes
    <3>2. PICK n \in Nat : n = Len(fanout.jobs) /\ Jobs = 1..n
      BY <2>2, PrimingFacts
    <3>3. fanout.next \in 1..n
      <4>1. fanout.next # 0
        BY <2>2 DEF PInv, Primes
      <4>2. QED
        BY <1>2, <3>1, <3>2, <4>1
    <3>4. PrimeJobs' = PrimeJobs /\ Jobs' = Jobs /\ main' = main
      BY <1>1 DEF PrimeJobs, Jobs, Tokens, FanUsers
    <3>5. fanout'.next \in Nat \ {0} /\ fanout'.flight \subseteq Jobs
          /\ \A k \in Jobs : k \in fanout'.flight => k < fanout'.next
      <4>1. CASE fanout' = broken
        <5>1. fanout'.next = n + 1 /\ fanout'.flight = fanout.flight
          BY <3>2, <4>1 DEF PInv, FanoutShape
        <5>2. QED
          BY <3>1, <3>2, <5>1
      <4>2. CASE fanout' = started
        <5>1. fanout'.next = fanout.next + 1 /\ fanout'.flight = fanout.flight \cup {fanout.next}
          BY <4>2 DEF PInv, FanoutShape
        <5>2. QED
          BY <3>1, <3>2, <3>3, <5>1
      <4>3. QED
        BY <1>2, <4>1, <4>2
    <3>6. ~fanout'.failed => \A k \in Jobs : k < fanout'.next /\ k \notin fanout'.flight =>
               fanout'.entries[k] # None
      <4>1. SUFFICES ASSUME ~fanout'.failed, NEW k \in Jobs, k < fanout'.next, k \notin fanout'.flight
                     PROVE  fanout.entries[k] # None
        BY <1>3
      <4>2. fanout' = started
        BY <1>2, <4>1
      <4>3. ~fanout.failed /\ fanout'.next = fanout.next + 1 /\ fanout'.flight = fanout.flight \cup {fanout.next}
        BY <4>1, <4>2 DEF PInv, FanoutShape
      <4>4. k < fanout.next /\ k \notin fanout.flight
        BY <3>2, <3>3, <4>1, <4>3
      <4>5. QED
        BY <3>1, <4>3, <4>4
    <3>7. QED
      BY <1>1, <1>3, <2>2, <3>1, <3>4, <3>5, <3>6 DEF PInv, Primes
  <2>3. QED
    BY <2>1, <2>2
<1>6. QED
  BY <1>1, <1>3, <1>4, <1>5, SetupStep DEF Unprimed, Primed

LEMMA LoopAnswers ==
  ASSUME PInv, NEW k, NEW o, GrantAnswer(k, o)
  PROVE  PInv'
<1>1. UNCHANGED <<config, main, pool, fanPool, worker, probe, ring, lost, refresher, ticker, status>>
  BY DEF GrantAnswer, poolVars
<1>2. FanoutShape' /\ fanout'.entries = fanout.entries /\ main # "priming"
  BY DEF GrantAnswer, PInv, FanoutShape
<1>3. StatusKept
  BY <1>1, <1>2, FanoutRefs
<1>4. Primes'
  BY <1>1, <1>2 DEF PInv, Primes
<1>5. QED
  BY <1>1, <1>2, <1>3, <1>4, SetupStep DEF Unprimed, Primed

LEMMA TokenPrimed ==
  ASSUME PInv, NEW k \in fanout.flight, NEW o, PrimeAnswer(k, o)
  PROVE  PInv'
<1>1. UNCHANGED <<config, main, pool, fanPool, worker, probe, ring, lost, refresher, ticker>>
      /\ main = "priming"
  BY DEF PrimeAnswer
<1>2. /\ fanout.jobs = PrimeJobs /\ fanout.next \in Nat \ {0} /\ fanout.flight \subseteq Jobs
      /\ fanout.entries \in [Jobs -> Token \cup {None}]
      /\ \A l \in Jobs : l \in fanout.flight => l < fanout.next
      /\ ~fanout.failed => \A l \in Jobs : l < fanout.next /\ l \notin fanout.flight =>
           fanout.entries[l] # None
      /\ \A l \in Jobs : fanout.entries[l] # None =>
           /\ pairOf(fanout.entries[l]) = PrimeJobs[l] /\ status[fanout.entries[l]] # "revoked"
           /\ \A m \in Jobs : fanout.entries[m] = fanout.entries[l] => m = l
  BY <1>1 DEF PInv, Primes
<1>3. k \in Jobs /\ PrimeJobs[k] \in Pairs
  BY <1>1, <1>2, PrimingFacts
<1>4. PICK i : i = PrimeJobs[k]
  OBVIOUS
<1>5. PICK t : t = IF o = "ok" THEN fresh(i) ELSE None
  OBVIOUS
<1>6. /\ fanout'.jobs = fanout.jobs /\ fanout'.next = fanout.next /\ fanout'.flight = fanout.flight \ {k}
      /\ fanout'.entries = [fanout.entries EXCEPT ![k] = t]
      /\ ~fanout'.failed => ~fanout.failed /\ o = "ok"
      /\ FanoutShape'
  <2>1. fanout' = [fanout EXCEPT !.flight = @ \ {k}, !.entries[k] = t, !.failed = @ \/ o # "ok"]
    BY <1>2, <1>4, <1>5 DEF PrimeAnswer
  <2>2. fanout = [jobs |-> fanout.jobs, next |-> fanout.next, flight |-> fanout.flight,
                  made |-> fanout.made, failed |-> fanout.failed, entries |-> fanout.entries]
    BY DEF PInv, FanoutShape
  <2>3. QED
    BY ONLY <2>1, <2>2 DEF FanoutShape
<1>7. o = "ok" => t \in Token /\ pairOf(t) = i /\ t \notin Referenced /\ status[t] = "live"
  <2>1. CASE o = "ok"
    <3>1. Issues(i, "ok") /\ i \in Pairs
      BY <1>2, <1>3, <1>4, <2>1 DEF PrimeAnswer
    <3>2. QED
      BY <1>5, <2>1, <3>1, FreshIsNew
  <2>2. QED
    BY <2>1
<1>8. StatusKept
  BY BecomesKept DEF PrimeAnswer
<1>9. \A l \in Jobs : fanout'.entries[l] = IF l = k THEN t ELSE fanout.entries[l]
  BY <1>2, <1>6
<1>10. t \in Token \cup {None} /\ fanout'.entries \in [Jobs -> Token \cup {None}]
  BY <1>2, <1>5, <1>6, <1>7
<1>11. o = "ok" => t # None /\ \A l \in Jobs : fanout.entries[l] # t
  <2>1. \A l \in Jobs : fanout.entries[l] \in Referenced
    BY <1>2 DEF Referenced, Range
  <2>2. QED
    BY <1>7, <2>1, TokenFacts
<1>12. \A l \in Jobs : fanout'.entries[l] # None =>
         /\ pairOf(fanout'.entries[l]) = PrimeJobs[l] /\ status[fanout'.entries[l]] # "revoked"
         /\ \A m \in Jobs : fanout'.entries[m] = fanout'.entries[l] => m = l
  <2>1. SUFFICES ASSUME NEW l \in Jobs, fanout'.entries[l] # None
                 PROVE  /\ pairOf(fanout'.entries[l]) = PrimeJobs[l] /\ status[fanout'.entries[l]] # "revoked"
                        /\ \A m \in Jobs : fanout'.entries[m] = fanout'.entries[l] => m = l
    OBVIOUS
  <2>2. CASE l = k
    <3>1. o = "ok"
      BY <1>5, <1>9, <2>1, <2>2
    <3>2. QED
      BY <1>4, <1>7, <1>9, <1>11, <2>2, <3>1
  <2>3. CASE l # k
    <3>1. fanout'.entries[l] = fanout.entries[l] /\ fanout.entries[l] # None
      BY <1>9, <2>1, <2>3
    <3>2. fanout.entries[l] # t
      BY <1>5, <1>11, <3>1
    <3>3. QED
      BY <1>2, <1>9, <2>3, <3>1, <3>2
  <2>4. QED
    BY <2>2, <2>3
<1>13. \A l \in Jobs : fanout'.entries[l] # None => status'[fanout'.entries[l]] # "revoked"
  <2>1. ASSUME NEW l \in Jobs, fanout'.entries[l] # None
        PROVE  status'[fanout'.entries[l]] # "revoked"
    <3>1. fanout'.entries[l] \in Token
      BY <1>10, <2>1
    <3>2. status'[fanout'.entries[l]] \in {status[fanout'.entries[l]], "live"}
      BY <1>8, <3>1 DEF StatusKept, Kept
    <3>3. QED
      BY <1>12, <2>1, <3>2
  <2>2. QED
    BY <2>1
<1>14. ~fanout'.failed => \A l \in Jobs : l < fanout'.next /\ l \notin fanout'.flight =>
         fanout'.entries[l] # None
  <2>1. SUFFICES ASSUME ~fanout'.failed, NEW l \in Jobs, l < fanout'.next, l \notin fanout'.flight
                 PROVE  fanout'.entries[l] # None
    OBVIOUS
  <2>2. CASE l = k
    BY <1>6, <1>9, <1>11, <2>1, <2>2
  <2>3. CASE l # k
    BY <1>2, <1>6, <1>9, <2>1, <2>3
  <2>4. QED
    BY <2>2, <2>3
<1>15. Primes'
  <2>1. PrimeJobs' = PrimeJobs /\ Jobs' = Jobs
    BY <1>1 DEF PrimeJobs, Jobs, Tokens, FanUsers
  <2>2. main' = "priming"
    BY <1>1
  <2>3. /\ fanout'.jobs = PrimeJobs /\ fanout'.next \in Nat \ {0} /\ fanout'.flight \subseteq Jobs
        /\ \A l \in Jobs : l \in fanout'.flight => l < fanout'.next
    BY <1>2, <1>6
  <2>4. QED
    BY <1>10, <1>12, <1>13, <1>14, <2>1, <2>2, <2>3 DEF Primes
<1>16. QED
  BY <1>1, <1>6, <1>8, <1>15, SetupStep DEF Unprimed, Primed

LEMMA RunSteps ==
  ASSUME PInv, GrowFanReturns \/ EnterStage \/ End \/ Close \/ CloseReturns
               \/ (\E o \in Outcomes : LookupReader(o)) \/ GrantPoolReturns
  PROVE  PInv'
<1>1. UNCHANGED <<config, pool, fanPool, worker, probe, ring, lost, refresher, ticker, status>>
  BY DEF GrowFanReturns, EnterStage, End, Close, CloseReturns, LookupReader, GrantPoolReturns, poolVars
<1>2. main # "priming" \/ fanout' = fanout
  BY DEF GrowFanReturns, EnterStage, End, Close, CloseReturns, LookupReader, GrantPoolReturns
<1>3. StatusKept
  BY <1>1, <1>2, FanoutRefs
<1>4. /\ Unprimed' => Unprimed
      /\ Primed' => Primed
  BY <1>1 DEF GrowFanReturns, EnterStage, End, Close, CloseReturns, LookupReader, GrantPoolReturns,
              Begin, Unprimed, Primed
<1>5. FanoutShape' /\ Primes'
  <2>1. ASSUME fanout' = NoFanout, main' # "priming" PROVE FanoutShape' /\ Primes'
    BY <2>1 DEF NoFanout, FanoutShape, Primes
  <2>2. CASE GrowFanReturns
    BY <2>1, <2>2 DEF GrowFanReturns
  <2>3. CASE EnterStage
    BY <2>3, OtherLoopBegins DEF EnterStage
  <2>4. CASE End
    <3>1. UNCHANGED <<config, main, fanout, status>>
      BY <1>1, <2>4 DEF End
    <3>2. QED
      BY <3>1 DEF PInv, FanoutShape, Primes, PrimeJobs, Jobs, Tokens, FanUsers
  <2>5. CASE Close \/ CloseReturns
    <3>1. fanout' = fanout /\ main # "priming" /\ main' # "priming"
      BY <2>5 DEF Close, CloseReturns
    <3>2. QED
      BY <3>1 DEF PInv, FanoutShape, Primes
  <2>6. CASE \E o \in Outcomes : LookupReader(o)
    <3>1. \/ Begin("priming", PrimeJobs)
          \/ Begin("granting", [i \in 1..PoolPairs |-> [kind |-> "reader", who |-> i, project |-> i]])
      BY <2>6 DEF LookupReader
    <3>2. QED
      BY <1>1, <3>1, LoopBegins, OtherLoopBegins
  <2>7. CASE GrantPoolReturns
    <3>1. (fanout' = NoFanout /\ main' = "failed") \/ Begin("priming", PrimeJobs)
      BY <2>7 DEF GrantPoolReturns
    <3>2. QED
      BY <1>1, <2>1, <3>1, LoopBegins
  <2>8. QED
    BY <2>2, <2>3, <2>4, <2>5, <2>6, <2>7
<1>6. QED
  BY <1>1, <1>3, <1>4, <1>5, SetupStep

\* As many tokens as jobs.
LEMMA SameCount ==
  ASSUME NEW K, IsFiniteSet(K), NEW e, \A k, l \in K : e[k] = e[l] => k = l
  PROVE  IsFiniteSet({e[k] : k \in K}) /\ Cardinality({e[k] : k \in K}) = Cardinality(K)
<1> DEFINE f == [k \in K |-> e[k]]
<1>1. f \in Bijection(K, {e[k] : k \in K})
  BY DEF Bijection, Injection, Surjection, IsInjective
<1>2. QED
  BY <1>1, FS_Bijection DEF ExistsBijection

LEMMA PrimingOver ==
  ASSUME PInv, main = "priming", FanoutOver, ~fanout.failed
  PROVE  /\ fanout.entries \in [Jobs -> Token]
         /\ \A k \in Jobs : pairOf(fanout.entries[k]) = PrimeJobs[k] /\ status[fanout.entries[k]] # "revoked"
         /\ \A k, l \in Jobs : fanout.entries[k] = fanout.entries[l] => k = l
<1>1. \A k \in Jobs : k < fanout.next /\ k \notin fanout.flight
  <2>1. PICK n \in Nat : n = Len(fanout.jobs) /\ Jobs = 1..n
    BY PrimingFacts
  <2>2. fanout.next \in Nat /\ fanout.next > n /\ fanout.flight = {}
    BY <2>1 DEF FanoutOver, PInv, Primes
  <2>3. QED
    BY <2>1, <2>2
<1>2. \A k \in Jobs : fanout.entries[k] # None
  BY <1>1 DEF PInv, Primes
<1>3. fanout.entries \in [Jobs -> Token \cup {None}]
  BY DEF PInv, Primes
<1>4. QED
  BY <1>2, <1>3 DEF PInv, Primes

LEMMA PrimedAndRunning ==
  ASSUME PInv, PrimeReturns, main' = "running"
  PROVE  PInv'
<1>1. main = "priming" /\ FanoutOver /\ ~fanout.failed
  BY DEF PrimeReturns
<1>2. PICK e : e = fanout.entries
  OBVIOUS
<1>3. /\ e \in [Jobs -> Token]
      /\ \A k \in Jobs : pairOf(e[k]) = PrimeJobs[k] /\ status[e[k]] # "revoked"
      /\ \A k, l \in Jobs : e[k] = e[l] => k = l
  BY <1>1, <1>2, PrimingOver
<1> DEFINE A == 1..Tokens
           B == (Tokens + 1)..(Tokens + FanUsers)
<1>4. /\ pool' = {e[k] : k \in A} /\ fanPool' = {e[k] : k \in B}
      /\ refresher' = IF config.expiry /\ ~closed THEN [refresher EXCEPT !.at = "idle"] ELSE refresher
      /\ UNCHANGED <<config, worker, probe, ring, lost>> /\ fanout' = NoFanout
  BY <1>1, <1>2 DEF PrimeReturns
<1>5. /\ Jobs = A \cup B /\ A \cap B = {} /\ IsFiniteSet(A) /\ IsFiniteSet(B) /\ DOMAIN PrimeJobs = Jobs
  <2>1. Tokens \in Nat /\ FanUsers \in Nat /\ DOMAIN PrimeJobs = Jobs
    BY <1>1, PrimingFacts
  <2>2. IsFiniteSet(A) /\ IsFiniteSet(B)
    BY <2>1, FS_Interval
  <2>3. QED
    BY <2>1, <2>2 DEF Jobs
<1> HIDE DEF A, B
<1>6. /\ refresher = [at |-> "off", due |-> {}, flight |-> {}] /\ ring = <<>>
      /\ worker = [w \in Workers |-> Idle] /\ probe = [p \in Probes |-> Idle]
      /\ lost = [i \in Pairs |-> 0]
  BY <1>1 DEF PInv, Setting, Unprimed
<1>7. StatusKept
  BY BecomesKept DEF PrimeReturns
<1>8. IsFiniteSet(pool') /\ IsFiniteSet(fanPool')
  BY <1>3, <1>4, <1>5, SameCount
<1>9. Typed'
  <2>1. /\ refresher' \in [at : {"off", "idle", "refreshing", "stopped"},
                           due : SUBSET Token, flight : SUBSET Token]
        /\ refresher'.due = {} /\ refresher'.flight = {}
    BY <1>4, <1>6
  <2>2. pool' \subseteq Token /\ fanPool' \subseteq Token
    BY <1>3, <1>4, <1>5
  <2>3. QED
    BY <1>4, <1>7, <1>8, <2>1, <2>2 DEF PInv, Typed, StatusKept
<1>10. Apart'
  <2>1. pool' \cap fanPool' = {}
    BY <1>3, <1>4, <1>5
  <2>2. /\ \A w \in Workers : ~HasTaken(worker'[w])
        /\ \A p \in Probes : ~HasTaken(probe'[p])
    BY <1>4, <1>6, CallTypes
  <2>3. QED
    BY <2>1, <2>2 DEF Apart, ApartOf
<1>11. Verdicts'
  <2>1. \A t \in pool' \cup fanPool' : t \in Token /\ status[t] # "revoked"
    BY <1>3, <1>4, <1>5
  <2>2. \A w \in Workers : worker'[w].op # "issuing" /\ ~RevokedCall(worker'[w])
    BY <1>4, <1>6, CallTypes DEF Idle
  <2>3. \A p \in Probes : ~RevokedCall(probe'[p])
    BY <1>4, <1>6, CallTypes
  <2>4. \A i \in DOMAIN ring' : ring'[i].tok \in Token /\ status[ring'[i].tok] = "revoked"
    BY <1>4, <1>6
  <2>5. QED
    BY <1>7, <2>1, <2>2, <2>3, <2>4, VerdictsKept
<1>12. PoolAccounted'
  <2>1. ASSUME NEW i \in Pairs
        PROVE  Sum(i)' = Cardinality({k \in DOMAIN PrimeJobs : PrimeJobs[k] = i})
    <3> DEFINE P == {k \in A : PrimeJobs[k] = i}
               F == {k \in B : PrimeJobs[k] = i}
    <3>1. IsFiniteSet(P) /\ IsFiniteSet(F) /\ Cardinality(P) \in Nat /\ Cardinality(F) \in Nat
      BY <1>5, FS_Subset, FS_CardinalityType
    <3>2. /\ {t \in pool' : pairOf(t) = i} = {e[k] : k \in P}
          /\ {t \in fanPool' : pairOf(t) = i} = {e[k] : k \in F}
      BY <1>3, <1>4, <1>5
    <3>3. P \cup F = {k \in DOMAIN PrimeJobs : PrimeJobs[k] = i} /\ P \cap F = {}
      BY <1>5
    <3>4. /\ \A k, l \in P : e[k] = e[l] => k = l
          /\ \A k, l \in F : e[k] = e[l] => k = l
      BY <1>3, <1>5
    <3> DEFINE K == {k \in DOMAIN PrimeJobs : PrimeJobs[k] = i}
    <3> HIDE DEF P, F, K
    <3>5. Cardinality({e[k] : k \in P}) = Cardinality(P)
      BY ONLY <3>1, <3>4, SameCount
    <3>6. Cardinality({e[k] : k \in F}) = Cardinality(F)
      BY ONLY <3>1, <3>4, SameCount
    <3>7. Cardinality(K) = Cardinality(P) + Cardinality(F)
      <4>1. Cardinality(P \cup F) = Cardinality(P) + Cardinality(F) - Cardinality(P \cap F)
        BY <3>1, FS_Union
      <4>2. P \cup F = K /\ Cardinality(P \cap F) = 0
        BY <3>3, FS_EmptySet DEF K
      <4>3. QED
        BY <3>1, <4>1, <4>2
    <3>8. Taken(i)' = 0
      <4>1. Takers(worker', Workers, i) = {} /\ Takers(probe', Probes, i) = {}
        BY <1>4, <1>6, CallTypes DEF Takers
      <4>2. QED
        BY <4>1, FS_EmptySet DEF Taken
    <3>9. Count(pool', i) = Cardinality(P) /\ Count(fanPool', i) = Cardinality(F)
      BY <3>2, <3>5, <3>6 DEF Count
    <3>10. lost'[i] = 0
      BY <1>4, <1>6
    <3>11. Sum(i)' = Count(pool', i) + Count(fanPool', i) + Taken(i)' + lost'[i]
      BY DEF Sum
    <3>12. QED
      BY <3>1, <3>7, <3>8, <3>9, <3>10, <3>11 DEF K
  <2>2. PrimeJobs' = PrimeJobs
    BY <1>4 DEF PrimeJobs, FanUsers, Tokens
  <2>3. QED
    BY <2>1, <2>2 DEF PoolAccounted, Sum
<1>13. Setting' /\ FanoutShape' /\ Primes'
  BY <1>4 DEF Setting, Unprimed, FanoutShape, Primes, NoFanout
<1>14. QED
  BY <1>9, <1>10, <1>11, <1>12, <1>13 DEF PInv

LEMMA PrimingReturns ==
  ASSUME PInv, PrimeReturns
  PROVE  PInv'
<1>1. CASE main' = "running"
  BY <1>1, PrimedAndRunning
<1>2. CASE main' # "running"
  <2>1. /\ main = "priming" /\ main' = "failed" /\ fanout' = NoFanout
        /\ UNCHANGED <<config, pool, fanPool, worker, probe, ring, lost, refresher, ticker>>
    BY <1>2 DEF PrimeReturns
  <2>2. StatusKept
    BY BecomesKept DEF PrimeReturns
  <2>3. FanoutShape' /\ Primes'
    BY <2>1 DEF FanoutShape, Primes, NoFanout
  <2>4. QED
    BY <2>1, <2>2, <2>3, SetupStep DEF Unprimed, Primed
<1>3. QED
  BY <1>1, <1>2

-----------------------------------------------------------------------------
(***************************************************************************)
(* The theorems.                                                           *)
(***************************************************************************)
LEMMA InitPool == ASSUME Init PROVE PInv
<1>1. Typed
  <2>1. worker \in [Workers -> Calling] /\ probe \in [Probes -> Calling]
    BY CallTypes DEF Init
  <2>2. ring \in Seq([tok : Token, old : BOOLEAN])
    BY EmptySeq DEF Init
  <2>3. IsFiniteSet(pool) /\ IsFiniteSet(fanPool)
    BY FS_EmptySet DEF Init
  <2>4. QED
    BY <2>1, <2>2, <2>3 DEF Init, Typed
<1>2. Apart
  BY CallTypes DEF Init, Apart, ApartOf
<1>3. Verdicts
  <2>1. /\ pool = {} /\ fanPool = {} /\ DOMAIN ring = {} /\ status = [t \in Token |-> "live"]
        /\ \A w \in Workers : worker[w] = Idle
        /\ \A p \in Probes : probe[p] = Idle
    BY DEF Init
  <2>2. Idle.op # "issuing"
    BY DEF Idle
  <2>3. QED
    BY <2>1, <2>2, CallTypes DEF Verdicts
<1>4. Setting /\ FanoutShape /\ Primes /\ PoolAccounted
  BY DEF Init, Setting, FanoutShape, Primes, PoolAccounted, NoFanout
<1>5. QED
  BY <1>1, <1>2, <1>3, <1>4 DEF PInv

LEMMA StutterKeeps == ASSUME PInv, UNCHANGED vars PROVE PInv'
<1>1. UNCHANGED <<config, main, fanout, pool, fanPool, worker, probe, ring, lost, refresher, ticker, status>>
  BY DEF vars, setVars, poolVars, churnVars
<1>0. PrimeJobs' = PrimeJobs /\ Jobs' = Jobs
  BY <1>1 DEF Jobs, PrimeJobs, Tokens, FanUsers
<1>2. Typed' /\ Apart' /\ Setting' /\ FanoutShape' /\ PoolAccounted'
  <2>1. Typed' /\ Apart'
    BY <1>1 DEF PInv, Typed, Apart
  <2>2. Setting' /\ FanoutShape'
    BY <1>1 DEF PInv, Setting, Unprimed, FanoutShape
  <2>3. \A i : Taken(i)' = Taken(i)
    BY <1>1 DEF Taken
  <2>4. PoolAccounted'
    BY <1>0, <1>1, <2>3 DEF PInv, PoolAccounted
  <2>5. QED
    BY <2>1, <2>2, <2>4
<1>3. Verdicts'
  BY <1>1 DEF PInv, Verdicts, Referenced
<1>4. Primes'
  BY <1>0, <1>1 DEF PInv, Primes
<1>5. QED
  BY <1>2, <1>3, <1>4 DEF PInv

LEMMA NextPool == ASSUME PInv, [Next]_vars PROVE PInv'
<1>1. CASE Setup
  BY <1>1, LoopTurns, LoopAnswers, TokenPrimed, RunSteps, PrimingReturns DEF Setup
<1>2. CASE EnterStage \/ End \/ Close \/ CloseReturns
  BY <1>2, RunSteps
<1>3. ASSUME NEW w \in Workers, WorkerDraw(w) \/ WorkerCall(w) PROVE PInv'
  BY <1>3, ReadSteps, GrantSteps, WorkerTakes, WorkerReissues, WorkerRevokes, WorkerReplaces
     DEF WorkerDraw, WorkerCall
<1>4. CASE Refresher
  BY <1>4, RefresherMoves, RefresherAnswers DEF Refresher
<1>5. CASE Ticker
  BY <1>5, TickerMoves DEF Ticker
<1>6. ASSUME NEW p \in Probes, PropagationTick(p) \/ Probe(p) PROVE PInv'
  BY <1>6, ProbeStarts, ProbeTakesOne, ProbeRevokes, ProbeReplaces, ProbePolls DEF Probe
<1>7. CASE \E t \in Token : TokenDue(t)
  BY <1>7, TokenAges
<1>8. CASE \E i \in DOMAIN ring : RevokedAge(i)
  BY <1>8, RevokedAges
<1>9. CASE UNCHANGED vars
  BY <1>9, StutterKeeps
<1>10. QED
  BY <1>1, <1>2, <1>3, <1>4, <1>5, <1>6, <1>7, <1>8, <1>9 DEF Next

\* The pool holds what it should in every run (take, put, replace, revokeAndReplace,
\* refreshDue): for any number of workers, probes, pairs, tokens and failed calls, every
\* token the pools were primed with is in them, taken or counted as lost, no entry is a
\* token Keystone revoked, and what bad_token sends is one.
THEOREM PoolStaysSound == Spec => []PoolSound
<1>1. Init => PInv
  BY InitPool
<1>2. PInv /\ [Next]_vars => PInv'
  BY NextPool
<1>3. PInv => PoolSound
  <2> SUFFICES ASSUME PInv PROVE PoolSound
    OBVIOUS
  <2>1. PoolAccounted /\ RevokedLeavesPool
    BY DEF PInv, Verdicts, RevokedLeavesPool
  <2>2. BadTokensAreBad
    BY PoolFacts DEF PInv, Verdicts, RevokedCall, BadTokensAreBad
  <2>3. QED
    BY <2>1, <2>2 DEF PoolSound
<1>4. QED
  BY <1>1, <1>2, <1>3, PTL DEF Spec

-----------------------------------------------------------------------------
(***************************************************************************)
(* The churn grants: a worker that removes or restores a grant holds its   *)
(* lock, and holds it alone.                                               *)
(***************************************************************************)
Churning(c) == c.op \in {"removing", "regranting"}
LockInv ==
  /\ \A w \in Workers : Churning(worker[w]) =>
       /\ worker[w].grant \in churnLock
       /\ \A v \in Workers : Churning(worker[v]) /\ worker[v].grant = worker[w].grant => v = w
  /\ GrantsRestored

\* A worker's step that leaves the churn grants alone, and churns none after it.
LEMMA LocksAside ==
  ASSUME LockInv, worker \in [Workers -> Calling], UNCHANGED churnVars,
         NEW w \in Workers, NEW d, Turns(worker, w, d, worker'), ~Churning(d)
  PROVE  LockInv'
<1>1. \A v \in Workers : worker'[v] = IF v = w THEN d ELSE worker[v]
  BY DEF Turns
<1>2. UNCHANGED <<churnLock, granted, unrestored>>
  BY DEF churnVars
<1>3. QED
  BY <1>1, <1>2 DEF LockInv, GrantsRestored

\* The grant that lockChurn picks is one whose lock is free.
LEMMA PickedIsFree ==
  ASSUME NEW w \in Workers, GrantChurn(w)
  PROVE  \/ \E i \in Int : worker' = [worker EXCEPT ![w].op = "locking", ![w].grant = i] /\ UNCHANGED churnLock
         \/ \E g \in Int : /\ g \notin churnLock /\ churnLock' = churnLock \cup {g}
                           /\ worker' = [worker EXCEPT ![w].op = "removing", ![w].grant = g]
<1>1. PICK i \in 0..(ChurnGrants - 1) :
        LET round == [j \in 1..ChurnGrants |-> (i + j - 1) % ChurnGrants]
            unlocked == {j \in DOMAIN round : round[j] \notin churnLock}
        IN  IF unlocked = {}
            THEN worker' = [worker EXCEPT ![w].op = "locking", ![w].grant = i] /\ UNCHANGED churnLock
            ELSE /\ worker' = [worker EXCEPT ![w].op = "removing", ![w].grant = round[Min(unlocked)]]
                 /\ churnLock' = churnLock \cup {round[Min(unlocked)]}
  BY DEF GrantChurn
<1> DEFINE round == [j \in 1..ChurnGrants |-> (i + j - 1) % ChurnGrants]
           unlocked == {j \in DOMAIN round : round[j] \notin churnLock}
<1>2. CASE unlocked = {}
  BY <1>1, <1>2
<1>3. CASE unlocked # {}
  <2>1. unlocked \in SUBSET Nat /\ \A j \in unlocked : j \in 1..ChurnGrants /\ round[j] \notin churnLock
    OBVIOUS
  <2> HIDE DEF unlocked
  <2>2. PICK m \in unlocked : m = Min(unlocked)
    BY <1>3, <2>1, SmallestId
  <2>3. m \in 1..ChurnGrants /\ round[m] \notin churnLock
    BY <2>1, <2>2
  <2>6. round[m] \in Int
    BY PoolAssumption, <2>3
  <2> USE DEF unlocked
  <2>4. /\ worker' = [worker EXCEPT ![w].op = "removing", ![w].grant = round[m]]
        /\ churnLock' = churnLock \cup {round[m]}
    BY <1>1, <1>3, <2>2
  <2>5. QED
    BY <2>3, <2>4, <2>6
<1>4. QED
  BY <1>2, <1>3

\* A worker comes to hold a lock that was free.
LEMMA LockTaken ==
  ASSUME LockInv, worker \in [Workers -> Calling], NEW w \in Workers, NEW g, g \notin churnLock,
         churnLock' = churnLock \cup {g}, UNCHANGED <<granted, unrestored>>,
         NEW d, Turns(worker, w, d, worker'), d.grant = g
  PROVE  LockInv'
<1>1. \A v \in Workers : worker'[v] = IF v = w THEN d ELSE worker[v]
  BY DEF Turns
<1>2. ASSUME NEW v \in Workers, Churning(worker'[v])
      PROVE  /\ worker'[v].grant \in churnLock'
             /\ \A u \in Workers : Churning(worker'[u]) /\ worker'[u].grant = worker'[v].grant => u = v
  <2>1. \A u \in Workers \ {w} : Churning(worker'[u]) =>
          worker'[u] = worker[u] /\ worker[u].grant \in churnLock /\ worker[u].grant # g
    BY <1>1 DEF LockInv
  <2>2. worker'[w].grant = g
    BY <1>1
  <2>3. CASE v = w
    BY <2>1, <2>2, <2>3
  <2>4. CASE v # w
    <3>1. worker'[v] = worker[v] /\ Churning(worker[v]) /\ worker[v].grant \in churnLock /\ worker[v].grant # g
      BY <1>2, <2>1, <2>4
    <3>2. ASSUME NEW u \in Workers, Churning(worker'[u]), worker'[u].grant = worker'[v].grant
          PROVE  u = v
      <4>1. u # w
        BY <2>2, <3>1, <3>2
      <4>2. worker'[u] = worker[u]
        BY <2>1, <3>2, <4>1
      <4> QED BY <3>1, <3>2, <4>2 DEF LockInv
    <3> QED BY <3>1, <3>2
  <2> QED BY <2>3, <2>4
<1>3. GrantsRestored'
  BY DEF LockInv, GrantsRestored
<1>4. QED
  BY <1>2, <1>3 DEF LockInv

LEMMA NextLocks == ASSUME PInv, LockInv, [Next]_vars PROVE LockInv'
<1>1. worker \in [Workers -> Calling]
  BY DEF PInv, Typed
<1>2. ASSUME UNCHANGED <<worker, churnVars>> PROVE LockInv'
  BY <1>2 DEF LockInv, GrantsRestored, churnVars
<1>3. CASE Setup
  BY <1>2, <1>3 DEF Setup, FanoutTurn, GrantPoolReturns, PrimeReturns, GrowFanReturns, LookupReader,
                    GrantAnswer, PrimeAnswer
<1>4. CASE EnterStage \/ End \/ Close \/ CloseReturns
  BY <1>2, <1>4 DEF EnterStage, End, Close, CloseReturns
<1>5. ASSUME NEW w \in Workers, WorkerDraw(w) \/ WorkerCall(w) PROVE LockInv'
  <2> DEFINE c == worker[w]
  <2>1. c \in Calling
    BY <1>1
  <2>2. CASE Read(w)
    <3>1. Turns(worker, w, [c EXCEPT !.op = "reading"], worker') /\ ~Churning([c EXCEPT !.op = "reading"])
      BY <1>1, <2>1, <2>2 DEF Read, Turns, Churning, Calling
    <3>2. QED
      BY <1>1, <2>2, <3>1, LocksAside DEF Read
  <2>3. CASE BadToken(w)
    <3>1. PICK t : worker' = [worker EXCEPT ![w].op = "rejecting", ![w].tok = t]
      BY <2>3 DEF BadToken
    <3>2. /\ Turns(worker, w, [c EXCEPT !.op = "rejecting", !.tok = t], worker')
          /\ ~Churning([c EXCEPT !.op = "rejecting", !.tok = t])
      BY <1>1, <2>1, <3>1 DEF Turns, Churning, Calling
    <3>3. QED
      BY <1>1, <2>3, <3>2, LocksAside DEF BadToken
  <2>4. ASSUME NEW op, NEW call \in {"issuing", "revoking"}, Take(w, op, call) PROVE LockInv'
    <3>1. PICK t : worker' = [worker EXCEPT ![w].op = call, ![w].tok = t]
      BY <2>4 DEF Take
    <3>2. /\ Turns(worker, w, [c EXCEPT !.op = call, !.tok = t], worker')
          /\ ~Churning([c EXCEPT !.op = call, !.tok = t])
      BY <1>1, <2>1, <3>1 DEF Turns, Churning, Calling
    <3>3. QED
      BY <1>1, <2>4, <3>2, LocksAside DEF Take
  <2>5. ASSUME NEW o, RevokeAnswer(w, o) PROVE LockInv'
    <3>1. /\ Turns(worker, w, [c EXCEPT !.op = "replacing", !.err = (o # "ok")], worker')
          /\ ~Churning([c EXCEPT !.op = "replacing", !.err = (o # "ok")])
      BY <1>1, <2>1, <2>5 DEF RevokeAnswer, Turns, Churning, Calling
    <3>2. QED
      BY <1>1, <2>5, <3>1, LocksAside DEF RevokeAnswer
  <2>6. ASSUME NEW o, ReadAnswer(w) \/ ReissueAnswer(w, o) \/ ReplaceAnswer(w, o) PROVE LockInv'
    <3>1. Turns(worker, w, Idle, worker') /\ ~Churning(Idle) /\ UNCHANGED churnVars
      BY <2>6 DEF ReadAnswer, ReissueAnswer, ReplaceAnswer, Turns, Churning, Idle
    <3>2. QED
      BY <1>1, <3>1, LocksAside
  <2>7. CASE GrantChurn(w)
    <3>0. UNCHANGED <<granted, unrestored>>
      BY <2>7 DEF GrantChurn
    <3>1. CASE \E i \in Int : worker' = [worker EXCEPT ![w].op = "locking", ![w].grant = i] /\ UNCHANGED churnLock
      <4>1. PICK i \in Int : worker' = [worker EXCEPT ![w].op = "locking", ![w].grant = i]
        BY <3>1
      <4>2. /\ Turns(worker, w, [c EXCEPT !.op = "locking", !.grant = i], worker')
            /\ ~Churning([c EXCEPT !.op = "locking", !.grant = i])
        BY <1>1, <2>1, <4>1 DEF Turns, Churning, Calling
      <4>3. QED
        BY <1>1, <3>0, <3>1, <4>2, LocksAside DEF churnVars
    <3>2. CASE \E g \in Int : /\ g \notin churnLock /\ churnLock' = churnLock \cup {g}
                              /\ worker' = [worker EXCEPT ![w].op = "removing", ![w].grant = g]
      <4>1. PICK g \in Int : /\ g \notin churnLock /\ churnLock' = churnLock \cup {g}
                             /\ worker' = [worker EXCEPT ![w].op = "removing", ![w].grant = g]
        BY <3>2
      <4>2. /\ Turns(worker, w, [c EXCEPT !.op = "removing", !.grant = g], worker')
            /\ [c EXCEPT !.op = "removing", !.grant = g].grant = g
        BY <1>1, <2>1, <4>1 DEF Turns, Calling
      <4>3. QED
        BY <1>1, <3>0, <4>1, <4>2, LockTaken
    <3>3. QED
      BY <2>7, <3>1, <3>2, PickedIsFree
  <2>8. CASE GetsLock(w)
    <3>1. /\ Turns(worker, w, [c EXCEPT !.op = "removing"], worker')
          /\ [c EXCEPT !.op = "removing"].grant = c.grant
      BY <1>1, <2>1, <2>8 DEF GetsLock, Turns, Calling
    <3>2. QED
      BY <1>1, <2>8, <3>1, LockTaken DEF GetsLock
  <2>9. ASSUME NEW o, RemoveAnswer(w, o) PROVE LockInv'
    <3>1. \A v \in Workers : /\ worker'[v].grant = worker[v].grant
                             /\ Churning(worker'[v]) <=> Churning(worker[v])
      BY <1>1, <2>9 DEF RemoveAnswer, Churning, Calling
    <3>2. /\ c.grant \in churnLock /\ UNCHANGED <<churnLock, unrestored>>
          /\ granted' = granted \/ granted' = granted \ {c.grant}
      BY <2>9 DEF RemoveAnswer, LockInv, Churning
    <3>3. QED
      BY <3>1, <3>2 DEF LockInv, GrantsRestored
  <2>10. ASSUME NEW o, RegrantAnswer(w, o) PROVE LockInv'
    <3>1. \A v \in Workers : worker'[v] = IF v = w THEN Idle ELSE worker[v]
      BY <1>1, <2>10 DEF RegrantAnswer
    <3>2. ~Churning(Idle) /\ Churning(c)
      BY <2>10 DEF Churning, Idle, RegrantAnswer
    <3>3. /\ churnLock' = churnLock \ {c.grant}
          /\ c.grant \in granted' \/ c.grant \in unrestored'
          /\ granted \subseteq granted' /\ unrestored \ {c.grant} \subseteq unrestored'
      BY <2>10 DEF RegrantAnswer, TakesEffect
    <3>4. GrantsRestored'
      BY <3>3 DEF LockInv, GrantsRestored
    <3>5. QED
      BY <3>1, <3>2, <3>3, <3>4 DEF LockInv
  <2>11. QED
    BY <1>5, <2>2, <2>3, <2>4, <2>5, <2>6, <2>7, <2>8, <2>9, <2>10 DEF WorkerDraw, WorkerCall
<1>6. CASE Refresher
  BY <1>2, <1>6 DEF Refresher, RefreshTick, RefreshOver, RefresherStops, RefreshIssue, RefreshAnswer,
                    refresherOnly
<1>7. CASE Ticker
  BY <1>2, <1>7 DEF Ticker, TickerStops, TickerReturns, probeOnly
<1>8. ASSUME NEW p \in Probes, PropagationTick(p) \/ Probe(p) PROVE LockInv'
  BY <1>2, <1>8 DEF Probe, PropagationTick, ProbeTakes, ProbeRevokeAnswer, ProbeReplaceAnswer, Poll, probeOnly
<1>9. CASE (\E t \in Token : TokenDue(t)) \/ (\E i \in DOMAIN ring : RevokedAge(i))
  BY <1>2, <1>9 DEF TokenDue, RevokedAge
<1>10. CASE UNCHANGED vars
  BY <1>2, <1>10 DEF vars
<1>11. QED
  BY <1>3, <1>4, <1>5, <1>6, <1>7, <1>8, <1>9, <1>10 DEF Next

\* grantChurn, with lockChurn: whatever removals and re-grants fail or lose their answer,
\* a grant no worker is churning exists, or its last re-grant reported an error.
THEOREM GrantsAreRestored == Spec => []GrantsRestored
<1>1. Init => PInv /\ LockInv
  <2>1. Init => LockInv
    BY DEF Init, LockInv, GrantsRestored, Churning, Idle
  <2>2. QED
    BY <2>1, InitPool
<1>2. PInv /\ LockInv /\ [Next]_vars => (PInv /\ LockInv)'
  BY NextPool, NextLocks
<1>3. PInv /\ LockInv => GrantsRestored
  BY DEF LockInv
<1>4. QED
  BY <1>1, <1>2, <1>3, PTL DEF Spec

-----------------------------------------------------------------------------
(***************************************************************************)
(* The reader and fan grants: the loop that makes them remembers them.     *)
(***************************************************************************)
MadeInv ==
  /\ grants \subseteq created \cup lostGrants \cup fanout.made
  /\ main \notin {"granting", "growing"} => fanout.made = {}

LEMMA NextMade == ASSUME PInv, MadeInv, [Next]_vars PROVE MadeInv'
<1>1. fanout = [jobs |-> fanout.jobs, next |-> fanout.next, flight |-> fanout.flight,
                made |-> fanout.made, failed |-> fanout.failed, entries |-> fanout.entries]
  BY DEF PInv, FanoutShape
<1>2. ASSUME UNCHANGED <<grants, created, lostGrants, main>>, fanout'.made = fanout.made PROVE MadeInv'
  BY <1>2 DEF MadeInv
<1>3. CASE Setup
  <2>1. CASE FanoutTurn
    <3>1. fanout'.made = fanout.made
      BY <1>1, <2>1 DEF FanoutTurn
    <3>2. QED
      BY <1>2, <2>1, <3>1 DEF FanoutTurn
  <2>2. CASE GrantPoolReturns \/ GrowFanReturns
    <3>1. /\ fanout'.made = {} /\ created' = created \cup fanout.made
          /\ UNCHANGED <<grants, lostGrants>>
      <4>1. fanout' = NoFanout \/ Begin("priming", PrimeJobs)
        BY <2>2 DEF GrantPoolReturns, GrowFanReturns
      <4>2. fanout'.made = {}
        <5>1. CASE fanout' = NoFanout
          BY <5>1 DEF NoFanout
        <5>2. CASE Begin("priming", PrimeJobs)
          BY <5>2 DEF Begin, NoFanout
        <5>3. QED
          BY <4>1, <5>1, <5>2
      <4>3. QED
        BY <2>2, <4>2 DEF GrantPoolReturns, GrowFanReturns
    <3>2. QED
      BY <3>1 DEF MadeInv
  <2>3. CASE PrimeReturns
    <3>1. /\ fanout'.made = {} /\ fanout.made = {} /\ UNCHANGED <<grants, created, lostGrants>>
      BY <2>3 DEF PrimeReturns, NoFanout, MadeInv
    <3>2. QED
      BY <3>1 DEF MadeInv
  <2>4. ASSUME NEW o, LookupReader(o) PROVE MadeInv'
    <3>1. /\ fanout'.made = {} /\ fanout.made = {} /\ UNCHANGED <<grants, created, lostGrants>>
      BY <2>4 DEF LookupReader, Begin, NoFanout, MadeInv
    <3>2. QED
      BY <3>1 DEF MadeInv
  <2>5. ASSUME NEW k, NEW o, GrantAnswer(k, o) PROVE MadeInv'
    <3> DEFINE g == fanout.jobs[k]
    <3>1. /\ grants' = IF TakesEffect(o) THEN grants \cup {g} ELSE grants
          /\ lostGrants' = IF o = "lost" THEN lostGrants \cup {g} ELSE lostGrants
          /\ UNCHANGED <<main, created>> /\ main \in {"granting", "growing"}
      BY <2>5 DEF GrantAnswer
    <3>2. fanout'.made = IF o = "ok" THEN fanout.made \cup {g} ELSE fanout.made
      BY <1>1, <2>5 DEF GrantAnswer
    <3> HIDE DEF g
    <3>3. QED
      BY <3>1, <3>2 DEF MadeInv, TakesEffect
  <2>6. ASSUME NEW k, NEW o, PrimeAnswer(k, o) PROVE MadeInv'
    <3>1. fanout'.made = fanout.made
      BY <1>1, <2>6 DEF PrimeAnswer
    <3>2. QED
      BY <1>2, <2>6, <3>1 DEF PrimeAnswer
  <2>7. QED
    BY <1>3, <2>1, <2>2, <2>3, <2>4, <2>5, <2>6 DEF Setup
<1>4. CASE EnterStage
  <2>1. /\ fanout'.made = {} /\ fanout.made = {} /\ UNCHANGED <<grants, created, lostGrants>>
    BY <1>4 DEF EnterStage, Begin, NoFanout, MadeInv
  <2>2. QED
    BY <2>1 DEF MadeInv
<1>5. CASE End
  BY <1>2, <1>5 DEF End
<1>6. CASE Close \/ CloseReturns
  <2>1. UNCHANGED <<grants, created, lostGrants, fanout>> /\ main \notin {"granting", "growing"}
    BY <1>6 DEF Close, CloseReturns
  <2>2. QED
    BY <2>1 DEF MadeInv
<1>7. ASSUME NEW w \in Workers, WorkerDraw(w) \/ WorkerCall(w) PROVE MadeInv'
  BY <1>2, <1>7 DEF WorkerDraw, WorkerCall, Read, BadToken, Take, GrantChurn, ReadAnswer, GetsLock,
                    ReissueAnswer, RevokeAnswer, ReplaceAnswer, RemoveAnswer, RegrantAnswer,
                    workerOnly, setVars
<1>8. CASE Refresher
  BY <1>2, <1>8 DEF Refresher, RefreshTick, RefreshOver, RefresherStops, RefreshIssue, RefreshAnswer,
                    refresherOnly, setVars
<1>9. CASE Ticker
  BY <1>2, <1>9 DEF Ticker, TickerStops, TickerReturns, probeOnly, setVars
<1>10. ASSUME NEW p \in Probes, PropagationTick(p) \/ Probe(p) PROVE MadeInv'
  BY <1>2, <1>10 DEF Probe, PropagationTick, ProbeTakes, ProbeRevokeAnswer, ProbeReplaceAnswer, Poll,
                     probeOnly, setVars
<1>11. CASE (\E t \in Token : TokenDue(t)) \/ (\E i \in DOMAIN ring : RevokedAge(i))
  BY <1>2, <1>11 DEF TokenDue, RevokedAge, setVars
<1>12. CASE UNCHANGED vars
  BY <1>2, <1>12 DEF vars, setVars
<1>13. QED
  BY <1>3, <1>4, <1>5, <1>6, <1>7, <1>8, <1>9, <1>10, <1>11, <1>12 DEF Next

\* GrantPool and GrowFan: for every plan and every stage, a grant they made is recorded
\* with the created resources once they return, also when another grant failed, unless
\* its own answer was lost.
THEOREM GrantsAreAccounted == Spec => []GrantsAccounted
<1>1. Init => PInv /\ MadeInv
  <2>1. Init => MadeInv
    BY DEF Init, MadeInv, NoFanout
  <2>2. QED
    BY <2>1, InitPool
<1>2. PInv /\ MadeInv /\ [Next]_vars => (PInv /\ MadeInv)'
  BY NextPool, NextMade
<1>3. PInv /\ MadeInv => GrantsAccounted
  BY DEF MadeInv, GrantsAccounted
<1>4. QED
  BY <1>1, <1>2, <1>3, PTL DEF Spec
=============================================================================
