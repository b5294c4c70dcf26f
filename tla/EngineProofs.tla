----------------------------- MODULE EngineProofs -----------------------------
(***************************************************************************)
(* The scheduling promises of Engine, for every set of requests, every     *)
(* workload and every capacity: the lifecycle of requests, the oldest      *)
(* request's priority, first come first served and bounded recompute.      *)
(*                                                                         *)
(* Nothing here depends on what the page memory contains: whether a        *)
(* capacity request succeeds is left open, so the results hold for every   *)
(* answer the memory can give.  After the scheduler come the generators of *)
(* seeded requests (SampledEngine) and what a proposer and the acceptance  *)
(* rule compute (SpecEngine); what these need of the output of a request   *)
(* is in Books, which EngineMemoryProofs shows to hold.                    *)
(***************************************************************************)
EXTENDS SampledEngine, SpecEngine, SequenceLemmas

Fields == {"state", "kind", "arrival", "queued", "out", "next", "prefilled",
           "cachedNext", "resuming", "recomputing", "yields", "epoch", "reason"}

\* A sequence, whatever it holds.
IsSeq(s) == s \in Seq({s[i] : i \in DOMAIN s})

IsRequest(q) ==
    /\ q = [f \in Fields |-> q[f]]
    /\ q.state \in State \ {"new"}
    /\ IsSeq(q.out)
    /\ q.kind \in Kind
    /\ q.queued \in BOOLEAN
    /\ q.prefilled \in Nat /\ q.yields \in Nat /\ q.epoch \in Nat

-----------------------------------------------------------------------------
(* The inductive invariant. *)

RequestsOK ==
    /\ req = [r \in Req |-> req[r]]
    /\ \A r \in Req : req[r] = NoRequest \/ IsRequest(req[r])
    /\ \A r \in Created : ~req[r].queued => req[r].state = "WAITING"

\* created_ns is drawn once per request from a clock that does not repeat.
ArrivalsOK ==
    /\ \A r \in Created : req[r].arrival \in 1 .. Cardinality(Created)
    /\ \A a, b \in Created : req[a].arrival = req[b].arrival => a = b

\* Each container holds exactly the requests whose state says so, once.
ContainersOK ==
    /\ waiting \in Seq(Req) /\ active \in Seq(Req) /\ order \in Seq(Req)
    /\ IsInjective(waiting) /\ IsInjective(active) /\ IsInjective(order)
    /\ ToSet(active) = Live /\ ToSet(order) = Live
    /\ ToSet(waiting) = {r \in Created : req[r].queued /\ req[r].state = "WAITING"}

\* With arrivals in order, a request that is not queued yet is the newest.
QueueOK ==
    InOrder => /\ ArrivalOrderKept
               /\ \A x, y \in Created : ~req[x].queued /\ y # x => Older(y, x)

\* An active request that has yielded was readmitted after somebody ended, or
\* nobody was active: then it is the oldest and cannot yield again.
EpochsOK ==
    /\ epoch \in Nat
    /\ \A r \in Created : req[r].epoch <= epoch
    /\ \A r \in Created : req[r].state = "WAITING" /\ req[r].yields > 0 => req[r].recomputing
    /\ InOrder => /\ YieldsBounded
                  /\ \A r \in Live : req[r].yields > 0 =>
                        req[r].epoch < epoch \/ \A x \in Live \ {r} : Older(r, x)

SchedulerOK == RequestsOK /\ ArrivalsOK /\ ContainersOK /\ QueueOK /\ EpochsOK

\* A list of distinct requests, all of them in the given state.
RequestsIn(s, state) ==
    /\ s \in Seq(Req) /\ IsInjective(s)
    /\ \A r \in ToSet(s) : req[r].state = state

\* A list of chunks of distinct requests.
IsPlan(s) ==
    /\ IsSeq(s)
    /\ \A i \in 1 .. Len(s) : s[i][1] \in Req /\ s[i][2] \in Nat \ {0}
    /\ \A i, j \in 1 .. Len(s) : s[i][1] = s[j][1] => i = j

PlanIn(s, state) == IsPlan(s) /\ \A i \in 1 .. Len(s) : req[s[i][1]].state = state

\* What the loops of a step rely on when they do not look again.
LoopOK ==
    /\ pc \in {"idle", "decodeCap", "decode", "commitD", "admit", "exact", "plan",
               "prefillCap", "forward", "commitP"}
    /\ rows \in Seq(Req) /\ IsInjective(rows)
    /\ pc = "idle" => rows = << >>
    /\ pc = "decodeCap" => /\ todo \in Seq(Req) /\ IsInjective(todo)
                           /\ ToSet(rows) \cap ToSet(todo) = {}
    /\ pc = "decode" => ~Fused /\ RequestsIn(rows, "DECODING")
    /\ pc = "commitD" => RequestsIn(todo, "DECODING")
    /\ pc \in {"admit", "exact"} => RequestsIn(todo, "PREFILLING")
    /\ pc = "prefillCap" => IsPlan(plans) /\ IsPlan(todo)
    /\ pc = "forward" => RequestsIn(rows, "DECODING") /\ PlanIn(plans, "PREFILLING")
    /\ pc = "commitD" /\ Fused => PlanIn(plans, "PREFILLING")
    /\ pc = "commitP" => PlanIn(todo, "PREFILLING")

EngineInv == SchedulerOK /\ LoopOK

-----------------------------------------------------------------------------
(* What one step may do to requests. *)

\* The two action properties, as actions.
LegalStep ==
    \A r \in Req :
        /\ req'[r].state # req[r].state =>
             req[r].state \notin Terminal /\ req'[r].state \in Allowed[req[r].state]
        /\ r \in Created => IsPrefix(req[r].out, req'[r].out)
        /\ req[r].state \in Terminal => req'[r] = req[r]

YieldStep ==
    \A r \in Created :
        (r \in ToSet(active) /\ req'[r].state = "WAITING")
            => \E x \in ToSet(active') : Older(x, r)

\* q is p later: the same request, with at least the same output.
Carried(p, q) ==
    /\ IsRequest(q)
    /\ q.arrival = p.arrival /\ q.queued = p.queued
    /\ q.yields = p.yields /\ q.epoch = p.epoch
    /\ IsPrefix(p.out, q.out)

Only(r) == \A x \in Req \ {r} : req'[x] = req[x]

LEMMA PrefixReflexive ==
    ASSUME NEW s, IsSeq(s)
    PROVE  IsPrefix(s, s)
  BY DEF IsPrefix, IsSeq

LEMMA AppendIsSeq ==
    ASSUME NEW s, IsSeq(s), NEW t
    PROVE  IsSeq(Append(s, t)) /\ IsPrefix(s, Append(s, t))
  <1> DEFINE S == {s[i] : i \in DOMAIN s} \cup {t}
             a == Append(s, t)
  <1>1. s \in Seq(S) /\ t \in S
    BY DEF IsSeq
  <1> HIDE DEF S
  <1>2. /\ a \in Seq(S) /\ Len(a) = Len(s) + 1 /\ Len(s) \in Nat
        /\ \A i \in 1 .. Len(s) : a[i] = s[i]
    BY <1>1
  <1> HIDE DEF a
  <1>3. IsSeq(a)
    BY <1>2 DEF IsSeq
  <1>4. SubSeq(s, 1, Len(s)) = SubSeq(a, 1, Len(s))
    BY <1>1, <1>2
  <1> QED BY <1>2, <1>3, <1>4 DEF IsPrefix, a

LEMMA LiveFacts ==
    ASSUME RequestsOK
    PROVE  /\ \A r \in Created : r \in Req /\ IsRequest(req[r])
           /\ \A r \in Live : r \in Created /\ req[r].state \in {"PREFILLING", "DECODING"}
                              /\ req[r].queued
           /\ \A r \in Req : r \notin Created => req[r] = NoRequest
  BY DEF RequestsOK, Created, Live, NoRequest, IsRequest

\* One request changes.
LEMMA UpdateOne ==
    ASSUME RequestsOK, NEW r \in Created, NEW q, IsRequest(q),
           q.queued \/ q.state = "WAITING",
           req' = [req EXCEPT ![r] = q]
    PROVE  RequestsOK' /\ Created' = Created /\ req'[r] = q /\ Only(r)
  <1>1. r \in Req /\ q.state # "new"
    BY DEF Created, IsRequest
  <1>2. req'[r] = q /\ Only(r) /\ req' = [x \in Req |-> req'[x]]
    BY <1>1 DEF RequestsOK, Only
  <1>3. Created' = Created
    BY <1>1, <1>2 DEF Created, Only
  <1>4. \A x \in Req : req'[x] = NoRequest \/ IsRequest(req'[x])
    BY <1>2 DEF RequestsOK, Only
  <1>5. \A x \in Created : ~req'[x].queued => req'[x].state = "WAITING"
    BY <1>2 DEF RequestsOK, Only, Created
  <1> QED BY <1>2, <1>3, <1>4, <1>5 DEF RequestsOK

LEMMA UpdateArrivals ==
    ASSUME ArrivalsOK, NEW r \in Created, Only(r), Created' = Created,
           req'[r].arrival = req[r].arrival
    PROVE  /\ ArrivalsOK'
           /\ \A x \in Created : req'[x].arrival = req[x].arrival
           /\ \A x, y \in Created : Older(x, y)' <=> Older(x, y)
  <1>1. \A x \in Created : req'[x].arrival = req[x].arrival
    BY DEF Only, Created
  <1>2. \A x, y \in Created : Older(x, y)' <=> Older(x, y)
    BY <1>1 DEF Older
  <1> QED BY <1>1, <1>2 DEF ArrivalsOK

LEMMA LegalWhenCarried ==
    ASSUME RequestsOK, NEW r \in Created, Only(r), Carried(req[r], req'[r]),
           req[r].state \notin Terminal,
           req'[r].state = req[r].state \/ req'[r].state \in Allowed[req[r].state]
    PROVE  LegalStep
  <1>1. \A x \in Created : IsPrefix(req[x].out, req[x].out)
    BY LiveFacts, PrefixReflexive DEF IsRequest
  <1> QED BY <1>1 DEF LegalStep, Only, Carried

\* Arrival times compare like numbers.
LEMMA OlderIsOrder ==
    ASSUME ArrivalsOK
    PROVE  /\ \A a, b \in Created : a = b \/ Older(a, b) \/ Older(b, a)
           /\ \A a, b \in Created : Older(a, b) => ~Older(b, a) /\ a # b
           /\ \A a, b, c \in Created : Older(a, b) /\ Older(b, c) => Older(a, c)
  <1>1. \A a \in Created : req[a].arrival \in Int
    BY DEF ArrivalsOK
  <1> QED BY <1>1 DEF ArrivalsOK, Older

-----------------------------------------------------------------------------
(* The scheduler's operations keep its invariant. *)

\* An active request ends.
LEMMA RetireKeeps ==
    ASSUME SchedulerOK, NEW m, NEW r \in Live, NEW q, Carried(req[r], q),
           q.state \in {"FINISHED", "CANCELLED", "FAILED"}, Retire(m, r, q)
    PROVE  SchedulerOK' /\ LegalStep /\ YieldStep /\ Only(r) /\ req'[r] = q
  <1>0. RequestsOK /\ ArrivalsOK /\ ContainersOK /\ QueueOK /\ EpochsOK
    BY DEF SchedulerOK
  <1>1. /\ r \in Created /\ r \in Req /\ req[r].state \in {"PREFILLING", "DECODING"}
        /\ req[r].queued
    BY <1>0, LiveFacts
  <1>2. /\ req' = [req EXCEPT ![r] = q]
        /\ active' = Without(active, r) /\ order' = Without(order, r)
        /\ waiting' = waiting /\ epoch' = epoch + 1
    BY DEF Retire
  <1>3. RequestsOK' /\ Created' = Created /\ req'[r] = q /\ Only(r)
    BY <1>0, <1>1, <1>2, UpdateOne DEF Carried
  <1>4. /\ ArrivalsOK'
        /\ \A x, y \in Created : Older(x, y)' <=> Older(x, y)
    BY <1>0, <1>1, <1>3, UpdateArrivals DEF Carried
  <1>5. LegalStep
    <2>1. q.state \in Allowed[req[r].state] /\ req[r].state \notin Terminal
      BY <1>1 DEF Allowed, Terminal
    <2> QED BY <2>1, <1>0, <1>1, <1>3, LegalWhenCarried
  <1>6. Live' = Live \ {r}
    BY <1>1, <1>3 DEF Live, Created, Only
  <1>7. ContainersOK'
    <2>1. /\ active' \in Seq(Req) /\ IsInjective(active') /\ ToSet(active') = Live'
          /\ order' \in Seq(Req) /\ IsInjective(order') /\ ToSet(order') = Live'
      BY <1>0, <1>2, <1>6, WithoutProperties DEF ContainersOK
    <2>2. {x \in Created : req'[x].queued /\ req'[x].state = "WAITING"}
            = {x \in Created : req[x].queued /\ req[x].state = "WAITING"}
      BY <1>1, <1>3 DEF Only, Created
    <2> QED BY <2>1, <2>2, <1>0, <1>2, <1>3 DEF ContainersOK
  <1>8. QueueOK'
    <2>1. ToSet(active') \subseteq ToSet(active) /\ ToSet(active) \subseteq Created
          /\ ToSet(waiting) \subseteq Created
      BY <1>0, <1>6, <1>7 DEF ContainersOK, Live
    <2>2. \A i \in 1 .. Len(waiting) : waiting[i] \in Created
      BY <2>1, <1>0, ToSetIndexed DEF ContainersOK
    <2>3. \A x \in Created : req'[x].queued = req[x].queued
      BY <1>3 DEF Only, Carried, Created
    <2> QED BY <2>1, <2>2, <2>3, <1>0, <1>2, <1>3, <1>4 DEF QueueOK, ArrivalOrderKept
  <1>9. EpochsOK'
    <2>1. epoch \in Nat /\ \A x \in Created : req[x].epoch \in Nat
      BY <1>0, LiveFacts DEF EpochsOK, IsRequest
    <2>2. \A x \in Created : req'[x].epoch = req[x].epoch /\ req'[x].yields = req[x].yields
      BY <1>3 DEF Only, Carried, Created
    <2>3. \A x \in Created : req'[x].state = "WAITING" => req'[x] = req[x]
      BY <1>3 DEF Only, Created
    <2>4. YieldsBounded => YieldsBounded'
      BY <2>2, <1>3 DEF YieldsBounded
    <2>5. \A x \in Created : req[x].epoch <= epoch
      BY <1>0 DEF EpochsOK
    <2>6. \A x \in Created : req'[x].epoch < epoch'
      BY <2>1, <2>2, <2>5, <1>2
    <2>7. Live' \subseteq Created
      BY <1>6 DEF Live
    <2>8. \A x \in Created : req'[x].epoch <= epoch'
      BY <2>1, <2>2, <2>5, <1>2
    <2> QED BY <2>1, <2>3, <2>4, <2>6, <2>7, <2>8, <1>0, <1>2, <1>3 DEF EpochsOK
  <1>10. YieldStep
    BY <1>1, <1>3, <1>0 DEF YieldStep, Only, ContainersOK, Live, Created
  <1> QED BY <1>3, <1>4, <1>5, <1>7, <1>8, <1>9, <1>10 DEF SchedulerOK

\* An active request makes progress.
LEMMA ProgressKeeps ==
    ASSUME SchedulerOK, NEW r \in Live, NEW q, Carried(req[r], q),
           q.state \in {"PREFILLING", "DECODING"},
           q.state = req[r].state \/ q.state = "DECODING",
           req' = [req EXCEPT ![r] = q],
           UNCHANGED <<waiting, active, order, epoch>>
    PROVE  SchedulerOK' /\ LegalStep /\ YieldStep /\ Only(r) /\ req'[r] = q
  <1>0. RequestsOK /\ ArrivalsOK /\ ContainersOK /\ QueueOK /\ EpochsOK
    BY DEF SchedulerOK
  <1>1. /\ r \in Created /\ r \in Req /\ req[r].state \in {"PREFILLING", "DECODING"}
        /\ req[r].queued
    BY <1>0, LiveFacts
  <1>3. RequestsOK' /\ Created' = Created /\ req'[r] = q /\ Only(r)
    BY <1>0, <1>1, UpdateOne DEF Carried
  <1>4. /\ ArrivalsOK'
        /\ \A x, y \in Created : Older(x, y)' <=> Older(x, y)
    BY <1>0, <1>1, <1>3, UpdateArrivals DEF Carried
  <1>5. LegalStep
    <2>1. (q.state = req[r].state \/ q.state \in Allowed[req[r].state])
          /\ req[r].state \notin Terminal
      BY <1>1 DEF Allowed, Terminal
    <2> QED BY <2>1, <1>0, <1>1, <1>3, LegalWhenCarried
  <1>6. Live' = Live
    BY <1>1, <1>3 DEF Live, Created, Only
  <1>7. ContainersOK'
    <2>2. {x \in Created : req'[x].queued /\ req'[x].state = "WAITING"}
            = {x \in Created : req[x].queued /\ req[x].state = "WAITING"}
      BY <1>1, <1>3 DEF Only, Created
    <2> QED BY <2>2, <1>0, <1>3, <1>6 DEF ContainersOK
  <1>8. QueueOK'
    <2>1. ToSet(active) \subseteq Created /\ ToSet(waiting) \subseteq Created
      BY <1>0 DEF ContainersOK, Live
    <2>2. \A i \in 1 .. Len(waiting) : waiting[i] \in Created
      BY <2>1, <1>0, ToSetIndexed DEF ContainersOK
    <2>3. \A x \in Created : req'[x].queued = req[x].queued
      BY <1>3 DEF Only, Carried, Created
    <2> QED BY <2>1, <2>2, <2>3, <1>0, <1>3, <1>4 DEF QueueOK, ArrivalOrderKept
  <1>9. EpochsOK'
    <2>2. \A x \in Created : req'[x].epoch = req[x].epoch /\ req'[x].yields = req[x].yields
      BY <1>3 DEF Only, Carried, Created
    <2>3. \A x \in Created : req'[x].state = "WAITING" => req'[x] = req[x]
      BY <1>3 DEF Only, Created
    <2>4. YieldsBounded => YieldsBounded'
      BY <2>2, <1>3 DEF YieldsBounded
    <2>5. Live \subseteq Created
      BY DEF Live
    <2> QED BY <2>2, <2>3, <2>4, <2>5, <1>0, <1>3, <1>4, <1>6 DEF EpochsOK
  <1>10. YieldStep
    BY <1>1, <1>3, <1>0 DEF YieldStep, Only, ContainersOK, Live, Created
  <1> QED BY <1>3, <1>4, <1>5, <1>7, <1>8, <1>9, <1>10 DEF SchedulerOK

-----------------------------------------------------------------------------
(* Preemption. *)

\* newest_active: with somebody active there is exactly one.
LEMMA NewestIsNewest ==
    ASSUME SchedulerOK, Live # {}
    PROVE  /\ NewestActive \in Live
           /\ \A x \in Live \ {NewestActive} : Older(x, NewestActive)
  <1>0. RequestsOK /\ ArrivalsOK /\ ContainersOK
    BY DEF SchedulerOK
  <1> DEFINE n == Cardinality(Created)
             T == {req[x].arrival : x \in Live}
  <1>1. n \in Nat
    BY KVAssumption, FS_Subset, FS_CardinalityType DEF Created
  <1>2. T \subseteq 0 .. n /\ T # {}
    <2>1. \A x \in Live : req[x].arrival \in 1 .. n
      BY <1>0 DEF ArrivalsOK, Live
    <2>2. \A x \in Live : req[x].arrival \in 0 .. n
      BY <2>1, <1>1
    <2> QED BY <2>2
  <1> HIDE DEF n
  <1>3. PICK t \in T : \A y \in T : y <= t
    <2> HIDE DEF T
    <2> QED BY <1>1, <1>2, GreatestExists
  <1>4. PICK r \in Live : t = req[r].arrival
    BY <1>3
  <1>5. \A x \in Live : req[x].arrival <= req[r].arrival /\ req[x].arrival \in Int
    BY <1>1, <1>2, <1>3, <1>4
  <1>6. \A x \in Live : ~Older(r, x)
    BY <1>5 DEF Older
  <1>7. ToSet(active) = Live
    BY <1>0 DEF ContainersOK
  <1>8. NewestActive \in Live /\ \A x \in Live : ~Older(NewestActive, x)
    BY <1>4, <1>6, <1>7 DEF NewestActive
  <1>9. Live \subseteq Created
    BY DEF Live
  <1> QED BY <1>0, <1>8, <1>9, OlderIsOrder

\* _requeue_in_arrival_order adds r and keeps a sorted queue sorted.
LEMMA RequeuedSorted ==
    ASSUME SchedulerOK, NEW r \in Live
    PROVE  /\ Requeued(r) \in Seq(Req) /\ IsInjective(Requeued(r))
           /\ ToSet(Requeued(r)) = ToSet(waiting) \cup {r}
           /\ (\A i, j \in 1 .. Len(waiting) : i < j => Older(waiting[i], waiting[j])) =>
                 \A i, j \in 1 .. Len(Requeued(r)) :
                    i < j => Older(Requeued(r)[i], Requeued(r)[j])
  <1>0. RequestsOK /\ ArrivalsOK /\ ContainersOK
    BY DEF SchedulerOK
  <1> DEFINE w == waiting
             n == Len(waiting)
             later == {i \in 1 .. n : Older(r, w[i])}
             t == Requeued(r)
             Sorted(s) == \A i, j \in 1 .. Len(s) : i < j => Older(s[i], s[j])
  <1>1. /\ w \in Seq(Req) /\ IsInjective(w) /\ n \in Nat /\ r \in Req /\ r \in Created
        /\ \A i \in 1 .. n : w[i] \in Created /\ w[i] # r /\ w[i] \in Req
        /\ r \notin ToSet(w)
    <2>1. w \in Seq(Req) /\ IsInjective(w) /\ r \notin ToSet(w)
          /\ \A x \in ToSet(w) : x \in Created /\ x \in Req
      BY <1>0 DEF ContainersOK, Live, Created
    <2>2. \A i \in 1 .. n : w[i] \in ToSet(w)
      BY <2>1, ToSetIndexed
    <2> QED BY <2>1, <2>2, <1>0, LiveFacts
  <1>2. \A i \in 1 .. n : Older(r, w[i]) \/ Older(w[i], r)
    BY <1>0, <1>1, OlderIsOrder
  <1>3. CASE later = {}
    <2>1. t = Append(w, r)
      BY <1>3 DEF Requeued
    <2>2. t \in Seq(Req) /\ IsInjective(t) /\ ToSet(t) = ToSet(w) \cup {r}
      BY <2>1, <1>1, AppendSet
    <2>3. \A i \in 1 .. n : Older(w[i], r)
      BY <1>2, <1>3
    <2>4. ASSUME Sorted(w), NEW i \in 1 .. Len(t), NEW j \in 1 .. Len(t), i < j
          PROVE  Older(t[i], t[j])
      <3>1. /\ Len(t) = n + 1 /\ t[n + 1] = r /\ \A k \in 1 .. n : t[k] = w[k]
        BY <2>1, <1>1
      <3> HIDE DEF t, w, n
      <3>2. i \in 1 .. n
        BY <2>4, <3>1, <1>1
      <3>3. CASE j = n + 1
        BY <3>1, <3>2, <3>3, <2>3
      <3>4. CASE j # n + 1
        <4>1. j \in 1 .. n
          BY <3>1, <3>4, <1>1
        <4> QED BY <4>1, <3>1, <3>2, <2>4 DEF n, w
      <3> QED BY <3>3, <3>4
    <2> HIDE DEF t
    <2>5. Sorted(w) => Sorted(t)
      BY <2>4
    <2> QED BY <2>2, <2>5 DEF t
  <1>4. CASE later # {}
    <2> DEFINE k == Min(later)
    <2>1. later \subseteq Nat
      OBVIOUS
    <2>2. k \in later /\ \A i \in later : k <= i
      <3> HIDE DEF later
      <3> QED BY <2>1, <1>4, MinProperties
    <2>3. t = InsertAt(w, k, r)
      BY <1>4 DEF Requeued
    <2>4. k \in 1 .. n /\ Older(r, w[k]) /\ \A i \in 1 .. n : Older(r, w[i]) => k <= i
      BY <2>2
    <2> HIDE DEF k, t
    <2>5. t \in Seq(Req) /\ IsInjective(t) /\ ToSet(t) = ToSet(w) \cup {r}
      BY <2>3, <2>4, <1>1, InsertIndexed, InsertSet
    <2>6. /\ Len(t) = n + 1
          /\ \A i \in 1 .. n + 1 :
                t[i] = IF i < k THEN w[i] ELSE IF i = k THEN r ELSE w[i - 1]
      <3> DEFINE z == InsertAt(w, k, r)
      <3>1. w \in Seq(Req) /\ r \in Req /\ k \in 1 .. Len(w) /\ n = Len(w)
        BY <2>4, <1>1
      <3> HIDE DEF w, n
      <3>2. /\ Len(z) = Len(w) + 1
            /\ \A i \in 1 .. Len(w) + 1 :
                  z[i] = IF i < k THEN w[i] ELSE IF i = k THEN r ELSE w[i - 1]
        BY <3>1, InsertIndexed
      <3> QED BY <3>1, <3>2, <2>3
    <2>0. n = Len(w)
      OBVIOUS
    <2> HIDE DEF n, w
    <2>7. \A i \in 1 .. n : i < k => Older(w[i], r)
      <3> SUFFICES ASSUME NEW i \in 1 .. n, i < k PROVE Older(w[i], r)
        OBVIOUS
      <3>1. ~(k <= i)
        BY <2>4, <1>1
      <3> QED BY <3>1, <2>4, <1>2
    <2>8. ASSUME Sorted(w), NEW i \in 1 .. Len(t), NEW j \in 1 .. Len(t), i < j
          PROVE  Older(t[i], t[j])
      <3>1. i \in 1 .. n + 1 /\ j \in 1 .. n + 1
        BY <2>6
      <3>2. \A a, b \in 1 .. n : a < b => Older(w[a], w[b])
        BY <2>8, <2>0
      <3>3. \A a \in 1 .. n : a >= k => Older(r, w[a])
        <4> SUFFICES ASSUME NEW a \in 1 .. n, a >= k PROVE Older(r, w[a])
          OBVIOUS
        <4>1. CASE a = k
          BY <4>1, <2>4
        <4>2. CASE a # k
          <5>1. Older(w[k], w[a])
            BY <4>2, <3>2, <2>4, <1>1
          <5> QED BY <5>1, <2>4, <1>0, <1>1, OlderIsOrder
        <4> QED BY <4>1, <4>2
      <3>4. CASE j < k
        <4>1. i \in 1 .. n /\ j \in 1 .. n /\ i < k
          BY <3>1, <3>4, <2>4, <2>8, <1>1
        <4> QED BY <4>1, <3>1, <3>2, <3>4, <2>6, <2>8
      <3>5. CASE j = k
        <4>1. i \in 1 .. n /\ i < k
          BY <3>1, <3>5, <2>4, <2>8, <1>1
        <4>2. t[i] = w[i] /\ t[j] = r
          BY <4>1, <3>1, <3>5, <2>4, <2>6
        <4> QED BY <4>1, <4>2, <2>7
      <3>6. CASE j > k
        <4>1. j - 1 \in 1 .. n /\ t[j] = w[j - 1] /\ j - 1 >= k
          <5>1. j - 1 \in 1 .. n /\ ~(j < k) /\ j # k /\ j - 1 >= k
            BY <3>1, <3>6, <2>4, <1>1
          <5> QED BY <5>1, <3>1, <2>6
        <4>2. CASE i < k
          <5>1. i \in 1 .. n /\ i < j - 1
            BY <3>1, <3>6, <4>2, <2>4, <1>1
          <5>2. t[i] = w[i]
            BY <3>1, <4>2, <2>6
          <5> QED BY <4>1, <5>1, <5>2, <3>2
        <4>3. CASE i = k
          <5>1. t[i] = r
            BY <3>1, <4>3, <2>4, <2>6
          <5> QED BY <4>1, <5>1, <3>3
        <4>4. CASE i > k
          <5>1. i - 1 \in 1 .. n /\ ~(i < k) /\ i # k /\ i - 1 < j - 1
            BY <3>1, <4>4, <2>4, <2>8, <1>1
          <5>2. t[i] = w[i - 1]
            BY <5>1, <3>1, <2>6
          <5> QED BY <4>1, <5>1, <5>2, <3>2
        <4> QED BY <4>2, <4>3, <4>4, <2>4, <3>1, <1>1
      <3> QED BY <3>4, <3>5, <3>6, <2>4, <3>1, <1>1
    <2>9. Sorted(w) => Sorted(t)
      BY <2>8
    <2> QED BY <2>5, <2>9 DEF t, w
  <1> QED BY <1>3, <1>4

\* The newest of several active requests yields.
LEMMA PreemptKeeps ==
    ASSUME SchedulerOK, NEW m, NEW r \in Live, NEW o \in Live \ {r},
           \A x \in Live \ {r} : Older(x, r), Preempt(m, r)
    PROVE  SchedulerOK' /\ LegalStep /\ YieldStep /\ Only(r)
  <1> DEFINE p == req[r]
             q == Preempted(p)
  <1>0. RequestsOK /\ ArrivalsOK /\ ContainersOK /\ QueueOK /\ EpochsOK
    BY DEF SchedulerOK
  <1>1. /\ r \in Created /\ r \in Req /\ p.state \in {"PREFILLING", "DECODING"}
        /\ p.queued /\ IsRequest(p) /\ Live \subseteq Created
    BY <1>0, LiveFacts DEF Live
  <1>2. /\ req' = [req EXCEPT ![r] = q]
        /\ active' = Without(active, r) /\ order' = Without(order, r)
        /\ waiting' = Requeued(r) /\ epoch' = epoch
    BY <1>0, <1>1 DEF Preempt, RequestsOK
  <1>a. epoch \in Nat
    BY <1>0 DEF EpochsOK
  <1> HIDE DEF p
  <1>b. /\ IsRequest(q) /\ q.state = "WAITING" /\ q.queued /\ q.arrival = p.arrival
        /\ q.out = p.out /\ q.recomputing = TRUE /\ q.yields = p.yields + 1
        /\ q.epoch = epoch
    <2>1. p = [f \in Fields |-> p[f]]
      BY <1>1 DEF IsRequest
    <2>2. q = [f \in Fields |-> q[f]]
      BY <2>1 DEF Preempted
    <2>3. /\ q.state = "WAITING" /\ q.queued = p.queued /\ q.arrival = p.arrival
          /\ q.out = p.out /\ q.recomputing = TRUE /\ q.yields = p.yields + 1
          /\ q.epoch = epoch /\ q.kind = p.kind /\ q.prefilled = 0
      BY <2>1 DEF Preempted, Fields
    <2> HIDE DEF q
    <2>4. q.queued
      BY <2>3, <1>1
    <2>5. q.yields \in Nat /\ IsSeq(q.out) /\ q.queued \in BOOLEAN /\ q.kind \in Kind
      BY <2>3, <1>1 DEF IsRequest
    <2>6. IsRequest(q)
      BY <2>2, <2>3, <2>5, <1>a DEF IsRequest, State, Terminal
    <2> QED BY <2>3, <2>4, <2>6
  <1> HIDE DEF q
  <1>3. RequestsOK' /\ Created' = Created /\ req'[r] = q /\ Only(r)
    BY <1>0, <1>1, <1>2, <1>b, UpdateOne
  <1>4. /\ ArrivalsOK'
        /\ \A x, y \in Created : Older(x, y)' <=> Older(x, y)
    BY <1>0, <1>1, <1>3, <1>b, UpdateArrivals DEF p
  <1>5. LegalStep
    <2>1. \A x \in Created : IsPrefix(req[x].out, req[x].out)
      BY <1>0, LiveFacts, PrefixReflexive DEF IsRequest
    <2>2. q.state \in Allowed[p.state] /\ p.state \notin Terminal
      BY <1>1, <1>b DEF Allowed, Terminal
    <2> QED BY <2>1, <2>2, <1>1, <1>3, <1>b DEF LegalStep, Only, p
  <1>6. Live' = Live \ {r}
    BY <1>1, <1>3, <1>b DEF Live, Created, Only
  <1>7. ContainersOK'
    <2>1. /\ active' \in Seq(Req) /\ IsInjective(active') /\ ToSet(active') = Live'
          /\ order' \in Seq(Req) /\ IsInjective(order') /\ ToSet(order') = Live'
      BY <1>0, <1>2, <1>6, WithoutProperties DEF ContainersOK
    <2>2. {x \in Created : req'[x].queued /\ req'[x].state = "WAITING"}
            = {x \in Created : req[x].queued /\ req[x].state = "WAITING"} \cup {r}
      BY <1>1, <1>3, <1>b DEF Only, Created
    <2>3. /\ waiting' \in Seq(Req) /\ IsInjective(waiting')
          /\ ToSet(waiting') = ToSet(waiting) \cup {r}
      BY <1>2, RequeuedSorted
    <2> QED BY <2>1, <2>2, <2>3, <1>0, <1>3 DEF ContainersOK
  <1>8. QueueOK'
    <2>1. ToSet(active) = Live /\ ToSet(active') = Live' /\ ToSet(waiting) \subseteq Created
          /\ ToSet(waiting') = ToSet(waiting) \cup {r} /\ waiting' \in Seq(Req)
      BY <1>0, <1>2, <1>7, RequeuedSorted DEF ContainersOK
    <2>2. \A i \in 1 .. Len(waiting') : waiting'[i] \in Created
      BY <2>1, <1>1, ToSetIndexed
    <2>3. \A x \in Created : req'[x].queued = req[x].queued
      BY <1>1, <1>3, <1>b DEF Only, Created, p, IsRequest
    <2> SUFFICES ASSUME InOrder
                 PROVE  /\ ArrivalOrderKept'
                        /\ \A x, y \in Created : ~req'[x].queued /\ y # x => Older(y, x)'
      BY <1>3 DEF QueueOK
    <2>4. \A a \in ToSet(active'), w \in ToSet(waiting') : Older(a, w)'
      <3>1. \A a \in Live, w \in ToSet(waiting) : Older(a, w)
        BY <1>0, <2>1 DEF QueueOK, ArrivalOrderKept
      <3> QED BY <3>1, <2>1, <1>1, <1>4, <1>6
    <2>5. (\A i, j \in 1 .. Len(waiting) : i < j => Older(waiting[i], waiting[j]))'
      <3>1. \A i, j \in 1 .. Len(waiting) : i < j => Older(waiting[i], waiting[j])
        BY <1>0 DEF QueueOK, ArrivalOrderKept
      <3>2. \A i, j \in 1 .. Len(waiting') : i < j => Older(waiting'[i], waiting'[j])
        BY <3>1, <1>2, RequeuedSorted
      <3> QED BY <3>2, <2>2, <1>4
    <2> QED BY <2>3, <2>4, <2>5, <1>0, <1>4 DEF QueueOK, ArrivalOrderKept
  <1>9. EpochsOK'
    <2>1. \A x \in Created : req[x].epoch \in Nat /\ req[x].yields \in Nat
      BY <1>0, LiveFacts DEF IsRequest
    <2>2. \A x \in Created \ {r} : req'[x] = req[x]
      BY <1>3 DEF Only, Created
    <2>3. \A x \in Created : req'[x].epoch <= epoch'
      BY <2>2, <1>0, <1>2, <1>3, <1>a, <1>b DEF EpochsOK
    <2>4. \A x \in Created : req'[x].state = "WAITING" /\ req'[x].yields > 0
                               => req'[x].recomputing
      BY <2>2, <1>0, <1>3, <1>b DEF EpochsOK
    <2>5. ASSUME InOrder
          PROVE  YieldsBounded'
      <3>1. p.yields > 0 => p.epoch < epoch
        <4>1. ~Older(r, o)
          BY <1>0, <1>1, OlderIsOrder
        <4> QED BY <4>1, <2>5, <1>0 DEF EpochsOK, p
      <3>2. p.yields > 0 => p.yields <= p.epoch + 1
        BY <2>5, <1>0, <1>1 DEF EpochsOK, YieldsBounded, p
      <3>3. p.yields \in Nat /\ p.epoch \in Nat
        BY <2>1, <1>1 DEF p
      <3>4. q.yields <= q.epoch + 1
        BY <3>1, <3>2, <3>3, <1>a, <1>b
      <3>5. \A x \in Created \ {r} : req[x].yields > 0 => req[x].yields <= req[x].epoch + 1
        BY <2>5, <1>0 DEF EpochsOK, YieldsBounded
      <3> QED BY <3>4, <3>5, <2>2, <1>3 DEF YieldsBounded
    <2>6. ASSUME InOrder, NEW x \in Live', req'[x].yields > 0
          PROVE  req'[x].epoch < epoch' \/ \A y \in Live' \ {x} : Older(x, y)'
      <3>1. x \in Live /\ x # r /\ req'[x] = req[x] /\ Live' \subseteq Live
        BY <2>2, <1>1, <1>6
      <3> QED BY <3>1, <2>6, <1>0, <1>1, <1>2, <1>4 DEF EpochsOK
    <2> QED BY <2>3, <2>4, <2>5, <2>6, <1>2, <1>3, <1>a DEF EpochsOK
  <1>10. YieldStep
    <2>1. ToSet(active) = Live /\ ToSet(active') = Live' /\ Live \subseteq Created
      BY <1>0, <1>7, <1>1 DEF ContainersOK
    <2>2. o \in ToSet(active') /\ Older(o, r)
      BY <2>1, <1>6
    <2>3. \A x \in Live \ {r} : req'[x].state # "WAITING"
      BY <1>3 DEF Only, Live, Created
    <2> QED BY <2>1, <2>2, <2>3 DEF YieldStep
  <1> QED BY <1>3, <1>4, <1>5, <1>7, <1>8, <1>9, <1>10 DEF SchedulerOK

-----------------------------------------------------------------------------
(* The queue shrinks. *)

\* t lists elements of s in the order of s.
InOrderOf(t, s) ==
    \A i, j \in 1 .. Len(t) :
        i < j => \E a, b \in 1 .. Len(s) : a < b /\ s[a] = t[i] /\ s[b] = t[j]

\* waiting' is waiting without r.
LeavesQueue(r) ==
    /\ waiting' \in Seq(Req) /\ IsInjective(waiting')
    /\ ToSet(waiting') = ToSet(waiting) \ {r}
    /\ InOrderOf(waiting', waiting)

LEMMA HeadLeaves ==
    ASSUME ContainersOK, waiting # << >>, waiting' = Tail(waiting)
    PROVE  /\ LeavesQueue(Head(waiting)) /\ Head(waiting) \in ToSet(waiting)
           /\ (\A i, j \in 1 .. Len(waiting) : i < j => Older(waiting[i], waiting[j]))
                 => \A x \in ToSet(waiting') : Older(Head(waiting), x)
  <1> DEFINE h == Head(waiting)
             t == Tail(waiting)
             w == waiting
  <1>1. w \in Seq(Req) /\ w # << >> /\ IsInjective(w)
    BY DEF ContainersOK
  <1>2. /\ t \in Seq(Req) /\ IsInjective(t)
        /\ h \in ToSet(w) /\ ToSet(w) = ToSet(t) \cup {h} /\ h \notin ToSet(t)
    <2> HIDE DEF w
    <2> QED BY <1>1, TailSet DEF h, t, w
  <1>3. /\ Len(t) = Len(w) - 1 /\ Len(w) \in Nat /\ h = w[1]
        /\ \A i \in 1 .. Len(t) : t[i] = w[i + 1]
    BY <1>1, HeadTailProperties
  <1> HIDE DEF h, t, w
  <1>4. \A i \in 1 .. Len(t) : i + 1 \in 1 .. Len(w) /\ 1 \in 1 .. Len(w) /\ 1 < i + 1
    BY <1>3
  <1>5. InOrderOf(t, w)
    <2> SUFFICES ASSUME NEW i \in 1 .. Len(t), NEW j \in 1 .. Len(t), i < j
                 PROVE  \E a, b \in 1 .. Len(w) : a < b /\ w[a] = t[i] /\ w[b] = t[j]
      BY DEF InOrderOf
    <2>1. i + 1 < j + 1
      BY <1>3
    <2> QED BY <2>1, <1>3, <1>4
  <1>6. ASSUME \A i, j \in 1 .. Len(w) : i < j => Older(w[i], w[j]), NEW x \in ToSet(t)
        PROVE  Older(h, x)
    <2>1. PICK i \in 1 .. Len(t) : t[i] = x
      BY <1>2, ToSetIndexed
    <2> QED BY <2>1, <1>3, <1>4, <1>6
  <1>7. waiting' = t /\ waiting = w /\ Head(waiting) = h
    BY DEF t, w, h
  <1> QED BY <1>2, <1>5, <1>6, <1>7 DEF LeavesQueue

\* Whatever leaves it, the queue stays sorted.
LEMMA LeavesSorted ==
    ASSUME NEW r, LeavesQueue(r),
           \A i, j \in 1 .. Len(waiting) : i < j => Older(waiting[i], waiting[j])
    PROVE  \A i, j \in 1 .. Len(waiting') : i < j => Older(waiting'[i], waiting'[j])
  BY DEF LeavesQueue, InOrderOf

\* A waiting request ends: it is cancelled, or can never fit.
LEMMA DequeueKeeps ==
    ASSUME SchedulerOK, NEW r \in ToSet(waiting), NEW q, Carried(req[r], q),
           q.state \in {"CANCELLED", "REJECTED"},
           req' = [req EXCEPT ![r] = q], LeavesQueue(r),
           UNCHANGED <<active, order, epoch>>
    PROVE  SchedulerOK' /\ LegalStep /\ YieldStep /\ Only(r) /\ req'[r] = q
  <1>0. RequestsOK /\ ArrivalsOK /\ ContainersOK /\ QueueOK /\ EpochsOK
    BY DEF SchedulerOK
  <1>1. r \in Created /\ r \in Req /\ req[r].state = "WAITING" /\ req[r].queued
        /\ r \notin Live /\ Live \subseteq Created /\ ToSet(waiting) \subseteq Created
        /\ ToSet(active) = Live
    BY <1>0 DEF ContainersOK, Created, Live
  <1>3. RequestsOK' /\ Created' = Created /\ req'[r] = q /\ Only(r)
    BY <1>0, <1>1, UpdateOne DEF Carried
  <1>4. /\ ArrivalsOK'
        /\ \A x, y \in Created : Older(x, y)' <=> Older(x, y)
    BY <1>0, <1>1, <1>3, UpdateArrivals DEF Carried
  <1>5. LegalStep
    <2>1. q.state \in Allowed[req[r].state] /\ req[r].state \notin Terminal
      BY <1>1 DEF Allowed, Terminal
    <2> QED BY <2>1, <1>0, <1>1, <1>3, LegalWhenCarried
  <1>6. Live' = Live
    BY <1>1, <1>3 DEF Live, Created, Only
  <1>7. ContainersOK'
    <2>1. {x \in Created : req'[x].queued /\ req'[x].state = "WAITING"}
            = {x \in Created : req[x].queued /\ req[x].state = "WAITING"} \ {r}
      BY <1>1, <1>3 DEF Only, Created
    <2> QED BY <2>1, <1>0, <1>3, <1>6 DEF ContainersOK, LeavesQueue
  <1>8. QueueOK'
    <2>2. \A i \in 1 .. Len(waiting') : waiting'[i] \in Created
      BY <1>1, ToSetIndexed DEF LeavesQueue
    <2>3. \A x \in Created : req'[x].queued = req[x].queued
      BY <1>3 DEF Only, Carried, Created
    <2> SUFFICES ASSUME InOrder
                 PROVE  /\ ArrivalOrderKept'
                        /\ \A x, y \in Created : ~req'[x].queued /\ y # x => Older(y, x)'
      BY <1>3 DEF QueueOK
    <2>4. \A a \in ToSet(active'), w \in ToSet(waiting') : Older(a, w)'
      BY <1>0, <1>1, <1>4 DEF QueueOK, ArrivalOrderKept, LeavesQueue
    <2>5. (\A i, j \in 1 .. Len(waiting) : i < j => Older(waiting[i], waiting[j]))'
      <3>1. \A i, j \in 1 .. Len(waiting) : i < j => Older(waiting[i], waiting[j])
        BY <1>0 DEF QueueOK, ArrivalOrderKept
      <3>2. \A i, j \in 1 .. Len(waiting') : i < j => Older(waiting'[i], waiting'[j])
        BY <3>1, LeavesSorted
      <3> QED BY <3>2, <2>2, <1>4
    <2> QED BY <2>3, <2>4, <2>5, <1>0, <1>4 DEF QueueOK, ArrivalOrderKept
  <1>9. EpochsOK'
    <2>2. \A x \in Created : req'[x].epoch = req[x].epoch /\ req'[x].yields = req[x].yields
      BY <1>3 DEF Only, Carried, Created
    <2>3. \A x \in Created : req'[x].state = "WAITING" => req'[x] = req[x]
      BY <1>3 DEF Only, Created
    <2>4. YieldsBounded => YieldsBounded'
      BY <2>2, <1>3 DEF YieldsBounded
    <2> QED BY <2>2, <2>3, <2>4, <1>0, <1>1, <1>3, <1>4, <1>6 DEF EpochsOK
  <1>10. YieldStep
    BY <1>1, <1>3, <1>0 DEF YieldStep, Only, Live, Created
  <1> QED BY <1>3, <1>4, <1>5, <1>7, <1>8, <1>9, <1>10 DEF SchedulerOK

-----------------------------------------------------------------------------
(* Arrival and admission. *)

\* scheduler.submit: r joins the queue or is turned away.
LEMMA SubmitKeeps ==
    ASSUME SchedulerOK, NEW r \in Created, ~req[r].queued, Submit(r)
    PROVE  SchedulerOK' /\ LegalStep /\ YieldStep /\ Only(r)
  <1> DEFINE p == req[r]
             q == req'[r]
  <1>0. RequestsOK /\ ArrivalsOK /\ ContainersOK /\ QueueOK /\ EpochsOK
    BY DEF SchedulerOK
  <1>1. /\ r \in Req /\ p.state = "WAITING" /\ IsRequest(p) /\ r \notin Live
        /\ Live \subseteq Created /\ ToSet(waiting) \subseteq Created /\ r \notin ToSet(waiting)
        /\ ToSet(active) = Live
    BY <1>0, LiveFacts DEF RequestsOK, Live, ContainersOK
  <1>2. PICK u : /\ req' = [req EXCEPT ![r] = u]
                 /\ \/ /\ u = [Ended(p, "REJECTED", "QUEUE_FULL") EXCEPT !.queued = TRUE]
                       /\ waiting' = waiting
                    \/ u = [p EXCEPT !.queued = TRUE] /\ waiting' = Append(waiting, r)
    <2>1. req = [x \in Req |-> req[x]]
      BY <1>0 DEF RequestsOK
    <2>2. CASE Len(waiting) >= MaxWaiting
      BY <2>1, <2>2, <1>1 DEF Submit
    <2>3. CASE ~(Len(waiting) >= MaxWaiting)
      <3>1. req' = [req EXCEPT ![r].queued = TRUE] /\ waiting' = Append(waiting, r)
        BY <2>3 DEF Submit
      <3>2. req' = [req EXCEPT ![r] = [p EXCEPT !.queued = TRUE]]
        BY <3>1, <2>1, <1>1
      <3> QED BY <3>1, <3>2
    <2> QED BY <2>2, <2>3
  <1>3. active' = active /\ order' = order /\ epoch' = epoch
    BY DEF Submit
  <1> HIDE DEF p
  <1>4. /\ u = [f \in Fields |-> u[f]]
        /\ u.queued = TRUE /\ u.arrival = p.arrival /\ u.out = p.out
        /\ u.yields = p.yields /\ u.epoch = p.epoch /\ u.recomputing = p.recomputing
        /\ u.kind = p.kind /\ u.prefilled = p.prefilled
        /\ \/ u.state = "REJECTED" /\ waiting' = waiting
           \/ u.state = "WAITING" /\ waiting' = Append(waiting, r)
    <2>1. p = [f \in Fields |-> p[f]]
      BY <1>1 DEF IsRequest
    <2>2. CASE u = [Ended(p, "REJECTED", "QUEUE_FULL") EXCEPT !.queued = TRUE]
               /\ waiting' = waiting
      BY <2>1, <2>2 DEF Ended, Fields
    <2>3. CASE u = [p EXCEPT !.queued = TRUE] /\ waiting' = Append(waiting, r)
      BY <2>1, <2>3, <1>1 DEF Fields
    <2> QED BY <2>2, <2>3, <1>2
  <1>5. IsRequest(u)
    <2>1. u.queued \in BOOLEAN
      BY <1>4
    <2> QED BY <2>1, <1>1, <1>4 DEF IsRequest, State, Terminal
  <1>6. RequestsOK' /\ Created' = Created /\ req'[r] = u /\ Only(r)
    <2>1. u.queued
      BY <1>4
    <2> QED BY <2>1, <1>0, <1>2, <1>5, UpdateOne
  <1>7. /\ ArrivalsOK'
        /\ \A x, y \in Created : Older(x, y)' <=> Older(x, y)
    BY <1>0, <1>4, <1>6, UpdateArrivals DEF p
  <1>8. LegalStep
    <2>1. \A x \in Created : IsPrefix(req[x].out, req[x].out)
      BY <1>0, LiveFacts, PrefixReflexive DEF IsRequest
    <2>2. (u.state = p.state \/ u.state \in Allowed[p.state]) /\ p.state \notin Terminal
      BY <1>1, <1>4 DEF Allowed, Terminal
    <2> QED BY <2>1, <2>2, <1>1, <1>4, <1>6 DEF LegalStep, Only, p
  <1>9. Live' = Live
    BY <1>1, <1>4, <1>6 DEF Live, Created, Only
  <1>10. /\ waiting' \in Seq(Req) /\ IsInjective(waiting')
         /\ ToSet(waiting') \subseteq Created
         /\ ToSet(waiting') = IF u.state = "WAITING" THEN ToSet(waiting) \cup {r}
                              ELSE ToSet(waiting)
    <2>1. waiting \in Seq(Req) /\ IsInjective(waiting)
      BY <1>0 DEF ContainersOK
    <2>2. CASE u.state = "REJECTED" /\ waiting' = waiting
      BY <2>1, <2>2, <1>1
    <2>3. CASE u.state = "WAITING" /\ waiting' = Append(waiting, r)
      BY <2>1, <2>3, <1>1, AppendSet
    <2> QED BY <2>2, <2>3, <1>4
  <1>11. ContainersOK'
    <2>1. u.queued
      BY <1>4
    <2>2. {x \in Created : req'[x].queued /\ req'[x].state = "WAITING"}
             = IF u.state = "WAITING" THEN ToSet(waiting) \cup {r} ELSE ToSet(waiting)
      BY <2>1, <1>0, <1>6, <1>1 DEF Only, ContainersOK, Created
    <2> QED BY <2>2, <1>0, <1>3, <1>6, <1>9, <1>10 DEF ContainersOK
  <1>12. QueueOK'
    <2> SUFFICES ASSUME InOrder
                 PROVE  /\ ArrivalOrderKept'
                        /\ \A x, y \in Created : ~req'[x].queued /\ y # x => Older(y, x)'
      BY <1>6 DEF QueueOK
    <2>1. \A y \in Created \ {r} : Older(y, r)
      BY <1>0 DEF QueueOK
    <2>2. \A a \in Live, w \in ToSet(waiting) : Older(a, w)
      BY <1>0, <1>1 DEF QueueOK, ArrivalOrderKept
    <2>3. \A a \in ToSet(active'), w \in ToSet(waiting') : Older(a, w)'
      BY <2>1, <2>2, <1>1, <1>3, <1>7, <1>10
    <2>4. \A i, j \in 1 .. Len(waiting) : i < j => Older(waiting[i], waiting[j])
      BY <1>0 DEF QueueOK, ArrivalOrderKept
    <2>5. \A i \in 1 .. Len(waiting') : waiting'[i] \in Created
      BY <1>10, ToSetIndexed
    <2>6. \A i, j \in 1 .. Len(waiting') : i < j => Older(waiting'[i], waiting'[j])
      <3>1. CASE waiting' = waiting
        BY <3>1, <2>4
      <3>2. CASE waiting' = Append(waiting, r)
        <4> DEFINE n == Len(waiting)
        <4>1. /\ Len(waiting') = n + 1 /\ n \in Nat /\ waiting'[n + 1] = r
              /\ \A i \in 1 .. n : waiting'[i] = waiting[i] /\ waiting[i] \in Created \ {r}
          <5>1. waiting \in Seq(Req)
            BY <1>0 DEF ContainersOK
          <5>2. \A i \in 1 .. n : waiting[i] \in ToSet(waiting)
            BY <5>1, ToSetIndexed
          <5> QED BY <5>1, <5>2, <3>2, <1>1
        <4> SUFFICES ASSUME NEW i \in 1 .. n + 1, NEW j \in 1 .. n + 1, i < j
                     PROVE  Older(waiting'[i], waiting'[j])
          BY <4>1
        <4>2. i \in 1 .. n /\ (j \in 1 .. n \/ j = n + 1)
          BY <4>1
        <4> HIDE DEF n
        <4> QED BY <4>1, <4>2, <2>1, <2>4 DEF n
      <3> QED BY <3>1, <3>2, <1>4
    <2>7. (\A i, j \in 1 .. Len(waiting) : i < j => Older(waiting[i], waiting[j]))'
      BY <2>5, <2>6, <1>7
    <2>8. \A x, y \in Created : ~req'[x].queued /\ y # x => Older(y, x)'
      <3>1. u.queued
        BY <1>4
      <3> QED BY <3>1, <1>0, <1>6, <1>7 DEF QueueOK, Only, Created
    <2> QED BY <2>3, <2>7, <2>8 DEF ArrivalOrderKept
  <1>13. EpochsOK'
    <2>1. \A x \in Created : /\ req'[x].epoch = req[x].epoch /\ req'[x].yields = req[x].yields
                             /\ req'[x].recomputing = req[x].recomputing
      BY <1>4, <1>6 DEF Only, Created, p
    <2>2. \A x \in Created : req'[x].state = "WAITING" => req[x].state = "WAITING"
      BY <1>1, <1>6 DEF Only, Created, p
    <2>3. \A x \in Created : req'[x].state = "WAITING" /\ req'[x].yields > 0
                               => req'[x].recomputing
      BY <2>1, <2>2, <1>0 DEF EpochsOK
    <2>4. YieldsBounded => YieldsBounded'
      BY <2>1, <1>6 DEF YieldsBounded
    <2>5. \A x \in Created : req'[x].epoch <= epoch'
      BY <2>1, <1>0, <1>3 DEF EpochsOK
    <2>6. ASSUME InOrder, NEW x \in Live', req'[x].yields > 0
          PROVE  req'[x].epoch < epoch' \/ \A y \in Live' \ {x} : Older(x, y)'
      BY <2>6, <2>1, <1>0, <1>1, <1>3, <1>7, <1>9 DEF EpochsOK
    <2> QED BY <2>3, <2>4, <2>5, <2>6, <1>0, <1>3, <1>6 DEF EpochsOK
  <1>14. YieldStep
    BY <1>0, <1>1, <1>6 DEF YieldStep, Only, Live, Created
  <1> QED BY <1>6, <1>7, <1>8, <1>11, <1>12, <1>13, <1>14 DEF SchedulerOK

\* A client thread takes the next created_ns.
LEMMA CreateKeeps ==
    ASSUME SchedulerOK, NEW k \in Kind, Create(k)
    PROVE  SchedulerOK' /\ LegalStep /\ YieldStep /\ \A x \in Created : req'[x] = req[x]
  <1> DEFINE n == Cardinality(Created)
             q == [state |-> "WAITING", kind |-> k, arrival |-> n + 1,
                   queued |-> FALSE, out |-> << >>, next |-> NoToken, prefilled |-> 0,
                   cachedNext |-> NoToken, resuming |-> FALSE, recomputing |-> FALSE,
                   yields |-> 0, epoch |-> 0, reason |-> "none"]
  <1>0. RequestsOK /\ ArrivalsOK /\ ContainersOK /\ QueueOK /\ EpochsOK
    BY DEF SchedulerOK
  <1>1. PICK r \in Req \ Created : req' = [req EXCEPT ![r] = q]
    <2>1. (CHOOSE x \in Req \ Created : TRUE) \in Req \ Created
      BY DEF Create, Created
    <2> QED BY <2>1 DEF Create
  <1>2. /\ req' = [req EXCEPT ![r] = q]
        /\ waiting' = waiting /\ active' = active /\ order' = order /\ epoch' = epoch
        /\ InOrder => \A x \in Created : req[x].queued
    BY <1>1 DEF Create
  <1>3. /\ q.state = "WAITING" /\ q.arrival = n + 1 /\ q.queued = FALSE /\ q.yields = 0
        /\ q.epoch = 0 /\ q.kind = k /\ q.prefilled = 0
    OBVIOUS
  <1>4. IsRequest(q)
    <2>1. q = [f \in Fields |-> q[f]]
      BY DEF Fields
    <2>2. q.out = << >> /\ IsSeq(<< >>)
      BY DEF IsSeq
    <2> HIDE DEF q
    <2>3. q.queued \in BOOLEAN
      BY <1>3
    <2> QED BY <2>1, <2>2, <2>3, <1>3 DEF IsRequest, State
  <1>5. n \in Nat /\ Cardinality(Created \cup {r}) = n + 1
    BY <1>1, KVAssumption, FS_Subset, FS_CardinalityType, FS_AddElement DEF Created
  <1> HIDE DEF n, q
  <1>6. /\ req'[r] = q /\ \A x \in Req \ {r} : req'[x] = req[x]
        /\ req' = [x \in Req |-> req'[x]]
    BY <1>0, <1>1, <1>2 DEF RequestsOK
  <1>7. Created' = Created \cup {r} /\ \A x \in Created : req'[x] = req[x]
    BY <1>1, <1>3, <1>6 DEF Created
  <1>8. RequestsOK'
    <2>1. \A x \in Req : req'[x] = NoRequest \/ IsRequest(req'[x])
      BY <1>0, <1>4, <1>6 DEF RequestsOK
    <2>2. \A x \in Created' : ~req'[x].queued => req'[x].state = "WAITING"
      BY <1>0, <1>3, <1>6, <1>7 DEF RequestsOK
    <2> QED BY <2>1, <2>2, <1>6 DEF RequestsOK
  <1>9. \A x \in Created : req[x].arrival \in 1 .. n
    BY <1>0 DEF ArrivalsOK, n
  <1>10. ArrivalsOK'
    <2>1. \A x \in Created' : req'[x].arrival \in 1 .. n + 1
      BY <1>3, <1>5, <1>6, <1>7, <1>9
    <2>2. ASSUME NEW a \in Created', NEW b \in Created', req'[a].arrival = req'[b].arrival
          PROVE  a = b
      <3>1. CASE a = r /\ b = r
        BY <3>1
      <3>2. CASE a = r /\ b # r
        BY <3>2, <2>2, <1>3, <1>5, <1>6, <1>7, <1>9
      <3>3. CASE a # r /\ b = r
        BY <3>3, <2>2, <1>3, <1>5, <1>6, <1>7, <1>9
      <3>4. CASE a # r /\ b # r
        BY <3>4, <2>2, <1>0, <1>7 DEF ArrivalsOK
      <3> QED BY <3>1, <3>2, <3>3, <3>4
    <2> QED BY <2>1, <2>2, <1>5, <1>7 DEF ArrivalsOK
  <1>11. /\ \A x, y \in Created : Older(x, y)' <=> Older(x, y)
         /\ \A x \in Created : Older(x, r)'
    <2>1. \A x, y \in Created : Older(x, y)' <=> Older(x, y)
      BY <1>7 DEF Older
    <2>2. \A x \in Created : Older(x, r)'
      BY <1>3, <1>5, <1>6, <1>7, <1>9 DEF Older
    <2> QED BY <2>1, <2>2
  <1>12. LegalStep
    <2>1. \A x \in Created : IsPrefix(req[x].out, req[x].out)
      BY <1>0, LiveFacts, PrefixReflexive DEF IsRequest
    <2>2. req[r].state = "new" /\ "new" \notin Terminal /\ q.state \in Allowed["new"]
      BY <1>1, <1>3 DEF Created, Allowed, Terminal
    <2> QED BY <2>1, <2>2, <1>6 DEF LegalStep, Created
  <1>13. Live' = Live /\ Live \subseteq Created
    BY <1>3, <1>6, <1>7 DEF Live
  <1>14. ContainersOK'
    <2>1. ~q.queued
      BY <1>3
    <2>2. {x \in Created' : req'[x].queued /\ req'[x].state = "WAITING"}
             = {x \in Created : req[x].queued /\ req[x].state = "WAITING"}
      BY <2>1, <1>1, <1>6, <1>7
    <2> QED BY <2>2, <1>0, <1>2, <1>13 DEF ContainersOK
  <1>15. QueueOK'
    <2> SUFFICES ASSUME InOrder
                 PROVE  /\ ArrivalOrderKept'
                        /\ \A x, y \in Created' : ~req'[x].queued /\ y # x => Older(y, x)'
      BY DEF QueueOK
    <2>1. ToSet(active) \subseteq Created /\ ToSet(waiting) \subseteq Created
      BY <1>0, <1>13 DEF ContainersOK
    <2>2. \A i \in 1 .. Len(waiting) : waiting[i] \in Created
      BY <2>1, <1>0, ToSetIndexed DEF ContainersOK
    <2>3. ArrivalOrderKept'
      BY <2>1, <2>2, <1>0, <1>2, <1>11 DEF QueueOK, ArrivalOrderKept
    <2>4. \A x \in Created : req'[x].queued
      BY <1>2, <1>7
    <2> QED BY <2>3, <2>4, <1>7, <1>11
  <1>16. EpochsOK'
    <2>1. epoch \in Nat
      BY <1>0 DEF EpochsOK
    <2>2. \A x \in Created' : req'[x].epoch <= epoch'
      BY <2>1, <1>0, <1>2, <1>3, <1>6, <1>7 DEF EpochsOK
    <2>3. \A x \in Created' : req'[x].state = "WAITING" /\ req'[x].yields > 0
                                => req'[x].recomputing
      BY <1>0, <1>3, <1>6, <1>7 DEF EpochsOK
    <2>4. YieldsBounded => YieldsBounded'
      BY <1>3, <1>6, <1>7 DEF YieldsBounded
    <2>5. ASSUME InOrder, NEW x \in Live', req'[x].yields > 0
          PROVE  req'[x].epoch < epoch' \/ \A y \in Live' \ {x} : Older(x, y)'
      BY <2>5, <1>0, <1>2, <1>7, <1>11, <1>13 DEF EpochsOK
    <2> QED BY <2>1, <2>2, <2>3, <2>4, <2>5, <1>0, <1>2 DEF EpochsOK
  <1>17. YieldStep
    BY <1>0, <1>7, <1>13 DEF YieldStep, ContainersOK, Live
  <1> QED BY <1>7, <1>8, <1>10, <1>12, <1>14, <1>15, <1>16, <1>17 DEF SchedulerOK

\* The head of the queue is admitted.
LEMMA EnterKeeps ==
    ASSUME SchedulerOK, waiting # << >>, ~Held(req[Head(waiting)]),
           NEW m, NEW count \in Nat, NEW next, Enter(Head(waiting), m, count, next)
    PROVE  /\ SchedulerOK' /\ LegalStep /\ YieldStep /\ Only(Head(waiting))
           /\ req'[Head(waiting)].state = "PREFILLING"
           /\ Head(waiting) \in Req /\ req[Head(waiting)].state = "WAITING"
  <1> DEFINE r == Head(waiting)
             p == req[r]
             q == [p EXCEPT !.state = "PREFILLING", !.prefilled = count,
                            !.cachedNext = next]
  <1>0. RequestsOK /\ ArrivalsOK /\ ContainersOK /\ QueueOK /\ EpochsOK
    BY DEF SchedulerOK
  <1>1. /\ LeavesQueue(r) /\ r \in ToSet(waiting)
        /\ (\A i, j \in 1 .. Len(waiting) : i < j => Older(waiting[i], waiting[j]))
              => \A x \in ToSet(waiting') : Older(r, x)
    <2>1. waiting' = Tail(waiting)
      BY DEF Enter
    <2> QED BY <2>1, <1>0, HeadLeaves
  <1>2. /\ r \in Created /\ r \in Req /\ p.state = "WAITING" /\ p.queued /\ r \notin Live
        /\ Live \subseteq Created /\ ToSet(waiting) \subseteq Created
        /\ ToSet(active) = Live /\ IsRequest(p)
    BY <1>0, <1>1, LiveFacts DEF ContainersOK, Created, Live
  <1>3. /\ req' = [req EXCEPT ![r] = q]
        /\ active' = Append(active, r) /\ order' = Append(order, r) /\ epoch' = epoch
    BY <1>0, <1>2 DEF Enter, RequestsOK
  <1> HIDE DEF r, p
  <1>4. /\ Carried(p, q) /\ q.state = "PREFILLING"
    <2>1. p = [f \in Fields |-> p[f]]
      BY <1>2 DEF IsRequest
    <2>2. /\ q = [f \in Fields |-> q[f]]
          /\ q.state = "PREFILLING" /\ q.queued = p.queued /\ q.arrival = p.arrival
          /\ q.out = p.out /\ q.yields = p.yields /\ q.epoch = p.epoch
          /\ q.kind = p.kind /\ q.prefilled = count
      BY <2>1 DEF Fields
    <2> HIDE DEF q
    <2>3. q.queued \in BOOLEAN /\ IsPrefix(p.out, q.out)
      BY <2>2, <1>2, PrefixReflexive DEF IsRequest
    <2> QED BY <2>2, <2>3, <1>2 DEF IsRequest, Carried, State, Terminal
  <1> HIDE DEF q
  <1>5. RequestsOK' /\ Created' = Created /\ req'[r] = q /\ Only(r)
    <2>1. q.queued
      BY <1>2, <1>4 DEF Carried
    <2> QED BY <2>1, <1>0, <1>2, <1>3, <1>4, UpdateOne DEF Carried
  <1>6. /\ ArrivalsOK'
        /\ \A x, y \in Created : Older(x, y)' <=> Older(x, y)
    BY <1>0, <1>2, <1>4, <1>5, UpdateArrivals DEF Carried, p
  <1>7. LegalStep
    <2>1. q.state \in Allowed[p.state] /\ p.state \notin Terminal
      BY <1>2, <1>4 DEF Allowed, Terminal
    <2> QED BY <2>1, <1>0, <1>2, <1>4, <1>5, LegalWhenCarried DEF p
  <1>8. Live' = Live \cup {r}
    BY <1>2, <1>4, <1>5 DEF Live, Created, Only
  <1>9. ContainersOK'
    <2>1. /\ active' \in Seq(Req) /\ IsInjective(active') /\ ToSet(active') = Live'
          /\ order' \in Seq(Req) /\ IsInjective(order') /\ ToSet(order') = Live'
      BY <1>0, <1>2, <1>3, <1>8, AppendSet DEF ContainersOK
    <2>2. {x \in Created : req'[x].queued /\ req'[x].state = "WAITING"}
            = {x \in Created : req[x].queued /\ req[x].state = "WAITING"} \ {r}
      BY <1>2, <1>4, <1>5 DEF Only, Created
    <2> QED BY <2>1, <2>2, <1>0, <1>1, <1>5 DEF ContainersOK, LeavesQueue
  <1>10. ASSUME InOrder
         PROVE  /\ \A a \in Live, w \in ToSet(waiting) : Older(a, w)
                /\ \A i, j \in 1 .. Len(waiting) : i < j => Older(waiting[i], waiting[j])
    BY <1>10, <1>0, <1>2 DEF QueueOK, ArrivalOrderKept
  <1>11. QueueOK'
    <2>2. \A i \in 1 .. Len(waiting') : waiting'[i] \in Created
      BY <1>1, <1>2, ToSetIndexed DEF LeavesQueue
    <2>3. \A x \in Created : req'[x].queued = req[x].queued
      BY <1>4, <1>5 DEF Only, Carried, Created, p
    <2> SUFFICES ASSUME InOrder
                 PROVE  /\ ArrivalOrderKept'
                        /\ \A x, y \in Created : ~req'[x].queued /\ y # x => Older(y, x)'
      BY <1>5 DEF QueueOK
    <2>4. \A a \in ToSet(active'), w \in ToSet(waiting') : Older(a, w)'
      <3>1. ToSet(active') = Live \cup {r} /\ ToSet(waiting') \subseteq ToSet(waiting)
        BY <1>1, <1>8, <1>9 DEF ContainersOK, LeavesQueue
      <3> QED BY <3>1, <1>1, <1>2, <1>6, <1>10
    <2>5. (\A i, j \in 1 .. Len(waiting) : i < j => Older(waiting[i], waiting[j]))'
      <3>1. \A i, j \in 1 .. Len(waiting') : i < j => Older(waiting'[i], waiting'[j])
        BY <1>1, <1>10, LeavesSorted
      <3> QED BY <3>1, <2>2, <1>6
    <2> QED BY <2>3, <2>4, <2>5, <1>0, <1>6 DEF QueueOK, ArrivalOrderKept
  <1>12. EpochsOK'
    <2>1. \A x \in Created : req'[x].epoch = req[x].epoch /\ req'[x].yields = req[x].yields
      BY <1>4, <1>5 DEF Only, Carried, Created, p
    <2>2. \A x \in Created : req'[x].state = "WAITING" => req'[x] = req[x]
      BY <1>4, <1>5 DEF Only, Created
    <2>3. YieldsBounded => YieldsBounded'
      BY <2>1, <1>5 DEF YieldsBounded
    <2>4. ASSUME InOrder, NEW x \in Live', req'[x].yields > 0
          PROVE  req'[x].epoch < epoch' \/ \A y \in Live' \ {x} : Older(x, y)'
      <3>1. CASE x = r
        <4>1. p.recomputing /\ p.yields > 0
          BY <3>1, <2>1, <2>4, <1>0, <1>2 DEF EpochsOK, p
        <4>2. ~(p.epoch >= epoch) \/ active = << >>
          BY <4>1 DEF Held, p, r
        <4>3. CASE active = << >>
          <5>1. Live = {}
            BY <4>3, <1>2 DEF ToSet
          <5> QED BY <5>1, <3>1, <1>8
        <4>4. CASE ~(p.epoch >= epoch)
          <5>1. p.epoch \in Nat /\ epoch \in Nat
            BY <1>0, <1>2 DEF EpochsOK, IsRequest
          <5> QED BY <5>1, <4>4, <3>1, <2>1, <1>2, <1>3 DEF p
        <4> QED BY <4>2, <4>3, <4>4
      <3>2. CASE x # r
        <4>1. x \in Live /\ x \in Created /\ req[x].yields > 0
          BY <3>2, <2>1, <2>4, <1>2, <1>8
        <4>2. req[x].epoch < epoch \/ \A y \in Live \ {x} : Older(x, y)
          BY <4>1, <2>4, <1>0 DEF EpochsOK
        <4>3. Older(x, r)
          BY <4>1, <2>4, <1>1, <1>10
        <4> QED BY <4>1, <4>2, <4>3, <2>1, <1>2, <1>3, <1>6, <1>8
      <3> QED BY <3>1, <3>2
    <2> QED BY <2>1, <2>2, <2>3, <2>4, <1>0, <1>3, <1>5 DEF EpochsOK
  <1>13. YieldStep
    BY <1>2, <1>4, <1>5 DEF YieldStep, Only, Live, Created
  <1> QED BY <1>2, <1>4, <1>5, <1>6, <1>7, <1>9, <1>11, <1>12, <1>13 DEF SchedulerOK, r, p

-----------------------------------------------------------------------------
(* The operations built from these. *)

\* Nothing but the memory, and the rotation of the prefill order, changes.
LEMMA QuietKeeps ==
    ASSUME SchedulerOK, UNCHANGED <<req, waiting, active, epoch>>,
           order' \in Seq(Req), IsInjective(order'), ToSet(order') = ToSet(order)
    PROVE  SchedulerOK' /\ LegalStep /\ YieldStep
  <1>0. RequestsOK /\ ArrivalsOK /\ ContainersOK /\ QueueOK /\ EpochsOK
    BY DEF SchedulerOK
  <1>1. Created' = Created /\ Live' = Live
    BY DEF Created, Live
  <1>2. RequestsOK' /\ ArrivalsOK'
    BY <1>0, <1>1 DEF RequestsOK, ArrivalsOK
  <1>3. ContainersOK'
    BY <1>0, <1>1 DEF ContainersOK
  <1>4. QueueOK' /\ EpochsOK'
    BY <1>0, <1>1 DEF QueueOK, EpochsOK, ArrivalOrderKept, YieldsBounded, Older
  <1>5. LegalStep
    <2>1. \A x \in Created : IsPrefix(req[x].out, req[x].out)
      BY <1>0, LiveFacts, PrefixReflexive DEF IsRequest
    <2> QED BY <2>1 DEF LegalStep
  <1>6. YieldStep
    BY <1>0 DEF YieldStep, ContainersOK, Live
  <1> QED BY <1>2, <1>3, <1>4, <1>5, <1>6 DEF SchedulerOK

LEMMA StutterKeeps ==
    ASSUME SchedulerOK, UNCHANGED <<req, waiting, active, order, epoch>>
    PROVE  SchedulerOK' /\ LegalStep /\ YieldStep
  BY QuietKeeps DEF SchedulerOK, ContainersOK

LEMMA EndedCarried ==
    ASSUME NEW p, NEW q, Carried(p, q), NEW state \in State \ {"new"}, NEW reason
    PROVE  Carried(p, Ended(q, state, reason)) /\ Ended(q, state, reason).state = state
  <1> DEFINE e == Ended(q, state, reason)
  <1>1. q = [f \in Fields |-> q[f]]
    BY DEF Carried, IsRequest
  <1>2. /\ e = [f \in Fields |-> e[f]] /\ e.state = state
        /\ e.arrival = q.arrival /\ e.queued = q.queued /\ e.yields = q.yields
        /\ e.epoch = q.epoch /\ e.out = q.out /\ e.kind = q.kind
        /\ e.prefilled = q.prefilled
    BY <1>1 DEF Ended, Fields
  <1> HIDE DEF e
  <1>3. IsRequest(e)
    BY <1>2 DEF IsRequest, Carried
  <1> QED BY <1>2, <1>3 DEF Carried, e

\* A request is its own successor.
LEMMA CarriedSelf ==
    ASSUME RequestsOK, NEW r \in Created
    PROVE  Carried(req[r], req[r])
  BY LiveFacts, PrefixReflexive DEF Carried, IsRequest

\* append_token and the finish it may cause.
LEMMA AppendTokenKeeps ==
    ASSUME SchedulerOK, NEW m, NEW r \in Live, NEW q, Carried(req[r], q),
           q.state = "DECODING", AppendToken(m, r, q)
    PROVE  SchedulerOK' /\ LegalStep /\ YieldStep /\ Only(r)
  <1>1. CASE FinishReason(q) = "none"
    BY <1>1, ProgressKeeps DEF AppendToken
  <1>2. CASE FinishReason(q) # "none"
    <2> DEFINE e == Ended(q, "FINISHED", FinishReason(q))
    <2>1. Retire(m, r, e)
      BY <1>2 DEF AppendToken
    <2>2. Carried(req[r], e) /\ e.state = "FINISHED"
      BY EndedCarried DEF State, Terminal
    <2> HIDE DEF e
    <2> QED BY <2>1, <2>2, RetireKeeps
  <1> QED BY <1>1, <1>2

\* One more token in the output of a request that decodes from now on.
TokenAppended(q, u, t) ==
    \/ u = [q EXCEPT !.state = "DECODING", !.next = t, !.recomputing = FALSE,
                     !.out = Append(@, t)]
    \/ q.state = "DECODING" /\ u = [q EXCEPT !.next = t, !.out = Append(@, t)]

LEMMA TokenCarried ==
    ASSUME NEW p, NEW q, Carried(p, q), NEW t, NEW u, TokenAppended(q, u, t),
           q.out = p.out
    PROVE  Carried(p, u) /\ u.state = "DECODING"
  <1>1. q = [f \in Fields |-> q[f]] /\ IsRequest(q)
    BY DEF Carried, IsRequest
  <1>2. /\ u = [f \in Fields |-> u[f]] /\ u.state = "DECODING"
        /\ u.arrival = q.arrival /\ u.queued = q.queued /\ u.yields = q.yields
        /\ u.epoch = q.epoch /\ u.out = Append(q.out, t) /\ u.kind = q.kind
        /\ u.prefilled = q.prefilled
    <2>1. CASE u = [q EXCEPT !.state = "DECODING", !.next = t, !.recomputing = FALSE,
                             !.out = Append(@, t)]
      BY <2>1, <1>1 DEF Fields
    <2>2. CASE q.state = "DECODING" /\ u = [q EXCEPT !.next = t, !.out = Append(@, t)]
      BY <2>2, <1>1 DEF Fields
    <2> QED BY <2>1, <2>2 DEF TokenAppended
  <1>3. IsSeq(u.out) /\ IsPrefix(p.out, u.out)
    <2>1. IsSeq(p.out)
      BY <1>1 DEF IsRequest
    <2>2. IsSeq(Append(p.out, t)) /\ IsPrefix(p.out, Append(p.out, t))
      BY <2>1, AppendIsSeq
    <2> QED BY <2>2, <1>2
  <1>4. /\ u.queued \in BOOLEAN /\ u.yields \in Nat /\ u.epoch \in Nat
        /\ u.kind \in Kind /\ u.prefilled \in Nat
    BY <1>1, <1>2 DEF IsRequest
  <1>5. IsRequest(u)
    BY <1>2, <1>3, <1>4 DEF IsRequest, State
  <1> QED BY <1>2, <1>3, <1>5 DEF Carried

\* _complete_prefill: r decodes, finishes at once, or fails.
LEMMA CompletePrefillKeeps ==
    ASSUME SchedulerOK, NEW m, NEW r \in Live, req[r].state = "PREFILLING",
           NEW q, Carried(req[r], q), q.out = req[r].out, NEW t,
           CompletePrefill(m, r, q, t)
    PROVE  SchedulerOK' /\ LegalStep /\ YieldStep /\ Only(r)
  <1>1. CASE q.resuming
    <2> DEFINE u == [q EXCEPT !.state = "DECODING", !.next = Last(q.out),
                              !.recomputing = FALSE, !.resuming = FALSE,
                              !.prefilled = Len(q.kind.prompt)]
    <2>1. req' = [req EXCEPT ![r] = u] /\ UNCHANGED <<waiting, active, order, epoch>>
      BY <1>1 DEF CompletePrefill
    <2>2. q = [f \in Fields |-> q[f]] /\ IsRequest(q)
      BY DEF Carried, IsRequest
    <2>3. /\ u = [f \in Fields |-> u[f]] /\ u.state = "DECODING"
          /\ u.arrival = q.arrival /\ u.queued = q.queued /\ u.yields = q.yields
          /\ u.epoch = q.epoch /\ u.out = q.out /\ u.kind = q.kind
          /\ u.prefilled = Len(q.kind.prompt)
      BY <2>2 DEF Fields
    <2> HIDE DEF u
    <2>4. /\ u.queued \in BOOLEAN /\ u.yields \in Nat /\ u.epoch \in Nat /\ IsSeq(u.out)
          /\ u.kind \in Kind
      BY <2>2, <2>3 DEF IsRequest
    <2>a. u.prefilled \in Nat
      <3>1. q.kind.prompt \in Seq(Token)
        BY <2>2, KVAssumption DEF IsRequest, Kind
      <3> QED BY <3>1, <2>3
    <2>5. IsRequest(u)
      BY <2>3, <2>4, <2>a DEF IsRequest, State
    <2>6. Carried(req[r], u)
      BY <2>3, <2>5 DEF Carried
    <2> QED BY <2>1, <2>3, <2>6, ProgressKeeps
  <1>2. CASE ~q.resuming /\ t = NoToken
    <2> DEFINE e == Ended(q, "FAILED", "INVALID_PREFIX_ENTRY")
    <2>1. Retire(m, r, e)
      BY <1>2 DEF CompletePrefill
    <2>2. Carried(req[r], e) /\ e.state = "FAILED"
      BY EndedCarried DEF State, Terminal
    <2> HIDE DEF e
    <2> QED BY <2>1, <2>2, RetireKeeps
  <1>3. CASE ~q.resuming /\ t # NoToken
    <2> DEFINE u == [q EXCEPT !.state = "DECODING", !.next = t, !.recomputing = FALSE,
                              !.out = Append(@, t)]
               z == Publish(m, r, q.kind.prompt, IF q.kind.greedy THEN t ELSE NoToken)
    <2>1. AppendToken(z, r, u)
      BY <1>3 DEF CompletePrefill
    <2>a. TokenAppended(q, u, t)
      BY DEF TokenAppended
    <2> HIDE DEF u, z
    <2>2. Carried(req[r], u) /\ u.state = "DECODING"
      BY <2>a, TokenCarried
    <2> QED BY <2>1, <2>2, AppendTokenKeeps
  <1> QED BY <1>1, <1>2, <1>3

\* What one turn of _acquire_capacity for r does to the scheduler.
AcquireTurn(r) ==
    \/ UNCHANGED <<req, waiting, active, order, epoch>>
    \/ \E m : NewestActive # r /\ Preempt(m, NewestActive)
    \/ \E m : NewestActive = r /\ Len(active) > 1 /\ Preempt(m, r)
    \/ \E m : Retire(m, r, Ended(req[r], "FAILED", "KV_POOL_EXHAUSTED"))

LEMMA AcquireKeeps ==
    ASSUME SchedulerOK, NEW r \in Live, AcquireTurn(r)
    PROVE  SchedulerOK' /\ LegalStep /\ YieldStep
  <1>1. /\ NewestActive \in Live
        /\ \A x \in Live \ {NewestActive} : Older(x, NewestActive)
    BY NewestIsNewest
  <1>2. CASE UNCHANGED <<req, waiting, active, order, epoch>>
    BY <1>2, StutterKeeps
  <1>3. ASSUME NEW m, NewestActive # r, Preempt(m, NewestActive)
        PROVE  SchedulerOK' /\ LegalStep /\ YieldStep
    <2> DEFINE v == NewestActive
    <2>1. PICK w \in Live : w = v
      BY <1>1
    <2>2. r \in Live \ {w} /\ Preempt(m, w) /\ \A x \in Live \ {w} : Older(x, w)
      BY <2>1, <1>1, <1>3
    <2> QED BY <2>1, <2>2, PreemptKeeps
  <1>4. ASSUME NEW m, NewestActive = r, Len(active) > 1, Preempt(m, r)
        PROVE  SchedulerOK' /\ LegalStep /\ YieldStep
    <2>1. active \in Seq(Req) /\ IsInjective(active) /\ ToSet(active) = Live
      BY DEF SchedulerOK, ContainersOK
    <2>2. /\ 1 \in 1 .. Len(active) /\ 2 \in 1 .. Len(active)
      BY <2>1, <1>4
    <2>3. active[1] # active[2] /\ active[1] \in Live /\ active[2] \in Live
      BY <2>1, <2>2, ToSetIndexed
    <2>4. PICK o \in Live : o # r
      BY <2>3
    <2> QED BY <2>4, <1>1, <1>4, PreemptKeeps
  <1>5. ASSUME NEW m, Retire(m, r, Ended(req[r], "FAILED", "KV_POOL_EXHAUSTED"))
        PROVE  SchedulerOK' /\ LegalStep /\ YieldStep
    <2> DEFINE e == Ended(req[r], "FAILED", "KV_POOL_EXHAUSTED")
    <2>1. Carried(req[r], req[r])
      BY CarriedSelf DEF SchedulerOK, Live
    <2>2. Carried(req[r], e) /\ e.state = "FAILED"
      BY <2>1, EndedCarried DEF State, Terminal
    <2> HIDE DEF e
    <2> QED BY <1>5, <2>2, RetireKeeps DEF e
  <1> QED BY <1>2, <1>3, <1>4, <1>5 DEF AcquireTurn

-----------------------------------------------------------------------------
(* plan_prefill. *)

\* What plan_prefill has after it has visited the first i requests of s.
PlanState == [plan : Seq(Req \X Int), left : Int, visits : Int]

PlannedUpTo(p, s, i) ==
    /\ p \in PlanState
    /\ \A a \in 1 .. Len(p.plan) :
          p.plan[a][2] \in Nat \ {0} /\ \E b \in 1 .. i : s[b] = p.plan[a][1]
    /\ \A a, b \in 1 .. Len(p.plan) : p.plan[a][1] = p.plan[b][1] => a = b
    /\ p.visits \in 0 .. i

LEMMA PrefillLength ==
    ASSUME NEW q, IsRequest(q)
    PROVE  Len(PrefillIds(q)) \in Nat \ {0} /\ Remaining(q) \in Int
  <1> DEFINE S == {q.out[i] : i \in DOMAIN q.out} \cup Token
  <1>1. q.kind.prompt \in Seq(S) /\ Len(q.kind.prompt) \in Nat \ {0}
    <2>1. q.kind.prompt \in Seq(Token) /\ q.kind.prompt # << >>
      BY KVAssumption DEF IsRequest, Kind
    <2> QED BY <2>1
  <1> DEFINE o == q.out
  <1>2. o \in Seq(S)
    <2>1. o \in Seq({o[i] : i \in DOMAIN o})
      BY DEF IsRequest, IsSeq
    <2> HIDE DEF o
    <2> QED BY <2>1 DEF o
  <1> HIDE DEF S, o
  <1>3. Front(o) \in Seq(S)
    BY <1>2 DEF Front
  <1>4. Len(PrefillIds(q)) \in Nat \ {0}
    <2> DEFINE a == q.kind.prompt
               b == Front(o)
    <2>1. a \in Seq(S) /\ b \in Seq(S) /\ Len(a) \in Nat \ {0}
      BY <1>1, <1>3
    <2>2. PrefillIds(q) = a \o b \/ PrefillIds(q) = a
      BY DEF PrefillIds, o
    <2> HIDE DEF a, b
    <2>3. Len(a \o b) = Len(a) + Len(b) /\ Len(b) \in Nat
      BY <2>1
    <2> QED BY <2>1, <2>2, <2>3
  <1> QED BY <1>4 DEF Remaining, IsRequest

\* One visit, as a step of the plan.
LEMMA PlanVisitStep ==
    ASSUME RequestsOK, NEW p \in PlanState, NEW r \in Req
    PROVE  /\ PlanVisit(p, r) \in PlanState
           /\ \/ PlanVisit(p, r) = p
              \/ /\ PlanVisit(p, r).plan = p.plan
                 /\ PlanVisit(p, r).visits = p.visits + 1
              \/ /\ \E n \in Nat \ {0} : PlanVisit(p, r).plan = Append(p.plan, <<r, n>>)
                 /\ PlanVisit(p, r).visits = p.visits + 1
  <1> DEFINE n == IF req[r].state = "PREFILLING"
                  THEN Min({Remaining(req[r]), ChunkSize, p.left}) ELSE 0
             z == [plan   |-> IF n > 0 THEN Append(p.plan, <<r, n>>) ELSE p.plan,
                   left   |-> p.left - n,
                   visits |-> p.visits + 1]
  <1>1. PlanVisit(p, r) = IF p.left = 0 THEN p ELSE z
    BY DEF PlanVisit
  <1>2. n \in Int
    <2>1. CASE req[r].state # "PREFILLING"
      BY <2>1
    <2>2. CASE req[r].state = "PREFILLING"
      <3>1. IsRequest(req[r])
        BY <2>2, LiveFacts DEF Created
      <3>2. Remaining(req[r]) \in Int /\ ChunkSize \in Int /\ p.left \in Int
        BY <3>1, PrefillLength, EngineAssumption DEF PlanState
      <3>3. Min({Remaining(req[r]), ChunkSize, p.left}) \in Int
        <4>1. PICK a : a = Remaining(req[r])
          OBVIOUS
        <4>2. PICK b : b = p.left
          OBVIOUS
        <4>3. a \in Int /\ b \in Int /\ ChunkSize \in Int
          BY <4>1, <4>2, <3>2
        <4>4. Min({a, ChunkSize, b}) \in {a, ChunkSize, b}
          BY <4>3, LeastOfThree
        <4>5. Min({a, ChunkSize, b}) \in Int
          BY <4>3, <4>4
        <4> QED BY <4>1, <4>2, <4>5
      <3> QED BY <3>3, <2>2
    <2> QED BY <2>1, <2>2
  <1> HIDE DEF n
  <1>3. p.plan \in Seq(Req \X Int) /\ p.left \in Int /\ p.visits \in Int
    BY DEF PlanState
  <1>4. CASE n > 0
    <2>1. z.plan = Append(p.plan, <<r, n>>) /\ z.left = p.left - n /\ z.visits = p.visits + 1
      BY <1>4
    <2>2. z.plan \in Seq(Req \X Int) /\ n \in Nat \ {0}
      BY <2>1, <1>2, <1>3, <1>4
    <2>3. z \in PlanState
      BY <2>1, <2>2, <1>2, <1>3 DEF PlanState
    <2> HIDE DEF z
    <2> QED BY <2>1, <2>2, <2>3, <1>1
  <1>5. CASE ~(n > 0)
    <2>1. z.plan = p.plan /\ z.left = p.left - n /\ z.visits = p.visits + 1
      BY <1>5
    <2>2. z \in PlanState
      BY <2>1, <1>2, <1>3 DEF PlanState
    <2> HIDE DEF z
    <2> QED BY <2>1, <2>2, <1>1
  <1> QED BY <1>4, <1>5

LEMMA PlannedStep ==
    ASSUME RequestsOK, NEW s \in Seq(Req), IsInjective(s), NEW i \in 0 .. Len(s) - 1,
           NEW p, PlannedUpTo(p, s, i)
    PROVE  PlannedUpTo(PlanVisit(p, s[i + 1]), s, i + 1)
  <1> DEFINE r == s[i + 1]
             z == PlanVisit(p, r)
             m == Len(p.plan)
  <1>1. /\ i \in Nat /\ i + 1 \in 1 .. Len(s) /\ r \in Req
        /\ \A b \in 1 .. i : b \in 1 .. i + 1 /\ b \in 1 .. Len(s) /\ b # i + 1
    OBVIOUS
  <1>2. \A b \in 1 .. i : s[b] # r
    BY <1>1, ToSetIndexed
  <1>3. p \in PlanState /\ m \in Nat /\ p.plan \in Seq(Req \X Int) /\ p.visits \in Int
    BY DEF PlannedUpTo, PlanState
  <1>4. /\ z \in PlanState
        /\ \/ z = p
           \/ z.plan = p.plan /\ z.visits = p.visits + 1
           \/ /\ \E n \in Nat \ {0} : z.plan = Append(p.plan, <<r, n>>)
              /\ z.visits = p.visits + 1
    BY <1>1, <1>3, PlanVisitStep
  <1> HIDE DEF z, r
  <1>5. z.visits \in 0 .. i + 1
    BY <1>1, <1>4 DEF PlannedUpTo
  <1>6. CASE z.plan = p.plan
    <2>1. \A a \in 1 .. m : \E b \in 1 .. i + 1 : s[b] = p.plan[a][1]
      BY <1>1 DEF PlannedUpTo
    <2> QED BY <2>1, <1>4, <1>5, <1>6 DEF PlannedUpTo, z, r
  <1>7. ASSUME NEW n \in Nat \ {0}, z.plan = Append(p.plan, <<r, n>>)
        PROVE  PlannedUpTo(z, s, i + 1)
    <2>1. /\ Len(z.plan) = m + 1 /\ z.plan[m + 1] = <<r, n>>
          /\ \A a \in 1 .. m : z.plan[a] = p.plan[a]
      BY <1>3, <1>7
    <2>2. \A a \in 1 .. m + 1 : a \in 1 .. m \/ a = m + 1
      BY <1>3
    <2>3. \A a \in 1 .. m : /\ p.plan[a][2] \in Nat \ {0} /\ p.plan[a][1] # r
                            /\ \E b \in 1 .. i + 1 : s[b] = p.plan[a][1]
      BY <1>1, <1>2 DEF PlannedUpTo
    <2>4. <<r, n>>[1] = r /\ <<r, n>>[2] = n /\ s[i + 1] = r /\ i + 1 \in 1 .. i + 1
      BY <1>1 DEF r
    <2> HIDE DEF m
    <2>5. \A a \in 1 .. m + 1 : /\ z.plan[a][2] \in Nat \ {0}
                                /\ \E b \in 1 .. i + 1 : s[b] = z.plan[a][1]
      BY <2>1, <2>2, <2>3, <2>4
    <2>6. \A a, b \in 1 .. m + 1 : z.plan[a][1] = z.plan[b][1] => a = b
      <3>1. \A a, b \in 1 .. m : p.plan[a][1] = p.plan[b][1] => a = b
        BY DEF PlannedUpTo, m
      <3> SUFFICES ASSUME NEW a \in 1 .. m + 1, NEW b \in 1 .. m + 1,
                          z.plan[a][1] = z.plan[b][1]
                   PROVE  a = b
        OBVIOUS
      <3>2. CASE a \in 1 .. m /\ b \in 1 .. m
        BY <3>1, <3>2, <2>1
      <3>3. CASE a = m + 1 /\ b \in 1 .. m
        BY <3>3, <2>1, <2>3, <2>4
      <3>4. CASE a \in 1 .. m /\ b = m + 1
        BY <3>4, <2>1, <2>3, <2>4
      <3> QED BY <3>2, <3>3, <3>4, <2>2
    <2> QED BY <2>1, <2>5, <2>6, <1>4, <1>5 DEF PlannedUpTo
  <1>8. PlannedUpTo(z, s, i + 1)
    BY <1>4, <1>6, <1>7 DEF z, r
  <1> QED BY <1>8 DEF z, r

LEMMA PlanOfRuns ==
    ASSUME RequestsOK, NEW s \in Seq(Req), IsInjective(s)
    PROVE  PlannedUpTo(PlanOf(s), s, Len(s))
  <1> DEFINE n == Len(s)
             c == [plan |-> << >>, left |-> Budget, visits |-> 0]
             G == [i \in 1 .. n |-> [x \in PlanState |-> PlanVisit(x, s[i])]]
             step(f) == [i \in 0 .. n |-> IF i = 0 THEN c ELSE PlanVisit(f[i - 1], s[i])]
             k == CHOOSE f : f = step(f)
  <1>0. PlanOf(s) = k[n]
    BY DEF PlanOf
  <1>1. n \in Nat /\ \A i \in 1 .. n : s[i] \in Req
    OBVIOUS
  <1>2. c \in PlanState
    BY EngineAssumption DEF PlanState
  <1>3. PlannedUpTo(c, s, 0)
    <2>1. c.plan = << >> /\ c.visits = 0 /\ Len(<< >>) = 0
      OBVIOUS
    <2> HIDE DEF c
    <2> QED BY <2>1, <1>2 DEF PlannedUpTo
  <1> HIDE DEF n, c
  <1>4. G \in [1 .. n -> [PlanState -> PlanState]]
    BY <1>1, PlanVisitStep
  <1>5. \A i \in 1 .. n : \A x \in PlanState : G[i][x] = PlanVisit(x, s[i])
    OBVIOUS
  <1> HIDE DEF G
  <1>6. PICK h : Recursion(h, n, PlanState, c, G)
    BY <1>1, <1>2, <1>4, RecursionExists
  <1>7. h = step(h)
    <2>1. /\ h \in [0 .. n -> PlanState] /\ h[0] = c
          /\ \A i \in 1 .. n : h[i] = G[i][h[i - 1]]
      BY <1>6 DEF Recursion
    <2>2. ASSUME NEW i \in 1 .. n PROVE h[i] = PlanVisit(h[i - 1], s[i])
      <3>1. i - 1 \in 0 .. n
        BY <1>1
      <3>2. h[i - 1] \in PlanState
        BY <3>1, <2>1
      <3> QED BY <2>1, <3>2, <1>5
    <2>3. \A i \in 0 .. n : h[i] = IF i = 0 THEN c ELSE PlanVisit(h[i - 1], s[i])
      BY <1>1, <2>1, <2>2
    <2> QED BY <2>1, <2>3
  <1>8. k = step(k)
    BY <1>7
  <1> HIDE DEF k
  <1>9. k[0] = c /\ \A i \in 1 .. n : k[i] = PlanVisit(k[i - 1], s[i])
    <2>1. \A i \in 0 .. n : k[i] = IF i = 0 THEN c ELSE PlanVisit(k[i - 1], s[i])
      BY <1>8
    <2> QED BY <2>1, <1>1
  <1> DEFINE U == {i \in 0 .. n : PlannedUpTo(k[i], s, i)}
  <1>10. 0 \in U
    <2>1. 0 \in 0 .. n
      BY <1>1
    <2> QED BY <2>1, <1>3, <1>9
  <1>11. ASSUME NEW i \in 0 .. n - 1, i \in U PROVE i + 1 \in U
    <2>1. i + 1 \in 1 .. n /\ i + 1 \in 0 .. n /\ (i + 1) - 1 = i
      BY <1>1
    <2>2. k[i + 1] = PlanVisit(k[i], s[i + 1])
      BY <2>1, <1>9
    <2>3. PlannedUpTo(k[i + 1], s, i + 1)
      <3>1. PlannedUpTo(k[i], s, i) /\ i \in 0 .. Len(s) - 1
        BY <1>11 DEF n
      <3> QED BY <3>1, <2>2, PlannedStep
    <2> QED BY <2>1, <2>3
  <1> HIDE DEF U
  <1>12. n \in U
    <2>1. \A i \in 0 .. n - 1 : i \in U => i + 1 \in U
      BY <1>11
    <2>2. \A i \in 0 .. n : i \in U
      BY <1>1, <1>10, <2>1, BoundedInduction
    <2> QED BY <2>2, <1>1
  <1> QED BY <1>0, <1>12 DEF U, n

\* Plans as lists.
LEMMA PlanTail ==
    ASSUME NEW s, IsPlan(s), s # << >>
    PROVE  /\ IsPlan(Tail(s)) /\ Head(s)[1] \in Req /\ Head(s)[2] \in Nat \ {0}
           /\ 1 \in 1 .. Len(s) /\ Head(s) = s[1]
           /\ \A i \in 1 .. Len(Tail(s)) :
                 /\ i + 1 \in 1 .. Len(s) /\ Tail(s)[i] = s[i + 1]
                 /\ Tail(s)[i][1] # Head(s)[1]
  <1> DEFINE t == Tail(s)
             S == {s[i] : i \in DOMAIN s}
  <1>1. s \in Seq(S) /\ s # << >>
    BY DEF IsPlan, IsSeq
  <1> HIDE DEF S
  <1>2. /\ t \in Seq(S) /\ Len(t) = Len(s) - 1 /\ Len(s) \in Nat \ {0} /\ Head(s) = s[1]
        /\ \A i \in 1 .. Len(t) : t[i] = s[i + 1]
    BY <1>1, HeadTailProperties
  <1> HIDE DEF t
  <1>3. /\ 1 \in 1 .. Len(s)
        /\ \A i \in 1 .. Len(t) : i + 1 \in 1 .. Len(s) /\ i + 1 # 1
        /\ \A i, j \in 1 .. Len(t) : i + 1 = j + 1 => i = j
    BY <1>2
  <1>4. IsSeq(t)
    BY <1>2 DEF IsSeq
  <1>5. IsPlan(t)
    <2>1. \A i \in 1 .. Len(t) : t[i][1] \in Req /\ t[i][2] \in Nat \ {0}
      BY <1>2, <1>3 DEF IsPlan
    <2>2. \A i, j \in 1 .. Len(t) : t[i][1] = t[j][1] => i = j
      <3> SUFFICES ASSUME NEW i \in 1 .. Len(t), NEW j \in 1 .. Len(t), t[i][1] = t[j][1]
                   PROVE  i = j
        OBVIOUS
      <3>1. s[i + 1][1] = s[j + 1][1] /\ i + 1 \in 1 .. Len(s) /\ j + 1 \in 1 .. Len(s)
        BY <1>2, <1>3
      <3>2. i + 1 = j + 1
        BY <3>1 DEF IsPlan
      <3> QED BY <3>2, <1>3
    <2> QED BY <2>1, <2>2, <1>4 DEF IsPlan
  <1> QED BY <1>2, <1>3, <1>5 DEF IsPlan, t

LEMMA PlanKeep ==
    ASSUME NEW s, IsPlan(s), NEW T
    PROVE  IsPlan(Keep(s, T)) /\ \A i \in 1 .. Len(Keep(s, T)) : Keep(s, T)[i] \in T
  <1> DEFINE k == Keep(s, T)
             S == {s[i] : i \in DOMAIN s}
  <1>1. s \in Seq(S)
    BY DEF IsPlan, IsSeq
  <1> HIDE DEF S
  <1>2. k \in Seq(S) /\ \E g : KeptAt(k, g, s, Len(s), T)
    BY <1>1, KeepPositions
  <1> HIDE DEF k
  <1>3. PICK g : KeptAt(k, g, s, Len(s), T)
    BY <1>2
  <1>4. /\ Len(k) \in Nat /\ Len(s) \in Nat /\ IsSeq(k)
    BY <1>1, <1>2 DEF IsSeq
  <1>5. /\ \A i \in 1 .. Len(k) : g[i] \in 1 .. Len(s) /\ k[i] = s[g[i]] /\ k[i] \in T
        /\ \A i, j \in 1 .. Len(k) : i < j => g[i] < g[j]
    BY <1>3 DEF KeptAt
  <1>6. ASSUME NEW i \in 1 .. Len(k), NEW j \in 1 .. Len(k), k[i][1] = k[j][1]
        PROVE  i = j
    <2>1. g[i] = g[j]
      BY <1>5, <1>6 DEF IsPlan
    <2>2. ~(i < j) /\ ~(j < i)
      BY <2>1, <1>4, <1>5
    <2> QED BY <2>2
  <1> QED BY <1>4, <1>5, <1>6, SMTT(30) DEF IsPlan, k

LEMMA PlanOfIsPlan ==
    ASSUME RequestsOK, NEW s \in Seq(Req), IsInjective(s)
    PROVE  IsPlan(PlanOf(s).plan) /\ PlanOf(s).visits \in 0 .. Len(s)
  <1> DEFINE p == PlanOf(s)
             t == p.plan
  <1>1. PlannedUpTo(p, s, Len(s))
    BY PlanOfRuns
  <1> HIDE DEF p
  <1>2. t \in Seq(Req \X Int) /\ p.visits \in 0 .. Len(s)
    BY <1>1 DEF PlannedUpTo, PlanState
  <1>3. /\ \A a \in 1 .. Len(t) : t[a][2] \in Nat \ {0}
        /\ \A a, b \in 1 .. Len(t) : t[a][1] = t[b][1] => a = b
    BY <1>1 DEF PlannedUpTo
  <1> HIDE DEF t
  <1>4. \A a \in 1 .. Len(t) : t[a][1] \in Req
    BY <1>2
  <1>5. IsSeq(t)
    BY <1>2 DEF IsSeq
  <1> QED BY <1>2, <1>3, <1>4, <1>5 DEF IsPlan, t, p

-----------------------------------------------------------------------------
(* The prefix cache may offer tokens: a count, whatever the cache holds. *)

LEMMA LookupCount ==
    ASSUME NEW m, NEW toks, Len(toks) \in Nat \ {0}, NEW exact
    PROVE  Lookup(m, toks, exact).count \in Nat
  <1> DEFINE most == (Len(toks) - 1) \div BlockSize
             hit(k) == \A j \in 1 .. k : Prefix(toks, j * BlockSize) \in Nodes(m)
             T == {k \in 0 .. most : hit(k)}
             d == RadixDepth(m, toks)
  <1>1. most \in Nat /\ BlockSize \in Nat \ {0}
    BY KVAssumption
  <1>2. d = CHOOSE k \in 0 .. most : hit(k) /\ \A j \in k + 1 .. most : ~hit(j)
    BY DEF RadixDepth
  <1> HIDE DEF most
  <1>3. hit(0)
    OBVIOUS
  <1> HIDE DEF hit
  <1>4. T \subseteq 0 .. most /\ T # {}
    BY <1>1, <1>3
  <1>5. PICK x \in T : \A y \in T : y <= x
    <2> HIDE DEF T
    <2> QED BY <1>1, <1>4, GreatestExists
  <1>6. x \in 0 .. most /\ hit(x) /\ \A j \in x + 1 .. most : ~hit(j)
    <2>1. ASSUME NEW j \in x + 1 .. most, hit(j) PROVE FALSE
      <3>1. j \in T /\ x \in Nat
        BY <2>1, <1>1
      <3>2. j <= x
        BY <3>1, <1>5
      <3> QED BY <3>1, <3>2, <2>1
    <2> QED BY <2>1
  <1>7. d \in 0 .. most
    BY <1>2, <1>6
  <1> HIDE DEF d
  <1>8. d * BlockSize \in Nat
    BY <1>1, <1>7
  <1>9. Lookup(m, toks, exact).count \in {Len(toks), d * BlockSize}
    <2>1. CASE exact /\ toks \in Prompts /\ Present(m, ExactOwner(toks))
      BY <2>1 DEF Lookup
    <2>2. CASE ~(exact /\ toks \in Prompts /\ Present(m, ExactOwner(toks)))
      BY <2>2 DEF Lookup, d
    <2> QED BY <2>1, <2>2
  <1> QED BY <1>8, <1>9

-----------------------------------------------------------------------------
(* Every action keeps the invariant. *)

LEMMA CallsKeep ==
    ASSUME EngineInv,
           \/ \E k \in Workload : Create(k)
           \/ \E r \in Req : Submit(r) \/ Cancel(r)
    PROVE  EngineInv' /\ LegalStep /\ YieldStep
  <1>0. SchedulerOK /\ LoopOK
    BY DEF EngineInv
  <1>1. pc = "idle" /\ pc' = "idle" /\ rows' = rows
    BY DEF Create, Submit, Cancel
  <1>2. LoopOK'
    BY <1>0, <1>1 DEF LoopOK
  <1>3. ASSUME NEW k \in Workload, Create(k)
        PROVE  SchedulerOK' /\ LegalStep /\ YieldStep
    BY <1>0, <1>3, CreateKeeps, EngineAssumption
  <1>4. ASSUME NEW r \in Req, Submit(r)
        PROVE  SchedulerOK' /\ LegalStep /\ YieldStep
    <2>1. r \in Created /\ ~req[r].queued
      BY <1>4 DEF Submit
    <2> QED BY <2>1, <1>0, <1>4, SubmitKeeps
  <1>5. ASSUME NEW r \in Req, Cancel(r)
        PROVE  SchedulerOK' /\ LegalStep /\ YieldStep
    <2> DEFINE e == Ended(req[r], "CANCELLED", "CANCELLED_BY_CLIENT")
    <2>0. RequestsOK /\ ContainersOK
      BY <1>0 DEF SchedulerOK
    <2>1. ASSUME r \in Created
          PROVE  Carried(req[r], e) /\ e.state = "CANCELLED"
      BY <2>0, <2>1, CarriedSelf, EndedCarried DEF State, Terminal
    <2> HIDE DEF e
    <2>2. CASE /\ r \in ToSet(waiting) /\ waiting' = Without(waiting, r)
               /\ req' = [req EXCEPT ![r] = e] /\ UNCHANGED <<mem, active, order, epoch>>
      <3>1. r \in Created
        BY <2>0, <2>2 DEF ContainersOK
      <3>2. LeavesQueue(r)
        <4> DEFINE w == Without(waiting, r)
        <4>1. waiting \in Seq(Req) /\ IsInjective(waiting)
          BY <2>0 DEF ContainersOK
        <4>2. /\ w \in Seq(Req) /\ IsInjective(w) /\ ToSet(w) = ToSet(waiting) \ {r}
          BY <4>1, WithoutProperties
        <4>3. InOrderOf(w, waiting)
          BY <4>1, WithoutProperties DEF InOrderOf
        <4> HIDE DEF w
        <4>4. waiting' = w
          BY <2>2 DEF w
        <4> QED BY <4>2, <4>3, <4>4 DEF LeavesQueue
      <3> QED BY <3>1, <3>2, <2>1, <2>2, <1>0, DequeueKeeps
    <2>3. CASE r \in ToSet(active) /\ Retire(mem, r, e)
      <3>1. r \in Live /\ r \in Created
        BY <2>0, <2>3 DEF ContainersOK, Live
      <3> QED BY <3>1, <2>1, <2>3, <1>0, RetireKeeps
    <2> QED BY <2>2, <2>3, <1>5, <2>0 DEF Cancel, e, RequestsOK
  <1> QED BY <1>2, <1>3, <1>4, <1>5 DEF EngineInv

\* Capacity for a decode row.
LEMMA DecodeRowCapacityKeeps ==
    ASSUME EngineInv, DecodeRowCapacity
    PROVE  EngineInv' /\ LegalStep /\ YieldStep
  <1> DEFINE r == Head(todo)
  <1>0. SchedulerOK /\ LoopOK /\ RequestsOK
    BY DEF EngineInv, SchedulerOK
  <1>1. /\ pc = "decodeCap" /\ pc' = pc /\ todo # << >>
        /\ todo \in Seq(Req) /\ IsInjective(todo) /\ rows \in Seq(Req) /\ IsInjective(rows)
        /\ ToSet(rows) \cap ToSet(todo) = {}
    BY <1>0 DEF LoopOK, DecodeRowCapacity
  <1>2. /\ r \in Req /\ r \in ToSet(todo) /\ Tail(todo) \in Seq(Req)
        /\ ToSet(todo) = ToSet(Tail(todo)) \cup {r} /\ r \notin ToSet(Tail(todo))
        /\ IsInjective(Tail(todo))
    BY <1>1, TailSet
  <1>3. \/ req[r].state = "DECODING" /\ AcquireTurn(r)
        \/ UNCHANGED <<req, waiting, active, order, epoch>>
    <2>1. CASE req[r].state = "DECODING"
      BY <2>1 DEF DecodeRowCapacity, Acquire, AcquireTurn
    <2>2. CASE req[r].state # "DECODING"
      BY <2>2 DEF DecodeRowCapacity, sched
    <2> QED BY <2>1, <2>2
  <1>4. (todo' = Tail(todo) /\ (rows' = rows \/ rows' = Append(rows, r)))
        \/ (todo' = todo /\ rows' = rows)
    <2>1. CASE req[r].state = "DECODING"
      BY <2>1 DEF DecodeRowCapacity, Acquire
    <2>2. CASE req[r].state # "DECODING"
      BY <2>2 DEF DecodeRowCapacity
    <2> QED BY <2>1, <2>2
  <1>5. SchedulerOK' /\ LegalStep /\ YieldStep
    <2>1. CASE req[r].state = "DECODING" /\ AcquireTurn(r)
      <3>1. r \in Live
        BY <2>1, <1>2 DEF Live, Created
      <3> QED BY <3>1, <2>1, <1>0, AcquireKeeps
    <2>2. CASE UNCHANGED <<req, waiting, active, order, epoch>>
      BY <2>2, <1>0, StutterKeeps
    <2> QED BY <2>1, <2>2, <1>3
  <1> HIDE DEF r
  <1>6. /\ todo' \in Seq(Req) /\ IsInjective(todo') /\ rows' \in Seq(Req)
        /\ IsInjective(rows') /\ ToSet(rows') \cap ToSet(todo') = {}
    <2>1. CASE todo' = Tail(todo) /\ rows' = rows
      BY <2>1, <1>1, <1>2
    <2>2. CASE todo' = Tail(todo) /\ rows' = Append(rows, r)
      <3>1. /\ rows' \in Seq(Req) /\ ToSet(rows') = ToSet(rows) \cup {r}
            /\ IsInjective(rows')
        BY <2>2, <1>1, <1>2, AppendSet
      <3> QED BY <3>1, <2>2, <1>1, <1>2
    <2>3. CASE todo' = todo /\ rows' = rows
      BY <2>3, <1>1
    <2> QED BY <2>1, <2>2, <2>3, <1>4
  <1>7. LoopOK'
    BY <1>1, <1>6 DEF LoopOK
  <1> QED BY <1>5, <1>7 DEF EngineInv

\* Capacity for a prefill chunk.
LEMMA PrefillChunkCapacityKeeps ==
    ASSUME EngineInv, PrefillChunkCapacity
    PROVE  EngineInv' /\ LegalStep /\ YieldStep
  <1> DEFINE r == Head(todo)[1]
  <1>0. SchedulerOK /\ LoopOK /\ RequestsOK
    BY DEF EngineInv, SchedulerOK
  <1>1. /\ pc = "prefillCap" /\ pc' = pc /\ todo # << >>
        /\ IsPlan(todo) /\ IsPlan(plans) /\ rows \in Seq(Req) /\ IsInjective(rows)
    BY <1>0 DEF LoopOK, PrefillChunkCapacity
  <1>2. r \in Req /\ IsPlan(Tail(todo))
    BY <1>1, PlanTail
  <1>3. \/ req[r].state = "PREFILLING" /\ AcquireTurn(r)
        \/ UNCHANGED <<req, waiting, active, order, epoch>>
    <2>1. CASE req[r].state = "PREFILLING"
      BY <2>1 DEF PrefillChunkCapacity, Acquire, AcquireTurn
    <2>2. CASE req[r].state # "PREFILLING"
      BY <2>2 DEF PrefillChunkCapacity, sched
    <2> QED BY <2>1, <2>2
  <1>4. (todo' = Tail(todo) \/ todo' = todo) /\ rows' = rows /\ plans' = plans
    <2>1. CASE req[r].state = "PREFILLING"
      BY <2>1 DEF PrefillChunkCapacity, Acquire
    <2>2. CASE req[r].state # "PREFILLING"
      BY <2>2 DEF PrefillChunkCapacity
    <2> QED BY <2>1, <2>2
  <1>5. SchedulerOK' /\ LegalStep /\ YieldStep
    <2>1. CASE req[r].state = "PREFILLING" /\ AcquireTurn(r)
      <3>1. r \in Live
        BY <2>1, <1>2 DEF Live, Created
      <3> QED BY <3>1, <2>1, <1>0, AcquireKeeps
    <2>2. CASE UNCHANGED <<req, waiting, active, order, epoch>>
      BY <2>2, <1>0, StutterKeeps
    <2> QED BY <2>1, <2>2, <1>3
  <1> HIDE DEF r
  <1>6. IsPlan(todo') /\ IsPlan(plans') /\ rows' \in Seq(Req) /\ IsInjective(rows')
    BY <1>1, <1>2, <1>4
  <1>7. LoopOK'
    BY <1>1, <1>6 DEF LoopOK
  <1> QED BY <1>5, <1>7 DEF EngineInv

\* The decode rows of a step, oldest first.
LEMMA BeginStepKeeps ==
    ASSUME EngineInv, BeginStep
    PROVE  EngineInv' /\ LegalStep /\ YieldStep
  <1> DEFINE D == {r \in ToSet(active) : req[r].state = "DECODING"}
             n == Cardinality(D)
  <1>0. SchedulerOK /\ LoopOK /\ RequestsOK /\ ArrivalsOK /\ ContainersOK
    BY DEF EngineInv, SchedulerOK
  <1>1. SchedulerOK' /\ LegalStep /\ YieldStep
    BY <1>0, StutterKeeps DEF BeginStep, sched
  <1>2. D \subseteq Req /\ D \subseteq Created /\ n \in Nat
    <2>1. D \subseteq Live /\ Live \subseteq Created /\ Created \subseteq Req
      BY <1>0 DEF ContainersOK, Live, Created
    <2> HIDE DEF D
    <2> QED BY <2>1, KVAssumption, FS_Subset, FS_CardinalityType
  <1>3. /\ pc = "idle" /\ pc' = "decodeCap" /\ rows' = rows
        /\ todo' \in [1 .. n -> D]
        /\ \A i, j \in 1 .. n : i < j => Older(todo'[i], todo'[j])
    BY DEF BeginStep, ByAge
  <1> HIDE DEF D, n
  <1>4. todo' \in Seq(Req) /\ Len(todo') = n
    BY <1>2, <1>3
  <1>5. ASSUME NEW i \in 1 .. n, NEW j \in 1 .. n, todo'[i] = todo'[j] PROVE i = j
    <2>1. ~Older(todo'[i], todo'[i])
      BY <1>0, <1>2, <1>3, OlderIsOrder
    <2>2. ~(i < j) /\ ~(j < i)
      BY <2>1, <1>3, <1>5
    <2> QED BY <2>2, <1>2
  <1>6. IsInjective(todo')
    BY <1>4, <1>5, ToSetIndexed
  <1>7. rows' = << >> /\ ToSet(<< >>) = {} /\ << >> \in Seq(Req) /\ IsInjective(<< >>)
    BY <1>0, <1>3 DEF LoopOK, ToSet, IsInjective
  <1>8. LoopOK'
    BY <1>3, <1>4, <1>6, <1>7 DEF LoopOK
  <1> QED BY <1>1, <1>8 DEF EngineInv

LEMMA StillDecodingRows ==
    ASSUME RequestsOK, NEW s \in Seq(Req), IsInjective(s)
    PROVE  RequestsIn(StillDecoding(s), "DECODING")
  <1> DEFINE T == {r \in Req : req[r].state = "DECODING"}
             k == Keep(s, T)
  <1>1. StillDecoding(s) = k /\ \A x \in T : req[x].state = "DECODING"
    BY DEF StillDecoding
  <1> HIDE DEF T
  <1>2. k \in Seq(Req) /\ IsInjective(k) /\ ToSet(k) = ToSet(s) \cap T
    BY KeepProperties
  <1> QED BY <1>1, <1>2 DEF RequestsIn

LEMMA EmptyLists ==
    /\ << >> \in Seq(Req) /\ IsInjective(<< >>) /\ ToSet(<< >>) = {}
    /\ IsPlan(<< >>) /\ Len(<< >>) = 0
  <1>1. << >> \in Seq(Req) /\ IsInjective(<< >>) /\ ToSet(<< >>) = {}
    BY DEF ToSet, IsInjective
  <1>2. IsSeq(<< >>) /\ Len(<< >>) = 0
    BY DEF IsSeq
  <1>3. 1 .. Len(<< >>) = {}
    BY <1>2
  <1>4. IsPlan(<< >>)
    BY <1>2, <1>3 DEF IsPlan
  <1> QED BY <1>1, <1>2, <1>4

\* The turns of the step that only the loop's own variables notice.
LEMMA LoopTurnsKeep ==
    ASSUME EngineInv,
           \/ DecodeRowsReady \/ DecodeForward \/ DecodeCommitted
           \/ AdmissionEnds \/ ExactDone \/ PrefillChunksReady \/ FusedForward
           \/ EndStep \/ WaitForWork
    PROVE  EngineInv' /\ LegalStep /\ YieldStep
  <1>0. SchedulerOK /\ LoopOK /\ RequestsOK
    BY DEF EngineInv, SchedulerOK
  <1>1. UNCHANGED <<req, waiting, active, order, epoch>>
    BY DEF DecodeRowsReady, DecodeForward, DecodeCommitted, AdmissionEnds, ExactDone,
           PrefillChunksReady, FusedForward, EndStep, WaitForWork, sched, vars
  <1>2. SchedulerOK' /\ LegalStep /\ YieldStep
    BY <1>0, <1>1, StutterKeeps
  <1>4. rows \in Seq(Req) /\ IsInjective(rows)
    BY <1>0 DEF LoopOK
  <1>5. CASE DecodeRowsReady
    <2>1. rows' = StillDecoding(rows) /\ pc' \in {"decode", "admit"} /\ todo' = << >>
          /\ (pc' = "decode" => ~Fused) /\ plans' = plans
      BY <1>5 DEF DecodeRowsReady
    <2>2. RequestsIn(rows', "DECODING")
      BY <2>1, <1>0, <1>4, StillDecodingRows
    <2>3. (RequestsIn(rows, "DECODING") /\ RequestsIn(todo, "PREFILLING"))'
      BY <2>1, <2>2, <1>1, EmptyLists DEF RequestsIn
    <2>4. LoopOK'
      BY <2>1, <2>3 DEF LoopOK, RequestsIn
    <2> QED BY <2>4, <1>2 DEF EngineInv
  <1>6. CASE DecodeForward
    <2>1. pc = "decode" /\ pc' = "commitD" /\ todo' = rows /\ rows' = rows
      BY <1>6 DEF DecodeForward
    <2>2. ~Fused /\ RequestsIn(todo, "DECODING")'
      BY <2>1, <1>0, <1>1 DEF LoopOK, RequestsIn
    <2>3. LoopOK'
      BY <2>1, <2>2, <1>4 DEF LoopOK
    <2> QED BY <2>3, <1>2 DEF EngineInv
  <1>7. CASE DecodeCommitted
    <2>1. /\ pc = "commitD" /\ rows' = << >>
          /\ \/ Fused /\ pc' = "commitP" /\ todo' = plans
             \/ ~Fused /\ pc' = "admit" /\ todo' = << >>
      BY <1>7, EngineAssumption DEF DecodeCommitted
    <2>2. CASE Fused /\ pc' = "commitP" /\ todo' = plans
      <3>1. PlanIn(todo, "PREFILLING")'
        BY <2>1, <2>2, <1>0, <1>1 DEF LoopOK, PlanIn
      <3>2. LoopOK'
        BY <3>1, <2>1, <2>2, EmptyLists DEF LoopOK
      <3> QED BY <3>2, <1>2 DEF EngineInv
    <2>3. CASE ~Fused /\ pc' = "admit" /\ todo' = << >>
      <3>1. RequestsIn(todo, "PREFILLING")'
        BY <2>3, EmptyLists DEF RequestsIn
      <3>2. LoopOK'
        BY <3>1, <2>1, <2>3, EmptyLists DEF LoopOK
      <3> QED BY <3>2, <1>2 DEF EngineInv
    <2> QED BY <2>1, <2>2, <2>3
  <1>8. CASE AdmissionEnds
    <2>1. pc = "admit" /\ pc' = "exact" /\ todo' = todo /\ rows' = rows
      BY <1>8 DEF AdmissionEnds
    <2>2. RequestsIn(todo, "PREFILLING")'
      BY <2>1, <1>0, <1>1 DEF LoopOK, RequestsIn
    <2>3. LoopOK'
      BY <2>1, <2>2, <1>4 DEF LoopOK
    <2> QED BY <2>3, <1>2 DEF EngineInv
  <1>9. CASE ExactDone
    <2>1. pc' = "plan" /\ rows' = rows
      BY <1>9 DEF ExactDone
    <2>2. LoopOK'
      BY <2>1, <1>4 DEF LoopOK
    <2> QED BY <2>2, <1>2 DEF EngineInv
  <1>10. CASE PrefillChunksReady
    <2> DEFINE T == {p \in ToSet(plans) : req[p[1]].state = "PREFILLING"}
    <2>1. /\ rows' = StillDecoding(rows) /\ plans' = Keep(plans, T)
          /\ (pc' = "idle" /\ rows' = << >>) \/ pc' = "forward"
      BY <1>10 DEF PrefillChunksReady
    <2>2. RequestsIn(rows', "DECODING")
      BY <2>1, <1>0, <1>4, StillDecodingRows
    <2>3. IsPlan(plans)
      BY <1>0, <1>10 DEF LoopOK, PrefillChunksReady
    <2>4. \A p \in T : req[p[1]].state = "PREFILLING"
      OBVIOUS
    <2> HIDE DEF T
    <2>5. IsPlan(plans') /\ \A i \in 1 .. Len(plans') : plans'[i] \in T
      BY <2>1, <2>3, PlanKeep
    <2>6. (RequestsIn(rows, "DECODING") /\ PlanIn(plans, "PREFILLING"))'
      BY <2>2, <2>4, <2>5, <1>1 DEF RequestsIn, PlanIn
    <2>7. LoopOK'
      BY <2>1, <2>6 DEF LoopOK, RequestsIn
    <2> QED BY <2>7, <1>2 DEF EngineInv
  <1>11. CASE FusedForward
    <2>1. /\ pc = "forward" /\ rows' = rows /\ plans' = plans
          /\ \/ Fused /\ pc' = "commitD" /\ todo' = rows
             \/ ~Fused /\ pc' = "commitP" /\ todo' = plans
      BY <1>11, EngineAssumption DEF FusedForward
    <2>2. (RequestsIn(rows, "DECODING") /\ PlanIn(plans, "PREFILLING"))'
      BY <2>1, <1>0, <1>1 DEF LoopOK, RequestsIn, PlanIn
    <2>3. CASE Fused /\ pc' = "commitD" /\ todo' = rows
      <3>1. RequestsIn(todo, "DECODING")'
        BY <2>1, <2>2, <2>3 DEF RequestsIn
      <3>2. LoopOK'
        BY <3>1, <2>1, <2>2, <2>3, <1>4 DEF LoopOK
      <3> QED BY <3>2, <1>2 DEF EngineInv
    <2>4. CASE ~Fused /\ pc' = "commitP" /\ todo' = plans
      <3>1. PlanIn(todo, "PREFILLING")'
        BY <2>1, <2>2, <2>4 DEF PlanIn
      <3>2. LoopOK'
        BY <3>1, <2>1, <2>4, <1>4 DEF LoopOK
      <3> QED BY <3>2, <1>2 DEF EngineInv
    <2> QED BY <2>1, <2>3, <2>4
  <1>12. CASE EndStep
    <2>1. pc' = "idle" /\ rows' = << >>
      BY <1>12 DEF EndStep
    <2>2. LoopOK'
      BY <2>1, EmptyLists DEF LoopOK
    <2> QED BY <2>2, <1>2 DEF EngineInv
  <1>13. CASE WaitForWork
    <2>1. pc = "idle" /\ pc' = pc /\ rows' = rows
      BY <1>13 DEF WaitForWork, Busy, vars
    <2>2. LoopOK'
      BY <2>1, <1>0, <1>4 DEF LoopOK
    <2> QED BY <2>2, <1>2 DEF EngineInv
  <1> QED BY <1>5, <1>6, <1>7, <1>8, <1>9, <1>10, <1>11, <1>12, <1>13

\* _commit_decode, one row.
LEMMA CommitDecodeRowKeeps ==
    ASSUME EngineInv, CommitDecodeRow
    PROVE  EngineInv' /\ LegalStep /\ YieldStep
  <1>0. SchedulerOK /\ LoopOK /\ RequestsOK
    BY DEF EngineInv, SchedulerOK
  <1>1. /\ pc = "commitD" /\ pc' = pc /\ todo # << >> /\ todo' = Tail(todo)
        /\ rows' = rows /\ plans' = plans
        /\ todo \in Seq(Req) /\ IsInjective(todo)
        /\ \A x \in ToSet(todo) : req[x].state = "DECODING"
        /\ rows \in Seq(Req) /\ IsInjective(rows)
        /\ Fused => PlanIn(plans, "PREFILLING")
    BY <1>0 DEF LoopOK, CommitDecodeRow, RequestsIn
  <1>2. PICK r : r = Head(todo)
    OBVIOUS
  <1>3. /\ r \in Req /\ r \in ToSet(todo) /\ Tail(todo) \in Seq(Req)
        /\ ToSet(todo) = ToSet(Tail(todo)) \cup {r} /\ r \notin ToSet(Tail(todo))
        /\ IsInjective(Tail(todo))
    BY <1>1, <1>2, TailSet
  <1>4. r \in Live /\ r \in Created /\ req[r].state = "DECODING"
    BY <1>1, <1>3 DEF Live, Created
  <1>5. PICK t : AppendToken(Commit(mem, r, 1), r,
                             [req[r] EXCEPT !.next = t, !.out = Append(@, t)])
    BY <1>2 DEF CommitDecodeRow
  <1>6. SchedulerOK' /\ LegalStep /\ YieldStep /\ Only(r)
    <2> DEFINE u == [req[r] EXCEPT !.next = t, !.out = Append(@, t)]
    <2>1. TokenAppended(req[r], u, t) /\ AppendToken(Commit(mem, r, 1), r, u)
      BY <1>4, <1>5 DEF TokenAppended
    <2> HIDE DEF u
    <2>2. Carried(req[r], req[r])
      BY <1>0, <1>4, CarriedSelf
    <2>3. Carried(req[r], u) /\ u.state = "DECODING"
      BY <2>1, <2>2, TokenCarried
    <2> QED BY <2>1, <2>3, <1>0, <1>4, AppendTokenKeeps
  <1>7. RequestsIn(todo, "DECODING")'
    <2>1. ToSet(todo) \subseteq Req
      BY <1>1, ToSetIndexed
    <2>2. \A x \in ToSet(todo') : req'[x].state = "DECODING"
      BY <2>1, <1>1, <1>3, <1>6 DEF Only
    <2> QED BY <2>2, <1>1, <1>3 DEF RequestsIn
  <1>8. ASSUME Fused PROVE PlanIn(plans, "PREFILLING")'
    <2>1. IsPlan(plans) /\ \A i \in 1 .. Len(plans) :
             plans[i][1] \in Req /\ req[plans[i][1]].state = "PREFILLING"
      BY <1>1, <1>8 DEF PlanIn, IsPlan
    <2>2. \A i \in 1 .. Len(plans) : req'[plans[i][1]] = req[plans[i][1]]
      BY <2>1, <1>4, <1>6 DEF Only
    <2> QED BY <2>1, <2>2, <1>1 DEF PlanIn
  <1>9. LoopOK'
    BY <1>1, <1>7, <1>8 DEF LoopOK
  <1> QED BY <1>6, <1>9 DEF EngineInv

\* A head that can never fit is rejected.
LEMMA RejectHeadKeeps ==
    ASSUME EngineInv, RejectHead
    PROVE  EngineInv' /\ LegalStep /\ YieldStep
  <1>0. SchedulerOK /\ LoopOK /\ RequestsOK /\ ContainersOK
    BY DEF EngineInv, SchedulerOK
  <1>1. PICK r : r = Head(waiting)
    OBVIOUS
  <1> DEFINE e == Ended(req[r], "REJECTED", "KV_CAPACITY_EXCEEDED")
  <1>2. /\ pc = "admit" /\ pc' = pc /\ waiting # << >> /\ waiting' = Tail(waiting)
        /\ UNCHANGED <<active, order, epoch>> /\ todo' = todo /\ rows' = rows
        /\ RequestsIn(todo, "PREFILLING") /\ rows \in Seq(Req) /\ IsInjective(rows)
    BY <1>0 DEF LoopOK, RejectHead, AdmitsHead
  <1>3. LeavesQueue(r) /\ r \in ToSet(waiting)
    BY <1>0, <1>1, <1>2, HeadLeaves
  <1>4. r \in Created /\ r \in Req /\ req[r].state = "WAITING"
    BY <1>0, <1>3 DEF ContainersOK, Created
  <1>5. req' = [req EXCEPT ![r] = e]
    BY <1>0, <1>1, <1>4 DEF RejectHead, RequestsOK
  <1>6. Carried(req[r], e) /\ e.state = "REJECTED"
    BY <1>0, <1>4, CarriedSelf, EndedCarried DEF State, Terminal
  <1> HIDE DEF e
  <1>7. SchedulerOK' /\ LegalStep /\ YieldStep /\ Only(r)
    BY <1>0, <1>2, <1>3, <1>5, <1>6, DequeueKeeps
  <1>8. RequestsIn(todo, "PREFILLING")'
    <2>1. \A x \in ToSet(todo) : x \in Req
      BY <1>2, ToSetIndexed DEF RequestsIn
    <2> QED BY <2>1, <1>2, <1>4, <1>7 DEF RequestsIn, Only
  <1>9. LoopOK'
    BY <1>2, <1>8 DEF LoopOK
  <1> QED BY <1>7, <1>9 DEF EngineInv

\* One turn of admit_available.
LEMMA AdmitHeadKeeps ==
    ASSUME EngineInv, AdmitHead
    PROVE  EngineInv' /\ LegalStep /\ YieldStep
  <1> DEFINE r == Head(waiting)
             ids == PrefillIds(req[r])
  <1>0. SchedulerOK /\ LoopOK /\ RequestsOK /\ ContainersOK
    BY DEF EngineInv, SchedulerOK
  <1>1. /\ pc = "admit" /\ waiting # << >> /\ ~Held(req[r])
        /\ rows' = rows /\ rows \in Seq(Req) /\ IsInjective(rows)
        /\ RequestsIn(todo, "PREFILLING")
    BY <1>0 DEF LoopOK, AdmitHead, AdmitsHead
  <1>2. Lookup(mem, ids, req[r].kind.greedy).count \in Nat
    <2>1. waiting \in Seq(Req) /\ ToSet(waiting) \subseteq Created
      BY <1>0 DEF ContainersOK
    <2>2. r \in Created
      BY <2>1, <1>1, TailSet
    <2>3. Len(ids) \in Nat \ {0}
      BY <2>2, <1>0, LiveFacts, PrefillLength
    <2> HIDE DEF ids
    <2> QED BY <2>3, LookupCount
  <1>3. \/ \E m : \E count \in Nat : \E next : Enter(r, m, count, next)
        \/ /\ pc' = "exact" /\ UNCHANGED <<req, waiting, active, order, epoch, todo>>
    <2> HIDE DEF r
    <2>1. PICK hit, e :
             /\ hit.count \in Nat
             /\ \/ Enter(r, AttachPrefix(hit.m, r, hit.blocks, hit.count),
                         hit.count, hit.next)
                \/ Enter(r, Reserve(e, r, Min({Len(ids), BlockSize})), 0, NoToken)
                \/ /\ pc' = "exact"
                   /\ UNCHANGED <<req, waiting, active, order, epoch, todo>>
      BY <1>2 DEF AdmitHead, r
    <2> QED BY <2>1
  <1>4. CASE \E m : \E count \in Nat : \E next : Enter(r, m, count, next)
    <2>1. PICK m : \E count \in Nat : \E next : Enter(r, m, count, next)
      BY <1>4
    <2>2. PICK count \in Nat : \E next : Enter(r, m, count, next)
      BY <2>1
    <2>3. PICK next : Enter(r, m, count, next)
      BY <2>2
    <2>4. PICK h : h = r
      OBVIOUS
    <2>5. /\ SchedulerOK' /\ LegalStep /\ YieldStep /\ Only(h)
          /\ req'[h].state = "PREFILLING" /\ h \in Req /\ req[h].state = "WAITING"
      BY <2>3, <2>4, <1>0, <1>1, EnterKeeps
    <2>6. pc' = pc /\ todo' = Append(todo, h)
      BY <2>3, <2>4 DEF Enter
    <2>7. RequestsIn(todo, "PREFILLING")'
      <3>1. todo \in Seq(Req) /\ IsInjective(todo) /\ ToSet(todo) \subseteq Req
            /\ \A x \in ToSet(todo) : req[x].state = "PREFILLING"
        BY <1>1, ToSetIndexed DEF RequestsIn
      <3>2. /\ todo' \in Seq(Req) /\ IsInjective(todo') /\ ToSet(todo') = ToSet(todo) \cup {h}
        BY <3>1, <2>5, <2>6, AppendSet
      <3>3. \A x \in ToSet(todo) : req'[x].state = "PREFILLING"
        BY <3>1, <2>5 DEF Only
      <3> QED BY <3>2, <3>3, <2>5 DEF RequestsIn
    <2>8. LoopOK'
      BY <2>6, <2>7, <1>1 DEF LoopOK
    <2> QED BY <2>5, <2>8 DEF EngineInv
  <1>5. CASE pc' = "exact" /\ UNCHANGED <<req, waiting, active, order, epoch, todo>>
    <2>1. SchedulerOK' /\ LegalStep /\ YieldStep
      BY <1>0, <1>5, StutterKeeps
    <2>2. RequestsIn(todo, "PREFILLING")'
      BY <1>1, <1>5 DEF RequestsIn
    <2>3. LoopOK'
      BY <2>2, <1>1, <1>5 DEF LoopOK
    <2> QED BY <2>1, <2>3 DEF EngineInv
  <1> QED BY <1>3, <1>4, <1>5

\* A request admitted in this step may need no prefill at all.
LEMMA ExactHitKeeps ==
    ASSUME EngineInv, ExactHit
    PROVE  EngineInv' /\ LegalStep /\ YieldStep
  <1>0. SchedulerOK /\ LoopOK /\ RequestsOK
    BY DEF EngineInv, SchedulerOK
  <1>1. /\ pc = "exact" /\ pc' = pc /\ todo # << >> /\ todo' = Tail(todo) /\ rows' = rows
        /\ todo \in Seq(Req) /\ IsInjective(todo)
        /\ \A x \in ToSet(todo) : req[x].state = "PREFILLING"
        /\ rows \in Seq(Req) /\ IsInjective(rows)
    BY <1>0 DEF LoopOK, ExactHit, RequestsIn
  <1>2. PICK r : r = Head(todo)
    OBVIOUS
  <1>3. /\ r \in Req /\ r \in ToSet(todo) /\ Tail(todo) \in Seq(Req)
        /\ ToSet(todo) = ToSet(Tail(todo)) \cup {r} /\ r \notin ToSet(Tail(todo))
        /\ IsInjective(Tail(todo)) /\ ToSet(todo) \subseteq Req
    BY <1>1, <1>2, TailSet, ToSetIndexed
  <1>4. r \in Live /\ r \in Created /\ req[r].state = "PREFILLING"
    BY <1>1, <1>3 DEF Live, Created
  <1>5. SchedulerOK' /\ LegalStep /\ YieldStep /\ Only(r)
    <2>1. CASE Remaining(req[r]) = 0
      <3>1. CompletePrefill(mem, r, req[r], req[r].cachedNext)
        BY <2>1, <1>2 DEF ExactHit
      <3>2. Carried(req[r], req[r])
        BY <1>0, <1>4, CarriedSelf
      <3> QED BY <3>1, <3>2, <1>0, <1>4, CompletePrefillKeeps
    <2>2. CASE Remaining(req[r]) # 0
      <3>1. UNCHANGED <<req, waiting, active, order, epoch>>
        BY <2>2, <1>2 DEF ExactHit, sched
      <3> QED BY <3>1, <1>0, StutterKeeps DEF Only
    <2> QED BY <2>1, <2>2
  <1>6. RequestsIn(todo, "PREFILLING")'
    <2>1. \A x \in ToSet(todo') : req'[x].state = "PREFILLING"
      BY <1>1, <1>3, <1>5 DEF Only
    <2> QED BY <2>1, <1>1, <1>3 DEF RequestsIn
  <1>7. LoopOK'
    BY <1>1, <1>6 DEF LoopOK
  <1> QED BY <1>5, <1>7 DEF EngineInv

\* plan_prefill and its rotation.
LEMMA PlanPrefillKeeps ==
    ASSUME EngineInv, PlanPrefill
    PROVE  EngineInv' /\ LegalStep /\ YieldStep
  <1> DEFINE p == PlanOf(order)
  <1>0. SchedulerOK /\ LoopOK /\ RequestsOK /\ order \in Seq(Req) /\ IsInjective(order)
    BY DEF EngineInv, SchedulerOK, ContainersOK
  <1>1. /\ pc' = "prefillCap" /\ plans' = p.plan /\ todo' = p.plan /\ rows' = rows
        /\ order' = SubSeq(order, p.visits + 1, Len(order)) \o SubSeq(order, 1, p.visits)
        /\ UNCHANGED <<req, waiting, active, epoch>>
    BY DEF PlanPrefill
  <1>2. IsPlan(p.plan) /\ p.visits \in 0 .. Len(order)
    BY <1>0, PlanOfIsPlan
  <1> HIDE DEF p
  <1>3. order' \in Seq(Req) /\ IsInjective(order') /\ ToSet(order') = ToSet(order)
    BY <1>0, <1>1, <1>2, RotateSet
  <1>4. SchedulerOK' /\ LegalStep /\ YieldStep
    BY <1>0, <1>1, <1>3, QuietKeeps
  <1>5. IsPlan(todo') /\ IsPlan(plans') /\ rows' \in Seq(Req) /\ IsInjective(rows')
    BY <1>0, <1>1, <1>2 DEF LoopOK
  <1>6. LoopOK'
    BY <1>1, <1>5 DEF LoopOK
  <1> QED BY <1>4, <1>6 DEF EngineInv

\* _commit_prefill, one chunk.
LEMMA CommitPrefillChunkKeeps ==
    ASSUME EngineInv, CommitPrefillChunk
    PROVE  EngineInv' /\ LegalStep /\ YieldStep
  <1>0. SchedulerOK /\ LoopOK /\ RequestsOK
    BY DEF EngineInv, SchedulerOK
  <1>1. /\ pc = "commitP" /\ pc' = pc /\ todo # << >> /\ todo' = Tail(todo) /\ rows' = rows
        /\ IsPlan(todo) /\ \A i \in 1 .. Len(todo) : req[todo[i][1]].state = "PREFILLING"
        /\ rows \in Seq(Req) /\ IsInjective(rows)
    BY <1>0 DEF LoopOK, CommitPrefillChunk, PlanIn
  <1>2. PICK r, n : r = Head(todo)[1] /\ n = Head(todo)[2]
    OBVIOUS
  <1>3. /\ r \in Req /\ n \in Nat /\ req[r].state = "PREFILLING" /\ IsPlan(Tail(todo))
        /\ \A i \in 1 .. Len(Tail(todo)) :
              /\ Tail(todo)[i][1] # r /\ Tail(todo)[i][1] \in Req
              /\ req[Tail(todo)[i][1]].state = "PREFILLING"
    <2>1. /\ IsPlan(Tail(todo)) /\ r \in Req /\ n \in Nat
          /\ 1 \in 1 .. Len(todo) /\ Head(todo) = todo[1]
          /\ \A i \in 1 .. Len(Tail(todo)) :
                /\ i + 1 \in 1 .. Len(todo) /\ Tail(todo)[i] = todo[i + 1]
                /\ Tail(todo)[i][1] # Head(todo)[1]
      BY <1>1, <1>2, PlanTail
    <2> QED BY <2>1, <1>1, <1>2 DEF IsPlan
  <1>4. r \in Live /\ r \in Created /\ IsRequest(req[r])
    BY <1>0, <1>3, LiveFacts DEF Live, Created
  <1> DEFINE q == [req[r] EXCEPT !.prefilled = @ + n]
             m == Commit(mem, r, n)
  <1>5. Carried(req[r], q) /\ q.out = req[r].out /\ q.state = "PREFILLING"
    <2> DEFINE p == req[r]
    <2>1. p = [f \in Fields |-> p[f]] /\ IsRequest(p) /\ p.state = "PREFILLING"
          /\ q = [p EXCEPT !.prefilled = p.prefilled + n]
      BY <1>3, <1>4 DEF IsRequest
    <2> HIDE DEF p, q
    <2>2. /\ q = [f \in Fields |-> q[f]]
          /\ q.state = p.state /\ q.queued = p.queued /\ q.arrival = p.arrival
          /\ q.out = p.out /\ q.yields = p.yields /\ q.epoch = p.epoch
          /\ q.kind = p.kind /\ q.prefilled = p.prefilled + n
      BY <2>1 DEF Fields
    <2>3. q.queued \in BOOLEAN /\ q.prefilled \in Nat /\ IsPrefix(p.out, q.out)
      BY <2>1, <2>2, <1>3, PrefixReflexive DEF IsRequest
    <2>4. Carried(p, q)
      BY <2>1, <2>2, <2>3 DEF Carried, IsRequest
    <2> QED BY <2>1, <2>2, <2>4 DEF p
  <1>6. \/ \E t : CompletePrefill(m, r, q, t)
        \/ req' = [req EXCEPT ![r] = q] /\ UNCHANGED <<waiting, active, order, epoch>>
    BY <1>2 DEF CommitPrefillChunk
  <1> HIDE DEF q, m
  <1>7. SchedulerOK' /\ LegalStep /\ YieldStep /\ Only(r)
    <2>1. ASSUME NEW t, CompletePrefill(m, r, q, t)
          PROVE  SchedulerOK' /\ LegalStep /\ YieldStep /\ Only(r)
      BY <2>1, <1>0, <1>3, <1>4, <1>5, CompletePrefillKeeps
    <2>2. CASE req' = [req EXCEPT ![r] = q] /\ UNCHANGED <<waiting, active, order, epoch>>
      BY <2>2, <1>0, <1>3, <1>4, <1>5, ProgressKeeps
    <2> QED BY <2>1, <2>2, <1>6
  <1>8. PlanIn(todo, "PREFILLING")'
    <2>1. \A i \in 1 .. Len(todo') : req'[todo'[i][1]].state = "PREFILLING"
      BY <1>1, <1>3, <1>7 DEF Only
    <2> QED BY <2>1, <1>1, <1>3 DEF PlanIn
  <1>9. LoopOK'
    BY <1>1, <1>8 DEF LoopOK
  <1> QED BY <1>7, <1>9 DEF EngineInv

-----------------------------------------------------------------------------
(* The theorems. *)

LEMMA InitEngineInv ==
    ASSUME Init
    PROVE  EngineInv
  <1>1. /\ req = [r \in Req |-> NoRequest] /\ waiting = << >> /\ active = << >>
        /\ order = << >> /\ epoch = 0 /\ pc = "idle" /\ rows = << >>
    BY DEF Init
  <1>2. Created = {} /\ Live = {}
    BY <1>1 DEF Created, Live, NoRequest
  <1>3. RequestsOK /\ ArrivalsOK
    BY <1>1, <1>2 DEF RequestsOK, ArrivalsOK
  <1>4. ContainersOK
    BY <1>1, <1>2, EmptyLists DEF ContainersOK
  <1>5. QueueOK
    <2>1. Len(waiting) = 0 /\ 1 .. 0 = {} /\ ToSet(active) = {}
      BY <1>1, EmptyLists
    <2> QED BY <2>1, <1>2 DEF QueueOK, ArrivalOrderKept
  <1>6. EpochsOK
    BY <1>1, <1>2 DEF EpochsOK, YieldsBounded
  <1>7. LoopOK
    BY <1>1, EmptyLists DEF LoopOK
  <1> QED BY <1>3, <1>4, <1>5, <1>6, <1>7 DEF EngineInv, SchedulerOK

LEMMA NextEngineInv ==
    ASSUME EngineInv, Next
    PROVE  EngineInv' /\ LegalStep /\ YieldStep
  <1>1. CASE \/ \E k \in Workload : Create(k)
             \/ \E r \in Req : Submit(r) \/ Cancel(r)
    BY <1>1, CallsKeep
  <1>2. CASE BeginStep
    BY <1>2, BeginStepKeeps
  <1>3. CASE DecodeRowCapacity
    BY <1>3, DecodeRowCapacityKeeps
  <1>4. CASE CommitDecodeRow
    BY <1>4, CommitDecodeRowKeeps
  <1>5. CASE RejectHead
    BY <1>5, RejectHeadKeeps
  <1>6. CASE AdmitHead
    BY <1>6, AdmitHeadKeeps
  <1>7. CASE ExactHit
    BY <1>7, ExactHitKeeps
  <1>8. CASE PlanPrefill
    BY <1>8, PlanPrefillKeeps
  <1>9. CASE PrefillChunkCapacity
    BY <1>9, PrefillChunkCapacityKeeps
  <1>10. CASE CommitPrefillChunk
    BY <1>10, CommitPrefillChunkKeeps
  <1>11. CASE \/ DecodeRowsReady \/ DecodeForward \/ DecodeCommitted
              \/ AdmissionEnds \/ ExactDone \/ PrefillChunksReady \/ FusedForward
              \/ EndStep \/ WaitForWork
    BY <1>11, LoopTurnsKeep
  <1> QED BY <1>1, <1>2, <1>3, <1>4, <1>5, <1>6, <1>7, <1>8, <1>9, <1>10, <1>11
          DEF Next, Step

LEMMA StutterEngineInv ==
    ASSUME EngineInv, UNCHANGED vars
    PROVE  EngineInv' /\ LegalStep /\ YieldStep
  <1>0. SchedulerOK /\ LoopOK
    BY DEF EngineInv
  <1>1. SchedulerOK' /\ LegalStep /\ YieldStep
    BY <1>0, StutterKeeps DEF vars, sched
  <1>2. req' = req /\ pc' = pc /\ todo' = todo /\ rows' = rows /\ plans' = plans
    BY DEF vars, sched
  <1>3. LoopOK'
    BY <1>0, <1>2 DEF LoopOK, RequestsIn, PlanIn
  <1> QED BY <1>1, <1>3 DEF EngineInv

(***************************************************************************)
(* What the scheduler and the loops of a step rely on holds at every turn: *)
(* each container holds exactly the requests whose state says so, arrivals *)
(* are distinct, and the rows and chunks a loop commits without looking    *)
(* again are still decoding or prefilling.                                 *)
(***************************************************************************)
THEOREM EngineInvariant == Spec => []EngineInv
  <1>1. Init => EngineInv
    BY InitEngineInv
  <1>2. EngineInv /\ [Next]_vars => EngineInv'
    BY NextEngineInv, StutterEngineInv
  <1> QED BY <1>1, <1>2, PTL DEF Spec

(***************************************************************************)
(* GenerationRequest.transition never raises inside the worker, output is  *)
(* only appended to and a terminal request never changes again.            *)
(***************************************************************************)
THEOREM TransitionsLegal == Spec => LegalTransitions
  <1>1. EngineInv /\ [Next]_vars => [LegalStep]_vars
    BY NextEngineInv
  <1>2. Spec => [][LegalStep]_vars
    BY <1>1, EngineInvariant, PTL DEF Spec
  <1> QED BY <1>2 DEF LegalTransitions, LegalStep

(***************************************************************************)
(* Policy 1 of scheduler.py: _acquire_capacity never displaces the oldest  *)
(* active request.                                                         *)
(***************************************************************************)
THEOREM OldestKeepsRunning == Spec => OldestNeverYields
  <1>1. EngineInv /\ [Next]_vars => [YieldStep]_vars
    BY NextEngineInv
  <1>2. Spec => [][YieldStep]_vars
    BY <1>1, EngineInvariant, PTL DEF Spec
  <1> QED BY <1>2 DEF OldestNeverYields, YieldStep

(***************************************************************************)
(* First come first served and bounded recompute, when requests reach      *)
(* submit in the order of their created_ns: _requeue_in_arrival_order puts *)
(* a yielded request back where it belongs, and the progress epoch lets it *)
(* yield at most once per request that ends.                               *)
(***************************************************************************)
THEOREM ServedInOrder ==
    ASSUME InOrder
    PROVE  Spec => []FirstComeFirstServed
  <1>1. EngineInv => FirstComeFirstServed
    BY DEF EngineInv, SchedulerOK, QueueOK, EpochsOK, FirstComeFirstServed
  <1> QED BY <1>1, EngineInvariant, PTL

-----------------------------------------------------------------------------
(* What a request has computed. *)

Running == {"PREFILLING", "DECODING"}

\* _finish_reason is about the kind of request and the tokens so far.
ReasonOf(kind, out) ==
    IF Last(out) \in kind.stop THEN "STOP"
    ELSE IF ~kind.ignoreEos /\ Last(out) \in EosIds THEN "EOS"
    ELSE IF Len(out) >= kind.maxNew THEN "LENGTH"
    ELSE "none"

\* The output of q is a run of greedy decoding that ends where it must.
OutputOK(q) ==
    /\ q.out \in Seq(Token)
    /\ q.kind.greedy => q.kind.prompt \o q.out = Solo(q.kind.prompt, Len(q.out))
    /\ \A i \in 1 .. Len(q.out) - 1 : ReasonOf(q.kind, Prefix(q.out, i)) = "none"
    /\ q.out # << >> /\ q.state \notin Terminal => ReasonOf(q.kind, q.out) = "none"
    /\ q.state = "FINISHED" => q.out # << >> /\ ReasonOf(q.kind, q.out) = q.reason

\* A request that waits or prefills resumes iff it has output; one that has nothing
\* left to prefill without having computed it found the whole prompt in the cache.
PhaseOK(q) ==
    /\ q.state \in {"WAITING", "PREFILLING"} => (q.resuming <=> q.out # << >>)
    /\ q.state = "PREFILLING" =>
          /\ q.prefilled <= Len(PrefillIds(q))
          /\ q.prefilled = Len(PrefillIds(q)) /\ ~q.resuming =>
                q.kind.greedy /\ q.cachedNext = Model(q.kind.prompt)
    /\ q.state = "DECODING" => q.out # << >> /\ q.next = Last(q.out)

RequestBooks(q) ==
    /\ q.kind \in Workload /\ q.next \in Token \cup {NoToken}
    /\ q.cachedNext \in Token \cup {NoToken}
    /\ OutputOK(q) /\ PhaseOK(q)

Books == \A r \in Created : RequestBooks(req[r])
LEMMA Assigned ==
    ASSUME RequestsOK, NEW r \in Req, NEW q, req' = [req EXCEPT ![r] = q]
    PROVE  req'[r] = q /\ Only(r)
  <1>1. req = [x \in Req |-> req[x]]
    BY DEF RequestsOK
  <1> QED BY <1>1 DEF Only

LEMMA EndedFields ==
    ASSUME NEW q, IsRequest(q), NEW state, NEW reason
    PROVE  LET e == Ended(q, state, reason)
           IN  /\ e.state = state /\ e.reason = reason /\ e.kind = q.kind /\ e.out = q.out
               /\ e.next = q.next /\ e.cachedNext = q.cachedNext
  <1>1. q = [f \in Fields |-> q[f]]
    BY DEF IsRequest
  <1>2. DOMAIN q = Fields
    BY <1>1
  <1>3. {"state", "kind", "out", "next", "cachedNext", "reason"} \subseteq DOMAIN q
    BY <1>2 DEF Fields
  <1> QED BY <1>3 DEF Ended

-----------------------------------------------------------------------------
(* Requests. *)

\* The model answers every context with a token.
ModelTyped == \A s \in Seq(Token) : Model(s) \in Token

\* The tokens whose keys and values the pages of a request stand for.
Story(q) == IF q.state \in Running THEN q.kind.prompt \o q.out ELSE << >>

StoriesOf(rq) == [r \in Req |-> Story(rq[r])]

LEMMA KindFacts ==
    ASSUME NEW k \in Kind
    PROVE  /\ k.prompt \in Prompts /\ k.prompt \in Seq(Token) /\ k.prompt # << >>
           /\ Len(k.prompt) \in Nat \ {0}
           /\ k.maxNew \in Nat \ {0} /\ k.greedy \in BOOLEAN
  <1>1. k.prompt \in Prompts /\ k.maxNew \in Nat \ {0} /\ k.greedy \in BOOLEAN
    BY DEF Kind
  <1>2. k.prompt \in Seq(Token) /\ k.prompt # << >>
    BY <1>1, KVAssumption
  <1> QED BY <1>1, <1>2, EmptySeq

LEMMA FrontFacts ==
    ASSUME NEW S, NEW s \in Seq(S), s # << >>
    PROVE  /\ Front(s) \in Seq(S) /\ Len(Front(s)) = Len(s) - 1 /\ Len(s) \in Nat \ {0}
           /\ \A i \in 1 .. Len(s) - 1 : Front(s)[i] = s[i]
           /\ Last(s) = s[Len(s)] /\ Last(s) \in S
  <1> DEFINE n == Len(s) - 1
  <1>1. Len(s) \in Nat \ {0} /\ n \in Nat
    BY EmptySeq
  <1>2. \A i \in 1 .. n : s[i] \in S
    BY <1>1
  <1>3. Front(s) = SubSeq(s, 1, n)
    BY DEF Front
  <1>4. Last(s) = s[Len(s)] /\ s[Len(s)] \in S
    BY <1>1 DEF Last
  <1> HIDE DEF n
  <1>5. /\ SubSeq(s, 1, n) \in Seq(S) /\ Len(SubSeq(s, 1, n)) = IF 1 <= n THEN n - 1 + 1 ELSE 0
        /\ \A i \in 1 .. n - 1 + 1 : SubSeq(s, 1, n)[i] = s[1 + i - 1]
    BY <1>1, <1>2, SubSeqProperties
  <1>6. Len(SubSeq(s, 1, n)) = n /\ \A i \in 1 .. n : SubSeq(s, 1, n)[i] = s[i]
    BY <1>1, <1>5
  <1> QED BY <1>1, <1>3, <1>4, <1>5, <1>6 DEF n

\* A prompt, what was generated, and the part of both that r must prefill.
LEMMA StoryFacts ==
    ASSUME NEW q, q.kind \in Workload, q.out \in Seq(Token)
    PROVE  LET s == q.kind.prompt \o q.out
               ids == PrefillIds(q)
           IN  /\ q.kind \in Kind
               /\ s \in Seq(Token) /\ Len(s) = Len(q.kind.prompt) + Len(q.out)
               /\ Len(q.kind.prompt) \in Nat \ {0} /\ Len(q.out) \in Nat
               /\ \A i \in 1 .. Len(q.kind.prompt) : s[i] = q.kind.prompt[i]
               /\ q.resuming = FALSE => ids = q.kind.prompt
               /\ (q.resuming <=> q.out # << >>) =>
                     /\ ids \in Seq(Token) /\ ids # << >>
                     /\ Len(ids) \in Nat \ {0} /\ Len(ids) <= Len(s)
                     /\ \A i \in 1 .. Len(ids) : ids[i] = s[i]
                     /\ q.out = << >> => ids = q.kind.prompt
                     /\ q.out # << >> => Len(ids) = Len(s) - 1 /\ Len(q.kind.prompt) <= Len(ids)
  <1> DEFINE p == q.kind.prompt
             o == q.out
             s == p \o o
             ids == PrefillIds(q)
  <1>1. q.kind \in Kind
    BY EngineAssumption
  <1>2. p \in Seq(Token) /\ Len(p) \in Nat \ {0} /\ p # << >>
    BY <1>1, KindFacts
  <1>3. o \in Seq(Token) /\ Len(o) \in Nat
    OBVIOUS
  <1>4. ids = IF q.resuming THEN p \o Front(o) ELSE p
    BY DEF PrefillIds
  <1> HIDE DEF p, o, ids
  <1>5. /\ s \in Seq(Token) /\ Len(s) = Len(p) + Len(o)
        /\ \A i \in 1 .. Len(p) : s[i] = p[i]
        /\ \A i \in 1 .. Len(o) : s[Len(p) + i] = o[i]
    BY <1>2, <1>3
  <1> HIDE DEF s
  <1>6. CASE o = << >>
    <2>1. ASSUME q.resuming <=> o # << >>
          PROVE  ids = p /\ Len(o) = 0
      BY <2>1, <1>4, <1>6, EmptySeq
    <2> QED BY <2>1, <1>1, <1>2, <1>3, <1>4, <1>5, <1>6 DEF p, o, s, ids
  <1>7. CASE o # << >>
    <2>1. Len(o) \in Nat \ {0}
      BY <1>3, <1>7, EmptySeq
    <2>2. Front(o) \in Seq(Token) /\ Len(Front(o)) = Len(o) - 1
          /\ \A i \in 1 .. Len(o) - 1 : Front(o)[i] = o[i]
      BY <1>3, <1>7, FrontFacts
    <2>3. ASSUME q.resuming <=> o # << >>
          PROVE  /\ ids \in Seq(Token) /\ Len(ids) = Len(p) + Len(o) - 1
                 /\ \A i \in 1 .. Len(ids) : ids[i] = s[i]
      <3> DEFINE f == Front(o)
      <3>1. ids = p \o f
        BY <2>3, <1>4, <1>7
      <3>2. f \in Seq(Token) /\ Len(f) = Len(o) - 1 /\ \A i \in 1 .. Len(o) - 1 : f[i] = o[i]
        BY <2>2
      <3> HIDE DEF f
      <3>3. /\ ids \in Seq(Token) /\ Len(ids) = Len(p) + Len(f)
            /\ \A i \in 1 .. Len(p) : ids[i] = p[i]
            /\ \A i \in 1 .. Len(f) : ids[Len(p) + i] = f[i]
        <4>1. p \o f \in Seq(Token) /\ Len(p \o f) = Len(p) + Len(f)
              /\ \A i \in 1 .. Len(p) + Len(f) :
                    (p \o f)[i] = IF i <= Len(p) THEN p[i] ELSE f[i - Len(p)]
          BY <3>2, <1>2, ConcatProperties
        <4>2. Len(f) \in Nat
          BY <3>2, LenProperties
        <4> QED BY <4>1, <4>2, <3>1, <1>2
      <3>4. ASSUME NEW i \in 1 .. Len(ids) PROVE ids[i] = s[i]
        <4>1. CASE i <= Len(p)
          BY <4>1, <3>3, <1>2, <1>5
        <4>2. CASE ~(i <= Len(p))
          <5>1. i - Len(p) \in 1 .. Len(f) /\ i - Len(p) \in 1 .. Len(o) /\ i = Len(p) + (i - Len(p))
            BY <4>2, <3>2, <3>3, <2>1, <1>2
          <5> DEFINE j == i - Len(p)
          <5>2. ids[i] = f[j] /\ s[i] = o[j] /\ f[j] = o[j]
            BY <5>1, <3>2, <3>3, <1>5
          <5> QED BY <5>2
        <4> QED BY <4>1, <4>2
      <3> QED BY <3>2, <3>3, <3>4, <2>1, <1>2
    <2>4. ASSUME q.resuming <=> o # << >>
          PROVE  /\ ids # << >> /\ Len(ids) \in Nat \ {0} /\ Len(ids) <= Len(s)
                 /\ Len(ids) = Len(s) - 1 /\ Len(p) <= Len(ids)
      <3>1. Len(ids) \in Nat \ {0} /\ Len(ids) <= Len(s) /\ Len(ids) = Len(s) - 1 /\ Len(p) <= Len(ids)
        BY <2>1, <2>3, <2>4, <1>2, <1>5
      <3> QED BY <3>1, EmptySeq
    <2> QED BY <2>3, <2>4, <1>1, <1>2, <1>3, <1>4, <1>5, <1>7 DEF p, o, s, ids
  <1> QED BY <1>6, <1>7 DEF o

\* Every request has a story, the empty one while it holds no pages.
LEMMA StoriesTyped ==
    ASSUME RequestsOK, \A r \in Created : RequestBooks(req[r])
    PROVE  /\ StoriesOf(req) \in [Req -> Seq(Token)]
           /\ \A r \in Req : StoriesOf(req)[r] = Story(req[r]) /\ Story(req[r]) \in Seq(Token)
  <1>1. ASSUME NEW r \in Req PROVE Story(req[r]) \in Seq(Token)
    <2>1. CASE req[r].state \in Running
      <3>1. r \in Created
        BY <2>1 DEF Created, Running
      <3>2. req[r].kind \in Workload /\ req[r].out \in Seq(Token)
        BY <3>1 DEF RequestBooks, OutputOK
      <3> QED BY <2>1, <3>2, StoryFacts DEF Story
    <2>2. CASE req[r].state \notin Running
      BY <2>2 DEF Story
    <2> QED BY <2>1, <2>2
  <1> QED BY <1>1 DEF StoriesOf

\* What holds of a request that holds pages.
LEMMA RunningFacts ==
    ASSUME RequestsOK, Books, NEW r \in Live
    PROVE  LET q == req[r]
           IN  /\ r \in Req /\ r \in Created /\ IsRequest(q) /\ RequestBooks(q)
               /\ q.kind \in Workload /\ q.out \in Seq(Token) /\ q.state \notin Terminal
               /\ Story(q) = q.kind.prompt \o q.out
               /\ Story(q) \in Seq(Token) /\ StoriesOf(req)[r] = Story(q)
               /\ Len(Story(q)) = Len(q.kind.prompt) + Len(q.out)
               /\ Len(q.kind.prompt) \in Nat \ {0} /\ Len(q.out) \in Nat
               /\ q.kind.prompt \in Seq(Token) /\ q.kind.prompt \in Prompts
               /\ q.kind \in Kind
  <1>1. r \in Req /\ r \in Created /\ IsRequest(req[r]) /\ req[r].state \in {"PREFILLING", "DECODING"}
    BY LiveFacts
  <1>2. RequestBooks(req[r])
    BY <1>1 DEF Books
  <1>3. req[r].kind \in Workload /\ req[r].out \in Seq(Token)
    BY <1>2 DEF RequestBooks, OutputOK
  <1>4. req[r].kind \in Kind
    BY <1>3, EngineAssumption
  <1>5. Story(req[r]) = req[r].kind.prompt \o req[r].out /\ req[r].state \notin Terminal
    BY <1>1 DEF Story, Running, Terminal
  <1>6. StoriesOf(req)[r] = Story(req[r])
    BY <1>1 DEF StoriesOf
  <1>7. /\ Story(req[r]) \in Seq(Token)
        /\ Len(Story(req[r])) = Len(req[r].kind.prompt) + Len(req[r].out)
        /\ Len(req[r].kind.prompt) \in Nat \ {0} /\ Len(req[r].out) \in Nat
    BY <1>3, <1>5, StoryFacts
  <1>8. req[r].kind.prompt \in Seq(Token) /\ req[r].kind.prompt \in Prompts
    BY <1>4, KindFacts
  <1> QED BY <1>1, <1>2, <1>3, <1>4, <1>5, <1>6, <1>7, <1>8

\* Sequences that agree up to n have the same prefixes up to there.
LEMMA SamePrefixes ==
    ASSUME NEW s \in Seq(Token), NEW u \in Seq(Token), NEW n \in Nat, n <= Len(s), n <= Len(u),
           \A i \in 1 .. n : u[i] = s[i]
    PROVE  \A q \in 1 .. n : Prefix(u, q) = Prefix(s, q)
  <1> TAKE q \in 1 .. n
  <1>1. q \in Nat /\ Len(s) \in Nat /\ Len(u) \in Nat
    BY LenProperties
  <1>2. /\ Prefix(s, q) \in Seq(Token) /\ Prefix(u, q) \in Seq(Token)
        /\ Len(Prefix(s, q)) = q /\ Len(Prefix(u, q)) = q
        /\ \A i \in 1 .. q : Prefix(s, q)[i] = s[i] /\ Prefix(u, q)[i] = u[i]
    BY <1>1 DEF Prefix
  <1> DEFINE a == Prefix(u, q)
             b == Prefix(s, q)
  <1>3. \A i \in 1 .. Len(a) : a[i] = b[i]
    BY <1>2
  <1>4. a \in Seq(Token) /\ b \in Seq(Token) /\ Len(a) = Len(b)
    BY <1>2
  <1> HIDE DEF a, b
  <1>5. a = b
    BY <1>3, <1>4, SeqEqual
  <1> QED BY <1>5 DEF a, b

\* s is the same sequence as u up to n.
Follows(s, u, n) == n <= Len(s) /\ \A q \in 1 .. n : Prefix(s, q) = Prefix(u, q)

LEMMA FollowsAppend ==
    ASSUME NEW s \in Seq(Token), NEW t \in Token, NEW n \in Nat, n <= Len(s)
    PROVE  /\ Follows(Append(s, t), s, n) /\ Append(s, t) \in Seq(Token)
           /\ Len(Append(s, t)) = Len(s) + 1
  <1> DEFINE u == Append(s, t)
  <1>1. u \in Seq(Token) /\ Len(u) = Len(s) + 1 /\ \A i \in 1 .. Len(s) : u[i] = s[i]
    BY AppendProperties
  <1>2. Len(s) \in Nat
    BY LenProperties
  <1> HIDE DEF u
  <1>3. n <= Len(s) /\ n <= Len(u) /\ \A i \in 1 .. n : u[i] = s[i]
    BY <1>1, <1>2
  <1>4. \A q \in 1 .. n : Prefix(u, q) = Prefix(s, q)
    BY <1>1, <1>3, SamePrefixes
  <1> QED BY <1>1, <1>3, <1>4 DEF Follows, u

-----------------------------------------------------------------------------
(* Greedy decoding alone. *)

Decoded(s) == Append(s, Model(s))

\* h[i] is the sequence after i tokens.
SoloRun(h, n, p) ==
    /\ h[0] = p /\ \A i \in 1 .. n : h[i] = Decoded(h[i - 1])
    /\ \A i \in 0 .. n : h[i] \in Seq(Token)

LEMMA SoloRuns ==
    ASSUME ModelTyped, NEW p \in Seq(Token), NEW n \in Nat
    PROVE  \E h : SoloRun(h, n, p) /\ Solo(p, n) = h[n]
  <1> DEFINE G == [i \in 1 .. n |-> [s \in Seq(Token) |-> Decoded(s)]]
             step(f) == [i \in 0 .. n |-> IF i = 0 THEN p ELSE Decoded(f[i - 1])]
             k == CHOOSE f : f = step(f)
  <1>0. Solo(p, n) = k[n]
    BY DEF Solo, Decoded
  <1>1. \A s \in Seq(Token) : Decoded(s) \in Seq(Token)
    <2> TAKE s \in Seq(Token)
    <2>1. Model(s) \in Token
      BY DEF ModelTyped
    <2> QED BY <2>1, AppendProperties DEF Decoded
  <1>2. G \in [1 .. n -> [Seq(Token) -> Seq(Token)]]
    BY <1>1
  <1>3. \A i \in 1 .. n : \A s \in Seq(Token) : G[i][s] = Decoded(s)
    OBVIOUS
  <1> HIDE DEF G
  <1>4. PICK h : Recursion(h, n, Seq(Token), p, G)
    BY <1>2, RecursionExists
  <1>5. h \in [0 .. n -> Seq(Token)] /\ h[0] = p /\ \A i \in 1 .. n : h[i] = G[i][h[i - 1]]
    BY <1>4 DEF Recursion
  <1>6. ASSUME NEW i \in 0 .. n PROVE h[i] = IF i = 0 THEN p ELSE Decoded(h[i - 1])
    <2>1. CASE i = 0
      BY <2>1, <1>5
    <2>2. CASE i # 0
      <3>1. i \in 1 .. n /\ i - 1 \in 0 .. n
        BY <2>2
      <3>2. h[i - 1] \in Seq(Token)
        BY <3>1, <1>5
      <3> QED BY <2>2, <3>1, <3>2, <1>3, <1>5
    <2> QED BY <2>1, <2>2
  <1>7. h = step(h)
    BY <1>5, <1>6
  <1>8. k = step(k)
    BY <1>7
  <1> HIDE DEF k
  <1>9. k[0] = p /\ \A i \in 1 .. n : k[i] = Decoded(k[i - 1])
    <2>1. \A i \in 0 .. n : k[i] = IF i = 0 THEN p ELSE Decoded(k[i - 1])
      BY <1>8
    <2> QED BY <2>1
  <1>10. \A i \in 0 .. n : k[i] \in Seq(Token)
    <2> DEFINE U == [i \in 0 .. n |-> Seq(Token)]
    <2>1. k[0] \in U[0]
      BY <1>9
    <2>2. ASSUME NEW i \in 1 .. n, k[i - 1] \in U[i - 1] PROVE k[i] \in U[i]
      <3>1. i - 1 \in 0 .. n /\ i \in 0 .. n
        OBVIOUS
      <3> QED BY <3>1, <2>2, <1>1, <1>9
    <2>3. \A i \in 1 .. n : k[i - 1] \in U[i - 1] => k[i] \in U[i]
      BY <2>2
    <2>4. \A i \in 0 .. n : U[i] = Seq(Token)
      OBVIOUS
    <2> HIDE DEF U
    <2>5. \A i \in 0 .. n : k[i] \in U[i]
      BY <2>1, <2>3, StagedStays
    <2> QED BY <2>4, <2>5
  <1> QED BY <1>0, <1>9, <1>10 DEF SoloRun

\* One more token is one more step of the model.
LEMMA SoloNext ==
    ASSUME ModelTyped, NEW p \in Seq(Token), NEW n \in Nat
    PROVE  /\ Solo(p, 0) = p /\ Solo(p, n) \in Seq(Token)
           /\ Solo(p, n + 1) = Decoded(Solo(p, n))
  <1>1. PICK h : SoloRun(h, n, p) /\ Solo(p, n) = h[n]
    BY SoloRuns
  <1>2. PICK g : SoloRun(g, n + 1, p) /\ Solo(p, n + 1) = g[n + 1]
    BY SoloRuns
  <1>3. PICK z : SoloRun(z, 0, p) /\ Solo(p, 0) = z[0]
    BY SoloRuns
  <1> DEFINE T == {i \in 0 .. n : g[i] = h[i]}
  <1>4. 0 \in T
    BY <1>1, <1>2 DEF SoloRun
  <1>5. ASSUME NEW i \in 0 .. n - 1, i \in T PROVE i + 1 \in T
    <2>1. i + 1 \in 1 .. n /\ i + 1 \in 1 .. n + 1 /\ (i + 1) - 1 = i
      OBVIOUS
    <2>2. h[i + 1] = Decoded(h[i]) /\ g[i + 1] = Decoded(g[i])
      BY <2>1, <1>1, <1>2 DEF SoloRun
    <2> QED BY <2>1, <2>2, <1>5
  <1>6. n \in T
    <2> HIDE DEF T
    <2>1. \A i \in 0 .. n - 1 : i \in T => i + 1 \in T
      BY <1>5
    <2>2. \A i \in 0 .. n : i \in T
      BY <2>1, <1>4, BoundedInduction
    <2> QED BY <2>2
  <1>7. g[n + 1] = Decoded(g[n])
    <2>1. n + 1 \in 1 .. n + 1 /\ (n + 1) - 1 = n
      OBVIOUS
    <2> QED BY <2>1, <1>2 DEF SoloRun
  <1>8. h[n] \in Seq(Token) /\ z[0] = p
    BY <1>1, <1>3 DEF SoloRun
  <1> QED BY <1>1, <1>2, <1>3, <1>6, <1>7, <1>8

-----------------------------------------------------------------------------
(* The output of a request. *)

LEMMA ReasonIs == ASSUME NEW q PROVE FinishReason(q) = ReasonOf(q.kind, q.out)
  BY DEF FinishReason, ReasonOf

LEMMA OutputSame ==
    ASSUME NEW q, NEW u, OutputOK(q), q.state \notin Terminal, u.kind = q.kind, u.out = q.out,
           u.state # "FINISHED"
    PROVE  OutputOK(u)
  BY DEF OutputOK

\* u is q with the token t, and says what that token means.
Answers(q, u, t) ==
    /\ u.kind = q.kind /\ u.out = Append(q.out, t)
    /\ u.state \notin Terminal => ReasonOf(u.kind, u.out) = "none"
    /\ u.state = "FINISHED" => ReasonOf(u.kind, u.out) = u.reason

LEMMA AppendInside ==
    ASSUME NEW p \in Seq(Token), NEW o \in Seq(Token), NEW t \in Token
    PROVE  p \o Append(o, t) = Append(p \o o, t)
  BY ConcatAssociative, AppendIsConcat

LEMMA OutputAppended ==
    ASSUME ModelTyped, NEW q, q.kind \in Workload, OutputOK(q), q.state \notin Terminal,
           NEW t \in Token, q.kind.greedy => t = Model(q.kind.prompt \o q.out),
           NEW u, Answers(q, u, t)
    PROVE  OutputOK(u) /\ u.out # << >> /\ Last(u.out) = t /\ u.out \in Seq(Token)
           /\ Len(u.out) = Len(q.out) + 1
  <1> DEFINE p == q.kind.prompt
             o == q.out
             v == Append(o, t)
             k == q.kind
  <1>1. o \in Seq(Token) /\ Len(o) \in Nat /\ p \in Seq(Token)
    <2>1. q.kind \in Kind
      BY EngineAssumption
    <2> QED BY <2>1, KindFacts DEF OutputOK
  <1>2. u.kind = k /\ u.out = v
    BY DEF Answers
  <1>3. \A i \in 1 .. Len(o) - 1 : ReasonOf(k, Prefix(o, i)) = "none"
    BY DEF OutputOK
  <1>4. o # << >> => ReasonOf(k, o) = "none"
    BY DEF OutputOK
  <1>5. k.greedy => t = Model(p \o o) /\ p \o o = Solo(p, Len(o))
    BY DEF OutputOK
  <1>a. q.kind.prompt = p /\ u.kind.prompt = p
    BY <1>2
  <1> HIDE DEF p, o, v, k
  <1>6. /\ v \in Seq(Token) /\ v # << >> /\ Len(v) = Len(o) + 1
        /\ \A i \in 1 .. Len(o) : v[i] = o[i]
        /\ v[Len(o) + 1] = t
    BY <1>1, AppendProperties DEF v
  <1>7. Last(v) = t
    BY <1>6 DEF Last
  <1>8. k.greedy => p \o v = Solo(p, Len(v))
    <2> HAVE k.greedy
    <2>1. p \o v = Append(p \o o, t)
      <3>1. p \o Append(o, t) = Append(p \o o, t)
        BY <1>1, AppendInside
      <3> QED BY <3>1 DEF v
    <2>2. Solo(p, Len(o) + 1) = Decoded(Solo(p, Len(o)))
      BY <1>1, SoloNext
    <2> QED BY <2>1, <2>2, <1>5, <1>6 DEF Decoded
  <1>9. ASSUME NEW i \in 1 .. Len(v) - 1 PROVE ReasonOf(k, Prefix(v, i)) = "none"
    <2>1. i \in 1 .. Len(o) /\ i \in Nat
      BY <1>1, <1>6
    <2>2. Prefix(v, i) = Prefix(o, i)
      BY <2>1, <1>1, <1>6 DEF Prefix
    <2>3. CASE i = Len(o)
      <3>1. Prefix(o, i) = o
        BY <2>3, <1>1, SubSeqFull DEF Prefix
      <3>2. o # << >>
        BY <2>1, <2>3, EmptySeq
      <3> QED BY <3>1, <3>2, <2>2, <1>4
    <2>4. CASE i # Len(o)
      <3>1. i \in 1 .. Len(o) - 1
        BY <2>1, <2>4, <1>1
      <3> QED BY <3>1, <2>2, <1>3
    <2> QED BY <2>3, <2>4
  <1>10. u.state \notin Terminal => ReasonOf(k, v) = "none"
    BY <1>2 DEF Answers
  <1>11. u.state = "FINISHED" => v # << >> /\ ReasonOf(k, v) = u.reason
    BY <1>2, <1>6 DEF Answers
  <1>12. OutputOK(u)
    BY <1>2, <1>a, <1>6, <1>8, <1>9, <1>10, <1>11 DEF OutputOK
  <1> QED BY <1>2, <1>6, <1>7, <1>12 DEF o

LEMMA SeqGrows ==
    ASSUME NEW S, NEW T, S \subseteq T, NEW s \in Seq(S)
    PROVE  s \in Seq(T)
  OBVIOUS

\* A list of members of S.
LEMMA SeqIn ==
    ASSUME NEW T, NEW S, NEW s \in Seq(T), ToSet(s) \subseteq S
    PROVE  s \in Seq(S)
  <1>1. \A i \in 1 .. Len(s) : s[i] \in S
    BY ToSetIndexed
  <1> QED BY <1>1

-----------------------------------------------------------------------------
(* Seeded requests: the generators of one sample.                          *)
(*                                                                         *)
(* Three facts together keep a stream whole.  The requests that are        *)
(* submitted and have not ended are at most MaxActive + MaxWaiting, and    *)
(* only they have generators or are sampled, so nothing is ever dropped    *)
(* from a map with room for them.  Each row of a forward draws exactly     *)
(* once.  And a token is appended only by a commit loop, to a request      *)
(* whose row was in the forward that precedes the loop.                    *)

\* What _sample keeps of generators and draws, within its bound.
Streams == [gens : Seq(Req), drawn : [Req -> Nat]]

StreamsFit(st) ==
    st \in Streams /\ IsInjective(st.gens) /\ Len(st.gens) <= MaxGenerators

LEMMA RowGeneratorKeeps ==
    ASSUME NEW st, StreamsFit(st), NEW r \in Req, NEW u, u = RowGenerator(st, r)
    PROVE  /\ StreamsFit(u) /\ ToSet(u.gens) \subseteq ToSet(st.gens) \cup {r}
           /\ Cardinality(ToSet(st.gens) \cup {r}) <= MaxGenerators =>
                 ToSet(u.gens) = ToSet(st.gens) \cup {r}
           /\ u.drawn[r] = IF r \in ToSet(st.gens) THEN st.drawn[r] + 1 ELSE 1
           /\ \A x \in Req \ {r} : u.drawn[x] = st.drawn[x]
  <1> DEFINE w == Without(st.gens, r)
             a == Append(w, r)
  <1>1. st.gens \in Seq(Req) /\ IsInjective(st.gens) /\ st.drawn \in [Req -> Nat]
        /\ Len(st.gens) <= MaxGenerators /\ MaxGenerators \in Nat \ {0}
    BY GeneratorAssumption DEF StreamsFit, Streams
  <1>2. w \in Seq(Req) /\ ToSet(w) = ToSet(st.gens) \ {r} /\ IsInjective(w)
    BY <1>1, WithoutProperties
  <1>3. u.gens = DropOldest(a) /\ u.drawn = [st.drawn EXCEPT ![r] =
                                     IF r \in ToSet(st.gens) THEN @ + 1 ELSE 1]
        /\ u = [gens |-> u.gens, drawn |-> u.drawn]
    BY DEF RowGenerator
  <1> HIDE DEF w
  <1>4. /\ a \in Seq(Req) /\ ToSet(a) = ToSet(st.gens) \cup {r} /\ IsInjective(a)
        /\ Len(a) = Len(w) + 1 /\ a # << >> /\ Len(w) \in Nat
    BY <1>2, AppendSet
  <1> HIDE DEF a
  <1>5. Len(w) <= MaxGenerators
    <2>1. Cardinality(ToSet(w)) = Len(w)
      BY <1>2, LengthCounts
    <2>2. Cardinality(ToSet(st.gens)) = Len(st.gens) /\ IsFiniteSet(ToSet(st.gens))
      BY <1>1, LengthCounts
    <2>3. Len(w) <= Len(st.gens)
      BY <1>2, <2>1, <2>2, FS_Subset
    <2>4. Len(st.gens) \in Nat
      BY <1>1
    <2> QED BY <1>1, <1>4, <2>3, <2>4
  <1>6. /\ Tail(a) \in Seq(Req) /\ IsInjective(Tail(a)) /\ ToSet(Tail(a)) \subseteq ToSet(a)
        /\ Len(Tail(a)) = Len(w)
    BY <1>4, TailSet
  <1>7. u.drawn \in [Req -> Nat] /\ u.drawn[r] = (IF r \in ToSet(st.gens) THEN st.drawn[r] + 1 ELSE 1)
        /\ \A x \in Req \ {r} : u.drawn[x] = st.drawn[x]
    BY <1>1, <1>3
  <1>8. CASE Len(a) > MaxGenerators
    <2>1. u.gens = Tail(a)
      BY <1>3, <1>8 DEF DropOldest
    <2>2. StreamsFit(u)
      BY <2>1, <1>3, <1>5, <1>6, <1>7 DEF StreamsFit, Streams
    <2>3. Cardinality(ToSet(a)) = Len(a)
      BY <1>4, LengthCounts
    <2>4. ~(Cardinality(ToSet(st.gens) \cup {r}) <= MaxGenerators)
      BY <1>1, <1>4, <1>8, <2>3
    <2> QED BY <2>1, <2>2, <2>4, <1>4, <1>6, <1>7
  <1>9. CASE ~(Len(a) > MaxGenerators)
    <2>1. u.gens = a /\ Len(a) <= MaxGenerators
      BY <1>1, <1>3, <1>4, <1>9 DEF DropOldest
    <2>2. StreamsFit(u)
      BY <2>1, <1>3, <1>4, <1>7 DEF StreamsFit, Streams
    <2> QED BY <2>1, <2>2, <1>4, <1>7
  <1> QED BY <1>8, <1>9

\* The first i elements of s.
FirstOf(s, i) == {s[j] : j \in 1 .. i}

\* st is what has become of the generators and draws after the first i rows of s.
DrawnUpTo(st, s, i) ==
    /\ StreamsFit(st)
    /\ ToSet(st.gens) \subseteq ToSet(gens) \cup FirstOf(s, i)
    /\ \A x \in Req \ FirstOf(s, i) : st.drawn[x] = drawn[x]
    /\ Cardinality(ToSet(gens) \cup ToSet(s)) <= MaxGenerators =>
         /\ ToSet(st.gens) = ToSet(gens) \cup FirstOf(s, i)
         /\ \A x \in FirstOf(s, i) :
               st.drawn[x] = IF x \in ToSet(gens) THEN drawn[x] + 1 ELSE 1

LEMMA DrawnStep ==
    ASSUME gens \in Seq(Req), drawn \in [Req -> Nat],
           NEW s \in Seq(Req), IsInjective(s), NEW i \in 0 .. Len(s) - 1,
           NEW st, DrawnUpTo(st, s, i), NEW u, u = RowGenerator(st, s[i + 1])
    PROVE  DrawnUpTo(u, s, i + 1)
  <1> DEFINE r == s[i + 1]
             room == Cardinality(ToSet(gens) \cup ToSet(s)) <= MaxGenerators
  <1>1. Len(s) \in Nat /\ i \in Nat /\ i + 1 \in 1 .. Len(s) /\ r \in Req
    OBVIOUS
  <1>2. FirstOf(s, i + 1) = FirstOf(s, i) \cup {r}
    <2>1. 1 .. i + 1 = (1 .. i) \cup {i + 1}
      BY <1>1
    <2> QED BY <2>1, Zenon DEF FirstOf
  <1>3. r \notin FirstOf(s, i) /\ r \in ToSet(s)
    <2>1. \A j, k \in 1 .. Len(s) : s[j] = s[k] => j = k
      BY ToSetIndexed
    <2>2. \A j \in 1 .. i : j \in 1 .. Len(s) /\ j # i + 1
      BY <1>1
    <2>3. r \notin FirstOf(s, i)
      BY <2>1, <2>2, <1>1 DEF FirstOf
    <2> QED BY <2>3, <1>1, ToSetIndexed
  <1>4. FirstOf(s, i) \subseteq ToSet(s) /\ FirstOf(s, i) \subseteq Req
    <2>1. \A j \in 1 .. i : j \in 1 .. Len(s)
      BY <1>1
    <2>2. \A j \in 1 .. i : s[j] \in ToSet(s) /\ s[j] \in Req
      BY <2>1, ToSetIndexed
    <2> QED BY <2>2 DEF FirstOf
  <1> HIDE DEF r
  <1>5. StreamsFit(st)
    BY DEF DrawnUpTo
  <1>6. u = RowGenerator(st, r)
    BY DEF r
  <1>7. /\ StreamsFit(u) /\ ToSet(u.gens) \subseteq ToSet(st.gens) \cup {r}
        /\ Cardinality(ToSet(st.gens) \cup {r}) <= MaxGenerators =>
              ToSet(u.gens) = ToSet(st.gens) \cup {r}
        /\ u.drawn[r] = IF r \in ToSet(st.gens) THEN st.drawn[r] + 1 ELSE 1
        /\ \A x \in Req \ {r} : u.drawn[x] = st.drawn[x]
    BY <1>1, <1>5, <1>6, RowGeneratorKeeps
  <1>8. ToSet(u.gens) \subseteq ToSet(gens) \cup FirstOf(s, i + 1)
    BY <1>2, <1>7 DEF DrawnUpTo
  <1>9. \A x \in Req \ FirstOf(s, i + 1) : u.drawn[x] = drawn[x]
    BY <1>2, <1>7 DEF DrawnUpTo
  <1>10. ASSUME room
         PROVE  /\ ToSet(u.gens) = ToSet(gens) \cup FirstOf(s, i + 1)
                /\ \A x \in FirstOf(s, i + 1) :
                      u.drawn[x] = IF x \in ToSet(gens) THEN drawn[x] + 1 ELSE 1
    <2>1. /\ ToSet(st.gens) = ToSet(gens) \cup FirstOf(s, i)
          /\ \A x \in FirstOf(s, i) :
               st.drawn[x] = IF x \in ToSet(gens) THEN drawn[x] + 1 ELSE 1
          /\ st.drawn[r] = drawn[r]
      BY <1>1, <1>3, <1>10 DEF DrawnUpTo
    <2>2. Cardinality(ToSet(st.gens) \cup {r}) <= MaxGenerators
      <3>1. ToSet(st.gens) \cup {r} \subseteq ToSet(gens) \cup ToSet(s)
        BY <2>1, <1>3, <1>4
      <3>2. IsFiniteSet(ToSet(gens) \cup ToSet(s))
        <4>1. ToSet(gens) \subseteq Req /\ ToSet(s) \subseteq Req
          BY ToSetIndexed
        <4> QED BY <4>1, FS_Subset, KVAssumption
      <3>3. /\ Cardinality(ToSet(st.gens) \cup {r}) \in Nat
            /\ Cardinality(ToSet(gens) \cup ToSet(s)) \in Nat
            /\ Cardinality(ToSet(st.gens) \cup {r}) <= Cardinality(ToSet(gens) \cup ToSet(s))
        BY <3>1, <3>2, FS_Subset, FS_CardinalityType
      <3> QED BY <3>3, <1>10, GeneratorAssumption
    <2>3. ToSet(u.gens) = ToSet(gens) \cup FirstOf(s, i + 1)
      BY <2>1, <2>2, <1>2, <1>7
    <2>4. \A x \in FirstOf(s, i) : u.drawn[x] = IF x \in ToSet(gens) THEN drawn[x] + 1 ELSE 1
      BY <2>1, <1>3, <1>4, <1>7
    <2>5. u.drawn[r] = IF r \in ToSet(gens) THEN drawn[r] + 1 ELSE 1
      BY <2>1, <1>3, <1>7
    <2> QED BY <2>3, <2>4, <2>5, <1>2
  <1> QED BY <1>7, <1>8, <1>9, <1>10 DEF DrawnUpTo

LEMMA AfterRowsDrawn ==
    ASSUME StreamsFit([gens |-> gens, drawn |-> drawn]), NEW s \in Seq(Req), IsInjective(s)
    PROVE  DrawnUpTo(AfterRows(s), s, Len(s))
  <1> DEFINE n == Len(s)
             c == [gens |-> gens, drawn |-> drawn]
             G == [i \in 1 .. n |-> [x \in Streams |-> RowGenerator(x, s[i])]]
             T == [i \in 0 .. n |-> {x \in Streams : DrawnUpTo(x, s, i)}]
             step(f) == [i \in 0 .. n |-> IF i = 0 THEN c ELSE RowGenerator(f[i - 1], s[i])]
             k == CHOOSE f : f = step(f)
  <1>0. n \in Nat
    OBVIOUS
  <1>1. AfterRows(s) = k[n]
    BY DEF AfterRows
  <1>2. c \in T[0]
    <2>1. c.gens = gens /\ c.drawn = drawn /\ c \in Streams
      BY DEF StreamsFit
    <2>2. FirstOf(s, 0) = {}
      BY DEF FirstOf
    <2>3. 0 \in 0 .. n
      BY <1>0
    <2>4. StreamsFit(c)
      OBVIOUS
    <2> HIDE DEF c
    <2>5. DrawnUpTo(c, s, 0)
      BY <2>1, <2>2, <2>4 DEF DrawnUpTo
    <2> QED BY <2>1, <2>3, <2>5
  <1>h. gens \in Seq(Req) /\ drawn \in [Req -> Nat]
    BY DEF StreamsFit, Streams
  <1>3. ASSUME NEW i \in 1 .. n, NEW x \in T[i - 1]
        PROVE  RowGenerator(x, s[i]) \in T[i] /\ x \in Streams
    <2>1. i - 1 \in 0 .. n /\ i \in 0 .. n /\ i - 1 \in 0 .. Len(s) - 1 /\ (i - 1) + 1 = i
      BY <1>0
    <2>2. x \in Streams /\ DrawnUpTo(x, s, i - 1)
      BY <2>1
    <2> DEFINE y == RowGenerator(x, s[i])
    <2>3. y = RowGenerator(x, s[(i - 1) + 1])
      BY <2>1
    <2> HIDE DEF y, T, G, k, n, c
    <2>4. DrawnUpTo(y, s, (i - 1) + 1)
      BY <2>1, <2>2, <2>3, <1>h, DrawnStep
    <2>5. DrawnUpTo(y, s, i)
      BY <2>1, <2>4
    <2>6. y \in Streams
      BY <2>5 DEF DrawnUpTo, StreamsFit
    <2> QED BY <2>1, <2>2, <2>5, <2>6 DEF T, y
  <1>4. \A i \in 1 .. n : \A x \in T[i - 1] : G[i][x] \in T[i] /\ G[i][x] = RowGenerator(x, s[i])
    BY <1>3
  <1>k. k = CHOOSE f : f = step(f)
    OBVIOUS
  <1> HIDE DEF T, G, k, n, c
  <1>g. \A i \in 1 .. n : \A x \in T[i - 1] : G[i][x] \in T[i]
    BY <1>4
  <1>p. PICK h : Staged(h, n, c, G)
    BY <1>0, <1>2, <1>g, StagedRecursion
  <1>5. /\ DOMAIN h = 0 .. n /\ h = [i \in 0 .. n |-> h[i]]
        /\ h[0] = c /\ \A i \in 1 .. n : h[i] = G[i][h[i - 1]]
    BY <1>p DEF Staged
  <1>6. \A i \in 0 .. n : h[i] \in T[i]
    BY <1>0, <1>2, <1>4, <1>5, StagedStays
  <1>7. \A i \in 1 .. n : h[i] = RowGenerator(h[i - 1], s[i])
    <2> SUFFICES ASSUME NEW i \in 1 .. n PROVE h[i] = RowGenerator(h[i - 1], s[i])
      OBVIOUS
    <2>1. i - 1 \in 0 .. n
      BY <1>0
    <2> QED BY <2>1, <1>4, <1>5, <1>6
  <1>8. h = step(h)
    <2>1. ASSUME NEW i \in 0 .. n
          PROVE  h[i] = IF i = 0 THEN c ELSE RowGenerator(h[i - 1], s[i])
      <3>1. CASE i = 0
        BY <3>1, <1>5
      <3>2. CASE i # 0
        <4>1. i \in 1 .. n
          BY <3>2, <1>0
        <4> QED BY <3>2, <4>1, <1>7
      <3> QED BY <3>1, <3>2
    <2> QED BY <2>1, <1>5
  <1>9. k = step(k)
    BY <1>8, <1>k
  <1>10. k[0] = c /\ \A i \in 1 .. n : k[i] = RowGenerator(k[i - 1], s[i])
    <2>1. \A i \in 0 .. n : k[i] = IF i = 0 THEN c ELSE RowGenerator(k[i - 1], s[i])
      BY <1>9
    <2>2. 0 \in 0 .. n /\ \A i \in 1 .. n : i \in 0 .. n /\ i # 0
      BY <1>0
    <2> QED BY <2>1, <2>2
  <1>11. \A i \in 0 .. n : k[i] \in T[i]
    <2>1. \A i \in 1 .. n : k[i - 1] \in T[i - 1] => k[i] \in T[i]
      BY <1>3, <1>10
    <2>2. k[0] \in T[0]
      BY <1>2, <1>10
    <2> QED BY <2>1, <2>2, <1>0, StagedStays
  <1>12. k[n] \in T[n] /\ n \in 0 .. n
    BY <1>0, <1>11
  <1>13. DrawnUpTo(k[n], s, n)
    BY <1>12 DEF T
  <1> QED BY <1>1, <1>13 DEF n

-----------------------------------------------------------------------------
(* Seeded requests: outputs and places. *)

\* The requests whose token has been sampled and not appended yet.
Owed == {r \in Req : \/ pc = "commitD" /\ r \in ToSet(todo)
                     \/ pc = "commitD" /\ Fused /\ \E p \in ToSet(plans) : p[1] = r
                     \/ pc = "commitP" /\ \E p \in ToSet(todo) : p[1] = r}

\* r moves without a token, and holds pages only if it did.
Stays(r) ==
    /\ Only(r)
    /\ req'[r].kind = req[r].kind /\ req'[r].queued = req[r].queued
    /\ req'[r].out = req[r].out
    /\ req'[r].state \in Running => req[r].state \in Running

\* r is given a token.
Gains(r) ==
    /\ Only(r)
    /\ req'[r].kind = req[r].kind /\ req'[r].queued = req[r].queued
    /\ Len(req'[r].out) = Len(req[r].out) + 1
    /\ req[r].state \in Running

LEMMA EndedStays ==
    ASSUME RequestsOK, NEW r \in Created, NEW q, IsRequest(q), q.kind = req[r].kind,
           q.queued = req[r].queued, NEW state \in Terminal, NEW reason,
           req' = [req EXCEPT ![r] = Ended(q, state, reason)]
    PROVE  /\ Only(r) /\ req'[r].kind = req[r].kind /\ req'[r].queued = req[r].queued
           /\ req'[r].out = q.out /\ req'[r].state = state /\ state \notin Running
  <1> DEFINE e == Ended(q, state, reason)
  <1>1. r \in Req
    BY DEF Created
  <1>2. e.state = state /\ e.kind = q.kind /\ e.out = q.out
    BY EndedFields
  <1>3. e.queued = q.queued
    <2>1. q = [f \in Fields |-> q[f]]
      BY DEF IsRequest
    <2>2. DOMAIN q = Fields
      BY <2>1
    <2> QED BY <2>2 DEF Ended, Fields
  <1>4. req'[r] = e /\ Only(r)
    BY <1>1, Assigned
  <1>5. state \notin Running
    BY DEF Terminal, Running
  <1> HIDE DEF e
  <1> QED BY <1>2, <1>3, <1>4, <1>5

\* append_token gives a token, whether or not it ends the request.
LEMMA AppendTokenGains ==
    ASSUME RequestsOK, NEW r \in Live, NEW m, NEW u, IsRequest(u), u.kind = req[r].kind,
           u.queued = req[r].queued, Len(u.out) = Len(req[r].out) + 1, AppendToken(m, r, u)
    PROVE  Gains(r)
  <1>1. r \in Created /\ r \in Req /\ req[r].state \in Running
    BY LiveFacts DEF Live, Running
  <1>2. CASE FinishReason(u) = "none"
    <2>1. req' = [req EXCEPT ![r] = u]
      BY <1>2 DEF AppendToken
    <2>2. req'[r] = u /\ Only(r)
      BY <1>1, <2>1, Assigned
    <2> QED BY <1>1, <2>2 DEF Gains
  <1>3. CASE FinishReason(u) # "none"
    <2>1. req' = [req EXCEPT ![r] = Ended(u, "FINISHED", FinishReason(u))]
      BY <1>3 DEF AppendToken, Retire
    <2>2. "FINISHED" \in Terminal
      BY DEF Terminal
    <2>3. /\ Only(r) /\ req'[r].kind = req[r].kind /\ req'[r].queued = req[r].queued
          /\ req'[r].out = u.out
      BY <1>1, <2>1, <2>2, EndedStays
    <2> QED BY <1>1, <2>3 DEF Gains
  <1> QED BY <1>2, <1>3

\* q says of itself what p says, but for how far its prefill came.
SameBut(p, q) ==
    /\ IsRequest(q) /\ q.kind = p.kind /\ q.queued = p.queued /\ q.out = p.out
    /\ q.resuming = p.resuming

\* _complete_prefill gives a token unless the request resumes or fails.
LEMMA CompletePrefillGains ==
    ASSUME RequestsOK, NEW r \in Live, NEW m, NEW q, SameBut(req[r], q), NEW t,
           CompletePrefill(m, r, q, t)
    PROVE  Stays(r) \/ (Gains(r) /\ ~req[r].resuming)
  <1>1. r \in Created /\ r \in Req /\ req[r].state \in Running /\ IsRequest(req[r])
    BY LiveFacts DEF Live, Running
  <1>2. /\ IsRequest(q) /\ q.kind = req[r].kind /\ q.queued = req[r].queued
        /\ q.out = req[r].out /\ q.resuming = req[r].resuming
    BY DEF SameBut
  <1>3. DOMAIN q = Fields
    <2>1. q = [f \in Fields |-> q[f]]
      BY <1>2 DEF IsRequest
    <2> QED BY <2>1
  <1>4. CASE q.resuming
    <2> DEFINE d == [q EXCEPT !.state = "DECODING", !.next = Last(q.out),
                              !.recomputing = FALSE, !.resuming = FALSE,
                              !.prefilled = Len(q.kind.prompt)]
    <2>1. req' = [req EXCEPT ![r] = d]
      BY <1>4 DEF CompletePrefill
    <2>2. d.kind = q.kind /\ d.queued = q.queued /\ d.out = q.out
      BY <1>3 DEF Fields
    <2>3. req'[r] = d /\ Only(r)
      BY <1>1, <2>1, Assigned
    <2> HIDE DEF d
    <2> QED BY <1>1, <1>2, <2>2, <2>3 DEF Stays
  <1>5. CASE ~q.resuming /\ t = NoToken
    <2>1. req' = [req EXCEPT ![r] = Ended(q, "FAILED", "INVALID_PREFIX_ENTRY")]
      BY <1>5 DEF CompletePrefill, Retire
    <2>2. "FAILED" \in Terminal
      BY DEF Terminal
    <2>3. /\ Only(r) /\ req'[r].kind = req[r].kind /\ req'[r].queued = req[r].queued
          /\ req'[r].out = q.out
      BY <1>1, <1>2, <2>1, <2>2, EndedStays
    <2> QED BY <1>1, <1>2, <2>3 DEF Stays
  <1>6. CASE ~q.resuming /\ t # NoToken
    <2> DEFINE u == [q EXCEPT !.state = "DECODING", !.next = t, !.recomputing = FALSE,
                              !.out = Append(@, t)]
    <2>1. \E x : AppendToken(x, r, u)
      BY <1>6 DEF CompletePrefill
    <2>2. u.kind = q.kind /\ u.queued = q.queued /\ u.out = Append(q.out, t)
      BY <1>3 DEF Fields
    <2>3. IsRequest(u)
      <3>1. TokenAppended(q, u, t)
        BY DEF TokenAppended
      <3>2. Carried(q, q)
        <4>1. IsPrefix(q.out, q.out)
          BY <1>2, PrefixReflexive DEF IsRequest
        <4> QED BY <4>1, <1>2 DEF Carried
      <3> QED BY <3>1, <3>2, TokenCarried DEF Carried
    <2> HIDE DEF u
    <2>4. Len(u.out) = Len(req[r].out) + 1
      <3>1. IsSeq(q.out)
        BY <1>2 DEF IsRequest
      <3>2. Len(Append(q.out, t)) = Len(q.out) + 1
        BY <3>1 DEF IsSeq
      <3> QED BY <3>2, <2>2, <1>2
    <2>5. Gains(r)
      BY <1>2, <2>1, <2>2, <2>3, <2>4, AppendTokenGains
    <2> QED BY <2>5, <1>2, <1>6
  <1> QED BY <1>4, <1>5, <1>6

\* preempt
LEMMA PreemptStays ==
    ASSUME RequestsOK, NEW r \in Created, NEW m, Preempt(m, r)
    PROVE  Stays(r)
  <1>1. r \in Req /\ IsRequest(req[r])
    BY LiveFacts
  <1>2. DOMAIN req[r] = Fields
    <2>1. req[r] = [f \in Fields |-> req[r][f]]
      BY <1>1 DEF IsRequest
    <2> QED BY <2>1
  <1>3. req'[r] = Preempted(req[r]) /\ Only(r)
    BY <1>1, Assigned DEF Preempt
  <1> DEFINE q == req[r]
             p == Preempted(q)
  <1> HIDE DEF q
  <1>4. p.kind = q.kind /\ p.queued = q.queued /\ p.out = q.out /\ p.state = "WAITING"
    BY <1>2 DEF Preempted, Fields, q
  <1> HIDE DEF p
  <1>5. p.state \notin Running
    BY <1>4 DEF Running
  <1> QED BY <1>3, <1>4, <1>5 DEF Stays, p, q

\* One turn of _acquire_capacity leaves all requests, or moves one.
LEMMA AcquireStays ==
    ASSUME SchedulerOK, NEW r \in Live, AcquireTurn(r)
    PROVE  req' = req \/ \E v \in Created : Stays(v)
  <1>1. RequestsOK /\ r \in Created /\ IsRequest(req[r])
    BY LiveFacts DEF SchedulerOK
  <1>2. NewestActive \in Live /\ NewestActive \in Created
    BY NewestIsNewest DEF Live
  <1>3. CASE UNCHANGED req
    BY <1>3
  <1>4. CASE \E m : Preempt(m, NewestActive)
    BY <1>1, <1>2, <1>4, PreemptStays
  <1>5. CASE \E m : Preempt(m, r)
    BY <1>1, <1>5, PreemptStays
  <1>6. CASE \E m : Retire(m, r, Ended(req[r], "FAILED", "KV_POOL_EXHAUSTED"))
    <2>1. req' = [req EXCEPT ![r] = Ended(req[r], "FAILED", "KV_POOL_EXHAUSTED")]
      BY <1>6 DEF Retire
    <2>2. "FAILED" \in Terminal
      BY DEF Terminal
    <2>3. /\ Only(r) /\ req'[r].kind = req[r].kind /\ req'[r].queued = req[r].queued
          /\ req'[r].out = req[r].out /\ req'[r].state = "FAILED" /\ "FAILED" \notin Running
      BY <1>1, <2>1, <2>2, EndedStays
    <2> QED BY <1>1, <2>3 DEF Stays
  <1> QED BY <1>3, <1>4, <1>5, <1>6 DEF AcquireTurn

-----------------------------------------------------------------------------
(* Seeded requests: what an action does to the requests. *)

\* The token r is given was sampled for it, or comes from an exact hit.
GainsDue(r) ==
    /\ Gains(r)
    /\ r \in Owed \ Owed' \/ (Books => req[r].kind.greedy)

\* r is submitted.
Joins(r) ==
    /\ Only(r) /\ req'[r].kind = req[r].kind /\ req'[r].out = req[r].out
    /\ ~req[r].queued /\ req'[r].queued
    /\ req'[r].state \in Terminal \/ (req'[r].state = "WAITING" /\ Len(waiting) < MaxWaiting)

\* r is admitted.
Enters(r) ==
    /\ Only(r) /\ req'[r].kind = req[r].kind /\ req'[r].out = req[r].out
    /\ req'[r].queued = req[r].queued
    /\ req'[r].state = "PREFILLING" /\ req[r].state = "WAITING" /\ Len(active) < MaxActive

\* A request is created.
Arrives ==
    /\ pc = "idle" /\ pc' = "idle"
    /\ \E r \in Req \ Created :
          Only(r) /\ req'[r].state = "WAITING" /\ ~req'[r].queued /\ req'[r].out = << >>

Moved ==
    \/ req' = req
    \/ \E r \in Created : Stays(r) \/ GainsDue(r) \/ Joins(r) \/ Enters(r)
    \/ Arrives

LEMMA CreateMoves ==
    ASSUME EngineInv, NEW k \in Workload, Create(k)
    PROVE  Moved
  <1> DEFINE q == [state |-> "WAITING", kind |-> k, arrival |-> Cardinality(Created) + 1,
                   queued |-> FALSE, out |-> << >>, next |-> NoToken, prefilled |-> 0,
                   cachedNext |-> NoToken, resuming |-> FALSE, recomputing |-> FALSE,
                   yields |-> 0, epoch |-> 0, reason |-> "none"]
  <1>1. RequestsOK
    BY DEF EngineInv, SchedulerOK
  <1>2. PICK r \in Req \ Created : req' = [req EXCEPT ![r] = q]
    <2>1. (CHOOSE x \in Req \ Created : TRUE) \in Req \ Created
      BY DEF Create, Created
    <2> QED BY <2>1 DEF Create
  <1>3. q.state = "WAITING" /\ ~q.queued /\ q.out = << >>
    OBVIOUS
  <1> HIDE DEF q
  <1>4. req'[r] = q /\ Only(r)
    BY <1>1, <1>2, Assigned
  <1>5. pc = "idle" /\ pc' = "idle"
    BY DEF Create
  <1> QED BY <1>2, <1>3, <1>4, <1>5 DEF Moved, Arrives

LEMMA SubmitMoves ==
    ASSUME EngineInv, NEW r \in Req, Submit(r)
    PROVE  Moved
  <1> DEFINE p == req[r]
             q == [p EXCEPT !.queued = TRUE]
             e == Ended(p, "REJECTED", "QUEUE_FULL")
             x == [e EXCEPT !.queued = TRUE]
  <1>1. RequestsOK /\ r \in Created /\ ~p.queued
    BY DEF EngineInv, SchedulerOK, Submit
  <1>2. p.state = "WAITING" /\ IsRequest(p) /\ DOMAIN p = Fields
    <2>1. IsRequest(p) /\ p.state = "WAITING"
      BY <1>1, LiveFacts DEF RequestsOK
    <2>2. p = [f \in Fields |-> p[f]]
      BY <2>1 DEF IsRequest
    <2> QED BY <2>1, <2>2
  <1>3. \/ req' = [req EXCEPT ![r] = x]
        \/ req' = [req EXCEPT ![r] = q] /\ Len(waiting) < MaxWaiting
    <2>1. waiting \in Seq(Req) /\ MaxWaiting \in Nat
      BY EngineAssumption DEF EngineInv, SchedulerOK, ContainersOK
    <2>2. Len(waiting) \in Nat
      BY <2>1
    <2> QED BY <2>1, <2>2, <1>1 DEF Submit, RequestsOK
  <1> HIDE DEF p
  <1>4. q.kind = p.kind /\ q.out = p.out /\ q.state = p.state /\ q.queued
    BY <1>2 DEF Fields
  <1>5. x.kind = p.kind /\ x.out = p.out /\ x.state \in Terminal /\ x.queued
    <2>1. e.state = "REJECTED" /\ e.kind = p.kind /\ e.out = p.out
      BY <1>2, EndedFields
    <2>2. DOMAIN e = Fields
      BY <1>2 DEF Ended
    <2> HIDE DEF e
    <2>3. x.kind = e.kind /\ x.out = e.out /\ x.state = e.state /\ x.queued
      BY <2>2 DEF Fields
    <2> QED BY <2>1, <2>3 DEF Terminal
  <1> HIDE DEF q, x
  <1>6. Only(r) /\ (req'[r] = x \/ (req'[r] = q /\ Len(waiting) < MaxWaiting))
    BY <1>1, <1>3, Assigned
  <1>7. Joins(r)
    BY <1>1, <1>2, <1>4, <1>5, <1>6 DEF Joins, p
  <1> QED BY <1>1, <1>7 DEF Moved

LEMMA CancelMoves ==
    ASSUME EngineInv, NEW r \in Req, Cancel(r)
    PROVE  Moved
  <1>1. RequestsOK /\ ContainersOK
    BY DEF EngineInv, SchedulerOK
  <1>2. r \in Created /\ IsRequest(req[r])
    BY <1>1, LiveFacts DEF Cancel, ContainersOK, Live
  <1>3. req' = [req EXCEPT ![r] = Ended(req[r], "CANCELLED", "CANCELLED_BY_CLIENT")]
    BY <1>1 DEF Cancel, Retire, RequestsOK
  <1>4. "CANCELLED" \in Terminal
    BY DEF Terminal
  <1>5. Stays(r)
    BY <1>1, <1>2, <1>3, <1>4, EndedStays DEF Stays
  <1> QED BY <1>2, <1>5 DEF Moved

LEMMA CapacityMoves ==
    ASSUME EngineInv, DecodeRowCapacity \/ PrefillChunkCapacity
    PROVE  Moved
  <1>1. SchedulerOK /\ LoopOK
    BY DEF EngineInv
  <1>2. req' = req \/ \E r \in Live : AcquireTurn(r)
    <2>1. CASE DecodeRowCapacity
      <3> DEFINE r == Head(todo)
      <3>1. pc = "decodeCap" /\ todo \in Seq(Req) /\ todo # << >>
        BY <2>1, <1>1 DEF LoopOK, DecodeRowCapacity
      <3>2. r \in Req
        BY <3>1
      <3>3. CASE req[r].state = "DECODING"
        <4>1. AcquireTurn(r)
          BY <2>1, <3>3 DEF DecodeRowCapacity, Acquire, AcquireTurn
        <4>2. r \in Live
          BY <3>2, <3>3 DEF Live, Created
        <4> QED BY <4>1, <4>2
      <3>4. CASE req[r].state # "DECODING"
        BY <2>1, <3>4 DEF DecodeRowCapacity, sched
      <3> QED BY <3>3, <3>4
    <2>2. CASE PrefillChunkCapacity
      <3> DEFINE r == Head(todo)[1]
      <3>1. pc = "prefillCap" /\ IsPlan(todo) /\ todo # << >>
        BY <2>2, <1>1 DEF LoopOK, PrefillChunkCapacity
      <3>2. r \in Req
        BY <3>1, PlanTail
      <3>3. CASE req[r].state = "PREFILLING"
        <4>1. AcquireTurn(r)
          BY <2>2, <3>3 DEF PrefillChunkCapacity, Acquire, AcquireTurn
        <4>2. r \in Live
          BY <3>2, <3>3 DEF Live, Created
        <4> QED BY <4>1, <4>2
      <3>4. CASE req[r].state # "PREFILLING"
        BY <2>2, <3>4 DEF PrefillChunkCapacity, sched
      <3> QED BY <3>3, <3>4
    <2> QED BY <2>1, <2>2
  <1> QED BY <1>1, <1>2, AcquireStays DEF Moved

LEMMA RejectHeadMoves ==
    ASSUME EngineInv, RejectHead
    PROVE  Moved
  <1> DEFINE r == Head(waiting)
  <1>1. RequestsOK /\ ContainersOK /\ waiting # << >>
    BY DEF EngineInv, SchedulerOK, RejectHead, AdmitsHead
  <1>2. r \in ToSet(waiting)
    BY <1>1, TailSet DEF ContainersOK
  <1>3. r \in Created /\ IsRequest(req[r])
    BY <1>1, <1>2, LiveFacts DEF ContainersOK
  <1>4. req' = [req EXCEPT ![r] = Ended(req[r], "REJECTED", "KV_CAPACITY_EXCEEDED")]
    BY <1>1 DEF RejectHead, RequestsOK
  <1>5. "REJECTED" \in Terminal
    BY DEF Terminal
  <1> HIDE DEF r
  <1>6. Stays(r)
    BY <1>1, <1>3, <1>4, <1>5, EndedStays DEF Stays
  <1> QED BY <1>3, <1>6 DEF Moved

LEMMA AdmitHeadMoves ==
    ASSUME EngineInv, AdmitHead
    PROVE  Moved
  <1> DEFINE r == Head(waiting)
  <1>1. RequestsOK /\ ContainersOK /\ waiting # << >> /\ Len(active) < MaxActive
    BY DEF EngineInv, SchedulerOK, AdmitHead, AdmitsHead
  <1>2. r \in ToSet(waiting)
    BY <1>1, TailSet DEF ContainersOK
  <1>3. r \in Created /\ r \in Req /\ req[r].state = "WAITING" /\ IsRequest(req[r])
    BY <1>1, <1>2, LiveFacts DEF ContainersOK
  <1> HIDE DEF r
  <1>4. req' = req \/ \E count, next :
           req' = [req EXCEPT ![r].state = "PREFILLING", ![r].prefilled = count,
                              ![r].cachedNext = next]
    BY DEF AdmitHead, Enter, r
  <1>5. ASSUME NEW count, NEW next,
               req' = [req EXCEPT ![r].state = "PREFILLING", ![r].prefilled = count,
                                  ![r].cachedNext = next]
        PROVE  Moved
    <2> DEFINE q == [req[r] EXCEPT !.state = "PREFILLING", !.prefilled = count,
                                   !.cachedNext = next]
    <2>1. req' = [req EXCEPT ![r] = q]
      BY <1>1, <1>3, <1>5 DEF RequestsOK
    <2>2. DOMAIN req[r] = Fields
      <3>1. req[r] = [f \in Fields |-> req[r][f]]
        BY <1>3 DEF IsRequest
      <3> QED BY <3>1
    <2>3. q.kind = req[r].kind /\ q.queued = req[r].queued /\ q.out = req[r].out
          /\ q.state = "PREFILLING"
      BY <2>2 DEF Fields
    <2> HIDE DEF q
    <2>4. req'[r] = q /\ Only(r)
      BY <1>1, <1>3, <2>1, Assigned
    <2>5. Enters(r)
      BY <1>1, <1>3, <2>3, <2>4 DEF Enters
    <2> QED BY <1>3, <2>5 DEF Moved
  <1>6. CASE req' = req
    BY <1>6 DEF Moved
  <1> QED BY <1>4, <1>5, <1>6

LEMMA ExactHitMoves ==
    ASSUME EngineInv, ExactHit
    PROVE  Moved
  <1> DEFINE r == Head(todo)
  <1>1. RequestsOK /\ LoopOK
    BY DEF EngineInv, SchedulerOK
  <1>2. pc = "exact" /\ todo # << >> /\ RequestsIn(todo, "PREFILLING")
    BY <1>1 DEF LoopOK, ExactHit
  <1>3. r \in Req /\ req[r].state = "PREFILLING"
    BY <1>2, TailSet DEF RequestsIn
  <1>4. r \in Live /\ r \in Created /\ IsRequest(req[r])
    BY <1>1, <1>3, LiveFacts DEF Live, Created
  <1>5. CASE Remaining(req[r]) # 0
    BY <1>5 DEF ExactHit, Moved, sched
  <1>6. CASE Remaining(req[r]) = 0
    <2>1. \E m : \E t : CompletePrefill(m, r, req[r], t)
      BY <1>6 DEF ExactHit
    <2>2. SameBut(req[r], req[r])
      BY <1>4 DEF SameBut
    <2> HIDE DEF r
    <2>3. Stays(r) \/ (Gains(r) /\ ~req[r].resuming)
      BY <2>1, <2>2, <1>1, <1>4, CompletePrefillGains
    <2>4. ASSUME ~req[r].resuming, Books PROVE req[r].kind.greedy
      <3>1. Len(PrefillIds(req[r])) \in Nat /\ req[r].prefilled \in Nat
        BY <1>4, PrefillLength DEF IsRequest
      <3>2. req[r].prefilled = Len(PrefillIds(req[r]))
        BY <3>1, <1>6 DEF Remaining
      <3>3. PhaseOK(req[r])
        BY <1>4, <2>4 DEF Books, RequestBooks
      <3> QED BY <3>2, <3>3, <2>4, <1>3 DEF PhaseOK
    <2> QED BY <2>3, <2>4, <1>4 DEF Moved, GainsDue
  <1> QED BY <1>5, <1>6

LEMMA CommitDecodeRowMoves ==
    ASSUME EngineInv, CommitDecodeRow
    PROVE  Moved /\ Owed' \subseteq Owed
  <1> DEFINE r == Head(todo)
  <1>1. RequestsOK /\ LoopOK
    BY DEF EngineInv, SchedulerOK
  <1>2. /\ pc = "commitD" /\ pc' = pc /\ todo # << >> /\ RequestsIn(todo, "DECODING")
        /\ todo' = Tail(todo) /\ plans' = plans
    BY <1>1 DEF LoopOK, CommitDecodeRow
  <1>3. /\ r \in Req /\ r \in ToSet(todo) /\ ToSet(todo) = ToSet(Tail(todo)) \cup {r}
        /\ r \notin ToSet(Tail(todo)) /\ req[r].state = "DECODING"
    BY <1>2, TailSet DEF RequestsIn
  <1>4. r \in Live /\ r \in Created /\ IsRequest(req[r])
    BY <1>1, <1>3, LiveFacts DEF Live, Created
  <1>5. PICK m, t : AppendToken(m, r, [req[r] EXCEPT !.next = t, !.out = Append(@, t)])
    BY DEF CommitDecodeRow
  <1> HIDE DEF r
  <1>6. Gains(r)
    <2> DEFINE q == req[r]
               u == [q EXCEPT !.next = t, !.out = Append(@, t)]
    <2>1. AppendToken(m, r, u)
      BY <1>5
    <2>2. Carried(q, q) /\ TokenAppended(q, u, t)
      BY <1>1, <1>3, <1>4, CarriedSelf DEF TokenAppended
    <2>3. DOMAIN q = Fields /\ IsSeq(q.out)
      <3>1. q = [f \in Fields |-> q[f]]
        BY <1>4 DEF IsRequest
      <3> QED BY <3>1, <1>4 DEF IsRequest
    <2>4. q = req[r]
      OBVIOUS
    <2> HIDE DEF q
    <2>5. u.kind = q.kind /\ u.queued = q.queued /\ u.out = Append(q.out, t)
      BY <2>3 DEF Fields
    <2> HIDE DEF u
    <2>6. Len(u.out) = Len(q.out) + 1
      BY <2>3, <2>5 DEF IsSeq
    <2>7. IsRequest(u)
      BY <2>2, TokenCarried DEF Carried
    <2> QED BY <2>1, <2>4, <2>5, <2>6, <2>7, <1>1, <1>4, AppendTokenGains
  <1>7. r \in Owed /\ r \notin Owed' /\ Owed' \subseteq Owed
    <2>1. r \in Owed
      BY <1>2, <1>3 DEF Owed
    <2>2. ASSUME Fused, NEW p \in ToSet(plans) PROVE p[1] # r
      <3>1. PlanIn(plans, "PREFILLING")
        BY <2>2, <1>1, <1>2 DEF LoopOK
      <3>2. PICK i \in 1 .. Len(plans) : plans[i] = p
        BY <2>2, <3>1, ToSetIndexed DEF PlanIn, IsPlan, IsSeq
      <3> QED BY <3>1, <3>2, <1>3 DEF PlanIn
    <2>3. r \notin Owed'
      BY <2>2, <1>2, <1>3 DEF Owed
    <2>4. Owed' \subseteq Owed
      BY <1>2, <1>3 DEF Owed
    <2> QED BY <2>1, <2>3, <2>4
  <1> QED BY <1>4, <1>6, <1>7 DEF Moved, GainsDue

LEMMA CommitPrefillChunkMoves ==
    ASSUME EngineInv, CommitPrefillChunk
    PROVE  Moved /\ Owed' \subseteq Owed
  <1>1. RequestsOK /\ LoopOK
    BY DEF EngineInv, SchedulerOK
  <1>2. /\ pc = "commitP" /\ pc' = pc /\ todo # << >> /\ todo' = Tail(todo)
        /\ PlanIn(todo, "PREFILLING") /\ IsPlan(todo)
    BY <1>1 DEF LoopOK, CommitPrefillChunk, PlanIn
  <1>3. PICK r, n : r = Head(todo)[1] /\ n = Head(todo)[2]
    OBVIOUS
  <1>4. /\ IsPlan(Tail(todo)) /\ r \in Req /\ n \in Nat /\ Head(todo) = todo[1]
        /\ 1 \in 1 .. Len(todo)
        /\ \A i \in 1 .. Len(Tail(todo)) :
              i + 1 \in 1 .. Len(todo) /\ Tail(todo)[i] = todo[i + 1] /\ Tail(todo)[i][1] # r
    BY <1>2, <1>3, PlanTail
  <1>5. req[r].state = "PREFILLING"
    BY <1>2, <1>3, <1>4 DEF PlanIn
  <1>6. r \in Live /\ r \in Created /\ IsRequest(req[r])
    BY <1>1, <1>4, <1>5, LiveFacts DEF Live, Created
  <1> DEFINE q == [req[r] EXCEPT !.prefilled = @ + n]
  <1>7. \/ \E m : \E t : CompletePrefill(m, r, q, t)
        \/ req' = [req EXCEPT ![r] = q]
    BY <1>3 DEF CommitPrefillChunk
  <1>8. SameBut(req[r], q) /\ q.state = req[r].state
    <2> DEFINE p == req[r]
    <2>1. p = [f \in Fields |-> p[f]] /\ IsRequest(p)
          /\ q = [p EXCEPT !.prefilled = p.prefilled + n]
      BY <1>6 DEF IsRequest
    <2> HIDE DEF p, q
    <2>2. /\ q = [f \in Fields |-> q[f]]
          /\ q.state = p.state /\ q.queued = p.queued /\ q.arrival = p.arrival
          /\ q.out = p.out /\ q.yields = p.yields /\ q.epoch = p.epoch
          /\ q.kind = p.kind /\ q.prefilled = p.prefilled + n /\ q.resuming = p.resuming
      BY <2>1 DEF Fields
    <2>3. q.prefilled \in Nat
      BY <2>1, <2>2, <1>4 DEF IsRequest
    <2>4. IsRequest(q)
      BY <2>1, <2>2, <2>3 DEF IsRequest
    <2> QED BY <2>2, <2>4 DEF SameBut, p
  <1> HIDE DEF q
  <1>9. Stays(r) \/ Gains(r)
    <2>1. CASE \E m : \E t : CompletePrefill(m, r, q, t)
      BY <2>1, <1>1, <1>6, <1>8, CompletePrefillGains
    <2>2. CASE req' = [req EXCEPT ![r] = q]
      <3>1. req'[r] = q /\ Only(r)
        BY <2>2, <1>1, <1>4, Assigned
      <3> QED BY <3>1, <1>8 DEF Stays, SameBut
    <2> QED BY <2>1, <2>2, <1>7
  <1>10. ToSet(todo') \subseteq ToSet(todo) /\ \A p \in ToSet(todo') : p[1] # r
    <2>1. IsSeq(todo) /\ IsSeq(todo')
      BY <1>2, <1>4 DEF IsPlan
    <2>2. \A p \in ToSet(todo') : \E i \in 1 .. Len(todo') : p = todo'[i]
      BY <2>1, ToSetIndexed DEF IsSeq
    <2>3. \A i \in 1 .. Len(todo) : todo[i] \in ToSet(todo)
      BY <2>1, ToSetIndexed DEF IsSeq
    <2> QED BY <2>2, <2>3, <1>2, <1>4
  <1>11. Head(todo) \in ToSet(todo)
    <2>1. IsSeq(todo)
      BY <1>2 DEF IsPlan
    <2> QED BY <2>1, <1>4, ToSetIndexed DEF IsSeq
  <1>12. r \in Owed /\ r \notin Owed' /\ Owed' \subseteq Owed
    BY <1>2, <1>3, <1>4, <1>10, <1>11 DEF Owed
  <1> QED BY <1>6, <1>9, <1>12 DEF Moved, GainsDue

-----------------------------------------------------------------------------
(* Seeded requests: the forward, and the debts it leaves. *)

LEMMA NextMoves ==
    ASSUME EngineInv, Next
    PROVE  Moved
  <1>1. ASSUME NEW k \in Workload, Create(k) PROVE Moved
    BY <1>1, CreateMoves
  <1>2. ASSUME NEW r \in Req, Submit(r) \/ Cancel(r) PROVE Moved
    BY <1>2, SubmitMoves, CancelMoves
  <1>3. CASE DecodeRowCapacity \/ PrefillChunkCapacity
    BY <1>3, CapacityMoves
  <1>4. CASE RejectHead \/ AdmitHead \/ ExactHit
    BY <1>4, RejectHeadMoves, AdmitHeadMoves, ExactHitMoves
  <1>5. CASE CommitDecodeRow \/ CommitPrefillChunk
    BY <1>5, CommitDecodeRowMoves, CommitPrefillChunkMoves
  <1>6. CASE \/ BeginStep \/ DecodeRowsReady \/ DecodeForward \/ DecodeCommitted
             \/ AdmissionEnds \/ ExactDone \/ PlanPrefill \/ PrefillChunksReady
             \/ FusedForward \/ EndStep \/ WaitForWork
    <2>1. req' = req
      BY <1>6 DEF BeginStep, DecodeRowsReady, DecodeForward, DecodeCommitted, AdmissionEnds,
                  ExactDone, PlanPrefill, PrefillChunksReady, FusedForward, EndStep,
                  WaitForWork, sched, vars
    <2> QED BY <2>1 DEF Moved
  <1> QED BY <1>1, <1>2, <1>3, <1>4, <1>5, <1>6 DEF Next, Step

\* Nothing is owed outside the commit loops.
LEMMA NothingOwed ==
    ASSUME pc' \notin {"commitD", "commitP"}
    PROVE  Owed' = {}
  BY DEF Owed

\* Between forwards, debts are only paid.
LEMMA DebtsArePaid ==
    ASSUME EngineInv, Next, pc \notin {"decode", "forward"}
    PROVE  Owed' \subseteq Owed
  <1>1. CASE CommitDecodeRow \/ CommitPrefillChunk
    BY <1>1, CommitDecodeRowMoves, CommitPrefillChunkMoves
  <1>2. CASE DecodeCommitted
    <2>1. pc = "commitD" /\ pc' = (IF Fused THEN "commitP" ELSE "admit")
          /\ (Fused => todo' = plans)
      BY <1>2 DEF DecodeCommitted
    <2>2. CASE Fused
      BY <2>1, <2>2 DEF Owed
    <2>3. CASE ~Fused
      BY <2>1, <2>3, NothingOwed
    <2> QED BY <2>2, <2>3
  <1>3. CASE WaitForWork
    <2>1. pc' = pc /\ todo' = todo /\ plans' = plans
      BY <1>3 DEF WaitForWork, vars
    <2> QED BY <2>1 DEF Owed
  <1>4. CASE DecodeForward \/ FusedForward
    BY <1>4 DEF DecodeForward, FusedForward
  <1>5. CASE \/ \E k \in Workload : Create(k)
             \/ \E r \in Req : Submit(r) \/ Cancel(r)
    <2>1. pc' = "idle"
      BY <1>5 DEF Create, Submit, Cancel
    <2> QED BY <2>1, NothingOwed
  <1>6. CASE \/ BeginStep \/ DecodeRowCapacity \/ DecodeRowsReady
             \/ RejectHead \/ AdmitHead \/ AdmissionEnds \/ ExactHit \/ ExactDone
             \/ PlanPrefill \/ PrefillChunkCapacity \/ PrefillChunksReady \/ EndStep
    <2>1. pc' \notin {"commitD", "commitP"}
      BY <1>6 DEF BeginStep, DecodeRowCapacity, DecodeRowsReady, RejectHead, AdmitsHead,
                  AdmitHead, Enter, AdmissionEnds, ExactHit, ExactDone, PlanPrefill,
                  PrefillChunkCapacity, PrefillChunksReady, EndStep
    <2> QED BY <2>1, NothingOwed
  <1> QED BY <1>1, <1>2, <1>3, <1>4, <1>5, <1>6 DEF Next, Step

LEMMA LogitRowsFacts ==
    ASSUME EngineInv
    PROVE  /\ LogitRows \in Seq(Req) /\ IsInjective(LogitRows) /\ ToSet(LogitRows) \subseteq Live
           /\ pc = "decode" => LogitRows = rows
           /\ pc = "forward" =>
                 ToSet(LogitRows) = ToSet(rows) \cup {p[1] : p \in ToSet(plans)}
           /\ pc \notin {"decode", "forward"} => LogitRows = << >>
  <1>1. RequestsOK /\ LoopOK
    BY DEF EngineInv, SchedulerOK
  <1>2. ASSUME NEW r \in Req, req[r].state \in {"PREFILLING", "DECODING"} PROVE r \in Live
    BY <1>2 DEF Live, Created
  <1>3. CASE pc = "decode"
    <2>1. LogitRows = rows /\ RequestsIn(rows, "DECODING")
      BY <1>1, <1>3 DEF LogitRows, LoopOK
    <2>2. ToSet(rows) \subseteq Req
      BY <2>1, ToSetIndexed DEF RequestsIn
    <2> QED BY <2>1, <2>2, <1>2, <1>3 DEF RequestsIn
  <1>4. CASE pc = "forward"
    <2> DEFINE t == [i \in 1 .. Len(plans) |-> plans[i][1]]
    <2>1. LogitRows = rows \o t /\ RequestsIn(rows, "DECODING") /\ PlanIn(plans, "PREFILLING")
      BY <1>1, <1>4 DEF LogitRows, LoopOK
    <2>2. /\ IsSeq(plans) /\ Len(plans) \in Nat
          /\ \A i \in 1 .. Len(plans) : plans[i][1] \in Req /\ req[plans[i][1]].state = "PREFILLING"
          /\ \A i, j \in 1 .. Len(plans) : plans[i][1] = plans[j][1] => i = j
      BY <2>1 DEF PlanIn, IsPlan, IsSeq
    <2>3. t \in Seq(Req) /\ Len(t) = Len(plans) /\ \A i \in 1 .. Len(plans) : t[i] = plans[i][1]
      BY <2>2
    <2> HIDE DEF t
    <2>4. IsInjective(t) /\ \A x : x \in ToSet(t) <=> \E i \in 1 .. Len(plans) : plans[i][1] = x
      BY <2>2, <2>3, ToSetIndexed
    <2>5. \A p : p \in ToSet(plans) <=> \E i \in 1 .. Len(plans) : plans[i] = p
      BY <2>2, ToSetIndexed DEF IsSeq
    <2>6. ToSet(t) = {p[1] : p \in ToSet(plans)}
      BY <2>4, <2>5
    <2>7. /\ rows \in Seq(Req) /\ IsInjective(rows) /\ ToSet(rows) \subseteq Req
          /\ \A r \in ToSet(rows) : req[r].state = "DECODING"
      BY <2>1, ToSetIndexed DEF RequestsIn
    <2>8. \A r \in ToSet(t) : r \in Req /\ req[r].state = "PREFILLING"
      BY <2>2, <2>4
    <2>9. ToSet(rows) \cap ToSet(t) = {}
      BY <2>7, <2>8
    <2>10. /\ rows \o t \in Seq(Req) /\ ToSet(rows \o t) = ToSet(rows) \cup ToSet(t)
           /\ IsInjective(rows \o t)
      BY <2>3, <2>4, <2>7, <2>9, JoinedLists
    <2>11. ToSet(LogitRows) \subseteq Live
      BY <2>1, <2>7, <2>8, <2>10, <1>2
    <2> QED BY <2>1, <2>6, <2>10, <2>11, <1>4
  <1>5. CASE pc \notin {"decode", "forward"}
    <2>1. LogitRows = << >>
      BY <1>5 DEF LogitRows
    <2> QED BY <2>1, <1>5, EmptyLists
  <1> QED BY <1>3, <1>4, <1>5

\* A forward gives every row of its logits one token to come.
LEMMA ForwardOwes ==
    ASSUME EngineInv, Next, pc \in {"decode", "forward"}
    PROVE  req' = req /\ Owed' \subseteq ToSet(LogitRows)
  <1>1. LoopOK
    BY DEF EngineInv
  <1>2. DecodeForward \/ FusedForward \/ WaitForWork
    BY DEF Next, Step, Create, Submit, Cancel, BeginStep, DecodeRowCapacity, DecodeRowsReady,
           CommitDecodeRow, DecodeCommitted, RejectHead, AdmitsHead, AdmitHead, AdmissionEnds,
           ExactHit, ExactDone, PlanPrefill, PrefillChunkCapacity, PrefillChunksReady,
           CommitPrefillChunk, EndStep
  <1>3. ~WaitForWork
    BY DEF WaitForWork, Busy
  <1>4. CASE DecodeForward
    <2>1. /\ pc = "decode" /\ pc' = "commitD" /\ todo' = rows /\ req' = req /\ ~Fused
      BY <1>1, <1>4 DEF DecodeForward, LoopOK
    <2>2. LogitRows = rows
      BY <2>1, LogitRowsFacts
    <2> QED BY <2>1, <2>2 DEF Owed
  <1>5. CASE FusedForward
    <2>1. /\ pc = "forward" /\ pc' = (IF Fused THEN "commitD" ELSE "commitP")
          /\ todo' = (IF Fused THEN rows ELSE plans) /\ req' = req /\ plans' = plans
      BY <1>5 DEF FusedForward
    <2>2. ToSet(LogitRows) = ToSet(rows) \cup {p[1] : p \in ToSet(plans)}
      BY <2>1, LogitRowsFacts
    <2> QED BY <2>1, <2>2 DEF Owed
  <1> QED BY <1>2, <1>3, <1>4, <1>5

LEMMA SampledRowsFacts ==
    ASSUME EngineInv
    PROVE  /\ SampledRows \in Seq(Req) /\ IsInjective(SampledRows)
           /\ ToSet(SampledRows) \subseteq Live
           /\ \A r \in ToSet(LogitRows) : ~req[r].kind.greedy => r \in ToSet(SampledRows)
           /\ pc \notin {"decode", "forward"} => ToSet(SampledRows) = {}
  <1> DEFINE T == {r \in Created : ~req[r].kind.greedy}
  <1>1. /\ LogitRows \in Seq(Req) /\ IsInjective(LogitRows) /\ ToSet(LogitRows) \subseteq Live
        /\ pc \notin {"decode", "forward"} => LogitRows = << >>
    BY LogitRowsFacts
  <1>2. SampledRows = Keep(LogitRows, T)
    BY DEF SampledRows
  <1>3. Live \subseteq Created
    BY DEF Live
  <1> HIDE DEF T
  <1>4. /\ SampledRows \in Seq(Req) /\ IsInjective(SampledRows)
        /\ ToSet(SampledRows) = ToSet(LogitRows) \cap T
    BY <1>1, <1>2, KeepProperties
  <1>5. pc \notin {"decode", "forward"} => ToSet(SampledRows) = {}
    BY <1>1, <1>4, EmptyLists
  <1> QED BY <1>1, <1>3, <1>4, <1>5 DEF T

-----------------------------------------------------------------------------
(* Seeded requests: the inductive invariant. *)

\* The submitted requests that have not ended.
Crowd == {r \in Created : req[r].queued /\ req[r].state \notin Terminal}

CrowdOK ==
    /\ Cardinality(Live) <= MaxActive
    /\ Cardinality(Crowd) <= MaxActive + MaxWaiting

GensOK ==
    /\ StreamsFit([gens |-> gens, drawn |-> drawn]) /\ logprobs \in [Req -> Nat]
    /\ ToSet(gens) \subseteq Crowd

\* A living request without a generator has never drawn.
StreamsOK ==
    \A r \in Req :
        /\ drawn[r] = logprobs[r]
        /\ r \notin ToSet(gens) /\ req[r].state \notin Terminal => drawn[r] = 0

\* Every token of a seeded request is paid for, sampled ones included.
PaidOK ==
    \A r \in Created : ~req[r].kind.greedy =>
        Len(req[r].out) <= drawn[r] /\ (r \in Owed => Len(req[r].out) < drawn[r])

(***************************************************************************)
(* max_generators is at least what the scheduler can hold at a time, as    *)
(* the server's defaults are (1024 against 16 active and 256 pending), or  *)
(* there are never more requests.                                          *)
(***************************************************************************)
EnoughGenerators ==
    \/ MaxActive + MaxWaiting <= MaxGenerators
    \/ Cardinality(Req) <= MaxGenerators

LEMMA CrowdIsFinite ==
    ASSUME EngineInv, CrowdOK, GensOK
    PROVE  /\ IsFiniteSet(Crowd) /\ IsFiniteSet(Live) /\ IsFiniteSet(Req)
           /\ Cardinality(Crowd) \in Nat /\ Cardinality(Live) \in Nat
           /\ Live \subseteq Crowd /\ Crowd \subseteq Req
           /\ ToSet(SampledRows) \subseteq Crowd
           /\ EnoughGenerators =>
                 Cardinality(ToSet(gens) \cup ToSet(SampledRows)) <= MaxGenerators
  <1>1. RequestsOK
    BY DEF EngineInv, SchedulerOK
  <1>2. IsFiniteSet(Req) /\ Crowd \subseteq Req /\ Live \subseteq Req
    BY KVAssumption DEF Crowd, Live, Created
  <1>3. /\ IsFiniteSet(Crowd) /\ IsFiniteSet(Live)
        /\ Cardinality(Crowd) \in Nat /\ Cardinality(Live) \in Nat /\ Cardinality(Req) \in Nat
        /\ Cardinality(Crowd) <= Cardinality(Req)
    BY <1>2, FS_Subset, FS_CardinalityType
  <1>4. Live \subseteq Crowd
    BY <1>1, LiveFacts DEF Live, Crowd, Terminal
  <1>5. ToSet(SampledRows) \subseteq Crowd
    BY <1>4, SampledRowsFacts
  <1>6. ASSUME EnoughGenerators
        PROVE  Cardinality(ToSet(gens) \cup ToSet(SampledRows)) <= MaxGenerators
    <2> DEFINE U == ToSet(gens) \cup ToSet(SampledRows)
    <2>1. U \subseteq Crowd
      BY <1>5 DEF GensOK
    <2> HIDE DEF U
    <2>2. Cardinality(U) \in Nat /\ Cardinality(U) <= Cardinality(Crowd)
      BY <2>1, <1>3, FS_Subset, FS_CardinalityType
    <2>3. MaxActive \in Nat /\ MaxWaiting \in Nat /\ MaxGenerators \in Nat
      BY EngineAssumption, GeneratorAssumption
    <2>4. Cardinality(Crowd) <= MaxActive + MaxWaiting
      BY DEF CrowdOK
    <2> QED BY <2>2, <2>3, <2>4, <1>3, <1>6 DEF EnoughGenerators, U
  <1> QED BY <1>2, <1>3, <1>4, <1>5, <1>6

\* Who lives on: no request but a submitted one joins the crowd.
LEMMA CrowdMoves ==
    ASSUME EngineInv, Moved, LegalStep
    PROVE  /\ \/ Live' \subseteq Live
              \/ Len(active) < MaxActive /\ \E r \in Req : Live' \subseteq Live \cup {r}
           /\ \/ Crowd' \subseteq Crowd
              \/ Len(waiting) < MaxWaiting /\ \E r \in Req : Crowd' \subseteq Crowd \cup {r}
  <1>1. RequestsOK
    BY DEF EngineInv, SchedulerOK
  <1>2. CASE req' = req
    BY <1>2 DEF Live, Crowd, Created
  <1>3. ASSUME NEW r \in Created, Stays(r) \/ GainsDue(r)
        PROVE  Live' \subseteq Live /\ Crowd' \subseteq Crowd
    <2>1. /\ r \in Req /\ Only(r) /\ req'[r].queued = req[r].queued
          /\ req'[r].state \in Running => req[r].state \in Running
      BY <1>3 DEF Stays, GainsDue, Gains, Created
    <2>2. req[r].state \in Terminal => req'[r] = req[r]
      BY <2>1 DEF LegalStep
    <2>3. Live' \subseteq Live
      BY <2>1 DEF Live, Created, Only, Running
    <2>4. Crowd' \subseteq Crowd
      BY <2>1, <2>2, <1>3 DEF Crowd, Created, Only
    <2> QED BY <2>3, <2>4
  <1>4. ASSUME NEW r \in Created, Joins(r)
        PROVE  /\ Live' \subseteq Live
               /\ \/ Crowd' \subseteq Crowd
                  \/ Len(waiting) < MaxWaiting /\ Crowd' \subseteq Crowd \cup {r}
    <2>1. /\ r \in Req /\ Only(r)
          /\ req'[r].state \in Terminal \/ (req'[r].state = "WAITING" /\ Len(waiting) < MaxWaiting)
      BY <1>4 DEF Joins, Created
    <2>2. Live' \subseteq Live
      BY <2>1 DEF Live, Created, Only, Terminal
    <2>3. Crowd' \subseteq Crowd \cup {r}
      BY <2>1 DEF Crowd, Created, Only
    <2>4. req'[r].state \in Terminal => Crowd' \subseteq Crowd
      BY <2>3 DEF Crowd
    <2> QED BY <2>1, <2>2, <2>3, <2>4
  <1>5. ASSUME NEW r \in Created, Enters(r)
        PROVE  Len(active) < MaxActive /\ Live' \subseteq Live \cup {r} /\ Crowd' \subseteq Crowd
    <2>1. /\ r \in Req /\ Only(r) /\ req'[r].queued = req[r].queued
          /\ req[r].state = "WAITING" /\ Len(active) < MaxActive
      BY <1>5 DEF Enters, Created
    <2>2. Live' \subseteq Live \cup {r}
      BY <2>1 DEF Live, Created, Only
    <2>3. Crowd' \subseteq Crowd
      BY <2>1, <1>5 DEF Crowd, Created, Only, Terminal
    <2> QED BY <2>1, <2>2, <2>3
  <1>6. CASE Arrives
    <2>1. PICK r \in Req \ Created : Only(r) /\ req'[r].state = "WAITING" /\ ~req'[r].queued
      BY <1>6 DEF Arrives
    <2>2. Live' \subseteq Live
      BY <2>1 DEF Live, Created, Only
    <2>3. Crowd' \subseteq Crowd
      BY <2>1 DEF Crowd, Created, Only
    <2> QED BY <2>2, <2>3
  <1>7. Created \subseteq Req
    BY DEF Created
  <1> QED BY <1>2, <1>3, <1>4, <1>5, <1>6, <1>7 DEF Moved

LEMMA CrowdStep ==
    ASSUME EngineInv, CrowdOK, GensOK, Moved, LegalStep
    PROVE  CrowdOK'
  <1>1. ContainersOK /\ RequestsOK
    BY DEF EngineInv, SchedulerOK
  <1>2. /\ IsFiniteSet(Crowd) /\ IsFiniteSet(Live)
        /\ Cardinality(Crowd) \in Nat /\ Cardinality(Live) \in Nat
        /\ Live \subseteq Crowd /\ Crowd \subseteq Req
    BY CrowdIsFinite
  <1>3. MaxActive \in Nat /\ MaxWaiting \in Nat
    BY EngineAssumption
  <1>4. /\ Len(active) = Cardinality(Live) /\ IsFiniteSet(ToSet(waiting))
        /\ Len(waiting) = Cardinality(ToSet(waiting)) /\ Len(waiting) \in Nat
    <2>1. /\ waiting \in Seq(Req) /\ active \in Seq(Req) /\ ToSet(active) = Live
          /\ IsInjective(waiting) /\ IsInjective(active) /\ Len(waiting) \in Nat
      BY <1>1 DEF ContainersOK
    <2> QED BY <2>1, LengthCounts
  <1>5. Cardinality(Crowd) <= Len(waiting) + Cardinality(Live)
    <2> DEFINE W == ToSet(waiting)
    <2>1. Crowd \subseteq W \cup Live
      <3> SUFFICES ASSUME NEW r \in Crowd PROVE r \in W \cup Live
        OBVIOUS
      <3>1. r \in Created /\ req[r].queued /\ req[r].state \in State \ ({"new"} \cup Terminal)
        BY <1>1, LiveFacts DEF Crowd, IsRequest
      <3> QED BY <3>1, <1>1 DEF State, Live, ContainersOK
    <2> HIDE DEF W
    <2>2. IsFiniteSet(W) /\ Cardinality(W) = Len(waiting)
      BY <1>4 DEF W
    <2>3. /\ IsFiniteSet(W \cup Live) /\ IsFiniteSet(W \cap Live)
          /\ Cardinality(W \cup Live) =
                Cardinality(W) + Cardinality(Live) - Cardinality(W \cap Live)
      BY <2>2, <1>2, FS_Union, FS_Intersection
    <2>4. Cardinality(W \cap Live) \in Nat /\ Cardinality(W \cup Live) \in Nat
      BY <2>3, FS_CardinalityType
    <2>5. Cardinality(Crowd) <= Cardinality(W \cup Live)
      BY <2>1, <2>3, FS_Subset
    <2> QED BY <2>2, <2>3, <2>4, <2>5, <1>2, <1>4
  <1>6. Cardinality(Live') <= MaxActive
    <2>1. CASE Live' \subseteq Live
      <3>1. Cardinality(Live') <= Cardinality(Live) /\ Cardinality(Live') \in Nat
        BY <2>1, <1>2, FS_Subset, FS_CardinalityType
      <3> QED BY <3>1, <1>2, <1>3 DEF CrowdOK
    <2>2. ASSUME Len(active) < MaxActive, NEW r \in Req, Live' \subseteq Live \cup {r}
          PROVE  Cardinality(Live') <= MaxActive
      <3>1. IsFiniteSet(Live \cup {r}) /\ Cardinality(Live \cup {r}) <= Cardinality(Live) + 1
            /\ Cardinality(Live \cup {r}) \in Nat
        BY <1>2, OneMore
      <3>2. Cardinality(Live') <= Cardinality(Live \cup {r}) /\ Cardinality(Live') \in Nat
        BY <2>2, <3>1, FS_Subset, FS_CardinalityType
      <3> QED BY <3>1, <3>2, <2>2, <1>2, <1>3, <1>4
    <2> QED BY <2>1, <2>2, CrowdMoves
  <1>7. Cardinality(Crowd') <= MaxActive + MaxWaiting
    <2>1. CASE Crowd' \subseteq Crowd
      <3>1. Cardinality(Crowd') <= Cardinality(Crowd) /\ Cardinality(Crowd') \in Nat
        BY <2>1, <1>2, FS_Subset, FS_CardinalityType
      <3> QED BY <3>1, <1>2, <1>3 DEF CrowdOK
    <2>2. ASSUME Len(waiting) < MaxWaiting, NEW r \in Req, Crowd' \subseteq Crowd \cup {r}
          PROVE  Cardinality(Crowd') <= MaxActive + MaxWaiting
      <3>1. IsFiniteSet(Crowd \cup {r}) /\ Cardinality(Crowd \cup {r}) <= Cardinality(Crowd) + 1
            /\ Cardinality(Crowd \cup {r}) \in Nat
        BY <1>2, OneMore
      <3>2. Cardinality(Crowd') <= Cardinality(Crowd \cup {r}) /\ Cardinality(Crowd') \in Nat
        BY <2>2, <3>1, FS_Subset, FS_CardinalityType
      <3>3. Cardinality(Live) <= MaxActive
        BY DEF CrowdOK
      <3> QED BY <3>1, <3>2, <3>3, <2>2, <1>2, <1>3, <1>4, <1>5
    <2> QED BY <2>1, <2>2, CrowdMoves
  <1> QED BY <1>6, <1>7 DEF CrowdOK

\* A request of the crowd leaves it only by ending.
LEMMA CrowdStays ==
    ASSUME EngineInv, Moved, LegalStep, NEW r \in Crowd, req'[r].state \notin Terminal
    PROVE  r \in Crowd'
  <1>1. RequestsOK /\ r \in Req /\ r \in Created /\ req[r].queued
    BY DEF EngineInv, SchedulerOK, Crowd, Created
  <1>2. req'[r].state # "new"
    <2>1. req[r].state \in {"WAITING", "PREFILLING", "DECODING"}
      BY <1>1, LiveFacts DEF IsRequest, State, Crowd
    <2>2. CASE req'[r].state = req[r].state
      BY <2>1, <2>2
    <2>3. CASE req'[r].state # req[r].state
      <3>1. req'[r].state \in Allowed[req[r].state]
        BY <1>1, <2>3 DEF LegalStep
      <3> QED BY <2>1, <3>1 DEF Allowed
    <2> QED BY <2>2, <2>3
  <1>3. req'[r].queued
    BY <1>1 DEF Moved, Stays, GainsDue, Gains, Joins, Enters, Arrives, Only
  <1> QED BY <1>1, <1>2, <1>3 DEF Crowd, Created

LEMMA DrawnByForward ==
    ASSUME EngineInv, CrowdOK, GensOK, NEW a, a = AfterRows(SampledRows)
    PROVE  /\ StreamsFit(a)
           /\ ToSet(a.gens) \subseteq ToSet(gens) \cup ToSet(SampledRows)
           /\ \A x \in Req \ ToSet(SampledRows) : a.drawn[x] = drawn[x]
           /\ EnoughGenerators =>
                /\ ToSet(a.gens) = ToSet(gens) \cup ToSet(SampledRows)
                /\ \A x \in ToSet(SampledRows) :
                      a.drawn[x] = IF x \in ToSet(gens) THEN drawn[x] + 1 ELSE 1
  <1> DEFINE s == SampledRows
  <1>1. s \in Seq(Req) /\ IsInjective(s)
    BY SampledRowsFacts
  <1>2. EnoughGenerators => Cardinality(ToSet(gens) \cup ToSet(s)) <= MaxGenerators
    BY CrowdIsFinite
  <1> HIDE DEF s
  <1>3. FirstOf(s, Len(s)) = ToSet(s)
    BY <1>1, ToSetIndexed DEF FirstOf
  <1>4. StreamsFit([gens |-> gens, drawn |-> drawn]) /\ a = AfterRows(s)
    BY DEF GensOK, s
  <1>5. DrawnUpTo(a, s, Len(s))
    BY <1>1, <1>4, AfterRowsDrawn
  <1> QED BY <1>2, <1>3, <1>5 DEF DrawnUpTo, s

LEMMA GensStep ==
    ASSUME EngineInv, CrowdOK, GensOK, Moved, LegalStep, Sample
    PROVE  GensOK'
  <1> DEFINE a == AfterRows(SampledRows)
             g == a.gens
             k == Keep(g, Req \ Forgotten)
  <1>1. /\ StreamsFit(a) /\ ToSet(g) \subseteq ToSet(gens) \cup ToSet(SampledRows)
    BY DrawnByForward
  <1>2. gens' = k /\ drawn' = a.drawn
        /\ logprobs' = [r \in Req |-> IF r \in ToSet(SampledRows) THEN logprobs[r] + 1
                                      ELSE logprobs[r]]
    BY DEF Sample
  <1>3. g \in Seq(Req) /\ IsInjective(g) /\ Len(g) <= MaxGenerators /\ drawn' \in [Req -> Nat]
    BY <1>1, <1>2 DEF StreamsFit, Streams
  <1> HIDE DEF a, g
  <1>4. k \in Seq(Req) /\ ToSet(k) = ToSet(g) \cap (Req \ Forgotten) /\ IsInjective(k)
    BY <1>3, KeepProperties
  <1> HIDE DEF k
  <1>5. Len(k) <= MaxGenerators
    <2>1. IsFiniteSet(ToSet(g)) /\ Cardinality(ToSet(g)) = Len(g) /\ Cardinality(ToSet(k)) = Len(k)
      BY <1>3, <1>4, LengthCounts
    <2>2. Len(k) <= Len(g)
      BY <2>1, <1>4, FS_Subset
    <2>3. Len(k) \in Nat /\ Len(g) \in Nat /\ MaxGenerators \in Nat
      BY <1>3, <1>4, GeneratorAssumption
    <2> QED BY <2>2, <2>3, <1>3
  <1>6. ToSet(k) \subseteq Crowd'
    <2> SUFFICES ASSUME NEW r \in ToSet(k) PROVE r \in Crowd'
      OBVIOUS
    <2>1. r \in ToSet(g) /\ r \in Req /\ req'[r].state \notin Terminal
      BY <1>4 DEF Forgotten
    <2>2. r \in Crowd
      BY <2>1, <1>1, CrowdIsFinite DEF GensOK
    <2> QED BY <2>1, <2>2, CrowdStays
  <1>7. logprobs' \in [Req -> Nat]
    BY <1>2 DEF GensOK
  <1>8. StreamsFit([gens |-> gens', drawn |-> drawn'])
    BY <1>2, <1>3, <1>4, <1>5 DEF StreamsFit, Streams
  <1> QED BY <1>2, <1>6, <1>7, <1>8 DEF GensOK

\* With room for everybody, a row draws the next number of its own stream.
LEMMA SampledDraws ==
    ASSUME EnoughGenerators, EngineInv, CrowdOK, GensOK, StreamsOK, Sample
    PROVE  /\ \A r \in ToSet(SampledRows) : drawn'[r] = drawn[r] + 1 /\ r \in Req
           /\ \A r \in Req \ ToSet(SampledRows) : drawn'[r] = drawn[r]
           /\ ToSet(AfterRows(SampledRows).gens) = ToSet(gens) \cup ToSet(SampledRows)
           /\ drawn \in [Req -> Nat]
  <1> DEFINE a == AfterRows(SampledRows)
  <1>1. /\ ToSet(a.gens) = ToSet(gens) \cup ToSet(SampledRows)
        /\ \A x \in Req \ ToSet(SampledRows) : a.drawn[x] = drawn[x]
        /\ \A x \in ToSet(SampledRows) :
              a.drawn[x] = IF x \in ToSet(gens) THEN drawn[x] + 1 ELSE 1
    BY DrawnByForward
  <1>2. drawn' = a.drawn
    BY DEF Sample
  <1>3. drawn \in [Req -> Nat]
    BY DEF GensOK, StreamsFit, Streams
  <1>4. ASSUME NEW r \in ToSet(SampledRows)
        PROVE  drawn'[r] = drawn[r] + 1 /\ r \in Req
    <2>1. r \in Req /\ req[r].state \notin Terminal
      BY CrowdIsFinite DEF Crowd
    <2>2. r \notin ToSet(gens) => drawn[r] = 0
      BY <2>1 DEF StreamsOK
    <2>3. drawn'[r] = IF r \in ToSet(gens) THEN drawn[r] + 1 ELSE 1
      BY <1>1, <1>2
    <2> QED BY <2>1, <2>2, <2>3
  <1> QED BY <1>1, <1>2, <1>3, <1>4

LEMMA StreamsStep ==
    ASSUME EnoughGenerators, EngineInv, CrowdOK, GensOK, StreamsOK, LegalStep, Sample
    PROVE  StreamsOK'
  <1> DEFINE g == AfterRows(SampledRows).gens
  <1>1. /\ \A r \in ToSet(SampledRows) : drawn'[r] = drawn[r] + 1 /\ r \in Req
        /\ \A r \in Req \ ToSet(SampledRows) : drawn'[r] = drawn[r]
        /\ ToSet(g) = ToSet(gens) \cup ToSet(SampledRows)
    BY SampledDraws
  <1>2. g \in Seq(Req)
    BY DrawnByForward DEF StreamsFit, Streams
  <1>3. gens' = Keep(g, Req \ Forgotten)
        /\ logprobs' = [r \in Req |-> IF r \in ToSet(SampledRows) THEN logprobs[r] + 1
                                      ELSE logprobs[r]]
    BY DEF Sample
  <1> HIDE DEF g
  <1>4. ToSet(gens') = ToSet(g) \cap (Req \ Forgotten)
    BY <1>2, <1>3, KeepProperties
  <1> SUFFICES ASSUME NEW r \in Req
               PROVE  /\ drawn'[r] = logprobs'[r]
                      /\ r \notin ToSet(gens') /\ req'[r].state \notin Terminal => drawn'[r] = 0
    BY DEF StreamsOK
  <1>5. drawn'[r] = logprobs'[r]
    BY <1>1, <1>3 DEF StreamsOK
  <1>6. ASSUME r \notin ToSet(gens'), req'[r].state \notin Terminal
        PROVE  drawn'[r] = 0
    <2>1. r \notin ToSet(gens) /\ r \notin ToSet(SampledRows)
      BY <1>1, <1>4, <1>6 DEF Forgotten
    <2>2. req[r].state \notin Terminal
      BY <1>6 DEF LegalStep
    <2> QED BY <2>1, <2>2, <1>1 DEF StreamsOK
  <1> QED BY <1>5, <1>6

LEMMA PaidStep ==
    ASSUME EnoughGenerators, Books, EngineInv, CrowdOK, GensOK, StreamsOK, PaidOK, Next, Sample
    PROVE  PaidOK'
  <1>1. /\ \A r \in ToSet(SampledRows) : drawn'[r] = drawn[r] + 1 /\ r \in Req
        /\ \A r \in Req \ ToSet(SampledRows) : drawn'[r] = drawn[r]
        /\ drawn \in [Req -> Nat]
    BY SampledDraws
  <1>2. RequestsOK
    BY DEF EngineInv, SchedulerOK
  <1>3. \A r \in Created : r \in Req /\ Len(req[r].out) \in Nat
    <2> SUFFICES ASSUME NEW r \in Created PROVE r \in Req /\ Len(req[r].out) \in Nat
      OBVIOUS
    <2>1. r \in Req /\ IsRequest(req[r])
      BY <1>2, LiveFacts
    <2>2. IsSeq(req[r].out)
      BY <2>1 DEF IsRequest
    <2> QED BY <2>1, <2>2 DEF IsSeq
  <1> SUFFICES ASSUME NEW r \in Req, req'[r].state # "new", ~req'[r].kind.greedy
               PROVE  Len(req'[r].out) <= drawn'[r] /\ (r \in Owed' => Len(req'[r].out) < drawn'[r])
    BY DEF PaidOK, Created
  <1>4. drawn'[r] = drawn[r] \/ (r \in ToSet(SampledRows) /\ drawn'[r] = drawn[r] + 1)
    BY <1>1
  <1>5. CASE pc \in {"decode", "forward"}
    <2>1. req' = req /\ Owed' \subseteq ToSet(LogitRows)
      BY <1>5, ForwardOwes
    <2>2. r \in Created /\ ~req[r].kind.greedy
      BY <2>1 DEF Created
    <2>3. Len(req[r].out) <= drawn[r] /\ drawn[r] \in Nat
      <3>1. Len(req[r].out) <= drawn[r] /\ (r \in Owed => Len(req[r].out) < drawn[r])
        BY <2>2 DEF PaidOK
      <3> QED BY <3>1, <2>2, <1>1, <1>3
    <2>4. r \in Owed' => r \in ToSet(SampledRows)
      BY <2>1, <2>2, SampledRowsFacts
    <2> QED BY <2>1, <2>2, <2>3, <2>4, <1>1, <1>3
  <1>6. CASE pc \notin {"decode", "forward"}
    <2>1. ToSet(SampledRows) = {} /\ Owed' \subseteq Owed /\ Moved
      BY <1>6, SampledRowsFacts, DebtsArePaid, NextMoves
    <2>2. drawn'[r] = drawn[r] /\ drawn[r] \in Nat
      BY <2>1, <1>1
    <2>3. ASSUME r \in Created, req'[r].kind = req[r].kind, req'[r].out = req[r].out
          PROVE  Len(req'[r].out) <= drawn'[r] /\ (r \in Owed' => Len(req'[r].out) < drawn'[r])
      <3>1. Len(req[r].out) <= drawn[r] /\ (r \in Owed => Len(req[r].out) < drawn[r])
        BY <2>3 DEF PaidOK
      <3> QED BY <3>1, <2>1, <2>2, <2>3, <1>3
    <2>4. ASSUME r \in Created, GainsDue(r)
          PROVE  Len(req'[r].out) <= drawn'[r] /\ (r \in Owed' => Len(req'[r].out) < drawn'[r])
      <3>1. /\ r \in Owed /\ r \notin Owed' /\ Len(req'[r].out) = Len(req[r].out) + 1
            /\ ~req[r].kind.greedy
        BY <2>4 DEF GainsDue, Gains
      <3>2. Len(req[r].out) <= drawn[r] /\ (r \in Owed => Len(req[r].out) < drawn[r])
        BY <2>4, <3>1 DEF PaidOK
      <3> QED BY <3>1, <3>2, <2>2, <2>4, <1>3
    <2>5. ASSUME Arrives, r \notin Created
          PROVE  Len(req'[r].out) <= drawn'[r] /\ (r \in Owed' => Len(req'[r].out) < drawn'[r])
      <3>1. req'[r].out = << >>
        <4>1. PICK x \in Req \ Created : Only(x) /\ req'[x].out = << >>
          BY <2>5 DEF Arrives
        <4>2. r = x
          BY <4>1, <2>5 DEF Only, Created
        <4> QED BY <4>1, <4>2
      <3>2. r \notin Owed'
        BY <2>5 DEF Arrives, Owed
      <3> QED BY <3>1, <3>2, <2>2
    <2>6. \/ r \in Created /\ req'[r].kind = req[r].kind /\ req'[r].out = req[r].out
          \/ r \in Created /\ GainsDue(r)
          \/ Arrives /\ r \notin Created
      <3>1. CASE req' = req
        BY <3>1 DEF Created
      <3>2. ASSUME NEW x \in Created, Stays(x) \/ GainsDue(x) \/ Joins(x) \/ Enters(x)
            PROVE  \/ r \in Created /\ req'[r].kind = req[r].kind /\ req'[r].out = req[r].out
                   \/ r \in Created /\ GainsDue(r)
        <4>1. Only(x)
          BY <3>2 DEF Stays, GainsDue, Gains, Joins, Enters
        <4>2. CASE r # x
          BY <4>1, <4>2 DEF Only, Created
        <4>3. CASE r = x
          BY <3>2, <4>3 DEF Stays, Joins, Enters
        <4> QED BY <4>2, <4>3
      <3>3. ASSUME Arrives, r \in Created
            PROVE  req'[r].kind = req[r].kind /\ req'[r].out = req[r].out
        BY <3>3 DEF Arrives, Only
      <3> QED BY <2>1, <3>1, <3>2, <3>3 DEF Moved
    <2> QED BY <2>3, <2>4, <2>5, <2>6
  <1> QED BY <1>5, <1>6

LEMMA InitSampleInv ==
    ASSUME SampleInit
    PROVE  CrowdOK /\ GensOK /\ StreamsOK /\ PaidOK
  <1>1. /\ req = [r \in Req |-> NoRequest] /\ pc = "idle"
        /\ gens = << >> /\ drawn = [r \in Req |-> 0] /\ logprobs = [r \in Req |-> 0]
    BY DEF SampleInit, Init
  <1>2. Created = {}
    BY <1>1 DEF Created, NoRequest
  <1>3. Live = {} /\ Crowd = {}
    BY <1>2 DEF Live, Crowd
  <1>4. CrowdOK
    BY <1>3, FS_EmptySet, EngineAssumption DEF CrowdOK
  <1>5. GensOK
    <2>1. gens \in Seq(Req) /\ IsInjective(gens) /\ ToSet(gens) = {} /\ Len(gens) = 0
      BY <1>1, EmptyLists
    <2>2. StreamsFit([gens |-> gens, drawn |-> drawn])
      BY <2>1, <1>1, GeneratorAssumption DEF StreamsFit, Streams
    <2> QED BY <2>1, <2>2, <1>1 DEF GensOK
  <1>6. StreamsOK /\ PaidOK
    BY <1>1, <1>2 DEF StreamsOK, PaidOK
  <1> QED BY <1>4, <1>5, <1>6

\* When nothing moves, nothing is lost.
LEMMA StutterSampleInv ==
    ASSUME UNCHANGED sampleVars
    PROVE  /\ CrowdOK => CrowdOK'
           /\ GensOK => GensOK'
           /\ StreamsOK => StreamsOK'
           /\ PaidOK => PaidOK'
  <1>1. /\ req' = req /\ pc' = pc /\ todo' = todo /\ plans' = plans
        /\ gens' = gens /\ drawn' = drawn /\ logprobs' = logprobs
    BY DEF sampleVars, vars, sched
  <1>2. Created' = Created /\ Owed' = Owed
    BY <1>1 DEF Created, Owed
  <1>3. Live' = Live /\ Crowd' = Crowd
    BY <1>1, <1>2 DEF Live, Crowd
  <1> QED BY <1>1, <1>2, <1>3 DEF CrowdOK, GensOK, StreamsOK, PaidOK

LEMMA SamplingIsServing == SampleSpec => Spec
  <1>1. SampleInit => Init
    BY DEF SampleInit
  <1>2. [SampleNext]_sampleVars => [Next]_vars
    BY DEF SampleNext, sampleVars
  <1> QED BY <1>1, <1>2, PTL DEF SampleSpec, Spec

LEMMA CrowdInvariant == SampleSpec => [](CrowdOK /\ GensOK)
  <1>1. SampleInit => CrowdOK /\ GensOK
    BY InitSampleInv
  <1>2. EngineInv /\ CrowdOK /\ GensOK /\ [SampleNext]_sampleVars => (CrowdOK /\ GensOK)'
    <2> SUFFICES ASSUME EngineInv, CrowdOK, GensOK, [SampleNext]_sampleVars
                 PROVE  CrowdOK' /\ GensOK'
      OBVIOUS
    <2>1. CASE SampleNext
      <3>1. Next /\ Sample
        BY <2>1 DEF SampleNext
      <3>2. LegalStep /\ Moved
        BY <3>1, NextEngineInv, NextMoves
      <3> QED BY <3>1, <3>2, CrowdStep, GensStep
    <2>2. CASE UNCHANGED sampleVars
      BY <2>2, StutterSampleInv
    <2> QED BY <2>1, <2>2
  <1>3. SampleSpec => []EngineInv
    BY SamplingIsServing, EngineInvariant, PTL
  <1> QED BY <1>1, <1>2, <1>3, PTL DEF SampleSpec

LEMMA StreamsInvariant ==
    ASSUME EnoughGenerators
    PROVE  SampleSpec => []StreamsOK
  <1>1. SampleInit => StreamsOK
    BY InitSampleInv
  <1>2. EngineInv /\ CrowdOK /\ GensOK /\ StreamsOK /\ [SampleNext]_sampleVars => StreamsOK'
    <2> SUFFICES ASSUME EngineInv, CrowdOK, GensOK, StreamsOK, [SampleNext]_sampleVars
                 PROVE  StreamsOK'
      OBVIOUS
    <2>1. CASE SampleNext
      <3>1. Next /\ Sample
        BY <2>1 DEF SampleNext
      <3>2. LegalStep
        BY <3>1, NextEngineInv
      <3> QED BY <3>1, <3>2, StreamsStep
    <2>2. CASE UNCHANGED sampleVars
      BY <2>2, StutterSampleInv
    <2> QED BY <2>1, <2>2
  <1>3. SampleSpec => []EngineInv
    BY SamplingIsServing, EngineInvariant, PTL
  <1>4. SampleSpec => [](CrowdOK /\ GensOK)
    BY CrowdInvariant
  <1> QED BY <1>1, <1>2, <1>3, <1>4, PTL DEF SampleSpec

-----------------------------------------------------------------------------
(* Seeded requests: the theorems. *)

(***************************************************************************)
(* BatchedSampler keeps at most max_generators generators, one for each    *)
(* request, and forget drops the generator of a request that ends          *)
(* (_finish_request, _fail_request, cancel): all of them belong to         *)
(* submitted requests that have not ended.                                 *)
(***************************************************************************)
THEOREM GeneratorsLive == SampleSpec => []GeneratorsOfTheLiving
  <1>1. CrowdOK /\ GensOK => GeneratorsOfTheLiving
    BY DEF GensOK, StreamsFit, Crowd, GeneratorsOfTheLiving
  <1> QED BY <1>1, CrowdInvariant, PTL

(***************************************************************************)
(* _row_generator never restarts the stream of a living request while the  *)
(* map has room for the requests the scheduler can hold: preemption,       *)
(* chunking and the draws of other rows leave it where it was.             *)
(***************************************************************************)
THEOREM StreamsContinue ==
    ASSUME EnoughGenerators
    PROVE  SampleSpec => StreamsNeverRestart
  <1>1. EngineInv /\ CrowdOK /\ GensOK /\ StreamsOK /\ [SampleNext]_sampleVars
           => [\A r \in ToSet(SampledRows) : drawn'[r] = drawn[r] + 1]_sampleVars
    BY SampledDraws DEF SampleNext
  <1>2. SampleSpec => []EngineInv
    BY SamplingIsServing, EngineInvariant, PTL
  <1>3. SampleSpec => [](CrowdOK /\ GensOK)
    BY CrowdInvariant
  <1>4. SampleSpec => []StreamsOK
    BY StreamsInvariant
  <1> QED BY <1>1, <1>2, <1>3, <1>4, PTL DEF SampleSpec, StreamsNeverRestart

-----------------------------------------------------------------------------
(* Speculation: the acceptance rule. *)

LEMMA MaxProperties ==
    ASSUME NEW n \in Nat, NEW T, T \subseteq 0 .. n, T # {}
    PROVE  Max(T) \in T /\ \A x \in T : x <= Max(T)
  <1>1. PICK x \in T : \A y \in T : y <= x
    BY GreatestExists
  <1>2. \A y \in T : x >= y
    BY <1>1
  <1> QED BY <1>2 DEF Max

LEMMA LeastOfTwo ==
    ASSUME NEW a \in Int, NEW b \in Int
    PROVE  Min({a, b}) = IF a <= b THEN a ELSE b
  <1>1. \E x \in {a, b} : \A y \in {a, b} : x <= y
    OBVIOUS
  <1>2. Min({a, b}) \in {a, b} /\ \A y \in {a, b} : Min({a, b}) <= y
    BY <1>1 DEF Min
  <1> QED BY <1>2

\* CommonPrefix is the length of a prefix that both have.
LEMMA CommonPrefixFacts ==
    ASSUME NEW S, NEW a \in Seq(S), NEW b \in Seq(S), NEW n, n = CommonPrefix(a, b)
    PROVE  /\ n \in Nat /\ n <= Len(a) /\ n <= Len(b)
           /\ SubSeq(a, 1, n) = SubSeq(b, 1, n)
           /\ \A i \in 1 .. n : a[i] = b[i]
  <1> DEFINE C == CommonPrefixes({a, b})
  <1>1. \A p \in C : /\ p \in Seq(S) /\ Len(p) \in 0 .. Len(a)
                     /\ IsPrefix(p, a) /\ IsPrefix(p, b)
    <2> TAKE p \in C
    <2>1. IsPrefix(p, a) /\ IsPrefix(p, b) /\ \E s \in {a, b} : p \in Prefixes(s)
      BY DEF CommonPrefixes
    <2>2. p \in Seq(S) /\ Len(p) \in Nat
      BY <2>1 DEF Prefixes
    <2> QED BY <2>1, <2>2 DEF IsPrefix
  <1>2. << >> \in C
    <2>1. SubSeq(a, 1, 0) = << >> /\ SubSeq(b, 1, 0) = << >> /\ 0 \in 0 .. Len(a)
      OBVIOUS
    <2>2. << >> \in Prefixes(a)
      BY <2>1 DEF Prefixes
    <2>3. IsPrefix(<< >>, a) /\ IsPrefix(<< >>, b)
      BY <2>1 DEF IsPrefix
    <2> QED BY <2>2, <2>3 DEF CommonPrefixes
  <1> HIDE DEF C
  <1> DEFINE L == {Len(p) : p \in C}
  <1>3. PICK x \in L : \A y \in L : y <= x
    <2>1. L \subseteq 0 .. Len(a) /\ L # {} /\ Len(a) \in Nat
      <3>1. \A p \in C : Len(p) \in 0 .. Len(a)
        BY <1>1
      <3>2. L \subseteq 0 .. Len(a)
        BY <3>1
      <3>3. L # {}
        BY <1>2
      <3> QED BY <3>2, <3>3, LenProperties
    <2> HIDE DEF L
    <2> QED BY <2>1, GreatestExists
  <1>4. PICK p \in C : x = Len(p)
    OBVIOUS
  <1>5. \A q \in C : Len(q) <= Len(p)
    BY <1>3, <1>4
  <1> DEFINE l == LongestCommonPrefix({a, b})
  <1>6. l \in C
    BY <1>5 DEF LongestCommonPrefix, C
  <1>7. n = Len(l)
    BY DEF CommonPrefix
  <1> HIDE DEF l
  <1>8. /\ n \in Nat /\ n <= Len(a) /\ n <= Len(b)
        /\ SubSeq(a, 1, n) = l /\ SubSeq(b, 1, n) = l
    <2>1. l \in Seq(S) /\ Len(l) \in 0 .. Len(a) /\ IsPrefix(l, a) /\ IsPrefix(l, b)
      BY <1>1, <1>6
    <2>2. SubSeq(l, 1, Len(l)) = l
      BY <2>1
    <2> QED BY <1>7, <2>1, <2>2 DEF IsPrefix
  <1>9. \A i \in 1 .. n : a[i] = b[i]
    <2> TAKE i \in 1 .. n
    <2>1. SubSeq(a, 1, n)[i] = a[i] /\ SubSeq(b, 1, n)[i] = b[i]
      BY <1>8
    <2> QED BY <2>1, <1>8
  <1> QED BY <1>8, <1>9

\* The tokens a verified row may get: the target's own, up to the first proposal it
\* does not share.
Verified(c, draft, target, bonus, S) ==
    /\ c \in Seq(S) /\ Len(c) \in 1 .. Len(draft) + 1
    /\ \A i \in 1 .. Len(c) - 1 : c[i] = draft[i]
    /\ \A i \in 1 .. Len(c) : /\ i <= Len(draft) => c[i] = target[i]
                              /\ i > Len(draft) => c[i] = bonus

LEMMA RoundTokensFacts ==
    ASSUME NEW S, NEW draft \in Seq(S), NEW target \in Seq(S), Len(target) = Len(draft),
           NEW bonus \in S
    PROVE  Verified(RoundTokens(draft, target, bonus), draft, target, bonus, S)
  <1> DEFINE a == CommonPrefix(draft, target)
             d == SubSeq(draft, 1, a)
             e == IF a = Len(draft) THEN bonus ELSE target[a + 1]
             c == RoundTokens(draft, target, bonus)
  <1>1. /\ a \in Nat /\ a <= Len(draft)
        /\ \A i \in 1 .. a : draft[i] = target[i]
    BY CommonPrefixFacts
  <1>2. c = Append(d, e)
    BY DEF RoundTokens
  <1> HIDE DEF a, c
  <1>3. d \in Seq(S) /\ Len(d) = a /\ \A i \in 1 .. a : d[i] = draft[i]
    BY <1>1
  <1>4. e \in S
    BY <1>1
  <1> HIDE DEF d, e
  <1>5. /\ c \in Seq(S) /\ Len(c) = a + 1 /\ c[a + 1] = e
        /\ \A i \in 1 .. a : c[i] = d[i]
    BY <1>1, <1>2, <1>3, <1>4
  <1>6. \A i \in 1 .. Len(c) : /\ i <= Len(draft) => c[i] = target[i]
                               /\ i > Len(draft) => c[i] = bonus
    <2> TAKE i \in 1 .. Len(c)
    <2>1. CASE i \in 1 .. a
      BY <2>1, <1>1, <1>3, <1>5
    <2>2. CASE i = a + 1
      BY <2>2, <1>1, <1>5 DEF e
    <2> QED BY <2>1, <2>2, <1>1, <1>5
  <1> QED BY <1>1, <1>3, <1>5, <1>6 DEF Verified, c

\* e is what a round commits: tokens the row may get, up to the limit and to the first
\* that ends the request.
RoundCommits(p, e, draft, target, bonus, remaining, eos, stop, ignoreEos) ==
    LET Ends(t) == EndsWith(t, eos, stop, ignoreEos)
    IN  /\ Len(e) \in 1 .. Len(draft) + 1 /\ Len(e) <= remaining
        /\ p.cached = Len(e)
        /\ \A i \in 1 .. Len(e) - 1 : e[i] = draft[i] /\ Ends(e[i]) = "none"
        /\ \A i \in 1 .. Len(e) : /\ i <= Len(draft) => e[i] = target[i]
                                  /\ i > Len(draft) => e[i] = bonus
        /\ p.reason = IF Ends(e[Len(e)]) # "none" THEN Ends(e[Len(e)])
                      ELSE IF Len(e) = remaining THEN "LENGTH" ELSE "none"

LEMMA PlanFacts ==
    ASSUME NEW S, NEW draft \in Seq(S), NEW target \in Seq(S), Len(target) = Len(draft),
           NEW bonus \in S, NEW remaining \in Nat \ {0}, NEW eos, NEW stop, NEW ignoreEos,
           NEW p, p = Plan(draft, target, bonus, remaining, eos, stop, ignoreEos)
    PROVE  /\ p.emitted \in Seq(S)
           /\ RoundCommits(p, p.emitted, draft, target, bonus, remaining, eos, stop, ignoreEos)
  <1>0. PICK c : c = RoundTokens(draft, target, bonus)
    OBVIOUS
  <1> DEFINE most == SubSeq(c, 1, Min({Len(c), remaining}))
             Ends(t) == EndsWith(t, eos, stop, ignoreEos)
             I == {i \in 1 .. Len(most) : Ends(most[i]) # "none"}
             i == IF I # {} THEN Min(I) ELSE 0
             e == IF i = 0 THEN most ELSE SubSeq(most, 1, i)
  <1>1. /\ p.emitted = e /\ p.cached = Len(e)
        /\ p.reason = IF i # 0 THEN Ends(most[i])
                      ELSE IF Len(e) = remaining THEN "LENGTH" ELSE "none"
    BY <1>0 DEF Plan, SelectInSeq
  <1>2. /\ c \in Seq(S) /\ Len(c) \in 1 .. Len(draft) + 1
        /\ \A k \in 1 .. Len(c) - 1 : c[k] = draft[k]
        /\ \A k \in 1 .. Len(c) : /\ k <= Len(draft) => c[k] = target[k]
                                  /\ k > Len(draft) => c[k] = bonus
    <2>1. Verified(c, draft, target, bonus, S)
      BY <1>0, RoundTokensFacts
    <2> QED BY <2>1 DEF Verified
  <1>3. Min({Len(c), remaining}) = IF Len(c) <= remaining THEN Len(c) ELSE remaining
    <2>1. Len(c) \in Int /\ remaining \in Int
      BY <1>2
    <2> QED BY <2>1, LeastOfTwo
  <1>4. /\ most \in Seq(S) /\ Len(most) \in 1 .. Len(c) /\ Len(most) <= remaining
        /\ \A k \in 1 .. Len(most) : most[k] = c[k]
    <2>1. PICK k : k = Min({Len(c), remaining})
      OBVIOUS
    <2>2. k \in 1 .. Len(c) /\ k <= remaining
      BY <1>2, <1>3, <2>1
    <2>3. most = SubSeq(c, 1, k)
      BY <2>1
    <2> HIDE DEF most
    <2> QED BY <1>2, <2>2, <2>3
  <1> HIDE DEF most
  <1>5. /\ I # {} => i \in I /\ \A k \in I : i <= k
        /\ I \subseteq 1 .. Len(most)
        /\ I = {} => i = 0
    <2>1. I \subseteq 1 .. Len(most) /\ I \subseteq Nat
      OBVIOUS
    <2> HIDE DEF I
    <2> QED BY <2>1, MinProperties
  <1>6. \A k \in 1 .. Len(most) : k \in I <=> Ends(most[k]) # "none"
    OBVIOUS
  <1> HIDE DEF I, i, Ends
  <1>7. CASE I = {}
    <2>1. e = most /\ i = 0
      BY <1>5, <1>7
    <2>2. \A k \in 1 .. Len(most) : Ends(most[k]) = "none"
      BY <1>6, <1>7
    <2> HIDE DEF e
    <2>3. PICK x : x = p.emitted
      OBVIOUS
    <2>4. x = most /\ p.cached = Len(x) /\ p.reason = IF Len(x) = remaining THEN "LENGTH" ELSE "none"
      BY <1>1, <2>1, <2>3
    <2>5. RoundCommits(p, x, draft, target, bonus, remaining, eos, stop, ignoreEos)
      BY <1>2, <1>4, <2>2, <2>4 DEF Ends, RoundCommits
    <2>6. x \in Seq(S)
      BY <2>4, <1>4
    <2> QED BY <2>3, <2>5, <2>6
  <1>8. CASE I # {}
    <2>1. i \in 1 .. Len(most) /\ i # 0 /\ Ends(most[i]) # "none"
      <3>1. i \in I /\ i \in 1 .. Len(most)
        BY <1>5, <1>8
      <3> QED BY <3>1, <1>4, <1>6
    <2>2. e = SubSeq(most, 1, i)
      BY <2>1
    <2>3. e \in Seq(S) /\ Len(e) = i /\ \A k \in 1 .. i : e[k] = most[k]
      BY <2>1, <2>2, <1>4
    <2>4. \A k \in 1 .. i - 1 : Ends(most[k]) = "none"
      <3> TAKE k \in 1 .. i - 1
      <3>1. k \in 1 .. Len(most) /\ k \notin I
        BY <1>4, <1>5, <1>8, <2>1
      <3> QED BY <3>1, <1>6
    <2> HIDE DEF e
    <2>5. /\ Len(e) \in 1 .. Len(draft) + 1 /\ Len(e) <= remaining
          /\ \A k \in 1 .. Len(e) - 1 : e[k] = draft[k] /\ Ends(e[k]) = "none"
      <3>1. \A k \in 1 .. i - 1 : k \in 1 .. i /\ k \in 1 .. Len(c) - 1 /\ k \in 1 .. Len(most)
        BY <1>2, <1>4, <2>1
      <3>2. ASSUME NEW k \in 1 .. Len(e) - 1 PROVE e[k] = draft[k] /\ Ends(e[k]) = "none"
        <4>1. k \in 1 .. i - 1
          BY <2>3
        <4>2. e[k] = most[k] /\ most[k] = c[k] /\ c[k] = draft[k] /\ Ends(most[k]) = "none"
          BY <4>1, <3>1, <1>2, <1>4, <2>3, <2>4
        <4> QED BY <4>2
      <3> QED BY <3>2, <1>2, <1>4, <2>1, <2>3
    <2>6. \A k \in 1 .. Len(e) : /\ k <= Len(draft) => e[k] = target[k]
                                 /\ k > Len(draft) => e[k] = bonus
      <3> TAKE k \in 1 .. Len(e)
      <3>1. k \in 1 .. i /\ k \in 1 .. Len(most) /\ k \in 1 .. Len(c)
        BY <1>2, <1>4, <2>1, <2>3
      <3>2. e[k] = most[k] /\ most[k] = c[k]
        BY <3>1, <1>4, <2>3
      <3>3. (k <= Len(draft) => c[k] = target[k]) /\ (k > Len(draft) => c[k] = bonus)
        BY <3>1, <1>2
      <3> QED BY <3>2, <3>3
    <2>7. e[Len(e)] = most[i]
      BY <2>1, <2>3
    <2>8. p.reason = Ends(e[Len(e)]) /\ Ends(e[Len(e)]) # "none"
      BY <1>1, <2>1, <2>7
    <2>9. e \in Seq(S)
      BY <2>3
    <2>10. RoundCommits(p, e, draft, target, bonus, remaining, eos, stop, ignoreEos)
      BY <1>1, <2>5, <2>6, <2>8 DEF Ends, RoundCommits
    <2> QED BY <1>1, <2>9, <2>10
  <1> QED BY <1>7, <1>8

-----------------------------------------------------------------------------
(* Speculation: the proposers. *)

\* An n-gram proposal is a piece of the history.
LEMMA NgramTokens ==
    ASSUME NEW S, NEW toks \in Seq(S), NEW most \in Int
    PROVE  NgramPropose(toks, most) \in Seq(S)
  <1> DEFINE N == Min({MaxMatch, Len(toks) \div 2})
             widths == {w \in MinMatch .. N : Matches(toks, w) # {}}
             w == Max(widths)
             start == Max(Matches(toks, w)) + w
             p == NgramPropose(toks, most)
  <1>1. p = IF most <= 0 \/ widths = {} THEN << >> ELSE Slice(toks, start, start + most)
    BY DEF NgramPropose
  <1>2. CASE most <= 0 \/ widths = {}
    <2>1. p = << >>
      BY <1>1, <1>2
    <2> QED BY <2>1
  <1>3. CASE ~(most <= 0 \/ widths = {})
    <2>1. N \in Int
      <3>1. MaxMatch \in Int /\ Len(toks) \div 2 \in Int
        BY MatchAssumption
      <3> QED BY <3>1, LeastOfTwo
    <2>2. /\ \A x \in widths : x \in MinMatch .. N /\ Matches(toks, x) # {}
          /\ widths # {}
      BY <1>3
    <2> HIDE DEF N, widths
    <2>3. widths \subseteq 0 .. N /\ N \in Nat
      BY <2>1, <2>2, MatchAssumption
    <2>4. w \in widths
      BY <2>2, <2>3, MaxProperties
    <2> HIDE DEF w
    <2>5. PICK v : v = w
      OBVIOUS
    <2>6. v \in Nat /\ Matches(toks, v) # {}
      <3>1. v \in MinMatch .. N /\ Matches(toks, v) # {}
        BY <2>2, <2>4, <2>5, Zenon
      <3> QED BY <3>1, <2>3, MatchAssumption
    <2>7. Matches(toks, v) \subseteq 0 .. Len(toks) /\ Len(toks) \in Nat
      BY <2>6 DEF Matches
    <2>8. Max(Matches(toks, v)) \in 0 .. Len(toks)
      BY <2>6, <2>7, MaxProperties
    <2>9. PICK a : a = Max(Matches(toks, v)) + v
      OBVIOUS
    <2>10. a \in Nat
      BY <2>6, <2>7, <2>8, <2>9
    <2>11. PICK b : b = Min({a + most, Len(toks)})
      OBVIOUS
    <2>12. b \in Int /\ b <= Len(toks)
      <3>1. a + most \in Int /\ Len(toks) \in Int
        BY <2>10
      <3> QED BY <3>1, <2>11, LeastOfTwo
    <2>13. p = Slice(toks, a, a + most)
      BY <1>1, <1>3, <2>5, <2>9 DEF w
    <2>14. p = SubSeq(toks, a + 1, b)
      BY <2>11, <2>13 DEF Slice
    <2> HIDE DEF p
    <2>15. p \in Seq(S)
      BY <2>10, <2>12, <2>14
    <2> QED BY <2>15 DEF p
  <1> QED BY <1>2, <1>3

\* The draft model answers every context with a token.
DraftTyped == \A s \in Seq(Token) : DraftModel(s) \in Token

\* A sequence cut in two.
LEMMA CutInTwo ==
    ASSUME NEW S, NEW h \in Seq(S), NEW n \in 0 .. Len(h)
    PROVE  SubSeq(h, 1, n) \o SubSeq(h, n + 1, Len(h)) = h
  <1> DEFINE a == SubSeq(h, 1, n)
             b == SubSeq(h, n + 1, Len(h))
  <1>1. a \in Seq(S) /\ Len(a) = n /\ \A i \in 1 .. n : a[i] = h[i]
    OBVIOUS
  <1>2. b \in Seq(S) /\ Len(b) = Len(h) - n /\ \A i \in 1 .. Len(h) - n : b[i] = h[n + i]
    OBVIOUS
  <1> HIDE DEF a, b
  <1>3. /\ a \o b \in Seq(S) /\ Len(a \o b) = Len(h)
        /\ \A i \in 1 .. Len(h) : (a \o b)[i] = h[i]
    <2>1. a \o b \in Seq(S) /\ Len(a \o b) = Len(h)
      <3>1. a \o b \in Seq(S) /\ Len(a \o b) = Len(a) + Len(b)
        BY <1>1, <1>2, ConcatProperties
      <3>2. PICK l : l = Len(h)
        OBVIOUS
      <3>3. l \in Nat /\ n \in 0 .. l /\ Len(a) = n /\ Len(b) = l - n
        BY <3>2, <1>1, <1>2
      <3>4. n + (l - n) = l
        BY <3>3
      <3> QED BY <3>1, <3>2, <3>3, <3>4
    <2>2. ASSUME NEW i \in 1 .. Len(h) PROVE (a \o b)[i] = h[i]
      <3>1. CASE i <= n
        <4>1. i \in 1 .. n
          BY <3>1
        <4> QED BY <4>1, <1>1, <1>2
      <3>2. CASE ~(i <= n)
        <4>1. i - n \in 1 .. Len(h) - n /\ n + (i - n) = i
          BY <3>2
        <4>2. (a \o b)[i] = b[i - n]
          BY <3>2, <1>1, <1>2
        <4> QED BY <4>1, <4>2, <1>2
      <3> QED BY <3>1, <3>2
    <2> QED BY <2>1, <2>2
  <1>4. a \o b = h
    BY <1>3, SeqEqual
  <1> QED BY <1>4 DEF a, b

\* _synchronize leaves the cache at the history, whatever prefix of it was there.
LEMMA SynchronizeExact ==
    ASSUME NEW S, NEW h \in Seq(S), NEW d, DraftExact(d), d.tokens \in Seq(S)
    PROVE  Synchronize(d, h) = [tokens |-> h, cache |-> h, next |-> DraftModel(h)]
  <1> DEFINE n == CommonPrefix(d.tokens, h)
  <1>1. CASE d = NoDraft \/ n = Len(h)
    <2>1. Synchronize(d, h) = DraftForward(<< >>, h, h)
      BY <1>1 DEF Synchronize
    <2>2. << >> \o h = h
      OBVIOUS
    <2> QED BY <2>1, <2>2 DEF DraftForward
  <1>2. CASE ~(d = NoDraft \/ n = Len(h))
    <2>1. Synchronize(d, h) = DraftForward(SubSeq(d.cache, 1, n), SubSeq(h, n + 1, Len(h)), h)
      BY <1>2 DEF Synchronize
    <2>2. d.cache = d.tokens
      BY <1>2 DEF DraftExact
    <2>3. n \in Nat /\ n <= Len(h) /\ SubSeq(d.tokens, 1, n) = SubSeq(h, 1, n)
      <3>1. PICK t : t = d.tokens
        OBVIOUS
      <3>2. t \in Seq(S)
        BY <3>1
      <3>3. /\ CommonPrefix(t, h) \in Nat /\ CommonPrefix(t, h) <= Len(h)
            /\ SubSeq(t, 1, CommonPrefix(t, h)) = SubSeq(h, 1, CommonPrefix(t, h))
        BY <3>2, CommonPrefixFacts
      <3> QED BY <3>1, <3>3
    <2> HIDE DEF n
    <2>4. SubSeq(h, 1, n) \o SubSeq(h, n + 1, Len(h)) = h
      <3>1. n \in 0 .. Len(h)
        BY <2>3
      <3> QED BY <3>1, CutInTwo
    <2>5. SubSeq(d.cache, 1, n) \o SubSeq(h, n + 1, Len(h)) = h
      BY <2>2, <2>3, <2>4
    <2> QED BY <2>1, <2>5 DEF DraftForward
  <1> QED BY <1>1, <1>2

\* g[i] is the history h with i greedy tokens of the draft model.
DraftRun(g, h, n) ==
    /\ g[0] = h
    /\ \A i \in 1 .. n : g[i] = Append(g[i - 1], DraftModel(g[i - 1]))
    /\ \A i \in 0 .. n : /\ g[i] \in Seq(Token) /\ Len(g[i]) = Len(h) + i
                         /\ \A j \in 1 .. Len(h) : g[i][j] = h[j]

LEMMA DraftRuns ==
    ASSUME DraftTyped, NEW h \in Seq(Token), NEW n \in Nat
    PROVE  \E g : /\ DraftRun(g, h, n)
                  /\ GreedyDraft(h, n) = SubSeq(g[n], Len(h) + 1, Len(h) + n)
  <1> DEFINE G == [i \in 1 .. n |-> [x \in Seq(Token) |-> Append(x, DraftModel(x))]]
             step(f) == [i \in 0 .. n |-> IF i = 0 THEN h ELSE Append(f[i - 1], DraftModel(f[i - 1]))]
             k == CHOOSE f : f = step(f)
  <1>0. GreedyDraft(h, n) = SubSeq(k[n], Len(h) + 1, Len(h) + n)
    BY DEF GreedyDraft
  <1>1. /\ G \in [1 .. n -> [Seq(Token) -> Seq(Token)]]
        /\ \A i \in 1 .. n : \A x \in Seq(Token) : G[i][x] = Append(x, DraftModel(x))
    BY DEF DraftTyped
  <1> HIDE DEF G
  <1>2. PICK g : Recursion(g, n, Seq(Token), h, G)
    BY <1>1, RecursionExists
  <1>3. /\ g \in [0 .. n -> Seq(Token)] /\ g[0] = h
        /\ \A i \in 1 .. n : g[i] = Append(g[i - 1], DraftModel(g[i - 1]))
    <2>1. /\ g \in [0 .. n -> Seq(Token)] /\ g[0] = h
          /\ \A i \in 1 .. n : g[i] = G[i][g[i - 1]]
      BY <1>2 DEF Recursion
    <2>2. \A i \in 1 .. n : i - 1 \in 0 .. n /\ g[i - 1] \in Seq(Token)
      BY <2>1
    <2> QED BY <2>1, <2>2, <1>1
  <1>4. g = step(g)
    <2>1. \A i \in 0 .. n : g[i] = IF i = 0 THEN h ELSE Append(g[i - 1], DraftModel(g[i - 1]))
      BY <1>3
    <2> QED BY <1>3, <2>1
  <1>5. k = step(k)
    BY <1>4
  <1> HIDE DEF k
  <1>6. k[0] = h /\ \A i \in 1 .. n : k[i] = Append(k[i - 1], DraftModel(k[i - 1]))
    <2>1. \A i \in 0 .. n : k[i] = IF i = 0 THEN h ELSE Append(k[i - 1], DraftModel(k[i - 1]))
      BY <1>5
    <2>2. k[0] = h
      BY <2>1
    <2>3. ASSUME NEW i \in 1 .. n PROVE k[i] = Append(k[i - 1], DraftModel(k[i - 1]))
      <3>1. i \in 0 .. n /\ i # 0
        OBVIOUS
      <3> QED BY <3>1, <2>1
    <2> QED BY <2>2, <2>3
  <1> DEFINE Good(s, i) == /\ s \in Seq(Token) /\ Len(s) = Len(h) + i
                           /\ \A j \in 1 .. Len(h) : s[j] = h[j]
             U == {i \in 0 .. n : Good(k[i], i)}
  <1>7. 0 \in U
    BY <1>6
  <1>8. ASSUME NEW i \in 0 .. n - 1, i \in U PROVE i + 1 \in U
    <2>1. i + 1 \in 1 .. n /\ i + 1 \in 0 .. n /\ (i + 1) - 1 = i
      OBVIOUS
    <2>2. k[i + 1] = Append(k[i], DraftModel(k[i]))
      BY <2>1, <1>6
    <2>3. Good(k[i], i)
      BY <1>8
    <2>4. DraftModel(k[i]) \in Token
      BY <2>3 DEF DraftTyped
    <2>5. PICK s, t : s = k[i] /\ t = DraftModel(k[i])
      OBVIOUS
    <2>6. Good(Append(s, t), i + 1)
      BY <2>3, <2>4, <2>5
    <2>7. Good(k[i + 1], i + 1)
      BY <2>2, <2>5, <2>6
    <2> HIDE DEF Good
    <2> QED BY <2>1, <2>7
  <1> HIDE DEF U
  <1>9. \A i \in 0 .. n : i \in U
    <2>1. \A i \in 0 .. n - 1 : i \in U => i + 1 \in U
      BY <1>8
    <2> QED BY <1>7, <2>1, BoundedInduction
  <1>10. DraftRun(k, h, n)
    BY <1>6, <1>9 DEF DraftRun, U
  <1> QED BY <1>0, <1>10

\* What a draft state is after n tokens of its own.
DraftRecord(t, c) == [tokens |-> t, cache |-> c, next |-> DraftModel(c)]

LEMMA DraftStepsRun ==
    ASSUME NEW h \in Seq(Token), NEW n \in Nat, NEW d,
           Synchronize(d, h) = DraftRecord(h, h), NEW g, DraftRun(g, h, n)
    PROVE  DraftSteps(d, h, n) =
              DraftRecord(h \o SubSeq(g[n], Len(g[n]) - n + 1, Len(g[n])), g[n])
  <1> DEFINE Step2(x) == DraftForward(x.cache, <<x.next>>, << >>)
             step(f) == [i \in 0 .. n |-> IF i = 0 THEN Synchronize(d, h)
                                          ELSE DraftForward(f[i - 1].cache, <<f[i - 1].next>>, << >>)]
             k == CHOOSE f : f = step(f)
             F == [i \in 0 .. n |-> DraftRecord(IF i = 0 THEN h ELSE << >>, g[i])]
  <1>1. DraftSteps(d, h, n) =
           [k[n] EXCEPT !.tokens = h \o SubSeq(k[n].cache, Len(k[n].cache) - n + 1, Len(k[n].cache))]
    BY DEF DraftSteps
  <1>2. \A i \in 1 .. n : /\ g[i - 1] \in Seq(Token) /\ i - 1 \in 0 .. n
                          /\ g[i] = g[i - 1] \o <<DraftModel(g[i - 1])>>
    <2> TAKE i \in 1 .. n
    <2>1. i - 1 \in 0 .. n /\ g[i] = Append(g[i - 1], DraftModel(g[i - 1]))
      BY DEF DraftRun
    <2>2. g[i - 1] \in Seq(Token)
      BY <2>1 DEF DraftRun
    <2>3. PICK s, t : s = g[i - 1] /\ t = DraftModel(s)
      OBVIOUS
    <2>4. Append(s, t) = s \o <<t>>
      BY <2>2, <2>3
    <2> QED BY <2>1, <2>2, <2>3, <2>4
  <1>3. F = step(F)
    <2>1. ASSUME NEW i \in 0 .. n
          PROVE  F[i] = IF i = 0 THEN Synchronize(d, h)
                        ELSE DraftForward(F[i - 1].cache, <<F[i - 1].next>>, << >>)
      <3>1. CASE i = 0
        <4>1. g[0] = h /\ F[0] = DraftRecord(h, g[0])
          BY DEF DraftRun
        <4> QED BY <3>1, <4>1
      <3>2. CASE i # 0
        <4>1. i \in 1 .. n /\ i - 1 \in 0 .. n
          BY <3>2
        <4>2. F[i - 1].cache = g[i - 1] /\ F[i - 1].next = DraftModel(g[i - 1])
          BY <4>1 DEF DraftRecord
        <4>3. F[i] = DraftRecord(<< >>, g[i])
          BY <3>2
        <4> HIDE DEF F
        <4>4. DraftForward(F[i - 1].cache, <<F[i - 1].next>>, << >>) = DraftRecord(<< >>, g[i])
          BY <4>1, <4>2, <1>2 DEF DraftForward, DraftRecord
        <4> QED BY <3>2, <4>3, <4>4
      <3> QED BY <3>1, <3>2
    <2> HIDE DEF k
    <2>2. F = [i \in 0 .. n |-> F[i]]
      OBVIOUS
    <2> HIDE DEF F
    <2> QED BY <2>1, <2>2
  <1>4. k = step(k)
    BY <1>3
  <1> HIDE DEF k, F
  <1>5. /\ k[0] = Synchronize(d, h)
        /\ \A i \in 1 .. n : k[i] = DraftForward(k[i - 1].cache, <<k[i - 1].next>>, << >>)
    <2>1. \A i \in 0 .. n : k[i] = IF i = 0 THEN Synchronize(d, h)
                                   ELSE DraftForward(k[i - 1].cache, <<k[i - 1].next>>, << >>)
      BY <1>4
    <2>2. k[0] = Synchronize(d, h)
      <3>1. 0 \in 0 .. n
        OBVIOUS
      <3> QED BY <3>1, <2>1, Zenon
    <2>3. ASSUME NEW i \in 1 .. n
          PROVE  k[i] = DraftForward(k[i - 1].cache, <<k[i - 1].next>>, << >>)
      <3>1. i \in 0 .. n /\ i # 0
        OBVIOUS
      <3> QED BY <3>1, <2>1
    <2> QED BY <2>2, <2>3
  <1> DEFINE U == {i \in 0 .. n : \E t : k[i] = DraftRecord(t, g[i])}
  <1>6. 0 \in U
    <2>1. g[0] = h
      BY DEF DraftRun
    <2> QED BY <2>1, <1>5
  <1>7. ASSUME NEW i \in 0 .. n - 1, i \in U PROVE i + 1 \in U
    <2>1. i + 1 \in 1 .. n /\ i + 1 \in 0 .. n /\ (i + 1) - 1 = i
      OBVIOUS
    <2>2. k[i + 1] = DraftForward(k[i].cache, <<k[i].next>>, << >>)
      BY <2>1, <1>5
    <2>3. k[i].cache = g[i] /\ k[i].next = DraftModel(g[i])
      <3>1. PICK t : k[i] = DraftRecord(t, g[i])
        BY <1>7
      <3> QED BY <3>1 DEF DraftRecord
    <2>4. g[i + 1] = g[i] \o <<DraftModel(g[i])>>
      BY <2>1, <1>2
    <2>5. k[i + 1] = DraftRecord(<< >>, g[i + 1])
      BY <2>2, <2>3, <2>4 DEF DraftForward, DraftRecord
    <2> QED BY <2>1, <2>5
  <1>8. n \in U
    <2> HIDE DEF U
    <2>1. \A i \in 0 .. n - 1 : i \in U => i + 1 \in U
      BY <1>7
    <2>2. \A i \in 0 .. n : i \in U
      BY <1>6, <2>1, BoundedInduction
    <2> QED BY <2>2
  <1>9. PICK t : k[n] = DraftRecord(t, g[n])
    BY <1>8
  <1>10. k[n].cache = g[n]
    BY <1>9 DEF DraftRecord
  <1>11. DraftSteps(d, h, n) =
            [DraftRecord(t, g[n]) EXCEPT
                !.tokens = h \o SubSeq(g[n], Len(g[n]) - n + 1, Len(g[n]))]
    BY <1>1, <1>9, <1>10
  <1> QED BY <1>11 DEF DraftRecord

\* The proposal of the draft model, and the state it leaves.
DraftsOwn(p, h, n) ==
    /\ p.tokens = GreedyDraft(h, n) /\ p.tokens \in Seq(Token) /\ Len(p.tokens) = n
    /\ DraftExact(p.state) /\ p.state.tokens \in Seq(Token)

\* Whatever state an earlier history has left, the proposal is the draft model's own.
LEMMA DraftProposeFacts ==
    ASSUME DraftTyped, NEW h \in Seq(Token), h # << >>, NEW n \in Nat \ {0},
           NEW d, DraftExact(d), d.tokens \in Seq(Token)
    PROVE  DraftsOwn(DraftPropose(d, h, n), h, n)
  <1>1. Synchronize(d, h) = DraftRecord(h, h)
    BY SynchronizeExact DEF DraftRecord
  <1>2. PICK g : DraftRun(g, h, n) /\ GreedyDraft(h, n) = SubSeq(g[n], Len(h) + 1, Len(h) + n)
    BY DraftRuns
  <1>3. PICK c : c = g[n]
    OBVIOUS
  <1>4. c \in Seq(Token) /\ Len(c) = Len(h) + n /\ \A j \in 1 .. Len(h) : c[j] = h[j]
    <2>1. n \in 0 .. n
      OBVIOUS
    <2> QED BY <2>1, <1>2, <1>3 DEF DraftRun
  <1> DEFINE e == SubSeq(c, Len(h) + 1, Len(h) + n)
  <1>5. DraftSteps(d, h, n) = DraftRecord(h \o e, c)
    <2>1. DraftSteps(d, h, n) = DraftRecord(h \o SubSeq(c, Len(c) - n + 1, Len(c)), c)
      BY <1>1, <1>2, <1>3, DraftStepsRun
    <2>2. Len(c) - n + 1 = Len(h) + 1 /\ Len(c) = Len(h) + n
      BY <1>4
    <2> QED BY <2>1, <2>2
  <1>6. e \in Seq(Token) /\ Len(e) = n
    BY <1>4
  <1>7. h \o e = c
    <2>1. SubSeq(c, 1, Len(h)) = h
      <3>1. SubSeq(c, 1, Len(h)) \in Seq(Token) /\ Len(SubSeq(c, 1, Len(h))) = Len(h)
            /\ \A i \in 1 .. Len(h) : SubSeq(c, 1, Len(h))[i] = h[i]
        BY <1>4
      <3> QED BY <3>1, SeqEqual
    <2>2. SubSeq(c, 1, Len(h)) \o SubSeq(c, Len(h) + 1, Len(c)) = c
      <3>1. Len(h) \in 0 .. Len(c)
        BY <1>4
      <3> QED BY <3>1, <1>4, CutInTwo
    <2> QED BY <2>1, <2>2, <1>4
  <1> HIDE DEF e
  <1>8. PICK s : s = DraftSteps(d, h, n)
    OBVIOUS
  <1>9. s = DraftRecord(c, c)
    BY <1>5, <1>7, <1>8
  <1>10. DraftPropose(d, h, n) = [tokens |-> SubSeq(s.tokens, Len(h) + 1, Len(s.tokens)), state |-> s]
    BY <1>8 DEF DraftPropose
  <1>11. s.tokens = c /\ s.cache = c /\ s.next = DraftModel(c)
    BY <1>9 DEF DraftRecord
  <1>12. PICK p : p = DraftPropose(d, h, n)
    OBVIOUS
  <1>13. p.tokens = e /\ p.state = s
    <2>1. p = [tokens |-> SubSeq(c, Len(h) + 1, Len(h) + n), state |-> s]
      BY <1>4, <1>10, <1>11, <1>12
    <2> QED BY <2>1 DEF e
  <1>14. e = GreedyDraft(h, n)
    BY <1>2, <1>3 DEF e
  <1>15. DraftsOwn(p, h, n)
    BY <1>4, <1>6, <1>11, <1>13, <1>14 DEF DraftsOwn, DraftExact
  <1> QED BY <1>12, <1>15

-----------------------------------------------------------------------------
(* Speculation: what a request may get from a round. *)

\* Two sequences one after the other.
LEMMA JoinFacts ==
    ASSUME NEW S, NEW s \in Seq(S), NEW d \in Seq(S)
    PROVE  /\ s \o d \in Seq(S) /\ Len(s \o d) = Len(s) + Len(d)
           /\ Len(s) \in Nat /\ Len(d) \in Nat
           /\ \A i \in 1 .. Len(s) : (s \o d)[i] = s[i]
           /\ \A i \in 1 .. Len(d) : (s \o d)[Len(s) + i] = d[i]
  OBVIOUS

\* Two continuations of s that share their first j elements.
LEMMA SharedStart ==
    ASSUME NEW S, NEW s \in Seq(S), NEW d \in Seq(S), NEW e \in Seq(S), NEW j \in Nat,
           j <= Len(d), j <= Len(e), \A i \in 1 .. j : e[i] = d[i]
    PROVE  /\ Prefix(s \o d, Len(s) + j) = s \o SubSeq(e, 1, j)
           /\ s \o SubSeq(e, 1, j) \in Seq(S)
  <1> DEFINE u == s \o d
             c == SubSeq(e, 1, j)
             v == s \o c
             n == Len(s) + j
  <1>1. /\ u \in Seq(S) /\ Len(u) = Len(s) + Len(d) /\ Len(s) \in Nat /\ Len(d) \in Nat
        /\ \A i \in 1 .. Len(s) : u[i] = s[i]
        /\ \A i \in 1 .. Len(d) : u[Len(s) + i] = d[i]
    BY JoinFacts
  <1>2. c \in Seq(S) /\ Len(c) = j /\ \A i \in 1 .. j : c[i] = e[i]
    OBVIOUS
  <1>8. c \in Seq(S)
    BY <1>2
  <1> HIDE DEF c
  <1>3. /\ v \in Seq(S) /\ Len(v) = Len(s) + Len(c)
        /\ \A i \in 1 .. Len(s) : v[i] = s[i]
        /\ \A i \in 1 .. Len(c) : v[Len(s) + i] = c[i]
    BY <1>8, JoinFacts
  <1> HIDE DEF u, v
  <1>4. n \in Nat /\ n <= Len(u) /\ Len(v) = n
    BY <1>1, <1>2, <1>3
  <1>5. ASSUME NEW i \in 1 .. n PROVE u[i] = v[i]
    <2>1. CASE i <= Len(s)
      <3>1. i \in 1 .. Len(s)
        BY <2>1, <1>4
      <3> QED BY <3>1, <1>1, <1>3
    <2>2. CASE ~(i <= Len(s))
      <3>1. PICK l : l = Len(s)
        OBVIOUS
      <3>2. PICK k : k = i - l
        OBVIOUS
      <3>3. k \in 1 .. j /\ i = l + k
        BY <3>1, <3>2, <2>2, <1>1
      <3>4. k \in 1 .. Len(d) /\ k \in 1 .. Len(c)
        BY <3>3, <1>1, <1>2
      <3>5. u[l + k] = d[k] /\ v[l + k] = c[k] /\ c[k] = e[k] /\ e[k] = d[k]
        BY <3>1, <3>3, <3>4, <1>1, <1>2, <1>3
      <3> QED BY <3>3, <3>5
    <2> QED BY <2>1, <2>2
  <1>6. /\ Prefix(u, n) \in Seq(S) /\ Len(Prefix(u, n)) = n
        /\ \A i \in 1 .. n : Prefix(u, n)[i] = u[i]
    BY <1>1, <1>4 DEF Prefix
  <1>7. Prefix(u, n) = v
    <2> DEFINE w == Prefix(u, n)
    <2>1. w \in Seq(S) /\ Len(w) = Len(v) /\ \A i \in 1 .. Len(w) : w[i] = v[i]
      BY <1>4, <1>5, <1>6
    <2> HIDE DEF w
    <2>2. w = v
      BY <2>1, <1>3, SeqEqual
    <2> QED BY <2>2 DEF w
  <1> QED BY <1>3, <1>7 DEF u, v, c

\* _finish_reason tells what plan_greedy_commit tells.
LEMMA EndsAsPlanned ==
    ASSUME NEW k, NEW o, NEW x, x = EndsWith(Last(o), EosIds, k.stop, k.ignoreEos)
    PROVE  ReasonOf(k, o) = IF x # "none" THEN x ELSE IF Len(o) >= k.maxNew THEN "LENGTH" ELSE "none"
  BY DEF ReasonOf, EndsWith

\* Several tokens behind an output.
LEMMA JoinLast ==
    ASSUME NEW S, NEW o \in Seq(S), NEW c \in Seq(S), c # << >>
    PROVE  /\ Last(o \o c) = c[Len(c)] /\ Len(o \o c) = Len(o) + Len(c) /\ o \o c \in Seq(S)
           /\ o \o c # << >> /\ Len(c) \in Nat \ {0} /\ Len(o) \in Nat
  <1>1. /\ o \o c \in Seq(S) /\ Len(o \o c) = Len(o) + Len(c) /\ Len(o) \in Nat /\ Len(c) \in Nat
        /\ \A i \in 1 .. Len(c) : (o \o c)[Len(o) + i] = c[i]
    BY JoinFacts
  <1>2. Len(c) # 0
    BY EmptySeq
  <1>3. PICK v : v = o \o c
    OBVIOUS
  <1>4. v[Len(v)] = c[Len(c)]
    <2>1. Len(c) \in 1 .. Len(c)
      BY <1>1, <1>2
    <2>2. (o \o c)[Len(o) + Len(c)] = c[Len(c)]
      BY <1>1, <2>1
    <2> QED BY <2>2, <1>1, <1>3
  <1>5. v # << >>
    BY <1>1, <1>2, <1>3
  <1> QED BY <1>1, <1>2, <1>3, <1>4, <1>5 DEF Last

\* What plan_greedy_commit emits ends the request where _finish_reason would.
ReasonsAgree(k, o, e, p) ==
    /\ \A i \in 1 .. Len(e) - 1 : ReasonOf(k, o \o SubSeq(e, 1, i)) = "none"
    /\ ReasonOf(k, o \o e) = p.reason

LEMMA RoundReasons ==
    ASSUME NEW k, k.maxNew \in Nat, NEW o \in Seq(Token), NEW e \in Seq(Token), e # << >>,
           NEW draft, NEW target, NEW bonus, NEW p, NEW n, n = k.maxNew - Len(o),
           RoundCommits(p, e, draft, target, bonus, n, EosIds, k.stop, k.ignoreEos)
    PROVE  ReasonsAgree(k, o, e, p)
  <1> DEFINE Ends(t) == EndsWith(t, EosIds, k.stop, k.ignoreEos)
  <1>1. /\ Len(e) <= n
        /\ \A i \in 1 .. Len(e) - 1 : Ends(e[i]) = "none"
        /\ p.reason = IF Ends(e[Len(e)]) # "none" THEN Ends(e[Len(e)])
                      ELSE IF Len(e) = n THEN "LENGTH" ELSE "none"
    BY DEF RoundCommits
  <1>2. ASSUME NEW c \in Seq(Token), c # << >>, NEW x, x = Ends(c[Len(c)])
        PROVE  /\ ReasonOf(k, o \o c) = IF x # "none" THEN x
                                         ELSE IF Len(c) >= n THEN "LENGTH" ELSE "none"
               /\ Len(c) \in Nat \ {0}
    <2>1. Last(o \o c) = c[Len(c)] /\ Len(o \o c) = Len(o) + Len(c) /\ Len(c) \in Nat \ {0}
          /\ Len(o) \in Nat
      BY <1>2, JoinLast
    <2>2. PICK w : w = o \o c
      OBVIOUS
    <2>3. x = EndsWith(Last(w), EosIds, k.stop, k.ignoreEos)
      BY <2>1, <2>2, <1>2
    <2>4. ReasonOf(k, w) = IF x # "none" THEN x ELSE IF Len(w) >= k.maxNew THEN "LENGTH" ELSE "none"
      BY <2>3, EndsAsPlanned
    <2>5. Len(w) >= k.maxNew <=> Len(c) >= n
      <3>1. PICK a : a = Len(o)
        OBVIOUS
      <3>2. PICK b : b = Len(c)
        OBVIOUS
      <3>3. a \in Nat /\ b \in Nat /\ Len(w) = a + b /\ n = k.maxNew - a
        BY <3>1, <3>2, <2>1, <2>2
      <3>4. a + b >= k.maxNew <=> b >= n
        BY <3>3
      <3> QED BY <3>2, <3>3, <3>4
    <2> QED BY <2>1, <2>2, <2>4, <2>5
  <1> HIDE DEF Ends
  <1>3. ReasonOf(k, o \o e) = p.reason
    <2>1. /\ ReasonOf(k, o \o e) = IF Ends(e[Len(e)]) # "none" THEN Ends(e[Len(e)])
                                    ELSE IF Len(e) >= n THEN "LENGTH" ELSE "none"
          /\ Len(e) \in Nat \ {0}
      BY <1>2
    <2>2. n \in Int
      BY LenProperties
    <2>3. Len(e) >= n <=> Len(e) = n
      BY <2>1, <2>2, <1>1
    <2> QED BY <2>1, <2>3, <1>1
  <1>4. ASSUME NEW i \in 1 .. Len(e) - 1 PROVE ReasonOf(k, o \o SubSeq(e, 1, i)) = "none"
    <2> DEFINE c == SubSeq(e, 1, i)
    <2>1. Len(e) \in Nat
      BY LenProperties
    <2>2. i \in Nat /\ i # 0 /\ i <= Len(e)
      BY <2>1
    <2>3. c \in Seq(Token) /\ Len(c) = i /\ c[i] = e[i]
      BY <2>2
    <2> HIDE DEF c
    <2>4. c # << >> /\ c[Len(c)] = e[i]
      BY <2>2, <2>3
    <2>5. ReasonOf(k, o \o c) = IF Ends(e[i]) # "none" THEN Ends(e[i])
                                ELSE IF Len(c) >= n THEN "LENGTH" ELSE "none"
      BY <2>3, <2>4, <1>2
    <2>6. ~(Len(c) >= n)
      <3>1. n \in Int
        BY LenProperties
      <3> QED BY <3>1, <2>1, <2>2, <2>3, <1>1
    <2> QED BY <2>5, <2>6, <1>1 DEF c
  <1> QED BY <1>3, <1>4 DEF ReasonsAgree

LEMMA JoinAgain ==
    ASSUME NEW S, NEW a \in Seq(S), NEW b \in Seq(S), NEW c \in Seq(S)
    PROVE  (a \o b) \o c = a \o (b \o c)
  OBVIOUS

LEMMA OneMoreOf ==
    ASSUME NEW S, NEW e \in Seq(S), NEW i \in Nat, i < Len(e)
    PROVE  /\ e[i + 1] \in S
           /\ SubSeq(e, 1, i) \in Seq(S) /\ Len(SubSeq(e, 1, i)) = i
           /\ SubSeq(e, 1, i + 1) = Append(SubSeq(e, 1, i), e[i + 1])
  <1> DEFINE c == SubSeq(e, 1, i)
             d == SubSeq(e, 1, i + 1)
             b == Append(c, e[i + 1])
  <1>1. Len(e) \in Nat /\ i + 1 \in 1 .. Len(e) /\ e[i + 1] \in S
    BY LenProperties
  <1>2. c \in Seq(S) /\ Len(c) = i /\ \A j \in 1 .. i : c[j] = e[j]
    BY <1>1
  <1>3. d \in Seq(S) /\ Len(d) = i + 1 /\ \A j \in 1 .. i + 1 : d[j] = e[j]
    BY <1>1
  <1> HIDE DEF c, d
  <1>4. b \in Seq(S) /\ Len(b) = i + 1 /\ \A j \in 1 .. i : b[j] = c[j] /\ b[i + 1] = e[i + 1]
    BY <1>1, <1>2, AppendProperties
  <1>5. b[i + 1] = e[i + 1]
    BY <1>1, <1>2, AppendProperties
  <1> HIDE DEF b
  <1>6. ASSUME NEW j \in 1 .. i + 1 PROVE d[j] = b[j]
    <2>1. CASE j = i + 1
      BY <2>1, <1>3, <1>5
    <2>2. CASE j # i + 1
      <3>1. j \in 1 .. i
        BY <2>2
      <3> QED BY <3>1, <1>2, <1>3, <1>4
    <2> QED BY <2>1, <2>2
  <1>7. d = b
    BY <1>3, <1>4, <1>6, SeqEqual
  <1> QED BY <1>1, <1>2, <1>7 DEF b, c, d

\* A greedy run that goes on with e, one token of the model after the other.
Extends(q, e) ==
    /\ e \in Seq(Token) /\ e # << >>
    /\ \A i \in 1 .. Len(e) : e[i] = Model((q.kind.prompt \o q.out) \o SubSeq(e, 1, i - 1))
    /\ \A i \in 1 .. Len(e) - 1 : ReasonOf(q.kind, q.out \o SubSeq(e, 1, i)) = "none"

\* The request q after the first tokens of e.
Midway(q, o) == [kind |-> q.kind, out |-> o, state |-> "DECODING", reason |-> "none"]

LEMMA OutputExtended ==
    ASSUME ModelTyped, NEW q, q.kind \in Workload, OutputOK(q), q.state \notin Terminal,
           NEW e, Extends(q, e), NEW u, u.kind = q.kind, u.out = q.out \o e,
           u.state \notin Terminal => ReasonOf(u.kind, u.out) = "none",
           u.state = "FINISHED" => ReasonOf(u.kind, u.out) = u.reason
    PROVE  OutputOK(u)
  <1> DEFINE o(i) == q.out \o SubSeq(e, 1, i)
             m(i) == Midway(q, o(i))
  <1>1. /\ q.out \in Seq(Token) /\ q.kind.prompt \in Seq(Token) /\ e \in Seq(Token)
        /\ Len(e) \in Nat \ {0}
    <2>1. q.kind \in Kind
      BY EngineAssumption
    <2>2. Len(e) \in Nat /\ Len(e) # 0
      BY EmptySeq DEF Extends
    <2> QED BY <2>1, <2>2, KindFacts DEF OutputOK, Extends
  <1>2. ASSUME NEW i \in Nat, i < Len(e)
        PROVE  /\ e[i + 1] \in Token
               /\ SubSeq(e, 1, i) \in Seq(Token) /\ Len(SubSeq(e, 1, i)) = i
               /\ SubSeq(e, 1, i + 1) = Append(SubSeq(e, 1, i), e[i + 1])
    BY <1>1, <1>2, OneMoreOf
  <1>3. ASSUME NEW i \in Nat, i < Len(e)
        PROVE  /\ o(i + 1) = Append(o(i), e[i + 1]) /\ o(i) \in Seq(Token)
               /\ e[i + 1] = Model(q.kind.prompt \o o(i))
    <2> DEFINE c == SubSeq(e, 1, i)
               p == q.kind.prompt
               a == e[i + 1]
    <2>1. c \in Seq(Token) /\ a \in Token /\ o(i) = q.out \o c /\ o(i + 1) = q.out \o Append(c, a)
      BY <1>2, <1>3
    <2>2. a = Model((p \o q.out) \o c)
      <3>1. i + 1 \in 1 .. Len(e) /\ (i + 1) - 1 = i
        BY <1>1, <1>3
      <3> QED BY <3>1 DEF Extends
    <2>3. p \in Seq(Token) /\ q.out \in Seq(Token)
      BY <1>1
    <2> HIDE DEF c, p, a, o
    <2>4. q.out \o Append(c, a) = Append(q.out \o c, a) /\ q.out \o c \in Seq(Token)
      <3>1. q.out \o Append(c, a) = Append(q.out \o c, a)
        <4>1. PICK v : v = q.out
          OBVIOUS
        <4>2. v \in Seq(Token) /\ c \in Seq(Token) /\ a \in Token
          BY <4>1, <2>1, <2>3
        <4>3. v \o Append(c, a) = Append(v \o c, a)
          BY <4>2, AppendInside
        <4> QED BY <4>1, <4>3
      <3>2. q.out \o c \in Seq(Token)
        BY <2>1, <2>3, JoinFacts
      <3> QED BY <3>1, <3>2
    <2>5. (p \o q.out) \o c = p \o (q.out \o c)
      <3>1. PICK v : v = q.out
        OBVIOUS
      <3>2. v \in Seq(Token) /\ c \in Seq(Token) /\ p \in Seq(Token)
        BY <3>1, <2>1, <2>3
      <3>3. (p \o v) \o c = p \o (v \o c)
        BY <3>2, JoinAgain
      <3> QED BY <3>1, <3>3
    <2> QED BY <2>1, <2>2, <2>4, <2>5 DEF a, p
  <1>4. OutputOK(m(0))
    <2>1. o(0) = q.out
      <3>1. SubSeq(e, 1, 0) = << >>
        BY <1>1
      <3> QED BY <3>1, <1>1
    <2> HIDE DEF o
    <2>2. m(0).kind = q.kind /\ m(0).out = q.out /\ m(0).state # "FINISHED"
      BY <2>1 DEF Midway
    <2> HIDE DEF m
    <2> QED BY <2>2, OutputSame
  <1>5. ASSUME NEW i \in Nat, i + 1 < Len(e), OutputOK(m(i))
        PROVE  OutputOK(m(i + 1))
    <2>1. i < Len(e) /\ i + 1 \in 1 .. Len(e) - 1
      BY <1>1, <1>5
    <2>2. /\ o(i + 1) = Append(o(i), e[i + 1])
          /\ e[i + 1] = Model(q.kind.prompt \o o(i)) /\ e[i + 1] \in Token
      BY <2>1, <1>2, <1>3
    <2>3. ReasonOf(q.kind, o(i + 1)) = "none"
      BY <2>1 DEF Extends
    <2> HIDE DEF o
    <2>4. /\ m(i).kind = q.kind /\ m(i).out = o(i) /\ m(i).state = "DECODING"
          /\ m(i + 1).kind = q.kind /\ m(i + 1).out = o(i + 1) /\ m(i + 1).state = "DECODING"
      BY DEF Midway
    <2> HIDE DEF m
    <2>5. Answers(m(i), m(i + 1), e[i + 1]) /\ m(i).state \notin Terminal
      BY <2>2, <2>3, <2>4 DEF Answers, Terminal
    <2>6. m(i).kind.greedy => e[i + 1] = Model(m(i).kind.prompt \o m(i).out)
      BY <2>2, <2>4
    <2> QED BY <2>2, <2>4, <2>5, <2>6, <1>5, OutputAppended
  <1> DEFINE n == Len(e) - 1
             T == {i \in 0 .. n : OutputOK(m(i))}
  <1>6. n \in Nat /\ n < Len(e) /\ n + 1 = Len(e)
    BY <1>1
  <1>7. OutputOK(m(n))
    <2>1. 0 \in T
      BY <1>4, <1>6
    <2>2. ASSUME NEW i \in 0 .. n - 1, i \in T PROVE i + 1 \in T
      <3>1. OutputOK(m(i)) /\ i \in Nat /\ i + 1 < Len(e) /\ i + 1 \in 0 .. n
        BY <2>2, <1>1
      <3> HIDE DEF m
      <3> QED BY <3>1, <1>5
    <2> HIDE DEF T
    <2>3. \A i \in 0 .. n : i \in T
      BY <2>1, <2>2, <1>6, BoundedInduction
    <2>4. n \in T
      BY <2>3, <1>6
    <2> QED BY <2>4 DEF T
  <1>8. /\ o(n + 1) = Append(o(n), e[n + 1])
        /\ e[n + 1] = Model(q.kind.prompt \o o(n)) /\ e[n + 1] \in Token
    BY <1>6, <1>2, <1>3
  <1>9. o(n + 1) = q.out \o e
    <2>1. SubSeq(e, 1, Len(e)) = e
      BY <1>1, SubSeqFull
    <2> QED BY <2>1, <1>6
  <1> HIDE DEF o
  <1>10. m(n).kind = q.kind /\ m(n).out = o(n) /\ m(n).state = "DECODING"
    BY DEF Midway
  <1> HIDE DEF m, n
  <1>11. Answers(m(n), u, e[n + 1]) /\ m(n).state \notin Terminal
    BY <1>8, <1>9, <1>10 DEF Answers, Terminal
  <1>12. m(n).kind.greedy => e[n + 1] = Model(m(n).kind.prompt \o m(n).out)
    BY <1>8, <1>10
  <1> QED BY <1>7, <1>8, <1>10, <1>11, <1>12, OutputAppended

\* s goes on as e or as d, which share all of e but its last element.
LEMMA SharedPrefixes ==
    ASSUME NEW s \in Seq(Token), NEW d \in Seq(Token), NEW e \in Seq(Token), e # << >>,
           Len(e) <= Len(d) + 1, \A i \in 1 .. Len(e) - 1 : e[i] = d[i],
           NEW n \in Nat, n + 1 = Len(s)
    PROVE  /\ \A x \in 1 .. n + Len(e) : Prefix(s \o e, x) = Prefix(s \o d, x)
           /\ \A x \in 1 .. n : Prefix(s \o e, x) = Prefix(s, x)
           /\ Len(s \o e) = n + Len(e) + 1 /\ s \o e \in Seq(Token) /\ Len(e) \in Nat \ {0}
  <1>1. PICK u : u = s \o d
    OBVIOUS
  <1>2. PICK v : v = s \o e
    OBVIOUS
  <1>3. PICK k : k = Len(e)
    OBVIOUS
  <1>4. k \in Nat \ {0} /\ Len(d) \in Nat /\ k <= Len(d) + 1 /\ Len(s) = n + 1
    <2>1. Len(e) # 0
      BY EmptySeq
    <2> QED BY <2>1, <1>3, LenProperties
  <1>5. /\ u \in Seq(Token) /\ Len(u) = Len(s) + Len(d)
        /\ \A i \in 1 .. Len(s) : u[i] = s[i]
        /\ \A i \in 1 .. Len(d) : u[Len(s) + i] = d[i]
    BY <1>1, JoinFacts
  <1>6. /\ v \in Seq(Token) /\ Len(v) = Len(s) + k
        /\ \A i \in 1 .. Len(s) : v[i] = s[i]
        /\ \A i \in 1 .. k : v[Len(s) + i] = e[i]
    BY <1>2, <1>3, JoinFacts
  <1>7. /\ n + k \in Nat /\ n + k <= Len(u) /\ n + k <= Len(v) /\ n <= Len(s) /\ n <= Len(v)
        /\ Len(v) = n + k + 1
    BY <1>4, <1>5, <1>6
  <1>8. ASSUME NEW i \in 1 .. n + k PROVE v[i] = u[i]
    <2>1. CASE i <= Len(s)
      <3>1. i \in 1 .. Len(s)
        BY <2>1, <1>4
      <3> QED BY <3>1, <1>5, <1>6
    <2>2. CASE ~(i <= Len(s))
      <3>1. PICK j : j = i - Len(s)
        OBVIOUS
      <3>2. j \in 1 .. k - 1 /\ j \in 1 .. Len(d) /\ j \in 1 .. k /\ i = Len(s) + j
        BY <3>1, <2>2, <1>4
      <3>3. e[j] = d[j]
        BY <3>2, <1>3
      <3>4. u[Len(s) + j] = d[j] /\ v[Len(s) + j] = e[j]
        BY <3>2, <1>5, <1>6
      <3> QED BY <3>2, <3>3, <3>4
    <2> QED BY <2>1, <2>2
  <1>9. \A x \in 1 .. n + k : Prefix(v, x) = Prefix(u, x)
    BY <1>5, <1>6, <1>7, <1>8, SamePrefixes
  <1>10. \A i \in 1 .. n : v[i] = s[i]
    BY <1>4, <1>6
  <1>11. \A x \in 1 .. n : Prefix(v, x) = Prefix(s, x)
    BY <1>6, <1>7, <1>10, SamePrefixes, Zenon
  <1> QED BY <1>1, <1>2, <1>3, <1>4, <1>6, <1>7, <1>9, <1>11

=============================================================================
