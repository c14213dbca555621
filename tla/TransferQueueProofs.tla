------------------------- MODULE TransferQueueProofs -------------------------
(***************************************************************************)
(* The safety of the transfer queue, for any set of jobs, direct engine    *)
(* calls and workers and any concurrency limit.                            *)
(***************************************************************************)
EXTENDS TransferQueue, FiniteSetTheorems, TLAPS

(* A clone whose upload has ended has left Pending, so handing it back never *)
(* leaves a record that looks as if it still waited for a worker.            *)
DoneHasStarted ==
  \A w \in Workers :
    held[w] # NoJob /\ held[w].phase = "done" => held[w].state # "Pending"

(* What is queued or running is registered, so that submit cannot queue it   *)
(* a second time.                                                            *)
Registered ==
  /\ \A j \in active : jobs[j] # NoJob
  /\ \A i \in 1..Len(pending) : jobs[pending[i]] # NoJob

QueueIInv ==
  /\ QueueTypeOK
  /\ IsFiniteSet(active)
  /\ ConcurrencyBound
  /\ ExclusiveExecution
  /\ SlotsMatchWorkers
  /\ Disjoint
  /\ NoJobLost
  /\ DoneHasStarted
  /\ Registered

(* The retain of cancel: what is left of the queue holds the other jobs, in  *)
(* positions that do not repeat, and none of them is lost.                   *)
LEMMA RetainProperties ==
  ASSUME NEW q \in Seq(JobIds), NEW j \in Ids,
         \A a, b \in 1..Len(q) : q[a] = q[b] => a = b
  PROVE  /\ Retain(q, j) \in Seq(JobIds)
         /\ \A a, b \in 1..Len(Retain(q, j)) :
              Retain(q, j)[a] = Retain(q, j)[b] => a = b
         /\ \A a \in 1..Len(Retain(q, j)) : \E b \in 1..Len(q) : Retain(q, j)[a] = q[b]
         /\ \A b \in 1..Len(q) : q[b] # j => \E a \in 1..Len(Retain(q, j)) : Retain(q, j)[a] = q[b]
<1> DEFINE at == {i \in 1..Len(q) : q[i] = j}
<1> DEFINE k == CHOOSE i \in at : TRUE
<1>1. CASE at = {}
  <2>1. Retain(q, j) = q
    BY <1>1 DEF Retain
  <2> QED
    BY <2>1
<1>2. CASE at # {}
  <2>1. k \in at
    BY <1>2
  <2>2. k \in 1..Len(q) /\ q[k] = j
    BY <2>1
  <2> DEFINE r == [i \in 1..(Len(q) - 1) |-> IF i < k THEN q[i] ELSE q[i + 1]]
  <2>8. Retain(q, j) = r
    BY <1>2 DEF Retain
  <2> HIDE DEF k, at
  <2>4. Len(q) \in Nat /\ \A i \in 1..Len(q) : q[i] \in JobIds
    OBVIOUS
  <2>5. r \in [1..(Len(q) - 1) -> JobIds]
    BY <2>2, <2>4
  <2>6. Len(q) - 1 \in Nat
    BY <2>2, <2>4
  <2>7. /\ r \in Seq(JobIds)
        /\ Len(r) = Len(q) - 1
        /\ \A i \in 1..Len(r) : r[i] = IF i < k THEN q[i] ELSE q[i + 1]
    <3>1. r \in Seq(JobIds)
      BY <2>5, <2>6
    <3>2. Len(r) = Len(q) - 1
      BY <2>5, <2>6, <3>1
    <3> QED
      BY <3>1, <3>2, Zenon
  <2> HIDE DEF r
  <2>9. \A a, b \in 1..Len(r) : r[a] = r[b] => a = b
    BY <2>2, <2>4, <2>7
  <2>10. \A a \in 1..Len(r) : \E b \in 1..Len(q) : r[a] = q[b]
    BY <2>2, <2>4, <2>7
  <2>11. \A b \in 1..Len(q) : q[b] # j => \E a \in 1..Len(r) : r[a] = q[b]
    <3> SUFFICES ASSUME NEW b \in 1..Len(q), q[b] # j
                 PROVE  \E a \in 1..Len(r) : r[a] = q[b]
      OBVIOUS
    <3>1. CASE b < k
      <4>1. b \in 1..Len(r) /\ r[b] = q[b]
        BY <2>2, <2>4, <2>7, <3>1
      <4> QED BY <4>1
    <3>2. CASE b > k
      <4>1. b - 1 \in 1..Len(r) /\ r[b - 1] = q[b]
        BY <2>2, <2>4, <2>7, <3>2
      <4> QED BY <4>1
    <3> QED
      BY <2>2, <2>4, <3>1, <3>2
  <2> QED
    BY <2>7, <2>8, <2>9, <2>10, <2>11
<1> QED
  BY <1>1, <1>2

(* TransferQueue::new clamps the limit to at least one. *)
LEMMA MaxConcurrencyType == max_concurrency \in Nat /\ max_concurrency >= 1
  BY QueueConstants DEF max_concurrency

(* The queue a job is handed out of: what lies behind position i. *)
LEMMA TailFrom ==
  ASSUME NEW q \in Seq(JobIds), NEW i \in 1..Len(q)
  PROVE  /\ SubSeq(q, i + 1, Len(q)) \in Seq(JobIds)
         /\ Len(SubSeq(q, i + 1, Len(q))) = Len(q) - i
         /\ \A a \in 1..(Len(q) - i) : SubSeq(q, i + 1, Len(q))[a] = q[i + a]
<1>1. Len(q) \in Nat /\ \A a \in 1..Len(q) : q[a] \in JobIds
  OBVIOUS
<1> DEFINE g == SubSeq(q, i + 1, Len(q))
<1>2. \A a \in (i + 1)..Len(q) : q[a] \in JobIds
  BY <1>1
<1>3. /\ g \in Seq(JobIds)
      /\ Len(g) = IF i + 1 <= Len(q) THEN Len(q) - (i + 1) + 1 ELSE 0
      /\ \A a \in 1 .. Len(q) - (i + 1) + 1 : g[a] = q[(i + 1) + a - 1]
  BY <1>1, <1>2
<1> HIDE DEF g
<1>4. Len(g) = Len(q) - i
  BY <1>1, <1>3
<1>5. ASSUME NEW a \in 1..(Len(q) - i)
      PROVE  g[a] = q[i + a]
  <2>1. a \in 1 .. Len(q) - (i + 1) + 1 /\ (i + 1) + a - 1 = i + a
    BY <1>1
  <2> QED
    BY <1>3, <2>1
<1> QED
  BY <1>3, <1>4, <1>5 DEF g

(* The empty queue satisfies the invariant. *)
LEMMA QueueInitIInv == QueueInit => QueueIInv
<1> SUFFICES ASSUME QueueInit PROVE QueueIInv
  OBVIOUS
<1> USE DEF QueueInit
<1>1. QueueTypeOK
  BY QueueConstants DEF QueueTypeOK
<1>2. IsFiniteSet(active) /\ Cardinality(active) = 0
  BY FS_EmptySet
<1>3. ConcurrencyBound
  BY <1>2, MaxConcurrencyType DEF ConcurrencyBound
<1>4. SlotsMatchWorkers
  BY DEF SlotsMatchWorkers
<1>5. ExclusiveExecution /\ Disjoint /\ NoJobLost /\ DoneHasStarted /\ Registered
  BY DEF ExclusiveExecution, Disjoint, NoJobLost, DoneHasStarted, Registered, Ids
<1> QED
  BY <1>1, <1>2, <1>3, <1>4, <1>5 DEF QueueIInv

(* A new identifier is queued once and runs nowhere. *)
LEMMA SubmitIInv == ASSUME QueueIInv, NEW j \in JobIds, Submit(j) PROVE QueueIInv'
<1> USE DEF QueueIInv, QueueTypeOK
<1>0. jobs[j] = NoJob /\ UNCHANGED <<active, held>>
  BY DEF Submit
<1>1. /\ pending' \in Seq(JobIds)
      /\ Len(pending') = Len(pending) + 1
      /\ \A i \in 1..Len(pending) : pending'[i] = pending[i]
      /\ pending'[Len(pending) + 1] = j
  BY DEF Submit
<1>2. QueueTypeOK'
  BY <1>0, <1>1 DEF Submit, State, Ids
<1>3. ConcurrencyBound' /\ ExclusiveExecution' /\ SlotsMatchWorkers' /\ DoneHasStarted'
  BY <1>0 DEF ConcurrencyBound, ExclusiveExecution, SlotsMatchWorkers, DoneHasStarted,
             max_concurrency
<1>4. Disjoint'
  <2>1. \A i \in 1..Len(pending) : pending[i] # j
    BY <1>0 DEF Registered
  <2>2. j \notin active
    BY <1>0 DEF Registered
  <2>3. \A i \in 1..Len(pending') : i \in 1..Len(pending) \/ i = Len(pending) + 1
    BY <1>1
  <2>4. ASSUME NEW i \in 1..Len(pending'), NEW k \in 1..Len(pending'), pending'[i] = pending'[k]
        PROVE  i = k
    BY <1>1, <2>1, <2>3, <2>4 DEF Disjoint
  <2>5. ASSUME NEW i \in 1..Len(pending')
        PROVE  pending'[i] \notin active'
    BY <1>0, <1>1, <2>2, <2>3 DEF Disjoint
  <2> QED
    BY <2>4, <2>5 DEF Disjoint
<1>5. jobs' = [jobs EXCEPT ![j] = "Pending"] /\ tokens' = [tokens EXCEPT ![j] = "live"]
  BY DEF Submit
<1>6. \A i \in 1..Len(pending) : i \in 1..Len(pending')
  BY <1>1
<1>6a. Len(pending) + 1 \in 1..Len(pending')
  BY <1>1
<1>7. NoJobLost'
  <2> SUFFICES ASSUME NEW x \in JobIds, tokens'[x] = "live", jobs'[x] = "Pending", x \notin active
               PROVE  \E i \in 1..Len(pending') : pending'[i] = x
    BY <1>0 DEF NoJobLost
  <2>1. CASE x = j
    BY <1>1, <1>6a, <2>1
  <2>2. CASE x # j
    BY <1>1, <1>5, <1>6, <2>2 DEF NoJobLost, Ids
  <2> QED BY <2>1, <2>2
<1>8. Registered'
  <2>1. \A x \in JobIds : jobs[x] # NoJob => jobs'[x] # NoJob
    BY <1>5, QueueConstants DEF State, Ids
  <2>2. jobs'[j] # NoJob
    BY <1>5, QueueConstants DEF State, Ids
  <2>3. \A i \in 1..Len(pending) : pending[i] \in JobIds
    OBVIOUS
  <2> QED
    BY <1>0, <1>1, <2>1, <2>2, <2>3 DEF Registered
<1> QED
  BY <1>0, <1>2, <1>3, <1>4, <1>7, <1>8

(* Cancelling takes an identifier out of the queue and frees no slot. *)
LEMMA CancelJobIInv == ASSUME QueueIInv, NEW j \in Ids, CancelJob(j) PROVE QueueIInv'
<1> USE DEF QueueIInv, QueueTypeOK
<1>0. UNCHANGED <<active, held>> /\ pending' = Retain(pending, j)
  BY DEF CancelJob
<1>1. /\ pending' \in Seq(JobIds)
      /\ \A a, b \in 1..Len(pending') : pending'[a] = pending'[b] => a = b
      /\ \A a \in 1..Len(pending') : \E b \in 1..Len(pending) : pending'[a] = pending[b]
      /\ \A b \in 1..Len(pending) :
           pending[b] # j => \E a \in 1..Len(pending') : pending'[a] = pending[b]
  <2>1. pending \in Seq(JobIds)
    OBVIOUS
  <2>2. \A a, b \in 1..Len(pending) : pending[a] = pending[b] => a = b
    BY DEF Disjoint
  <2> DEFINE r == Retain(pending, j)
  <2>3. /\ r \in Seq(JobIds)
        /\ \A a, b \in 1..Len(r) : r[a] = r[b] => a = b
        /\ \A a \in 1..Len(r) : \E b \in 1..Len(pending) : r[a] = pending[b]
        /\ \A b \in 1..Len(pending) : pending[b] # j => \E a \in 1..Len(r) : r[a] = pending[b]
    BY ONLY <2>1, <2>2, j \in Ids, RetainProperties, Zenon
  <2>4. pending' = r
    BY <1>0
  <2> HIDE DEF r
  <2> QED
    BY ONLY <2>3, <2>4
<1>2. /\ jobs' \in [Ids -> State \cup {NoJob}]
      /\ \A x \in Ids : x # j => jobs'[x] = jobs[x] /\ tokens'[x] = tokens[x]
      /\ jobs[j] # NoJob => jobs'[j] \in State
      /\ tokens'[j] # "live"
      /\ tokens' \in [Ids -> {"none", "live", "cancelled"}]
  BY DEF CancelJob, TransitionTo, State
<1>3. QueueTypeOK'
  BY <1>0, <1>1, <1>2
<1>4. ConcurrencyBound' /\ ExclusiveExecution' /\ SlotsMatchWorkers' /\ DoneHasStarted'
  BY <1>0 DEF ConcurrencyBound, ExclusiveExecution, SlotsMatchWorkers, DoneHasStarted,
             max_concurrency
<1>5. Disjoint'
  BY <1>0, <1>1, Zenon DEF Disjoint
<1>6. NoJobLost'
  <2> SUFFICES ASSUME NEW x \in JobIds, tokens'[x] = "live", jobs'[x] = "Pending", x \notin active
               PROVE  \E i \in 1..Len(pending') : pending'[i] = x
    BY <1>0 DEF NoJobLost
  <2>1. x # j /\ tokens[x] = "live" /\ jobs[x] = "Pending"
    BY <1>2 DEF Ids
  <2>2. PICK i \in 1..Len(pending) : pending[i] = x
    BY <2>1 DEF NoJobLost
  <2> QED
    BY <1>1, <2>1, <2>2
<1>7. Registered'
  <2>1. \A x \in JobIds : jobs[x] # NoJob => jobs'[x] # NoJob
    BY <1>2, QueueConstants DEF Ids
  <2>2. \A i \in 1..Len(pending) : pending[i] \in JobIds
    OBVIOUS
  <2>3. \A x \in active' : jobs'[x] # NoJob
    BY <1>0, <2>1 DEF Registered
  <2>4. ASSUME NEW a \in 1..Len(pending')  PROVE jobs'[pending'[a]] # NoJob
    <3>1. PICK b \in 1..Len(pending) : pending'[a] = pending[b]
      BY <1>1
    <3> QED
      BY <2>1, <2>2, <3>1 DEF Registered
  <2> QED
    BY <2>3, <2>4 DEF Registered
<1> QED
  BY <1>0, <1>3, <1>4, <1>5, <1>6, <1>7

(* acquire_next_job moves one identifier from the queue to a worker. *)
LEMMA AcquireIInv == ASSUME QueueIInv, NEW w \in Workers, AcquireNextJob(w) PROVE QueueIInv'
<1>0. PICK i \in 1..Len(pending) :
        /\ Runnable(pending[i])
        /\ \A k \in 1..(i - 1) : ~Runnable(pending[k])
        /\ pending' = SubSeq(pending, i + 1, Len(pending))
        /\ active' = active \cup {pending[i]}
        /\ held' = [held EXCEPT ![w] =
                      [id |-> pending[i], state |-> jobs[pending[i]], phase |-> "acquired"]]
  BY Zenon DEF AcquireNextJob
<1> DEFINE j == pending[i]
<1> DEFINE c == [id |-> j, state |-> jobs[j], phase |-> "acquired"]
<1>1. /\ held[w] = NoJob /\ Cardinality(active) < max_concurrency
      /\ UNCHANGED <<jobs, tokens>>
  BY DEF AcquireNextJob
<1>2. /\ pending \in Seq(JobIds) /\ j \in JobIds /\ j \notin active
      /\ held \in [Workers -> Clone \cup {NoJob}]
      /\ jobs[j] \in State /\ active \subseteq JobIds
  BY <1>0 DEF QueueIInv, QueueTypeOK, Disjoint, Runnable, Ids
<1>3. c \in Clone /\ c # NoJob /\ held' = [held EXCEPT ![w] = c] /\ c.id = j
  BY <1>0, <1>2, QueueConstants DEF Clone, Phase
<1>4. /\ pending' \in Seq(JobIds)
      /\ Len(pending') = Len(pending) - i
      /\ \A a \in 1..(Len(pending) - i) : pending'[a] = pending[i + a]
  BY <1>0, <1>2, TailFrom, Zenon
<1>5. QueueTypeOK'
  BY <1>0, <1>1, <1>2, <1>3, <1>4 DEF QueueIInv, QueueTypeOK
<1>6. IsFiniteSet(active') /\ Cardinality(active') = Cardinality(active) + 1
  BY <1>0, <1>2, FS_AddElement, Zenon DEF QueueIInv
<1>7. ConcurrencyBound'
  <2>1. Cardinality(active) \in Nat
    BY FS_CardinalityType DEF QueueIInv
  <2>2. max_concurrency' = max_concurrency
    BY DEF max_concurrency
  <2> QED
    BY <1>1, <1>6, <2>1, <2>2, MaxConcurrencyType DEF ConcurrencyBound
<1>8. \A v \in Workers : held[v] # NoJob => held[v].id \in active
  BY DEF QueueIInv, SlotsMatchWorkers
<1> HIDE DEF c
<1>9. \A v \in Workers : held'[v] = IF v = w THEN c ELSE held[v]
  BY <1>2, <1>3
<1>10. ExclusiveExecution'
  BY <1>2, <1>3, <1>8, <1>9 DEF QueueIInv, ExclusiveExecution
<1>11. SlotsMatchWorkers'
  <2>1. \A x : x \in active <=> \E v \in Workers : held[v] # NoJob /\ x = held[v].id
    BY DEF QueueIInv, SlotsMatchWorkers
  <2>2. \A x : x \in active' <=> \E v \in Workers : held'[v] # NoJob /\ x = held'[v].id
    BY <1>0, <1>1, <1>3, <1>9, <2>1
  <2> QED
    BY <2>2 DEF SlotsMatchWorkers
<1>12. \A a \in 1..Len(pending') :
          i + a \in 1..Len(pending) /\ pending'[a] = pending[i + a] /\ i + a # i
  BY <1>2, <1>4
<1>13. Disjoint'
  <2>1. ASSUME NEW a \in 1..Len(pending'), NEW b \in 1..Len(pending'), pending'[a] = pending'[b]
        PROVE  a = b
    <3>1. i + a = i + b
      BY <1>12, <2>1, Zenon DEF QueueIInv, Disjoint
    <3> QED
      BY <1>4, <3>1
  <2>2. ASSUME NEW a \in 1..Len(pending')
        PROVE  pending'[a] \notin active'
    <3>1. pending[i + a] \notin active /\ pending[i + a] # j
      BY <1>12 DEF QueueIInv, Disjoint
    <3> QED
      BY <1>0, <1>12, <3>1
  <2> QED
    BY <2>1, <2>2 DEF Disjoint
<1>14. NoJobLost'
  <2> SUFFICES ASSUME NEW x \in JobIds, tokens[x] = "live", jobs[x] = "Pending", x \notin active'
               PROVE  \E a \in 1..Len(pending') : pending'[a] = x
    BY <1>1 DEF NoJobLost
  <2>1. x \notin active /\ x # j
    BY <1>0
  <2>2. PICK b \in 1..Len(pending) : pending[b] = x
    BY <2>1 DEF QueueIInv, NoJobLost
  <2>3. Runnable(x)
    BY QueueConstants DEF Runnable, State
  <2>4. b > i
    <3>1. b \notin 1..(i - 1)
      BY <1>0, <2>2, <2>3
    <3>2. b # i
      BY <2>1, <2>2
    <3> QED
      BY <1>2, <3>1, <3>2
  <2>5. b - i \in 1..(Len(pending) - i) /\ i + (b - i) = b
    BY <1>2, <2>4
  <2>6. pending'[b - i] = x
    BY <1>4, <2>2, <2>5
  <2> QED
    BY <1>4, <2>5, <2>6, Zenon
<1>15. DoneHasStarted'
  <2>1. c.phase # "done"
    BY DEF c
  <2> QED
    BY <1>9, <2>1 DEF QueueIInv, DoneHasStarted
<1>16. Registered'
  <2>1. jobs[j] # NoJob
    BY <1>0 DEF Runnable
  <2> QED
    BY <1>0, <1>1, <1>12, <2>1, Zenon DEF QueueIInv, Registered
<1> QED
  BY <1>5, <1>6, <1>7, <1>10, <1>11, <1>13, <1>14, <1>15, <1>16 DEF QueueIInv

(* Only cancelled entries are thrown away. *)
LEMMA DrainIInv == ASSUME QueueIInv, NEW w \in Workers, DrainCancelled(w) PROVE QueueIInv'
<1>1. /\ pending' = <<>> /\ UNCHANGED <<jobs, active, tokens, held>>
      /\ \A i \in 1..Len(pending) : ~Runnable(pending[i])
  BY DEF DrainCancelled
<1>2. QueueTypeOK'
  BY <1>1 DEF QueueIInv, QueueTypeOK
<1>3. ConcurrencyBound' /\ ExclusiveExecution' /\ SlotsMatchWorkers' /\ DoneHasStarted'
  BY <1>1 DEF QueueIInv, ConcurrencyBound, ExclusiveExecution, SlotsMatchWorkers,
             DoneHasStarted, max_concurrency
<1>4. Disjoint' /\ Registered'
  BY <1>1 DEF QueueIInv, Disjoint, Registered
<1>5. NoJobLost'
  <2>1. ASSUME NEW x \in JobIds, tokens[x] = "live", jobs[x] = "Pending"
        PROVE  x \in active
    <3>1. Runnable(x)
      BY <2>1, QueueConstants DEF Runnable, State
    <3> QED
      BY <1>1, <2>1, <3>1 DEF QueueIInv, NoJobLost
  <2> QED
    BY <1>1, <2>1 DEF NoJobLost
<1> QED
  BY <1>1, <1>2, <1>3, <1>4, <1>5 DEF QueueIInv

(* A step of a worker on its own clone: the clone keeps its identifier, and  *)
(* is not left Pending when its upload ends.                                 *)
LEMMA CloneStepIInv ==
  ASSUME QueueIInv, NEW w \in Workers, held[w] # NoJob,
         NEW s \in State, NEW p \in Phase, p = "done" => s # "Pending",
         held' = [held EXCEPT ![w].state = s, ![w].phase = p],
         UNCHANGED <<pending, jobs, active, tokens>>
  PROVE  QueueIInv'
<1>1. held \in [Workers -> Clone \cup {NoJob}] /\ held[w] \in Clone
  BY DEF QueueIInv, QueueTypeOK
<1> DEFINE c == [held[w] EXCEPT !.state = s, !.phase = p]
<1>2. c \in Clone /\ c # NoJob /\ c.id = held[w].id /\ c.state = s /\ c.phase = p
  BY <1>1, QueueConstants, Zenon DEF Clone
<1>3. held' = [held EXCEPT ![w] = c]
  BY <1>1, Zenon
<1> HIDE DEF c
<1>4. \A v \in Workers : held'[v] = IF v = w THEN c ELSE held[v]
  BY <1>1, <1>3, Zenon
<1>5. QueueTypeOK'
  BY <1>1, <1>2, <1>3, Zenon DEF QueueIInv, QueueTypeOK
<1>6. ConcurrencyBound' /\ Disjoint' /\ NoJobLost' /\ Registered'
  BY DEF QueueIInv, ConcurrencyBound, Disjoint, NoJobLost, Registered, max_concurrency
<1>7. ExclusiveExecution'
  BY <1>2, <1>4 DEF QueueIInv, ExclusiveExecution
<1>8. SlotsMatchWorkers'
  <2>2. \A v \in Workers : held'[v] # NoJob <=> held[v] # NoJob
    BY <1>2, <1>4, Zenon
  <2>3. \A v \in Workers : held[v] # NoJob => held'[v].id = held[v].id
    BY <1>2, <1>4, Zenon
  <2>4. {v \in Workers : held'[v] # NoJob} = {v \in Workers : held[v] # NoJob}
    BY <2>2, Zenon
  <2>5. {held'[v].id : v \in {u \in Workers : held'[u] # NoJob}}
          = {held[v].id : v \in {u \in Workers : held[u] # NoJob}}
    BY <2>3, <2>4, Zenon
  <2> QED
    BY <2>5, Zenon DEF QueueIInv, SlotsMatchWorkers
<1>9. DoneHasStarted'
  BY <1>2, <1>4, Zenon DEF QueueIInv, DoneHasStarted
<1> QED
  BY <1>5, <1>6, <1>7, <1>8, <1>9 DEF QueueIInv

(* The start of an upload changes the clone only. *)
LEMMA StartUploadIInv == ASSUME QueueIInv, NEW w \in Workers, StartUpload(w) PROVE QueueIInv'
<1>0. /\ held[w] # NoJob /\ UNCHANGED <<pending, jobs, active, tokens>>
  BY DEF StartUpload
<1>1. held \in [Workers -> Clone \cup {NoJob}] /\ held[w] \in Clone /\ held[w].state \in State
  BY <1>0 DEF QueueIInv, QueueTypeOK, Clone
<1>2. CASE tokens[held[w].id] = "cancelled"
  <2> DEFINE s == TransitionTo(held[w].state, "Cancelled")
  <2>1. held' = [held EXCEPT ![w].state = s, ![w].phase = "done"]
    BY <1>2 DEF StartUpload
  <2>2. s \in State /\ s # "Pending"
    BY <1>1 DEF TransitionTo, CanTransitionTo, State
  <2> HIDE DEF s
  <2> QED
    BY <1>0, <2>1, <2>2, CloneStepIInv, Zenon DEF Phase
<1>3. CASE tokens[held[w].id] # "cancelled" /\ CanTransitionTo(held[w].state, "Preparing")
  <2>1. held' = [held EXCEPT ![w].state = "Transferring", ![w].phase = "running"]
    BY <1>3 DEF StartUpload
  <2> QED
    BY <1>0, <2>1, CloneStepIInv, Zenon DEF Phase, State
<1>4. CASE tokens[held[w].id] # "cancelled" /\ ~CanTransitionTo(held[w].state, "Preparing")
  <2> DEFINE s == held[w].state
  <2>1. held' = [held EXCEPT ![w].phase = "done"]
    BY <1>4 DEF StartUpload
  <2>2. held' = [held EXCEPT ![w].state = s, ![w].phase = "done"]
    BY <1>1, <2>1, Zenon DEF Clone
  <2>3. s \in State /\ s # "Pending"
    BY <1>1, <1>4 DEF CanTransitionTo
  <2> HIDE DEF s
  <2> QED
    BY <1>0, <2>2, <2>3, CloneStepIInv, Zenon DEF Phase
<1> QED
  BY <1>2, <1>3, <1>4

(* The end of an upload changes the clone only. *)
LEMMA EndUploadIInv == ASSUME QueueIInv, NEW w \in Workers, EndUpload(w) PROVE QueueIInv'
<1>1. PICK s \in {"Completed", "Failed", "Retrying", "Verifying", "Cancelled"} :
        held' = [held EXCEPT ![w].state = s, ![w].phase = "done"]
  BY Zenon DEF EndUpload
<1>2. s \in State /\ s # "Pending" /\ "done" \in Phase
  BY DEF State, Phase
<1>3. held[w] # NoJob /\ UNCHANGED <<pending, jobs, active, tokens>>
  BY DEF EndUpload
<1> QED
  BY <1>1, <1>2, <1>3, CloneStepIInv, Zenon

(* Handing a clone back frees its slot and publishes its state, whether the  *)
(* job is then queued again or not.                                          *)
LEMMA ReleaseFacts ==
  ASSUME QueueIInv, NEW w \in Workers, held[w] # NoJob, held[w].phase = "done",
         active' = active \ {held[w].id},
         jobs' = [jobs EXCEPT ![held[w].id] = held[w].state],
         held' = [held EXCEPT ![w] = NoJob],
         tokens' = tokens
  PROVE  /\ held[w].id \in active /\ held[w].state \in State
         /\ held' \in [Workers -> Clone \cup {NoJob}]
         /\ jobs' \in [Ids -> State \cup {NoJob}]
         /\ active' \subseteq JobIds
         /\ IsFiniteSet(active') /\ ConcurrencyBound' /\ ExclusiveExecution'
         /\ SlotsMatchWorkers' /\ DoneHasStarted'
         /\ \A j \in JobIds : jobs'[j] = "Pending" => jobs[j] = "Pending" /\ j # held[w].id
         /\ \A j \in JobIds : jobs[j] # NoJob => jobs'[j] # NoJob
<1> DEFINE j == held[w].id
<1>1. /\ held \in [Workers -> Clone \cup {NoJob}] /\ held[w] \in Clone
      /\ j \in JobIds /\ held[w].state \in State /\ jobs \in [Ids -> State \cup {NoJob}]
      /\ active \subseteq JobIds /\ held[w].state # "Pending"
  BY DEF QueueIInv, QueueTypeOK, Clone, DoneHasStarted
<1>2. j \in active
  BY DEF QueueIInv, SlotsMatchWorkers
<1>3. IsFiniteSet(active') /\ Cardinality(active') = Cardinality(active) - 1
  BY <1>2, FS_RemoveElement DEF QueueIInv
<1>4. ConcurrencyBound'
  <2>1. Cardinality(active) \in Nat
    BY FS_CardinalityType DEF QueueIInv
  <2>2. max_concurrency' = max_concurrency
    BY DEF max_concurrency
  <2> QED
    BY <1>3, <2>1, <2>2, MaxConcurrencyType DEF QueueIInv, ConcurrencyBound
<1>5. \A v \in Workers : held'[v] = IF v = w THEN NoJob ELSE held[v]
  BY <1>1
<1>6. ExclusiveExecution' /\ DoneHasStarted'
  BY <1>5 DEF QueueIInv, ExclusiveExecution, DoneHasStarted
<1>7. SlotsMatchWorkers'
  <2>1. \A x : x \in active <=> \E v \in Workers : held[v] # NoJob /\ x = held[v].id
    BY DEF QueueIInv, SlotsMatchWorkers
  <2>2. \A v \in Workers : v # w /\ held[v] # NoJob => held[v].id # j
    BY DEF QueueIInv, ExclusiveExecution
  <2>3. \A x : x \in active' <=> \E v \in Workers : held'[v] # NoJob /\ x = held'[v].id
    BY <1>5, <2>1, <2>2
  <2> QED
    BY <2>3 DEF SlotsMatchWorkers
<1>8. \A x \in Ids : jobs'[x] = IF x = j THEN held[w].state ELSE jobs[x]
  BY <1>1 DEF Ids
<1>9. held[w].state # NoJob
  BY <1>1, QueueConstants
<1> QED
  BY <1>1, <1>2, <1>3, <1>4, <1>6, <1>7, <1>8, <1>9 DEF Ids

(* finish_job frees the slot of the job its worker held. *)
LEMMA FinishJobIInv ==
  ASSUME QueueIInv, NEW w \in Workers, HandBack(w), FinishJob(held[w].id, held[w].state)
  PROVE  QueueIInv'
<1> DEFINE j == held[w].id
<1>0. /\ held[w] # NoJob /\ held[w].phase = "done"
      /\ active' = active \ {j}
      /\ jobs' = [jobs EXCEPT ![j] = held[w].state]
      /\ held' = [held EXCEPT ![w] = NoJob]
      /\ pending' = pending /\ tokens' = tokens
  BY DEF HandBack, FinishJob
<1>1. /\ j \in active /\ held[w].state \in State
      /\ held' \in [Workers -> Clone \cup {NoJob}]
      /\ jobs' \in [Ids -> State \cup {NoJob}]
      /\ active' \subseteq JobIds
      /\ IsFiniteSet(active') /\ ConcurrencyBound' /\ ExclusiveExecution'
      /\ SlotsMatchWorkers' /\ DoneHasStarted'
      /\ \A x \in JobIds : jobs'[x] = "Pending" => jobs[x] = "Pending" /\ x # j
      /\ \A x \in JobIds : jobs[x] # NoJob => jobs'[x] # NoJob
  BY <1>0, ReleaseFacts, Zenon
<1>2. QueueTypeOK'
  BY <1>0, <1>1 DEF QueueIInv, QueueTypeOK
<1>3. Disjoint'
  BY <1>0 DEF QueueIInv, Disjoint
<1>4. NoJobLost'
  <2>1. ASSUME NEW x \in JobIds, tokens[x] = "live", jobs'[x] = "Pending", x \notin active'
        PROVE  \E i \in 1..Len(pending) : pending[i] = x
    <3>1. jobs[x] = "Pending" /\ x \notin active
      BY <1>0, <1>1, <2>1
    <3> QED
      BY <2>1, <3>1 DEF QueueIInv, NoJobLost
  <2> QED
    BY <1>0, <2>1 DEF NoJobLost
<1>5. Registered'
  <2>1. \A i \in 1..Len(pending) : pending[i] \in JobIds
    BY DEF QueueIInv, QueueTypeOK
  <2>2. active' \subseteq active /\ active \subseteq JobIds
    BY <1>0 DEF QueueIInv, QueueTypeOK
  <2> QED
    BY <1>0, <1>1, <2>1, <2>2 DEF QueueIInv, Registered
<1> QED
  BY <1>1, <1>2, <1>3, <1>4, <1>5 DEF QueueIInv

(* requeue_job frees the slot and queues the identifier again. *)
LEMMA RequeueIInv ==
  ASSUME QueueIInv, NEW w \in Workers, HandBack(w), RequeueJob(held[w].id, held[w].state)
  PROVE  QueueIInv'
<1> DEFINE j == held[w].id
<1>0. /\ held[w] # NoJob /\ held[w].phase = "done"
      /\ active' = active \ {j}
      /\ jobs' = [jobs EXCEPT ![j] = held[w].state]
      /\ held' = [held EXCEPT ![w] = NoJob]
      /\ pending' = Append(pending, j) /\ tokens' = tokens
  BY DEF HandBack, RequeueJob
<1>1. /\ j \in active /\ held[w].state \in State
      /\ held' \in [Workers -> Clone \cup {NoJob}]
      /\ jobs' \in [Ids -> State \cup {NoJob}]
      /\ active' \subseteq JobIds
      /\ IsFiniteSet(active') /\ ConcurrencyBound' /\ ExclusiveExecution'
      /\ SlotsMatchWorkers' /\ DoneHasStarted'
      /\ \A x \in JobIds : jobs'[x] = "Pending" => jobs[x] = "Pending" /\ x # j
      /\ \A x \in JobIds : jobs[x] # NoJob => jobs'[x] # NoJob
  BY <1>0, ReleaseFacts, Zenon
<1>2. pending \in Seq(JobIds) /\ j \in JobIds
  BY <1>1 DEF QueueIInv, QueueTypeOK
<1>3. /\ pending' \in Seq(JobIds)
      /\ Len(pending') = Len(pending) + 1
      /\ \A i \in 1..Len(pending) : pending'[i] = pending[i]
      /\ pending'[Len(pending) + 1] = j
  BY <1>0, <1>2
<1>4. \A i \in 1..Len(pending') : i \in 1..Len(pending) \/ i = Len(pending) + 1
  BY <1>2, <1>3
<1>5. \A i \in 1..Len(pending) : i \in 1..Len(pending')
  BY <1>2, <1>3
<1>6. \A i \in 1..Len(pending) : pending[i] # j
  BY <1>1 DEF QueueIInv, Disjoint
<1>7. QueueTypeOK'
  BY <1>0, <1>1, <1>3 DEF QueueIInv, QueueTypeOK
<1>8. Disjoint'
  <2>1. ASSUME NEW i \in 1..Len(pending'), NEW k \in 1..Len(pending'), pending'[i] = pending'[k]
        PROVE  i = k
    BY <1>3, <1>4, <1>6, <2>1 DEF QueueIInv, Disjoint
  <2>2. ASSUME NEW i \in 1..Len(pending')
        PROVE  pending'[i] \notin active'
    BY <1>0, <1>3, <1>4 DEF QueueIInv, Disjoint
  <2> QED
    BY <2>1, <2>2 DEF Disjoint
<1>9. NoJobLost'
  <2>1. ASSUME NEW x \in JobIds, tokens[x] = "live", jobs'[x] = "Pending", x \notin active'
        PROVE  \E i \in 1..Len(pending') : pending'[i] = x
    <3>1. jobs[x] = "Pending" /\ x \notin active
      BY <1>0, <1>1, <2>1
    <3>2. PICK i \in 1..Len(pending) : pending[i] = x
      BY <2>1, <3>1 DEF QueueIInv, NoJobLost
    <3> QED
      BY <1>3, <1>5, <3>2
  <2> QED
    BY <1>0, <2>1 DEF NoJobLost
<1>10. Registered'
  <2>1. \A i \in 1..Len(pending) : pending[i] \in JobIds
    BY <1>2
  <2>2. active' \subseteq active /\ active \subseteq JobIds /\ jobs[j] # NoJob
    BY <1>0, <1>1 DEF QueueIInv, QueueTypeOK, Registered
  <2>3. \A i \in 1..Len(pending') : jobs'[pending'[i]] # NoJob
    BY <1>1, <1>2, <1>3, <1>4, <2>1, <2>2 DEF QueueIInv, Registered
  <2>4. \A x \in active' : jobs'[x] # NoJob
    BY <1>1, <2>2 DEF QueueIInv, Registered
  <2> QED
    BY <2>3, <2>4 DEF Registered
<1> QED
  BY <1>1, <1>7, <1>8, <1>9, <1>10 DEF QueueIInv

(* A direct engine call records a job that has no slot and is not queued. *)
LEMMA EngineFinishIInv == ASSUME QueueIInv, NEW c \in CallIds, EngineFinish(c) PROVE QueueIInv'
<1>1. PICK s \in State : s # "Pending" /\ FinishJob(c, s)
  BY DEF EngineFinish, State
<1>2. UNCHANGED <<pending, tokens, held>> /\ jobs' = [jobs EXCEPT ![c] = s]
  BY <1>1 DEF EngineFinish, FinishJob
<1>3. active' = active
  BY <1>1, QueueConstants DEF FinishJob, QueueIInv, QueueTypeOK
<1>4. jobs' \in [Ids -> State \cup {NoJob}] /\ \A j \in JobIds : jobs'[j] = jobs[j]
  BY <1>2, QueueConstants DEF QueueIInv, QueueTypeOK, Ids
<1>5. QueueTypeOK'
  BY <1>2, <1>3, <1>4 DEF QueueIInv, QueueTypeOK
<1>6. ConcurrencyBound' /\ ExclusiveExecution' /\ SlotsMatchWorkers' /\ DoneHasStarted' /\ Disjoint'
  BY <1>2, <1>3 DEF QueueIInv, ConcurrencyBound, ExclusiveExecution, SlotsMatchWorkers,
             DoneHasStarted, Disjoint, max_concurrency
<1>7. NoJobLost'
  BY <1>2, <1>3, <1>4 DEF QueueIInv, NoJobLost
<1>8. Registered'
  <2>1. \A i \in 1..Len(pending) : pending[i] \in JobIds
    BY DEF QueueIInv, QueueTypeOK
  <2> QED
    BY <1>2, <1>3, <1>4, <2>1 DEF QueueIInv, QueueTypeOK, Registered
<1> QED
  BY <1>3, <1>5, <1>6, <1>7, <1>8 DEF QueueIInv

(* A stuttering step keeps the invariant. *)
LEMMA StutterIInv == ASSUME QueueIInv, UNCHANGED queueVars PROVE QueueIInv'
<1>1. /\ pending' = pending /\ jobs' = jobs /\ active' = active
      /\ tokens' = tokens /\ held' = held
  BY DEF queueVars
<1> QED
  BY <1>1 DEF QueueIInv, QueueTypeOK, ConcurrencyBound, ExclusiveExecution, SlotsMatchWorkers,
             Disjoint, NoJobLost, DoneHasStarted, Registered, max_concurrency

(* Every step of the queue and of its workers keeps the inductive invariant. *)
THEOREM QueueInvariant == QueueSpec => []QueueIInv
<1>1. QueueIInv /\ [QueueNext]_queueVars => QueueIInv'
  <2> SUFFICES ASSUME QueueIInv, [QueueNext]_queueVars PROVE QueueIInv'
    OBVIOUS
  <2>1. ASSUME NEW j \in JobIds, Submit(j) PROVE QueueIInv'
    BY <2>1, SubmitIInv
  <2>2. ASSUME NEW j \in Ids, CancelJob(j) PROVE QueueIInv'
    BY <2>2, CancelJobIInv
  <2>3. ASSUME NEW c \in CallIds, EngineFinish(c) PROVE QueueIInv'
    BY <2>3, EngineFinishIInv
  <2>4. ASSUME NEW w \in Workers, HandBack(w) PROVE QueueIInv'
    BY <2>4, FinishJobIInv, RequeueIInv DEF HandBack
  <2>5. ASSUME NEW w \in Workers, Worker(w) PROVE QueueIInv'
    BY <2>4, <2>5, AcquireIInv, DrainIInv, StartUploadIInv, EndUploadIInv DEF Worker
  <2> QED
    BY <2>1, <2>2, <2>3, <2>5, StutterIInv DEF QueueNext
<1> QED
  BY <1>1, QueueInitIInv, PTL DEF QueueSpec

(* No two workers ever hold the same job: acquire_next_job, cancel,          *)
(* finish_job and requeue_job keep this however they interleave.             *)
THEOREM QueueExclusion == QueueSpec => []ExclusiveExecution
BY QueueInvariant, PTL DEF QueueIInv

(* At no moment do more than max_concurrency acquired jobs occupy slots. *)
THEOREM QueueConcurrency == QueueSpec => []ConcurrencyBound
BY QueueInvariant, PTL DEF QueueIInv

(* The slots are exactly the jobs workers hold: cancelling or requeueing a   *)
(* running job neither leaks nor frees one early.                            *)
THEOREM QueueSlots == QueueSpec => []SlotsMatchWorkers
BY QueueInvariant, PTL DEF QueueIInv

(* No submitted job is lost by the pop loop of acquire_next_job or by the    *)
(* retain of cancel.                                                         *)
THEOREM QueueLosesNothing == QueueSpec => []NoJobLost
BY QueueInvariant, PTL DEF QueueIInv

(* No job is ever queued twice, or queued while it runs. *)
THEOREM QueueDisjoint == QueueSpec => []Disjoint
BY QueueInvariant, PTL DEF QueueIInv

(* A cancelled job that no worker holds is never executed again, also when   *)
(* it was requeued after the cancellation: only acquire_next_job adds a      *)
(* slot, and it passes over cancelled tokens.                                *)
THEOREM QueueCancelledStaysOut == QueueSpec => CancelledStaysOut
<1> DEFINE Out == \A j \in JobIds : tokens[j] = "cancelled" /\ j \notin active => j \notin active'
<1>1. QueueIInv /\ [QueueNext]_queueVars => Out
  <2> SUFFICES ASSUME QueueIInv, [QueueNext]_queueVars, NEW j \in JobIds,
                      tokens[j] = "cancelled", j \notin active
               PROVE  j \notin active'
    OBVIOUS
  <2>1. ASSUME NEW w \in Workers, AcquireNextJob(w)  PROVE j \notin active'
    BY <2>1 DEF AcquireNextJob, Runnable
  <2>2. ASSUME NEW w \in Workers, HandBack(w)  PROVE active' \subseteq active
    BY <2>2 DEF HandBack, FinishJob, RequeueJob
  <2>3. ASSUME NEW w \in Workers, Worker(w)  PROVE j \notin active'
    BY <2>1, <2>2, <2>3 DEF Worker, DrainCancelled, StartUpload, EndUpload
  <2>4. ASSUME NEW c \in CallIds, EngineFinish(c)  PROVE active' \subseteq active
    BY <2>4 DEF EngineFinish, FinishJob
  <2>5. ASSUME NEW i \in JobIds, Submit(i)  PROVE active' = active
    BY <2>5 DEF Submit
  <2>6. ASSUME NEW i \in Ids, CancelJob(i)  PROVE active' = active
    BY <2>6 DEF CancelJob
  <2> QED
    BY <2>3, <2>4, <2>5, <2>6 DEF QueueNext, queueVars
<1>2. QueueSpec => [][QueueNext]_queueVars
  BY DEF QueueSpec
<1> QED
  BY <1>1, <1>2, QueueInvariant, PTL DEF CancelledStaysOut

(* The queue's fields and the workers' clones keep their types. *)
THEOREM QueueTyped == QueueSpec => []QueueTypeOK
<1>1. QueueIInv => QueueTypeOK
  BY DEF QueueIInv
<1> QED
  BY <1>1, QueueInvariant, PTL

==============================================================================
