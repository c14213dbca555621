---------------------------- MODULE TransferQueue ----------------------------
(***************************************************************************)
(* The in-memory transfer queue (crates/televault-transfer/src/queue.rs).  *)
(* Every operation runs under one mutex, so each is one action.  A job is  *)
(* abstracted to its identifier and its state.                             *)
(*                                                                         *)
(* Two kinds of client use the queue.  A worker acquires a clone of a      *)
(* submitted job, runs an upload on that clone outside the lock and hands  *)
(* it back once, with finish_job or requeue_job, while the record in the   *)
(* queue may have been cancelled in between: the protocol the queue's API  *)
(* is made for and its tests follow (transfer_tests.rs:296-324).  The      *)
(* application itself calls the engine directly, with jobs nobody          *)
(* submitted; of the queue this uses finish_job only, after every attempt  *)
(* (engine.rs:119, 133).                                                   *)
(***************************************************************************)
EXTENDS TransferState, Naturals, Sequences, FiniteSets

CONSTANTS JobIds,           \* job identifiers clients submit
          CallIds,          \* identifiers of jobs the engine is called with directly
          Workers,          \* threads that drain the queue
          MaxConcurrency,   \* the argument of TransferQueue::new
          NoJob             \* "no entry" in the jobs map, "no clone" in a worker

Ids == JobIds \cup CallIds

(* Where a worker is with its clone: acquired, inside execute_upload, done. *)
Phase == {"acquired", "running", "done"}

ASSUME QueueConstants ==
  /\ MaxConcurrency \in Nat
  /\ JobIds \cap CallIds = {}
  /\ NoJob \notin State
  /\ NoJob \notin [id : JobIds, state : State, phase : Phase]

VARIABLES pending,    \* VecDeque<JobId>
          jobs,       \* HashMap<JobId, TransferJob>: the recorded state
          active,     \* HashSet<JobId>
          tokens,     \* HashMap<JobId, CancellationToken>
          held        \* each worker's clone of the job it acquired

queueVars == <<pending, jobs, active, tokens, held>>

Clone == [id : JobIds, state : State, phase : Phase]

max_concurrency == IF MaxConcurrency < 1 THEN 1 ELSE MaxConcurrency

QueueInit ==
  /\ pending = <<>>
  /\ jobs = [j \in Ids |-> NoJob]
  /\ active = {}
  /\ tokens = [j \in Ids |-> "none"]
  /\ held = [w \in Workers |-> NoJob]

(* Mutant: a registered identifier is accepted again. *)
SubmitAgain(j) ==
  /\ pending' = Append(pending, j)
  /\ tokens' = [tokens EXCEPT ![j] = "live"]
  /\ jobs' = [jobs EXCEPT ![j] = "Pending"]
  /\ UNCHANGED <<active, held>>

(* A second submit of a registered identifier is rejected and changes nothing. *)
Submit(j) ==
  /\ jobs[j] = NoJob
  /\ pending' = Append(pending, j)
  /\ tokens' = [tokens EXCEPT ![j] = "live"]
  /\ jobs' = [jobs EXCEPT ![j] = "Pending"]
  /\ UNCHANGED <<active, held>>

(* pending.retain(|id| id != j).  No identifier is queued twice (Disjoint),  *)
(* so at most one position goes.                                             *)
Retain(q, j) ==
  LET at == {i \in 1..Len(q) : q[i] = j}
      k  == CHOOSE i \in at : TRUE
  IN  IF at = {} THEN q
      ELSE [i \in 1..(Len(q) - 1) |-> IF i < k THEN q[i] ELSE q[i + 1]]

(* Mutant: cancelling a running job frees its slot at once. *)
CancelFreesSlot(j) ==
  /\ tokens' = [tokens EXCEPT ![j] = IF @ = "none" THEN @ ELSE "cancelled"]
  /\ jobs' = [jobs EXCEPT ![j] = IF @ = NoJob THEN @ ELSE TransitionTo(@, "Cancelled")]
  /\ pending' = Retain(pending, j)
  /\ active' = active \ {j}
  /\ UNCHANGED held

CancelJob(j) ==
  /\ tokens' = [tokens EXCEPT ![j] = IF @ = "none" THEN @ ELSE "cancelled"]
  /\ jobs' = [jobs EXCEPT ![j] = IF @ = NoJob THEN @ ELSE TransitionTo(@, "Cancelled")]
  /\ pending' = Retain(pending, j)
  /\ UNCHANGED <<active, held>>

(* Mutant: the pop loop does not look at the token. *)
RunnableCancelled(j) == tokens[j] # "none" /\ jobs[j] # NoJob

(* A queued identifier the pop loop of acquire_next_job would hand out. *)
Runnable(j) == tokens[j] = "live" /\ jobs[j] # NoJob

(* Mutant: the capacity test is off by one. *)
AcquireOneMore(w) ==
  /\ held[w] = NoJob
  /\ Cardinality(active) <= max_concurrency
  /\ \E i \in 1..Len(pending) :
       /\ Runnable(pending[i])
       /\ \A k \in 1..(i - 1) : ~Runnable(pending[k])
       /\ pending' = SubSeq(pending, i + 1, Len(pending))
       /\ active' = active \cup {pending[i]}
       /\ held' = [held EXCEPT ![w] =
                     [id |-> pending[i], state |-> jobs[pending[i]], phase |-> "acquired"]]
  /\ UNCHANGED <<jobs, tokens>>

AcquireNextJob(w) ==
  /\ held[w] = NoJob
  /\ Cardinality(active) < max_concurrency
  /\ \E i \in 1..Len(pending) :
       /\ Runnable(pending[i])
       /\ \A k \in 1..(i - 1) : ~Runnable(pending[k])
       /\ pending' = SubSeq(pending, i + 1, Len(pending))
       /\ active' = active \cup {pending[i]}
       /\ held' = [held EXCEPT ![w] =
                     [id |-> pending[i], state |-> jobs[pending[i]], phase |-> "acquired"]]
  /\ UNCHANGED <<jobs, tokens>>

(* Mutant: the pop loop throws away runnable entries too. *)
DrainAll(w) ==
  /\ held[w] = NoJob
  /\ pending # <<>>
  /\ pending' = <<>>
  /\ UNCHANGED <<jobs, active, tokens, held>>

(* acquire_next_job with nothing runnable pops every cancelled entry. *)
DrainCancelled(w) ==
  /\ held[w] = NoJob
  /\ Cardinality(active) < max_concurrency
  /\ pending # <<>>
  /\ \A i \in 1..Len(pending) : ~Runnable(pending[i])
  /\ pending' = <<>>
  /\ UNCHANGED <<jobs, active, tokens, held>>

(* The head of execute_upload: a cancelled token, or a state that may not    *)
(* become Preparing, ends it; otherwise the clone is Transferring.           *)
StartUpload(w) ==
  /\ held[w] # NoJob
  /\ held[w].phase = "acquired"
  /\ IF tokens[held[w].id] = "cancelled"
     THEN held' = [held EXCEPT ![w].state = TransitionTo(@, "Cancelled"),
                               ![w].phase = "done"]
     ELSE IF CanTransitionTo(held[w].state, "Preparing")
     THEN held' = [held EXCEPT ![w].state = "Transferring", ![w].phase = "running"]
     ELSE held' = [held EXCEPT ![w].phase = "done"]
  /\ UNCHANGED <<pending, jobs, active, tokens>>

(* The rest of execute_upload, by the state it leaves the clone in: a failed *)
(* verify call leaves it Verifying, a cancellation seen on the way Cancelled. *)
EndUpload(w) ==
  /\ held[w] # NoJob
  /\ held[w].phase = "running"
  /\ \E s \in {"Completed", "Failed", "Retrying", "Verifying", "Cancelled"} :
       /\ s = "Cancelled" => tokens[held[w].id] = "cancelled"
       /\ held' = [held EXCEPT ![w].state = s, ![w].phase = "done"]
  /\ UNCHANGED <<pending, jobs, active, tokens>>

(* finish_job: the slot is given back and the record becomes the caller's    *)
(* clone, whatever either of them was.                                       *)
FinishJob(j, s) ==
  /\ active' = active \ {j}
  /\ jobs' = [jobs EXCEPT ![j] = s]
  /\ UNCHANGED <<pending, tokens>>

(* Mutant: requeue_job keeps the slot. *)
RequeueKeepsSlot(j, s) ==
  /\ jobs' = [jobs EXCEPT ![j] = s]
  /\ pending' = Append(pending, j)
  /\ UNCHANGED <<active, tokens>>

(* requeue_job: the same, and the identifier goes to the back of the queue. *)
RequeueJob(j, s) ==
  /\ active' = active \ {j}
  /\ jobs' = [jobs EXCEPT ![j] = s]
  /\ pending' = Append(pending, j)
  /\ UNCHANGED tokens

(* A worker hands its clone back, in whatever state the upload left it. *)
HandBack(w) ==
  /\ held[w] # NoJob
  /\ held[w].phase = "done"
  /\ FinishJob(held[w].id, held[w].state) \/ RequeueJob(held[w].id, held[w].state)
  /\ held' = [held EXCEPT ![w] = NoJob]

(* upload_stream and download_stream record the job they were called with    *)
(* when their attempt is over, in a state the workers can leave it in; the   *)
(* identifier is that of the chunk and comes back with every retry and with  *)
(* every later call for the chunk.                                           *)
EngineFinish(c) ==
  /\ \E s \in {"Transferring", "Verifying", "Completed", "Failed", "Retrying", "Cancelled"} :
       FinishJob(c, s)
  /\ UNCHANGED held

Worker(w) == AcquireNextJob(w) \/ DrainCancelled(w) \/ StartUpload(w)
               \/ EndUpload(w) \/ HandBack(w)

QueueNext == \/ \E j \in JobIds : Submit(j)
        \/ \E j \in Ids : CancelJob(j)
        \/ \E c \in CallIds : EngineFinish(c)
        \/ \E w \in Workers : Worker(w)

QueueSpec == QueueInit /\ [][QueueNext]_queueVars

(* An upload that was begun comes to its end.  Nothing obliges anybody to    *)
(* submit, cancel or acquire.                                                *)
QueueFairSpec == QueueSpec /\ \A w \in Workers : WF_queueVars(StartUpload(w) \/ EndUpload(w))

------------------------------------------------------------------------------

QueueTypeOK ==
  /\ pending \in Seq(JobIds)
  /\ jobs \in [Ids -> State \cup {NoJob}]
  /\ active \subseteq JobIds
  /\ tokens \in [Ids -> {"none", "live", "cancelled"}]
  /\ held \in [Workers -> Clone \cup {NoJob}]

(* The concurrency limit holds at every moment: acquire_next_job never takes *)
(* a job beyond max_concurrency, however cancels, requeues and finishes mix. *)
ConcurrencyBound == Cardinality(active) <= max_concurrency

(* A job is executed by one worker at a time: two workers never hold clones  *)
(* of one job, whatever was cancelled or requeued meanwhile.                 *)
ExclusiveExecution ==
  \A v, w \in Workers :
    held[v] # NoJob /\ held[w] # NoJob /\ held[v].id = held[w].id => v = w

(* The slots are exactly the jobs some worker holds: no slot leaks when a    *)
(* running job is cancelled, and none is freed while its job still runs.     *)
SlotsMatchWorkers == active = {held[w].id : w \in {v \in Workers : held[v] # NoJob}}

(* A queued identifier is queued once and is not being executed. *)
Disjoint ==
  /\ \A i, k \in 1..Len(pending) : pending[i] = pending[k] => i = k
  /\ \A i \in 1..Len(pending) : pending[i] \notin active

(* The pop loop of acquire_next_job and the retain of cancel lose no job: a  *)
(* job that was submitted, not cancelled and never run is queued or running. *)
NoJobLost ==
  \A j \in JobIds :
    tokens[j] = "live" /\ jobs[j] = "Pending"
      => j \in active \/ \E i \in 1..Len(pending) : pending[i] = j

(* A cancelled job that no worker holds is never executed again.  A job      *)
(* cancelled while it runs may still be requeued, since requeue_job does not *)
(* ask; the pop loop of acquire_next_job is all that keeps it from running.  *)
CancelledStaysOut ==
  [][\A j \in JobIds : tokens[j] = "cancelled" /\ j \notin active => j \notin active']_queueVars

(* "Terminal states cannot transition to any other active state"             *)
(* (state.rs:61), of the record get_job and list_jobs show for a submitted   *)
(* job: finish_job and requeue_job overwrite it with the worker's clone.     *)
TerminalRecordsStay ==
  [][\A j \in JobIds : IsTerminal(jobs[j]) => IsTerminal(jobs'[j])]_queueVars
==============================================================================
