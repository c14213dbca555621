---------------------------- MODULE TransferEngine ----------------------------
(***************************************************************************)
(* The transfer engine as the application drives it                        *)
(* (crates/televault-transfer/src/engine.rs and worker.rs): backup calls   *)
(* execute_staged_upload for every chunk, repair calls upload_stream,      *)
(* restore calls download_stream.  Each call is an operation of its own    *)
(* thread with its own job and cancellation token; nobody submits the job  *)
(* to the queue first, so the queue is only the registry finish_job        *)
(* writes.  The remote provider, which may answer late, fail, store an     *)
(* object and lose the answer, or return a wrong verdict, and the process, *)
(* which may die and restart, are part of the model.                       *)
(***************************************************************************)
EXTENDS TransferState, Naturals

CONSTANTS Ops,         \* one transfer call each
          MaxRetries,  \* RetryPolicy.max_retries
          Pieces,      \* buffers a payload is streamed in
          NoRef        \* storage_reference = None

ASSUME EngineConstants ==
  /\ MaxRetries \in Nat
  /\ Pieces \in Nat
  /\ NoRef \notin Ops \X Nat

VARIABLES pc,           \* where the operation's thread is
          kind,         \* which engine entry point it runs
          state,        \* its TransferJob: state,
          retry_count,  \*   retry_count,
          ref,          \*   storage_reference of the finished upload
          attempt,      \* calls of provider.upload / provider.download so far
          left,         \* buffers still to stream in this attempt
          token,        \* its CancellationToken
          result,       \* what the worker, then the engine, returns
          registry,     \* TransferQueue.jobs, written by finish_job
          staging,      \* operations whose staging file is on disk
          stuck,        \* those whose file the operating system would not remove
          remote,       \* objects stored intact by the provider
          up            \* the process is running

job   == <<state, retry_count, ref>>
files == <<staging, stuck>>
vars  == <<pc, kind, state, retry_count, ref, attempt, left, token, result,
          registry, staging, stuck, remote, up>>

Kinds   == {"staged", "stream", "download"}
Ended   == {"returned", "dead"}
Running == {"loop", "start", "stream", "write", "reply", "verify", "finish", "sleep"}
Results == {"none", "ok", "cancelled", "retryable", "fatal", "cleanup_failed"}

CanRetry(attempts) == attempts < MaxRetries

Init ==
  /\ pc = [o \in Ops |-> "idle"]
  /\ kind \in [Ops -> Kinds]
  /\ state = [o \in Ops |-> "Pending"]
  /\ retry_count = [o \in Ops |-> 0]
  /\ ref = [o \in Ops |-> NoRef]
  /\ attempt = [o \in Ops |-> 0]
  /\ left = [o \in Ops |-> 0]
  /\ token = [o \in Ops |-> FALSE]
  /\ result = [o \in Ops |-> "none"]
  /\ registry = [o \in Ops |-> "none"]
  /\ staging = {}
  /\ stuck = {}
  /\ remote = {}
  /\ up = TRUE

(* The backup's pipeline writes the chunk into a staging file.  It does so   *)
(* for all chunks of a file before the first of them is uploaded.            *)
Stage(o) ==
  /\ up
  /\ pc[o] = "idle" /\ kind[o] = "staged"
  /\ pc' = [pc EXCEPT ![o] = "staged"]
  /\ staging' = staging \cup {o}
  /\ UNCHANGED <<kind, job, attempt, left, token, result, registry, stuck, remote, up>>

(* The caller creates the job and calls the engine, handing over the staging *)
(* file of a staged upload.                                                  *)
Begin(o) ==
  /\ up
  /\ \/ kind[o] = "staged" /\ pc[o] = "staged" /\ pc' = [pc EXCEPT ![o] = "loop"]
     \/ kind[o] # "staged" /\ pc[o] = "idle" /\ pc' = [pc EXCEPT ![o] = "start"]
  /\ UNCHANGED <<kind, job, attempt, left, token, result, registry, files, remote, up>>

Cancel(o) ==
  /\ up
  /\ pc[o] \in Running
  /\ token' = [token EXCEPT ![o] = TRUE]
  /\ UNCHANGED <<pc, kind, job, attempt, left, result, registry, files, remote, up>>

(* A `TempPayloadFile` goes out of scope: Drop unlinks it, ignoring an error. *)
Drop(o) ==
  \/ staging' = staging \ {o} /\ UNCHANGED stuck
  \/ o \in staging /\ stuck' = stuck \cup {o} /\ UNCHANGED staging

(* The backup fails or is cancelled before it comes to this chunk. *)
Discard(o) ==
  /\ pc[o] = "staged"
  /\ pc' = [pc EXCEPT ![o] = "discarded"]
  /\ Drop(o)
  /\ UNCHANGED <<kind, job, attempt, left, token, result, registry, remote, up>>

(* Leave the engine, and with it the scope of `staging_file`. *)
Return(o, res) ==
  /\ pc' = [pc EXCEPT ![o] = "returned"]
  /\ result' = [result EXCEPT ![o] = res]
  /\ Drop(o)

(* Top of execute_staged_upload's loop: the cancellation check returns with  *)
(* the job as it is; opening the staging file may fail, which `?` returns.   *)
LoopTop(o) ==
  /\ pc[o] = "loop"
  /\ \/ token[o] /\ Return(o, "cancelled")
     \/ ~token[o] /\ Return(o, "fatal")
     \/ /\ ~token[o]
        /\ pc' = [pc EXCEPT ![o] = "start"]
        /\ UNCHANGED <<result, files>>
  /\ UNCHANGED <<kind, job, attempt, left, token, registry, remote, up>>

(* The worker is done with this attempt; `s` is the state it leaves the job in. *)
Done(o, s, res) ==
  /\ pc' = [pc EXCEPT ![o] = "finish"]
  /\ state' = [state EXCEPT ![o] = s]
  /\ result' = [result EXCEPT ![o] = res]

(* Mutant: an invalid state transition counts as a transient error. *)
StartRetriesInvalid(o) ==
  /\ pc[o] = "start"
  /\ IF token[o]
     THEN Done(o, TransitionTo(state[o], "Cancelled"), "cancelled") /\ UNCHANGED <<attempt, left>>
     ELSE IF CanTransitionTo(state[o], "Preparing")
     THEN /\ pc' = [pc EXCEPT ![o] = "stream"]
          /\ state' = [state EXCEPT ![o] = "Transferring"]
          /\ attempt' = [attempt EXCEPT ![o] = @ + 1]
          /\ left' = [left EXCEPT ![o] = Pieces]
          /\ UNCHANGED result
     ELSE Done(o, state[o], "retryable") /\ UNCHANGED <<attempt, left>>
  /\ UNCHANGED <<kind, retry_count, ref, token, registry, files, remote, up>>

(* Head of execute_upload / execute_download. *)
Start(o) ==
  /\ pc[o] = "start"
  /\ IF token[o]
     THEN Done(o, TransitionTo(state[o], "Cancelled"), "cancelled") /\ UNCHANGED <<attempt, left>>
     ELSE IF CanTransitionTo(state[o], "Preparing")
     THEN /\ pc' = [pc EXCEPT ![o] = "stream"]
          /\ state' = [state EXCEPT ![o] = "Transferring"]
          /\ attempt' = [attempt EXCEPT ![o] = @ + 1]
          /\ left' = [left EXCEPT ![o] = Pieces]
          /\ UNCHANGED result
     ELSE Done(o, state[o], "fatal") /\ UNCHANGED <<attempt, left>>
  /\ UNCHANGED <<kind, retry_count, ref, token, registry, files, remote, up>>

(* Mutant: a failed attempt is not counted. *)
FailUncounted(o, retryable) ==
  IF token[o]
  THEN Done(o, TransitionTo(state[o], "Cancelled"), "cancelled") /\ UNCHANGED retry_count
  ELSE /\ Done(o, IF retryable /\ CanRetry(retry_count[o]) THEN "Retrying" ELSE "Failed",
               IF retryable THEN "retryable" ELSE "fatal")
       /\ UNCHANGED retry_count

(* The error arm after provider.upload / provider.download. *)
Fail(o, retryable) ==
  IF token[o]
  THEN Done(o, TransitionTo(state[o], "Cancelled"), "cancelled") /\ UNCHANGED retry_count
  ELSE IF retryable /\ CanRetry(retry_count[o])
  THEN /\ Done(o, "Retrying", "retryable")
       /\ retry_count' = [retry_count EXCEPT ![o] = @ + 1]
  ELSE Done(o, "Failed", IF retryable THEN "retryable" ELSE "fatal") /\ UNCHANGED retry_count

(* One buffer of an upload: CancellingReader answers Interrupted once the    *)
(* token is set, which ends provider.upload with an error.                   *)
ReadPiece(o) ==
  /\ pc[o] = "stream" /\ kind[o] # "download" /\ left[o] > 0
  /\ IF token[o]
     THEN Fail(o, FALSE) /\ UNCHANGED left
     ELSE /\ left' = [left EXCEPT ![o] = @ - 1]
          /\ UNCHANGED <<pc, state, retry_count, result>>
  /\ UNCHANGED <<kind, ref, attempt, token, registry, files, remote, up>>

(* The provider's answer to an upload.  An object it acknowledges may still  *)
(* not be there intact, which verification is for; a failed call may have    *)
(* stored it all the same: a timeout or an unreadable answer is an error.    *)
UploadReply(o) ==
  /\ pc[o] = "stream" /\ kind[o] # "download" /\ left[o] = 0
  /\ \/ remote' = remote
     \/ remote' = remote \cup {<<o, attempt[o]>>}
  /\ \/ /\ pc' = [pc EXCEPT ![o] = "reply"]
        /\ UNCHANGED <<state, retry_count, result>>
     \/ \E retryable \in BOOLEAN : Fail(o, retryable)
  /\ UNCHANGED <<kind, ref, attempt, left, token, registry, files, up>>

(* The cancellation check between the upload and its verification. *)
CheckReply(o) ==
  /\ pc[o] = "reply"
  /\ IF token[o]
     THEN Done(o, TransitionTo(state[o], "Cancelled"), "cancelled")
     ELSE /\ pc' = [pc EXCEPT ![o] = "verify"]
          /\ state' = [state EXCEPT ![o] = "Verifying"]
          /\ UNCHANGED result
  /\ UNCHANGED <<kind, retry_count, ref, attempt, left, token, registry, files, remote, up>>

(* Mutant: a `false` verdict is ignored. *)
VerifyIgnoresVerdict(o) ==
  /\ pc[o] = "verify"
  /\ Done(o, "Completed", "ok")
  /\ ref' = [ref EXCEPT ![o] = <<o, attempt[o]>>]
  /\ UNCHANGED <<kind, retry_count, attempt, left, token, registry, files, remote, up>>

(* provider.verify: an error is returned by `?` with the job still Verifying; *)
(* `true` only for an object that is there with its size and hash.            *)
Verify(o) ==
  /\ pc[o] = "verify"
  /\ \/ \E res \in {"retryable", "fatal"} : Done(o, state[o], res) /\ UNCHANGED ref
     \/ Done(o, "Failed", "fatal") /\ UNCHANGED ref
     \/ /\ <<o, attempt[o]>> \in remote
        /\ Done(o, "Completed", "ok")
        /\ ref' = [ref EXCEPT ![o] = <<o, attempt[o]>>]
  /\ UNCHANGED <<kind, retry_count, attempt, left, token, registry, files, remote, up>>

(* One buffer of a download arrives from the network, or the network fails. *)
ReceivePiece(o) ==
  /\ pc[o] = "stream" /\ kind[o] = "download" /\ left[o] > 0
  /\ \/ \E retryable \in BOOLEAN : Fail(o, retryable)
     \/ /\ pc' = [pc EXCEPT ![o] = "write"]
        /\ UNCHANGED <<state, retry_count, result>>
  /\ UNCHANGED <<kind, ref, attempt, left, token, registry, files, remote, up>>

(* writer.write_all on CancellingWriter: write_all retries a write that      *)
(* answers Interrupted, so once the token is set it goes round for ever.     *)
WritePiece(o) ==
  /\ pc[o] = "write"
  /\ IF token[o]
     THEN UNCHANGED <<pc, left>>
     ELSE /\ pc' = [pc EXCEPT ![o] = "stream"]
          /\ left' = [left EXCEPT ![o] = @ - 1]
  /\ UNCHANGED <<kind, job, attempt, token, result, registry, files, remote, up>>

(* All buffers written: the size or hash check of the provider may fail; then *)
(* check_cancelled()? returns with the job still Transferring.                *)
DownloadReply(o) ==
  /\ pc[o] = "stream" /\ kind[o] = "download" /\ left[o] = 0
  /\ \/ \E retryable \in BOOLEAN : Fail(o, retryable)
     \/ /\ IF token[o] THEN Done(o, state[o], "cancelled") ELSE Done(o, "Completed", "ok")
        /\ UNCHANGED retry_count
  /\ UNCHANGED <<kind, ref, attempt, left, token, registry, files, remote, up>>

(* finish_job, then what the entry point does with the worker's result: only *)
(* execute_staged_upload retries, and after an Ok it removes the staging     *)
(* file itself; when that fails the upload is reported as an error.          *)
Finish(o) ==
  LET again == kind[o] = "staged" /\ result[o] = "retryable" /\ CanRetry(retry_count[o])
      stored == kind[o] = "staged" /\ result[o] = "ok"
  IN
  /\ pc[o] = "finish"
  /\ registry' = [registry EXCEPT ![o] = state[o]]
  /\ \/ /\ again
        /\ pc' = [pc EXCEPT ![o] = "sleep"]
        /\ UNCHANGED <<result, files>>
     \/ ~again /\ ~stored /\ Return(o, result[o])
     \/ /\ stored
        /\ pc' = [pc EXCEPT ![o] = "returned"]
        /\ \/ staging' = staging \ {o} /\ UNCHANGED <<result, stuck>>
           \/ /\ result' = [result EXCEPT ![o] = "cleanup_failed"]
              /\ stuck' = stuck \cup {o}
              /\ UNCHANGED staging
  /\ UNCHANGED <<kind, job, attempt, left, token, remote, up>>

(* The backoff sleep is over. *)
Wake(o) ==
  /\ pc[o] = "sleep"
  /\ pc' = [pc EXCEPT ![o] = "loop"]
  /\ UNCHANGED <<kind, job, attempt, left, token, result, registry, files, remote, up>>

(* The process dies: threads and registry are gone, staging files stay. *)
Crash ==
  /\ up
  /\ up' = FALSE
  /\ pc' = [o \in Ops |-> IF pc[o] \in Running \cup {"staged"} THEN "dead" ELSE pc[o]]
  /\ registry' = [o \in Ops |-> "none"]
  /\ UNCHANGED <<kind, job, attempt, left, token, result, files, remote>>

(* Mutant: startup leaves the staging directory alone. *)
RestartKeepsStaging ==
  /\ ~up
  /\ up' = TRUE
  /\ UNCHANGED <<pc, kind, job, attempt, left, token, result, registry, files, remote>>

(* Startup removes the staging files it can (cleanup_stale_staging_files(0)) *)
(* and goes on without the others.                                           *)
Restart ==
  /\ ~up
  /\ up' = TRUE
  /\ stuck' \in SUBSET staging
  /\ staging' = stuck'
  /\ UNCHANGED <<pc, kind, job, attempt, left, token, result, registry, remote>>

Step(o) == LoopTop(o) \/ Start(o) \/ ReadPiece(o) \/ UploadReply(o) \/ CheckReply(o)
             \/ Verify(o) \/ ReceivePiece(o) \/ WritePiece(o) \/ DownloadReply(o)
             \/ Finish(o) \/ Wake(o)

Next == \/ \E o \in Ops : Stage(o) \/ Discard(o) \/ Begin(o) \/ Cancel(o) \/ Step(o)
        \/ Crash
        \/ Restart

Spec == Init /\ [][Next]_vars

(* A running thread keeps running and every provider call returns (the HTTP  *)
(* client has timeouts); nobody is obliged to start, cancel or crash.        *)
FairSpec == Spec /\ \A o \in Ops : WF_vars(Step(o))

------------------------------------------------------------------------------

TypeOK ==
  /\ pc \in [Ops -> {"idle", "staged", "discarded"} \cup Running \cup Ended]
  /\ kind \in [Ops -> Kinds]
  /\ state \in [Ops -> State]
  /\ retry_count \in [Ops -> Nat]
  /\ ref \in [Ops -> (Ops \X Nat) \cup {NoRef}]
  /\ attempt \in [Ops -> Nat]
  /\ left \in [Ops -> Nat]
  /\ token \in [Ops -> BOOLEAN]
  /\ result \in [Ops -> Results]
  /\ registry \in [Ops -> State \cup {"none"}]
  /\ staging \subseteq Ops
  /\ stuck \subseteq Ops
  /\ remote \subseteq Ops \X Nat
  /\ up \in BOOLEAN

(* An engine call that returns Ok has finished its job: the job is           *)
(* Completed, its reference names an object the provider holds, and its      *)
(* staging file is gone, whatever attempts failed or were lost before.       *)
OkMeansStored ==
  \A o \in Ops :
    pc[o] = "returned" /\ result[o] = "ok"
      => /\ state[o] = "Completed"
         /\ kind[o] # "download" => ref[o] \in remote
         /\ o \notin staging

(* Provider calls one engine call may make (the worker counts an attempt     *)
(* when it fails, the staged loop asks can_retry of the count after it).     *)
MaxAttempts(o) == IF kind[o] = "staged" /\ MaxRetries > 1 THEN MaxRetries ELSE 1

(* Retries stop: neither the job's counter nor the provider calls exceed the *)
(* policy, so lost answers leave at most that many objects of one chunk.     *)
RetryBound ==
  \A o \in Ops :
    /\ retry_count[o] <= MaxRetries
    /\ attempt[o] <= MaxAttempts(o)
    /\ \A r \in remote : r[1] = o => r[2] \in 1..MaxAttempts(o)

(* Staging files do not pile up: while the process runs, a file on disk      *)
(* waits for its upload or belongs to a running one, unless removing it      *)
(* failed; files of a crashed process are gone once it has restarted.        *)
StagingReleased ==
  up => \A o \in staging : pc[o] \in Running \cup {"staged"} \/ o \in stuck

(* Every engine call returns unless the process dies, except a download that *)
(* was cancelled: retries, backoff sleeps and failed verifications all end.  *)
TransfersReturn ==
  \A o \in Ops :
    pc[o] \in Running ~> (pc[o] \in Ended \/ (kind[o] = "download" /\ token[o]))

(* "Verifying can complete, retry (if remote verify failed retryably), fail, *)
(* or cancel" (state.rs:49): no call returns with its job still Verifying.   *)
VerifyingIsLeft == \A o \in Ops : pc[o] = "returned" => state[o] # "Verifying"

(* "Cooperative cancellation ... (immediate graceful abort ...)"             *)
(* (README.md:111): a cancelled transfer call ends.                          *)
CancelledTransfersStop ==
  \A o \in Ops : (pc[o] \in Running /\ token[o]) ~> (pc[o] \in Ended)
==============================================================================
