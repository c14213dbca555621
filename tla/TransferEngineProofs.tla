------------------------- MODULE TransferEngineProofs -------------------------
(***************************************************************************)
(* The safety of the transfer engine, for any operations, any number of    *)
(* retries and any payload size.                                           *)
(***************************************************************************)
EXTENDS TransferEngine, TLAPS

(* How the worker's retry_count and the number of provider calls go          *)
(* together at each point: a failed call is counted when it is failed, so a  *)
(* job about to try again has made exactly retry_count calls, one that is    *)
(* inside a call one more, and a job left Verifying never calls again.       *)
AttemptsCounted ==
  \A o \in Ops :
    /\ pc[o] \in {"idle", "staged"} => state[o] = "Pending" /\ attempt[o] = 0 /\ retry_count[o] = 0
    /\ pc[o] \in {"loop", "start", "sleep"} =>
         \/ state[o] = "Pending" /\ attempt[o] = 0 /\ retry_count[o] = 0
         \/ kind[o] = "staged" /\ state[o] = "Retrying" /\ attempt[o] = retry_count[o]
              /\ 1 <= retry_count[o] /\ retry_count[o] < MaxRetries
         \/ state[o] = "Verifying"
    /\ pc[o] \in {"stream", "write", "reply", "verify"} => attempt[o] = retry_count[o] + 1
    /\ pc[o] = "finish" =>
         /\ state[o] = "Retrying" => attempt[o] = retry_count[o] /\ 1 <= retry_count[o]
         /\ result[o] = "retryable" =>
              state[o] \in {"Retrying", "Verifying"} \/ ~CanRetry(retry_count[o])

(* The job's state inside a provider call, and a buffer is in hand in write. *)
StateInCall ==
  \A o \in Ops :
    /\ pc[o] \in {"stream", "write", "reply"} => state[o] = "Transferring"
    /\ pc[o] = "verify" => state[o] = "Verifying"
    /\ pc[o] = "write" => left[o] > 0

(* A worker that ends with Ok has a completed job and a stored object. *)
OkFinished ==
  \A o \in Ops :
    pc[o] = "finish" /\ result[o] = "ok"
      => state[o] = "Completed" /\ (kind[o] # "download" => ref[o] \in remote)

(* Only staged uploads own a staging file. *)
StagedOnly == \A o \in staging : kind[o] = "staged"

IInv == /\ TypeOK
        /\ StateInCall
        /\ AttemptsCounted
        /\ RetryBound
        /\ OkFinished
        /\ OkMeansStored
        /\ StagingReleased
        /\ StagedOnly

(* A job that is cancelled, or moves on, stays in one of the eight states. *)
LEMMA StatesStay ==
  /\ \A s \in State : TransitionTo(s, "Cancelled") \in State
  /\ \A s \in {"Transferring", "Verifying", "Retrying", "Failed", "Completed"} : s \in State
BY DEF State, TransitionTo

(* A staged chunk owns its file and has made no provider call. *)
LEMMA StageIInv ==
  ASSUME IInv, NEW o \in Ops, Stage(o)
  PROVE  IInv'
<1> USE EngineConstants DEF IInv, job, files, Running, Ended
<1>1. TypeOK' /\ StateInCall'
  BY DEF TypeOK, StateInCall, Stage, Kinds, Results, State, CanRetry
<1>2. AttemptsCounted'
  BY DEF AttemptsCounted, StateInCall, TypeOK, Stage, CanRetry
<1>3. RetryBound'
  BY DEF AttemptsCounted, RetryBound, MaxAttempts, TypeOK, Stage, CanRetry
<1>4. OkFinished' /\ OkMeansStored'
  BY DEF OkFinished, OkMeansStored, TypeOK, Stage
<1>5. StagingReleased' /\ StagedOnly'
  BY DEF StagingReleased, StagedOnly, TypeOK, Stage
<1> QED  BY <1>1, <1>2, <1>3, <1>4, <1>5

(* A staged chunk that is given up drops its file. *)
LEMMA DiscardIInv ==
  ASSUME IInv, NEW o \in Ops, Discard(o)
  PROVE  IInv'
<1> USE EngineConstants DEF IInv, job, files, Running, Ended
<1>1. TypeOK' /\ StateInCall'
  BY DEF TypeOK, StateInCall, Discard, Drop, Kinds, Results, State, CanRetry
<1>2. AttemptsCounted'
  BY DEF AttemptsCounted, StateInCall, TypeOK, Discard, Drop, CanRetry
<1>3. RetryBound'
  BY DEF AttemptsCounted, RetryBound, MaxAttempts, TypeOK, Discard, Drop, CanRetry
<1>4. OkFinished' /\ OkMeansStored'
  BY DEF OkFinished, OkMeansStored, TypeOK, Discard, Drop
<1>5. StagingReleased' /\ StagedOnly'
  BY DEF StagingReleased, StagedOnly, TypeOK, Discard, Drop
<1> QED  BY <1>1, <1>2, <1>3, <1>4, <1>5

(* A new call has made no provider call; its file was staged before. *)
LEMMA BeginIInv ==
  ASSUME IInv, NEW o \in Ops, Begin(o)
  PROVE  IInv'
<1> USE EngineConstants DEF IInv, job, files, Running, Ended
<1>1. TypeOK' /\ StateInCall'
  BY DEF TypeOK, StateInCall, Begin, Kinds, Results, State, CanRetry
<1>2. AttemptsCounted'
  BY DEF AttemptsCounted, StateInCall, TypeOK, Begin, CanRetry
<1>3. RetryBound'
  BY DEF AttemptsCounted, RetryBound, MaxAttempts, TypeOK, Begin, CanRetry
<1>4. OkFinished' /\ OkMeansStored'
  BY DEF OkFinished, OkMeansStored, TypeOK, Begin
<1>5. StagingReleased' /\ StagedOnly'
  BY DEF StagingReleased, StagedOnly, TypeOK, Begin
<1> QED  BY <1>1, <1>2, <1>3, <1>4, <1>5

(* cancel() only sets the token. *)
LEMMA CancelIInv ==
  ASSUME IInv, NEW o \in Ops, Cancel(o)
  PROVE  IInv'
<1> USE EngineConstants DEF IInv, job, files, Running, Ended
<1>1. TypeOK' /\ StateInCall'
  BY DEF TypeOK, StateInCall, Cancel, Kinds, Results, State, CanRetry
<1>2. AttemptsCounted'
  BY DEF AttemptsCounted, StateInCall, TypeOK, Cancel, CanRetry
<1>3. RetryBound'
  BY DEF AttemptsCounted, RetryBound, MaxAttempts, TypeOK, Cancel, CanRetry
<1>4. OkFinished' /\ OkMeansStored'
  BY DEF OkFinished, OkMeansStored, TypeOK, Cancel
<1>5. StagingReleased' /\ StagedOnly'
  BY DEF StagingReleased, StagedOnly, TypeOK, Cancel
<1> QED  BY <1>1, <1>2, <1>3, <1>4, <1>5

(* The top of the staged loop returns or goes on with the job as it is. *)
LEMMA LoopTopIInv ==
  ASSUME IInv, NEW o \in Ops, LoopTop(o)
  PROVE  IInv'
<1> USE EngineConstants DEF IInv, job, files, Running, Ended
<1>1. TypeOK' /\ StateInCall'
  BY DEF TypeOK, StateInCall, LoopTop, Return, Drop, Kinds, Results, State, CanRetry
<1>2. AttemptsCounted'
  BY DEF AttemptsCounted, StateInCall, TypeOK, LoopTop, Return, Drop, CanRetry
<1>3. RetryBound'
  BY DEF AttemptsCounted, RetryBound, MaxAttempts, TypeOK, LoopTop, Return, Drop, CanRetry
<1>4. OkFinished' /\ OkMeansStored'
  BY DEF OkFinished, OkMeansStored, TypeOK, LoopTop, Return, Drop
<1>5. StagingReleased' /\ StagedOnly'
  BY DEF StagingReleased, StagedOnly, TypeOK, LoopTop, Return, Drop
<1> QED  BY <1>1, <1>2, <1>3, <1>4, <1>5

(* A worker starts one more provider call only when a retry is left. *)
LEMMA StartIInv ==
  ASSUME IInv, NEW o \in Ops, Start(o)
  PROVE  IInv'
<1> USE EngineConstants DEF IInv, job, files, Running, Ended
<1>1. TypeOK' /\ StateInCall'
  <2>1. TypeOK'
    BY StatesStay DEF TypeOK, StateInCall, Start, Done, Results
  <2>2. StateInCall'
    BY DEF TypeOK, StateInCall, Start, Done
  <2> QED  BY <2>1, <2>2
<1>2. AttemptsCounted'
  BY DEF AttemptsCounted, StateInCall, TypeOK, Start, Done, CanTransitionTo,
         TransitionTo, CanRetry
<1>3. RetryBound'
  BY DEF AttemptsCounted, RetryBound, MaxAttempts, TypeOK, Start, Done,
         CanTransitionTo, TransitionTo, CanRetry
<1>4. OkFinished' /\ OkMeansStored'
  BY DEF OkFinished, OkMeansStored, TypeOK, Start, Done, CanTransitionTo, TransitionTo
<1>5. StagingReleased' /\ StagedOnly'
  BY DEF StagingReleased, StagedOnly, TypeOK, Start, Done, CanTransitionTo, TransitionTo
<1> QED  BY <1>1, <1>2, <1>3, <1>4, <1>5

(* A cancelled read ends the attempt; any other only consumes a buffer. *)
LEMMA ReadPieceIInv ==
  ASSUME IInv, NEW o \in Ops, ReadPiece(o)
  PROVE  IInv'
<1> USE EngineConstants DEF IInv, job, files, Running, Ended
<1>1. TypeOK' /\ StateInCall'
  <2>1. TypeOK'
    BY StatesStay DEF TypeOK, StateInCall, ReadPiece, Fail, Done, Results
  <2>2. StateInCall'
    BY DEF TypeOK, StateInCall, ReadPiece, Fail, Done
  <2> QED  BY <2>1, <2>2
<1>2. AttemptsCounted'
  BY DEF AttemptsCounted, StateInCall, TypeOK, ReadPiece, Fail, Done,
         CanTransitionTo, TransitionTo, CanRetry
<1>3. RetryBound'
  BY DEF AttemptsCounted, RetryBound, MaxAttempts, TypeOK, ReadPiece, Fail, Done,
         CanTransitionTo, TransitionTo, CanRetry
<1>4. OkFinished' /\ OkMeansStored'
  BY DEF OkFinished, OkMeansStored, TypeOK, ReadPiece, Fail, Done, CanTransitionTo,
         TransitionTo
<1>5. StagingReleased' /\ StagedOnly'
  BY DEF StagingReleased, StagedOnly, TypeOK, ReadPiece, Fail, Done, CanTransitionTo, TransitionTo
<1> QED  BY <1>1, <1>2, <1>3, <1>4, <1>5

(* A failed upload is counted and ends the attempt; a stored object bears    *)
(* the number of its attempt.                                                *)
LEMMA UploadReplyIInv ==
  ASSUME IInv, NEW o \in Ops, UploadReply(o)
  PROVE  IInv'
<1> USE EngineConstants DEF IInv, job, files, Running, Ended
<1>1. TypeOK' /\ StateInCall'
  <2>1. TypeOK'
    BY StatesStay DEF TypeOK, StateInCall, UploadReply, Fail, Done, Results
  <2>2. StateInCall'
    BY DEF TypeOK, StateInCall, UploadReply, Fail, Done
  <2> QED  BY <2>1, <2>2
<1>2. AttemptsCounted'
  BY DEF AttemptsCounted, StateInCall, TypeOK, UploadReply, Fail, Done,
         CanTransitionTo, TransitionTo, CanRetry
<1>3. RetryBound'
  BY DEF AttemptsCounted, RetryBound, MaxAttempts, TypeOK, UploadReply, Fail, Done,
         CanTransitionTo, TransitionTo, CanRetry
<1>4. OkFinished' /\ OkMeansStored'
  BY DEF OkFinished, OkMeansStored, TypeOK, UploadReply, Fail, Done,
         CanTransitionTo, TransitionTo
<1>5. StagingReleased' /\ StagedOnly'
  BY DEF StagingReleased, StagedOnly, TypeOK, UploadReply, Fail, Done, CanTransitionTo, TransitionTo
<1> QED  BY <1>1, <1>2, <1>3, <1>4, <1>5

(* The check before verification keeps the count. *)
LEMMA CheckReplyIInv ==
  ASSUME IInv, NEW o \in Ops, CheckReply(o)
  PROVE  IInv'
<1> USE EngineConstants DEF IInv, job, files, Running, Ended
<1>1. TypeOK' /\ StateInCall'
  <2>1. TypeOK'
    BY StatesStay DEF TypeOK, StateInCall, CheckReply, Done, Results
  <2>2. StateInCall'
    BY DEF TypeOK, StateInCall, CheckReply, Done
  <2> QED  BY <2>1, <2>2
<1>2. AttemptsCounted'
  BY DEF AttemptsCounted, StateInCall, TypeOK, CheckReply, Done, CanTransitionTo,
         TransitionTo, CanRetry
<1>3. RetryBound'
  BY DEF AttemptsCounted, RetryBound, MaxAttempts, TypeOK, CheckReply, Done,
         CanTransitionTo, TransitionTo, CanRetry
<1>4. OkFinished' /\ OkMeansStored'
  BY DEF OkFinished, OkMeansStored, TypeOK, CheckReply, Done, CanTransitionTo,
         TransitionTo
<1>5. StagingReleased' /\ StagedOnly'
  BY DEF StagingReleased, StagedOnly, TypeOK, CheckReply, Done, CanTransitionTo, TransitionTo
<1> QED  BY <1>1, <1>2, <1>3, <1>4, <1>5

(* Verification completes a job only for a stored object. *)
LEMMA VerifyIInv ==
  ASSUME IInv, NEW o \in Ops, Verify(o)
  PROVE  IInv'
<1> USE EngineConstants DEF IInv, job, files, Running, Ended
<1>1. TypeOK' /\ StateInCall'
  BY DEF TypeOK, StateInCall, Verify, Done, Kinds, Results, State, CanRetry
<1>2. AttemptsCounted'
  BY DEF AttemptsCounted, StateInCall, TypeOK, Verify, Done, CanRetry
<1>3. RetryBound'
  BY DEF AttemptsCounted, RetryBound, MaxAttempts, TypeOK, Verify, Done, CanRetry
<1>4. OkFinished' /\ OkMeansStored'
  BY DEF OkFinished, OkMeansStored, TypeOK, Verify, Done
<1>5. StagingReleased' /\ StagedOnly'
  BY DEF StagingReleased, StagedOnly, TypeOK, Verify, Done
<1> QED  BY <1>1, <1>2, <1>3, <1>4, <1>5

(* A download attempt fails or receives a buffer. *)
LEMMA ReceivePieceIInv ==
  ASSUME IInv, NEW o \in Ops, ReceivePiece(o)
  PROVE  IInv'
<1> USE EngineConstants DEF IInv, job, files, Running, Ended
<1>1. TypeOK' /\ StateInCall'
  <2>1. TypeOK'
    BY StatesStay DEF TypeOK, StateInCall, ReceivePiece, Fail, Done, Results
  <2>2. StateInCall'
    BY DEF TypeOK, StateInCall, ReceivePiece, Fail, Done
  <2> QED  BY <2>1, <2>2
<1>2. AttemptsCounted'
  BY DEF AttemptsCounted, StateInCall, TypeOK, ReceivePiece, Fail, Done,
         CanTransitionTo, TransitionTo, CanRetry
<1>3. RetryBound'
  BY DEF AttemptsCounted, RetryBound, MaxAttempts, TypeOK, ReceivePiece, Fail, Done,
         CanTransitionTo, TransitionTo, CanRetry
<1>4. OkFinished' /\ OkMeansStored'
  BY DEF OkFinished, OkMeansStored, TypeOK, ReceivePiece, Fail, Done,
         CanTransitionTo, TransitionTo
<1>5. StagingReleased' /\ StagedOnly'
  BY DEF StagingReleased, StagedOnly, TypeOK, ReceivePiece, Fail, Done, CanTransitionTo,
         TransitionTo
<1> QED  BY <1>1, <1>2, <1>3, <1>4, <1>5

(* Writing a buffer changes no count. *)
LEMMA WritePieceIInv ==
  ASSUME IInv, NEW o \in Ops, WritePiece(o)
  PROVE  IInv'
<1> USE EngineConstants DEF IInv, job, files, Running, Ended
<1>1. TypeOK' /\ StateInCall'
  BY DEF TypeOK, StateInCall, WritePiece, Kinds, Results, State, CanRetry
<1>2. AttemptsCounted'
  BY DEF AttemptsCounted, StateInCall, TypeOK, WritePiece, CanRetry
<1>3. RetryBound'
  BY DEF AttemptsCounted, RetryBound, MaxAttempts, TypeOK, WritePiece, CanRetry
<1>4. OkFinished' /\ OkMeansStored'
  BY DEF OkFinished, OkMeansStored, TypeOK, WritePiece
<1>5. StagingReleased' /\ StagedOnly'
  BY DEF StagingReleased, StagedOnly, TypeOK, WritePiece
<1> QED  BY <1>1, <1>2, <1>3, <1>4, <1>5

(* The end of a download completes it, fails it, or reports its cancellation. *)
LEMMA DownloadReplyIInv ==
  ASSUME IInv, NEW o \in Ops, DownloadReply(o)
  PROVE  IInv'
<1> USE EngineConstants DEF IInv, job, files, Running, Ended
<1>1. TypeOK' /\ StateInCall'
  <2>1. TypeOK'
    BY StatesStay DEF TypeOK, StateInCall, DownloadReply, Fail, Done, Results
  <2>2. StateInCall'
    BY DEF TypeOK, StateInCall, DownloadReply, Fail, Done
  <2> QED  BY <2>1, <2>2
<1>2. AttemptsCounted'
  BY DEF AttemptsCounted, StateInCall, TypeOK, DownloadReply, Fail, Done,
         CanTransitionTo, TransitionTo, CanRetry
<1>3. RetryBound'
  BY DEF AttemptsCounted, RetryBound, MaxAttempts, TypeOK, DownloadReply, Fail,
         Done, CanTransitionTo, TransitionTo, CanRetry
<1>4. OkFinished' /\ OkMeansStored'
  BY DEF OkFinished, OkMeansStored, TypeOK, DownloadReply, Fail, Done,
         CanTransitionTo, TransitionTo
<1>5. StagingReleased' /\ StagedOnly'
  BY DEF StagingReleased, StagedOnly, TypeOK, DownloadReply, Fail, Done, CanTransitionTo,
         TransitionTo
<1> QED  BY <1>1, <1>2, <1>3, <1>4, <1>5

(* finish_job publishes the job and the staged loop retries only what may be retried. *)
LEMMA FinishIInv ==
  ASSUME IInv, NEW o \in Ops, Finish(o)
  PROVE  IInv'
<1> USE EngineConstants DEF IInv, job, files, Running, Ended
<1>1. TypeOK' /\ StateInCall'
  BY DEF TypeOK, StateInCall, Finish, Return, Drop, Kinds, Results, State, CanRetry
<1>2. AttemptsCounted'
  BY DEF AttemptsCounted, StateInCall, TypeOK, Finish, Return, Drop, CanRetry
<1>3. RetryBound'
  BY DEF AttemptsCounted, RetryBound, MaxAttempts, TypeOK, Finish, Return, Drop, CanRetry
<1>4. OkFinished' /\ OkMeansStored'
  BY DEF OkFinished, OkMeansStored, StagedOnly, TypeOK, Finish, Return, Drop
<1>5. StagingReleased' /\ StagedOnly'
  BY DEF StagingReleased, StagedOnly, TypeOK, Finish, Return, Drop
<1> QED  BY <1>1, <1>2, <1>3, <1>4, <1>5

(* The end of the backoff sleep changes no count. *)
LEMMA WakeIInv ==
  ASSUME IInv, NEW o \in Ops, Wake(o)
  PROVE  IInv'
<1> USE EngineConstants DEF IInv, job, files, Running, Ended
<1>1. TypeOK' /\ StateInCall'
  BY DEF TypeOK, StateInCall, Wake, Kinds, Results, State, CanRetry
<1>2. AttemptsCounted'
  BY DEF AttemptsCounted, StateInCall, TypeOK, Wake, CanRetry
<1>3. RetryBound'
  BY DEF AttemptsCounted, RetryBound, MaxAttempts, TypeOK, Wake, CanRetry
<1>4. OkFinished' /\ OkMeansStored'
  BY DEF OkFinished, OkMeansStored, TypeOK, Wake
<1>5. StagingReleased' /\ StagedOnly'
  BY DEF StagingReleased, StagedOnly, TypeOK, Wake
<1> QED  BY <1>1, <1>2, <1>3, <1>4, <1>5

(* A crash stops every thread and empties the registry. *)
LEMMA CrashIInv ==
  ASSUME IInv, Crash
  PROVE  IInv'
<1> USE EngineConstants DEF IInv, job, files, Running, Ended
<1>1. TypeOK' /\ StateInCall'
  BY Zenon DEF TypeOK, StateInCall, Crash
<1>2. AttemptsCounted' /\ RetryBound' /\ OkFinished' /\ OkMeansStored'
  BY DEF AttemptsCounted, RetryBound, MaxAttempts, OkFinished, OkMeansStored,
         TypeOK, Crash
<1>3. StagingReleased' /\ StagedOnly'
  BY DEF StagingReleased, StagedOnly, Crash
<1> QED  BY <1>1, <1>2, <1>3

(* Startup removes staging files and touches nothing else. *)
LEMMA RestartIInv ==
  ASSUME IInv, Restart
  PROVE  IInv'
BY DEF IInv, Restart, TypeOK, StateInCall, AttemptsCounted, RetryBound, MaxAttempts,
       OkFinished, OkMeansStored, StagingReleased, StagedOnly, job

(* No call has begun. *)
LEMMA InitIInv == Init => IInv
BY EngineConstants DEF Init, IInv, TypeOK, StateInCall, AttemptsCounted, RetryBound, MaxAttempts,
   OkFinished, OkMeansStored, StagingReleased, StagedOnly, Kinds, Results, State, Running, Ended

(* The inductive invariant of the transfer engine: what the three properties *)
(* below need to know of the counters and of a worker that just ended.       *)
THEOREM EngineInvariant == Spec => []IInv
<1>1. ASSUME IInv, [Next]_vars  PROVE IInv'
  <2>1. CASE UNCHANGED vars
    BY <1>1, <2>1 DEF vars, IInv, TypeOK, StateInCall, AttemptsCounted, RetryBound, MaxAttempts,
       OkFinished, OkMeansStored, StagingReleased, StagedOnly
  <2>2. CASE \E o \in Ops : Stage(o) \/ Discard(o) \/ Begin(o) \/ Cancel(o) \/ Step(o)
    BY <1>1, <2>2, StageIInv, DiscardIInv, BeginIInv, CancelIInv, LoopTopIInv, StartIInv, ReadPieceIInv,
       UploadReplyIInv, CheckReplyIInv, VerifyIInv, ReceivePieceIInv, WritePieceIInv,
       DownloadReplyIInv, FinishIInv, WakeIInv, Zenon DEF Step
  <2>3. CASE Crash
    BY <1>1, <2>3, CrashIInv
  <2>4. CASE Restart
    BY <1>1, <2>4, RestartIInv
  <2> QED  BY <1>1, <2>1, <2>2, <2>3, <2>4, Zenon DEF Next
<1> QED  BY <1>1, InitIInv, PTL DEF Spec

(* Type correctness of the engine model. *)
THEOREM EngineTyped == Spec => []TypeOK
BY EngineInvariant, PTL DEF IInv

(* An engine call that returns Ok has a Completed job, an object the         *)
(* provider holds and no staging file left, whatever failed before.          *)
THEOREM EngineOkMeansStored == Spec => []OkMeansStored
BY EngineInvariant, PTL DEF IInv

(* No engine call makes more provider calls, or leaves more objects, than    *)
(* the retry policy allows.                                                  *)
THEOREM EngineRetryBound == Spec => []RetryBound
BY EngineInvariant, PTL DEF IInv

(* While the process runs, a staging file outlives its upload only when the  *)
(* operating system refused to remove it: error returns, cancellations and   *)
(* crashes leave none behind.                                                *)
THEOREM EngineStagingReleased == Spec => []StagingReleased
BY EngineInvariant, PTL DEF IInv
==============================================================================
