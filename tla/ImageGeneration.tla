--------------------------- MODULE ImageGeneration ---------------------------
(***************************************************************************)
(* The execution of one image job: execute_claim in                        *)
(* services/image_task_service.py, the generation in                       *)
(* services/protocol/conversation.py and the upstream calls of             *)
(* services/openai_backend_api.py.  The queue (ImageQueue) appears only as *)
(* the job's row and its fence; here the subject is which upstream         *)
(* conversations a claim starts, records and deletes.                      *)
(*                                                                         *)
(* A claim may run on after its row was reclaimed, beside the next claim.  *)
(* The job has one image, on one account.  An event names the conversation *)
(* no later than its artifacts.  Upstream answers are arbitrary.  Artifact *)
(* ids that are skipped when they are resolved are left out.               *)
(***************************************************************************)
EXTENDS Naturals

CONSTANTS
  Conversations, \* bound: upstream conversations
  NoConv,        \* no conversation id
  MaxClaims,     \* bound: claims of the job
  MaxTries       \* bound: connections of a claim that fail early

ASSUME GenerationAssumption ==
  NoConv \notin Conversations /\ MaxClaims \in Nat \ {0} /\ MaxTries \in Nat \ {0}

VARIABLES
  row,        \* image_jobs: the job
  files,      \* staged artifacts on disk and in the database
  run,        \* claim -> its execution
  upstream,   \* conversation -> none, open or deleted
  foundBySearch \* history: conversations adopted from the account's list

genVars == <<row, files, run, upstream, foundBySearch>>

ClaimIds == 1..MaxClaims
ConvOrNone == Conversations \cup {NoConv}
SavedStages == {"resolving", "downloading", "transforming", "saving"}
Some(c) == {c} \ {NoConv}

Row ==
  [status: {"queued", "active", "waiting", "done", "failed"}, owner: 0..MaxClaims,
   stage: {"queued", "leased", "generating", "failed"} \cup SavedStages,
   conv: ConvOrNone, ids: BOOLEAN, urls: BOOLEAN, paid: BOOLEAN]

Unseen == [conv |-> NoConv, ids |-> FALSE, failure |-> "none"]

LiveSteps == {"open", "resolve", "fetch", "again", "refetch", "connect", "stream",
              "events", "recover", "result", "format", "upscale",
              "store", "persist", "commit"}
Steps == LiveSteps \cup {"new", "raised", "settle", "ended"}

NewRun ==
  [at |-> "new", job |-> [stage |-> "queued", conv |-> NoConv, ids |-> FALSE, urls |-> FALSE],
   managed |-> {}, checkpointed |-> {}, committed |-> FALSE, restored |-> FALSE,
   current |-> NoConv, seen |-> Unseen, emitted |-> FALSE, regular |-> FALSE,
   viaFallback |-> FALSE, tries |-> 0, submitted |-> 0]

GenerationInit ==
  /\ row = [status |-> "queued", owner |-> 0, stage |-> "queued", conv |-> NoConv,
            ids |-> FALSE, urls |-> FALSE, paid |-> FALSE]
  /\ files = {}
  /\ run = [k \in ClaimIds |-> NewRun]
  /\ upstream = [c \in Conversations |-> "none"]
  /\ foundBySearch = {}

GenerationTypeOK ==
  /\ row \in Row
  /\ files \in SUBSET {"downloaded", "upscaled", "final"}
  /\ \A k \in ClaimIds :
       /\ run[k].at \in Steps
       /\ run[k].managed \in SUBSET Conversations
       /\ run[k].checkpointed \in SUBSET Conversations
       /\ run[k].seen.conv \in ConvOrNone
       /\ run[k].tries \in 0..MaxTries
       /\ run[k].submitted \in 0..(MaxTries + 1)
  /\ upstream \in [Conversations -> {"none", "open", "deleted"}]
  /\ foundBySearch \in SUBSET Conversations

Go(k, step) == run' = [run EXCEPT ![k].at = step]
End(k) == run' = [run EXCEPT ![k] = [NewRun EXCEPT !.at = "ended"]]
Fenced(k) == row.status = "active" /\ row.owner = k

\* What a claim still knows once its stream is over.
StreamLeft(k) ==
  [run[k] EXCEPT !.current = NoConv, !.seen = [Unseen EXCEPT !.conv = run[k].seen.conv],
                 !.emitted = FALSE, !.regular = FALSE, !.tries = 0, !.submitted = 0]

\* An exception reaches the handler of execute_claim; the conversation it
\* names, and the one the stream saw, join the managed ones.
Raise(k) ==
  run' = [run EXCEPT ![k] = [StreamLeft(k) EXCEPT
            !.at = "raised", !.managed = @ \cup Some(run[k].seen.conv)]]

-----------------------------------------------------------------------------
(* The row: claimed, reclaimed, settled by the worker *)

StartClaim(k) ==
  /\ run[k].at = "new"
  /\ \A i \in 1..(k - 1) : run[i].at # "new"
  /\ row.status \in {"queued", "waiting"}
  /\ row' = [row EXCEPT !.status = "active", !.owner = k,
                        !.stage = IF @ = "queued" THEN "leased" ELSE @]
  /\ run' = [run EXCEPT
       ![k].at = "open", ![k].committed = row.paid,
       ![k].job = [stage |-> row'.stage, conv |-> row.conv, ids |-> row.ids,
                   urls |-> row.urls],
       ![k].managed = Some(row.conv)]
  /\ UNCHANGED <<files, upstream, foundBySearch>>

ReclaimedStage ==
  IF row.stage = "saving" THEN "saving"
  ELSE IF row.urls THEN "downloading"
  ELSE IF row.conv # NoConv THEN "resolving" ELSE "generating"

\* The lease expires or the worker dies; the thread may not know.
LoseLease ==
  /\ row.status = "active" /\ row.owner < MaxClaims
  /\ row' = [row EXCEPT !.status = "queued", !.stage = ReclaimedStage]
  /\ \/ UNCHANGED run
     \/ End(row.owner)
  /\ UNCHANGED <<files, upstream, foundBySearch>>

\* schedule_retry, which forgets the conversation when the account has to
\* change, release_claim, or fail_job; nothing if the fence is lost.
SettleClaim(k) ==
  /\ run[k].at = "settle"
  /\ End(k)
  /\ \/ Fenced(k) /\ \E switch \in BOOLEAN :
          row' = [row EXCEPT !.status = "waiting",
                             !.conv = IF switch THEN NoConv ELSE @,
                             !.ids = ~switch /\ @]
     \/ Fenced(k) /\ row' = [row EXCEPT !.status = "queued", !.stage = ReclaimedStage]
     \/ Fenced(k) /\ row' = [row EXCEPT !.status = "failed", !.stage = "failed"]
     \/ ~Fenced(k) /\ UNCHANGED row
  /\ UNCHANGED <<files, upstream, foundBySearch>>

-----------------------------------------------------------------------------
(* checkpoint and ensure_active *)

\* checkpoint_job with the claim's fence; ids and urls only accumulate, and a
\* conversation is kept when the checkpoint has none.
Checkpointed(stage, c, ids, urls) ==
  [row EXCEPT !.stage = stage,
              !.conv = IF c = NoConv THEN @ ELSE c,
              !.ids = @ \/ ids, !.urls = @ \/ urls, !.paid = @ \/ urls]

\* Mutant: the conversation of a checkpoint is not remembered as recorded.
CheckpointUnremembered(k, stage, c, ids, urls, next) ==
  IF Fenced(k)
  THEN /\ row' = Checkpointed(stage, c, ids, urls)
       /\ run' = [run EXCEPT ![k] = [next EXCEPT !.managed = @ \cup Some(c)]]
  ELSE UNCHANGED row /\ Raise(k)

\* The checkpoint of execute_claim: tracked first, then recorded.
Checkpoint(k, stage, c, ids, urls, next) ==
  IF Fenced(k)
  THEN /\ row' = Checkpointed(stage, c, ids, urls)
       /\ run' = [run EXCEPT ![k] = [next EXCEPT !.managed = @ \cup Some(c),
                                                 !.checkpointed = @ \cup Some(c)]]
  ELSE /\ UNCHANGED row
       /\ run' = [run EXCEPT ![k] = [StreamLeft(k) EXCEPT
                   !.at = "raised", !.managed = @ \cup Some(c)]]

\* ensure_active: a cancel or the deadline ends the claim until its result
\* is being committed.  Between events the seen conversation is not named.
Interrupt(k) ==
  /\ run[k].at \in LiveSteps /\ ~run[k].committed
  /\ run' = [run EXCEPT ![k] = [StreamLeft(k) EXCEPT !.at = "raised"]]
  /\ UNCHANGED <<row, files, upstream, foundBySearch>>

-----------------------------------------------------------------------------
(* execute_claim: what an earlier claim left *)

Completed(k) == [row EXCEPT !.status = "done"]

\* cleanup_conversations, best effort, of every managed conversation.
Deleted(cs) == [c \in Conversations |-> IF c \in cs THEN "deleted" ELSE upstream[c]]

\* A claim at saving finds the final file and only has to complete.
RecoverFinal(k) ==
  /\ run[k].at = "open"
  /\ run[k].job.stage = "saving" /\ "final" \in files
  /\ IF Fenced(k)
     THEN row' = Completed(k) /\ End(k) /\ upstream' = Deleted(run[k].managed)
     ELSE UNCHANGED <<row, upstream>> /\ Raise(k)
  /\ UNCHANGED <<files, foundBySearch>>

\* The upscaled file is recorded and the claim goes on from there.
RecoverUpscaled(k) ==
  /\ run[k].at = "open"
  /\ ~(run[k].job.stage = "saving" /\ "final" \in files)
  /\ "upscaled" \in files
  /\ Checkpoint(k, "saving", run[k].job.conv, run[k].job.ids, run[k].job.urls,
                [run[k] EXCEPT !.at = "persist", !.restored = TRUE])
  /\ UNCHANGED <<files, upstream, foundBySearch>>

Nothing(k) ==
  /\ run[k].at = "open"
  /\ ~(run[k].job.stage = "saving" /\ "final" \in files)
  /\ "upscaled" \notin files

RecoverDownloaded(k) ==
  /\ Nothing(k) /\ "downloaded" \in files
  /\ IF Fenced(k)
     THEN run' = [run EXCEPT ![k].at = "format", ![k].restored = TRUE,
                             ![k].seen.conv = run[k].job.conv]
     ELSE Raise(k)
  /\ UNCHANGED <<row, files, upstream, foundBySearch>>

\* Which branch the remote checkpoint selects.
ResumeAt(k) ==
  IF run[k].job.urls THEN "fetch"
  ELSE IF run[k].job.conv # NoConv THEN "resolve" ELSE "connect"

StageOf(step) ==
  CASE step = "fetch" -> "downloading" [] step = "resolve" -> "resolving"
    [] OTHER -> "generating"

Resume(k) ==
  /\ Nothing(k) /\ "downloaded" \notin files
  /\ LET step == ResumeAt(k) resumed == step # "connect" IN
     Checkpoint(k, StageOf(step), IF resumed THEN run[k].job.conv ELSE NoConv,
                resumed /\ run[k].job.ids, step = "fetch",
                [run[k] EXCEPT !.at = step,
                               !.seen.conv = IF resumed THEN run[k].job.conv ELSE NoConv])
  /\ UNCHANGED <<files, upstream, foundBySearch>>

-----------------------------------------------------------------------------
(* Resolving and downloading *)

\* _poll_image_results, the task list: only an authentication error ends the
\* poll, and then artifacts already known are the result.
TaskProbe(ids) == {"next", IF ids THEN "found" ELSE "failed"}

\* The conversation itself: a lasting transport error ends the poll, and so
\* does a terminal failure while there are no artifacts.
ConversationProbe(ids) == {"found", "failed"} \cup (IF ids THEN {} ELSE {"next"})

\* The whole poll.  resolve_conversation_image_urls goes on with artifacts it
\* already had when the poll fails or runs out of time.
PollAnswers(ids) ==
  {IF ids THEN "found" ELSE answer :
     answer \in ((TaskProbe(ids) \cup ConversationProbe(ids)) \ {"next"}) \cup {"timeout"}}

\* _resolve_image_urls: one url suffices; otherwise the gravest error is raised.
UrlAnswers == {"url", "error"}

\* resolve_conversation_image_urls
MayResolve(ids) == "found" \in PollAnswers(ids) /\ "url" \in UrlAnswers
MayNotResolve(ids) == PollAnswers(ids) # {"found"} \/ "error" \in UrlAnswers

\* resolve_checkpoint and the checkpoint behind it.
ResolveCheckpoint(k) ==
  /\ run[k].at \in {"resolve", "again"}
  /\ \/ /\ MayResolve(run[k].job.ids)
        /\ Checkpoint(k, "downloading", run[k].job.conv, TRUE, TRUE,
             [run[k] EXCEPT !.at = IF @ = "again" THEN "refetch" ELSE "format"])
     \/ /\ MayResolve(run[k].job.ids)
        /\ Checkpoint(k, "downloading", run[k].job.conv, TRUE, TRUE,
             [run[k] EXCEPT !.at = "raised"])  \* the download fails
     \/ MayNotResolve(run[k].job.ids) /\ Raise(k) /\ UNCHANGED row
  /\ UNCHANGED <<files, upstream, foundBySearch>>

\* Recorded urls are downloaded; they may have gone stale, and then the
\* conversation is resolved again, once.
FetchUrls(k) ==
  /\ run[k].at \in {"fetch", "refetch"}
  /\ \/ Go(k, "format")
     \/ run[k].at = "fetch" /\ run[k].job.conv # NoConv /\ Go(k, "again")
     \/ (run[k].at = "refetch" \/ run[k].job.conv = NoConv) /\ Raise(k)
  /\ UNCHANGED <<row, files, upstream, foundBySearch>>

-----------------------------------------------------------------------------
(* _generate_single_image and stream_image_outputs *)

\* Each turn of the loop with the token of the claim forgets that a fallback
\* was pending or used, then builds a client.
Connect(k) ==
  /\ run[k].at = "connect"
  /\ run[k].tries < MaxTries
  /\ run' = [run EXCEPT ![k].at = "stream", ![k].tries = @ + 1,
       ![k].viaFallback = FALSE, ![k].regular = FALSE, ![k].emitted = FALSE]
  /\ UNCHANGED <<row, files, upstream, foundBySearch>>

\* An early connection failure with a fallback proxy configured: again.
EarlyRetry(k) ==
  /\ run[k].at \in {"stream", "events"}
  /\ ~run[k].emitted /\ run[k].tries < MaxTries
  /\ Go(k, "connect")
  /\ UNCHANGED <<row, files, upstream, foundBySearch>>

\* Uploads, bootstrap, requirements and prepare fail before a conversation
\* exists, or the failure has no fallback.
StreamFails(k) ==
  /\ run[k].at = "stream"
  /\ Raise(k)
  /\ UNCHANGED <<row, files, upstream, foundBySearch>>

\* The request that starts the generation creates a conversation.  New ids
\* are alike: CHOOSE takes one of those left.
Submit(k) ==
  /\ run[k].at = "stream"
  /\ \E c \in Conversations : upstream[c] = "none"
  /\ LET c == CHOOSE free \in Conversations : upstream[free] = "none" IN
       /\ upstream' = [upstream EXCEPT ![c] = "open"]
       /\ run' = [run EXCEPT ![k].at = "events", ![k].submitted = @ + 1,
                             ![k].current = c, ![k].seen = Unseen]
  /\ UNCHANGED <<row, files, foundBySearch>>

\* update_conversation_state: artifacts clear a failure, a failure is not
\* taken back otherwise.
Updated(seen, c, ids, failure) ==
  [conv |-> IF c = NoConv THEN seen.conv ELSE c,
   ids |-> seen.ids \/ ids,
   failure |-> IF seen.ids \/ ids THEN "none"
               ELSE IF failure = "none" THEN seen.failure ELSE failure]

\* An event of the stream; what it adds to the remote checkpoint is recorded.
StreamEvent(k) ==
  /\ run[k].at = "events"
  /\ \E named, ids \in BOOLEAN, failure \in {"none", "mode", "text", "fatal"} :
       LET next == Updated(run[k].seen, IF named THEN run[k].current ELSE NoConv,
                           ids, failure)
           on == [run[k] EXCEPT !.seen = next, !.emitted = TRUE] IN
       /\ ids => next.conv # NoConv
       /\ next # run[k].seen \/ ~run[k].emitted
       /\ IF <<next.conv, next.ids>> = <<run[k].seen.conv, run[k].seen.ids>>
          THEN run' = [run EXCEPT ![k] = on] /\ UNCHANGED row
          ELSE Checkpoint(k, "resolving", next.conv, next.ids, FALSE, on)
  /\ UNCHANGED <<files, upstream, foundBySearch>>

\* _should_retry_conversation_mode
ModeBlocked(k) == run[k].seen.failure = "mode" /\ ~run[k].seen.ids /\ ~run[k].regular

\* However the stream ended, a blocked mode is left for a regular chat, once.
RetryMode(k) ==
  /\ run[k].at \in {"events", "result"} /\ ModeBlocked(k)
  /\ run' = [run EXCEPT ![k].at = "stream", ![k].regular = TRUE, ![k].seen = Unseen]
  /\ UNCHANGED <<row, files, upstream, foundBySearch>>

StreamEnds(k) ==
  /\ run[k].at = "events" /\ ~ModeBlocked(k)
  /\ Go(k, "result")
  /\ UNCHANGED <<row, files, upstream, foundBySearch>>

\* A timeout is always followed up, an interruption once the stream has
\* named its conversation.
StreamBreaks(k) ==
  /\ run[k].at = "events" /\ ~ModeBlocked(k)
  /\ \/ Go(k, "recover")
     \/ run[k].seen.conv = NoConv /\ Raise(k)
  /\ UNCHANGED <<row, files, upstream, foundBySearch>>

\* _recover_image_conversation_id: the account's recent conversations are
\* matched by the words of the prompt; any conversation of the job matches.
SearchConversation(k) ==
  /\ run[k].at \in {"recover", "result"} /\ run[k].seen.conv = NoConv
  /\ \/ \E c \in Conversations :
          /\ upstream[c] = "open"
          /\ run' = [run EXCEPT ![k].seen.conv = c]
          /\ foundBySearch' = foundBySearch \cup ({c} \ {run[k].current})
     \/ Raise(k) /\ UNCHANGED foundBySearch
  /\ UNCHANGED <<row, files, upstream>>

\* The checkpoint with the urls, and the download behind it.
Deliver(k) ==
  \E next \in {"format", "raised"} :
    Checkpoint(k, "downloading", run[k].seen.conv, FALSE, TRUE,
      [StreamLeft(k) EXCEPT !.at = next])

\* _recover_after_image_stream_timeout: the conversation is probed once for
\* artifacts.
ProbeConversation(k) ==
  /\ run[k].at = "recover" /\ run[k].seen.conv # NoConv /\ ~run[k].seen.ids
  /\ \/ run' = [run EXCEPT ![k].seen.ids = TRUE]
     \/ Raise(k)
  /\ UNCHANGED <<row, files, upstream, foundBySearch>>

\* Its artifacts are resolved without polling.
FollowUp(k) ==
  /\ run[k].at = "recover" /\ run[k].seen.conv # NoConv /\ run[k].seen.ids
  /\ \/ "url" \in UrlAnswers /\ Deliver(k)
     \/ "error" \in UrlAnswers /\ Raise(k) /\ UNCHANGED row
  /\ UNCHANGED <<files, upstream, foundBySearch>>

\* The text of a reply turns out to be a blocked mode in the task list.
TaskDiagnostics(k) ==
  /\ run[k].at = "result" /\ run[k].seen.failure = "text" /\ run[k].seen.conv # NoConv
  /\ run' = [run EXCEPT ![k].seen.failure = "mode"]
  /\ UNCHANGED <<row, files, upstream, foundBySearch>>

\* The end of the stream: without artifacts, a failure, the arguments of a tool
\* call or a plain text are an error.
RejectResult(k) ==
  /\ run[k].at = "result" /\ ~ModeBlocked(k)
  /\ run[k].seen.conv # NoConv /\ ~run[k].seen.ids
  /\ Raise(k)
  /\ UNCHANGED <<row, files, upstream, foundBySearch>>

\* Everything else is polled and resolved.
ResolveResult(k) ==
  /\ run[k].at = "result" /\ ~ModeBlocked(k) /\ run[k].seen.conv # NoConv
  /\ run[k].seen.failure = "none"
  /\ \/ MayResolve(run[k].seen.ids) /\ Deliver(k)
     \/ MayNotResolve(run[k].seen.ids) /\ Raise(k) /\ UNCHANGED row
  /\ UNCHANGED <<files, upstream, foundBySearch>>

-----------------------------------------------------------------------------
(* format_result and the commit *)

\* The image is there: its quota is spent, and a cancel comes too late.
FormatResult(k) ==
  /\ run[k].at = "format"
  /\ IF Fenced(k)
     THEN /\ row' = [row EXCEPT !.paid = TRUE]
          /\ run' = [run EXCEPT
               ![k].at = IF "downloaded" \in files THEN "upscale" ELSE "store",
               ![k].committed = TRUE, ![k].managed = @ \cup Some(run[k].seen.conv)]
     ELSE UNCHANGED row /\ Raise(k)
  /\ UNCHANGED <<files, upstream, foundBySearch>>

\* record_stage and the next checkpoint; a file is kept once it is recorded.
StoreStage(k, at, kind, stage, next) ==
  /\ run[k].at = at
  /\ \/ /\ Fenced(k)
        /\ files' = files \cup {kind}
        /\ Checkpoint(k, stage, run[k].seen.conv, FALSE, FALSE,
                      [run[k] EXCEPT !.at = next])
     \/ UNCHANGED <<row, files>> /\ Raise(k)
  /\ UNCHANGED <<upstream, foundBySearch>>

StoreDownloaded(k) == StoreStage(k, "store", "downloaded", "transforming", "upscale")
StoreUpscaled(k) == StoreStage(k, "upscale", "upscaled", "saving", "persist")

\* persist_final, in the claim's hands until it completes.
PersistGenerated(k) ==
  /\ run[k].at = "persist"
  /\ \/ files' = files \cup {"final"} /\ Go(k, "commit")
     \/ Raise(k) /\ UNCHANGED files
  /\ UNCHANGED <<row, upstream, foundBySearch>>

\* A second image raises; otherwise complete_job, and the conversations go.
CommitResult(k) ==
  /\ run[k].at = "commit"
  /\ \/ /\ Fenced(k)
        /\ row' = Completed(k)
        /\ upstream' = Deleted(run[k].managed)
        /\ End(k)
     \/ Raise(k) /\ UNCHANGED <<row, upstream>>
  /\ UNCHANGED <<files, foundBySearch>>

-----------------------------------------------------------------------------
(* The handler of execute_claim *)

\* What cleanup_failed_conversations keeps: what this claim recorded, and the
\* conversation it was given to resume.
Preserved(k) ==
  run[k].checkpointed \cup
    (IF run[k].job.urls \/ run[k].job.ids \/ run[k].job.stage \in SavedStages
     THEN Some(run[k].job.conv) ELSE {})

\* An uncommitted final file is discarded while the row is still the claim's.
HandleError(k) ==
  /\ run[k].at = "raised"
  /\ upstream' = Deleted(run[k].managed \ Preserved(k))
  /\ files' = IF Fenced(k) THEN files \ {"final"} ELSE files
  /\ run' = [run EXCEPT ![k] = [NewRun EXCEPT !.at = "settle"]]
  /\ UNCHANGED <<row, foundBySearch>>

ExecutionStep(k) ==
  \/ RecoverFinal(k) \/ RecoverUpscaled(k) \/ RecoverDownloaded(k) \/ Resume(k)
  \/ ResolveCheckpoint(k) \/ FetchUrls(k)
  \/ Connect(k) \/ EarlyRetry(k) \/ StreamFails(k) \/ Submit(k)
  \/ StreamEvent(k) \/ RetryMode(k) \/ StreamEnds(k) \/ StreamBreaks(k)
  \/ SearchConversation(k) \/ ProbeConversation(k) \/ FollowUp(k)
  \/ TaskDiagnostics(k) \/ RejectResult(k) \/ ResolveResult(k)
  \/ FormatResult(k) \/ StoreDownloaded(k) \/ StoreUpscaled(k) \/ PersistGenerated(k)
  \/ CommitResult(k) \/ HandleError(k) \/ Interrupt(k)

GenerationNext ==
  \/ \E k \in ClaimIds : StartClaim(k) \/ ExecutionStep(k) \/ SettleClaim(k)
  \/ LoseLease

GenerationSpec == GenerationInit /\ [][GenerationNext]_genVars

-----------------------------------------------------------------------------
(* Properties *)

\* The conversation an unfinished job could resume from is never deleted by
\* the clean-up of a failed claim, of this claim or of one that lost the row
\* long ago; only a conversation that another claim adopted from the
\* account's list can be (cleanup_failed_conversations).
ResumableConversationKept ==
  row.status # "done" /\ row.conv \notin foundBySearch \cup {NoConv}
    => upstream[row.conv] = "open"

\* A claim starts at most one conversation more than it makes connections,
\* for the second mode, and none when it has something to resume from
\* (stream_image_outputs, execute_claim).
SubmissionsBounded ==
  \A k \in ClaimIds :
    /\ run[k].submitted <= run[k].tries + (IF run[k].regular THEN 1 ELSE 0)
    /\ run[k].restored \/ run[k].job.conv # NoConv \/ run[k].job.urls
         => run[k].submitted = 0

\* What a claim may still resume from is kept and not paid for again.
ConversationsAreKept == ResumableConversationKept /\ SubmissionsBounded
=============================================================================
