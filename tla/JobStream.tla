------------------------------ MODULE JobStream ------------------------------
(***************************************************************************)
(* GET /sync-jobs/{id}/stream of api/v1/sync_jobs.py: the streams of one   *)
(* job, the run that writes its row and publishes its progress             *)
(* (sources/progress.py), and the Redis channels between them.             *)
(***************************************************************************)
EXTENDS Naturals, Sequences

CONSTANTS Streams,   \* browsers that watch the job
          MaxEvents  \* Bound: events published

ASSUME StreamAssumption == MaxEvents \in Nat

VARIABLES job,        \* status of the row, "none" before it is inserted
          finished,   \* completed_at is set
          published,  \* events published so far
          at,         \* where each stream is
          channels,   \* the channels its pubsub is subscribed to
          inbox,      \* messages its pubsub holds
          told        \* the status in its terminal event, "none" before

streamVars == <<job, finished, published, at, channels, inbox, told>>

Terminal == {"completed", "failed"}        \* what the endpoint takes for final
Final == Terminal \cup {"partial"}         \* what a run ends with
ProgressChannel == "kg:sync:{id}:progress"
StreamChannel == "kg:sync:progress:{id}"
At == {"new", "snapshot", "waiting", "polling", "closed"}

StreamInit ==
  /\ job = "none" /\ finished = FALSE /\ published = 0
  /\ at = [s \in Streams |-> "new"]
  /\ channels = [s \in Streams |-> {}]
  /\ inbox = [s \in Streams |-> <<>>]
  /\ told = [s \in Streams |-> "none"]
------------------------------------------------------------------------------
\* The run: the row, an event per document, and the status at the end, which
\* is "queued" again after a rate limit.
CreateJob ==
  /\ job = "none" /\ job' = "queued"
  /\ UNCHANGED <<finished, published, at, channels, inbox, told>>

PublishEvent ==
  /\ job # "none" /\ ~finished /\ published < MaxEvents
  /\ published' = published + 1
  /\ inbox' = [s \in Streams |-> IF ProgressChannel \in channels[s]
                                 THEN Append(inbox[s], "progress") ELSE inbox[s]]
  /\ UNCHANGED <<job, finished, at, channels, told>>

\* Plausible slip: a retried task goes on with the row of its first run.
FinishAgain ==
  /\ job # "none"
  /\ job' \in Final \cup {"queued"} /\ finished' = TRUE
  /\ UNCHANGED <<published, at, channels, inbox, told>>

FinishJob ==
  /\ job # "none" /\ ~finished
  /\ job' \in Final \cup {"queued"} /\ finished' = TRUE
  /\ UNCHANGED <<published, at, channels, inbox, told>>
------------------------------------------------------------------------------
Close(s) ==
  /\ at' = [at EXCEPT ![s] = "closed"]
  /\ channels' = [channels EXCEPT ![s] = {}]

\* The snapshot, or an error event when there is no such job.
Open(s) ==
  /\ at[s] = "new"
  /\ IF job \in Terminal \cup {"none"}
     THEN Close(s) /\ told' = [told EXCEPT ![s] = job]
     ELSE at' = [at EXCEPT ![s] = "snapshot"] /\ UNCHANGED <<channels, told>>
  /\ UNCHANGED <<job, finished, published, inbox>>

Subscribe(s) ==
  /\ at[s] = "snapshot"
  /\ at' = [at EXCEPT ![s] = "waiting"]
  /\ channels' = [channels EXCEPT ![s] = {StreamChannel}]
  /\ UNCHANGED <<job, finished, published, inbox, told>>

\* get_message: the next message, forwarded, or nothing within a second.
GetMessage(s) ==
  /\ at[s] = "waiting"
  /\ at' = [at EXCEPT ![s] = "polling"]
  /\ inbox' = [inbox EXCEPT ![s] = IF @ = <<>> THEN @ ELSE Tail(@)]
  /\ UNCHANGED <<job, finished, published, channels, told>>

\* Plausible slip: the end is awaited on the channel only.
LoopOn(s) ==
  /\ at[s] = "polling"
  /\ at' = [at EXCEPT ![s] = "waiting"]
  /\ UNCHANGED <<job, finished, published, channels, inbox, told>>

\* The row, read after each message or second.
CheckRow(s) ==
  /\ at[s] = "polling"
  /\ IF job \in Terminal
     THEN Close(s) /\ told' = [told EXCEPT ![s] = job]
     ELSE at' = [at EXCEPT ![s] = "waiting"] /\ UNCHANGED <<channels, told>>
  /\ UNCHANGED <<job, finished, published, inbox>>

\* The browser goes away.
Disconnect(s) ==
  /\ at[s] \in {"snapshot", "waiting", "polling"}
  /\ Close(s)
  /\ UNCHANGED <<job, finished, published, inbox, told>>

StreamSteps(s) == Subscribe(s) \/ GetMessage(s) \/ CheckRow(s)

StreamNext ==
  \/ CreateJob \/ PublishEvent \/ FinishJob
  \/ \E s \in Streams : Open(s) \/ StreamSteps(s) \/ Disconnect(s)

\* The event loop runs a generator whose browser still reads; runs,
\* browsers and publishers owe nothing.
StreamFairness == \A s \in Streams : WF_streamVars(StreamSteps(s))
------------------------------------------------------------------------------
StreamTypeOK ==
  /\ job \in Final \cup {"none", "queued"} /\ finished \in BOOLEAN
  /\ published \in 0..MaxEvents
  /\ at \in [Streams -> At]
  /\ channels \in [Streams -> SUBSET {ProgressChannel, StreamChannel}]
  /\ inbox \in [Streams -> Seq({"progress"})]
  /\ told \in [Streams -> Terminal \cup {"none"}]

\* A stream told that the job is completed or failed was told what the row
\* says for good, and it has left Redis when it is closed
\* (sync_jobs.py:208-214, 241-259).
ToldTheTruth ==
  \A s \in Streams : /\ told[s] # "none" => told[s] = job
                     /\ at[s] = "closed" => channels[s] = {}

\* Although the events are published on a channel the stream does not listen
\* to, the stream of a job that completes or fails ends, by the row it reads
\* each second (sync_jobs.py:241-257).  That of a partial job does not.
StreamEnds ==
  \A s \in Streams :
    (at[s] # "new" /\ job \in Terminal) ~> at[s] = "closed"
==============================================================================
