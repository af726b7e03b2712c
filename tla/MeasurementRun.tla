--------------------------- MODULE MeasurementRun ---------------------------
(***************************************************************************)
(* Measurement runs: the rows of the measurement table, the tasks in the   *)
(* Celery broker, the processes of the one worker container and the        *)
(* artifacts in object storage.  Requests and tasks do their work in steps *)
(* that interleave: a request commits and only then enqueues its task; a   *)
(* task reads the row, works for minutes, uploads, commits, and is         *)
(* acknowledged last (acks_late), so a task whose worker died is delivered *)
(* again.  At boot the worker fails the runs a dead worker left behind.    *)
(*                                                                         *)
(* The video is not modelled: the engine may fail or succeed, and a result *)
(* is identified with the light boxes it was computed from.                *)
(***************************************************************************)
EXTENDS FiniteSets, Integers

CONSTANTS
  Runs,        \* ids of measurement runs
  Boxes,       \* sets of light boxes on the first frame
  NULL,        \* no boxes, no results
  Slots,       \* processes of the worker (--concurrency)
  Clients,     \* browsers
  Idle,        \* a slot or client with nothing to do
  Unused,      \* an id that was not handed out yet
  Deleted,     \* an id whose row has been deleted
  MaxCrashes   \* bound: how often the worker container dies

Statuses == {"QUEUED", "FIRST_FRAME", "AWAITING_CONFIRM", "PROCESSING", "DONE", "ERROR"}

TRANSITIONS ==
  [QUEUED           |-> {"FIRST_FRAME", "ERROR"},
   FIRST_FRAME      |-> {"AWAITING_CONFIRM", "PROCESSING", "ERROR"},
   AWAITING_CONFIRM |-> {"PROCESSING", "ERROR"},
   PROCESSING       |-> {"DONE", "ERROR"},
   DONE             |-> {},
   ERROR            |-> {}]

(* `frame`: first_frame_object_key is set.  `results`: the boxes from      *)
(* which object_key's data and the summaries were computed, if set.        *)
Row == [status  : Statuses,
        boxes   : Boxes \cup {NULL},
        frame   : BOOLEAN,
        results : Boxes \cup {NULL}]

Task == [kind : {"first_frame", "process"}, run : Runs]

(* What a worker process is about to do: work on the video, upload, commit,*)
(* read the status to return, chain the second task, acknowledge.          *)
Job == [task  : Task,
        step  : {"work", "upload", "commit", "return", "chain", "ack"},
        boxes : Boxes \cup {NULL}]

(* A request and the row (or the artifacts' keys in it) it has loaded. *)
Request == [step : {"enqueue", "confirm", "delete", "drop"},
            task : Task,
            row  : Row]

Artifacts == [frame : BOOLEAN, results : Boxes \cup {NULL}]

RunAssumption ==
  /\ NULL \notin Boxes
  /\ Idle \notin Job \cup Request
  /\ Unused \notin Row /\ Deleted \notin Row /\ Unused # Deleted
  /\ IsFiniteSet(Slots)
  /\ MaxCrashes \in Nat

VARIABLES
  run,       \* table measurement
  object,    \* object storage, per run
  broker,    \* how often each task waits in the queue
  worker,    \* the worker container
  job,       \* what its processes do
  stale,     \* what its boot found in progress
  missed,    \* history: what the last boot found in progress and left so
  crashes,
  request    \* what each client has in flight

vars == <<run, object, broker, worker, job, stale, missed, crashes, request>>

TypeOK ==
  /\ run \in [Runs -> Row \cup {Unused, Deleted}]
  /\ object \in [Runs -> Artifacts]
  /\ broker \in [Task -> Nat]
  /\ worker \in {"down", "reaping", "up"}
  /\ job \in [Slots -> Job \cup {Idle}]
  /\ stale \subseteq Runs /\ missed \subseteq Runs
  /\ crashes \in 0..MaxCrashes
  /\ request \in [Clients -> Request \cup {Idle}]

NoArtifacts == [frame |-> FALSE, results |-> NULL]

NewRow == [status |-> "QUEUED", boxes |-> NULL, frame |-> FALSE, results |-> NULL]

Init ==
  /\ run = [r \in Runs |-> Unused]
  /\ object = [r \in Runs |-> NoArtifacts]
  /\ broker = [t \in Task |-> 0]
  /\ worker = "up"
  /\ job = [w \in Slots |-> Idle]
  /\ stale = {} /\ missed = {}
  /\ crashes = 0
  /\ request = [c \in Clients |-> Idle]

Stored(r) == run[r] \notin {Unused, Deleted}

FirstFrameTask(r) == [kind |-> "first_frame", run |-> r]
ProcessTask(r)    == [kind |-> "process", run |-> r]

Enqueued(t) == [broker EXCEPT ![t] = @ + 1]

-----------------------------------------------------------------------------
(* Requests *)

InFlight(c, step) == request[c] # Idle /\ request[c].step = step

End(c) == request' = [request EXCEPT ![c] = Idle]

CreateMeasurement(c, r) ==
  /\ request[c] = Idle
  /\ run[r] = Unused
  /\ run' = [run EXCEPT ![r] = NewRow]
  /\ request' = [request EXCEPT ![c] = [step |-> "enqueue", task |-> FirstFrameTask(r),
                                        row |-> NewRow]]
  /\ UNCHANGED <<object, broker, worker, job, stale, missed, crashes>>

\* Mutant of LoadConfirm: boxes may be adjusted while the engine runs.
LoadConfirm_processing(c, r, b) ==
  /\ request[c] = Idle
  /\ Stored(r)
  /\ run[r].status \in {"AWAITING_CONFIRM", "PROCESSING"}
  /\ request' = [request EXCEPT ![c] = [step |-> "confirm", task |-> ProcessTask(r),
                                        row |-> [run[r] EXCEPT !.boxes = b]]]
  /\ UNCHANGED <<run, object, broker, worker, job, stale, missed, crashes>>

(* confirm_lights loads the row without a lock; `row` is its copy with the *)
(* boxes of the request.                                                   *)
LoadConfirm(c, r, b) ==
  /\ request[c] = Idle
  /\ Stored(r)
  /\ run[r].status = "AWAITING_CONFIRM"
  /\ request' = [request EXCEPT ![c] = [step |-> "confirm", task |-> ProcessTask(r),
                                        row |-> [run[r] EXCEPT !.boxes = b]]]
  /\ UNCHANGED <<run, object, broker, worker, job, stale, missed, crashes>>

(* UPDATE by primary key: it does not look at the status again. *)
CommitConfirm(c) ==
  LET r == request[c].task.run
  IN  /\ InFlight(c, "confirm")
      /\ Stored(r)
      /\ run' = [run EXCEPT ![r].status = "PROCESSING", ![r].boxes = request[c].row.boxes]
      /\ request' = [request EXCEPT ![c].step = "enqueue"]
      /\ UNCHANGED <<object, broker, worker, job, stale, missed, crashes>>

Enqueue(c) ==
  /\ InFlight(c, "enqueue")
  /\ broker' = Enqueued(request[c].task)
  /\ End(c)
  /\ UNCHANGED <<run, object, worker, job, stale, missed, crashes>>

\* Mutant of LoadDelete: the artifacts go before the row.
LoadDelete_drops(c, r) ==
  /\ request[c] = Idle
  /\ Stored(r)
  /\ object' = [object EXCEPT ![r] = NoArtifacts]
  /\ request' = [request EXCEPT ![c] = [step |-> "delete", task |-> FirstFrameTask(r),
                                        row |-> run[r]]]
  /\ UNCHANGED <<run, broker, worker, job, stale, missed, crashes>>

LoadDelete(c, r) ==
  /\ request[c] = Idle
  /\ Stored(r)
  /\ request' = [request EXCEPT ![c] = [step |-> "delete", task |-> FirstFrameTask(r),
                                        row |-> run[r]]]
  /\ UNCHANGED <<run, object, broker, worker, job, stale, missed, crashes>>

CommitDelete(c) ==
  LET r == request[c].task.run
  IN  /\ InFlight(c, "delete")
      /\ Stored(r)
      /\ run' = [run EXCEPT ![r] = Deleted]
      /\ request' = [request EXCEPT ![c].step = "drop"]
      /\ UNCHANGED <<object, broker, worker, job, stale, missed, crashes>>

(* The keys are those of the row as loaded. *)
DropArtifacts(c) ==
  LET r == request[c].task.run
      kept == request[c].row
  IN  /\ InFlight(c, "drop")
      /\ object' = [object EXCEPT ![r].frame = @ /\ ~kept.frame,
                                  ![r].results = IF kept.results = NULL THEN @ ELSE NULL]
      /\ End(c)
      /\ UNCHANGED <<run, broker, worker, job, stale, missed, crashes>>

(* The API process dies, the broker refuses, the row is gone: whatever was *)
(* committed stays, the rest does not happen.                              *)
LoseRequest(c) ==
  /\ request[c] # Idle
  /\ End(c)
  /\ UNCHANGED <<run, object, broker, worker, job, stale, missed, crashes>>

(* The mission is deleted, and its inspections and their runs with it (ON  *)
(* DELETE CASCADE).                                                        *)
CascadeDelete(r) ==
  /\ Stored(r)
  /\ run' = [run EXCEPT ![r] = Deleted]
  /\ UNCHANGED <<object, broker, worker, job, stale, missed, crashes, request>>

-----------------------------------------------------------------------------
(* Worker processes *)

AtStep(w, kind, step) ==
  job[w] # Idle /\ job[w].task.kind = kind /\ job[w].step = step

(* Process w takes task t from the queue and goes on with `step`. *)
Take(w, t, step, boxes) ==
  /\ worker = "up"
  /\ job[w] = Idle
  /\ broker[t] > 0
  /\ broker' = [broker EXCEPT ![t] = @ - 1]
  /\ job' = [job EXCEPT ![w] = [task |-> t, step |-> step, boxes |-> boxes]]
  /\ UNCHANGED <<object, worker, stale, missed, crashes, request>>

GoTo(w, step) == job' = [job EXCEPT ![w].step = step]

(* run_first_frame up to its first commit.  A task delivered again meets a *)
(* run that has moved on and returns its status at once.                   *)
StartFirstFrame(w, r) ==
  \/ /\ ~Stored(r)
     /\ Take(w, FirstFrameTask(r), "ack", NULL)
     /\ UNCHANGED run
  \/ /\ Stored(r) /\ run[r].status # "QUEUED"
     /\ Take(w, FirstFrameTask(r),
             IF run[r].status = "PROCESSING" THEN "chain" ELSE "ack", NULL)
     /\ UNCHANGED run
  \/ /\ Stored(r) /\ run[r].status = "QUEUED"
     /\ Take(w, FirstFrameTask(r), "work", NULL)
     /\ run' = [run EXCEPT ![r].status = "FIRST_FRAME"]

(* run_processing up to the engine.  It would accept a run that awaits     *)
(* confirmation; any other status is refused (409) and the task is over.   *)
StartProcessing(w, r) ==
  \/ /\ Stored(r) /\ run[r].status \in {"PROCESSING", "AWAITING_CONFIRM"}
     /\ Take(w, ProcessTask(r), "work", run[r].boxes)
     /\ run' = [run EXCEPT ![r].status = "PROCESSING"]
  \/ /\ ~(Stored(r) /\ run[r].status \in {"PROCESSING", "AWAITING_CONFIRM"})
     /\ Take(w, ProcessTask(r), "ack", NULL)
     /\ UNCHANGED run

(* Detection proposes boxes and extracts the frame; the engine computes.   *)
Work(w) ==
  /\ job[w] # Idle /\ job[w].step = "work"
  /\ \/ /\ job[w].task.kind = "first_frame"
        /\ \E b \in Boxes : job' = [job EXCEPT ![w].step = "upload", ![w].boxes = b]
     \/ /\ job[w].task.kind = "process"
        /\ GoTo(w, "upload")
  /\ UNCHANGED <<run, object, broker, worker, stale, missed, crashes, request>>

(* Artifacts are stored under keys of the run, whether or not its row is   *)
(* still there; a second job overwrites those of the first.                *)
Upload(w) ==
  LET r == job[w].task.run
  IN  /\ job[w] # Idle /\ job[w].step = "upload"
      /\ object' = IF job[w].task.kind = "first_frame"
                   THEN [object EXCEPT ![r].frame = TRUE]
                   ELSE [object EXCEPT ![r].results = job[w].boxes]
      /\ GoTo(w, "commit")
      /\ UNCHANGED <<run, broker, worker, stale, missed, crashes, request>>

(* A coherent line of four lights confirms itself. *)
FinishFirstFrame(w) ==
  LET r == job[w].task.run
  IN  /\ AtStep(w, "first_frame", "commit")
      /\ Stored(r)
      /\ \E status \in {"PROCESSING", "AWAITING_CONFIRM"} :
           run' = [run EXCEPT ![r].status = status, ![r].frame = TRUE,
                              ![r].boxes = job[w].boxes]
      /\ GoTo(w, "return")
      /\ UNCHANGED <<object, broker, worker, stale, missed, crashes, request>>

FinishProcessing(w) ==
  LET r == job[w].task.run
  IN  /\ AtStep(w, "process", "commit")
      /\ Stored(r)
      /\ run' = [run EXCEPT ![r].status = "DONE", ![r].results = job[w].boxes]
      /\ GoTo(w, "ack")
      /\ UNCHANGED <<object, broker, worker, stale, missed, crashes, request>>

\* Mutant of JobFails: the failure is rolled back and not recorded.
JobFails_silent(w) ==
  /\ job[w] # Idle /\ job[w].step \in {"work", "upload", "commit"}
  /\ GoTo(w, "ack")
  /\ UNCHANGED <<run, object, broker, worker, stale, missed, crashes, request>>

\* Mutant of JobFails: a status the check constraint does not have.
JobFails_failed(w) ==
  LET r == job[w].task.run
  IN  /\ job[w] # Idle /\ job[w].step \in {"work", "upload", "commit"}
      /\ run' = IF Stored(r) THEN [run EXCEPT ![r].status = "FAILED"] ELSE run
      /\ GoTo(w, "ack")
      /\ UNCHANGED <<object, broker, worker, stale, missed, crashes, request>>

(* _mark_failed, on a fresh read: a run that is DONE refuses to fail.      *)
JobFails(w) ==
  LET r == job[w].task.run
  IN  /\ job[w] # Idle /\ job[w].step \in {"work", "upload", "commit"}
      /\ run' = IF Stored(r) /\ run[r].status # "DONE"
                THEN [run EXCEPT ![r].status = "ERROR"] ELSE run
      /\ GoTo(w, "ack")
      /\ UNCHANGED <<object, broker, worker, stale, missed, crashes, request>>

\* Mutant of ReturnStatus: processing is chained whatever the detection said.
ReturnStatus_confident(w) ==
  /\ AtStep(w, "first_frame", "return")
  /\ GoTo(w, "chain")
  /\ UNCHANGED <<run, object, broker, worker, stale, missed, crashes, request>>

(* The commit has expired the row: the status the task returns is read     *)
(* again, and may be that of an operator who has confirmed meanwhile.      *)
ReturnStatus(w) ==
  LET r == job[w].task.run
  IN  /\ AtStep(w, "first_frame", "return")
      /\ GoTo(w, IF Stored(r) /\ run[r].status = "PROCESSING" THEN "chain" ELSE "ack")
      /\ UNCHANGED <<run, object, broker, worker, stale, missed, crashes, request>>

ChainProcessing(w) ==
  /\ AtStep(w, "first_frame", "chain")
  /\ broker' = Enqueued(ProcessTask(job[w].task.run))
  /\ GoTo(w, "ack")
  /\ UNCHANGED <<run, object, worker, stale, missed, crashes, request>>

Acknowledge(w) ==
  /\ job[w] # Idle /\ job[w].step = "ack"
  /\ job' = [job EXCEPT ![w] = Idle]
  /\ UNCHANGED <<run, object, broker, worker, stale, missed, crashes, request>>

-----------------------------------------------------------------------------
(* Crash and restart of the worker container *)

(* What was not acknowledged is delivered again. *)
WorkerCrash ==
  /\ crashes < MaxCrashes
  /\ worker' = "down"
  /\ crashes' = crashes + 1
  /\ broker' = [t \in Task |->
                  broker[t] + Cardinality({w \in Slots : job[w] # Idle /\ job[w].task = t})]
  /\ job' = [w \in Slots |-> Idle]
  /\ stale' = {}
  /\ UNCHANGED <<run, object, missed, request>>

\* Mutant of InProgress: runs are in progress only while the engine runs.
InProgress_processing(status) == status = "PROCESSING"

InProgress(status) == status \in {"FIRST_FRAME", "PROCESSING"}

(* reap_stale_runs, before the first task is taken ... *)
BootReads ==
  /\ worker = "down"
  /\ worker' = "reaping"
  /\ stale' = {r \in Runs : Stored(r) /\ InProgress(run[r].status)}
  /\ UNCHANGED <<run, object, broker, job, missed, crashes, request>>

(* ... and its one commit: it fails as a whole, and is not tried again, if *)
(* a row it has read was deleted meanwhile.                                *)
BootReaps ==
  /\ worker = "reaping"
  /\ worker' = "up"
  /\ run' = IF \A r \in stale : Stored(r)
            THEN [r \in Runs |-> IF r \in stale
                                 THEN [run[r] EXCEPT !.status = "ERROR"] ELSE run[r]]
            ELSE run
  /\ missed' = IF \A r \in stale : Stored(r) THEN {} ELSE {r \in stale : Stored(r)}
  /\ stale' = {}
  /\ UNCHANGED <<object, broker, job, crashes, request>>

-----------------------------------------------------------------------------
Client(c) ==
  \/ CommitConfirm(c) \/ Enqueue(c) \/ CommitDelete(c) \/ DropArtifacts(c) \/ LoseRequest(c)

Process(w) ==
  \/ Work(w) \/ Upload(w) \/ FinishFirstFrame(w) \/ FinishProcessing(w) \/ JobFails(w)
  \/ ReturnStatus(w) \/ ChainProcessing(w) \/ Acknowledge(w)

Next ==
  \/ \E c \in Clients, r \in Runs :
       \/ CreateMeasurement(c, r) \/ LoadDelete(c, r)
       \/ \E b \in Boxes : LoadConfirm(c, r, b)
  \/ \E c \in Clients : Client(c)
  \/ \E r \in Runs : CascadeDelete(r)
  \/ \E w \in Slots, r \in Runs : StartFirstFrame(w, r) \/ StartProcessing(w, r)
  \/ \E w \in Slots : Process(w)
  \/ WorkerCrash \/ BootReads \/ BootReaps

Spec == Init /\ [][Next]_vars

(* Requests end; the worker container is restarted (restart policy of the  *)
(* compose file); its processes take what is queued and finish it (soft    *)
(* time limit).                                                            *)
Fairness ==
  /\ \A c \in Clients : WF_vars(Client(c))
  /\ WF_vars(BootReads) /\ WF_vars(BootReaps)
  /\ \A r \in Runs : /\ WF_vars(\E w \in Slots : StartFirstFrame(w, r))
                     /\ WF_vars(\E w \in Slots : StartProcessing(w, r))
  /\ \A w \in Slots : WF_vars(Process(w))

FairSpec == Spec /\ Fairness

-----------------------------------------------------------------------------
(* Properties *)

(* A key in a row leads to an object (preview and results pages): artifacts*)
(* are uploaded before the commit that points to them and dropped after    *)
(* the commit that forgets them, whatever crashes in between.              *)
PointersResolve ==
  \A r \in Runs :
    Stored(r) => /\ run[r].frame => object[r].frame
                 /\ run[r].results # NULL => object[r].results # NULL

(* A finished run reports the boxes the operator (or the detection)        *)
(* confirmed: row, summaries and the series in object storage belong       *)
(* together, also when its task ran twice.  With one operator: two who     *)
(* confirm different boxes at the same time pass the same check.           *)
ResultsOfConfirmedBoxes ==
  \A r \in Runs :
    Stored(r) /\ run[r].status = "DONE"
      => run[r].results = run[r].boxes /\ object[r].results = run[r].boxes

(* No processing task meets a run that is not confirmed: run_processing's  *)
(* 409 and its way out of AWAITING_CONFIRM are never taken.                *)
Assigned(t) == broker[t] > 0 \/ \E w \in Slots : job[w] # Idle /\ job[w].task = t

ProcessOnlyConfirmed ==
  \A r \in Runs :
    Stored(r) /\ Assigned(ProcessTask(r))
      => run[r].status \in {"PROCESSING", "DONE", "ERROR"}

(* A run waits in FIRST_FRAME only while a process works on it or a boot   *)
(* is about to clear it; after a boot whose commit failed, also what that  *)
(* boot has missed (reap_stale_runs).                                      *)
FirstFrameOwned ==
  \A r \in Runs \ missed :
    worker = "up" /\ Stored(r) /\ run[r].status = "FIRST_FRAME"
      => \E w \in Slots : job[w] # Idle /\ job[w].task = FirstFrameTask(r)

(* A run in progress that some task is to work on, or that a dead worker   *)
(* left behind and its boot did not miss, does not stay "processing".      *)
Pending(r) ==
  /\ Stored(r) /\ InProgress(run[r].status)
  /\ \/ worker = "down"
     \/ broker[ProcessTask(r)] > 0
     \/ \E w \in Slots : job[w] # Idle /\ job[w].task.run = r /\ job[w].step # "ack"

RunResolves ==
  \A r \in Runs : Pending(r) ~> r \in missed \/ ~(Stored(r) /\ InProgress(run[r].status))

(* "on worker startup nothing is in flight, so every such run is orphaned -*)
(* fail it" (reap_stale_runs).  False with two runs: one that is deleted   *)
(* between the query and the commit keeps the others in progress.          *)
EveryOrphanFails == worker = "up" => missed = {}

(* DONE and ERROR are terminal (SPEC.md).  False when two tasks process    *)
(* the same run at once.                                                   *)
TerminalIsFinal ==
  [][\A r \in Runs :
       Stored(r) /\ run[r].status \in {"DONE", "ERROR"} /\ run'[r] # Deleted
         => run'[r].status = run[r].status]_vars
=============================================================================
