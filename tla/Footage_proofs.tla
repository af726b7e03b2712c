--------------------------- MODULE Footage_proofs ---------------------------
(***************************************************************************)
(* Theorems about measuring footage, for every number of runs, worker      *)
(* processes and operators.                                                *)
(***************************************************************************)
EXTENDS Footage, FiniteSetTheorems, TLAPS

-----------------------------------------------------------------------------
(* Measurement runs *)

\* The module of the runs counts as this one does.
LEMMA ProcessesCounted ==
  /\ \A S : Measurement!Cardinality(S) = Cardinality(S)
  /\ \A S : Measurement!IsFiniteSet(S) <=> IsFiniteSet(S)
<1>1. \A S : Measurement!Cardinality(S) = Cardinality(S)
  BY DEF Measurement!Cardinality, Cardinality
<1>2. \A S : Measurement!IsFiniteSet(S) <=> IsFiniteSet(S)
  BY DEF Measurement!IsFiniteSet, IsFiniteSet
<1> QED BY <1>1, <1>2

-----------------------------------------------------------------------------
(* The invariant *)

Confirmed == {"PROCESSING", "DONE", "ERROR"}

Working == {"work", "upload", "commit"}

(* There is a row. *)
Live(m) == m \notin {Unused, Deleted}

(* Row m of a run and its artifacts o. *)
RowOK(m, o) ==
  /\ m.status \in {"AWAITING_CONFIRM", "PROCESSING"} => m.boxes \in Boxes
  /\ m.frame => o.frame
  /\ m.results # NULL => o.results # NULL

(* What job j knows of itself ... *)
BoxesOK(j) ==
  /\ j.task.kind = "first_frame" /\ j.step \in {"upload", "commit"} => j.boxes \in Boxes
  /\ j.task.kind = "process" /\ j.step \in Working => j.boxes \in Boxes

(* ... and of the run it works on: while it detects, nobody else moves the *)
(* run on; what it is about to commit has been uploaded; what it chains is *)
(* confirmed.                                                              *)
JobOK(j, m, o) ==
  /\ j.task.kind = "first_frame" =>
       /\ j.step \in Working => m.status = "FIRST_FRAME"
       /\ j.step = "commit" => o.frame
       /\ j.step = "chain" => m.status \in Confirmed
  /\ j.task.kind = "process" =>
       /\ m.status \in Confirmed
       /\ j.step = "commit" => o.results # NULL

(* What request q has loaded ... *)
ConfirmOK(q) == q.step = "confirm" => q.task.kind = "process" /\ q.row.boxes \in Boxes

(* ... and of row m of its run: artifacts are dropped only once the row is *)
(* gone, and a confirmation is never early.                                *)
RequestOK(q, m) ==
  /\ q.step # "drop"
  /\ q.step = "confirm" => m.status \notin {"QUEUED", "FIRST_FRAME"}
  /\ q.step = "enqueue" /\ q.task.kind = "process" => m.status \in Confirmed

Detects(w, r) ==
  job[w] # Idle /\ job[w].task = Measurement!FirstFrameTask(r) /\ job[w].step \in Working

Rows == \A r \in Runs : Live(run[r]) => RowOK(run[r], object[r])

Jobs ==
  \A w \in Slots : job[w] # Idle =>
    /\ BoxesOK(job[w])
    /\ run[job[w].task.run] # Unused
    /\ Live(run[job[w].task.run]) => JobOK(job[w], run[job[w].task.run], object[job[w].task.run])

Requests ==
  \A c \in Clients : request[c] # Idle =>
    /\ ConfirmOK(request[c])
    /\ run[request[c].task.run] # Unused
    /\ Live(run[request[c].task.run]) => RequestOK(request[c], run[request[c].task.run])

(* An id that was not handed out has no tasks; what is to be processed is  *)
(* confirmed.                                                              *)
Queue ==
  \A t \in Measurement!Task : broker[t] > 0 =>
    /\ run[t.run] # Unused
    /\ t.kind = "process" /\ Live(run[t.run]) => run[t.run].status \in Confirmed

OneDetects == \A r \in Runs : \A v, w \in Slots : Detects(v, r) /\ Detects(w, r) => v = w

(* Nothing runs while the container is down, and a boot finds every run    *)
(* that waits for a detection nobody does any more.                        *)
Boot ==
  /\ worker # "up" => \A w \in Slots : job[w] = Idle
  /\ worker = "reaping" =>
       \A r \in Runs : Live(run[r]) /\ run[r].status = "FIRST_FRAME" => r \in stale

Owned ==
  worker = "up" =>
    \A r \in Runs \ missed :
      Live(run[r]) /\ run[r].status = "FIRST_FRAME" => \E w \in Slots : Detects(w, r)

RunInv ==
  /\ Measurement!TypeOK
  /\ Rows /\ Jobs /\ Requests /\ Queue /\ OneDetects /\ Boot /\ Owned

-----------------------------------------------------------------------------
(* Types *)

LEMMA TaskTypes ==
  /\ \A r \in Runs : Measurement!FirstFrameTask(r) \in Measurement!Task
       /\ Measurement!ProcessTask(r) \in Measurement!Task
  /\ \A r, q \in Runs :
       /\ Measurement!FirstFrameTask(r) = Measurement!FirstFrameTask(q) => r = q
       /\ Measurement!ProcessTask(r) = Measurement!ProcessTask(q) => r = q
       /\ Measurement!FirstFrameTask(r) # Measurement!ProcessTask(q)
BY DEF Measurement!Task, Measurement!FirstFrameTask, Measurement!ProcessTask

LEMMA InitTyped == ASSUME Measurement!RunAssumption, Measurement!Init PROVE Measurement!TypeOK
BY DEF Measurement!RunAssumption, Measurement!Init, Measurement!TypeOK, Measurement!Row,
   Measurement!Artifacts, Measurement!NoArtifacts, Measurement!Task

LEMMA StoredRow ==
  ASSUME Measurement!TypeOK, NEW r \in Runs, Measurement!Stored(r) PROVE run[r] \in Measurement!Row
BY DEF Measurement!TypeOK, Measurement!Stored

(* A row that is written stays a row. *)
LEMMA RowWritten ==
  ASSUME Measurement!RunAssumption, Measurement!TypeOK, NEW r \in Runs,
     NEW m \in Measurement!Row \cup {Deleted},
         run' = [run EXCEPT ![r] = m]
  PROVE  /\ run' \in [Runs -> Measurement!Row \cup {Unused, Deleted}]
         /\ run'[r] = m
         /\ \A q \in Runs \ {r} : run'[q] = run[q]
BY DEF Measurement!TypeOK

(* A crash gives every task back to the queue, and only those. *)
LEMMA Redelivered ==
  ASSUME Measurement!RunAssumption, Measurement!TypeOK, NEW t \in Measurement!Task
  PROVE  LET held == {w \in Slots : job[w] # Idle /\ job[w].task = t}
         IN  /\ broker[t] + Cardinality(held) \in Nat
             /\ broker[t] + Cardinality(held) > 0 => broker[t] > 0 \/ held # {}
<1> DEFINE held == {w \in Slots : job[w] # Idle /\ job[w].task = t}
<1>1. IsFiniteSet(held)
  BY FS_Subset, ProcessesCounted DEF Measurement!RunAssumption
<1>2. Cardinality(held) \in Nat
  BY <1>1, FS_CardinalityType
<1>3. held = {} => Cardinality(held) = 0
  BY FS_EmptySet
<1>4. broker[t] \in Nat
  BY DEF Measurement!TypeOK
<1> HIDE DEF held
<1> QED BY <1>2, <1>3, <1>4 DEF held

LEMMA RequestTyped ==
  ASSUME Measurement!RunAssumption, Measurement!TypeOK, NEW c \in Clients,
     Measurement!Client(c) PROVE Measurement!TypeOK'
<1>1. CASE Measurement!CommitConfirm(c)
  <2> DEFINE r == request[c].task.run
  <2>1. request[c] \in Measurement!Request /\ r \in Runs /\ run[r] \in Measurement!Row
    BY <1>1 DEF Measurement!CommitConfirm, Measurement!InFlight, Measurement!Stored,
       Measurement!TypeOK, Measurement!Request, Measurement!Task
  <2>2. [run[r] EXCEPT !.status = "PROCESSING", !.boxes = request[c].row.boxes] \in Measurement!Row
    BY <2>1 DEF Measurement!Request, Measurement!Row, Measurement!Statuses
  <2>3. run' \in [Runs -> Measurement!Row \cup {Unused, Deleted}]
    BY <1>1, <2>1, <2>2 DEF Measurement!CommitConfirm, Measurement!TypeOK
  <2>4. [request[c] EXCEPT !.step = "enqueue"] \in Measurement!Request
    BY <2>1 DEF Measurement!Request
  <2> QED BY <1>1, <2>3, <2>4 DEF Measurement!CommitConfirm, Measurement!TypeOK
<1>2. CASE Measurement!Enqueue(c)
  <2>1. request[c].task \in Measurement!Task
    BY <1>2 DEF Measurement!Enqueue, Measurement!InFlight, Measurement!TypeOK, Measurement!Request
  <2> QED BY <1>2, <2>1 DEF Measurement!Enqueue, Measurement!Enqueued, Measurement!End,
        Measurement!TypeOK
<1>3. CASE Measurement!CommitDelete(c)
  <2>0. request[c] \in Measurement!Request
    BY <1>3 DEF Measurement!CommitDelete, Measurement!InFlight, Measurement!TypeOK
  <2>1. [request[c] EXCEPT !.step = "drop"] \in Measurement!Request
    BY <2>0 DEF Measurement!Request
  <2>2. run' \in [Runs -> Measurement!Row \cup {Unused, Deleted}]
    BY <1>3 DEF Measurement!CommitDelete, Measurement!TypeOK
  <2>3. request' \in [Clients -> Measurement!Request \cup {Idle}]
    BY <1>3, <2>1 DEF Measurement!CommitDelete, Measurement!TypeOK
  <2> QED BY <1>3, <2>2, <2>3 DEF Measurement!CommitDelete, Measurement!TypeOK
<1>4. CASE Measurement!DropArtifacts(c)
  <2> DEFINE r == request[c].task.run
  <2>1. request[c] \in Measurement!Request /\ r \in Runs /\ object[r] \in Measurement!Artifacts
    BY <1>4 DEF Measurement!DropArtifacts, Measurement!InFlight, Measurement!TypeOK,
       Measurement!Request, Measurement!Task
  <2>2. object' \in [Runs -> Measurement!Artifacts]
    BY <1>4, <2>1 DEF Measurement!DropArtifacts, Measurement!TypeOK, Measurement!Artifacts
  <2> QED BY <1>4, <2>2 DEF Measurement!DropArtifacts, Measurement!End, Measurement!TypeOK
<1>5. CASE Measurement!LoseRequest(c)
  BY <1>5 DEF Measurement!LoseRequest, Measurement!End, Measurement!TypeOK
<1> QED BY <1>1, <1>2, <1>3, <1>4, <1>5 DEF Measurement!Client

LEMMA ProcessTyped ==
  ASSUME Measurement!RunAssumption, Measurement!TypeOK, NEW w \in Slots,
     Measurement!Process(w) PROVE Measurement!TypeOK'
<1>1. CASE Measurement!Work(w)
  BY <1>1 DEF Measurement!Work, Measurement!GoTo, Measurement!TypeOK, Measurement!Job
<1>2. CASE Measurement!Upload(w)
  BY <1>2 DEF Measurement!Upload, Measurement!GoTo, Measurement!TypeOK, Measurement!Job,
     Measurement!Artifacts, Measurement!Task
<1>3. CASE Measurement!FinishFirstFrame(w)
  BY <1>3 DEF Measurement!FinishFirstFrame, Measurement!AtStep, Measurement!GoTo,
     Measurement!Stored, Measurement!TypeOK, Measurement!Job, Measurement!Row,
       Measurement!Statuses, Measurement!Task
<1>4. CASE Measurement!FinishProcessing(w)
  BY <1>4 DEF Measurement!FinishProcessing, Measurement!AtStep, Measurement!GoTo,
     Measurement!Stored, Measurement!TypeOK, Measurement!Job, Measurement!Row,
       Measurement!Statuses, Measurement!Task
<1>5. CASE Measurement!JobFails(w)
  BY <1>5 DEF Measurement!JobFails, Measurement!GoTo, Measurement!Stored, Measurement!TypeOK,
     Measurement!Job, Measurement!Row, Measurement!Statuses, Measurement!Task
<1>6. CASE Measurement!ReturnStatus(w)
  BY <1>6 DEF Measurement!ReturnStatus, Measurement!AtStep, Measurement!GoTo, Measurement!TypeOK,
     Measurement!Job
<1>7. CASE Measurement!ChainProcessing(w)
  <2>1. job[w] \in Measurement!Job /\ Measurement!ProcessTask(job[w].task.run) \in Measurement!Task
    BY <1>7, TaskTypes DEF Measurement!ChainProcessing, Measurement!AtStep, Measurement!TypeOK,
       Measurement!Job, Measurement!Task
  <2> QED BY <1>7, <2>1 DEF Measurement!ChainProcessing, Measurement!GoTo, Measurement!Enqueued,
        Measurement!TypeOK, Measurement!Job
<1>8. CASE Measurement!Acknowledge(w)
  BY <1>8 DEF Measurement!Acknowledge, Measurement!TypeOK
<1> QED BY <1>1, <1>2, <1>3, <1>4, <1>5, <1>6, <1>7, <1>8 DEF Measurement!Process

LEMMA NextTyped == ASSUME Measurement!RunAssumption, Measurement!TypeOK, Measurement!Next
  PROVE Measurement!TypeOK'
<1>1. ASSUME NEW c \in Clients, NEW r \in Runs, Measurement!CreateMeasurement(c, r)
        PROVE Measurement!TypeOK'
  <2>1. Measurement!NewRow \in Measurement!Row /\ Measurement!FirstFrameTask(r) \in Measurement!Task
    BY TaskTypes DEF Measurement!NewRow, Measurement!Row, Measurement!Statuses
  <2> QED BY <1>1, <2>1 DEF Measurement!CreateMeasurement, Measurement!TypeOK, Measurement!Request
<1>2. ASSUME NEW c \in Clients, NEW r \in Runs, Measurement!LoadDelete(c, r)
        PROVE Measurement!TypeOK'
  BY <1>2, TaskTypes, StoredRow DEF Measurement!LoadDelete, Measurement!TypeOK, Measurement!Request
<1>3. ASSUME NEW c \in Clients, NEW r \in Runs, NEW b \in Boxes, Measurement!LoadConfirm(c, r, b)
      PROVE  Measurement!TypeOK'
  <2>1. [run[r] EXCEPT !.boxes = b] \in Measurement!Row
          /\ Measurement!ProcessTask(r) \in Measurement!Task
    BY <1>3, TaskTypes, StoredRow DEF Measurement!LoadConfirm, Measurement!Row
  <2> QED BY <1>3, <2>1 DEF Measurement!LoadConfirm, Measurement!TypeOK, Measurement!Request
<1>4. ASSUME NEW c \in Clients, Measurement!Client(c) PROVE Measurement!TypeOK'
  BY <1>4, RequestTyped
<1>5. ASSUME NEW r \in Runs, Measurement!CascadeDelete(r) PROVE Measurement!TypeOK'
  BY <1>5 DEF Measurement!CascadeDelete, Measurement!TypeOK
<1>6. ASSUME NEW w \in Slots, NEW r \in Runs, Measurement!StartFirstFrame(w, r)
        PROVE Measurement!TypeOK'
  <2>1. Measurement!FirstFrameTask(r) \in Measurement!Task
    BY TaskTypes
  <2>2. run' \in [Runs -> Measurement!Row \cup {Unused, Deleted}]
    <3>1. CASE UNCHANGED run
      BY <3>1 DEF Measurement!TypeOK
    <3>2. CASE Measurement!Stored(r) /\ run' = [run EXCEPT ![r].status = "FIRST_FRAME"]
      BY <3>2, StoredRow DEF Measurement!TypeOK, Measurement!Row, Measurement!Statuses
    <3> QED BY <1>6, <3>1, <3>2 DEF Measurement!StartFirstFrame
  <2>3. ASSUME NEW step \in {"work", "chain", "ack"}, Measurement!Take(w,
          Measurement!FirstFrameTask(r), step, NULL)
        PROVE  Measurement!TypeOK'
    <3>1. [task |-> Measurement!FirstFrameTask(r), step |-> step,
            boxes |-> NULL] \in Measurement!Job
      BY <2>1 DEF Measurement!Job
    <3> QED BY <2>1, <2>2, <2>3, <3>1 DEF Measurement!Take, Measurement!TypeOK
  <2> QED BY <1>6, <2>3 DEF Measurement!StartFirstFrame
<1>7. ASSUME NEW w \in Slots, NEW r \in Runs, Measurement!StartProcessing(w, r)
        PROVE Measurement!TypeOK'
  <2>1. Measurement!ProcessTask(r) \in Measurement!Task
    BY TaskTypes
  <2>2. run' \in [Runs -> Measurement!Row \cup {Unused, Deleted}]
    <3>1. CASE UNCHANGED run
      BY <3>1 DEF Measurement!TypeOK
    <3>2. CASE Measurement!Stored(r) /\ run' = [run EXCEPT ![r].status = "PROCESSING"]
      BY <3>2, StoredRow DEF Measurement!TypeOK, Measurement!Row, Measurement!Statuses
    <3> QED BY <1>7, <3>1, <3>2 DEF Measurement!StartProcessing
  <2>3. ASSUME NEW step \in {"work", "ack"}, NEW b \in Boxes \cup {NULL},
               Measurement!Take(w, Measurement!ProcessTask(r), step, b)
        PROVE  Measurement!TypeOK'
    <3>1. [task |-> Measurement!ProcessTask(r), step |-> step, boxes |-> b] \in Measurement!Job
      BY <2>1 DEF Measurement!Job
    <3> QED BY <2>1, <2>2, <2>3, <3>1 DEF Measurement!Take, Measurement!TypeOK
  <2>4. Measurement!Stored(r) => run[r].boxes \in Boxes \cup {NULL}
    BY StoredRow DEF Measurement!Row
  <2> QED BY <1>7, <2>3, <2>4 DEF Measurement!StartProcessing
<1>8. ASSUME NEW w \in Slots, Measurement!Process(w) PROVE Measurement!TypeOK'
  BY <1>8, ProcessTyped
<1>9. CASE Measurement!WorkerCrash
  <2>1. broker' \in [Measurement!Task -> Nat]
    BY <1>9, Redelivered, ProcessesCounted DEF Measurement!WorkerCrash
  <2>2. crashes' \in 0..MaxCrashes
    BY <1>9 DEF Measurement!WorkerCrash, Measurement!TypeOK, Measurement!RunAssumption
  <2> QED BY <1>9, <2>1, <2>2 DEF Measurement!WorkerCrash, Measurement!TypeOK
<1>10. CASE Measurement!BootReads
  BY <1>10 DEF Measurement!BootReads, Measurement!TypeOK
<1>11. CASE Measurement!BootReaps
  <2>1. run' \in [Runs -> Measurement!Row \cup {Unused, Deleted}]
    BY <1>11, StoredRow DEF Measurement!BootReaps, Measurement!TypeOK, Measurement!Row,
       Measurement!Statuses
  <2>2. missed' \subseteq Runs
    BY <1>11 DEF Measurement!BootReaps, Measurement!TypeOK
  <2> QED BY <1>11, <2>1, <2>2 DEF Measurement!BootReaps, Measurement!TypeOK
<1> QED BY <1>1, <1>2, <1>3, <1>4, <1>5, <1>6, <1>7, <1>8, <1>9, <1>10, <1>11 DEF Measurement!Next

-----------------------------------------------------------------------------
(* The initial states *)

LEMMA InitKeeps == ASSUME Measurement!RunAssumption, Measurement!Init PROVE RunInv
<1>1. Measurement!TypeOK
  BY InitTyped
<1>2. \A r \in Runs : ~Live(run[r])
  BY DEF Measurement!Init, Live
<1>3. \A t \in Measurement!Task : ~(broker[t] > 0)
  BY DEF Measurement!Init
<1> QED
  BY <1>1, <1>2, <1>3 DEF RunInv, Rows, Jobs, Requests, Queue, OneDetects, Detects, Boot, Owned,
     Measurement!Init

-----------------------------------------------------------------------------
(* What a step of one actor leaves to the others *)

(* Row m becomes n: it goes, or its status moves on. *)
Advances(m, n) ==
  \/ n = m
  \/ n = Deleted
  \/ /\ {m, n} \cap {Unused, Deleted} = {}
     /\ m.status \in Confirmed => n.status \in Confirmed
     /\ m.status \notin {"QUEUED", "FIRST_FRAME"} => n.status \notin {"QUEUED", "FIRST_FRAME"}

Grows(o, p) == (o.frame => p.frame) /\ (o.results # NULL => p.results # NULL)

AllAdvance == \A q \in Runs : Advances(run[q], run'[q])

StoreGrows == \A q \in Runs : Live(run'[q]) => Grows(object[q], object'[q])

LEMMA AdvancedRuns ==
  ASSUME Measurement!RunAssumption, AllAdvance, NEW q \in Runs
  PROVE  /\ Live(run'[q]) => Live(run[q])
         /\ run'[q] = Unused => run[q] = Unused
         /\ Live(run'[q]) /\ run[q].status \in Confirmed => run'[q].status \in Confirmed
         /\ Live(run'[q]) /\ run[q].status \notin {"QUEUED", "FIRST_FRAME"}
              => run'[q].status \notin {"QUEUED", "FIRST_FRAME"}
BY DEF Measurement!RunAssumption, AllAdvance, Advances, Live

LEMMA RequestsKept ==
  ASSUME Measurement!RunAssumption, RunInv, AllAdvance,
         \A d \in Clients : request'[d] # Idle /\ request'[d] # request[d] =>
           /\ ConfirmOK(request'[d])
           /\ run'[request'[d].task.run] # Unused
           /\ Live(run'[request'[d].task.run]) =>
                RequestOK(request'[d], run'[request'[d].task.run])
  PROVE  Requests'
<1> SUFFICES ASSUME NEW d \in Clients, request[d] # Idle, request'[d] = request[d]
             PROVE  /\ ConfirmOK(request[d])
                    /\ run'[request[d].task.run] # Unused
                    /\ Live(run'[request[d].task.run]) =>
                         RequestOK(request[d], run'[request[d].task.run])
  BY DEF Requests
<1>1. request[d].task.run \in Runs
  BY DEF RunInv, Measurement!TypeOK, Measurement!Request, Measurement!Task
<1> QED BY <1>1, AdvancedRuns DEF RunInv, Requests, RequestOK

(* No detection is overtaken, and what changed is sound. *)
LEMMA JobsKept ==
  ASSUME Measurement!RunAssumption, RunInv, AllAdvance, StoreGrows,
         \A v \in Slots : job'[v] # Idle =>
           \/ /\ job'[v] = job[v]
              /\ \A q \in Runs : Detects(v, q) /\ Live(run'[q]) => run'[q].status = "FIRST_FRAME"
           \/ /\ BoxesOK(job'[v])
              /\ run'[job'[v].task.run] # Unused
              /\ Live(run'[job'[v].task.run]) =>
                   JobOK(job'[v], run'[job'[v].task.run], object'[job'[v].task.run])
  PROVE  Jobs'
<1> SUFFICES ASSUME NEW v \in Slots, job[v] # Idle, job'[v] = job[v],
                    \A q \in Runs : Detects(v, q) /\ Live(run'[q]) => run'[q].status = "FIRST_FRAME"
             PROVE  /\ BoxesOK(job[v])
                    /\ run'[job[v].task.run] # Unused
                    /\ Live(run'[job[v].task.run]) =>
                         JobOK(job[v], run'[job[v].task.run], object'[job[v].task.run])
  BY DEF Jobs
<1>1. job[v].task \in Measurement!Task /\ job[v].task.run \in Runs
  BY DEF RunInv, Measurement!TypeOK, Measurement!Job, Measurement!Task
<1>2. job[v].task.kind = "first_frame" => job[v].task = Measurement!FirstFrameTask(job[v].task.run)
  BY <1>1 DEF Measurement!Task, Measurement!FirstFrameTask
<1>3. BoxesOK(job[v]) /\ run'[job[v].task.run] # Unused
  BY <1>1, AdvancedRuns DEF RunInv, Jobs
<1>4. ASSUME Live(run'[job[v].task.run])
      PROVE  JobOK(job[v], run'[job[v].task.run], object'[job[v].task.run])
  <2>1. JobOK(job[v], run[job[v].task.run], object[job[v].task.run])
    BY <1>1, <1>4, AdvancedRuns DEF RunInv, Jobs
  <2>2. Grows(object[job[v].task.run], object'[job[v].task.run])
    BY <1>1, <1>4 DEF StoreGrows
  <2>3. job[v].task.kind = "first_frame" /\ job[v].step \in Working
          => run'[job[v].task.run].status = "FIRST_FRAME"
    BY <1>1, <1>2, <1>4 DEF Detects
  <2>4. run[job[v].task.run].status \in Confirmed => run'[job[v].task.run].status \in Confirmed
    BY <1>1, <1>4, AdvancedRuns
  <2> QED BY <2>1, <2>2, <2>3, <2>4 DEF JobOK, Grows
<1> QED BY <1>3, <1>4

LEMMA QueueKept ==
  ASSUME Measurement!RunAssumption, RunInv, AllAdvance,
         \A t \in Measurement!Task : broker'[t] > 0 =>
           \/ broker[t] > 0
           \/ /\ run'[t.run] # Unused
              /\ t.kind = "process" /\ Live(run'[t.run]) => run'[t.run].status \in Confirmed
  PROVE  Queue'
<1> SUFFICES ASSUME NEW t \in Measurement!Task, broker[t] > 0
             PROVE  /\ run'[t.run] # Unused
                    /\ t.kind = "process" /\ Live(run'[t.run]) => run'[t.run].status \in Confirmed
  BY DEF Queue
<1>1. t.run \in Runs
  BY DEF Measurement!Task
<1> QED BY <1>1, AdvancedRuns DEF RunInv, Queue

LEMMA RowsKept ==
  ASSUME Measurement!RunAssumption, RunInv, AllAdvance, StoreGrows,
         \A q \in Runs : Live(run'[q]) => run'[q] = run[q] \/ RowOK(run'[q], object'[q])
  PROVE  Rows'
<1> SUFFICES ASSUME NEW q \in Runs, Live(run'[q]), run'[q] = run[q]
             PROVE  RowOK(run[q], object'[q])
  BY DEF Rows
<1>1. Grows(object[q], object'[q])
  BY DEF StoreGrows
<1>2. RowOK(run[q], object[q])
  BY AdvancedRuns DEF RunInv, Rows
<1> QED BY <1>1, <1>2 DEF RowOK, Grows

(* A step of a request that moves no run into or out of its detection. *)
LEMMA RequestStep ==
  ASSUME Measurement!RunAssumption, RunInv, Measurement!TypeOK', Rows', Requests', Queue',
     AllAdvance, StoreGrows,
         \A q \in Runs : Live(run'[q]) => run'[q].status = run[q].status \/
                                       "FIRST_FRAME" \notin {run[q].status, run'[q].status},
         UNCHANGED <<worker, job, stale, missed>>
  PROVE  RunInv'
<1>1. Jobs'
  <2>1. ASSUME NEW v \in Slots, NEW q \in Runs, Detects(v, q), Live(run'[q])
        PROVE  run'[q].status = "FIRST_FRAME"
    <3>1. Live(run[q])
      BY <2>1, AdvancedRuns
    <3>2. run[q].status = "FIRST_FRAME"
      BY <2>1, <3>1 DEF RunInv, Jobs, JobOK, Detects, Measurement!FirstFrameTask
    <3> QED BY <2>1, <3>2
  <2> QED BY <2>1, JobsKept
<1>2. OneDetects'
  BY DEF RunInv, OneDetects, Detects
<1>3. \A q \in Runs : Live(run'[q]) /\ run'[q].status = "FIRST_FRAME"
                         => Live(run[q]) /\ run[q].status = "FIRST_FRAME"
  BY AdvancedRuns
<1>4. Boot'
  BY <1>3 DEF RunInv, Boot
<1>5. Owned'
  BY <1>3 DEF RunInv, Owned, Detects
<1> QED BY <1>1, <1>2, <1>4, <1>5 DEF RunInv

-----------------------------------------------------------------------------
(* The requests *)

LEMMA CreateKeeps ==
  ASSUME Measurement!RunAssumption, RunInv, Measurement!TypeOK', NEW c \in Clients, NEW r \in Runs,
         Measurement!CreateMeasurement(c, r)
  PROVE  RunInv'
<1>1. /\ run' = [run EXCEPT ![r] = Measurement!NewRow] /\ run[r] = Unused
      /\ run' \in [Runs -> Measurement!Row \cup {Unused, Deleted}]
      /\ UNCHANGED <<object, broker, worker, job, stale, missed>>
  BY DEF Measurement!CreateMeasurement, Measurement!TypeOK
<1>2. \A q \in Runs \ {r} : run'[q] = run[q]
  BY <1>1 DEF RunInv, Measurement!TypeOK
<1>3. run'[r] = Measurement!NewRow
  BY <1>1 DEF RunInv, Measurement!TypeOK
<1>4. Rows'
  BY <1>1, <1>2, <1>3 DEF RunInv, Rows, RowOK, Measurement!NewRow
<1>5. Jobs'
  BY <1>1, <1>2 DEF RunInv, Measurement!TypeOK, Jobs, Measurement!Job, Measurement!Task
<1>6. Requests'
  <2> SUFFICES ASSUME NEW d \in Clients, request'[d] # Idle
               PROVE  /\ ConfirmOK(request'[d])
                      /\ run'[request'[d].task.run] # Unused
                      /\ Live(run'[request'[d].task.run]) =>
                           RequestOK(request'[d], run'[request'[d].task.run])
    BY DEF Requests
  <2>1. CASE d = c
    <3>1. request'[c] = [step |-> "enqueue", task |-> Measurement!FirstFrameTask(r),
            row |-> Measurement!NewRow]
      BY DEF Measurement!CreateMeasurement, RunInv, Measurement!TypeOK
    <3>2. Measurement!NewRow \in Measurement!Row
      BY DEF Measurement!NewRow, Measurement!Row, Measurement!Statuses
    <3> QED BY <2>1, <3>1, <3>2, <1>3 DEF ConfirmOK, RequestOK, Measurement!FirstFrameTask,
          Measurement!RunAssumption
  <2>2. CASE d # c
    <3>1. request'[d] = request[d]
      BY <2>2 DEF Measurement!CreateMeasurement, RunInv, Measurement!TypeOK
    <3>2. request[d].task.run \in Runs \ {r}
      BY <3>1, <1>1 DEF RunInv, Measurement!TypeOK, Measurement!Request, Measurement!Task, Requests
    <3> QED BY <3>1, <3>2, <1>2 DEF RunInv, Requests
  <2> QED BY <2>1, <2>2
<1>7. Queue'
  BY <1>1, <1>2 DEF RunInv, Queue, Measurement!Task
<1>8. OneDetects' /\ Boot' /\ Owned'
  BY <1>1, <1>2, <1>3 DEF RunInv, OneDetects, Boot, Owned, Detects, Measurement!NewRow
<1> QED BY <1>4, <1>5, <1>6, <1>7, <1>8 DEF RunInv

LEMMA ConfirmKeeps ==
  ASSUME Measurement!RunAssumption, RunInv, Measurement!TypeOK', NEW c \in Clients,
     Measurement!CommitConfirm(c)
  PROVE  RunInv'
<1> DEFINE r == request[c].task.run
<1> DEFINE m == [run[r] EXCEPT !.status = "PROCESSING", !.boxes = request[c].row.boxes]
<1>1. /\ request[c] \in Measurement!Request /\ request[c] # Idle /\ request[c].step = "confirm"
      /\ r \in Runs /\ run[r] \in Measurement!Row /\ Live(run[r])
  BY DEF Measurement!CommitConfirm, Measurement!InFlight, Measurement!Stored, Live, RunInv,
     Measurement!TypeOK, Measurement!Request, Measurement!Task
<1>2. /\ run[r].status \notin {"QUEUED", "FIRST_FRAME"}
      /\ request[c].row.boxes \in Boxes
      /\ request[c].task.kind = "process"
  BY <1>1 DEF RunInv, Requests, ConfirmOK, RequestOK
<1>3. /\ m \in Measurement!Row /\ m.status = "PROCESSING" /\ m.boxes \in Boxes
      /\ m.frame = run[r].frame /\ m.results = run[r].results
  BY <1>1, <1>2 DEF Measurement!Row, Measurement!Statuses
<1>4. /\ run' = [run EXCEPT ![r] = m]
      /\ request' = [request EXCEPT ![c].step = "enqueue"]
      /\ UNCHANGED <<object, broker, worker, job, stale, missed>>
  BY <1>1 DEF Measurement!CommitConfirm, RunInv, Measurement!TypeOK, Measurement!Row
<1> HIDE DEF m
<1>5. run'[r] = m /\ \A q \in Runs \ {r} : run'[q] = run[q]
  BY <1>1, <1>4 DEF RunInv, Measurement!TypeOK
<1>6. AllAdvance
  BY <1>1, <1>2, <1>3, <1>5 DEF AllAdvance, Advances, Live, Measurement!RunAssumption, Confirmed
<1>7. StoreGrows
  BY <1>4 DEF StoreGrows, Grows
<1>8. Rows'
  <2>1. RowOK(run[r], object[r])
    BY <1>1 DEF RunInv, Rows
  <2>2. RowOK(m, object[r])
    BY <2>1, <1>3 DEF RowOK
  <2> QED BY <1>4, <1>5, <1>6, <1>7, <2>2, RowsKept
<1>9. Requests'
  <2>1. /\ request'[c] = [request[c] EXCEPT !.step = "enqueue"]
        /\ \A d \in Clients \ {c} : request'[d] = request[d]
    BY <1>4 DEF RunInv, Measurement!TypeOK
  <2>2. request'[c].step = "enqueue" /\ request'[c].task.run = r
    BY <1>1, <2>1 DEF Measurement!Request
  <2>3. m # Unused
    BY <1>3 DEF Measurement!RunAssumption
  <2>4. ConfirmOK(request'[c]) /\ RequestOK(request'[c], m)
    BY <1>3, <2>2 DEF ConfirmOK, RequestOK, Confirmed
  <2> QED BY <1>5, <1>6, <2>1, <2>2, <2>3, <2>4, RequestsKept
<1>10. Queue'
  BY <1>4, <1>6, QueueKept
<1>11. \A q \in Runs : Live(run'[q]) => run'[q].status = run[q].status \/
                                        "FIRST_FRAME" \notin {run[q].status, run'[q].status}
  BY <1>2, <1>3, <1>5
<1> QED BY <1>4, <1>6, <1>7, <1>8, <1>9, <1>10, <1>11, RequestStep

(* The steps that write no run and change at most the request of client c. *)
LEMMA QuietRequestKeeps ==
  ASSUME Measurement!RunAssumption, RunInv, Measurement!TypeOK', NEW c \in Clients,
         NEW q \in Measurement!Request \cup {Idle}, request' = [request EXCEPT ![c] = q],
         q # Idle => /\ ConfirmOK(q)
                     /\ run[q.task.run] # Unused
                     /\ Live(run[q.task.run]) => RequestOK(q, run[q.task.run]),
         UNCHANGED <<run, object, broker, worker, job, stale, missed>>
  PROVE  RunInv'
<1>1. AllAdvance /\ StoreGrows
  BY DEF AllAdvance, Advances, StoreGrows, Grows
<1>2. Rows'
  BY DEF RunInv, Rows
<1>3. request'[c] = q /\ \A d \in Clients \ {c} : request'[d] = request[d]
  BY DEF RunInv, Measurement!TypeOK
<1>4. Requests'
  BY <1>1, <1>3, RequestsKept
<1>5. Queue'
  BY DEF RunInv, Queue
<1> QED BY <1>1, <1>2, <1>4, <1>5, RequestStep

LEMMA LoadKeeps ==
  ASSUME Measurement!RunAssumption, RunInv, Measurement!TypeOK', NEW c \in Clients, NEW r \in Runs,
         Measurement!LoadDelete(c, r) \/ \E b \in Boxes : Measurement!LoadConfirm(c, r, b)
  PROVE  RunInv'
<1>1. run[r] # Unused
  BY DEF Measurement!LoadDelete, Measurement!LoadConfirm, Measurement!Stored
<1>2. CASE Measurement!LoadDelete(c, r)
  <2> DEFINE q == [step |-> "delete", task |-> Measurement!FirstFrameTask(r), row |-> run[r]]
  <2>1. q \in Measurement!Request /\ q.step = "delete" /\ q.task.run = r
    BY <1>2, TaskTypes, StoredRow DEF Measurement!LoadDelete, Measurement!Request,
       Measurement!FirstFrameTask, RunInv
  <2>2. request' = [request EXCEPT ![c] = q]
    BY <1>2 DEF Measurement!LoadDelete
  <2> HIDE DEF q
  <2>3. ConfirmOK(q) /\ RequestOK(q, run[r])
    BY <2>1 DEF ConfirmOK, RequestOK
  <2> QED BY <1>1, <1>2, <2>1, <2>2, <2>3, QuietRequestKeeps DEF Measurement!LoadDelete
<1>3. ASSUME NEW b \in Boxes, Measurement!LoadConfirm(c, r, b) PROVE RunInv'
  <2> DEFINE row == [run[r] EXCEPT !.boxes = b]
  <2> DEFINE q == [step |-> "confirm", task |-> Measurement!ProcessTask(r), row |-> row]
  <2>1. run[r] \in Measurement!Row /\ run[r].status = "AWAITING_CONFIRM"
    BY <1>3, StoredRow DEF Measurement!LoadConfirm, RunInv
  <2>2. row \in Measurement!Row /\ row.boxes = b
    BY <2>1 DEF Measurement!Row
  <2>3. request' = [request EXCEPT ![c] = q]
    BY <1>3 DEF Measurement!LoadConfirm
  <2> HIDE DEF row
  <2>4. /\ q \in Measurement!Request /\ q.step = "confirm" /\ q.task.run = r
             /\ q.task.kind = "process"
        /\ q.row.boxes = b
    BY <2>2, TaskTypes DEF Measurement!Request, Measurement!ProcessTask
  <2> HIDE DEF q
  <2>5. ConfirmOK(q) /\ RequestOK(q, run[r])
    BY <2>1, <2>4 DEF ConfirmOK, RequestOK
  <2> QED BY <1>1, <1>3, <2>3, <2>4, <2>5, QuietRequestKeeps DEF Measurement!LoadConfirm
<1> QED BY <1>2, <1>3

LEMMA EnqueueKeeps ==
  ASSUME Measurement!RunAssumption, RunInv, Measurement!TypeOK', NEW c \in Clients,
     Measurement!Enqueue(c)
  PROVE  RunInv'
<1> DEFINE t == request[c].task
<1>1. /\ request[c] \in Measurement!Request /\ request[c] # Idle /\ request[c].step = "enqueue"
      /\ t \in Measurement!Task /\ t.run \in Runs
  BY DEF Measurement!Enqueue, Measurement!InFlight, RunInv, Measurement!TypeOK,
     Measurement!Request, Measurement!Task
<1>2. UNCHANGED <<run, object, worker, job, stale, missed>>
  BY DEF Measurement!Enqueue
<1>3. AllAdvance /\ StoreGrows /\ Rows'
  BY <1>2 DEF RunInv, Rows, AllAdvance, Advances, StoreGrows, Grows
<1>4. Requests'
  <2>1. request'[c] = Idle /\ \A d \in Clients \ {c} : request'[d] = request[d]
    BY DEF Measurement!Enqueue, Measurement!End, RunInv, Measurement!TypeOK
  <2> QED BY <1>3, <2>1, RequestsKept
<1>5. Queue'
  <2>1. \A u \in Measurement!Task \ {t} : broker'[u] = broker[u]
    BY <1>1 DEF Measurement!Enqueue, Measurement!Enqueued, RunInv, Measurement!TypeOK
  <2>2. run[t.run] # Unused /\ (t.kind = "process" /\ Live(run[t.run])
                                  => run[t.run].status \in Confirmed)
    BY <1>1 DEF RunInv, Requests, RequestOK
  <2> HIDE DEF t
  <2> QED BY <1>2, <1>3, <2>1, <2>2, QueueKept
<1> QED BY <1>2, <1>3, <1>4, <1>5, RequestStep

LEMMA DeleteKeeps ==
  ASSUME Measurement!RunAssumption, RunInv, Measurement!TypeOK', NEW r \in Runs,
     run' = [run EXCEPT ![r] = Deleted],
         \/ UNCHANGED request
         \/ \E c \in Clients : /\ request[c] # Idle /\ request[c].task.run = r
                               /\ request' = [request EXCEPT ![c].step = "drop"],
         UNCHANGED <<object, broker, worker, job, stale, missed>>
  PROVE  RunInv'
<1>1. run'[r] = Deleted /\ \A q \in Runs \ {r} : run'[q] = run[q]
  BY DEF RunInv, Measurement!TypeOK
<1>2. AllAdvance /\ StoreGrows
  BY <1>1 DEF AllAdvance, Advances, StoreGrows, Grows
<1>3. Rows'
  BY <1>1, <1>2, RowsKept DEF Live
<1>4. Queue'
  BY <1>2, QueueKept
<1>5. Requests'
  <2>1. CASE UNCHANGED request
    BY <1>2, <2>1, RequestsKept
  <2>2. ASSUME NEW c \in Clients, request[c] # Idle, request[c].task.run = r,
               request' = [request EXCEPT ![c].step = "drop"]
        PROVE  Requests'
    <3>1. request[c] \in Measurement!Request
      BY <2>2 DEF RunInv, Measurement!TypeOK
    <3>2. /\ request'[c] = [request[c] EXCEPT !.step = "drop"]
          /\ \A d \in Clients \ {c} : request'[d] = request[d]
      BY <2>2 DEF RunInv, Measurement!TypeOK
    <3>3. request'[c].step = "drop" /\ request'[c].task.run = r
      BY <2>2, <3>1, <3>2 DEF Measurement!Request
    <3>4. ConfirmOK(request'[c])
      BY <3>3 DEF ConfirmOK
    <3>5. Deleted # Unused /\ ~Live(Deleted)
      BY DEF Measurement!RunAssumption, Live
    <3> QED BY <1>1, <1>2, <3>2, <3>3, <3>4, <3>5, RequestsKept
  <2> QED BY <2>1, <2>2
<1>6. \A q \in Runs : Live(run'[q]) => run'[q].status = run[q].status
  BY <1>1 DEF Live
<1> QED BY <1>2, <1>3, <1>4, <1>5, <1>6, RequestStep

LEMMA DropKeeps ==
  ASSUME Measurement!RunAssumption, RunInv, Measurement!TypeOK', NEW c \in Clients,
     Measurement!DropArtifacts(c)
  PROVE  RunInv'
<1> DEFINE r == request[c].task.run
<1>1. request[c] # Idle /\ request[c].step = "drop" /\ r \in Runs
  BY DEF Measurement!DropArtifacts, Measurement!InFlight, RunInv, Measurement!TypeOK,
     Measurement!Request, Measurement!Task
<1>2. ~Live(run[r])
  BY <1>1 DEF RunInv, Requests, RequestOK
<1>3. UNCHANGED <<run, broker, worker, job, stale, missed>>
  BY DEF Measurement!DropArtifacts
<1>4. \A q \in Runs \ {r} : object'[q] = object[q]
  BY DEF Measurement!DropArtifacts, RunInv, Measurement!TypeOK
<1>5. AllAdvance /\ StoreGrows
  BY <1>2, <1>3, <1>4 DEF AllAdvance, Advances, StoreGrows, Grows
<1>6. Rows' /\ Queue'
  BY <1>3, <1>5, RowsKept, QueueKept
<1>7. Requests'
  <2>1. request'[c] = Idle /\ \A d \in Clients \ {c} : request'[d] = request[d]
    BY DEF Measurement!DropArtifacts, Measurement!End, RunInv, Measurement!TypeOK
  <2> QED BY <1>5, <2>1, RequestsKept
<1> QED BY <1>3, <1>5, <1>6, <1>7, RequestStep

LEMMA ClientKeeps ==
  ASSUME Measurement!RunAssumption, RunInv, Measurement!TypeOK', NEW c \in Clients,
     Measurement!Client(c)
  PROVE  RunInv'
<1>1. CASE Measurement!CommitConfirm(c)
  BY <1>1, ConfirmKeeps
<1>2. CASE Measurement!Enqueue(c)
  BY <1>2, EnqueueKeeps
<1>3. CASE Measurement!CommitDelete(c)
  <2>1. request[c].task.run \in Runs
    BY <1>3 DEF Measurement!CommitDelete, Measurement!InFlight, RunInv, Measurement!TypeOK,
       Measurement!Request, Measurement!Task
  <2> QED BY <1>3, <2>1, DeleteKeeps DEF Measurement!CommitDelete, Measurement!InFlight
<1>4. CASE Measurement!DropArtifacts(c)
  BY <1>4, DropKeeps
<1>5. CASE Measurement!LoseRequest(c)
  BY <1>5, QuietRequestKeeps DEF Measurement!LoseRequest, Measurement!End
<1> QED BY <1>1, <1>2, <1>3, <1>4, <1>5 DEF Measurement!Client

-----------------------------------------------------------------------------
(* The worker's processes *)

(* A detection under way keeps its run in FIRST_FRAME. *)
LEMMA Detected ==
  ASSUME RunInv, NEW v \in Slots, NEW q \in Runs, Detects(v, q), Live(run[q])
  PROVE  run[q].status = "FIRST_FRAME"
BY DEF RunInv, Jobs, JobOK, Detects, Measurement!FirstFrameTask

(* Process w goes on with job j, and with it alone its run. *)
LEMMA ProcessStep ==
  ASSUME Measurement!RunAssumption, RunInv, Measurement!TypeOK', AllAdvance, StoreGrows,
         NEW w \in Slots, NEW j \in Measurement!Job \cup {Idle}, job[w] # Idle,
           job' = [job EXCEPT ![w] = j],
         j # Idle /\ j.step \in Working => j.task = job[w].task /\ job[w].step \in Working,
         j # Idle => /\ BoxesOK(j)
                     /\ run'[j.task.run] # Unused
                     /\ Live(run'[j.task.run]) =>
                          JobOK(j, run'[j.task.run], object'[j.task.run]),
         \A q \in Runs : Live(run'[q]) =>
           /\ run'[q] = run[q] \/ RowOK(run'[q], object'[q])
           /\ \/ /\ run'[q].status = run[q].status
                 /\ run[q].status = "FIRST_FRAME" /\ Detects(w, q)
                      => j # Idle /\ j.task = Measurement!FirstFrameTask(q) /\ j.step \in Working
              \/ /\ run'[q].status # "FIRST_FRAME"
                 /\ run[q].status = "FIRST_FRAME" => Detects(w, q),
         \A t \in Measurement!Task : broker'[t] > 0 =>
           \/ broker[t] > 0
           \/ /\ run'[t.run] # Unused
              /\ t.kind = "process" /\ Live(run'[t.run]) => run'[t.run].status \in Confirmed,
         UNCHANGED <<worker, stale, missed, request>>
  PROVE  RunInv'
<1>1. job'[w] = j /\ \A v \in Slots \ {w} : job'[v] = job[v]
  BY DEF RunInv, Measurement!TypeOK
<1>2. Rows'
  BY RowsKept
<1>3. Requests'
  BY RequestsKept
<1>4. Queue'
  BY QueueKept
<1>5. \A q \in Runs : Live(run'[q]) => Live(run[q])
  BY AdvancedRuns
<1>6. Jobs'
  <2>1. ASSUME NEW v \in Slots \ {w}, NEW q \in Runs, Detects(v, q), Live(run'[q])
        PROVE  run'[q].status = "FIRST_FRAME"
    <3>1. run[q].status = "FIRST_FRAME"
      BY <1>5, <2>1, Detected
    <3>2. ~Detects(w, q)
      BY <2>1 DEF RunInv, OneDetects
    <3> QED BY <2>1, <3>1, <3>2
  <2>2. \A v \in Slots \ {w} : job'[v] = job[v] /\
          \A q \in Runs : Detects(v, q) /\ Live(run'[q]) => run'[q].status = "FIRST_FRAME"
    BY <1>1, <2>1
  <2> QED BY <1>1, <2>2, JobsKept
<1>7. \A v \in Slots, q \in Runs : Detects(v, q)' => Detects(v, q)
  BY <1>1 DEF Detects
<1>8. OneDetects'
  BY <1>7 DEF RunInv, OneDetects
<1>9. worker = "up"
  BY DEF RunInv, Boot, Measurement!TypeOK
<1>10. Boot'
  BY <1>9 DEF Boot
<1>11. Owned'
  <2> SUFFICES ASSUME NEW q \in Runs \ missed, Live(run'[q]), run'[q].status = "FIRST_FRAME"
               PROVE  \E v \in Slots : Detects(v, q)'
    BY DEF Owned
  <2>1. Live(run[q]) /\ run[q].status = "FIRST_FRAME"
    BY <1>5
  <2>2. PICK v \in Slots : Detects(v, q)
    BY <1>9, <2>1 DEF RunInv, Owned
  <2>3. Detects(v, q)'
    BY <1>1, <2>1, <2>2 DEF Detects
  <2> QED BY <2>3
<1> QED BY <1>2, <1>3, <1>4, <1>6, <1>8, <1>10, <1>11 DEF RunInv

(* What is known of a process at work. *)
LEMMA AtWork ==
  ASSUME RunInv, NEW w \in Slots, job[w] # Idle
  PROVE  LET j == job[w]
             r == job[w].task.run
         IN  /\ j \in Measurement!Job /\ j.task \in Measurement!Task /\ r \in Runs
             /\ j.task.kind = "first_frame" => j.task = Measurement!FirstFrameTask(r)
             /\ j.task.kind # "first_frame" => j.task.kind = "process"
                  /\ j.task = Measurement!ProcessTask(r)
             /\ BoxesOK(j) /\ run[r] # Unused
             /\ Live(run[r]) => JobOK(j, run[r], object[r])
BY DEF RunInv, Measurement!TypeOK, Measurement!Job, Measurement!Task, Jobs,
   Measurement!FirstFrameTask, Measurement!ProcessTask

(* A step that only moves the program counter, or the boxes, of process w. *)
LEMMA QuietStep ==
  ASSUME Measurement!RunAssumption, RunInv, Measurement!TypeOK', NEW w \in Slots, job[w] # Idle,
         NEW j \in Measurement!Job, job' = [job EXCEPT ![w] = j], j.task = job[w].task,
         j.step \in Working <=> job[w].step \in Working,
         BoxesOK(j), Live(run[j.task.run]) => JobOK(j, run[j.task.run], object[j.task.run]),
         UNCHANGED <<run, object, broker, worker, stale, missed, request>>
  PROVE  RunInv'
<1>1. AllAdvance /\ StoreGrows
  BY DEF AllAdvance, Advances, StoreGrows, Grows
<1>2. run[j.task.run] # Unused
  BY AtWork
<1>3. \A q \in Runs : Detects(w, q) => j.task = Measurement!FirstFrameTask(q) /\ j.step \in Working
  BY DEF Detects
<1>4. j # Idle
  BY DEF Measurement!RunAssumption
<1> QED BY <1>1, <1>2, <1>3, <1>4, ProcessStep

LEMMA WorkKeeps ==
  ASSUME Measurement!RunAssumption, RunInv, Measurement!TypeOK', NEW w \in Slots,
     Measurement!Work(w)
  PROVE  RunInv'
<1>1. job[w] # Idle /\ job[w].step = "work"
  BY DEF Measurement!Work
<1>2. job[w] \in Measurement!Job
  BY <1>1, AtWork
<1>3. ASSUME NEW b \in Boxes, job[w].task.kind = "first_frame",
             job' = [job EXCEPT ![w].step = "upload", ![w].boxes = b]
      PROVE  RunInv'
  <2> DEFINE j == [job[w] EXCEPT !.step = "upload", !.boxes = b]
  <2>1. j \in Measurement!Job /\ j.task = job[w].task /\ j.step = "upload" /\ j.boxes = b
    BY <1>2 DEF Measurement!Job
  <2>2. job' = [job EXCEPT ![w] = j]
    BY <1>2, <1>3 DEF Measurement!Job, RunInv, Measurement!TypeOK
  <2> HIDE DEF j
  <2>3. BoxesOK(j) /\ (Live(run[j.task.run]) => JobOK(j, run[j.task.run], object[j.task.run]))
    BY <1>1, <1>3, <2>1, AtWork DEF BoxesOK, JobOK, Working
  <2> QED BY <1>1, <2>1, <2>2, <2>3, QuietStep DEF Measurement!Work, Working
<1>4. ASSUME job[w].task.kind = "process", Measurement!GoTo(w, "upload")
      PROVE  RunInv'
  <2> DEFINE j == [job[w] EXCEPT !.step = "upload"]
  <2>1. j \in Measurement!Job /\ j.task = job[w].task /\ j.step = "upload" /\ j.boxes = job[w].boxes
    BY <1>2 DEF Measurement!Job
  <2>2. job' = [job EXCEPT ![w] = j]
    BY <1>4 DEF Measurement!GoTo
  <2> HIDE DEF j
  <2>3. BoxesOK(j) /\ (Live(run[j.task.run]) => JobOK(j, run[j.task.run], object[j.task.run]))
    BY <1>1, <1>4, <2>1, AtWork DEF BoxesOK, JobOK, Working
  <2> QED BY <1>1, <2>1, <2>2, <2>3, QuietStep DEF Measurement!Work, Working
<1> QED BY <1>3, <1>4 DEF Measurement!Work

LEMMA UploadKeeps ==
  ASSUME Measurement!RunAssumption, RunInv, Measurement!TypeOK', NEW w \in Slots,
     Measurement!Upload(w)
  PROVE  RunInv'
<1> DEFINE r == job[w].task.run
<1> DEFINE j == [job[w] EXCEPT !.step = "commit"]
<1>1. job[w] # Idle /\ job[w].step = "upload"
  BY DEF Measurement!Upload
<1>2. job[w] \in Measurement!Job /\ r \in Runs /\ run[r] # Unused
  BY <1>1, AtWork
<1>3. j \in Measurement!Job /\ j.task = job[w].task /\ j.step = "commit" /\ j.boxes = job[w].boxes
  BY <1>2 DEF Measurement!Job
<1>4. /\ job' = [job EXCEPT ![w] = j]
      /\ UNCHANGED <<run, broker, worker, stale, missed, request>>
  BY DEF Measurement!Upload, Measurement!GoTo
<1> HIDE DEF j
<1>5. /\ \A q \in Runs \ {r} : object'[q] = object[q]
      /\ job[w].task.kind = "first_frame" => object'[r] = [object[r] EXCEPT !.frame = TRUE]
      /\ job[w].task.kind # "first_frame"
           => object'[r] = [object[r] EXCEPT !.results = job[w].boxes]
  BY <1>2 DEF Measurement!Upload, RunInv, Measurement!TypeOK
<1>6. job[w].task.kind # "first_frame" => job[w].boxes # NULL
  BY <1>1, AtWork DEF BoxesOK, Working, Measurement!RunAssumption
<1>7. object[r] \in Measurement!Artifacts
  BY <1>2 DEF RunInv, Measurement!TypeOK
<1>8. /\ Grows(object[r], object'[r])
      /\ job[w].task.kind = "first_frame" => object'[r].frame
      /\ job[w].task.kind # "first_frame" => object'[r].results # NULL
  BY <1>5, <1>6, <1>7 DEF Grows, Measurement!Artifacts
<1>9. AllAdvance /\ StoreGrows
  BY <1>4, <1>5, <1>8 DEF AllAdvance, Advances, StoreGrows, Grows
<1>10. BoxesOK(j) /\ (Live(run'[r]) => JobOK(j, run'[r], object'[r]))
  BY <1>1, <1>3, <1>4, <1>8, AtWork DEF BoxesOK, JobOK, Working
<1>11. \A q \in Runs : Detects(w, q) => j.task = Measurement!FirstFrameTask(q) /\ j.step \in Working
  BY <1>3 DEF Detects, Working
<1>12. j # Idle /\ job[w].step \in Working
  BY <1>1, <1>3 DEF Measurement!RunAssumption, Working
<1> HIDE DEF r
<1> QED BY <1>1, <1>2, <1>3, <1>4, <1>9, <1>10, <1>11, <1>12, ProcessStep DEF r

(* Process w writes row m of its run and leaves it. *)
LEMMA WriteKeeps ==
  ASSUME Measurement!RunAssumption, RunInv, Measurement!TypeOK', NEW w \in Slots, job[w] # Idle,
         NEW r \in Runs, r = job[w].task.run, Live(run[r]),
         NEW m \in Measurement!Row, run' = [run EXCEPT ![r] = m],
         m.status \notin {"QUEUED", "FIRST_FRAME"},
         run[r].status \in Confirmed => m.status \in Confirmed,
         run[r].status = "FIRST_FRAME" => Detects(w, r),
         RowOK(m, object[r]),
         NEW j \in Measurement!Job, job' = [job EXCEPT ![w] = j], j.task = job[w].task,
         j.step \in {"return", "ack"},
         UNCHANGED <<object, broker, worker, stale, missed, request>>
  PROVE  RunInv'
<1>1. run'[r] = m /\ \A q \in Runs \ {r} : run'[q] = run[q]
  BY DEF RunInv, Measurement!TypeOK
<1>2. Live(m)
  BY DEF Measurement!RunAssumption, Live
<1>3. AllAdvance /\ StoreGrows
  BY <1>1, <1>2 DEF AllAdvance, Advances, StoreGrows, Grows, Live
<1>4. j # Idle /\ j.step \notin Working /\ j.step # "chain"
  BY DEF Measurement!RunAssumption, Working
<1>5. BoxesOK(j)
  BY <1>4 DEF BoxesOK, Working
<1>6. JobOK(j, m, object[r])
  <2>1. job[w].task.kind = "process" => m.status \in Confirmed
    BY AtWork DEF JobOK
  <2> QED BY <1>4, <2>1 DEF JobOK, Working
<1>7. \A q \in Runs : Detects(w, q) => q = r
  BY DEF Detects, Measurement!FirstFrameTask
<1>8. \A q \in Runs : Live(run'[q]) =>
        /\ run'[q] = run[q] \/ RowOK(run'[q], object'[q])
        /\ \/ /\ run'[q].status = run[q].status
              /\ run[q].status = "FIRST_FRAME" /\ Detects(w, q)
                   => j # Idle /\ j.task = Measurement!FirstFrameTask(q) /\ j.step \in Working
           \/ /\ run'[q].status # "FIRST_FRAME"
              /\ run[q].status = "FIRST_FRAME" => Detects(w, q)
  BY <1>1, <1>7
<1>9. run'[r] # Unused
  BY <1>1, <1>2 DEF Live
<1> QED BY <1>1, <1>3, <1>4, <1>5, <1>6, <1>8, <1>9, ProcessStep

LEMMA FinishFirstFrameKeeps ==
  ASSUME Measurement!RunAssumption, RunInv, Measurement!TypeOK', NEW w \in Slots,
     Measurement!FinishFirstFrame(w)
  PROVE  RunInv'
<1> DEFINE r == job[w].task.run
<1> DEFINE j == [job[w] EXCEPT !.step = "return"]
<1>1. /\ job[w] # Idle /\ job[w].step = "commit" /\ job[w].task.kind = "first_frame"
      /\ Live(run[r])
  BY DEF Measurement!FinishFirstFrame, Measurement!AtStep, Measurement!Stored, Live
<1>2. /\ job[w] \in Measurement!Job /\ r \in Runs /\ job[w].boxes \in Boxes
      /\ run[r].status = "FIRST_FRAME" /\ object[r].frame /\ Detects(w, r)
  BY <1>1, AtWork DEF BoxesOK, JobOK, Working, Detects
<1>3. j \in Measurement!Job /\ j.task = job[w].task /\ j.step = "return"
  BY <1>2 DEF Measurement!Job
<1>4. /\ job' = [job EXCEPT ![w] = j]
      /\ UNCHANGED <<object, broker, worker, stale, missed, request>>
  BY DEF Measurement!FinishFirstFrame, Measurement!GoTo
<1>5. run[r] \in Measurement!Row
  BY <1>1, <1>2 DEF RunInv, Measurement!TypeOK, Live
<1>6. PICK status \in {"PROCESSING", "AWAITING_CONFIRM"} :
        run' = [run EXCEPT ![r].status = status, ![r].frame = TRUE, ![r].boxes = job[w].boxes]
  BY DEF Measurement!FinishFirstFrame
<1> DEFINE m == [run[r] EXCEPT !.status = status, !.frame = TRUE, !.boxes = job[w].boxes]
<1>7. /\ m \in Measurement!Row /\ m.status = status /\ m.frame /\ m.boxes \in Boxes
      /\ m.results = run[r].results
  BY <1>2, <1>5 DEF Measurement!Row, Measurement!Statuses
<1>8. run' = [run EXCEPT ![r] = m]
  BY <1>2, <1>5, <1>6 DEF RunInv, Measurement!TypeOK, Measurement!Row
<1> HIDE DEF m, j
<1>9. RowOK(m, object[r])
  BY <1>1, <1>2, <1>7 DEF RowOK, RunInv, Rows
<1>10. m.status \notin {"QUEUED", "FIRST_FRAME"} /\ run[r].status \notin Confirmed
  BY <1>2, <1>7 DEF Confirmed
<1> HIDE DEF r
<1> QED BY <1>1, <1>2, <1>3, <1>4, <1>7, <1>8, <1>9, <1>10, WriteKeeps DEF r

LEMMA FinishProcessingKeeps ==
  ASSUME Measurement!RunAssumption, RunInv, Measurement!TypeOK', NEW w \in Slots,
     Measurement!FinishProcessing(w)
  PROVE  RunInv'
<1> DEFINE r == job[w].task.run
<1> DEFINE j == [job[w] EXCEPT !.step = "ack"]
<1> DEFINE m == [run[r] EXCEPT !.status = "DONE", !.results = job[w].boxes]
<1>1. /\ job[w] # Idle /\ job[w].step = "commit" /\ job[w].task.kind = "process"
      /\ Live(run[r])
  BY DEF Measurement!FinishProcessing, Measurement!AtStep, Measurement!Stored, Live
<1>2. /\ job[w] \in Measurement!Job /\ r \in Runs /\ run[r].status \in Confirmed
      /\ object[r].results # NULL
  BY <1>1, AtWork DEF JobOK
<1>3. j \in Measurement!Job /\ j.task = job[w].task /\ j.step = "ack"
  BY <1>2 DEF Measurement!Job
<1>4. /\ job' = [job EXCEPT ![w] = j]
      /\ UNCHANGED <<object, broker, worker, stale, missed, request>>
  BY DEF Measurement!FinishProcessing, Measurement!GoTo
<1>5. run[r] \in Measurement!Row
  BY <1>1, <1>2 DEF RunInv, Measurement!TypeOK, Live
<1>6. m \in Measurement!Row /\ m.status = "DONE" /\ m.frame = run[r].frame
  BY <1>2, <1>5 DEF Measurement!Row, Measurement!Statuses, Measurement!Job
<1>7. run' = [run EXCEPT ![r] = m]
  BY <1>2, <1>5 DEF Measurement!FinishProcessing, RunInv, Measurement!TypeOK, Measurement!Row
<1> HIDE DEF m, j
<1>8. RowOK(m, object[r])
  BY <1>1, <1>2, <1>6 DEF RowOK, RunInv, Rows
<1>9. m.status \in Confirmed /\ m.status \notin {"QUEUED", "FIRST_FRAME"}
      /\ run[r].status # "FIRST_FRAME"
  BY <1>2, <1>6 DEF Confirmed
<1> HIDE DEF r
<1> QED BY <1>1, <1>2, <1>3, <1>4, <1>6, <1>7, <1>8, <1>9, WriteKeeps DEF r

LEMMA JobFailsKeeps ==
  ASSUME Measurement!RunAssumption, RunInv, Measurement!TypeOK', NEW w \in Slots,
     Measurement!JobFails(w)
  PROVE  RunInv'
<1> DEFINE r == job[w].task.run
<1> DEFINE j == [job[w] EXCEPT !.step = "ack"]
<1> DEFINE m == [run[r] EXCEPT !.status = "ERROR"]
<1>1. job[w] # Idle /\ job[w].step \in Working
  BY DEF Measurement!JobFails, Working
<1>2. job[w] \in Measurement!Job /\ r \in Runs /\ run[r] # Unused
  BY <1>1, AtWork
<1>3. j \in Measurement!Job /\ j.task = job[w].task /\ j.step = "ack"
  BY <1>2 DEF Measurement!Job
<1>4. /\ job' = [job EXCEPT ![w] = j]
      /\ UNCHANGED <<object, broker, worker, stale, missed, request>>
  BY DEF Measurement!JobFails, Measurement!GoTo
<1>5. CASE Live(run[r]) /\ run[r].status # "DONE"
  <2>1. run[r] \in Measurement!Row
    BY <1>2, <1>5 DEF RunInv, Measurement!TypeOK, Live
  <2>2. m \in Measurement!Row /\ m.status = "ERROR" /\ m.frame = run[r].frame
          /\ m.results = run[r].results
    BY <2>1 DEF Measurement!Row, Measurement!Statuses
  <2>3. run' = [run EXCEPT ![r] = m]
    BY <1>2, <1>5, <2>1 DEF Measurement!JobFails, Measurement!Stored, Live, RunInv,
       Measurement!TypeOK, Measurement!Row
  <2> HIDE DEF m, j
  <2>4. RowOK(m, object[r])
    BY <1>2, <1>5, <2>2 DEF RowOK, RunInv, Rows
  <2>5. m.status \in Confirmed /\ m.status \notin {"QUEUED", "FIRST_FRAME"}
    BY <2>2 DEF Confirmed
  <2>6. run[r].status = "FIRST_FRAME" => Detects(w, r)
    BY <1>1, <1>5, AtWork DEF JobOK, Confirmed, Detects
  <2> HIDE DEF r
  <2> QED BY <1>1, <1>2, <1>3, <1>4, <1>5, <2>2, <2>3, <2>4, <2>5, <2>6, WriteKeeps DEF r
<1>6. CASE ~(Live(run[r]) /\ run[r].status # "DONE")
  <2>1. UNCHANGED run
    BY <1>6 DEF Measurement!JobFails, Measurement!Stored, Live
  <2>2. AllAdvance /\ StoreGrows
    BY <1>4, <2>1 DEF AllAdvance, Advances, StoreGrows, Grows
  <2>3. j # Idle /\ j.step \notin Working /\ BoxesOK(j)
    BY <1>3 DEF Measurement!RunAssumption, Working, BoxesOK
  <2>4. Live(run[r]) => job[w].task.kind = "process" /\ run[r].status \in Confirmed
    BY <1>1, <1>6, AtWork DEF JobOK, Confirmed
  <2>5. Live(run[r]) => JobOK(j, run[r], object[r])
    BY <1>3, <2>4 DEF JobOK, Working
  <2>6. \A q \in Runs : Live(run[q]) => ~Detects(w, q)
    BY <1>6, Detected DEF Detects, Measurement!FirstFrameTask
  <2> HIDE DEF j
  <2> QED BY <1>1, <1>2, <1>3, <1>4, <2>1, <2>2, <2>3, <2>5, <2>6, ProcessStep
<1> QED BY <1>5, <1>6

LEMMA ReturnKeeps ==
  ASSUME Measurement!RunAssumption, RunInv, Measurement!TypeOK', NEW w \in Slots,
     Measurement!ReturnStatus(w)
  PROVE  RunInv'
<1> DEFINE r == job[w].task.run
<1> DEFINE step == IF Measurement!Stored(r) /\ run[r].status = "PROCESSING" THEN "chain" ELSE "ack"
<1> DEFINE j == [job[w] EXCEPT !.step = step]
<1>1. job[w] # Idle /\ job[w].step = "return" /\ job[w].task.kind = "first_frame"
  BY DEF Measurement!ReturnStatus, Measurement!AtStep
<1>2. job[w] \in Measurement!Job
  BY <1>1, AtWork
<1>3. step \in {"chain", "ack"} /\ (step = "chain" => run[r].status \in Confirmed)
  BY DEF Confirmed
<1>4. job' = [job EXCEPT ![w] = j]
  BY DEF Measurement!ReturnStatus, Measurement!GoTo
<1> HIDE DEF step
<1>5. j \in Measurement!Job /\ j.task = job[w].task /\ j.step = step
  BY <1>2, <1>3 DEF Measurement!Job
<1> HIDE DEF j
<1>6. BoxesOK(j) /\ JobOK(j, run[r], object[r])
  BY <1>1, <1>3, <1>5 DEF BoxesOK, JobOK, Working
<1>7. j.step \notin Working /\ job[w].step \notin Working
  BY <1>1, <1>3, <1>5 DEF Working
<1> QED BY <1>1, <1>4, <1>5, <1>6, <1>7, QuietStep DEF Measurement!ReturnStatus

LEMMA ChainKeeps ==
  ASSUME Measurement!RunAssumption, RunInv, Measurement!TypeOK', NEW w \in Slots,
     Measurement!ChainProcessing(w)
  PROVE  RunInv'
<1> DEFINE r == job[w].task.run
<1> DEFINE j == [job[w] EXCEPT !.step = "ack"]
<1>1. job[w] # Idle /\ job[w].step = "chain" /\ job[w].task.kind = "first_frame"
  BY DEF Measurement!ChainProcessing, Measurement!AtStep
<1>2. /\ job[w] \in Measurement!Job /\ r \in Runs /\ run[r] # Unused
      /\ Live(run[r]) => run[r].status \in Confirmed
  BY <1>1, AtWork DEF JobOK
<1>3. j \in Measurement!Job /\ j.task = job[w].task /\ j.step = "ack"
  BY <1>2 DEF Measurement!Job
<1>4. /\ job' = [job EXCEPT ![w] = j]
      /\ broker' = [broker EXCEPT ![Measurement!ProcessTask(r)] = @ + 1]
      /\ UNCHANGED <<run, object, worker, stale, missed, request>>
  BY DEF Measurement!ChainProcessing, Measurement!GoTo, Measurement!Enqueued
<1> HIDE DEF j
<1>5. AllAdvance /\ StoreGrows
  BY <1>4 DEF AllAdvance, Advances, StoreGrows, Grows
<1>6. BoxesOK(j) /\ JobOK(j, run[r], object[r])
  BY <1>1, <1>3 DEF BoxesOK, JobOK, Working
<1>7. j # Idle /\ j.step \notin Working /\ job[w].step \notin Working
  BY <1>1, <1>3 DEF Working, Measurement!RunAssumption
<1>8. Measurement!ProcessTask(r) \in Measurement!Task /\ Measurement!ProcessTask(r).run = r
  BY <1>2, TaskTypes DEF Measurement!ProcessTask
<1>9. \A t \in Measurement!Task \ {Measurement!ProcessTask(r)} : broker'[t] = broker[t]
  BY <1>4, <1>8 DEF RunInv, Measurement!TypeOK
<1>10. \A t \in Measurement!Task : broker'[t] > 0 =>
         \/ broker[t] > 0
         \/ /\ run'[t.run] # Unused
            /\ t.kind = "process" /\ Live(run'[t.run]) => run'[t.run].status \in Confirmed
  BY <1>2, <1>4, <1>8, <1>9
<1>11. \A q \in Runs : ~Detects(w, q)
  BY <1>7 DEF Detects
<1> HIDE DEF r
<1> QED BY <1>1, <1>2, <1>3, <1>4, <1>5, <1>6, <1>7, <1>10, <1>11, ProcessStep DEF r

LEMMA AcknowledgeKeeps ==
  ASSUME Measurement!RunAssumption, RunInv, Measurement!TypeOK', NEW w \in Slots,
     Measurement!Acknowledge(w)
  PROVE  RunInv'
<1>1. job[w] # Idle /\ job[w].step \notin Working
  BY DEF Measurement!Acknowledge, Working
<1>2. AllAdvance /\ StoreGrows
  BY DEF Measurement!Acknowledge, AllAdvance, Advances, StoreGrows, Grows
<1>3. \A q \in Runs : ~Detects(w, q)
  BY <1>1 DEF Detects
<1> QED BY <1>1, <1>2, <1>3, ProcessStep DEF Measurement!Acknowledge

LEMMA ProcessKeeps ==
  ASSUME Measurement!RunAssumption, RunInv, Measurement!TypeOK', NEW w \in Slots,
     Measurement!Process(w)
  PROVE  RunInv'
BY WorkKeeps, UploadKeeps, FinishFirstFrameKeeps, FinishProcessingKeeps, JobFailsKeeps,
   ReturnKeeps, ChainKeeps, AcknowledgeKeeps DEF Measurement!Process

-----------------------------------------------------------------------------
(* Taking tasks *)

(* Process w takes a task with job j, and detects nothing. *)
LEMMA TakeKeeps ==
  ASSUME Measurement!RunAssumption, RunInv, Measurement!TypeOK', NEW w \in Slots,
     NEW t \in Measurement!Task,
         NEW j, j.task = t, ~(t.kind = "first_frame" /\ j.step \in Working),
         worker = "up", job[w] = Idle, broker[t] > 0,
         broker' = [broker EXCEPT ![t] = @ - 1], job' = [job EXCEPT ![w] = j],
         BoxesOK(j), Live(run[t.run]) => JobOK(j, run[t.run], object[t.run]),
         UNCHANGED <<run, object, worker, stale, missed, request>>
  PROVE  RunInv'
<1>1. t.run \in Runs /\ run[t.run] # Unused
  BY DEF Measurement!Task, RunInv, Queue
<1>2. job'[w] = j /\ \A v \in Slots \ {w} : job'[v] = job[v]
  BY DEF RunInv, Measurement!TypeOK
<1>3. AllAdvance /\ StoreGrows
  BY DEF AllAdvance, Advances, StoreGrows, Grows
<1>4. Rows' /\ Requests'
  BY <1>3, RowsKept, RequestsKept
<1>5. Queue'
  <2>1. \A u \in Measurement!Task : broker'[u] > 0 => broker[u] > 0
    BY DEF RunInv, Measurement!TypeOK
  <2> QED BY <1>3, <2>1, QueueKept
<1>6. \A v \in Slots, q \in Runs : Detects(v, q)' <=> Detects(v, q)
  BY <1>2 DEF Detects, Measurement!FirstFrameTask
<1>7. Jobs'
  <2>1. \A v \in Slots, q \in Runs :
          Detects(v, q) /\ Live(run'[q]) => run'[q].status = "FIRST_FRAME"
    BY Detected
  <2> QED BY <1>1, <1>2, <1>3, <2>1, JobsKept
<1>8. OneDetects' /\ Boot' /\ Owned'
  BY <1>6 DEF RunInv, OneDetects, Boot, Owned
<1> QED BY <1>4, <1>5, <1>7, <1>8 DEF RunInv

(* Process w takes a fresh run to its detection. *)
LEMMA DetectKeeps ==
  ASSUME Measurement!RunAssumption, RunInv, Measurement!TypeOK', NEW w \in Slots, NEW r \in Runs,
         Measurement!Stored(r), run[r].status = "QUEUED", Measurement!Take(w,
           Measurement!FirstFrameTask(r), "work", NULL),
         run' = [run EXCEPT ![r].status = "FIRST_FRAME"]
  PROVE  RunInv'
<1> DEFINE j == [task |-> Measurement!FirstFrameTask(r), step |-> "work", boxes |-> NULL]
<1> DEFINE m == [run[r] EXCEPT !.status = "FIRST_FRAME"]
<1>1. /\ worker = "up" /\ job[w] = Idle
      /\ broker' = [broker EXCEPT ![Measurement!FirstFrameTask(r)] = @ - 1]
           /\ job' = [job EXCEPT ![w] = j]
      /\ UNCHANGED <<object, worker, stale, missed, request>>
  BY DEF Measurement!Take
<1>2. run[r] \in Measurement!Row /\ Live(run[r])
  BY StoredRow DEF RunInv, Measurement!Stored, Live
<1>3. m \in Measurement!Row /\ m.status = "FIRST_FRAME" /\ m.frame = run[r].frame
        /\ m.results = run[r].results
  BY <1>2 DEF Measurement!Row, Measurement!Statuses
<1>4. run'[r] = m /\ \A q \in Runs \ {r} : run'[q] = run[q]
  BY DEF RunInv, Measurement!TypeOK
<1> HIDE DEF m
<1>5. job'[w] = j /\ \A v \in Slots \ {w} : job'[v] = job[v]
  BY <1>1 DEF RunInv, Measurement!TypeOK
<1>6. j.task = Measurement!FirstFrameTask(r) /\ j.task.run = r /\ j.task.kind = "first_frame"
        /\ j.step = "work"
  BY DEF Measurement!FirstFrameTask
<1>7. j # Idle
  BY TaskTypes DEF Measurement!RunAssumption, Measurement!Job
<1> HIDE DEF j
<1>8. Live(m)
  BY <1>3 DEF Live, Measurement!RunAssumption
<1>9. AllAdvance /\ StoreGrows
  BY <1>1, <1>2, <1>3, <1>4, <1>8
     DEF AllAdvance, Advances, StoreGrows, Grows, Live, Confirmed
<1>10. Rows'
  <2>1. RowOK(m, object[r])
    BY <1>2, <1>3 DEF RunInv, Rows, RowOK
  <2> QED BY <1>1, <1>4, <1>9, <2>1, RowsKept
<1>11. Requests'
  BY <1>1, <1>9, RequestsKept
<1>12. Queue'
  <2>1. \A u \in Measurement!Task : broker'[u] > 0 => broker[u] > 0
    BY <1>1, TaskTypes DEF RunInv, Measurement!TypeOK
  <2> QED BY <1>9, <2>1, QueueKept
<1>13. \A v \in Slots : ~Detects(v, r)
  BY <1>2, Detected
<1>14. Detects(w, r)' /\ \A q \in Runs \ {r} : ~Detects(w, q)'
  BY <1>5, <1>6, <1>7, TaskTypes DEF Detects, Working
<1>15. \A v \in Slots \ {w}, q \in Runs : Detects(v, q)' <=> Detects(v, q)
  BY <1>5 DEF Detects
<1>16. \A q \in Runs : ~Detects(w, q)
  BY <1>1 DEF Detects
<1>17. Jobs'
  <2>1. BoxesOK(j) /\ JobOK(j, m, object'[r]) /\ m # Unused
    BY <1>3, <1>6, <1>8 DEF BoxesOK, JobOK, Live
  <2>2. \A v \in Slots \ {w}, q \in Runs :
          Detects(v, q) /\ Live(run'[q]) => run'[q].status = "FIRST_FRAME"
    BY <1>4, <1>13, Detected
  <2> QED BY <1>4, <1>5, <1>6, <1>9, <2>1, <2>2, JobsKept
<1>18. OneDetects'
  BY <1>13, <1>14, <1>15 DEF RunInv, OneDetects
<1>19. Boot'
  BY <1>1 DEF Boot
<1>20. Owned'
  BY <1>1, <1>4, <1>14, <1>15, <1>16 DEF RunInv, Owned
<1> QED BY <1>10, <1>11, <1>12, <1>17, <1>18, <1>19, <1>20 DEF RunInv

LEMMA StartFirstFrameKeeps ==
  ASSUME Measurement!RunAssumption, RunInv, Measurement!TypeOK', NEW w \in Slots, NEW r \in Runs,
     Measurement!StartFirstFrame(w, r)
  PROVE  RunInv'
<1> DEFINE t == Measurement!FirstFrameTask(r)
<1>1. t \in Measurement!Task /\ t.run = r /\ t.kind = "first_frame"
  BY TaskTypes DEF Measurement!FirstFrameTask
<1>2. ASSUME NEW step \in {"chain", "ack"}, Measurement!Take(w, t, step, NULL), UNCHANGED run,
             step = "chain" => run[r].status = "PROCESSING"
      PROVE  RunInv'
  <2> DEFINE j == [task |-> t, step |-> step, boxes |-> NULL]
  <2>1. BoxesOK(j) /\ JobOK(j, run[r], object[r]) /\ j.step \notin Working /\ j.task = t
    BY <1>1, <1>2 DEF BoxesOK, JobOK, Working, Confirmed
  <2>2. /\ worker = "up" /\ job[w] = Idle /\ broker[t] > 0
        /\ broker' = [broker EXCEPT ![t] = @ - 1] /\ job' = [job EXCEPT ![w] = j]
        /\ UNCHANGED <<run, object, worker, stale, missed, request>>
    BY <1>2 DEF Measurement!Take
  <2> HIDE DEF t, j
  <2> QED BY <1>1, <2>1, <2>2, TakeKeeps
<1>3. CASE Measurement!Stored(r) /\ run[r].status = "QUEUED" /\ Measurement!Take(w, t, "work", NULL)
             /\ run' = [run EXCEPT ![r].status = "FIRST_FRAME"]
  BY <1>3, DetectKeeps
<1> QED BY <1>2, <1>3 DEF Measurement!StartFirstFrame

(* The queue holds no processing of a run that awaits confirmation: the    *)
(* status that is written is the one there was.                            *)
LEMMA StartProcessingKeeps ==
  ASSUME Measurement!RunAssumption, RunInv, Measurement!TypeOK', NEW w \in Slots, NEW r \in Runs,
     Measurement!StartProcessing(w, r)
  PROVE  RunInv'
<1> DEFINE t == Measurement!ProcessTask(r)
<1>1. t \in Measurement!Task /\ t.run = r /\ t.kind = "process"
  BY TaskTypes DEF Measurement!ProcessTask
<1>2. broker[t] > 0 /\ (Live(run[r]) => run[r].status \in Confirmed)
  BY <1>1 DEF Measurement!StartProcessing, Measurement!Take, RunInv, Queue
<1>3. PICK step \in {"work", "ack"}, b \in Boxes \cup {NULL} :
        /\ Measurement!Take(w, t, step, b)
        /\ UNCHANGED run
        /\ step = "work" => Live(run[r]) /\ b \in Boxes
  <2>1. CASE Measurement!Stored(r) /\ Measurement!Take(w, t, "work", run[r].boxes)
               /\ run[r].status \in {"PROCESSING", "AWAITING_CONFIRM"}
               /\ run' = [run EXCEPT ![r].status = "PROCESSING"]
    <3>1. run[r] \in Measurement!Row /\ Live(run[r]) /\ run[r].status = "PROCESSING"
      BY <1>2, <2>1, StoredRow DEF RunInv, Measurement!Stored, Live, Confirmed
    <3>2. run[r].boxes \in Boxes
      BY <3>1 DEF RunInv, Rows, RowOK
    <3>3. [run[r] EXCEPT !.status = "PROCESSING"] = run[r]
      BY <3>1 DEF Measurement!Row
    <3>4. UNCHANGED run
      BY <2>1, <3>3 DEF RunInv, Measurement!TypeOK
    <3> QED BY <2>1, <3>1, <3>2, <3>4
  <2>2. CASE Measurement!Take(w, t, "ack", NULL) /\ UNCHANGED run
    BY <2>2
  <2> QED BY <2>1, <2>2 DEF Measurement!StartProcessing
<1> DEFINE j == [task |-> t, step |-> step, boxes |-> b]
<1>4. BoxesOK(j) /\ (Live(run[r]) => JobOK(j, run[r], object[r])) /\ j.task = t
  BY <1>1, <1>2, <1>3 DEF BoxesOK, JobOK, Working
<1>5. /\ worker = "up" /\ job[w] = Idle
      /\ broker' = [broker EXCEPT ![t] = @ - 1] /\ job' = [job EXCEPT ![w] = j]
      /\ UNCHANGED <<object, worker, stale, missed, request>>
  BY <1>3 DEF Measurement!Take
<1> HIDE DEF t, j
<1> QED BY <1>1, <1>2, <1>3, <1>4, <1>5, TakeKeeps

-----------------------------------------------------------------------------
(* The container *)

LEMMA CrashKeeps == ASSUME Measurement!RunAssumption, RunInv, Measurement!TypeOK',
  Measurement!WorkerCrash PROVE RunInv'
<1>1. UNCHANGED <<run, object, missed, request>> /\ worker' = "down"
  BY DEF Measurement!WorkerCrash
<1>2. AllAdvance /\ StoreGrows
  BY <1>1 DEF AllAdvance, Advances, StoreGrows, Grows
<1>3. Rows' /\ Requests'
  BY <1>1, <1>2, RowsKept, RequestsKept
<1>4. \A w \in Slots : job'[w] = Idle
  BY DEF Measurement!WorkerCrash
<1>5. Queue'
  <2>1. ASSUME NEW t \in Measurement!Task, broker'[t] > 0, ~(broker[t] > 0)
        PROVE  /\ run'[t.run] # Unused
               /\ t.kind = "process" /\ Live(run'[t.run]) => run'[t.run].status \in Confirmed
    <3>1. {w \in Slots : job[w] # Idle /\ job[w].task = t} # {}
      BY <2>1, Redelivered, ProcessesCounted DEF RunInv, Measurement!WorkerCrash
    <3>2. PICK w \in Slots : job[w] # Idle /\ job[w].task = t
      BY <3>1
    <3> QED BY <1>1, <3>2, AtWork DEF JobOK
  <2> QED BY <1>2, <2>1, QueueKept
<1>6. Jobs' /\ OneDetects' /\ Boot' /\ Owned'
  BY <1>1, <1>4 DEF Jobs, OneDetects, Detects, Boot, Owned
<1> QED BY <1>3, <1>5, <1>6 DEF RunInv

LEMMA BootReadsKeeps == ASSUME Measurement!RunAssumption, RunInv, Measurement!TypeOK',
  Measurement!BootReads PROVE RunInv'
<1>1. /\ UNCHANGED <<run, object, broker, job, missed, request>>
      /\ worker = "down" /\ worker' = "reaping"
      /\ stale' = {r \in Runs : Measurement!Stored(r) /\ Measurement!InProgress(run[r].status)}
  BY DEF Measurement!BootReads
<1>2. Boot'
  BY <1>1 DEF RunInv, Boot, Measurement!InProgress, Measurement!Stored, Live
<1>3. Rows' /\ Jobs' /\ Requests' /\ Queue'
  BY <1>1 DEF RunInv, Rows, Jobs, Requests, Queue
<1>4. OneDetects' /\ Owned'
  BY <1>1 DEF RunInv, OneDetects, Detects, Owned
<1> QED BY <1>2, <1>3, <1>4 DEF RunInv

(* What it has read fails, or - if its commit does - is missed. *)
LEMMA BootReapsKeeps == ASSUME Measurement!RunAssumption, RunInv, Measurement!TypeOK',
  Measurement!BootReaps PROVE RunInv'
<1>1. /\ UNCHANGED <<object, broker, job, request>>
      /\ worker = "reaping" /\ worker' = "up"
      /\ \A w \in Slots : job[w] = Idle
  BY DEF Measurement!BootReaps, RunInv, Boot
<1>2. \A r \in Runs : run'[r] = run[r] \/
        /\ run[r] \in Measurement!Row /\ Live(run[r]) /\ r \in stale
        /\ run'[r] = [run[r] EXCEPT !.status = "ERROR"]
  BY StoredRow DEF Measurement!BootReaps, RunInv, Measurement!TypeOK, Measurement!Stored, Live
<1>3. \A r \in Runs : run'[r] = run[r] \/
        /\ Live(run[r]) /\ Live(run'[r]) /\ run'[r].status = "ERROR"
        /\ run'[r].frame = run[r].frame /\ run'[r].results = run[r].results
  <2> SUFFICES ASSUME NEW r \in Runs, run[r] \in Measurement!Row, Live(run[r]),
                      run'[r] = [run[r] EXCEPT !.status = "ERROR"]
               PROVE  /\ Live(run'[r]) /\ run'[r].status = "ERROR"
                      /\ run'[r].frame = run[r].frame /\ run'[r].results = run[r].results
    BY <1>2
  <2>1. run'[r] \in Measurement!Row
    BY DEF Measurement!Row, Measurement!Statuses
  <2> QED BY <2>1 DEF Measurement!Row, Live, Measurement!RunAssumption
<1>4. AllAdvance /\ StoreGrows
  BY <1>1, <1>3 DEF AllAdvance, Advances, StoreGrows, Grows, Live, Confirmed
<1>5. Rows'
  <2>1. \A r \in Runs : Live(run'[r]) => run'[r] = run[r] \/ RowOK(run'[r], object'[r])
    BY <1>1, <1>3 DEF RunInv, Rows, RowOK
  <2> QED BY <1>4, <2>1, RowsKept
<1>6. Requests' /\ Queue'
  BY <1>1, <1>4, RequestsKept, QueueKept
<1>7. Jobs' /\ OneDetects' /\ Boot'
  BY <1>1 DEF Jobs, OneDetects, Detects, Boot
<1>8. Owned'
  <2> SUFFICES ASSUME NEW r \in Runs, r \notin missed', Live(run'[r]),
                      run'[r].status = "FIRST_FRAME"
               PROVE  FALSE
    BY DEF Owned
  <2>1. run'[r] = run[r] /\ r \in stale
    BY <1>1, <1>3 DEF RunInv, Boot
  <2>2. CASE \A q \in stale : Measurement!Stored(q)
    <3>1. run[r] \in Measurement!Row /\ run'[r] = [run[r] EXCEPT !.status = "ERROR"]
      BY <2>1, <2>2, StoredRow DEF Measurement!BootReaps, RunInv, Measurement!TypeOK
    <3>2. run'[r].status = "ERROR"
      BY <3>1 DEF Measurement!Row
    <3> QED BY <3>2
  <2>3. CASE ~\A q \in stale : Measurement!Stored(q)
    BY <2>1, <2>3 DEF Measurement!BootReaps, Measurement!Stored, Live
  <2> QED BY <2>2, <2>3
<1> QED BY <1>5, <1>6, <1>7, <1>8 DEF RunInv

-----------------------------------------------------------------------------
(* Every step *)

LEMMA NextKeeps == ASSUME Measurement!RunAssumption, RunInv,
  [Measurement!Next]_(Measurement!vars) PROVE RunInv'
<1>1. CASE Measurement!Next
  <2>1. Measurement!TypeOK'
    BY <1>1, NextTyped DEF RunInv
  <2>2. ASSUME NEW r \in Runs, Measurement!CascadeDelete(r) PROVE RunInv'
    BY <2>1, <2>2, DeleteKeeps DEF Measurement!CascadeDelete
  <2> QED BY <1>1, <2>1, <2>2, CreateKeeps, LoadKeeps, ClientKeeps, StartFirstFrameKeeps,
             StartProcessingKeeps, ProcessKeeps, CrashKeeps, BootReadsKeeps, BootReapsKeeps
             DEF Measurement!Next
<1>2. CASE UNCHANGED Measurement!vars
  BY <1>2 DEF Measurement!vars, RunInv, Measurement!TypeOK, Rows, Jobs, Requests, Queue,
     OneDetects, Detects, Boot, Owned
<1> QED BY <1>1, <1>2

-----------------------------------------------------------------------------
(* One operator *)

OneOperator == \A c, d \in Clients : c = d

(* A confirmation in flight meets the run as it was loaded. *)
SoleRequests ==
  \A c \in Clients :
    Measurement!InFlight(c, "confirm") /\ Live(run[request[c].task.run])
      => run[request[c].task.run].status = "AWAITING_CONFIRM"

(* Job j has the boxes of row m; what it commits is in the store o. *)
RightBoxes(j, m, o) ==
  j.task.kind = "process" /\ j.step \in Working /\ Live(m)
    => /\ j.boxes = m.boxes
       /\ j.step = "commit" => o.results = m.boxes

SoleJobs ==
  \A w \in Slots : job[w] # Idle
    => RightBoxes(job[w], run[job[w].task.run], object[job[w].task.run])

(* What a boot has read is still as it was read. *)
SoleBoot ==
  worker = "reaping" =>
    \A r \in stale : /\ run[r] # Unused
                     /\ Live(run[r]) => Measurement!InProgress(run[r].status)

SoleInv == RunInv /\ SoleRequests /\ SoleJobs /\ SoleBoot /\ Measurement!ResultsOfConfirmedBoxes

LEMMA SoleRequestsKept ==
  ASSUME Measurement!RunAssumption, SoleInv, AllAdvance,
         \A d \in Clients : Measurement!InFlight(d, "confirm")' => request'[d] = request[d],
         \A q \in Runs : Live(run'[q]) /\ run[q].status = "AWAITING_CONFIRM"
                           => run'[q].status = "AWAITING_CONFIRM"
  PROVE  SoleRequests'
<1> SUFFICES ASSUME NEW d \in Clients, request'[d] = request[d], Measurement!InFlight(d, "confirm"),
                    Live(run'[request[d].task.run])
             PROVE  run'[request[d].task.run].status = "AWAITING_CONFIRM"
  BY DEF SoleRequests, Measurement!InFlight
<1>1. request[d].task.run \in Runs
  BY DEF SoleInv, RunInv, Measurement!TypeOK, Measurement!Request, Measurement!Task,
     Measurement!InFlight
<1> QED BY <1>1, AdvancedRuns DEF SoleInv, SoleRequests, Live

LEMMA SoleJobsKept ==
  ASSUME Measurement!RunAssumption, SoleInv, RunInv', AllAdvance,
         \A q \in Runs : Live(run'[q]) /\ run[q].status \in Confirmed =>
           /\ run'[q].boxes = run[q].boxes
           /\ object'[q].results \in {object[q].results, run[q].boxes},
         \A v \in Slots : job'[v] # Idle =>
           \/ job'[v] = job[v]
           \/ RightBoxes(job'[v], run'[job'[v].task.run], object'[job'[v].task.run])
  PROVE  SoleJobs'
<1> SUFFICES ASSUME NEW v \in Slots, job[v] # Idle, job'[v] = job[v],
                    job[v].task.kind = "process", job[v].step \in Working,
                    Live(run'[job[v].task.run])
             PROVE  /\ job[v].boxes = run'[job[v].task.run].boxes
                    /\ job[v].step = "commit"
                         => object'[job[v].task.run].results = run'[job[v].task.run].boxes
  BY DEF SoleJobs, RightBoxes
<1> DEFINE r == job[v].task.run
<1>1. r \in Runs
  BY AtWork DEF SoleInv
<1>2. Live(run[r])
  BY <1>1, AdvancedRuns DEF Live
<1>3. run[r].status \in Confirmed
  BY <1>2, AtWork DEF SoleInv, JobOK
<1>4. job[v].boxes = run[r].boxes /\ (job[v].step = "commit" => object[r].results = run[r].boxes)
  BY <1>2 DEF SoleInv, SoleJobs, RightBoxes
<1> HIDE DEF r
<1>5. /\ run'[r].boxes = run[r].boxes
      /\ object'[r].results \in {object[r].results, run[r].boxes}
  BY <1>1, <1>3 DEF r
<1> QED BY <1>4, <1>5 DEF r

LEMMA ResultsKept ==
  ASSUME Measurement!RunAssumption, SoleInv, AllAdvance,
         \A q \in Runs : Live(run'[q]) /\ run'[q].status = "DONE" =>
           \/ /\ run[q].status = "DONE"
              /\ run'[q].results = run[q].results
              /\ run'[q].boxes = run[q].boxes
              /\ object'[q].results \in {object[q].results, run[q].boxes}
           \/ run'[q].results = run'[q].boxes /\ object'[q].results = run'[q].boxes
  PROVE  Measurement!ResultsOfConfirmedBoxes'
<1> SUFFICES ASSUME NEW q \in Runs, Live(run'[q]), run'[q].status = "DONE"
             PROVE  run'[q].results = run'[q].boxes /\ object'[q].results = run'[q].boxes
  BY DEF Measurement!ResultsOfConfirmedBoxes, Measurement!Stored, Live
<1>1. run[q].status = "DONE" => run[q].results = run[q].boxes /\ object[q].results = run[q].boxes
  BY AdvancedRuns DEF SoleInv, Measurement!ResultsOfConfirmedBoxes, Measurement!Stored, Live
<1> QED BY <1>1

LEMMA SoleBootKept ==
  ASSUME Measurement!RunAssumption, SoleInv, AllAdvance, worker' = worker, stale' = stale,
         \A q \in Runs : run'[q] \notin {run[q], Deleted}
           => Live(run[q]) /\ ~Measurement!InProgress(run[q].status)
  PROVE  SoleBoot'
<1> SUFFICES ASSUME worker = "reaping", NEW q \in stale
             PROVE  run'[q] # Unused /\ (Live(run'[q]) => Measurement!InProgress(run'[q].status))
  BY DEF SoleBoot
<1>1. q \in Runs
  BY DEF SoleInv, RunInv, Measurement!TypeOK
<1>2. run[q] # Unused /\ (Live(run[q]) => Measurement!InProgress(run[q].status))
  BY DEF SoleInv, SoleBoot
<1>3. run'[q] = run[q] \/ run'[q] = Deleted
  BY <1>1, <1>2
<1> QED BY <1>2, <1>3 DEF Live, Measurement!RunAssumption

(* Steps that write neither rows nor artifacts of stored runs and leave    *)
(* the boot alone.                                                         *)
LEMMA SoleQuiet ==
  ASSUME Measurement!RunAssumption, SoleInv, RunInv', AllAdvance,
         \A q \in Runs : Live(run'[q]) => run'[q] = run[q] /\ object'[q] = object[q],
         \A q \in Runs : run'[q] = run[q] \/ run'[q] = Deleted,
         SoleRequests',
         \A v \in Slots : job'[v] # Idle => job'[v] = job[v] \/
           RightBoxes(job'[v], run'[job'[v].task.run], object'[job'[v].task.run]),
         worker' = worker, stale' = stale
  PROVE  SoleInv'
<1>1. SoleJobs'
  BY SoleJobsKept
<1>2. Measurement!ResultsOfConfirmedBoxes'
  BY ResultsKept
<1>3. SoleBoot'
  BY SoleBootKept
<1> QED BY <1>1, <1>2, <1>3 DEF SoleInv

LEMMA SoleClient ==
  ASSUME Measurement!RunAssumption, SoleInv, RunInv', OneOperator, NEW c \in Clients,
         \/ Measurement!Client(c)
         \/ \E r \in Runs : \/ Measurement!CreateMeasurement(c, r) \/ Measurement!LoadDelete(c, r)
                            \/ \E b \in Boxes : Measurement!LoadConfirm(c, r, b)
  PROVE  SoleInv'
<1>1. \A d \in Clients : d = c
  BY DEF OneOperator
<1>2. RunInv /\ Measurement!TypeOK
  BY DEF SoleInv, RunInv
<1>3. CASE Measurement!CommitConfirm(c)
  <2> DEFINE r == request[c].task.run
  <2> DEFINE m == [run[r] EXCEPT !.status = "PROCESSING", !.boxes = request[c].row.boxes]
  <2>1. /\ request[c] \in Measurement!Request /\ Measurement!InFlight(c, "confirm")
        /\ r \in Runs /\ run[r] \in Measurement!Row /\ Live(run[r])
    BY <1>2, <1>3 DEF Measurement!CommitConfirm, Measurement!InFlight, Measurement!Stored, Live,
       Measurement!TypeOK, Measurement!Request, Measurement!Task
  <2>2. run[r].status = "AWAITING_CONFIRM"
    BY <2>1 DEF SoleInv, SoleRequests
  <2>3. m.status = "PROCESSING"
    BY <2>1 DEF Measurement!Row
  <2>4. /\ run' = [run EXCEPT ![r] = m]
        /\ request' = [request EXCEPT ![c].step = "enqueue"]
        /\ UNCHANGED <<object, broker, worker, job, stale, missed>>
    BY <1>2, <1>3, <2>1 DEF Measurement!CommitConfirm, Measurement!TypeOK, Measurement!Row
  <2> HIDE DEF m
  <2>5. run'[r] = m /\ \A q \in Runs \ {r} : run'[q] = run[q]
    BY <1>2, <2>1, <2>4 DEF Measurement!TypeOK
  <2>6. AllAdvance
    BY <2>1, <2>2, <2>3, <2>5, <1>2
       DEF AllAdvance, Advances, Live, Confirmed, Measurement!RunAssumption, RunInv,
          Measurement!TypeOK, SoleInv
  <2>7. ~Measurement!InFlight(c, "confirm")'
    BY <1>2, <2>1, <2>4 DEF Measurement!InFlight, Measurement!TypeOK, Measurement!Request
  <2>8. SoleRequests'
    BY <1>1, <2>7 DEF SoleRequests
  <2>9. SoleJobs'
    BY <2>2, <2>4, <2>5, <2>6, SoleJobsKept DEF Confirmed
  <2>10. Measurement!ResultsOfConfirmedBoxes'
    BY <2>3, <2>4, <2>5, <2>6, ResultsKept
  <2>11. SoleBoot'
    <3>1. ~Measurement!InProgress(run[r].status)
      BY <2>2 DEF Measurement!InProgress
    <3> QED BY <2>1, <2>4, <2>5, <2>6, <3>1, SoleBootKept
  <2> QED BY <2>8, <2>9, <2>10, <2>11 DEF SoleInv
<1>4. ASSUME NEW r \in Runs, Measurement!CreateMeasurement(c, r) PROVE SoleInv'
  <2>1. /\ run[r] = Unused /\ run'[r] = Measurement!NewRow /\ \A q \in Runs \ {r} : run'[q] = run[q]
        /\ request'[c].step = "enqueue"
        /\ UNCHANGED <<object, broker, worker, job, stale, missed>>
    BY <1>2, <1>4 DEF Measurement!CreateMeasurement, Measurement!TypeOK
  <2>2. SoleRequests'
    BY <1>1, <2>1 DEF SoleRequests, Measurement!InFlight
  <2>3. SoleJobs'
    <3>1. \A v \in Slots : job[v] # Idle => job[v].task.run \in Runs \ {r}
      BY <1>2, <2>1, AtWork
    <3> QED BY <2>1, <3>1 DEF SoleInv, SoleJobs, RightBoxes
  <2>4. Measurement!ResultsOfConfirmedBoxes'
    BY <2>1 DEF SoleInv, Measurement!ResultsOfConfirmedBoxes, Measurement!Stored, Measurement!NewRow
  <2>5. SoleBoot'
    <3>1. worker = "reaping" => r \notin stale
      BY <2>1 DEF SoleInv, SoleBoot
    <3> QED BY <1>2, <2>1, <3>1 DEF SoleInv, SoleBoot, Measurement!TypeOK
  <2> QED BY <2>2, <2>3, <2>4, <2>5 DEF SoleInv
<1>5. CASE \/ Measurement!Enqueue(c) \/ Measurement!LoseRequest(c) \/ Measurement!CommitDelete(c)
           \/ \E r \in Runs : \/ Measurement!LoadDelete(c, r)
                              \/ \E b \in Boxes : Measurement!LoadConfirm(c, r, b)
  <2>1. /\ \A q \in Runs : run'[q] = run[q] \/ run'[q] = Deleted
        /\ UNCHANGED <<object, worker, job, stale, missed>>
    BY <1>2, <1>5
       DEF Measurement!Enqueue, Measurement!LoseRequest, Measurement!CommitDelete,
          Measurement!LoadDelete, Measurement!LoadConfirm, Measurement!TypeOK
  <2>2. AllAdvance
    BY <2>1 DEF AllAdvance, Advances
  <2>3. SoleRequests'
    <3> SUFFICES ASSUME Measurement!InFlight(c, "confirm")'
                 PROVE  Live(run[request[c].task.run])' =>
                          run'[request'[c].task.run].status = "AWAITING_CONFIRM"
      BY <1>1 DEF SoleRequests
    <3>1. CASE Measurement!Enqueue(c) \/ Measurement!LoseRequest(c)
      BY <1>2, <3>1 DEF Measurement!Enqueue, Measurement!LoseRequest, Measurement!End,
         Measurement!InFlight, Measurement!TypeOK
    <3>2. CASE Measurement!CommitDelete(c)
      <4>1. request[c] \in Measurement!Request
        BY <1>2, <3>2 DEF Measurement!CommitDelete, Measurement!InFlight, Measurement!TypeOK
      <4>2. request'[c].step = "drop"
        BY <1>2, <3>2, <4>1 DEF Measurement!CommitDelete, Measurement!TypeOK, Measurement!Request
      <4> QED BY <4>2 DEF Measurement!InFlight
    <3>3. ASSUME NEW r \in Runs, Measurement!LoadDelete(c, r) PROVE FALSE
      BY <1>2, <3>3 DEF Measurement!LoadDelete, Measurement!InFlight, Measurement!TypeOK
    <3>4. ASSUME NEW r \in Runs, NEW b \in Boxes, Measurement!LoadConfirm(c, r, b)
          PROVE  run'[request'[c].task.run].status = "AWAITING_CONFIRM"
      BY <1>2, <3>4 DEF Measurement!LoadConfirm, Measurement!ProcessTask, Measurement!TypeOK
    <3> QED BY <1>5, <3>1, <3>2, <3>3, <3>4
  <2> QED BY <2>1, <2>2, <2>3, SoleQuiet DEF Live
<1>6. CASE Measurement!DropArtifacts(c)
  <2> DEFINE r == request[c].task.run
  <2>1. request[c] # Idle /\ request[c].step = "drop" /\ r \in Runs
    BY <1>2, <1>6 DEF Measurement!DropArtifacts, Measurement!InFlight, Measurement!TypeOK,
       Measurement!Request, Measurement!Task
  <2>2. ~Live(run[r])
    BY <2>1, <1>2 DEF RunInv, Requests, RequestOK
  <2>3. /\ \A q \in Runs \ {r} : object'[q] = object[q]
        /\ request'[c] = Idle
        /\ UNCHANGED <<run, broker, worker, job, stale, missed>>
    BY <1>2, <1>6 DEF Measurement!DropArtifacts, Measurement!End, Measurement!TypeOK
  <2>4. SoleRequests'
    BY <1>1, <2>3 DEF SoleRequests, Measurement!InFlight
  <2>5. AllAdvance
    BY <2>3 DEF AllAdvance, Advances
  <2> QED BY <2>2, <2>3, <2>4, <2>5, SoleQuiet
<1> QED BY <1>3, <1>4, <1>5, <1>6 DEF Measurement!Client

(* A step of process w: no stored run awaits confirmation in its hands. *)
LEMMA SoleProcess ==
  ASSUME Measurement!RunAssumption, SoleInv, RunInv', NEW w \in Slots, Measurement!Process(w)
  PROVE  SoleInv'
<1> DEFINE r == job[w].task.run
<1>1. /\ job[w] # Idle /\ worker = "up" /\ UNCHANGED <<worker, stale, request>>
      /\ job[w] \in Measurement!Job /\ job[w].task \in Measurement!Task /\ r \in Runs
  <2>1. job[w] # Idle /\ UNCHANGED <<worker, stale, request>>
    BY DEF Measurement!Process, Measurement!Work, Measurement!Upload,
       Measurement!FinishFirstFrame, Measurement!FinishProcessing, Measurement!JobFails,
         Measurement!ReturnStatus,
           Measurement!ChainProcessing, Measurement!Acknowledge, Measurement!AtStep
  <2> QED BY <2>1, AtWork DEF SoleInv, RunInv, Boot, Measurement!TypeOK
<1>2. RunInv /\ Measurement!TypeOK /\ SoleBoot'
  BY <1>1 DEF SoleInv, RunInv, SoleBoot
<1>3. \A v \in Slots \ {w} : job'[v] = job[v]
  BY <1>2 DEF Measurement!Process, Measurement!Work, Measurement!Upload,
     Measurement!FinishFirstFrame, Measurement!FinishProcessing, Measurement!JobFails,
       Measurement!ReturnStatus,
              Measurement!ChainProcessing, Measurement!Acknowledge, Measurement!GoTo,
                Measurement!TypeOK
<1>4. Live(run[r]) => /\ job[w].task.kind = "first_frame" /\ job[w].step \in Working
                           => run[r].status = "FIRST_FRAME"
                      /\ job[w].task.kind = "process"
                           => run[r].status \in Confirmed /\ RightBoxes(job[w], run[r], object[r])
  BY <1>1, <1>2, AtWork DEF JobOK, SoleInv, SoleJobs
<1>5. CASE \/ Measurement!Work(w) \/ Measurement!ReturnStatus(w)
          \/ Measurement!ChainProcessing(w) \/ Measurement!Acknowledge(w)
  <2>1. UNCHANGED <<run, object>>
    BY <1>5 DEF Measurement!Work, Measurement!ReturnStatus, Measurement!ChainProcessing,
       Measurement!Acknowledge
  <2>2. AllAdvance
    BY <2>1 DEF AllAdvance, Advances
  <2>3. SoleRequests'
    BY <1>1, <2>1 DEF SoleInv, SoleRequests, Measurement!InFlight
  <2>4. job'[w] # Idle => RightBoxes(job'[w], run'[job'[w].task.run], object'[job'[w].task.run])
    <3>1. CASE Measurement!Work(w) /\ job[w].task.kind = "process"
      <4>1. job[w].step = "work" /\ job'[w] = [job[w] EXCEPT !.step = "upload"]
        BY <1>2, <3>1 DEF Measurement!Work, Measurement!GoTo, Measurement!TypeOK
      <4>2. /\ job'[w].task = job[w].task /\ job'[w].boxes = job[w].boxes
            /\ job'[w].step = "upload"
        BY <1>1, <4>1 DEF Measurement!Job
      <4> QED BY <1>4, <2>1, <3>1, <4>1, <4>2 DEF RightBoxes, Working
    <3>2. CASE ~(Measurement!Work(w) /\ job[w].task.kind = "process")
      <4>1. job'[w] # Idle => job'[w].task = job[w].task /\
              (job[w].task.kind = "first_frame" \/ job'[w].step \in {"chain", "ack"})
        BY <1>1, <1>2, <1>5, <3>2
           DEF Measurement!Work, Measurement!ReturnStatus, Measurement!ChainProcessing,
              Measurement!Acknowledge, Measurement!AtStep, Measurement!GoTo, Measurement!TypeOK,
                Measurement!Job
      <4> QED BY <4>1 DEF RightBoxes, Working
    <3> QED BY <3>1, <3>2
  <2> QED BY <1>1, <1>3, <2>1, <2>2, <2>3, <2>4, SoleQuiet
<1>6. CASE Measurement!Upload(w)
  <2>1. /\ UNCHANGED run
        /\ \A q \in Runs \ {r} : object'[q] = object[q]
        /\ job[w].step = "upload" /\ job'[w] = [job[w] EXCEPT !.step = "commit"]
        /\ job[w].task.kind = "first_frame"
             => object'[r] = [object[r] EXCEPT !.frame = TRUE]
        /\ job[w].task.kind # "first_frame"
             => object'[r] = [object[r] EXCEPT !.results = job[w].boxes]
    BY <1>1, <1>2, <1>6 DEF Measurement!Upload, Measurement!GoTo, Measurement!TypeOK
  <2>2. object[r] \in Measurement!Artifacts /\ job[w].task.kind \in {"first_frame", "process"}
    BY <1>1, <1>2 DEF Measurement!TypeOK, Measurement!Task
  <2>3. /\ job[w].task.kind = "first_frame" => object'[r].results = object[r].results
        /\ job[w].task.kind = "process" => object'[r].results = job[w].boxes
    BY <2>1, <2>2 DEF Measurement!Artifacts
  <2>4. job[w].task.kind = "process" /\ Live(run[r]) => job[w].boxes = run[r].boxes
    BY <1>4, <2>1 DEF RightBoxes, Working
  <2>5. AllAdvance
    BY <2>1 DEF AllAdvance, Advances
  <2>6. SoleRequests'
    BY <1>1, <2>1 DEF SoleInv, SoleRequests, Measurement!InFlight
  <2>7. job'[w].task = job[w].task /\ job'[w].boxes = job[w].boxes
    BY <1>1, <2>1 DEF Measurement!Job
  <2>8. RightBoxes(job'[w], run'[r], object'[r])
    BY <2>1, <2>3, <2>4, <2>7 DEF RightBoxes
  <2>9. \A q \in Runs : Live(run[q]) => object'[q].results \in {object[q].results, run[q].boxes}
    BY <2>1, <2>2, <2>3, <2>4
  <2>10. SoleJobs'
    BY <1>2, <1>3, <2>1, <2>5, <2>7, <2>8, <2>9, SoleJobsKept
  <2>11. Measurement!ResultsOfConfirmedBoxes'
    BY <2>1, <2>5, <2>9, ResultsKept
  <2> QED BY <1>2, <2>6, <2>10, <2>11 DEF SoleInv
<1>7. CASE Measurement!FinishFirstFrame(w)
  <2>1. /\ Live(run[r]) /\ job[w].step = "commit" /\ job[w].task.kind = "first_frame"
        /\ UNCHANGED object /\ \A q \in Runs \ {r} : run'[q] = run[q]
        /\ job'[w] = [job[w] EXCEPT !.step = "return"]
    BY <1>1, <1>2, <1>7 DEF Measurement!FinishFirstFrame, Measurement!AtStep, Measurement!GoTo,
       Measurement!Stored, Live, Measurement!TypeOK
  <2>2. run[r] \in Measurement!Row /\ run[r].status = "FIRST_FRAME"
    BY <1>1, <1>2, <1>4, <2>1 DEF Measurement!TypeOK, Live, Working
  <2>3. run'[r].status # "DONE" /\ run'[r] \in Measurement!Row
    <3>1. PICK status \in {"PROCESSING", "AWAITING_CONFIRM"} :
            run'[r] = [run[r] EXCEPT !.status = status, !.frame = TRUE, !.boxes = job[w].boxes]
      BY <1>1, <1>2, <1>7, <2>2 DEF Measurement!FinishFirstFrame, Measurement!TypeOK,
         Measurement!Row
    <3> QED BY <1>1, <2>2, <3>1 DEF Measurement!Row, Measurement!Job, Measurement!Statuses
  <2>4. AllAdvance
    <3>1. run'[r].status \in {"PROCESSING", "AWAITING_CONFIRM"}
      BY <1>1, <1>2, <1>7, <2>2 DEF Measurement!FinishFirstFrame, Measurement!TypeOK,
         Measurement!Row
    <3> QED BY <2>1, <2>2, <2>3, <3>1
            DEF AllAdvance, Advances, Live, Confirmed, Measurement!RunAssumption
  <2>5. \A d \in Clients : Measurement!InFlight(d, "confirm")' => request'[d] = request[d]
    BY <1>1
  <2>6. SoleRequests'
    BY <2>1, <2>2, <2>4, <2>5, SoleRequestsKept
  <2>7. job'[w].task = job[w].task /\ job'[w].step = "return"
    BY <1>1, <2>1 DEF Measurement!Job
  <2>8. SoleJobs'
    <3>1. RightBoxes(job'[w], run'[r], object'[r])
      BY <2>7 DEF RightBoxes, Working
    <3> QED BY <1>2, <1>3, <2>1, <2>2, <2>4, <2>7, <3>1, SoleJobsKept DEF Confirmed
  <2>9. Measurement!ResultsOfConfirmedBoxes'
    BY <2>1, <2>3, <2>4, ResultsKept
  <2> QED BY <1>2, <2>6, <2>8, <2>9 DEF SoleInv
<1>8. CASE Measurement!FinishProcessing(w)
  <2>1. /\ Live(run[r]) /\ job[w].step = "commit" /\ job[w].task.kind = "process"
        /\ UNCHANGED object /\ \A q \in Runs \ {r} : run'[q] = run[q]
        /\ job'[w] = [job[w] EXCEPT !.step = "ack"]
    BY <1>1, <1>2, <1>8 DEF Measurement!FinishProcessing, Measurement!AtStep, Measurement!GoTo,
       Measurement!Stored, Live, Measurement!TypeOK
  <2>2. /\ run[r] \in Measurement!Row /\ run[r].status \in Confirmed
        /\ job[w].boxes = run[r].boxes /\ object[r].results = run[r].boxes
    BY <1>1, <1>2, <1>4, <2>1 DEF Measurement!TypeOK, Live, Working, RightBoxes
  <2>3. run'[r] = [run[r] EXCEPT !.status = "DONE", !.results = job[w].boxes]
    BY <1>1, <1>2, <1>8, <2>2 DEF Measurement!FinishProcessing, Measurement!TypeOK, Measurement!Row
  <2>4. /\ run'[r].status = "DONE" /\ run'[r].boxes = run[r].boxes
        /\ run'[r].results = run[r].boxes /\ Live(run'[r])
    <3>1. run'[r] \in Measurement!Row
      BY <1>1, <2>2, <2>3 DEF Measurement!Row, Measurement!Job, Measurement!Statuses
    <3> QED BY <2>2, <2>3, <3>1 DEF Measurement!Row, Live, Measurement!RunAssumption
  <2>5. AllAdvance
    BY <2>1, <2>2, <2>4 DEF AllAdvance, Advances, Live, Confirmed
  <2>6. \A d \in Clients : Measurement!InFlight(d, "confirm")' => request'[d] = request[d]
    BY <1>1
  <2>7. SoleRequests'
    BY <2>1, <2>2, <2>5, <2>6, SoleRequestsKept DEF Confirmed
  <2>8. job'[w].task = job[w].task /\ job'[w].step = "ack"
    BY <1>1, <2>1 DEF Measurement!Job
  <2>9. SoleJobs'
    <3>1. RightBoxes(job'[w], run'[r], object'[r])
      BY <2>8 DEF RightBoxes, Working
    <3> QED BY <1>2, <1>3, <2>1, <2>4, <2>5, <2>8, <3>1, SoleJobsKept
  <2>10. Measurement!ResultsOfConfirmedBoxes'
    BY <2>1, <2>2, <2>4, <2>5, ResultsKept
  <2> QED BY <1>2, <2>7, <2>9, <2>10 DEF SoleInv
<1>9. CASE Measurement!JobFails(w)
  <2>1. /\ job[w].step \in Working /\ UNCHANGED object /\ \A q \in Runs \ {r} : run'[q] = run[q]
        /\ job'[w] = [job[w] EXCEPT !.step = "ack"]
        /\ run'[r] = IF Live(run[r]) /\ run[r].status # "DONE"
                     THEN [run[r] EXCEPT !.status = "ERROR"] ELSE run[r]
    BY <1>1, <1>2, <1>9 DEF Measurement!JobFails, Measurement!GoTo, Measurement!Stored, Live,
       Measurement!TypeOK, Working
  <2>2. run'[r] = run[r] \/
          /\ Live(run[r]) /\ Live(run'[r])
          /\ run'[r].status = "ERROR" /\ run'[r].boxes = run[r].boxes
    <3>1. Live(run[r]) => run[r] \in Measurement!Row
      BY <1>1, <1>2 DEF Measurement!TypeOK, Live
    <3>2. Live(run[r]) => [run[r] EXCEPT !.status = "ERROR"] \in Measurement!Row
      BY <3>1 DEF Measurement!Row, Measurement!Statuses
    <3> QED BY <2>1, <3>1, <3>2 DEF Measurement!Row, Live, Measurement!RunAssumption
  <2>3. Live(run[r]) => run[r].status # "AWAITING_CONFIRM"
    <3>1. job[w].task.kind \in {"first_frame", "process"}
      BY <1>1 DEF Measurement!Task
    <3> QED BY <1>4, <2>1, <3>1 DEF Confirmed
  <2>4. AllAdvance
    BY <2>1, <2>2 DEF AllAdvance, Advances, Live, Confirmed
  <2>5. \A d \in Clients : Measurement!InFlight(d, "confirm")' => request'[d] = request[d]
    BY <1>1
  <2>6. SoleRequests'
    <3>1. \A q \in Runs : Live(run'[q]) /\ run[q].status = "AWAITING_CONFIRM"
                            => run'[q].status = "AWAITING_CONFIRM"
      BY <2>1, <2>2, <2>3
    <3> QED BY <2>4, <2>5, <3>1, SoleRequestsKept
  <2>7. job'[w].task = job[w].task /\ job'[w].step = "ack"
    BY <1>1, <2>1 DEF Measurement!Job
  <2>8. SoleJobs'
    <3>1. RightBoxes(job'[w], run'[r], object'[r])
      BY <2>7 DEF RightBoxes, Working
    <3>2. \A q \in Runs : Live(run'[q]) /\ run[q].status \in Confirmed
                            => run'[q].boxes = run[q].boxes
      BY <2>1, <2>2
    <3> QED BY <1>2, <1>3, <2>1, <2>4, <2>7, <3>1, <3>2, SoleJobsKept
  <2>9. Measurement!ResultsOfConfirmedBoxes'
    BY <2>1, <2>2, <2>4, ResultsKept
  <2> QED BY <1>2, <2>6, <2>8, <2>9 DEF SoleInv
<1> QED BY <1>5, <1>6, <1>7, <1>8, <1>9 DEF Measurement!Process

LEMMA SoleStart ==
  ASSUME Measurement!RunAssumption, SoleInv, RunInv', NEW w \in Slots, NEW r \in Runs,
         Measurement!StartFirstFrame(w, r) \/ Measurement!StartProcessing(w, r)
  PROVE  SoleInv'
<1>1. RunInv /\ Measurement!TypeOK
  BY DEF SoleInv, RunInv
<1>2. /\ UNCHANGED <<object, worker, stale, missed, request>>
      /\ \A v \in Slots \ {w} : job'[v] = job[v]
  BY <1>1 DEF Measurement!StartFirstFrame, Measurement!StartProcessing, Measurement!Take,
     Measurement!TypeOK
<1>3. CASE Measurement!StartFirstFrame(w, r) /\ Live(run[r]) /\ run[r].status = "QUEUED"
  <2>1. /\ run' = [run EXCEPT ![r].status = "FIRST_FRAME"]
        /\ job'[w].task.kind = "first_frame"
    BY <1>1, <1>3 DEF Measurement!StartFirstFrame, Measurement!Take, Measurement!FirstFrameTask,
       Measurement!TypeOK, Live, Measurement!Stored
  <2>2. run[r] \in Measurement!Row
    BY <1>1, <1>3 DEF Measurement!TypeOK, Live
  <2>3. [run[r] EXCEPT !.status = "FIRST_FRAME"] \in Measurement!Row
    BY <2>2 DEF Measurement!Row, Measurement!Statuses
  <2>4. /\ Live(run'[r]) /\ run'[r].status = "FIRST_FRAME"
        /\ \A q \in Runs \ {r} : run'[q] = run[q]
    BY <1>1, <2>1, <2>2, <2>3 DEF Measurement!TypeOK, Measurement!Row, Live,
       Measurement!RunAssumption
  <2>5. AllAdvance
    BY <1>3, <2>4 DEF AllAdvance, Advances, Live, Confirmed
  <2>6. SoleRequests'
    BY <1>2, <1>3, <2>4, <2>5, SoleRequestsKept
  <2>7. SoleJobs'
    <3>1. RightBoxes(job'[w], run'[job'[w].task.run], object'[job'[w].task.run])
      BY <2>1 DEF RightBoxes
    <3> QED BY <1>2, <1>3, <2>4, <2>5, <3>1, SoleJobsKept DEF Confirmed
  <2>8. Measurement!ResultsOfConfirmedBoxes'
    BY <1>2, <2>4, <2>5, ResultsKept
  <2>9. SoleBoot'
    <3>1. ~Measurement!InProgress(run[r].status)
      BY <1>3 DEF Measurement!InProgress
    <3> QED BY <1>2, <1>3, <2>4, <2>5, <3>1, SoleBootKept
  <2> QED BY <2>6, <2>7, <2>8, <2>9 DEF SoleInv
<1>4. CASE ~(Measurement!StartFirstFrame(w, r) /\ Live(run[r]) /\ run[r].status = "QUEUED")
  <2>1. /\ UNCHANGED run
        /\ RightBoxes(job'[w], run[job'[w].task.run], object[job'[w].task.run])
    <3>1. CASE Measurement!StartFirstFrame(w, r)
      <4>1. UNCHANGED run /\ job'[w].task.kind = "first_frame"
        BY <1>1, <1>4, <3>1 DEF Measurement!StartFirstFrame, Measurement!Take,
           Measurement!FirstFrameTask, Measurement!TypeOK, Live, Measurement!Stored
      <4> QED BY <4>1 DEF RightBoxes
    <3>2. CASE Measurement!Take(w, Measurement!ProcessTask(r), "ack", NULL) /\ UNCHANGED run
      <4>1. job'[w].step = "ack"
        BY <1>1, <3>2 DEF Measurement!Take, Measurement!TypeOK
      <4> QED BY <3>2, <4>1 DEF RightBoxes, Working
    <3>3. CASE /\ Measurement!Stored(r) /\ run[r].status \in {"PROCESSING", "AWAITING_CONFIRM"}
               /\ Measurement!Take(w, Measurement!ProcessTask(r), "work", run[r].boxes)
               /\ run' = [run EXCEPT ![r].status = "PROCESSING"]
      <4>1. Measurement!ProcessTask(r) \in Measurement!Task
              /\ Measurement!ProcessTask(r).run = r /\ Measurement!ProcessTask(r).kind = "process"
        BY TaskTypes DEF Measurement!ProcessTask
      <4>2. run[r] \in Measurement!Row /\ run[r].status = "PROCESSING"
        BY <1>1, <3>3, <4>1, StoredRow DEF Measurement!Take, RunInv, Queue, Measurement!Stored,
           Live, Confirmed
      <4>3. [run[r] EXCEPT !.status = "PROCESSING"] = run[r]
        BY <4>2 DEF Measurement!Row
      <4>4. UNCHANGED run
        BY <1>1, <3>3, <4>3 DEF Measurement!TypeOK
      <4>5. job'[w] = [task |-> Measurement!ProcessTask(r), step |-> "work", boxes |-> run[r].boxes]
        BY <1>1, <3>3 DEF Measurement!Take, Measurement!TypeOK
      <4> QED BY <4>1, <4>4, <4>5 DEF RightBoxes
    <3> QED BY <3>1, <3>2, <3>3 DEF Measurement!StartProcessing
  <2>2. AllAdvance
    BY <2>1 DEF AllAdvance, Advances
  <2>3. SoleRequests'
    BY <1>2, <2>1 DEF SoleInv, SoleRequests, Measurement!InFlight
  <2> QED BY <1>2, <2>1, <2>2, <2>3, SoleQuiet
<1> QED BY <1>3, <1>4

LEMMA SoleContainer ==
  ASSUME Measurement!RunAssumption, SoleInv, RunInv',
     Measurement!WorkerCrash \/ Measurement!BootReads \/ Measurement!BootReaps
  PROVE  SoleInv'
<1>1. RunInv /\ Measurement!TypeOK /\ UNCHANGED <<object, request>>
  BY DEF SoleInv, RunInv, Measurement!WorkerCrash, Measurement!BootReads, Measurement!BootReaps
<1>2. \A w \in Slots : job'[w] = Idle
  BY <1>1 DEF Measurement!WorkerCrash, Measurement!BootReads, Measurement!BootReaps, RunInv, Boot
<1>3. SoleJobs'
  BY <1>2 DEF SoleJobs
<1>4. CASE Measurement!WorkerCrash \/ Measurement!BootReads
  <2>1. UNCHANGED run
    BY <1>4 DEF Measurement!WorkerCrash, Measurement!BootReads
  <2>2. SoleRequests' /\ Measurement!ResultsOfConfirmedBoxes'
    BY <1>1, <2>1 DEF SoleInv, SoleRequests, Measurement!InFlight,
       Measurement!ResultsOfConfirmedBoxes, Measurement!Stored
  <2>3. SoleBoot'
    BY <1>4 DEF Measurement!WorkerCrash, Measurement!BootReads, SoleBoot, Measurement!Stored, Live
  <2> QED BY <1>3, <2>2, <2>3 DEF SoleInv
<1>5. CASE Measurement!BootReaps
  <2>1. worker = "reaping" /\ worker' = "up"
    BY <1>5 DEF Measurement!BootReaps
  <2>2. \A q \in Runs : run'[q] = run[q] \/
          /\ Live(run[q]) /\ Measurement!InProgress(run[q].status) /\ run[q] \in Measurement!Row
          /\ run'[q] = [run[q] EXCEPT !.status = "ERROR"]
    BY <1>1, <1>5, <2>1, StoredRow DEF Measurement!BootReaps, SoleInv, SoleBoot,
       Measurement!TypeOK, Measurement!Stored, Live
  <2>3. \A q \in Runs : run'[q] = run[q] \/
          /\ Live(run[q]) /\ run[q].status # "AWAITING_CONFIRM"
          /\ Live(run'[q]) /\ run'[q].status = "ERROR"
    <3> SUFFICES ASSUME NEW q \in Runs, Measurement!InProgress(run[q].status),
          run[q] \in Measurement!Row, Live(run[q]),
                        run'[q] = [run[q] EXCEPT !.status = "ERROR"]
                 PROVE  /\ run[q].status # "AWAITING_CONFIRM"
                        /\ Live(run'[q]) /\ run'[q].status = "ERROR"
      BY <2>2
    <3>1. run'[q] \in Measurement!Row
      BY DEF Measurement!Row, Measurement!Statuses
    <3> QED BY <3>1 DEF Measurement!Row, Live, Measurement!RunAssumption, Measurement!InProgress
  <2>4. AllAdvance
    BY <2>3 DEF AllAdvance, Advances, Live, Confirmed
  <2>5. SoleRequests'
    <3>1. \A q \in Runs : Live(run'[q]) /\ run[q].status = "AWAITING_CONFIRM"
                            => run'[q].status = "AWAITING_CONFIRM"
      BY <2>3
    <3> QED BY <1>1, <2>4, <3>1, SoleRequestsKept
  <2>6. Measurement!ResultsOfConfirmedBoxes'
    BY <1>1, <2>3, <2>4, ResultsKept
  <2>7. SoleBoot'
    BY <2>1 DEF SoleBoot
  <2> QED BY <1>3, <2>5, <2>6, <2>7 DEF SoleInv
<1> QED BY <1>4, <1>5

LEMMA SoleKeeps == ASSUME Measurement!RunAssumption, OneOperator, SoleInv,
  [Measurement!Next]_(Measurement!vars) PROVE SoleInv'
<1>1. RunInv'
  BY NextKeeps DEF SoleInv
<1>2. ASSUME NEW r \in Runs, Measurement!CascadeDelete(r) PROVE SoleInv'
  <2>1. /\ \A q \in Runs : run'[q] = run[q] \/ run'[q] = Deleted
        /\ UNCHANGED <<object, worker, job, stale, missed, request>>
    BY <1>2 DEF Measurement!CascadeDelete, SoleInv, RunInv, Measurement!TypeOK
  <2>2. AllAdvance
    BY <2>1 DEF AllAdvance, Advances
  <2>3. \A q \in Runs : Live(run'[q]) => run'[q] = run[q]
    BY <2>1 DEF Live
  <2>4. SoleRequests'
    BY <2>1, <2>2, <2>3, SoleRequestsKept
  <2> QED BY <1>1, <2>1, <2>2, <2>3, <2>4, SoleQuiet
<1>3. CASE UNCHANGED Measurement!vars
  BY <1>1, <1>3 DEF Measurement!vars, SoleInv, SoleRequests, Measurement!InFlight, SoleJobs,
     SoleBoot,
     Measurement!ResultsOfConfirmedBoxes, Measurement!Stored
<1> QED BY <1>1, <1>2, <1>3, SoleClient, SoleProcess, SoleStart, SoleContainer DEF Measurement!Next

LEMMA SoleInit == ASSUME Measurement!RunAssumption, Measurement!Init PROVE SoleInv
<1>1. RunInv
  BY InitKeeps
<1>2. /\ \A c \in Clients : ~Measurement!InFlight(c, "confirm")
      /\ \A w \in Slots : job[w] = Idle
      /\ \A r \in Runs : ~Measurement!Stored(r)
      /\ worker = "up"
  BY DEF Measurement!Init, Measurement!InFlight, Measurement!Stored
<1> QED BY <1>1, <1>2 DEF SoleInv, SoleRequests, SoleJobs, SoleBoot,
      Measurement!ResultsOfConfirmedBoxes

-----------------------------------------------------------------------------
(* Theorems *)

\* What the invariant says of the properties of MeasurementRun.
LEMMA RunInvSays ==
  ASSUME RunInv PROVE Measurement!PointersResolve /\ Measurement!ProcessOnlyConfirmed
     /\ Measurement!FirstFrameOwned
<1>1. Measurement!PointersResolve
  BY DEF RunInv, Rows, RowOK, Measurement!PointersResolve, Measurement!Stored, Live
<1>2. Measurement!ProcessOnlyConfirmed
  <2> SUFFICES ASSUME NEW r \in Runs, Live(run[r]), Measurement!Assigned(Measurement!ProcessTask(r))
               PROVE  run[r].status \in Confirmed
    BY DEF Measurement!ProcessOnlyConfirmed, Confirmed, Measurement!Stored, Live
  <2>1. Measurement!ProcessTask(r) \in Measurement!Task /\ Measurement!ProcessTask(r).run = r
          /\ Measurement!ProcessTask(r).kind = "process"
    BY TaskTypes DEF Measurement!ProcessTask
  <2>2. CASE broker[Measurement!ProcessTask(r)] > 0
    BY <2>1, <2>2 DEF RunInv, Queue
  <2>3. ASSUME NEW w \in Slots, job[w] # Idle, job[w].task = Measurement!ProcessTask(r)
        PROVE  run[r].status \in Confirmed
    BY <2>1, <2>3 DEF RunInv, Jobs, JobOK
  <2> QED BY <2>2, <2>3 DEF Measurement!Assigned
<1>3. Measurement!FirstFrameOwned
  BY DEF RunInv, Owned, Measurement!FirstFrameOwned, Detects, Measurement!Stored, Live
<1> QED BY <1>1, <1>2, <1>3

-----------------------------------------------------------------------------
(* The order of an inspection's files *)

\* The module of the media files counts as this one does.
LEMMA CountedAlike ==
  /\ \A S : Media!Cardinality(S) = Cardinality(S)
  /\ \A S : Media!IsFiniteSet(S) <=> IsFiniteSet(S)
  /\ \A S, T : Media!Injection(S, T) = Injection(S, T)
  /\ \A S, T : Media!Surjection(S, T) = Surjection(S, T)
  /\ \A S, T : Media!Bijection(S, T) = Bijection(S, T)
<1>1. \A S, T : Media!Injection(S, T) = Injection(S, T)
  BY DEF Media!Injection, Injection, Media!IsInjective, IsInjective
<1>2. \A S, T : Media!Surjection(S, T) = Surjection(S, T)
  BY DEF Media!Surjection, Surjection
<1>3. \A S, T : Media!Bijection(S, T) = Bijection(S, T)
  BY <1>1, <1>2 DEF Media!Bijection, Bijection
<1>4. \A S : Media!Cardinality(S) = Cardinality(S)
  BY DEF Media!Cardinality, Cardinality
<1>5. \A S : Media!IsFiniteSet(S) <=> IsFiniteSet(S)
  BY DEF Media!IsFiniteSet, IsFiniteSet
<1> QED BY <1>1, <1>2, <1>3, <1>4, <1>5

Table == [Media!Files -> Media!Row \cup {Absent}]

(* The orders of S are 1..N+1 without q.  A set that is dense has q = N+1; *)
(* one that a file has just left lacks the place of that file.             *)
Spread(table, S, q) ==
  /\ q \in 1..(Media!Cardinality(S) + 1)
  /\ {table[f].order : f \in S} = (1..(Media!Cardinality(S) + 1)) \ {q}

-----------------------------------------------------------------------------
(* Counting *)

LEMMA AttachedFinite ==
  ASSUME Media!MediaAssumption, NEW table, NEW i
  PROVE  /\ Media!IsFiniteSet(Media!Attached(table, i))
         /\ Media!Cardinality(Media!Attached(table, i)) \in Nat
         /\ Media!Attached(table, i) \subseteq Media!Files
<1>1. Media!IsFiniteSet(Media!Files)
  BY FS_Union, CountedAlike DEF Media!Files, Media!MediaAssumption
<1>2. Media!Attached(table, i) \in SUBSET Media!Files
  BY DEF Media!Attached
<1> QED BY <1>1, <1>2, FS_Subset, FS_CardinalityType, CountedAlike

\* A numbering 1..N of N files gives no number twice.
LEMMA NumbersApart ==
  ASSUME NEW S, Media!IsFiniteSet(S), NEW o, {o[f] : f \in S} = 1..Media!Cardinality(S)
  PROVE  \A f, g \in S : o[f] = o[g] => f = g
<1> DEFINE D == 1..Media!Cardinality(S)
           b == [f \in S |-> o[f]]
<1>1. Media!Cardinality(S) \in Nat
  BY FS_CardinalityType, CountedAlike
<1>2. Media!Cardinality(D) = Media!Cardinality(S)
  BY <1>1, FS_Interval, CountedAlike
<1>3. b \in Media!Surjection(S, D)
  BY DEF Media!Surjection
<1>4. b \in Media!Injection(S, D)
  BY <1>2, <1>3, FS_SurjSameCardinalityImpliesInj, CountedAlike
<1> QED BY <1>4 DEF Media!Injection, Media!IsInjective

\* The same with one number left out.
LEMMA SpreadApart ==
  ASSUME NEW table, NEW S, Media!IsFiniteSet(S), NEW q, Spread(table, S, q)
  PROVE  \A f, g \in S : table[f].order = table[g].order => f = g
<1> DEFINE N == Media!Cardinality(S)
           D == (1..(N + 1)) \ {q}
           b == [f \in S |-> table[f].order]
<1>1. N \in Nat
  BY FS_CardinalityType, CountedAlike
<1>2. Media!IsFiniteSet(1..(N + 1)) /\ Media!Cardinality(1..(N + 1)) = N + 1
  BY <1>1, FS_Interval, CountedAlike
<1>q. q \in 1..(N + 1)
  BY DEF Spread
<1>3. Media!Cardinality(D) = N
  <2> HIDE DEF N
  <2>1. Media!Cardinality((1..(N + 1)) \ {q}) = Media!Cardinality(1..(N + 1)) - 1
    BY <1>2, <1>q, FS_RemoveElement, CountedAlike
  <2> QED BY <1>1, <1>2, <2>1
<1>4. b \in Media!Surjection(S, D)
  BY DEF Media!Surjection, Spread
<1>5. b \in Media!Injection(S, D)
  BY <1>3, <1>4, FS_SurjSameCardinalityImpliesInj, CountedAlike
<1> QED BY <1>5 DEF Media!Injection, Media!IsInjective

\* The files up to f are as many as the numbers up to f's.
LEMMA PlaceBySpread ==
  ASSUME NEW table, NEW S, Media!IsFiniteSet(S), NEW q, Spread(table, S, q), NEW f \in S
  PROVE  /\ table[f].order \in (1..(Media!Cardinality(S) + 1)) \ {q}
         /\ Media!Place(table, S, f) = IF table[f].order < q THEN table[f].order
                                                       ELSE table[f].order - 1
<1> DEFINE N == Media!Cardinality(S)
           k == table[f].order
           G == {g \in S : table[g].order <= k}
           E == (1..k) \ {q}
           b == [g \in G |-> table[g].order]
<1>1. N \in Nat /\ k \in (1..(N + 1)) \ {q} /\ q \in 1..(N + 1)
  BY FS_CardinalityType, CountedAlike DEF Spread
<1>2. Media!IsFiniteSet(G)
  BY FS_Subset, CountedAlike
<1>3. \A g, h \in S : table[g].order = table[h].order => g = h
  BY SpreadApart
<1>4. \A g \in S : table[g].order \in (1..(N + 1)) \ {q}
  BY DEF Spread
<1>5. \A d \in E : \E g \in G : table[g].order = d
  <2> SUFFICES ASSUME NEW d \in E PROVE \E g \in G : table[g].order = d
    OBVIOUS
  <2>1. d \in (1..(N + 1)) \ {q} /\ d <= k
    BY <1>1
  <2>2. PICK g \in S : table[g].order = d
    BY <2>1 DEF Spread
  <2> QED BY <2>1, <2>2
<1>6. b \in [G -> E]
  BY <1>1, <1>4
<1>7. b \in Media!Bijection(G, E)
  BY <1>3, <1>5, <1>6 DEF Media!Bijection, Media!Injection, Media!Surjection, Media!IsInjective
<1>8. Media!Cardinality(G) = Media!Cardinality(E)
  BY <1>2, <1>7, FS_Bijection, CountedAlike DEF ExistsBijection
<1>9. Media!IsFiniteSet(1..k) /\ Media!Cardinality(1..k) = k
  <2>1. k \in Nat /\ k >= 1
    BY <1>1
  <2> HIDE DEF k
  <2> QED BY <2>1, FS_Interval, CountedAlike
<1>10. Media!Cardinality(E) = IF q \in 1..k THEN k - 1 ELSE k
  BY <1>9, FS_RemoveElement, CountedAlike
<1>11. q \in 1..k <=> ~(k < q)
  BY <1>1
<1> QED BY <1>1, <1>8, <1>10, <1>11 DEF Media!Place

-----------------------------------------------------------------------------
(* What a list insertion and a densifying number *)

\* Densifying closes the gap q and keeps the order.
LEMMA PlacesDense ==
  ASSUME NEW table, NEW S, Media!IsFiniteSet(S), NEW q, Spread(table, S, q)
  PROVE  LET place == Media!Places(table, S)
         IN  /\ {place[f] : f \in S} = 1..Media!Cardinality(S)
             /\ \A f, g \in S : table[f].order < table[g].order => place[f] < place[g]
<1> DEFINE N == Media!Cardinality(S)
           o(f) == table[f].order
           closed(k) == IF k < q THEN k ELSE k - 1
           place == Media!Places(table, S)
<1>1. N \in Nat /\ q \in 1..(N + 1)
  BY FS_CardinalityType, CountedAlike DEF Spread
<1>2. \A f \in S : o(f) \in (1..(N + 1)) \ {q} /\ place[f] = closed(o(f))
  BY PlaceBySpread DEF Media!Places
<1>3. {place[f] : f \in S} \subseteq 1..N
  BY <1>1, <1>2
<1>4. \A d \in 1..N : \E f \in S : place[f] = d
  <2> SUFFICES ASSUME NEW d \in 1..N PROVE \E f \in S : place[f] = d
    OBVIOUS
  <2> DEFINE k == IF d < q THEN d ELSE d + 1
  <2>1. k \in (1..(N + 1)) \ {q} /\ closed(k) = d
    BY <1>1
  <2>2. PICK f \in S : o(f) = k
    BY <2>1 DEF Spread
  <2> QED BY <1>2, <2>1, <2>2
<1>5. \A f, g \in S : o(f) < o(g) => place[f] < place[g]
  BY <1>1, <1>2
<1> QED BY <1>3, <1>4, <1>5

\* An insertion makes room at p and keeps the order of the others.
LEMMA InsertedDense ==
  ASSUME NEW table, NEW S, Media!IsFiniteSet(S), NEW q, Spread(table, S, q),
         NEW h, h \notin S, NEW p \in 1..(Media!Cardinality(S) + 1)
  PROVE  LET place == Media!Inserted(table, S, h, p)
         IN  /\ Media!Cardinality(S \cup {h}) = Media!Cardinality(S) + 1
             /\ {place[f] : f \in S \cup {h}} = 1..(Media!Cardinality(S) + 1)
             /\ \A f, g \in S : table[f].order < table[g].order => place[f] < place[g]
<1> DEFINE N == Media!Cardinality(S)
           T == S \cup {h}
           room(k) == IF k >= p THEN k + 1 ELSE k
           before == Media!Places(table, S)
           place == Media!Inserted(table, S, h, p)
<1>1. N \in Nat /\ p \in 1..(N + 1) /\ Media!Cardinality(T) = N + 1
  BY FS_CardinalityType, FS_AddElement, CountedAlike
<1>2. /\ {before[f] : f \in S} = 1..N
      /\ \A f, g \in S : table[f].order < table[g].order => before[f] < before[g]
  BY PlacesDense
<1>3. place[h] = p /\ \A f \in S : place[f] = room(before[f])
  BY DEF Media!Inserted, Media!Places
<1> HIDE DEF before, place, N
<1>4. {place[f] : f \in T} \subseteq 1..(N + 1)
  BY <1>1, <1>2, <1>3
<1>5. \A d \in 1..(N + 1) : \E f \in T : place[f] = d
  <2> SUFFICES ASSUME NEW d \in 1..(N + 1), d # p PROVE \E f \in S : place[f] = d
    BY <1>3
  <2> DEFINE k == IF d > p THEN d - 1 ELSE d
  <2>1. k \in 1..N /\ room(k) = d
    BY <1>1
  <2>2. PICK f \in S : before[f] = k
    BY <1>2, <2>1
  <2> QED BY <1>3, <2>1, <2>2
<1>6. \A f, g \in S : table[f].order < table[g].order => place[f] < place[g]
  <2> SUFFICES ASSUME NEW f \in S, NEW g \in S, table[f].order < table[g].order
               PROVE  place[f] < place[g]
    OBVIOUS
  <2>1. before[f] \in 1..N /\ before[g] \in 1..N /\ before[f] < before[g]
    BY <1>2
  <2> QED BY <1>1, <1>3, <2>1
<1> QED BY <1>1, <1>4, <1>5, <1>6 DEF N, place

\* The largest of numbers up to n + 1, one of which is n.
LEMMA MaxOf ==
  ASSUME NEW X \in SUBSET Nat, NEW n \in X, \A x \in X : x <= n + 1
  PROVE  Media!Max(X) \in X /\ \A x \in X : x <= Media!Max(X)
<1>1. \E m \in X : \A x \in X : m >= x
  <2>1. CASE n + 1 \in X
    BY <2>1
  <2>2. CASE n + 1 \notin X
    <3>1. \A x \in X : n >= x
      BY <2>2
    <3> QED BY <3>1
  <2> QED BY <2>1, <2>2
<1> QED BY <1>1 DEF Media!Max

\* A permutation passes over the sentinel without meeting the unique key.
LEMMA NeverCollides ==
  ASSUME NEW table, NEW i, NEW S, Media!IsFiniteSet(S), NEW place,
         {place[f] : f \in S} = 1..Media!Cardinality(S),
         \A f \in S : table[f].order \in 0..(Media!Cardinality(S) + 1),
         \A f, g \in S : /\ table[f].inspection = i /\ table[g].inspection = i
                         /\ table[f].order = table[g].order
                         => f = g
  PROVE  Media!NoCollision(table, i, S, place)
<1> DEFINE N == Media!Cardinality(S)
           X == {table[f].order : f \in S} \cup {N}
           base == Media!Base(table, S)
           parked == Media!Parked(table, S, place)
<1>1. N \in Nat
  BY FS_CardinalityType, CountedAlike
<1>2. /\ X \in SUBSET Nat /\ \A x \in X : x <= N + 1
      /\ \A f \in S : table[f].order \in Nat
  BY <1>1
<1>3. Media!Max(X) \in X /\ \A x \in X : x <= Media!Max(X)
  <2> HIDE DEF X, N
  <2>1. N \in X
    BY DEF X
  <2> QED BY <1>2, <2>1, MaxOf
<1>4. base = Media!Max(X) + 1
  BY DEF Media!Base
<1>5. base \in Nat /\ base > N /\ \A f \in S : base > table[f].order
  <2> HIDE DEF base
  <2>1. Media!Max(X) \in Nat
    BY <1>2, <1>3
  <2>2. N <= Media!Max(X) /\ \A f \in S : table[f].order <= Media!Max(X)
    BY <1>3
  <2>3. \A f \in S : table[f].order \in Nat
    BY <1>2
  <2> HIDE DEF X, N, parked
  <2> QED BY <1>1, <1>4, <2>1, <2>2, <2>3
<1>6. \A f \in S : parked[f] = base + place[f] - 1
  BY DEF Media!Parked
<1>7. \A f, g \in S : place[f] = place[g] => f = g
  BY NumbersApart
<1>8. \A f \in S : place[f] \in 1..N
  OBVIOUS
<1> SUFFICES ASSUME NEW f \in S, NEW g \in S \ {f}
             PROVE  /\ (Media!Orders(table, i, f) \cup {parked[f]})
                        \cap (Media!Orders(table, i, g) \cup {parked[g]}) = {}
                    /\ {parked[f], place[f]} \cap {parked[g], place[g]} = {}
  BY DEF Media!NoCollision
<1> HIDE DEF base, parked, N
<1>9. /\ place[f] # place[g] /\ place[f] \in 1..N /\ place[g] \in 1..N
      /\ parked[f] = base + place[f] - 1 /\ parked[g] = base + place[g] - 1
  BY <1>6, <1>7, <1>8
<1>10. /\ parked[f] # parked[g] /\ parked[f] \notin 1..N /\ parked[g] \notin 1..N
       /\ parked[f] >= base /\ parked[g] >= base
  BY <1>1, <1>5, <1>9
<1>11. parked[f] # table[g].order /\ parked[g] # table[f].order
  <2>1. table[f].order \in Nat /\ table[g].order \in Nat
    BY <1>2
  <2>2. base > table[f].order /\ base > table[g].order
    BY <1>5
  <2>3. parked[f] \in Int /\ parked[g] \in Int
    BY <1>1, <1>5, <1>9
  <2> QED BY <1>5, <1>10, <2>1, <2>2, <2>3
<1>12. Media!Orders(table, i, f) \cap Media!Orders(table, i, g) = {}
  BY DEF Media!Orders
<1>13. parked[f] \notin Media!Orders(table, i, g) /\ parked[g] \notin Media!Orders(table, i, f)
  BY <1>11 DEF Media!Orders
<1> QED BY <1>9, <1>10, <1>12, <1>13

-----------------------------------------------------------------------------
(* Tables *)

Dense(table, i) ==
  {table[f].order : f \in Media!Attached(table, i)} = 1..Media!Cardinality(Media!Attached(table, i))

(* From one table to the next, the files that stay attached to i stay in   *)
(* their order.                                                            *)
Ordered(table, next, i) ==
  \A f, g \in Media!Attached(table, i) \cap Media!Attached(next, i) :
    table[f].order < table[g].order => next[f].order < next[g].order

LEMMA AttachedRow ==
  ASSUME NEW table \in Table, NEW i, NEW f \in Media!Attached(table, i)
  PROVE  f \in Media!Files /\ table[f] \in Media!Row /\ table[f].inspection = i
    /\ table[f].order \in Nat
BY DEF Table, Media!Attached, Media!Row

\* An inspection whose files keep their rows is numbered as before.
LEMMA SameDense ==
  ASSUME NEW table, NEW next, NEW i, Dense(table, i),
         Media!Attached(next, i) = Media!Attached(table, i),
         \A f \in Media!Attached(table, i) : next[f].order = table[f].order
  PROVE  Dense(next, i)
<1>1. {next[f].order : f \in Media!Attached(table,
        i)} = {table[f].order : f \in Media!Attached(table, i)}
  OBVIOUS
<1> QED BY <1>1 DEF Dense

\* A file that leaves a numbered inspection leaves at most one number open.
LEMMA LeavesSpread ==
  ASSUME Media!MediaAssumption, NEW table \in Table, NEW next, NEW f, NEW i, Dense(table, i),
         Media!Attached(next, i) = Media!Attached(table, i) \ {f},
         \A g \in Media!Attached(next, i) : next[g].order = table[g].order
  PROVE  \E q : Spread(next, Media!Attached(next, i), q)
<1> DEFINE A == Media!Attached(table, i)
           B == Media!Attached(next, i)
           N == Media!Cardinality(A)
<1>1. Media!IsFiniteSet(A) /\ N \in Nat /\ Media!IsFiniteSet(B) /\ Media!Cardinality(B) \in Nat
  BY AttachedFinite
<1>2. {next[g].order : g \in B} = {table[g].order : g \in B}
  OBVIOUS
<1>3. {table[g].order : g \in A} = 1..N
  BY DEF Dense
<1>4. CASE f \notin A
  <2>1. B = A
    BY <1>4
  <2>2. Spread(next, B, N + 1)
    <3>1. 1..N = (1..(N + 1)) \ {N + 1} /\ N + 1 \in 1..(N + 1)
      <4> HIDE DEF N
      <4> QED BY <1>1
    <3>2. Media!Cardinality(B) = N /\ {next[g].order : g \in B} = 1..N
      BY <1>2, <1>3, <2>1
    <3> HIDE DEF B, N
    <3> QED BY <3>1, <3>2 DEF Spread
  <2> QED BY <2>2
<1>5. CASE f \in A
  <2> DEFINE q == table[f].order
  <2>1. \A g, h \in A : table[g].order = table[h].order => g = h
    <3> DEFINE o == [g \in A |-> table[g].order]
    <3>1. {o[g] : g \in A} = 1..Media!Cardinality(A)
      BY <1>3
    <3>2. \A g, h \in A : o[g] = o[h] => g = h
      <4> HIDE DEF o, A
      <4> QED BY <1>1, <3>1, NumbersApart
    <3> QED BY <3>2
  <2>2. Media!Cardinality(B) = N - 1
    BY <1>1, <1>5, FS_RemoveElement, CountedAlike
  <2>3. q \in 1..N
    BY <1>3, <1>5
  <2>4. {table[g].order : g \in B} = (1..N) \ {q}
    BY <1>3, <1>5, <2>1
  <2>5. Media!Cardinality(B) + 1 = N
    BY <1>1, <2>2
  <2>6. Spread(next, B, q)
    BY <1>2, <2>3, <2>4, <2>5 DEF Spread
  <2> QED BY <2>6
<1> QED BY <1>4, <1>5

\* Renumbering writes the rows it is given and no other.
LEMMA RenumberedAttached ==
  ASSUME NEW table \in Table, NEW i \in Inspections, NEW place,
         DOMAIN place \subseteq Media!Files, Media!MediaAssumption,
         \A f \in DOMAIN place : table[f] \in Media!Row /\ place[f] \in Nat
  PROVE  LET next == Media!Renumbered(table, i, place)
         IN  /\ next \in Table
             /\ \A f \in DOMAIN place : next[f] \in Media!Row /\ next[f].order = place[f]
             /\ \A f \in Media!Files \ DOMAIN place : next[f] = table[f]
             /\ Media!Attached(next, i) = Media!Attached(table, i) \cup DOMAIN place
             /\ \A j : j # i => Media!Attached(next, j) = Media!Attached(table, j) \ DOMAIN place
<1> DEFINE next == Media!Renumbered(table, i, place)
<1>1. \A f \in Media!Files \ DOMAIN place : next[f] = table[f]
  BY DEF Media!Renumbered
<1>2. \A f \in DOMAIN place : /\ next[f] \in Media!Row /\ next[f].order = place[f]
                             /\ next[f].inspection = i
  BY DEF Media!Renumbered, Media!Row
<1>3. Absent \notin Media!Row
  BY DEF Media!MediaAssumption
<1>4. next \in Table
  <2>1. \A f \in Media!Files : next[f] \in Media!Row \cup {Absent}
    BY <1>1, <1>2 DEF Table
  <2> QED BY <2>1 DEF Media!Renumbered, Table
<1>5. \A j : Media!Attached(next, j) =
               (Media!Attached(table, j) \ DOMAIN place)
                 \cup {f \in DOMAIN place : next[f].inspection = j}
  BY <1>1, <1>2, <1>3 DEF Media!Attached
<1> HIDE DEF next
<1> QED BY <1>1, <1>2, <1>4, <1>5 DEF next

LEMMA RenumberedDense ==
  ASSUME Media!MediaAssumption, NEW table \in Table, NEW i \in Inspections,
         NEW S \in SUBSET Media!Files, Media!Attached(table, i) \subseteq S,
         \A f \in S : table[f] \in Media!Row,
         \A j \in Inspections \ {i} : Dense(table, j) /\ Media!Attached(table, j) \cap S = {},
         NEW place, DOMAIN place = S, {place[f] : f \in S} = 1..Media!Cardinality(S)
  PROVE  LET next == Media!Renumbered(table, i, place)
         IN  /\ next \in Table
             /\ \A j \in Inspections : Dense(next, j)
             /\ Media!Attached(next, i) = S /\ \A f \in S : next[f].order = place[f]
             /\ \A f \in Media!Files \ S : next[f] = table[f]
             /\ \A f \in Media!Files : table[f] # Absent => next[f] # Absent
             /\ \A j \in Inspections \ {i} : /\ Media!Attached(next, j) = Media!Attached(table, j)
                                            /\ Ordered(table, next, j)
<1> DEFINE next == Media!Renumbered(table, i, place)
<1>1. \A f \in S : place[f] \in Nat
  <2>1. \A f \in S : place[f] \in 1..Media!Cardinality(S)
    OBVIOUS
  <2> QED BY <2>1
<1>2. /\ next \in Table
      /\ \A f \in S : next[f] \in Media!Row /\ next[f].order = place[f]
      /\ \A f \in Media!Files \ S : next[f] = table[f]
      /\ Media!Attached(next, i) = Media!Attached(table, i) \cup S
      /\ \A j : j # i => Media!Attached(next, j) = Media!Attached(table, j) \ S
  BY <1>1, RenumberedAttached
<1> HIDE DEF next
<1>3. Media!Attached(next, i) = S
  BY <1>2
<1>4. Dense(next, i)
  <2>1. {next[f].order : f \in S} = {place[f] : f \in S}
    BY <1>2
  <2> QED BY <1>3, <2>1 DEF Dense
<1>5. ASSUME NEW j \in Inspections \ {i}
      PROVE  /\ Media!Attached(next, j) = Media!Attached(table, j)
             /\ \A f \in Media!Attached(table, j) : next[f].order = table[f].order
  <2>1. Media!Attached(table, j) \cap S = {} /\ Media!Attached(table, j) \subseteq Media!Files
    BY <1>5 DEF Media!Attached
  <2> QED BY <1>2, <1>5, <2>1
<1>6. \A j \in Inspections \ {i} : Dense(next, j) /\ Ordered(table, next, j)
  BY <1>5, SameDense DEF Ordered
<1>7. \A f \in Media!Files : table[f] # Absent => next[f] # Absent
  BY <1>2 DEF Media!MediaAssumption
<1> QED BY <1>2, <1>3, <1>4, <1>5, <1>6, <1>7 DEF next

-----------------------------------------------------------------------------
(* Steps *)

(* What every request does to the table: the inspections stay numbered,    *)
(* whoever keeps the same company keeps the order, and what the hub has    *)
(* reported stays.                                                         *)
Keeps(table, next) ==
  /\ next \in Table
  /\ \A i \in Inspections : Dense(next, i)
  /\ \A i \in Inspections : Media!Attached(table, i) # Media!Attached(next, i) => Ordered(table,
       next, i)
  /\ \A f \in HubFiles : table[f] # Absent => next[f] # Absent

LEMMA KeepsSame ==
  ASSUME NEW table \in Table, \A i \in Inspections : Dense(table, i)
  PROVE  Keeps(table, table)
BY DEF Keeps

\* A request that writes neither inspections nor orders.
LEMMA ColumnsKeep ==
  ASSUME Media!MediaAssumption, NEW table \in Table, NEW next \in Table,
         \A i \in Inspections : Dense(table, i),
         \A f \in Media!Files : \/ next[f] = table[f]
                         \/ /\ table[f] = Absent /\ next[f] \in Media!Row
                            /\ next[f].inspection = NoInspection
                         \/ /\ table[f] \in Media!Row /\ next[f] \in Media!Row
                            /\ next[f].inspection = table[f].inspection
                            /\ next[f].order = table[f].order
  PROVE  Keeps(table, next)
<1>1. ASSUME NEW i \in Inspections
      PROVE  /\ Media!Attached(next, i) = Media!Attached(table, i)
             /\ \A f \in Media!Attached(table, i) : next[f].order = table[f].order
  BY DEF Media!Attached, Media!MediaAssumption
<1>2. \A i \in Inspections : Dense(next, i)
  BY <1>1, SameDense
<1>3. \A f \in HubFiles : table[f] # Absent => next[f] # Absent
  BY DEF Media!Files, Media!MediaAssumption
<1> QED BY <1>1, <1>2, <1>3 DEF Keeps

LEMMA MatchedRow ==
  ASSUME NEW r \in Media!Row, NEW outcome \in Missions \cup {NoMission, "failed"}
  PROVE  /\ Media!Matched(r, outcome) \in Media!Row
         /\ Media!Matched(r, outcome).inspection = r.inspection
         /\ Media!Matched(r, outcome).order = r.order
<1>1. CASE outcome = "failed"
  <2>1. \/ Media!Matched(r, outcome) = r
        \/ Media!Matched(r, outcome) = [r EXCEPT !.status = "UNASSIGNED", !.mission = NoMission]
    BY <1>1 DEF Media!Matched
  <2> QED BY <2>1 DEF Media!Row
<1>2. CASE outcome # "failed" /\ outcome = NoMission
  <2>1. Media!Matched(r, outcome) = [r EXCEPT !.status = "UNASSIGNED", !.mission = NoMission]
    BY <1>2 DEF Media!Matched
  <2> QED BY <2>1 DEF Media!Row
<1>3. CASE outcome # "failed" /\ outcome # NoMission
  <2>1. Media!Matched(r, outcome) = [r EXCEPT !.status = "MATCHED", !.mission = outcome]
    BY <1>3 DEF Media!Matched
  <2> QED BY <1>3, <2>1 DEF Media!Row
<1> QED BY <1>1, <1>2, <1>3

LEMMA SweptRow ==
  ASSUME NEW r \in Media!Row, NEW outcome \in Missions \cup {NoMission, "failed"}
  PROVE  /\ Media!Swept(r, outcome) \in Media!Row
         /\ Media!Swept(r, outcome).inspection = r.inspection
         /\ Media!Swept(r, outcome).order = r.order
<1>1. CASE outcome = NoMission
  BY <1>1 DEF Media!Swept, Media!Row
<1>2. CASE outcome # NoMission
  BY <1>2, MatchedRow DEF Media!Swept
<1> QED BY <1>1, <1>2

\* What a file leaves behind closes up.
LEMMA ClosedDense ==
  ASSUME Media!MediaAssumption, NEW table \in Table, NEW next \in Table, NEW f \in Media!Files,
         \A j \in Inspections : Dense(table, j),
         \A g \in Media!Files \ {f} : next[g] = table[g],
         \A j \in Inspections : f \notin Media!Attached(next, j),
         NEW source \in Inspections \cup {NoInspection},
         \A j \in Inspections \ {source} : f \notin Media!Attached(table, j)
  PROVE  LET closed == Media!Closed(next, source)
         IN  /\ closed \in Table
             /\ closed[f] = next[f]
             /\ \A g \in Media!Files : next[g] # Absent => closed[g] # Absent
             /\ \A j \in Inspections : /\ Dense(closed, j) /\ Ordered(table, closed, j)
                                     /\ Media!Attached(closed, j) = Media!Attached(table, j) \ {f}
<1> DEFINE closed == Media!Closed(next, source)
<1>1. ASSUME NEW j \in Inspections
      PROVE  /\ Media!Attached(next, j) = Media!Attached(table, j) \ {f}
             /\ \A g \in Media!Attached(next, j) : next[g].order = table[g].order
  BY DEF Media!Attached
<1>2. \A j \in Inspections \ {source} : Dense(next, j) /\ Ordered(table, next, j)
  <2> SUFFICES ASSUME NEW j \in Inspections \ {source}
               PROVE  Dense(next, j) /\ Ordered(table, next, j)
    OBVIOUS
  <2>1. Media!Attached(next, j) = Media!Attached(table, j)
    BY <1>1
  <2> QED BY <1>1, <2>1, SameDense DEF Ordered
<1>3. CASE source = NoInspection
  <2>1. closed = next /\ source \notin Inspections
    BY <1>3 DEF Media!Closed, Media!MediaAssumption
  <2> QED BY <1>1, <1>2, <2>1
<1>4. CASE source # NoInspection
  <2> DEFINE S == Media!Attached(next, source)
             place == Media!Places(next, S)
  <2>1. source \in Inspections /\ closed = Media!Renumbered(next, source, place)
    BY <1>4 DEF Media!Closed
  <2>2. Media!IsFiniteSet(S) /\ S \subseteq Media!Files
    BY AttachedFinite
  <2>3. \E q : Spread(next, S, q)
    <3>1. Dense(table, source) /\ S = Media!Attached(table, source) \ {f}
      BY <1>1, <2>1
    <3> QED BY <1>1, <2>1, <3>1, LeavesSpread
  <2>4. /\ {place[g] : g \in S} = 1..Media!Cardinality(S)
        /\ \A g, h \in S : next[g].order < next[h].order => place[g] < place[h]
    BY <2>2, <2>3, PlacesDense
  <2>5. DOMAIN place = S
    BY DEF Media!Places
  <2>6. \A g \in S : next[g] \in Media!Row
    BY AttachedRow
  <2>7. \A j \in Inspections \ {source} : Dense(next, j) /\ Media!Attached(next, j) \cap S = {}
    BY <1>2 DEF Media!Attached
  <2> HIDE DEF place, S, closed
  <2>8. /\ closed \in Table
        /\ \A j \in Inspections : Dense(closed, j)
        /\ Media!Attached(closed, source) = S /\ \A g \in S : closed[g].order = place[g]
        /\ \A g \in Media!Files \ S : closed[g] = next[g]
        /\ \A g \in Media!Files : next[g] # Absent => closed[g] # Absent
        /\ \A j \in Inspections \ {source} : /\ Media!Attached(closed, j) = Media!Attached(next, j)
                                            /\ Ordered(next, closed, j)
    <3>1. Media!Attached(next, source) \subseteq S
      BY DEF S
    <3> QED BY <2>1, <2>2, <2>4, <2>5, <2>6, <2>7, <3>1, RenumberedDense
  <2>9. closed[f] = next[f]
    BY <2>1, <2>8 DEF S
  <2>10. ASSUME NEW j \in Inspections PROVE Media!Attached(closed, j) = Media!Attached(table,
           j) \ {f}
    BY <1>1, <2>8 DEF S
  <2>11. Ordered(table, closed, source)
    <3> SUFFICES ASSUME NEW g \in Media!Attached(table, source) \cap S,
                        NEW h \in Media!Attached(table, source) \cap S,
                        table[g].order < table[h].order
                 PROVE  closed[g].order < closed[h].order
      BY <2>8 DEF Ordered
    <3>1. next[g].order = table[g].order /\ next[h].order = table[h].order
      BY <1>1, <2>1 DEF S
    <3> QED BY <2>4, <2>8, <3>1
  <2>12. \A j \in Inspections \ {source} : Ordered(table, closed, j)
    <3> SUFFICES ASSUME NEW j \in Inspections \ {source},
                        NEW g \in Media!Attached(table, j) \cap Media!Attached(closed, j),
                        NEW h \in Media!Attached(table, j) \cap Media!Attached(closed, j),
                        table[g].order < table[h].order
                 PROVE  closed[g].order < closed[h].order
      BY DEF Ordered
    <3>1. g \in Media!Attached(next, j) /\ h \in Media!Attached(next, j)
      BY <2>8
    <3>2. next[g].order < next[h].order
      BY <1>1, <3>1
    <3> QED BY <2>8, <3>1, <3>2 DEF Ordered
  <2> QED BY <2>8, <2>9, <2>10, <2>11, <2>12 DEF closed
<1> QED BY <1>3, <1>4

-----------------------------------------------------------------------------
(* The requests, one after the other *)

MediaInv ==
  /\ Media!TypeOK
  /\ \A f \in DOMAIN sweep : Media!Stored(f)
  /\ \A i \in Inspections : Dense(media, i)

LEMMA InvTable == MediaInv => media \in Table
BY DEF MediaInv, Media!TypeOK, Table

LEMMA RecordKeeps ==
  ASSUME Media!MediaAssumption, MediaInv, NEW f \in Media!Files, Media!RecordMediaEvent(f)
  PROVE  Keeps(media, media')
<1> DEFINE fresh == [status |-> "RECEIVED", mission |-> NoMission,
                     inspection |-> NoInspection, order |-> 0]
<1>1. PICK outcome \in Media!Outcomes : media' = [media EXCEPT ![f] = Media!Matched(fresh, outcome)]
  BY DEF Media!RecordMediaEvent
<1>2. outcome \in Missions \cup {NoMission, "failed"}
  BY DEF Media!Outcomes, MediaInv, Media!TypeOK
<1>3. fresh \in Media!Row
  BY DEF Media!Row
<1>4. Media!Matched(fresh, outcome) \in Media!Row /\ Media!Matched(fresh,
        outcome).inspection = NoInspection
  BY <1>2, <1>3, MatchedRow
<1>5. media \in Table /\ media[f] = Absent
  BY InvTable DEF Media!RecordMediaEvent, Media!Stored
<1> HIDE DEF fresh
<1>6. media' \in Table
  BY <1>1, <1>4, <1>5 DEF Table
<1>7. \A g \in Media!Files : g # f => media'[g] = media[g]
  BY <1>1, <1>5 DEF Table
<1>8. media'[f] = Media!Matched(fresh, outcome)
  BY <1>1, <1>5 DEF Table
<1> QED BY <1>4, <1>5, <1>6, <1>7, <1>8, ColumnsKeep DEF MediaInv

LEMMA SweepKeeps ==
  ASSUME Media!MediaAssumption, MediaInv, Media!SweepCommits
  PROVE  Keeps(media, media')
<1>1. PICK S \in SUBSET HubFiles : sweep \in [S -> Missions \cup {NoMission, "failed"}]
  BY DEF MediaInv, Media!TypeOK
<1>2. media \in Table
  BY InvTable
<1>3. CASE media' = media
  BY <1>2, <1>3, KeepsSame DEF MediaInv
<1>4. CASE media' = [f \in Media!Files |-> IF f \in DOMAIN sweep
                                    THEN Media!Swept(media[f], sweep[f]) ELSE media[f]]
  <2>1. ASSUME NEW f \in Media!Files, f \in DOMAIN sweep
        PROVE  /\ media[f] \in Media!Row /\ media'[f] \in Media!Row
               /\ media'[f].inspection = media[f].inspection
               /\ media'[f].order = media[f].order
    <3>1. media[f] \in Media!Row
      BY <1>2, <2>1 DEF MediaInv, Media!Stored, Table
    <3>2. media'[f] = Media!Swept(media[f], sweep[f])
      BY <1>4, <2>1
    <3>3. sweep[f] \in Missions \cup {NoMission, "failed"}
      BY <1>1, <2>1
    <3> QED BY <3>1, <3>2, <3>3, SweptRow
  <2>2. \A f \in Media!Files : f \notin DOMAIN sweep => media'[f] = media[f]
    BY <1>4
  <2>3. media' \in Table
    <3>1. \A f \in Media!Files : media'[f] \in Media!Row \cup {Absent}
      BY <1>2, <2>1, <2>2 DEF Table
    <3> QED BY <1>4, <3>1 DEF Table
  <2> QED BY <1>2, <2>1, <2>2, <2>3, ColumnsKeep DEF MediaInv
<1> QED BY <1>3, <1>4 DEF Media!SweepCommits

LEMMA AssignKeeps ==
  ASSUME Media!MediaAssumption, MediaInv, NEW f \in Media!Files, NEW m, Media!AssignMedia(f, m)
  PROVE  Keeps(media, media')
<1>1. media \in Table /\ media[f] \in Media!Row
  BY InvTable DEF Media!AssignMedia, Media!Movable, Media!Stored, Table
<1>2. m \in Missions \cup {NoMission, "failed"}
  BY DEF Media!AssignMedia, MediaInv, Media!TypeOK
<1>3. /\ Media!Matched(media[f], m) \in Media!Row
      /\ Media!Matched(media[f], m).inspection = media[f].inspection
      /\ Media!Matched(media[f], m).order = media[f].order
  BY <1>1, <1>2, MatchedRow
<1>4. media' = [media EXCEPT ![f] = Media!Matched(media[f], m)]
  BY DEF Media!AssignMedia
<1>5. media' \in Table /\ media'[f] = Media!Matched(media[f], m)
  BY <1>1, <1>3, <1>4 DEF Table
<1>6. \A g \in Media!Files : g # f => media'[g] = media[g]
  BY <1>1, <1>4 DEF Table
<1> QED BY <1>1, <1>3, <1>5, <1>6, ColumnsKeep DEF MediaInv

LEMMA IngestKeeps ==
  ASSUME Media!MediaAssumption, MediaInv, NEW m, Media!ConfirmIngest(m)
  PROVE  Keeps(media, media')
<1>1. media \in Table
  BY InvTable
<1>2. ASSUME NEW f \in Media!Files, media'[f] # media[f]
      PROVE  /\ media[f] \in Media!Row /\ media'[f] \in Media!Row
             /\ media'[f].inspection = media[f].inspection /\ media'[f].order = media[f].order
  <2>1. media[f] \in Media!Row /\ media'[f] = [media[f] EXCEPT !.status = "INGESTED"]
    BY <1>1, <1>2 DEF Media!ConfirmIngest, Media!Stored, Table
  <2> QED BY <2>1 DEF Media!Row
<1>3. media' \in Table
  <2>1. \A f \in Media!Files : media'[f] \in Media!Row \cup {Absent}
    BY <1>1, <1>2 DEF Table
  <2> QED BY <2>1 DEF Media!ConfirmIngest, Table
<1> QED BY <1>1, <1>2, <1>3, ColumnsKeep DEF MediaInv

LEMMA MissionGoneKeeps ==
  ASSUME Media!MediaAssumption, MediaInv, NEW m, Media!DeleteMission(m)
  PROVE  Keeps(media, media')
<1>1. media \in Table
  BY InvTable
<1>2. ASSUME NEW f \in Media!Files, media'[f] # media[f]
      PROVE  /\ media[f] \in Media!Row /\ media'[f] \in Media!Row
             /\ media'[f].inspection = media[f].inspection /\ media'[f].order = media[f].order
  <2>1. media[f] \in Media!Row /\ media'[f] = [media[f] EXCEPT !.mission = NoMission]
    BY <1>1, <1>2 DEF Media!DeleteMission, Media!Stored, Table
  <2> QED BY <2>1 DEF Media!Row
<1>3. media' \in Table
  <2>1. \A f \in Media!Files : media'[f] \in Media!Row \cup {Absent}
    BY <1>1, <1>2 DEF Table
  <2> QED BY <2>1 DEF Media!DeleteMission, Table
<1> QED BY <1>1, <1>2, <1>3, ColumnsKeep DEF MediaInv

\* An upload goes behind the last file of its inspection.
LEMMA FileUploadKeeps ==
  ASSUME Media!MediaAssumption, MediaInv, NEW f \in Media!Files, NEW m,
         NEW i \in Inspections \cup {NoInspection}, Media!CompleteUpload(f, m, i)
  PROVE  Keeps(media, media')
<1> DEFINE row == [status |-> "MATCHED", mission |-> m, inspection |-> NoInspection, order |-> 0]
           added == [media EXCEPT ![f] = row]
           S == Media!Attached(media, i)
           N == Media!Cardinality(S)
           X == {media[g].order : g \in S} \cup {0}
           last == Media!Max(X) + 1
<1>1. media \in Table /\ media[f] = Absent /\ m \in Missions
  BY InvTable DEF Media!CompleteUpload, Media!Stored, MediaInv, Media!TypeOK
<1>2. f \in ManualFiles /\ f \notin HubFiles
  BY DEF Media!CompleteUpload, Media!MediaAssumption
<1>3. CASE i = NoInspection /\ media' = added
  <2>1. row \in Media!Row /\ row.inspection = NoInspection
    BY <1>1 DEF Media!Row
  <2>2. media' \in Table /\ media'[f] = row
    BY <1>1, <1>3, <2>1 DEF Table
  <2>3. \A g \in Media!Files : g # f => media'[g] = media[g]
    BY <1>1, <1>3 DEF Table
  <2> HIDE DEF row
  <2> QED BY <1>1, <2>1, <2>2, <2>3, ColumnsKeep DEF MediaInv
<1>4. CASE /\ i \in inspections
           /\ media' = [added EXCEPT ![f].inspection = i, ![f].order = last]
  <2>1. i \in Inspections
    BY <1>4 DEF MediaInv, Media!TypeOK
  <2>2. Media!IsFiniteSet(S) /\ N \in Nat /\ S \subseteq Media!Files
    BY AttachedFinite
  <2>3. {media[g].order : g \in S} = 1..N
    BY <2>1 DEF MediaInv, Dense
  <2>4. last = N + 1
    <3>1. X = 0..N
      BY <2>2, <2>3
    <3> HIDE DEF X, N
    <3>2. Media!Max(X) \in 0..N /\ N <= Media!Max(X)
      <4>1. X \in SUBSET Nat /\ N \in X /\ \A x \in X : x <= N + 1
        BY <2>2, <3>1
      <4> QED BY <3>1, <4>1, MaxOf
    <3> QED BY <2>2, <3>2
  <2>5. f \notin S
    BY <1>1 DEF Media!Attached
  <2>6. /\ media'[f] = [[row EXCEPT !.inspection = i] EXCEPT !.order = N + 1]
        /\ DOMAIN media' = Media!Files
        /\ \A g \in Media!Files : g # f => media'[g] = media[g]
    <3>1. /\ added[f] = row /\ DOMAIN added = Media!Files
          /\ \A g \in Media!Files : g # f => added[g] = media[g]
      BY <1>1 DEF Table
    <3> DEFINE moved == [added EXCEPT ![f] = [row EXCEPT !.inspection = i]]
    <3>2. media' = [moved EXCEPT ![f] = [moved[f] EXCEPT !.order = N + 1]]
      <4>1. media' = [[added EXCEPT ![f].inspection = i] EXCEPT ![f].order = last]
        BY <1>4
      <4>2. moved = [added EXCEPT ![f].inspection = i]
        BY <3>1
      <4> HIDE DEF moved, last, added
      <4> QED BY <2>4, <4>1, <4>2
    <3>3. /\ moved[f] = [row EXCEPT !.inspection = i] /\ DOMAIN moved = Media!Files
          /\ \A g \in Media!Files : g # f => moved[g] = media[g]
      BY <3>1
    <3> HIDE DEF N, row, moved
    <3> QED BY <3>2, <3>3
  <2>7. /\ media' \in Table
        /\ media'[f] \in Media!Row /\ media'[f].inspection = i /\ media'[f].order = N + 1
        /\ \A g \in Media!Files : g # f => media'[g] = media[g]
    <3>1. media'[f] \in Media!Row /\ media'[f].inspection = i /\ media'[f].order = N + 1
      <4>1. N + 1 \in Nat
        BY <2>2
      <4> HIDE DEF N
      <4> QED BY <1>1, <2>1, <2>6, <4>1 DEF Media!Row
    <3>2. media' = [g \in Media!Files |-> media'[g]]
      BY <1>1, <1>4 DEF Table
    <3>3. \A g \in Media!Files : media'[g] \in Media!Row \cup {Absent}
      BY <1>1, <2>6, <3>1 DEF Table
    <3>4. media' \in Table
      BY <3>2, <3>3 DEF Table
    <3> QED BY <2>6, <3>1, <3>4
  <2>8. Media!Attached(media', i) = S \cup {f}
    BY <1>1, <2>5, <2>7 DEF Media!Attached, Media!MediaAssumption
  <2>9. Dense(media', i)
    <3>1. Media!Cardinality(S \cup {f}) = N + 1
      BY <2>2, <2>5, FS_AddElement, CountedAlike
    <3>2. {media'[g].order : g \in S \cup {f}} = (1..N) \cup {N + 1}
      BY <2>2, <2>3, <2>5, <2>7
    <3>3. (1..N) \cup {N + 1} = 1..(N + 1)
      <4> HIDE DEF N
      <4> QED BY <2>2
    <3> QED BY <2>8, <3>1, <3>2, <3>3 DEF Dense
  <2>10. Ordered(media, media', i)
    BY <2>2, <2>5, <2>7 DEF Ordered
  <2>11. ASSUME NEW j \in Inspections \ {i}
         PROVE  /\ Media!Attached(media', j) = Media!Attached(media, j)
                /\ \A g \in Media!Attached(media, j) : media'[g].order = media[g].order
    BY <1>1, <2>7 DEF Media!Attached, Media!MediaAssumption
  <2>12. \A j \in Inspections \ {i} : Dense(media', j)
    BY <2>11, SameDense DEF MediaInv
  <2>13. \A g \in HubFiles : media[g] # Absent => media'[g] # Absent
    BY <1>2, <2>7 DEF Media!Files
  <2> QED BY <2>7, <2>9, <2>10, <2>11, <2>12, <2>13 DEF Keeps
<1> QED BY <1>3, <1>4 DEF Media!CompleteUpload

LEMMA DetachedTable ==
  ASSUME Media!MediaAssumption, NEW table \in Table, NEW f \in Media!Files, table[f] \in Media!Row
  PROVE  LET next == Media!Detached(table, f)
         IN  /\ next \in Table
             /\ next[f] \in Media!Row /\ next[f].inspection = NoInspection /\ next[f].order = 0
             /\ \A g \in Media!Files \ {f} : next[g] = table[g]
             /\ \A j \in Inspections : Media!Attached(next, j) = Media!Attached(table, j) \ {f}
<1> DEFINE mid == [table EXCEPT ![f] = [table[f] EXCEPT !.inspection = NoInspection]]
           next == Media!Detached(table, f)
<1>1. mid[f] = [table[f] EXCEPT !.inspection = NoInspection] /\ DOMAIN mid = Media!Files
  BY DEF Table
<1>2. \A g \in Media!Files \ {f} : mid[g] = table[g]
  BY DEF Table
<1>3. next = [mid EXCEPT ![f] = [mid[f] EXCEPT !.order = 0]]
  <2>1. next = [[table EXCEPT ![f].inspection = NoInspection] EXCEPT ![f].order = 0]
    BY DEF Media!Detached
  <2>2. mid = [table EXCEPT ![f].inspection = NoInspection]
    OBVIOUS
  <2> HIDE DEF mid, next
  <2> QED BY <2>1, <2>2
<1> HIDE DEF mid, next
<1>4. /\ next[f] = [[table[f] EXCEPT !.inspection = NoInspection] EXCEPT !.order = 0]
      /\ DOMAIN next = Media!Files /\ \A g \in Media!Files \ {f} : next[g] = table[g]
  BY <1>1, <1>2, <1>3
<1>5. next[f] \in Media!Row /\ next[f].inspection = NoInspection /\ next[f].order = 0
  <2>1. mid[f] \in Media!Row /\ mid[f].inspection = NoInspection
    BY <1>1 DEF Media!Row
  <2>2. next[f] = [mid[f] EXCEPT !.order = 0]
    BY <1>1, <1>3
  <2> QED BY <2>1, <2>2 DEF Media!Row
<1>6. next \in Table
  <2>1. next = [g \in Media!Files |-> next[g]]
    BY <1>1, <1>3
  <2>2. \A g \in Media!Files : next[g] \in Media!Row \cup {Absent}
    BY <1>4, <1>5 DEF Table
  <2> QED BY <2>1, <2>2 DEF Table
<1>7. \A j \in Inspections : Media!Attached(next, j) = Media!Attached(table, j) \ {f}
  BY <1>4, <1>5 DEF Media!Attached, Media!MediaAssumption
<1> QED BY <1>4, <1>5, <1>6, <1>7 DEF next

\* A file that is attached nowhere is inserted into inspection i.
LEMMA InsertionDense ==
  ASSUME Media!MediaAssumption, NEW table \in Table, NEW f \in Media!Files, table[f] \in Media!Row,
         NEW i \in Inspections, \E q : Spread(table, Media!Attached(table, i), q),
         \A j \in Inspections \ {i} : Dense(table, j),
         \A j \in Inspections : f \notin Media!Attached(table, j),
         NEW p \in 1..(Media!Cardinality(Media!Attached(table, i)) + 1)
  PROVE  LET next == Media!Renumbered(table, i, Media!Inserted(table, Media!Attached(table, i), f,
    p))
         IN  /\ next \in Table
             /\ \A j \in Inspections : Dense(next, j) /\ Ordered(table, next, j)
             /\ Media!Attached(next, i) = Media!Attached(table, i) \cup {f}
             /\ \A j \in Inspections \ {i} : Media!Attached(next, j) = Media!Attached(table, j)
             /\ \A g \in Media!Files : table[g] # Absent => next[g] # Absent
<1> DEFINE S == Media!Attached(table, i)
           T == S \cup {f}
           place == Media!Inserted(table, S, f, p)
           next == Media!Renumbered(table, i, place)
<1>1. Media!IsFiniteSet(S) /\ S \subseteq Media!Files /\ f \notin S
  BY AttachedFinite
<1>2. /\ {place[g] : g \in T} = 1..Media!Cardinality(T)
      /\ \A g, h \in S : table[g].order < table[h].order => place[g] < place[h]
  <2>1. PICK q : Spread(table, S, q)
    OBVIOUS
  <2>2. /\ Media!Cardinality(T) = Media!Cardinality(S) + 1
        /\ {place[g] : g \in T} = 1..(Media!Cardinality(S) + 1)
        /\ \A g, h \in S : table[g].order < table[h].order => place[g] < place[h]
    <3> HIDE DEF S
    <3> QED BY <1>1, <2>1, InsertedDense DEF S
  <2> QED BY <2>2
<1>3. DOMAIN place = T
  BY DEF Media!Inserted
<1>4. \A g \in T : table[g] \in Media!Row
  BY AttachedRow
<1>5. \A j \in Inspections \ {i} : Media!Attached(table, j) \cap T = {}
  BY DEF Media!Attached
<1> HIDE DEF place
<1>6. /\ next \in Table
      /\ \A j \in Inspections : Dense(next, j)
      /\ Media!Attached(next, i) = T /\ \A g \in T : next[g].order = place[g]
      /\ \A g \in Media!Files : table[g] # Absent => next[g] # Absent
      /\ \A j \in Inspections \ {i} : /\ Media!Attached(next, j) = Media!Attached(table, j)
                                     /\ Ordered(table, next, j)
  <2>1. T \in SUBSET Media!Files /\ Media!Attached(table, i) \subseteq T
    BY <1>1
  <2> HIDE DEF T
  <2> QED BY <1>2, <1>3, <1>4, <1>5, <2>1, RenumberedDense
<1>7. Ordered(table, next, i)
  BY <1>1, <1>2, <1>6 DEF Ordered
<1> QED BY <1>6, <1>7 DEF place

LEMMA FileGoneKeeps ==
  ASSUME Media!MediaAssumption, MediaInv, NEW f \in Media!Files, Media!DeleteMedia(f)
  PROVE  Keeps(media, media')
<1> DEFINE gone == [media EXCEPT ![f] = Absent]
           source == media[f].inspection
<1>1. media \in Table /\ media[f] \in Media!Row
  BY InvTable DEF Media!DeleteMedia, Media!Movable, Media!Stored, Table
<1>2. f \notin HubFiles
  BY DEF Media!DeleteMedia, Media!MediaAssumption
<1>3. gone \in Table /\ gone[f] = Absent /\ \A g \in Media!Files \ {f} : gone[g] = media[g]
  BY <1>1 DEF Table
<1>4. source \in Inspections \cup {NoInspection}
  BY <1>1 DEF Media!Row
<1>5. /\ \A j \in Inspections : f \notin Media!Attached(gone, j)
      /\ \A j \in Inspections \ {source} : f \notin Media!Attached(media, j)
  BY <1>3 DEF Media!Attached
<1>6. media' = Media!Closed(gone, source)
  BY DEF Media!DeleteMedia
<1> HIDE DEF gone, source
<1>7. /\ media' \in Table
      /\ \A g \in Media!Files : gone[g] # Absent => media'[g] # Absent
      /\ \A j \in Inspections : Dense(media', j) /\ Ordered(media, media', j)
  <2>1. \A j \in Inspections : Dense(media, j)
    BY DEF MediaInv
  <2> QED BY <1>1, <1>3, <1>4, <1>5, <1>6, <2>1, ClosedDense
<1>8. \A g \in HubFiles : media[g] # Absent => media'[g] # Absent
  BY <1>2, <1>3, <1>7 DEF Media!Files
<1> QED BY <1>7, <1>8 DEF Keeps

LEMMA MoveKeeps ==
  ASSUME Media!MediaAssumption, MediaInv, NEW f \in Media!Files,
         NEW i \in Inspections \cup {NoInspection}, NEW p, Media!MoveMedia(f, i, p)
  PROVE  Keeps(media, media')
<1> DEFINE source == media[f].inspection
           alone == Media!Detached(media, f)
           detached == IF source = i THEN alone ELSE Media!Closed(alone, source)
           S == Media!Attached(detached, i)
<1>1. media \in Table /\ media[f] \in Media!Row /\ \A j \in Inspections : Dense(media, j)
  BY InvTable DEF Media!MoveMedia, Media!Movable, Media!Stored, Table, MediaInv
<1>2. source \in Inspections \cup {NoInspection}
  BY <1>1 DEF Media!Row
<1>3. /\ alone \in Table
      /\ alone[f] \in Media!Row /\ alone[f].inspection = NoInspection
      /\ \A g \in Media!Files \ {f} : alone[g] = media[g]
      /\ \A j \in Inspections : Media!Attached(alone, j) = Media!Attached(media, j) \ {f}
  BY <1>1, DetachedTable
<1>4. \A j \in Inspections \ {source} : f \notin Media!Attached(media, j)
  BY DEF Media!Attached
<1>5. \/ i = NoInspection /\ media' = detached
      \/ /\ i # NoInspection /\ p \in 1..(Media!Cardinality(S) + 1)
         /\ media' = Media!Renumbered(detached, i, Media!Inserted(detached, S, f, p))
  BY DEF Media!MoveMedia
<1>6. Absent \notin Media!Row /\ NoInspection \notin Inspections
  BY DEF Media!MediaAssumption
<1> HIDE DEF alone, source
<1>7. CASE source = i
  <2>1. detached = alone
    BY <1>7
  <2>2. CASE i = NoInspection
    <3>1. media' = alone
      BY <1>5, <2>1, <2>2
    <3>2. \A j \in Inspections : Media!Attached(media', j) = Media!Attached(media, j)
      BY <1>3, <1>4, <1>6, <1>7, <2>2, <3>1
    <3>3. ASSUME NEW j \in Inspections
          PROVE  \A g \in Media!Attached(media, j) : media'[g].order = media[g].order
      BY <1>3, <1>4, <1>6, <1>7, <2>2, <3>1 DEF Media!Attached
    <3>4. \A j \in Inspections : Dense(media', j)
      BY <1>1, <3>2, <3>3, SameDense
    <3>5. \A g \in HubFiles : media[g] # Absent => media'[g] # Absent
      BY <1>3, <1>6, <3>1 DEF Media!Files
    <3> QED BY <1>3, <3>1, <3>2, <3>4, <3>5 DEF Keeps
  <2>3. CASE i # NoInspection
    <3>1. i \in Inspections
      BY <2>3
    <3>2. \E q : Spread(alone, Media!Attached(alone, i), q)
      <4>1. \A g \in Media!Attached(alone, i) : alone[g].order = media[g].order
        BY <1>3, <3>1 DEF Media!Attached
      <4> QED BY <1>1, <1>3, <3>1, <4>1, LeavesSpread
    <3>3. ASSUME NEW j \in Inspections \ {i}
          PROVE  /\ Media!Attached(alone, j) = Media!Attached(media, j)
                 /\ \A g \in Media!Attached(media, j) : alone[g].order = media[g].order
      BY <1>3, <1>4, <1>7 DEF Media!Attached
    <3>4. \A j \in Inspections \ {i} : Dense(alone, j)
      BY <1>1, <3>3, SameDense
    <3>5. \A j \in Inspections : f \notin Media!Attached(alone, j)
      BY <1>3
    <3>6. /\ p \in 1..(Media!Cardinality(Media!Attached(alone, i)) + 1)
          /\ media' = Media!Renumbered(alone, i, Media!Inserted(alone, Media!Attached(alone, i),
               f, p))
      BY <1>5, <2>1, <2>3
    <3>7. /\ media' \in Table
          /\ \A j \in Inspections : Dense(media', j) /\ Ordered(alone, media', j)
          /\ Media!Attached(media', i) = Media!Attached(alone, i) \cup {f}
          /\ \A j \in Inspections \ {i} : Media!Attached(media', j) = Media!Attached(alone, j)
          /\ \A g \in Media!Files : alone[g] # Absent => media'[g] # Absent
      BY <1>3, <3>1, <3>2, <3>4, <3>5, <3>6, InsertionDense
    <3>8. f \in Media!Attached(media, i)
      BY <1>1, <1>6, <1>7 DEF Media!Attached, source
    <3>9. \A j \in Inspections : Media!Attached(media', j) = Media!Attached(media, j)
      BY <1>3, <3>1, <3>3, <3>7, <3>8
    <3>10. \A g \in HubFiles : media[g] # Absent => media'[g] # Absent
      BY <1>3, <1>6, <3>7 DEF Media!Files
    <3> QED BY <3>7, <3>9, <3>10 DEF Keeps
  <2> QED BY <2>2, <2>3
<1>8. CASE source # i
  <2>1. detached = Media!Closed(alone, source)
    BY <1>8
  <2> HIDE DEF detached
  <2>2. /\ detached \in Table
        /\ detached[f] = alone[f]
        /\ \A g \in Media!Files : alone[g] # Absent => detached[g] # Absent
        /\ \A j \in Inspections : /\ Dense(detached, j) /\ Ordered(media, detached, j)
                                /\ Media!Attached(detached, j) = Media!Attached(media, j) \ {f}
    <3>1. \A j \in Inspections : f \notin Media!Attached(alone, j)
      BY <1>3
    <3> QED BY <1>1, <1>2, <1>3, <1>4, <2>1, <3>1, ClosedDense
  <2>3. \A g \in HubFiles : media[g] # Absent => detached[g] # Absent
    BY <1>3, <1>6, <2>2 DEF Media!Files
  <2>4. CASE i = NoInspection
    <3>1. media' = detached
      BY <1>5, <2>4
    <3> QED BY <2>2, <2>3, <3>1 DEF Keeps
  <2>5. CASE i # NoInspection
    <3>1. i \in Inspections /\ f \notin Media!Attached(media, i)
      BY <1>4, <1>8, <2>5
    <3>2. Dense(detached, i) /\ Media!Attached(detached, i) = Media!Attached(media, i)
      BY <2>2, <3>1
    <3>3. \E q : Spread(detached, Media!Attached(detached, i), q)
      <4>1. Media!Attached(detached, i) = Media!Attached(detached, i) \ {f}
        BY <2>2, <3>1
      <4> QED BY <2>2, <3>2, <4>1, LeavesSpread
    <3>4. \A j \in Inspections : f \notin Media!Attached(detached, j)
      BY <2>2
    <3>5. /\ media' \in Table
          /\ \A j \in Inspections : Dense(media', j) /\ Ordered(detached, media', j)
          /\ Media!Attached(media', i) = Media!Attached(detached, i) \cup {f}
          /\ \A j \in Inspections \ {i} : Media!Attached(media', j) = Media!Attached(detached, j)
          /\ \A g \in Media!Files : detached[g] # Absent => media'[g] # Absent
      <4>1. /\ p \in 1..(Media!Cardinality(Media!Attached(detached, i)) + 1)
            /\ media' = Media!Renumbered(detached, i,
                             Media!Inserted(detached, Media!Attached(detached, i), f, p))
        BY <1>5, <2>5
      <4> QED BY <1>3, <2>2, <3>1, <3>3, <3>4, <4>1, InsertionDense
    <3>6. \A j \in Inspections : Ordered(media, media', j)
      <4> SUFFICES ASSUME NEW j \in Inspections,
                          NEW g \in Media!Attached(media, j) \cap Media!Attached(media', j),
                          NEW h \in Media!Attached(media, j) \cap Media!Attached(media', j),
                          media[g].order < media[h].order
                   PROVE  media'[g].order < media'[h].order
        BY DEF Ordered
      <4>1. g \in Media!Attached(detached, j) /\ h \in Media!Attached(detached, j)
        BY <2>2, <3>1, <3>2, <3>5
      <4>2. detached[g].order < detached[h].order
        BY <2>2, <4>1 DEF Ordered
      <4> QED BY <3>5, <4>1, <4>2 DEF Ordered
    <3>7. \A g \in HubFiles : media[g] # Absent => media'[g] # Absent
      BY <2>3, <3>5 DEF Media!Files
    <3> QED BY <3>5, <3>6, <3>7 DEF Keeps
  <2> QED BY <2>4, <2>5
<1> QED BY <1>7, <1>8

LEMMA ReorderKeeps ==
  ASSUME Media!MediaAssumption, MediaInv, NEW i \in Inspections, Media!ReorderMedia(i)
  PROVE  Keeps(media, media')
<1> DEFINE S == Media!Attached(media, i)
<1>1. PICK place \in Media!Bijection(S,
        1..Media!Cardinality(S)) : media' = Media!Renumbered(media, i, place)
  BY DEF Media!ReorderMedia
<1>2. DOMAIN place = S /\ {place[f] : f \in S} = 1..Media!Cardinality(S)
  BY DEF Media!Bijection, Media!Injection, Media!Surjection
<1>3. media \in Table /\ \A j \in Inspections : Dense(media, j)
  BY InvTable DEF MediaInv
<1>4. S \in SUBSET Media!Files /\ \A f \in S : media[f] \in Media!Row
  BY <1>3, AttachedRow DEF Media!Attached
<1>5. \A j \in Inspections \ {i} : Media!Attached(media, j) \cap S = {}
  BY DEF Media!Attached
<1>6. /\ media' \in Table /\ \A j \in Inspections : Dense(media', j)
      /\ Media!Attached(media', i) = S
      /\ \A f \in Media!Files : media[f] # Absent => media'[f] # Absent
      /\ \A j \in Inspections \ {i} : Media!Attached(media', j) = Media!Attached(media, j)
  <2>1. Media!Attached(media, i) \subseteq S
    OBVIOUS
  <2> HIDE DEF S
  <2> QED BY <1>1, <1>2, <1>3, <1>4, <1>5, <2>1, RenumberedDense
<1>7. \A j \in Inspections : Media!Attached(media', j) = Media!Attached(media, j)
  BY <1>6
<1> QED BY <1>6, <1>7 DEF Keeps, Media!Files

-----------------------------------------------------------------------------
(* The invariant *)

LEMMA NextKeepsTable ==
  ASSUME Media!MediaAssumption, MediaInv, Media!Next
  PROVE  Keeps(media, media')
<1>1. CASE \E f \in Media!Files : Media!RecordMediaEvent(f)
  BY <1>1, RecordKeeps
<1>2. CASE \E f \in Media!Files : Media!DeleteMedia(f)
  BY <1>2, FileGoneKeeps
<1>3. CASE \E f \in Media!Files, m \in Missions \cup {NoMission} : Media!AssignMedia(f, m)
  BY <1>3, AssignKeeps
<1>4. CASE \E f \in Media!Files, i \in Inspections \cup {NoInspection},
        m \in Missions : Media!CompleteUpload(f, m, i)
  BY <1>4, FileUploadKeeps
<1>5. CASE \E f \in Media!Files, i \in Inspections \cup {NoInspection},
        p \in 1..Media!Cardinality(Media!Files) :
             Media!MoveMedia(f, i, p)
  BY <1>5, MoveKeeps
<1>6. CASE Media!SweepLoads \/ \E i \in Inspections : Media!DeleteInspection(i)
  <2>1. media' = media
    BY <1>6 DEF Media!SweepLoads, Media!DeleteInspection
  <2> QED BY <2>1, InvTable, KeepsSame DEF MediaInv
<1>7. CASE Media!SweepCommits
  BY <1>7, SweepKeeps
<1>8. CASE \E m \in Missions : Media!ConfirmIngest(m)
  BY <1>8, IngestKeeps
<1>9. CASE \E m \in Missions : Media!DeleteMission(m)
  BY <1>9, MissionGoneKeeps
<1>10. CASE \E i \in Inspections : Media!ReorderMedia(i)
  BY <1>10, ReorderKeeps
<1> QED BY <1>1, <1>2, <1>3, <1>4, <1>5, <1>6, <1>7, <1>8, <1>9, <1>10 DEF Media!Next

LEMMA NextKeepsRest ==
  ASSUME Media!MediaAssumption, MediaInv, Media!Next, Keeps(media, media')
  PROVE  /\ missions' \subseteq Missions
         /\ inspections' \subseteq Inspections
         /\ \E S \in SUBSET HubFiles : sweep' \in [S -> Missions \cup {NoMission, "failed"}]
         /\ \A f \in DOMAIN sweep' : media'[f] # Absent
<1>1. PICK S \in SUBSET HubFiles : sweep \in [S -> Missions \cup {NoMission, "failed"}]
  BY DEF MediaInv, Media!TypeOK
<1>2. missions \subseteq Missions /\ inspections \subseteq Inspections
  BY DEF MediaInv, Media!TypeOK
<1>3. \A f \in HubFiles : media[f] # Absent => media'[f] # Absent
  BY DEF Keeps
<1>4. CASE Media!SweepLoads
  <2> DEFINE pending == {f \in HubFiles : Media!Stored(f) /\ media[f].status = "RECEIVED"}
  <2>1. sweep' \in [pending -> Media!Outcomes] /\ media' = media
        /\ missions' = missions /\ inspections' = inspections
    BY <1>4 DEF Media!SweepLoads
  <2>2. Media!Outcomes \subseteq Missions \cup {NoMission, "failed"}
    BY <1>2 DEF Media!Outcomes
  <2>3. \A f \in pending : media[f] # Absent
    BY DEF Media!Stored
  <2>4. pending \in SUBSET HubFiles
    OBVIOUS
  <2> HIDE DEF pending
  <2>5. sweep' \in [pending -> Missions \cup {NoMission, "failed"}]
    BY <2>1, <2>2
  <2> QED BY <1>2, <2>1, <2>3, <2>4, <2>5
<1>5. CASE Media!SweepCommits
  <2>1. sweep' = <<>> /\ missions' = missions /\ inspections' = inspections
    BY <1>5 DEF Media!SweepCommits
  <2>2. sweep' \in [{} -> Missions \cup {NoMission, "failed"}]
    BY <2>1
  <2>3. DOMAIN sweep' = {}
    BY <2>2
  <2> QED BY <1>2, <2>1, <2>2, <2>3
<1>6. CASE sweep' = sweep /\ missions' \subseteq missions /\ inspections' \subseteq inspections
  <2>1. \A f \in DOMAIN sweep : f \in HubFiles /\ media[f] # Absent
    BY <1>1 DEF MediaInv, Media!Stored
  <2> QED BY <1>1, <1>2, <1>3, <1>6, <2>1
<1>7. Media!SweepLoads \/ Media!SweepCommits
      \/ (sweep' = sweep /\ missions' \subseteq missions /\ inspections' \subseteq inspections)
  <2>1. \A f, m, i,
          p : \/ Media!RecordMediaEvent(f) \/ Media!DeleteMedia(f) \/ Media!AssignMedia(f, m)
                        \/ Media!CompleteUpload(f, m, i) \/ Media!MoveMedia(f, i, p)
                        \/ Media!ConfirmIngest(m) \/ Media!ReorderMedia(i)
                        => UNCHANGED <<missions, inspections, sweep>>
    BY DEF Media!RecordMediaEvent, Media!DeleteMedia, Media!AssignMedia, Media!CompleteUpload,
       Media!MoveMedia,
           Media!ConfirmIngest, Media!ReorderMedia
  <2>2. \A m : Media!DeleteMission(m) => /\ sweep' = sweep /\ missions' \subseteq missions
                                  /\ inspections' \subseteq inspections
    BY DEF Media!DeleteMission
  <2>3. \A i : Media!DeleteInspection(i) => /\ sweep' = sweep /\ missions' \subseteq missions
                                     /\ inspections' \subseteq inspections
    BY DEF Media!DeleteInspection
  <2> QED BY <2>1, <2>2, <2>3 DEF Media!Next
<1> QED BY <1>4, <1>5, <1>6, <1>7

LEMMA InitInv == ASSUME Media!MediaAssumption, Media!Init PROVE MediaInv
<1>1. media \in [Media!Files -> Media!Row \cup {Absent}]
  BY DEF Media!Init
<1>2. sweep \in [{} -> Missions \cup {NoMission, "failed"}] /\ DOMAIN sweep = {}
  BY DEF Media!Init
<1>3. Media!TypeOK
  <2>1. {} \in SUBSET HubFiles
    OBVIOUS
  <2> QED BY <1>1, <1>2, <2>1 DEF Media!Init, Media!TypeOK
<1>4. ASSUME NEW i PROVE Dense(media, i)
  <2>1. Media!Attached(media, i) = {}
    BY DEF Media!Init, Media!Attached
  <2>2. Media!Cardinality({}) = 0
    BY FS_EmptySet, CountedAlike
  <2> QED BY <2>1, <2>2 DEF Dense
<1> QED BY <1>2, <1>3, <1>4 DEF MediaInv

LEMMA NextInv == ASSUME Media!MediaAssumption, MediaInv, [Media!Next]_(Media!vars) PROVE MediaInv'
<1>1. CASE Media!Next
  <2>1. Keeps(media, media')
    BY <1>1, NextKeepsTable
  <2>2. /\ missions' \subseteq Missions
        /\ inspections' \subseteq Inspections
        /\ \E S \in SUBSET HubFiles : sweep' \in [S -> Missions \cup {NoMission, "failed"}]
        /\ \A f \in DOMAIN sweep' : media'[f] # Absent
    BY <1>1, <2>1, NextKeepsRest
  <2>3. Media!TypeOK'
    BY <2>1, <2>2 DEF Media!TypeOK, Keeps, Table
  <2>4. \A i \in Inspections : Dense(media', i)
    BY <2>1 DEF Keeps
  <2> QED BY <2>2, <2>3, <2>4 DEF MediaInv, Media!Stored, Dense, Media!Attached
<1>2. CASE UNCHANGED Media!vars
  <2>1. media' = media /\ missions' = missions /\ inspections' = inspections /\ sweep' = sweep
    BY <1>2 DEF Media!vars
  <2>2. Media!TypeOK' /\ \A f \in DOMAIN sweep' : media'[f] # Absent
    BY <2>1 DEF MediaInv, Media!TypeOK, Media!Stored
  <2>3. \A i \in Inspections : Dense(media', i)
    BY <2>1 DEF MediaInv
  <2> QED BY <2>2, <2>3 DEF MediaInv, Media!Stored, Dense, Media!Attached
<1> QED BY <1>1, <1>2

(* Adding or taking away a file leaves the others in their order.          *)
LEMMA NextOrders ==
  ASSUME Media!MediaAssumption, MediaInv, [Media!Next]_(Media!vars)
  PROVE  \A i \in Inspections :
           Media!Attached(media, i) # Media!Attached(media', i) =>
             \A f, g \in Media!Attached(media, i) \cap Media!Attached(media', i) :
               media[f].order < media[g].order => media'[f].order < media'[g].order
<1>1. CASE Media!Next
  BY <1>1, NextKeepsTable DEF Keeps, Ordered
<1>2. CASE UNCHANGED Media!vars
  BY <1>2 DEF Media!vars, Media!Attached
<1> QED BY <1>1, <1>2

(* The unique key is never met half way through a renumbering.             *)
LEMMA InvSafe == ASSUME Media!MediaAssumption, MediaInv PROVE Media!RenumberSafe
<1> SUFFICES ASSUME NEW i \in inspections
             PROVE  /\ \A place \in Media!Bijection(Media!Attached(media, i),
                                                   1..Media!Cardinality(Media!Attached(media, i))) :
                         Media!NoCollision(media, i, Media!Attached(media, i), place)
                    /\ \A f \in {g \in Media!Files : Media!Stored(g)} :
                         LET table == Media!Detached(media, f)
                             rest == Media!Attached(table, i)
                         IN  /\ Media!NoCollision(table, i, rest, Media!Places(table, rest))
                             /\ \A p \in 1..(Media!Cardinality(rest) + 1) :
                                  Media!NoCollision(table, i, rest \cup {f}, Media!Inserted(table,
                                    rest, f, p))
  BY DEF Media!RenumberSafe
<1>1. i \in Inspections /\ media \in Table /\ Dense(media, i)
  BY InvTable DEF MediaInv, Media!TypeOK
<1>2. ASSUME NEW place \in Media!Bijection(Media!Attached(media, i),
        1..Media!Cardinality(Media!Attached(media, i)))
      PROVE  Media!NoCollision(media, i, Media!Attached(media, i), place)
  <2> DEFINE S == Media!Attached(media, i)
             N == Media!Cardinality(S)
             o == [f \in S |-> media[f].order]
  <2>1. Media!IsFiniteSet(S) /\ N \in Nat
    BY AttachedFinite
  <2>2. {place[f] : f \in S} = 1..N
    BY DEF Media!Bijection, Media!Injection, Media!Surjection
  <2>3. {o[f] : f \in S} = 1..N
    BY <1>1 DEF Dense
  <2>4. \A f, g \in S : o[f] = o[g] => f = g
    <3> HIDE DEF o, S
    <3> QED BY <2>1, <2>3, NumbersApart
  <2>5. \A f \in S : media[f].order \in 0..(N + 1)
    <3>1. \A f \in S : o[f] \in 1..N
      BY <2>3
    <3>2. \A f \in S : o[f] \in 0..(N + 1)
      <4> HIDE DEF o, N
      <4> QED BY <2>1, <3>1
    <3> QED BY <3>2
  <2>6. \A f, g \in S : media[f].order = media[g].order => f = g
    BY <2>4
  <2> HIDE DEF S
  <2> QED BY <2>1, <2>2, <2>5, <2>6, NeverCollides DEF S
<1>3. ASSUME NEW f \in Media!Files, Media!Stored(f)
      PROVE  LET table == Media!Detached(media, f)
                 rest == Media!Attached(table, i)
             IN  /\ Media!NoCollision(table, i, rest, Media!Places(table, rest))
                 /\ \A p \in 1..(Media!Cardinality(rest) + 1) :
                      Media!NoCollision(table, i, rest \cup {f}, Media!Inserted(table, rest, f, p))
  <2> DEFINE table == Media!Detached(media, f)
             rest == Media!Attached(table, i)
             N == Media!Cardinality(rest)
             T == rest \cup {f}
  <2>1. media[f] \in Media!Row
    BY <1>1, <1>3 DEF Media!Stored, Table
  <2>2. /\ table \in Table
        /\ table[f].inspection = NoInspection /\ table[f].order = 0
        /\ \A g \in Media!Files \ {f} : table[g] = media[g]
        /\ rest = Media!Attached(media, i) \ {f}
    BY <1>1, <2>1, DetachedTable
  <2>3. /\ Media!IsFiniteSet(rest) /\ N \in Nat
        /\ Media!IsFiniteSet(T) /\ f \notin rest /\ rest \subseteq Media!Files
    BY <2>2, AttachedFinite, FS_AddElement, CountedAlike
  <2>4. PICK q : Spread(table, rest, q)
    <3>1. \A g \in rest : table[g].order = media[g].order
      BY <2>2, <2>3
    <3> QED BY <1>1, <2>2, <3>1, LeavesSpread
  <2>5. \A g, h \in rest : table[g].order = table[h].order => g = h
    <3> HIDE DEF rest, table
    <3> QED BY <2>3, <2>4, SpreadApart
  <2>6. \A g \in rest : table[g].order \in 1..(N + 1)
    <3> HIDE DEF rest, table
    <3> QED BY <2>3, <2>4, PlaceBySpread DEF rest
  <2>7. NoInspection # i
    BY <1>1 DEF Media!MediaAssumption
  <2>8. Media!NoCollision(table, i, rest, Media!Places(table, rest))
    <3> DEFINE place == Media!Places(table, rest)
    <3>1. {place[g] : g \in rest} = 1..N
      <4> HIDE DEF rest, table
      <4> QED BY <2>3, <2>4, PlacesDense DEF rest
    <3>2. \A g \in rest : table[g].order \in 0..(N + 1)
      BY <2>6
    <3> HIDE DEF rest, table, place
    <3> QED BY <2>3, <2>5, <3>1, <3>2, NeverCollides DEF rest, place
  <2>9. ASSUME NEW p \in 1..(N + 1)
        PROVE  Media!NoCollision(table, i, T, Media!Inserted(table, rest, f, p))
    <3> DEFINE place == Media!Inserted(table, rest, f, p)
    <3>1. Media!Cardinality(T) = N + 1 /\ {place[g] : g \in T} = 1..(N + 1)
      <4>1. PICK r, n : r = rest /\ n = N
        OBVIOUS
      <4>2. Media!IsFiniteSet(r) /\ Spread(table, r, q) /\ f \notin r
              /\ p \in 1..(Media!Cardinality(r) + 1)
        BY <2>3, <2>4, <2>9, <4>1
      <4> HIDE DEF rest, table, N
      <4>3. /\ Media!Cardinality(r \cup {f}) = Media!Cardinality(r) + 1
            /\ {Media!Inserted(table, r, f,
                 p)[g] : g \in r \cup {f}} = 1..(Media!Cardinality(r) + 1)
        BY <4>2, InsertedDense
      <4> QED BY <4>1, <4>3 DEF N
    <3>2. \A g \in T : table[g].order \in 0..(Media!Cardinality(T) + 1)
      <4>1. \A g \in rest : table[g].order \in 0..(N + 1 + 1)
        <5> HIDE DEF rest, table
        <5> QED BY <2>3, <2>6
      <4>2. table[f].order \in 0..(N + 1 + 1)
        <5> HIDE DEF rest, table
        <5> QED BY <2>2, <2>3
      <4> QED BY <3>1, <4>1, <4>2
    <3>3. \A g, h \in T : /\ table[g].inspection = i /\ table[h].inspection = i
                          /\ table[g].order = table[h].order
                          => g = h
      BY <2>2, <2>5, <2>7
    <3> HIDE DEF rest, table, place, T
    <3> QED BY <2>3, <3>1, <3>2, <3>3, NeverCollides DEF place
  <2> QED BY <2>8, <2>9
<1> QED BY <1>2, <1>3

LEMMA InvDense == MediaInv => Media!DenseOrder
BY DEF MediaInv, Media!DenseOrder, Dense

LEMMA MediaSteps ==
  [Next]_<<side, runVars, mediaVars, codeVars>> => [Media!Next]_(Media!vars)
BY DEF Next, mediaVars, Media!vars

-----------------------------------------------------------------------------
(* Theorems *)

LEMMA RunSteps ==
  [Next]_<<side, runVars, mediaVars, codeVars>> => [Measurement!Next]_(Measurement!vars)
BY DEF Next, runVars, Measurement!vars

\* The rows, tasks and objects of a run fit one another (RunInv), for every number of runs, processes
\* and crashes, whatever else happens.
THEOREM RunsKeepInvariant == FairSpec => []RunInv
<1>1. Init => RunInv
  BY FootageAssumption, InitKeeps DEF FootageAssumption, Init
<1>2. RunInv /\ [Next]_<<side, runVars, mediaVars, codeVars>> => RunInv'
  BY FootageAssumption, RunSteps, NextKeeps DEF FootageAssumption
<1> QED BY <1>1, <1>2, PTL DEF FairSpec

\* A key in the row of a measurement leads to an object in the store (preview and results pages),
\* for any number of runs, processes, operators and crashes.
THEOREM KeysLeadToObjects == FairSpec => []PointersResolve
<1>1. RunInv => PointersResolve
  BY RunInvSays DEF PointersResolve
<1> QED BY <1>1, RunsKeepInvariant, PTL

\* run_processing's 409 and its way out of AWAITING_CONFIRM are never taken.
THEOREM NoEarlyProcessing == FairSpec => []ProcessOnlyConfirmed
<1>1. RunInv => ProcessOnlyConfirmed
  BY RunInvSays DEF ProcessOnlyConfirmed
<1> QED BY <1>1, RunsKeepInvariant, PTL

\* No run waits in FIRST_FRAME without a process, except those the commit of a boot has missed.
THEOREM DetectionsAreOwned == FairSpec => []FirstFrameOwned
<1>1. RunInv => FirstFrameOwned
  BY RunInvSays DEF FirstFrameOwned
<1> QED BY <1>1, RunsKeepInvariant, PTL

\* With one operator, a finished run reports the boxes that were confirmed, also when two tasks
\* processed it.  Two operators who confirm different boxes can break it.
THEOREM ReportsConfirmedBoxes ==
  ASSUME \A c, d \in Clients : c = d
  PROVE  FairSpec => []ResultsOfConfirmedBoxes
<1>1. OneOperator
  BY DEF OneOperator
<1>2. Init => SoleInv
  BY FootageAssumption, <1>1, SoleInit DEF FootageAssumption, Init
<1>3. SoleInv /\ [Next]_<<side, runVars, mediaVars, codeVars>> => SoleInv'
  BY <1>1, FootageAssumption, RunSteps, SoleKeeps DEF FootageAssumption
<1>4. SoleInv => ResultsOfConfirmedBoxes
  BY DEF SoleInv, ResultsOfConfirmedBoxes
<1> QED BY <1>2, <1>3, <1>4, PTL DEF FairSpec

\* The rows of drone_media_file are well formed and every inspection is dense, whatever else happens.
THEOREM FilesKeepInvariant == FairSpec => []MediaInv
<1>1. Media!MediaAssumption
  BY FootageAssumption DEF FootageAssumption
<1>2. Init => MediaInv
  BY <1>1, InitInv DEF Init
<1>3. MediaInv /\ [Next]_<<side, runVars, mediaVars, codeVars>> => MediaInv'
  BY <1>1, MediaSteps, NextInv
<1> QED BY <1>2, <1>3, PTL DEF FairSpec

\* The files of every inspection are numbered 1..N without a gap, for any number of files and
\* inspections and any sequence of requests of one operator, the hub and the sweep.
THEOREM FilesStayNumbered == FairSpec => []DenseOrder
<1>1. MediaInv => DenseOrder
  BY InvDense DEF DenseOrder
<1> QED BY <1>1, FilesKeepInvariant, PTL

\* No renumbering a request may ask for meets the unique key on (inspection_id, order_index) half
\* way (the sentinel pass of _renumber_inspection), for any number of files.
THEOREM SentinelIsSafe == FairSpec => []RenumberSafe
<1>1. MediaInv => RenumberSafe
  BY FootageAssumption, InvSafe DEF FootageAssumption, RenumberSafe
<1> QED BY <1>1, FilesKeepInvariant, PTL

\* A file that joins or leaves an inspection changes the order of no other two.
THEOREM OrderIsTheOperators == FairSpec => OthersKeepOrder
<1> DEFINE Kept == \A i \in Inspections :
             Media!Attached(media, i) # Media!Attached(media', i) =>
               \A f, g \in Media!Attached(media, i) \cap Media!Attached(media', i) :
                 media[f].order < media[g].order => media'[f].order < media'[g].order
<1>1. MediaInv /\ [Next]_<<side, runVars, mediaVars, codeVars>> => [Kept]_(Media!vars)
  BY FootageAssumption, MediaSteps, NextOrders DEF FootageAssumption
<1> QED BY <1>1, FilesKeepInvariant, PTL DEF FairSpec, OthersKeepOrder, Media!OthersKeepOrder
=============================================================================
