----------------------------- MODULE FullyAsync -----------------------------
(***************************************************************************)
(* Fully asynchronous training: the rollouter (Rollouter), the message     *)
(* queue (MessageQueue), and here the trainer with the parameter           *)
(* synchronizer it drives (verl/recipe/fully_async_policy/                 *)
(* fully_async_trainer.py, param_sync.py).  The trainer is one sequential  *)
(* process; the synchronizer runs only inside the trainer's calls to it.   *)
(***************************************************************************)
EXTENDS Rollouter

CONSTANTS
    RequiredSamples,          \* samples per training step
    TriggerParameterSyncStep  \* training steps between synchronizations

ASSUME TrainerAssumption ==
    /\ RequiredSamples \in Nat \ {0}
    /\ TriggerParameterSyncStep \in Nat \ {0}
    /\ Consumers = {"trainer"}

VARIABLES
    trainerPc,
    batch,               \* samples collected for the step, then trained on
    ending,              \* the finish signal was received
    local_trigger_step,
    trainer_version,     \* the trainer's current_param_version
    weights_version,     \* weights loaded in the generation servers
    trained,             \* samples consumed by completed training steps
    departed             \* samples consumed, dropped or failed by the time
                         \* staleness was last reset (history variable)

trainerVars == <<trainerPc, batch, ending, local_trigger_step,
                 trainer_version, weights_version, trained, departed>>
vars == <<mqVars, rollVars, trainerVars>>

Init ==
    /\ MQInit
    /\ RollInit
    /\ trainerPc = "collect"
    /\ batch = {}
    /\ ending = FALSE
    /\ local_trigger_step = 1
    /\ trainer_version = 0
    /\ weights_version = 0
    /\ trained = {}
    /\ departed = 0
-----------------------------------------------------------------------------
SmallBatch(b) == Cardinality(b) >= RequiredSamples - 1
BatchComplete(b) == Cardinality(b) = RequiredSamples

(* _get_samples_from_queue.                                                *)
Collect ==
    /\ trainerPc = "collect"
    /\ GetSample("trainer")
    /\ IF Head(queue) = Sentinel
       THEN ending' = TRUE /\ trainerPc' = "final" /\ UNCHANGED batch
       ELSE /\ batch' = batch \cup {Head(queue)}
            /\ trainerPc' = IF BatchComplete(batch') THEN "train" ELSE "collect"
            /\ UNCHANGED ending
    /\ UNCHANGED <<rollVars, local_trigger_step, trainer_version,
                   weights_version, trained, departed>>

SleepOnQueue ==
    /\ trainerPc = "collect"
    /\ WaitSample("trainer")
    /\ UNCHANGED <<rollVars, trainerVars>>

(* One training step, then _trigger_parameter_sync_after_step.             *)
Train ==
    /\ trainerPc = "train"
    /\ trained' = trained \cup batch
    /\ batch' = {}
    /\ IF local_trigger_step < TriggerParameterSyncStep
       THEN /\ local_trigger_step' = local_trigger_step + 1
            /\ trainerPc' = "collect"
            /\ UNCHANGED trainer_version
       ELSE /\ local_trigger_step' = 1
            /\ trainer_version' = trainer_version + 1
            /\ trainerPc' = "wait"
    /\ UNCHANGED <<mqVars, rollVars, ending, weights_version, departed>>

(* The synchronization after the loop, forced by validate=True; the partial *)
(* batch in hand is thrown away.                                           *)
FinalSync ==
    /\ trainerPc = "final"
    /\ trainer_version' = trainer_version + 1
    /\ local_trigger_step' = 1
    /\ batch' = {}
    /\ trainerPc' = "wait"
    /\ UNCHANGED <<mqVars, rollVars, ending, weights_version, trained, departed>>

NoNeedToWait == TRUE  \* wait_last_valid forgotten

(* wait_last_valid: the update and the resume launched by the previous      *)
(* synchronization, if there was one, have both returned.                  *)
LastSyncReturned == <<updPc, resPc>> \in {<<"off", "off">>, <<"replied", "replied">>}

syncFrame == <<batch, ending, local_trigger_step, trainer_version, trained,
               departed>>
handlersFrame == <<loop, lockq, control, current_param_version,
                   staleness_samples, fed, queues, taskVars, servers_paused,
                   feedPc, procVars, consVars, monPc, mainPc, updSum>>

(* sync_weights: ask for the pause ...                                     *)
CallPause ==
    /\ trainerPc = "wait" /\ LastSyncReturned
    /\ pausePc' = "called" /\ updPc' = "off" /\ resPc' = "off"
    /\ trainerPc' = "pausing"
    /\ UNCHANGED <<mqVars, handlersFrame, syncFrame, weights_version>>

(* ... label the queue ...                                                 *)
LabelQueue ==
    /\ trainerPc = "pausing" /\ pausePc = "replied"
    /\ SetQueueVersion(trainer_version)
    /\ trainerPc' = "transfer"
    /\ UNCHANGED <<rollVars, syncFrame, weights_version>>

(* ... move the weights ...                                                *)
TransferWeights ==
    /\ trainerPc = "transfer"
    /\ weights_version' = trainer_version
    /\ trainerPc' = "launch"
    /\ UNCHANGED <<mqVars, rollVars, syncFrame>>

(* ... and launch the update without waiting for it; the final sync waits. *)
LaunchUpdate ==
    /\ trainerPc = "launch"
    /\ updPc' = "called" /\ pausePc' = "off"
    /\ trainerPc' = IF ending THEN "lastwait" ELSE "collect"
    /\ UNCHANGED <<mqVars, handlersFrame, syncFrame, resPc, weights_version>>

(* resume is a Ray task on the update's result: it starts when that is in. *)
UpdateCalled == updPc # "off"  \* resume not chained to the update's result
UpdateReturned == updPc = "replied"

StartResume ==
    /\ UpdateReturned /\ resPc = "off"
    /\ resPc' = "called"
    /\ UNCHANGED <<mqVars, handlersFrame, trainerVars, pausePc, updPc>>

TrainerDone ==
    /\ trainerPc = "lastwait"
    /\ updPc = "replied" /\ resPc = "replied"
    /\ trainerPc' = "done"
    /\ UNCHANGED <<mqVars, rollVars, syncFrame, weights_version>>

(* The samples whose place in the staleness budget the reset should keep.  *)
TakenFromPending == fed - Cardinality({i \in DOMAIN pending_queue :
                                           pending_queue[i] # Done})
Failed == {s \in Sample : gen[s] = "failed"}
Gone == total_consumed + dropped_samples + Cardinality(Failed)

UpdateResetsStaleness ==
    /\ UpdateReadSize
    /\ departed' = Gone
    /\ UNCHANGED <<trainerPc, batch, ending, local_trigger_step,
                   trainer_version, weights_version, trained>>
-----------------------------------------------------------------------------
Trainer == \/ Collect \/ SleepOnQueue \/ Train \/ FinalSync \/ CallPause
           \/ LabelQueue \/ TransferWeights \/ LaunchUpdate \/ TrainerDone

Consumer == ConsTake \/ ConsDeliver \/ ConsAck \/ OrphanDeliver
Main == MainStep \/ MainSignal \/ MainStop
Monitor == MonTick \/ MonResume \/ MonCheckRunning
Pause == PauseEnter \/ PauseCancel \/ PauseGather \/ PauseFinish
Update == UpdateEnter(weights_version) \/ UpdateAssign \/ UpdateFinish
Resume == ResumeEnter \/ ResumeServers \/ ResumeFinish

RollouterStep ==
    \/ Feed \/ Processor \/ Consumer \/ Main \/ Monitor
    \/ Pause \/ Update \/ Resume
    \/ \E s \in Sample : Task(s) \/ TaskFail(s)
    \/ \E p \in {"pause", "update", "resume", "main"} : JoinLockQueue(p)

Finished ==
    /\ trainerPc = "done" /\ mainPc = "done" /\ monPc = "done"
    /\ UNCHANGED vars

Next ==
    \/ RollouterStep /\ UNCHANGED trainerVars
    \/ UpdateResetsStaleness
    \/ Trainer \/ StartResume
    \/ Finished

Spec == Init /\ [][Next]_vars

(* Fairness.  Every coroutine, server and process takes the steps it can:   *)
(* weak fairness.  The RPC handlers get strong fairness: the event loop     *)
(* serves its ready coroutines in FIFO order, so a handler that is ready   *)
(* between two slices again and again does run.  Nothing obliges a         *)
(* generation to fail.                                                     *)
Handler == Pause \/ Update \/ Resume
             \/ \E p \in {"pause", "update", "resume", "main"} : JoinLockQueue(p)

Fairness ==
    /\ WF_vars(Feed /\ UNCHANGED trainerVars)
    /\ WF_vars(Processor /\ UNCHANGED trainerVars)
    /\ WF_vars(Consumer /\ UNCHANGED trainerVars)
    /\ WF_vars(Main /\ UNCHANGED trainerVars)
    /\ WF_vars(Monitor /\ UNCHANGED trainerVars)
    /\ SF_vars(Handler /\ UNCHANGED trainerVars)
    /\ WF_vars(UpdateResetsStaleness \/ StartResume)
    /\ \A s \in Sample : WF_vars(Task(s) /\ UNCHANGED trainerVars)
    /\ WF_vars(Trainer)

FairSpec == Spec /\ Fairness
-----------------------------------------------------------------------------
(* PROPERTIES                                                              *)

Coroutine == {"proc", "main", "mon", "pause", "update", "resume"}

(* Every variable holds a value of the kind the code keeps there; staleness *)
(* and versions never go negative.                                         *)
TypeOK ==
    /\ MQTypeOK
    /\ loop \in {"idle", "feed", "proc"}
    /\ lockq \in Seq(Coroutine)
    /\ paused \in BOOLEAN /\ monitor_loop_trigger \in BOOLEAN
    /\ running \in BOOLEAN
    /\ current_param_version \in Nat /\ staleness_samples \in Nat
    /\ fed \in 0..TotalRolloutSteps
    /\ pending_queue \in Seq(Sample \cup {Done})
    /\ cancel_queue \in Seq(Sample) /\ result_queue \in Seq(Sample)
    /\ active_tasks \in SUBSET Sample
    /\ gen \in [Sample -> {"none", "created", "generating", "aborted",
                           "done", "failed"}]
    /\ tag \in [Sample -> Nat]
    /\ servers_paused \in BOOLEAN
    /\ feedPc \in {"feed", "done"}
    /\ procPc \in {"top", "get", "mark", "quiesce", "limit", "drain", "collect",
                   "await", "idle", "submit", "wait", "woken", "finished",
                   "crashed"}
    /\ ret \in {"none", "quiesce", "limit", "drain", "idle", "submit"}
    /\ hand \in Sample \cup {None} /\ bound \in BOOLEAN
    /\ consPc \in {"get", "sent", "behind", "answered", "orphan", "off"}
    /\ consHand \in Sample \cup {None}
    /\ monPc \in {"sleep", "resume", "head", "done"}
    /\ mainPc \in {"feed", "proc", "join", "signal", "answered", "done"}
    /\ pausePc \in {"off", "called", "cancel", "gather", "flush", "replied"}
    /\ updPc \in {"off", "called", "size", "assign", "validate", "replied"}
    /\ updSum \in Nat
    /\ resPc \in {"off", "called", "servers", "finish", "replied"}
    /\ trainerPc \in {"collect", "train", "final", "wait", "pausing",
                      "transfer", "launch", "lastwait", "done"}
    /\ batch \in SUBSET Sample /\ trained \in SUBSET Sample
    /\ ending \in BOOLEAN
    /\ local_trigger_step \in 1..TriggerParameterSyncStep
    /\ trainer_version \in Nat /\ weights_version \in Nat
    /\ departed \in Nat

Elements(q) == {q[i] : i \in DOMAIN q}
Occurrences(s, q) == Cardinality({i \in DOMAIN q : q[i] = s})
InFlight(s) == gen[s] \in {"created", "generating", "aborted", "failed"}

(* In how many of the places of the pipeline a sample is.                  *)
Copies(s) ==
    Occurrences(s, pending_queue) + Occurrences(s, cancel_queue)
    + Occurrences(s, result_queue) + Occurrences(s, queue)
    + Cardinality({x \in {1} : hand = s})
    + Cardinality({x \in {2} : consHand = s})
    + Cardinality({x \in {3} : InFlight(s)})
    + Cardinality({x \in {4} : s \in batch \cup trained})

(* However often a sample is cut and resumed, it is never in two places -   *)
(* so never trained on twice - and until the trainer winds up the only way *)
(* to lose one from the books is the message queue's drop.                 *)
Accounted ==
    /\ \A s \in Sample : Copies(s) <= 1
    /\ dropped_samples = 0 /\ ~ending =>
          \A s \in 1..fed : Copies(s) = 1

(* The finish signal is the last thing the trainer can receive: unless the  *)
(* processor died, no sample is queued or on its way behind it, whatever    *)
(* order the calls of the rollouter reach the queue in.                    *)
SentinelLast ==
    procPc # "crashed" =>
        \A i \in DOMAIN queue :
            queue[i] = Sentinel =>
                /\ i = Len(queue)
                /\ result_queue = <<>> /\ consPc = "off"

(* Samples taken from pending_queue and not yet consumed, dropped or failed *)
(* when staleness was last recomputed.                                     *)
Outstanding == TakenFromPending - departed

(* What update_param_version can fail to count: the sample in the           *)
(* processor's hand and, if the queue's size may be read before an earlier *)
(* put arrives, the sample in the consumer's.                              *)
Uncounted == IF OrderedCalls THEN 1 ELSE 2

(* The throttle overshoots max_required_samples by no more than that.       *)
StalenessBudget == Outstanding <= MaxRequired + Uncounted

(* What the trainer will still train on: its batch and the queue up to the  *)
(* finish signal.                                                          *)
ForTraining ==
    IF ending THEN {}
    ELSE batch \cup {queue[i] : i \in {k \in DOMAIN queue :
                                         \A j \in 1..k : queue[j] # Sentinel}}

(* Samples consumed from one synchronization to the next.                  *)
PerVersion == RequiredSamples * TriggerParameterSyncStep

(* Whatever waits for training was finished under weights at most one       *)
(* version older than the samples ahead of it account for, and those are    *)
(* bounded by the throttle.                                                *)
BoundedLag ==
    \A s \in ForTraining :
        trainer_version - tag[s] <=
            1 + (MaxRequired + Uncounted - 1) \div PerVersion

(* Rollouter, servers and trainer agree on the version up to one step each, *)
(* although update_param_version runs while the trainer goes on.           *)
VersionHandshake ==
    /\ weights_version - current_param_version \in {0, 1}
    /\ trainer_version - weights_version \in {0, 1}
    /\ trainerPc = "pausing" => current_param_version = weights_version

(* No sample is being generated while the servers' weights are replaced.   *)
QuietTransfer ==
    trainerPc = "transfer" =>
        \A s \in Sample : gen[s] \notin {"created", "generating"}

(* A finished sample is labelled with the weights that finished it.        *)
TruthfulTags ==
    [][\A s \in Sample :
          result_queue' = Append(result_queue, s) =>
              tag'[s] = weights_version]_vars

(* The pipeline implements the abstract stream of samples: a sample is open *)
(* from the moment the processor takes it until the trainer has it; a      *)
(* failed generation and a drop by the full queue lose it.                 *)
UnderWay(s) ==
    \/ s \in Elements(cancel_queue) \cup Elements(result_queue) \cup Elements(queue)
    \/ s \in {hand, consHand}
    \/ gen[s] \in {"created", "generating", "aborted"}
Taken(s) == s <= fed /\ s \notin Elements(pending_queue)

Stream == INSTANCE SampleStream WITH
    Samples <- Sample,
    Budget <- MaxRequired + Uncounted - 1,
    PerVersion <- PerVersion,
    fresh <- {s \in Sample : ~Taken(s)},
    open <- {s \in Sample : UnderWay(s)},
    used <- trained \cup batch,
    closed <- ending,
    version <- trainer_version

StreamSpec == Stream!Spec

(* A pause is always answered: no coroutine keeps the lock for ever, and    *)
(* every running task returns.                                             *)
PauseAnswered == (trainerPc = "pausing") ~> (trainerPc = "transfer")

(* Training ends - unless the processor coroutine has died.                *)
Terminates == <>(trainerPc = "done" \/ procPc = "crashed")

(* An interrupted sample does not stay in cancel_queue while the processor  *)
(* lives.                                                                  *)
InterruptedResume ==
    \A s \in Sample :
        s \in Elements(cancel_queue)
            ~> (\/ s \notin Elements(cancel_queue)
                \/ procPc \in {"finished", "crashed"})
-----------------------------------------------------------------------------
(* What the documentation says, and the code does not always do.           *)

(* README.md: rollout continues to generate and trainer continues to       *)
(* consume.  The trainer never sleeps on an empty queue while everything    *)
(* that could feed it sleeps behind the closed gate.                       *)
NoStandstill ==
    ~ /\ asleep # {} /\ queue = <<>> /\ result_queue = <<>> /\ consPc = "get"
      /\ procPc = "wait" /\ ShouldPause /\ lockq = <<>>
      /\ LastSyncReturned
=============================================================================
