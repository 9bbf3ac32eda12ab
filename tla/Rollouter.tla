------------------------------ MODULE Rollouter ------------------------------
(***************************************************************************)
(* FullyAsyncRollouter (verl/recipe/fully_async_policy/                    *)
(* fully_async_rollouter.py): one Ray actor whose coroutines - feeder,     *)
(* processor, consumer, monitor, streaming main and the RPC handlers       *)
(* pause/update_param_version/resume - share one asyncio event loop, one   *)
(* asyncio.Lock and a condition on it.                                     *)
(*                                                                         *)
(* Scheduling is cooperative.  `loop` names the coroutine in the middle of *)
(* a slice: until it suspends no other coroutine runs.  A coroutine that   *)
(* finds the lock free does not suspend; one that finds it taken joins a   *)
(* FIFO queue (`lockq`, whose head is the holder).  The inference servers  *)
(* and the MessageQueue are other processes and move at any time.          *)
(***************************************************************************)
EXTENDS MessageQueue

CONSTANTS
    TotalRolloutSteps,    \* samples fed during the run
    MaxRequired,          \* max_required_samples, also max_queue_size
    MaxConcurrent,        \* max_concurrent_samples
    PendingMax,           \* maxsize of pending_queue
    PartialRollout,       \* async_training.partial_rollout
    MaxFailures,          \* bound: generations that may raise
    MonitorAwake,         \* bound: FALSE when no tick of the monitor's ten
                          \* second timer falls in the modelled stretch
    OrderedCalls,         \* are one actor's calls to the queue executed in
                          \* the order they were made (Ray's choice)
    Done,                 \* the "DONE" end signal in pending_queue
    Sentinel,             \* the None that ends the message queue
    None                  \* an empty hand

Sample == 1..TotalRolloutSteps

ASSUME RollouterAssumption ==
    /\ TotalRolloutSteps \in Nat \ {0}
    /\ MaxRequired \in Nat \ {0}
    /\ MaxConcurrent \in 1..MaxRequired
    /\ PendingMax \in Nat \ {0}
    /\ PartialRollout \in BOOLEAN
    /\ MaxFailures \in Nat
    /\ MonitorAwake \in BOOLEAN
    /\ OrderedCalls \in BOOLEAN
    /\ Done \notin Sample /\ Sentinel \notin Sample /\ None \notin Sample
    /\ MaxQueueSize = MaxRequired
    /\ Item = Sample \cup {Sentinel}

VARIABLES
    loop,            \* coroutine in mid-slice, or "idle"
    lockq,           \* holder of self.lock, then those waiting for it
    paused, monitor_loop_trigger, running,
    current_param_version, staleness_samples,
    fed,             \* samples the feeder has put so far
    pending_queue, cancel_queue, result_queue,
    active_tasks,
    gen,             \* progress of each sample's streaming task
    tag,             \* rollout_sample.param_version, set on completion
    servers_paused,  \* the generation servers refuse and cut generations
    feedPc, procPc, ret, hand, bound,
    consPc, consHand, monPc, mainPc,
    pausePc, updPc, updSum, resPc

queues == <<pending_queue, cancel_queue, result_queue>>
control == <<paused, monitor_loop_trigger, running>>
procVars == <<procPc, ret, hand, bound>>
consVars == <<consPc, consHand>>
rpcVars == <<pausePc, updPc, updSum, resPc>>
taskVars == <<active_tasks, gen, tag>>
rollVars == <<loop, lockq, control, current_param_version, staleness_samples,
              fed, queues, taskVars, servers_paused, feedPc, procVars,
              consVars, monPc, mainPc, rpcVars>>

RollInit ==
    /\ loop = "idle" /\ lockq = <<>>
    /\ paused = FALSE /\ monitor_loop_trigger = TRUE /\ running = TRUE
    /\ current_param_version = 0 /\ staleness_samples = 0
    /\ fed = 0
    /\ pending_queue = <<>> /\ cancel_queue = <<>> /\ result_queue = <<>>
    /\ active_tasks = {}
    /\ gen = [s \in Sample |-> "none"]
    /\ tag = [s \in Sample |-> 0]
    /\ servers_paused = FALSE
    /\ feedPc = "feed"
    /\ procPc = "top" /\ ret = "none" /\ hand = None /\ bound = FALSE
    /\ consPc = "get" /\ consHand = None
    /\ monPc = "sleep" /\ mainPc = "feed"
    /\ pausePc = "off" /\ updPc = "off" /\ updSum = 0 /\ resPc = "off"
-----------------------------------------------------------------------------
(* The event loop and the lock.                                            *)
CanRun(p) == loop \in {"idle", p}
Idle == loop = "idle"
Holds(p) == lockq # <<>> /\ Head(lockq) = p

(* async with self.lock: queue for it, and go on at once if it was free.   *)
Acquire(p) ==
    /\ lockq' = Append(lockq, p)
    /\ loop' = IF lockq = <<>> THEN p ELSE "idle"
KeepLock == UNCHANGED lockq  \* a path that forgets to release
Release == lockq' = Tail(lockq)

(* The same for the coroutines that are one slice up to their first await   *)
(* under the lock: granted when the lock is free or when their turn comes. *)
Granted(p) == lockq = <<>> \/ Holds(p)
LockedBy(p) == IF lockq = <<>> THEN <<p>> ELSE lockq

(* condition.notify_all: only the processor ever waits on it.              *)
NotifyNobody == UNCHANGED procPc
NotifyAll == procPc' = IF procPc = "wait" THEN "woken" ELSE procPc

(* Calls to the message queue made before the present one have been served. *)
Served == OrderedCalls => consPc \notin {"sent", "behind", "orphan"}

(* A gate that would let too much through.                                 *)
QueueOnlyPause == Len(queue) >= MaxRequired

(* _should_pause_generation: a blocking query of the message queue, so the  *)
(* steps that make it wait for Served.                                     *)
ShouldPause ==
    \/ Len(queue) >= MaxRequired
    \/ staleness_samples >= MaxRequired
-----------------------------------------------------------------------------
(* _feed_samples: TotalRolloutSteps samples, then "DONE"; put() suspends    *)
(* only on a full pending_queue.                                           *)
OneSampleTooMany == fed <= TotalRolloutSteps
MoreSamples == fed < TotalRolloutSteps

Feed ==
    /\ feedPc = "feed" /\ CanRun("feed")
    /\ IF Len(pending_queue) >= PendingMax
       THEN loop = "feed" /\ loop' = "idle"
                          /\ UNCHANGED <<pending_queue, fed, feedPc>>
       ELSE IF MoreSamples
            THEN /\ pending_queue' = Append(pending_queue, fed + 1)
                 /\ fed' = fed + 1
                 /\ loop' = "feed"
                 /\ UNCHANGED feedPc
            ELSE /\ pending_queue' = Append(pending_queue, Done)
                 /\ feedPc' = "done"
                 /\ loop' = "idle"
                 /\ UNCHANGED fed
    /\ UNCHANGED <<mqVars, lockq, control, current_param_version,
                   staleness_samples, cancel_queue, result_queue, taskVars,
                   servers_paused, procVars, consVars, monPc, mainPc, rpcVars>>
-----------------------------------------------------------------------------
(* _processor_worker.                                                      *)
procFrame == <<mqVars, monitor_loop_trigger, running, current_param_version,
               fed, result_queue, tag, servers_paused, feedPc, consVars,
               monPc, mainPc, rpcVars>>

(* Taking from pending_queue is what staleness_samples counts, DONE too.   *)
TakePending ==
    /\ pending_queue' = Tail(pending_queue)
    /\ staleness_samples' = staleness_samples + 1
    /\ IF Head(pending_queue) = Done
       THEN procPc' = "drain" /\ UNCHANGED hand
       ELSE procPc' = "limit" /\ hand' = Head(pending_queue)
    /\ loop' = "proc"
    /\ UNCHANGED <<cancel_queue, lockq>>

(* Taking an interrupted sample; a peek would leave it behind as well.     *)
PeekInterrupted == hand' = Head(cancel_queue) /\ UNCHANGED cancel_queue
TakeInterrupted == hand' = Head(cancel_queue) /\ cancel_queue' = Tail(cancel_queue)

(* The head of the loop: pause if told to or if the gate closes, otherwise *)
(* resume an interrupted sample before taking a new one.                   *)
ProcTop ==
    /\ procPc = "top" /\ CanRun("proc")
    /\ paused \/ Served
    /\ IF paused \/ ShouldPause
       THEN /\ Acquire("proc")
            /\ procPc' = "mark"
            /\ UNCHANGED <<queues, hand, staleness_samples>>
       ELSE /\ UNCHANGED result_queue
            /\ IF cancel_queue # <<>>
               THEN /\ TakeInterrupted
                    /\ procPc' = "limit" /\ loop' = "proc"
                    /\ UNCHANGED <<pending_queue, staleness_samples, lockq>>
               ELSE IF pending_queue # <<>>
                    THEN TakePending
                    ELSE /\ procPc' = "get" /\ loop' = "idle"
                         /\ UNCHANGED <<pending_queue, cancel_queue, lockq,
                                        hand, staleness_samples>>
    /\ UNCHANGED <<procFrame, paused, active_tasks, gen, ret, bound>>

(* Woken inside pending_queue.get(): nothing is rechecked.                 *)
ProcGet ==
    /\ procPc = "get" /\ CanRun("proc")
    /\ pending_queue # <<>>
    /\ TakePending
    /\ UNCHANGED <<procFrame, paused, active_tasks, gen, ret, bound>>

ProcMark ==
    /\ procPc = "mark" /\ CanRun("proc") /\ Holds("proc")
    /\ paused' = TRUE
    /\ Release
    /\ procPc' = "quiesce" /\ loop' = "proc"
    /\ UNCHANGED <<procFrame, queues, staleness_samples, active_tasks, gen,
                   ret, hand, bound>>

(* The three loops that wait for running tasks, each testing active_tasks   *)
(* before it asks for the lock: on a pause, on the concurrency limit and   *)
(* on the end signal.                                                      *)
MustWait ==
    CASE procPc = "quiesce" -> active_tasks # {}
      [] procPc = "limit"   -> Cardinality(active_tasks) >= MaxConcurrent
      [] procPc = "drain"   -> active_tasks # {}

ProcLoopTest ==
    /\ procPc \in {"quiesce", "limit", "drain"} /\ CanRun("proc")
    /\ IF MustWait
       THEN Acquire("proc") /\ procPc' = "collect" /\ ret' = procPc
       ELSE /\ UNCHANGED ret
            /\ CASE procPc = "quiesce" -> Acquire("proc") /\ procPc' = "idle"
                 [] procPc = "limit"   -> Acquire("proc") /\ procPc' = "submit"
                 [] procPc = "drain"   -> /\ procPc' = "finished"
                                          /\ loop' = "idle"
                                          /\ UNCHANGED lockq
    /\ UNCHANGED <<procFrame, paused, queues, staleness_samples, active_tasks,
                   gen, hand, bound>>

(* Under the lock active_tasks is tested again; when it is empty the loop   *)
(* over done_tasks still runs, over a name never assigned if no            *)
(* asyncio.wait ran before: the coroutine dies of an UnboundLocalError.    *)
ProcCollect ==
    /\ procPc = "collect" /\ CanRun("proc") /\ Holds("proc")
    /\ IF active_tasks # {}
       THEN /\ procPc' = "await" /\ loop' = "idle"
            /\ UNCHANGED <<lockq, ret>>
       ELSE /\ Release
            /\ ret' = "none"
            /\ IF bound THEN procPc' = ret /\ loop' = "proc"
                        ELSE procPc' = "crashed" /\ loop' = "idle"
    /\ UNCHANGED <<procFrame, paused, queues, staleness_samples, active_tasks,
                   gen, hand, bound>>

(* asyncio.wait(..., FIRST_COMPLETED) returns, the lock held throughout;    *)
(* awaiting a task that raised ends the processor with its exception.      *)
AnyTask(tasks) == tasks
Completed(tasks) == {s \in tasks : gen[s] \in {"done", "failed"}}

ProcAwait ==
    LET finished == Completed(active_tasks)
    IN  /\ procPc = "await" /\ CanRun("proc")
        /\ finished # {}
        /\ active_tasks' = active_tasks \ finished
        /\ bound' = TRUE
        /\ Release
        /\ ret' = "none"
        /\ IF \E s \in finished : gen[s] = "failed"
           THEN procPc' = "crashed" /\ loop' = "idle"
           ELSE procPc' = ret /\ loop' = "proc"
        /\ UNCHANGED <<procFrame, paused, queues, staleness_samples, gen, hand>>

(* while self.paused: await self.condition.wait(), reached with an empty   *)
(* hand after a pause and with a sample in hand before a submission.       *)
ProcCondition ==
    /\ procPc \in {"idle", "submit"} /\ CanRun("proc") /\ Holds("proc")
    /\ Release
    /\ IF paused
       THEN /\ procPc' = "wait" /\ ret' = procPc /\ loop' = "idle"
            /\ UNCHANGED <<hand, active_tasks, gen>>
       ELSE /\ procPc' = "top" /\ loop' = "proc"
            /\ UNCHANGED ret
            /\ IF procPc = "submit"
               THEN /\ active_tasks' = active_tasks \cup {hand}
                    /\ gen' = [gen EXCEPT ![hand] = "created"]
                    /\ hand' = None
               ELSE UNCHANGED <<hand, active_tasks, gen>>
    /\ UNCHANGED <<procFrame, paused, queues, staleness_samples, bound>>

ProcWake ==
    /\ procPc = "woken" /\ CanRun("proc")
    /\ Acquire("proc")
    /\ procPc' = ret /\ ret' = "none"
    /\ UNCHANGED <<procFrame, paused, queues, staleness_samples, active_tasks,
                   gen, hand, bound>>

Processor ==
    \/ ProcTop \/ ProcGet \/ ProcMark \/ ProcLoopTest \/ ProcCollect
    \/ ProcAwait \/ ProcCondition \/ ProcWake
-----------------------------------------------------------------------------
(* _process_single_sample_streaming, one task per submission: started by    *)
(* the loop, generating on the servers, finished by the loop.              *)
taskFrame == <<mqVars, loop, lockq, control, current_param_version,
               staleness_samples, fed, pending_queue, active_tasks,
               servers_paused, feedPc, procVars, consVars, monPc, mainPc,
               rpcVars>>

TaskStart(s) ==
    /\ Idle /\ gen[s] = "created"
    /\ gen' = [gen EXCEPT ![s] = "generating"]
    /\ UNCHANGED <<taskFrame, tag, cancel_queue, result_queue>>

(* A paused server cuts the generations it has and refuses new ones.       *)
ServerAbort(s) ==
    /\ servers_paused /\ gen[s] = "generating"
    /\ gen' = [gen EXCEPT ![s] = "aborted"]
    /\ UNCHANGED <<taskFrame, tag, cancel_queue, result_queue>>

(* The label of a finished sample; the one it was created with is 0.        *)
LabelAtCreation == 0
VersionLabel == current_param_version

TaskFinish(s) ==
    /\ Idle /\ gen[s] = "generating"
    /\ gen' = [gen EXCEPT ![s] = "done"]
    /\ tag' = [tag EXCEPT ![s] = VersionLabel]
    /\ result_queue' = Append(result_queue, s)
    /\ UNCHANGED <<taskFrame, cancel_queue>>

TaskCancelled(s) ==
    /\ Idle /\ gen[s] = "aborted"
    /\ gen' = [gen EXCEPT ![s] = "done"]
    /\ cancel_queue' = Append(cancel_queue, s)
    /\ UNCHANGED <<taskFrame, tag, result_queue>>

TaskFail(s) ==
    /\ Idle /\ gen[s] = "generating"
    /\ Cardinality({t \in Sample : gen[t] = "failed"}) < MaxFailures
    /\ gen' = [gen EXCEPT ![s] = "failed"]
    /\ UNCHANGED <<taskFrame, tag, cancel_queue, result_queue>>

Task(s) ==
    TaskStart(s) \/ ServerAbort(s) \/ TaskFinish(s) \/ TaskCancelled(s)
-----------------------------------------------------------------------------
(* _consumer_worker: one sample at a time from result_queue to the message  *)
(* queue; task_done only after the queue answered.                         *)
consFrame == <<loop, lockq, control, current_param_version, staleness_samples,
               fed, pending_queue, cancel_queue, taskVars, servers_paused,
               feedPc, procVars, monPc, mainPc, rpcVars>>

ConsTake ==
    /\ Idle /\ consPc = "get" /\ result_queue # <<>>
    /\ consHand' = Head(result_queue)
    /\ result_queue' = Tail(result_queue)
    /\ consPc' = IF updPc = "size" THEN "behind" ELSE "sent"
    /\ UNCHANGED <<consFrame, mqVars>>

ConsDeliver ==
    /\ consPc \in {"sent", "behind"}
    /\ OrderedCalls /\ consPc = "behind" => updPc # "size"
    /\ PutSample(consHand)
    /\ consHand' = None
    /\ consPc' = "answered"
    /\ UNCHANGED <<consFrame, result_queue>>

ConsAck ==
    /\ Idle /\ consPc = "answered"
    /\ consPc' = "get"
    /\ UNCHANGED <<consFrame, mqVars, result_queue, consHand>>

(* join() without any task_done, and with task_done before the answer.     *)
JoinedNever == result_queue = <<>> /\ total_produced = 0
JoinedEarly == result_queue = <<>>

(* result_queue.join(): its counter of unfinished items is zero.           *)
Joined == result_queue = <<>> /\ consPc = "get"
-----------------------------------------------------------------------------
(* _streaming_generation_main: feed, processor and result queue in turn,   *)
(* then the finish signal; a dead processor skips the join and cancels the *)
(* consumer where it stands.                                               *)
mainFrame == <<control, current_param_version, staleness_samples, fed, queues,
               taskVars, servers_paused, feedPc, procVars, monPc, rpcVars>>

LeaveConsumer == UNCHANGED consPc
CancelConsumer ==
    consPc' = IF consPc \in {"sent", "behind"} THEN "orphan" ELSE "off"

MainStep ==
    /\ Idle
    /\ \/ mainPc = "feed" /\ feedPc = "done" /\ mainPc' = "proc"
          /\ UNCHANGED consPc
       \/ mainPc = "proc" /\ procPc = "finished" /\ mainPc' = "join"
          /\ UNCHANGED consPc
       \/ /\ \/ mainPc = "proc" /\ procPc = "crashed"
             \/ mainPc = "join" /\ Joined
          /\ mainPc' = "signal"
          /\ CancelConsumer
    /\ UNCHANGED <<mainFrame, mqVars, loop, lockq, consHand>>

(* A put already sent by the cancelled consumer still reaches the queue.   *)
OrphanDeliver ==
    /\ consPc = "orphan"
    /\ PutSample(consHand)
    /\ consHand' = None
    /\ consPc' = "off"
    /\ UNCHANGED <<consFrame, result_queue>>

MainSignal ==
    /\ mainPc = "signal" /\ Served
    /\ PutSample(Sentinel)
    /\ mainPc' = "answered"
    /\ UNCHANGED <<mainFrame, consVars, loop, lockq>>

MainStop ==
    /\ Idle /\ mainPc = "answered" /\ Granted("main")
    /\ running' = FALSE
    /\ mainPc' = "done"
    /\ lockq' = Tail(LockedBy("main"))
    /\ UNCHANGED <<mqVars, consVars, loop, paused, monitor_loop_trigger,
                   current_param_version, staleness_samples, fed, queues,
                   taskVars, servers_paused, feedPc, procVars, monPc, rpcVars>>
-----------------------------------------------------------------------------
(* _async_monitor_loop.                                                    *)
monFrame == <<mqVars, loop, monitor_loop_trigger, running,
              current_param_version, staleness_samples, fed, queues, taskVars,
              servers_paused, feedPc, ret, hand, bound, consVars, mainPc,
              rpcVars>>

(* Back to the head of the loop, where `running` is read under the lock    *)
(* whose queue is q.                                                       *)
MonHead(q) ==
    IF q = <<>> THEN /\ monPc' = (IF running THEN "sleep" ELSE "done")
                     /\ lockq' = <<>>
                ELSE monPc' = "head" /\ lockq' = Append(q, "mon")

(* The sleep ends: the trigger and the gate are read before the lock is     *)
(* asked for, and not again after it is granted.                           *)
MonTick ==
    /\ Idle /\ monPc = "sleep"
    /\ MonitorAwake \/ ~running
    /\ monitor_loop_trigger => Served
    /\ IF ~monitor_loop_trigger \/ ShouldPause
       THEN MonHead(lockq) /\ UNCHANGED <<paused, procPc>>
       ELSE IF lockq = <<>>
            THEN paused' = FALSE /\ NotifyAll /\ MonHead(<<>>)
            ELSE /\ monPc' = "resume" /\ lockq' = Append(lockq, "mon")
                 /\ UNCHANGED <<paused, procPc>>
    /\ UNCHANGED monFrame

MonResume ==
    /\ Idle /\ monPc = "resume" /\ Holds("mon")
    /\ paused' = FALSE
    /\ NotifyAll
    /\ MonHead(Tail(lockq))
    /\ UNCHANGED monFrame

MonCheckRunning ==
    /\ Idle /\ monPc = "head" /\ Holds("mon")
    /\ monPc' = IF running THEN "sleep" ELSE "done"
    /\ Release
    /\ UNCHANGED <<monFrame, paused, procPc>>
-----------------------------------------------------------------------------
(* The RPC handlers.  Each starts when the caller's request is there        *)
(* ("called") and ends at "replied".                                       *)
rpcFrame == <<mqVars, loop, running, fed, queues, gen, tag, feedPc, ret, hand,
              bound, consVars, monPc, mainPc>>

Asking(p) ==
    CASE p = "pause"  -> pausePc = "called"
      [] p = "update" -> updPc = "called"
      [] p = "resume" -> resPc = "called"
      [] p = "main"   -> mainPc = "answered"

JoinLockQueue(p) ==
    /\ Idle /\ Asking(p)
    /\ lockq # <<>> /\ p \notin {lockq[i] : i \in DOMAIN lockq}
    /\ lockq' = Append(lockq, p)
    /\ UNCHANGED <<rpcFrame, paused, monitor_loop_trigger, active_tasks,
                   current_param_version, staleness_samples, servers_paused,
                   procPc, rpcVars>>

(* pause(): mark, cut the generations, wait for every task, flush the      *)
(* prefix cache, and only then silence the monitor - all under the lock.   *)
pauseFrame == <<rpcFrame, current_param_version, staleness_samples, procPc,
                updPc, updSum, resPc>>

PauseEnter ==
    /\ Idle /\ pausePc = "called" /\ Granted("pause")
    /\ lockq' = LockedBy("pause")
    /\ paused' = TRUE
    /\ pausePc' = IF PartialRollout THEN "cancel" ELSE "gather"
    /\ UNCHANGED <<pauseFrame, monitor_loop_trigger, active_tasks,
                   servers_paused>>

PauseCancel ==
    /\ pausePc = "cancel"
    /\ servers_paused' = TRUE
    /\ pausePc' = "gather"
    /\ UNCHANGED <<pauseFrame, lockq, paused, monitor_loop_trigger,
                   active_tasks>>

PauseGather ==
    /\ Idle /\ pausePc = "gather"
    /\ active_tasks = Completed(active_tasks)
    /\ active_tasks' = {}
    /\ pausePc' = "flush"
    /\ UNCHANGED <<pauseFrame, lockq, paused, monitor_loop_trigger,
                   servers_paused>>

PauseFinish ==
    /\ Idle /\ pausePc = "flush"
    /\ monitor_loop_trigger' = FALSE
    /\ Release
    /\ pausePc' = "replied"
    /\ UNCHANGED <<pauseFrame, paused, active_tasks, servers_paused>>

(* update_param_version(): three terms of the new staleness are read        *)
(* before the await on the message queue, the fourth there; the sum is      *)
(* assigned whatever happened to the counter in between.                   *)
updateFrame == <<rpcFrame, paused, monitor_loop_trigger, active_tasks,
                 servers_paused, procPc, pausePc, resPc>>

(* The terms read before the await; interrupted samples must be among them. *)
InterruptedUncounted == Cardinality(active_tasks) + Len(result_queue)
Counted == Cardinality(active_tasks) + Len(result_queue) + Len(cancel_queue)

UpdateEnter(version) ==
    /\ Idle /\ updPc = "called" /\ Granted("update")
    /\ lockq' = LockedBy("update")
    /\ current_param_version' = version
    /\ updSum' = Counted
    /\ updPc' = "size"
    /\ UNCHANGED <<updateFrame, staleness_samples>>

(* Once the size is read no put is behind the call any longer.             *)
sizeFrame == <<mqVars, loop, lockq, control, current_param_version,
               staleness_samples, fed, queues, taskVars, servers_paused,
               feedPc, procVars, consHand, monPc, mainPc, pausePc, resPc>>

UpdateReadSize ==
    /\ updPc = "size"
    /\ OrderedCalls => consPc # "sent"
    /\ updSum' = updSum + Len(queue)
    /\ updPc' = "assign"
    /\ consPc' = IF consPc = "behind" THEN "sent" ELSE consPc
    /\ UNCHANGED sizeFrame

(* The assignment; validation and put_validate follow under the same lock. *)
UpdateAssign ==
    /\ Idle /\ updPc = "assign"
    /\ staleness_samples' = updSum
    /\ updSum' = 0
    /\ updPc' = "validate"
    /\ UNCHANGED <<updateFrame, lockq, current_param_version>>

UpdateFinish ==
    /\ Idle /\ updPc = "validate"
    /\ Release
    /\ updPc' = "replied"
    /\ UNCHANGED <<updateFrame, current_param_version, staleness_samples,
                   updSum>>

(* resume(): the servers are released after the processor is notified.     *)
resumeFrame == <<rpcFrame, active_tasks, current_param_version,
                 staleness_samples, pausePc, updPc, updSum>>

ResumeEnter ==
    /\ Idle /\ resPc = "called" /\ Granted("resume")
    /\ paused' = FALSE
    /\ monitor_loop_trigger' = TRUE
    /\ NotifyAll
    /\ IF PartialRollout
       THEN resPc' = "servers" /\ lockq' = LockedBy("resume")
       ELSE resPc' = "replied" /\ lockq' = Tail(LockedBy("resume"))
    /\ UNCHANGED <<resumeFrame, servers_paused>>

ResumeServers ==
    /\ resPc = "servers"
    /\ servers_paused' = FALSE
    /\ resPc' = "finish"
    /\ UNCHANGED <<resumeFrame, lockq, paused, monitor_loop_trigger, procPc>>

ResumeFinish ==
    /\ Idle /\ resPc = "finish"
    /\ Release
    /\ resPc' = "replied"
    /\ UNCHANGED <<resumeFrame, paused, monitor_loop_trigger, servers_paused,
                   procPc>>
=============================================================================
