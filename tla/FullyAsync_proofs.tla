-------------------------- MODULE FullyAsync_proofs --------------------------
(***************************************************************************)
(* What holds of fully asynchronous training for every number of samples,  *)
(* every queue capacity and every setting of the throttle.                 *)
(***************************************************************************)
EXTENDS FullyAsync, FiniteSetTheorems, FunctionTheorems, TLAPS

-----------------------------------------------------------------------------
(* The version handshake.                                                  *)

Syncing == trainerPc \in {"wait", "pausing", "transfer"}
Ahead == updPc = "called" \/ trainerPc = "launch"

(* VersionHandshake alone does not say which side is behind: the trainer    *)
(* is one ahead of the servers exactly while it synchronizes, the servers   *)
(* one ahead of the rollouter exactly from the transfer to the update.      *)
HandshakeInv ==
    /\ current_param_version \in Nat
    /\ weights_version \in Nat
    /\ trainer_version \in Nat
    /\ trainer_version = weights_version + (IF Syncing THEN 1 ELSE 0)
    /\ weights_version = current_param_version + (IF Ahead THEN 1 ELSE 0)
    /\ trainerPc \in {"pausing", "transfer", "launch"} => updPc = "off"

handshakeVars == <<trainerPc, updPc, trainer_version, weights_version,
                   current_param_version>>

(* No step of the rollouter outside update_param_version touches it.        *)
LEMMA ProcessorFrame ==
    Processor /\ UNCHANGED trainerVars => UNCHANGED handshakeVars
    BY DEF Processor, ProcTop, ProcGet, ProcMark, ProcLoopTest, ProcCollect,
           ProcAwait, ProcCondition, ProcWake, procFrame, rpcVars, trainerVars,
           handshakeVars

LEMMA TaskFrame ==
    ASSUME NEW s \in Sample, Task(s) \/ TaskFail(s), UNCHANGED trainerVars
    PROVE  UNCHANGED handshakeVars
    BY DEF Task, TaskStart, ServerAbort, TaskFinish, TaskCancelled, TaskFail,
           taskFrame, rpcVars, trainerVars, handshakeVars

LEMMA CoroutineFrame ==
    (Feed \/ Consumer \/ Main \/ Monitor) /\ UNCHANGED trainerVars
        => UNCHANGED handshakeVars
    BY DEF Feed, Consumer, ConsTake, ConsDeliver, ConsAck, OrphanDeliver,
           consFrame, Main, MainStep, MainSignal, MainStop, mainFrame,
           Monitor, MonTick, MonResume, MonCheckRunning, monFrame,
           rpcVars, trainerVars, handshakeVars

LEMMA HandlerFrame ==
    (Pause \/ Resume \/ \E p \in {"pause", "update", "resume", "main"} : JoinLockQueue(p))
        /\ UNCHANGED trainerVars
        => UNCHANGED handshakeVars
    BY DEF Pause, PauseEnter, PauseCancel, PauseGather, PauseFinish, pauseFrame,
           Resume, ResumeEnter, ResumeServers, ResumeFinish, resumeFrame,
           JoinLockQueue, rpcFrame, rpcVars, trainerVars, handshakeVars

LEMMA HandshakeUpdate ==
    HandshakeInv /\ Update /\ UNCHANGED trainerVars => HandshakeInv'
    BY DEF Update, UpdateEnter, UpdateAssign, UpdateFinish, updateFrame,
           trainerVars, HandshakeInv, Syncing, Ahead

LEMMA HandshakeTrainer ==
    HandshakeInv /\ (Trainer \/ StartResume \/ UpdateResetsStaleness)
        => HandshakeInv'
    <1> SUFFICES ASSUME HandshakeInv, Trainer \/ StartResume \/ UpdateResetsStaleness
                 PROVE  HandshakeInv'
        OBVIOUS
    <1> USE DEF HandshakeInv, Syncing, Ahead
    <1>1. CASE Collect \/ SleepOnQueue
        BY <1>1 DEF Collect, SleepOnQueue, rollVars, trainerVars, rpcVars
    <1>2. CASE Train \/ FinalSync
        BY <1>2 DEF Train, FinalSync, rollVars, rpcVars
    <1>3. CASE CallPause
        BY <1>3 DEF CallPause, LastSyncReturned, handlersFrame, syncFrame
    <1>4. CASE LabelQueue \/ TrainerDone
        BY <1>4 DEF LabelQueue, TrainerDone, rollVars, rpcVars, syncFrame
    <1>5. CASE TransferWeights
        BY <1>5 DEF TransferWeights, rollVars, rpcVars, syncFrame
    <1>6. CASE LaunchUpdate
        BY <1>6 DEF LaunchUpdate, handlersFrame, syncFrame
    <1>7. CASE StartResume
        BY <1>7 DEF StartResume, handlersFrame, trainerVars
    <1>8. CASE UpdateResetsStaleness
        BY <1>8 DEF UpdateResetsStaleness, UpdateReadSize, sizeFrame
    <1> QED
        BY <1>1, <1>2, <1>3, <1>4, <1>5, <1>6, <1>7, <1>8 DEF Trainer

LEMMA HandshakeStep == HandshakeInv /\ [Next]_vars => HandshakeInv'
    <1> SUFFICES ASSUME HandshakeInv, [Next]_vars
                 PROVE  HandshakeInv'
        OBVIOUS
    <1>1. UNCHANGED handshakeVars => HandshakeInv'
        BY DEF handshakeVars, HandshakeInv, Syncing, Ahead
    <1>2. CASE RollouterStep /\ UNCHANGED trainerVars
        BY <1>1, <1>2, ProcessorFrame, TaskFrame, CoroutineFrame, HandlerFrame,
           HandshakeUpdate DEF RollouterStep
    <1>3. CASE Trainer \/ StartResume \/ UpdateResetsStaleness
        BY <1>3, HandshakeTrainer
    <1>4. CASE UNCHANGED vars
        BY <1>1, <1>4 DEF vars, rollVars, rpcVars, trainerVars, handshakeVars
    <1> QED
        BY <1>2, <1>3, <1>4 DEF Next, Finished

(* Trainer, servers and rollouter never disagree by more than one version,  *)
(* although update_param_version runs while the trainer trains on.          *)
THEOREM HandshakeHolds == Spec => []VersionHandshake
    <1>1. Init => HandshakeInv
        BY DEF Init, RollInit, HandshakeInv, Syncing, Ahead
    <1>2. HandshakeInv => VersionHandshake
        BY DEF HandshakeInv, VersionHandshake, Syncing, Ahead
    <1> QED
        BY <1>1, <1>2, HandshakeStep, PTL DEF Spec
-----------------------------------------------------------------------------
(* Quiet transfers.                                                        *)

Running == {"created", "generating", "aborted"}
Dead == procPc \in {"finished", "crashed"}

(* From pause() on, and until resume() takes the lock, nothing may start.   *)
Held ==
    \/ pausePc \notin {"off", "called"}
    \/ updPc # "off" /\ resPc \in {"off", "called"}
Quieted == Held /\ pausePc \notin {"cancel", "gather"}

(* Why nothing is generated from a pause to the resume: pause() has emptied *)
(* active_tasks, which holds every running task, and paused keeps the       *)
(* processor from submitting; resume() is chained to the update, and the    *)
(* next pause waits for both.  A monitor that wakes only when the rollouter *)
(* has stopped finds no processor to wake.                                 *)
QuietInv ==
    /\ gen \in [Sample -> Running \cup {"none", "done", "failed"}]
    /\ \A s \in Sample : gen[s] \in Running => s \in active_tasks
    /\ Quieted => active_tasks = {}
    /\ Held => paused \/ Dead
    /\ pausePc # "off" => updPc = "off"
    /\ resPc # "off" => updPc = "replied"
    /\ pausePc # "off" <=> trainerPc \in {"pausing", "transfer", "launch"}
    /\ trainerPc \in {"transfer", "launch"} => pausePc = "replied"
    /\ mainPc \in {"join", "signal", "answered", "done"} => Dead
    /\ ~running => mainPc = "done"
    /\ monPc = "resume" => ~running

LEMMA QuietProcessor ==
    QuietInv /\ Processor /\ UNCHANGED trainerVars => QuietInv'
    <1> SUFFICES ASSUME QuietInv, Processor, UNCHANGED trainerVars
                 PROVE  QuietInv'
        OBVIOUS
    <1> USE DEF QuietInv, Running, Dead, Held, Quieted, trainerVars, procFrame, rpcVars
    <1>1. CASE ProcTop
        BY <1>1 DEF ProcTop, TakePending
    <1>2. CASE ProcGet
        BY <1>2 DEF ProcGet, TakePending
    <1>3. CASE ProcMark
        BY <1>3 DEF ProcMark
    <1>4. CASE ProcLoopTest
        BY <1>4 DEF ProcLoopTest
    <1>5. CASE ProcCollect
        BY <1>5 DEF ProcCollect
    <1>6. CASE ProcAwait
        BY <1>6 DEF ProcAwait, Completed
    <1>7. CASE ProcCondition
        BY <1>7 DEF ProcCondition
    <1>8. CASE ProcWake
        BY <1>8 DEF ProcWake
    <1> QED
        BY <1>1, <1>2, <1>3, <1>4, <1>5, <1>6, <1>7, <1>8 DEF Processor

LEMMA QuietTasks ==
    ASSUME QuietInv, NEW s \in Sample, Task(s) \/ TaskFail(s), UNCHANGED trainerVars
    PROVE  QuietInv'
    BY DEF Task, TaskStart, ServerAbort, TaskFinish, TaskCancelled, TaskFail,
           taskFrame, rpcVars, trainerVars, procVars, control,
           QuietInv, Running, Dead, Held, Quieted

LEMMA QuietCoroutines ==
    QuietInv /\ (Feed \/ Consumer \/ Main) /\ UNCHANGED trainerVars => QuietInv'
    <1> SUFFICES ASSUME QuietInv, Feed \/ Consumer \/ Main, UNCHANGED trainerVars
                 PROVE  QuietInv'
        OBVIOUS
    <1> USE DEF QuietInv, Running, Dead, Held, Quieted, trainerVars, rpcVars, procVars,
                control, taskVars
    <1>1. CASE Feed
        BY <1>1 DEF Feed
    <1>2. CASE Consumer
        BY <1>2 DEF Consumer, ConsTake, ConsDeliver, ConsAck, OrphanDeliver, consFrame
    <1>3. CASE MainStep
        BY <1>3 DEF MainStep, mainFrame
    <1>4. CASE MainSignal
        BY <1>4 DEF MainSignal, mainFrame
    <1>5. CASE MainStop
        BY <1>5 DEF MainStop
    <1> QED
        BY <1>1, <1>2, <1>3, <1>4, <1>5 DEF Main

(* A tick has an effect only after the rollouter has stopped.               *)
LEMMA QuietMonitor ==
    ~MonitorAwake /\ QuietInv /\ Monitor /\ UNCHANGED trainerVars => QuietInv'
    <1> SUFFICES ASSUME ~MonitorAwake, QuietInv, Monitor, UNCHANGED trainerVars
                 PROVE  QuietInv'
        OBVIOUS
    <1> USE DEF QuietInv, Running, Dead, Held, Quieted, trainerVars, rpcVars, monFrame, taskVars
    <1>1. CASE MonTick
        BY <1>1 DEF MonTick, MonHead, NotifyAll
    <1>2. CASE MonResume
        BY <1>2 DEF MonResume, MonHead, NotifyAll
    <1>3. CASE MonCheckRunning
        BY <1>3 DEF MonCheckRunning
    <1> QED
        BY <1>1, <1>2, <1>3 DEF Monitor

LEMMA QuietHandlers ==
    QuietInv /\ Handler /\ UNCHANGED trainerVars => QuietInv'
    <1> SUFFICES ASSUME QuietInv, Handler, UNCHANGED trainerVars
                 PROVE  QuietInv'
        OBVIOUS
    <1> USE DEF QuietInv, Running, Dead, Held, Quieted, trainerVars, rpcFrame, rpcVars
    <1>1. CASE PauseEnter
        BY <1>1 DEF PauseEnter, pauseFrame
    <1>2. CASE PauseCancel \/ PauseFinish
        BY <1>2 DEF PauseCancel, PauseFinish, pauseFrame
    <1>3. CASE PauseGather
        BY <1>3 DEF PauseGather, pauseFrame, Completed
    <1>4. CASE Update
        BY <1>4 DEF Update, UpdateEnter, UpdateAssign, UpdateFinish, updateFrame
    <1>5. CASE ResumeEnter
        BY <1>5 DEF ResumeEnter, resumeFrame, NotifyAll
    <1>6. CASE ResumeServers \/ ResumeFinish
        BY <1>6 DEF ResumeServers, ResumeFinish, resumeFrame
    <1>7. CASE \E p \in {"pause", "update", "resume", "main"} : JoinLockQueue(p)
        BY <1>7 DEF JoinLockQueue
    <1> QED
        BY <1>1, <1>2, <1>3, <1>4, <1>5, <1>6, <1>7 DEF Handler, Pause, Resume

LEMMA QuietTrainer ==
    QuietInv /\ (Trainer \/ StartResume \/ UpdateResetsStaleness) => QuietInv'
    <1> SUFFICES ASSUME QuietInv, Trainer \/ StartResume \/ UpdateResetsStaleness
                 PROVE  QuietInv'
        OBVIOUS
    <1> USE DEF QuietInv, Running, Dead, Held, Quieted, rpcVars, taskVars, procVars, control
    <1>1. CASE Collect \/ SleepOnQueue
        BY <1>1 DEF Collect, SleepOnQueue, rollVars, trainerVars
    <1>2. CASE Train \/ FinalSync
        BY <1>2 DEF Train, FinalSync, rollVars
    <1>3. CASE CallPause
        BY <1>3 DEF CallPause, LastSyncReturned, handlersFrame
    <1>4. CASE LabelQueue \/ TrainerDone
        BY <1>4 DEF LabelQueue, TrainerDone, rollVars
    <1>5. CASE TransferWeights
        BY <1>5 DEF TransferWeights, rollVars
    <1>6. CASE LaunchUpdate
        BY <1>6 DEF LaunchUpdate, handlersFrame
    <1>7. CASE StartResume
        BY <1>7 DEF StartResume, UpdateReturned, handlersFrame, trainerVars
    <1>8. CASE UpdateResetsStaleness
        BY <1>8 DEF UpdateResetsStaleness, UpdateReadSize, sizeFrame
    <1> QED
        BY <1>1, <1>2, <1>3, <1>4, <1>5, <1>6, <1>7, <1>8 DEF Trainer

LEMMA QuietStep == ~MonitorAwake /\ QuietInv /\ [Next]_vars => QuietInv'
    <1> SUFFICES ASSUME ~MonitorAwake, QuietInv, [Next]_vars
                 PROVE  QuietInv'
        OBVIOUS
    <1>1. CASE RollouterStep /\ UNCHANGED trainerVars
        BY <1>1, QuietProcessor, QuietTasks, QuietCoroutines, QuietMonitor,
           QuietHandlers DEF RollouterStep, Handler
    <1>2. CASE Trainer \/ StartResume \/ UpdateResetsStaleness
        BY <1>2, QuietTrainer
    <1>3. CASE UNCHANGED vars
        BY <1>3 DEF vars, rollVars, rpcVars, taskVars, procVars, control,
                    trainerVars, QuietInv, Running, Dead, Held, Quieted
    <1> QED
        BY <1>1, <1>2, <1>3 DEF Next, Finished

(* While no tick of the monitor intervenes, no sample is being generated    *)
(* while the weights are transferred - with or without partial rollout,     *)
(* failing generations included.                                           *)
THEOREM TransfersAreQuiet ==
    ASSUME ~MonitorAwake
    PROVE  Spec => []QuietTransfer
    <1>1. Init => QuietInv
        BY DEF Init, RollInit, QuietInv, Running, Dead, Held, Quieted
    <1>2. QuietInv => QuietTransfer
        BY DEF QuietInv, QuietTransfer, Running, Held, Quieted
    <1>3. QuietInv /\ [Next]_vars => QuietInv'
        BY QuietStep
    <1> QED
        BY <1>1, <1>2, <1>3, PTL DEF Spec
-----------------------------------------------------------------------------
(* Truthful labels.                                                        *)

LabelInv ==
    /\ result_queue \in Seq(Sample)
    /\ tag \in [Sample -> Nat]

LEMMA AppendGrows ==
    ASSUME NEW S, NEW q \in Seq(S), NEW s \in S, NEW t \in S
    PROVE  /\ Append(q, s) # q
           /\ Append(q, s) = Append(q, t) => s = t
           /\ q # <<>> => Append(q, s) # Tail(q)
    OBVIOUS

LEMMA LabelUnchanged ==
    LabelInv /\ UNCHANGED <<result_queue, tag>>
        => /\ LabelInv'
           /\ \A s \in Sample : result_queue' # Append(result_queue, s)
    BY AppendGrows DEF LabelInv

(* A sample can finish only while the rollouter knows the servers' weights. *)
LEMMA LabelTask ==
    ASSUME LabelInv, HandshakeInv, QuietInv, NEW t \in Sample,
           Task(t) \/ TaskFail(t), UNCHANGED trainerVars
    PROVE  /\ LabelInv'
           /\ \A s \in Sample : result_queue' = Append(result_queue, s)
                                  => tag'[s] = weights_version
    <1>1. CASE TaskFinish(t)
        <2>1. t \in active_tasks
            BY <1>1 DEF TaskFinish, QuietInv, Running
        <2>2. ~Ahead
            BY <2>1 DEF QuietInv, Held, Quieted, Ahead
        <2>3. weights_version = current_param_version
            BY <2>2 DEF HandshakeInv
        <2>4. result_queue' = Append(result_queue, t)
              /\ tag' = [tag EXCEPT ![t] = current_param_version]
            BY <1>1 DEF TaskFinish, VersionLabel
        <2>5. LabelInv'
            BY <2>4 DEF LabelInv, HandshakeInv
        <2>6. tag'[t] = weights_version
            BY <2>3, <2>4 DEF LabelInv
        <2> QED
            BY <2>4, <2>5, <2>6, AppendGrows DEF LabelInv
    <1>2. CASE TaskStart(t) \/ ServerAbort(t) \/ TaskCancelled(t) \/ TaskFail(t)
        BY <1>2, LabelUnchanged DEF TaskStart, ServerAbort, TaskCancelled, TaskFail
    <1> QED
        BY <1>1, <1>2 DEF Task

LEMMA LabelConsumer ==
    ASSUME LabelInv, Consumer
    PROVE  LabelInv' /\ \A s \in Sample : result_queue' # Append(result_queue, s)
    <1>1. CASE ConsTake
        <2>1. result_queue # <<>> /\ result_queue' = Tail(result_queue) /\ tag' = tag
            BY <1>1 DEF ConsTake, consFrame, taskVars
        <2> QED
            BY <2>1, AppendGrows DEF LabelInv
    <1>2. CASE ConsDeliver \/ ConsAck \/ OrphanDeliver
        BY <1>2, LabelUnchanged DEF ConsDeliver, ConsAck, OrphanDeliver, consFrame, taskVars
    <1> QED
        BY <1>1, <1>2 DEF Consumer

LEMMA LabelFrame ==
    (\/ Processor \/ Feed \/ Main \/ Monitor \/ Handler
     \/ Trainer \/ StartResume \/ UpdateResetsStaleness \/ UNCHANGED vars)
        => UNCHANGED <<result_queue, tag>>
    <1> USE DEF queues, taskVars, rollVars
    <1>1. Processor => UNCHANGED <<result_queue, tag>>
        BY DEF Processor, ProcTop, ProcGet, ProcMark, ProcLoopTest, ProcCollect,
               ProcAwait, ProcCondition, ProcWake, procFrame
    <1>2. Feed \/ Main \/ Monitor => UNCHANGED <<result_queue, tag>>
        BY DEF Feed, Main, MainStep, MainSignal, MainStop, mainFrame,
               Monitor, MonTick, MonResume, MonCheckRunning, monFrame
    <1>3. Handler => UNCHANGED <<result_queue, tag>>
        BY DEF Handler, Pause, PauseEnter, PauseCancel, PauseGather, PauseFinish,
               pauseFrame, Update, UpdateEnter, UpdateAssign, UpdateFinish,
               updateFrame, Resume, ResumeEnter, ResumeServers, ResumeFinish,
               resumeFrame, JoinLockQueue, rpcFrame
    <1>4. Trainer \/ StartResume \/ UpdateResetsStaleness => UNCHANGED <<result_queue, tag>>
        BY DEF Trainer, Collect, SleepOnQueue, Train, FinalSync, CallPause,
               LabelQueue, TransferWeights, LaunchUpdate, TrainerDone, StartResume,
               UpdateResetsStaleness, UpdateReadSize, sizeFrame, handlersFrame
    <1>5. UNCHANGED vars => UNCHANGED <<result_queue, tag>>
        BY DEF vars
    <1> QED
        BY <1>1, <1>2, <1>3, <1>4, <1>5

LEMMA LabelStep ==
    LabelInv /\ HandshakeInv /\ QuietInv /\ [Next]_vars
        => /\ LabelInv'
           /\ \A s \in Sample : result_queue' = Append(result_queue, s)
                                  => tag'[s] = weights_version
    <1> SUFFICES ASSUME LabelInv, HandshakeInv, QuietInv, [Next]_vars
                 PROVE  /\ LabelInv'
                        /\ \A s \in Sample : result_queue' = Append(result_queue, s)
                                               => tag'[s] = weights_version
        OBVIOUS
    <1>1. CASE \E t \in Sample : (Task(t) \/ TaskFail(t)) /\ UNCHANGED trainerVars
        BY <1>1, LabelTask
    <1>2. CASE Consumer
        BY <1>2, LabelConsumer
    <1>3. CASE \/ Processor \/ Feed \/ Main \/ Monitor \/ Handler
               \/ Trainer \/ StartResume \/ UpdateResetsStaleness \/ UNCHANGED vars
        BY <1>3, LabelFrame, LabelUnchanged
    <1> QED
        BY <1>1, <1>2, <1>3 DEF Next, RollouterStep, Handler, Finished

(* While no tick of the monitor intervenes, a finished sample carries the   *)
(* version of the weights that finished it: the staleness the trainer       *)
(* computes from the label is the true one.                                *)
THEOREM LabelsAreTruthful ==
    ASSUME ~MonitorAwake
    PROVE  Spec => TruthfulTags
    <1>1. Init => LabelInv /\ HandshakeInv /\ QuietInv
        BY DEF Init, RollInit, LabelInv, HandshakeInv, Syncing, Ahead,
               QuietInv, Running, Dead, Held, Quieted
    <1>2. HandshakeInv /\ [Next]_vars => HandshakeInv'
        BY HandshakeStep
    <1>3. QuietInv /\ [Next]_vars => QuietInv'
        BY QuietStep
    <1>4. LabelInv /\ HandshakeInv /\ QuietInv /\ [Next]_vars
             => /\ LabelInv'
                /\ [\A s \in Sample : result_queue' = Append(result_queue, s)
                                        => tag'[s] = weights_version]_vars
        BY LabelStep
    <1> QED
        BY <1>1, <1>2, <1>3, <1>4, PTL DEF Spec, TruthfulTags
-----------------------------------------------------------------------------
(* Types: every variable holds a value of its kind, in every reachable      *)
(* state.                                                                   *)

(* Where the processor has a sample in hand between two of its steps.       *)
Holding ==
    \/ procPc \in {"limit", "submit"}
    \/ procPc \in {"collect", "await"} /\ ret = "limit"
    \/ procPc \in {"wait", "woken"} /\ ret = "submit"

(* The type of the program counters taken together: which continuation a    *)
(* wait has, and when the processor's and the consumer's hands are full.    *)
HandInv ==
    /\ procPc \in {"collect", "await"} => ret \in {"quiesce", "limit", "drain"}
    /\ procPc \in {"wait", "woken"} => ret \in {"idle", "submit"}
    /\ procPc # "crashed" => (hand # None <=> Holding)
    /\ consHand # None <=> consPc \in {"sent", "behind", "orphan"}
    /\ mainPc \in {"feed", "proc", "join"} => consPc \notin {"orphan", "off"}

(* Who is inside a critical section has the lock.                           *)
LockInv ==
    /\ procPc = "await" => Holds("proc")
    /\ pausePc \in {"cancel", "gather", "flush"} => Holds("pause")
    /\ updPc \in {"size", "assign", "validate"} => Holds("update")
    /\ resPc \in {"servers", "finish"} => Holds("resume")

(* TypeOK is not inductive: a dequeue is well-typed because of what the     *)
(* program counters say of the hands and of the lock.                       *)
TypeInv == TypeOK /\ HandInv /\ LockInv

(* Joining the lock's queue keeps its type and its holder.                  *)
LEMMA LockAppend ==
    ASSUME lockq \in Seq(Coroutine), NEW p \in Coroutine, lockq' = Append(lockq, p)
    PROVE  /\ lockq' \in Seq(Coroutine)
           /\ \A q : Holds(q) => Holds(q)'
           /\ lockq = <<>> => Holds(p)'
    BY DEF Holds

(* So does leaving it.                                                      *)
LEMMA LockTail ==
    ASSUME lockq \in Seq(Coroutine), lockq # <<>>, lockq' = Tail(lockq)
    PROVE  lockq' \in Seq(Coroutine)
    OBVIOUS

(* A granted lock has no other holder.                                      *)
LEMMA LockGrant ==
    ASSUME lockq \in Seq(Coroutine), NEW p \in Coroutine, Granted(p)
    PROVE  /\ LockedBy(p) \in Seq(Coroutine) /\ LockedBy(p) # <<>>
           /\ Head(LockedBy(p)) = p
           /\ \A q : Holds(q) => q = p
    BY DEF Granted, LockedBy, Holds

LEMMA TypeProcessor ==
    ASSUME TypeInv, Processor, UNCHANGED trainerVars
    PROVE  TypeInv'
    <1> USE RollouterAssumption DEF TypeInv, trainerVars, procFrame, consVars, rpcVars, mqVars, counters
    <1>1. CASE ProcTop
        <2>1. TypeOK'
            <3> USE DEF TypeOK, MQTypeOK
            <3>1. CASE paused \/ ShouldPause
                <4>1. /\ Acquire("proc") /\ procPc' = "mark"
                      /\ UNCHANGED <<queues, hand, staleness_samples, procFrame, paused,
                                     active_tasks, gen, ret, bound>>
                    BY <1>1, <3>1 DEF ProcTop
                <4>2. lockq' \in Seq(Coroutine) /\ loop' \in {"idle", "proc"}
                    BY <4>1, LockAppend DEF Acquire, Coroutine
                <4> QED
                    BY <4>1, <4>2 DEF queues
            <3>2. CASE ~(paused \/ ShouldPause) /\ cancel_queue # <<>>
                <4>1. /\ TakeInterrupted /\ procPc' = "limit" /\ loop' = "proc"
                      /\ UNCHANGED <<pending_queue, staleness_samples, lockq, result_queue,
                                     procFrame, paused, active_tasks, gen, ret, bound>>
                    BY <1>1, <3>2 DEF ProcTop
                <4>2. cancel_queue' \in Seq(Sample) /\ hand' \in Sample
                    BY <3>2, <4>1 DEF TakeInterrupted
                <4> QED
                    BY <4>1, <4>2
            <3>3. CASE ~(paused \/ ShouldPause) /\ cancel_queue = <<>> /\ pending_queue # <<>>
                <4>1. /\ TakePending
                      /\ UNCHANGED <<result_queue, procFrame, paused, active_tasks, gen, ret, bound>>
                    BY <1>1, <3>3 DEF ProcTop
                <4> QED
                    BY <3>3, <4>1 DEF TakePending
            <3>4. CASE ~(paused \/ ShouldPause) /\ cancel_queue = <<>> /\ pending_queue = <<>>
                BY <1>1, <3>4 DEF ProcTop
            <3> QED
                BY <3>1, <3>2, <3>3, <3>4
        <2>2. HandInv'
            BY <1>1 DEF ProcTop, TakePending, TakeInterrupted, queues, HandInv, Holding, TypeOK
        <2>3. LockInv'
            BY <1>1, LockAppend DEF ProcTop, TakePending, TakeInterrupted, Acquire, LockInv,
               TypeOK, Coroutine, Holds
        <2> QED
            BY <2>1, <2>2, <2>3
    <1>2. CASE ProcGet
        <2>1. TypeOK'
            BY <1>2 DEF ProcGet, TakePending, TypeOK, MQTypeOK
        <2>2. HandInv'
            BY <1>2 DEF ProcGet, TakePending, HandInv, Holding, TypeOK
        <2>3. LockInv'
            BY <1>2 DEF ProcGet, TakePending, LockInv, Holds
        <2> QED
            BY <2>1, <2>2, <2>3
    <1>3. CASE ProcMark
        <2>1. TypeOK'
            BY <1>3, LockTail DEF ProcMark, queues, TypeOK, MQTypeOK, Release, Holds
        <2>2. HandInv'
            BY <1>3 DEF ProcMark, HandInv, Holding
        <2>3. LockInv'
            BY <1>3 DEF ProcMark, LockInv, Holds
        <2> QED
            BY <2>1, <2>2, <2>3
    <1>4. CASE ProcLoopTest
        <2>1. TypeOK'
            <3>1. /\ procPc' \in {"collect", "idle", "submit", "finished"}
                  /\ ret' \in {procPc, ret}
                  /\ procPc \in {"quiesce", "limit", "drain"}
                  /\ Acquire("proc") \/ (loop' = "idle" /\ UNCHANGED lockq)
                  /\ UNCHANGED <<procFrame, paused, queues, staleness_samples, active_tasks,
                                 gen, hand, bound>>
                BY <1>4 DEF ProcLoopTest
            <3>2. lockq' \in Seq(Coroutine) /\ loop' \in {"idle", "proc"}
                BY <3>1, LockAppend DEF Acquire, Coroutine, TypeOK
            <3> QED
                BY <3>1, <3>2 DEF TypeOK, MQTypeOK, queues
        <2>2. HandInv'
            BY <1>4 DEF ProcLoopTest, HandInv, Holding
        <2>3. LockInv'
            BY <1>4, LockAppend DEF ProcLoopTest, Acquire, LockInv, TypeOK, Coroutine, Holds
        <2> QED
            BY <2>1, <2>2, <2>3
    <1>5. CASE ProcCollect
        <2>1. TypeOK'
            BY <1>5, LockTail DEF ProcCollect, queues, TypeOK, MQTypeOK, Release, Holds, HandInv
        <2>2. HandInv'
            BY <1>5 DEF ProcCollect, HandInv, Holding
        <2>3. LockInv'
            BY <1>5 DEF ProcCollect, LockInv, HandInv, Holds
        <2> QED
            BY <2>1, <2>2, <2>3
    <1>6. CASE ProcAwait
        <2>1. TypeOK'
            BY <1>6, LockTail DEF ProcAwait, queues, TypeOK, MQTypeOK, Release, Holds, LockInv, HandInv
        <2>2. HandInv'
            BY <1>6 DEF ProcAwait, HandInv, Holding
        <2>3. LockInv'
            BY <1>6 DEF ProcAwait, LockInv, HandInv, Holds
        <2> QED
            BY <2>1, <2>2, <2>3
    <1>7. CASE ProcCondition
        <2>1. TypeOK'
            <3>1. procPc = "submit" => hand \in Sample
                BY DEF TypeOK, HandInv, Holding
            <3>2. /\ procPc' \in {"wait", "top"} /\ ret' \in {procPc, ret}
                  /\ procPc \in {"idle", "submit"} /\ loop' \in {"idle", "proc"}
                  /\ Holds("proc") /\ Release
                  /\ UNCHANGED <<procFrame, paused, queues, staleness_samples, bound>>
                  /\ \/ UNCHANGED <<hand, active_tasks, gen>>
                     \/ /\ procPc = "submit" /\ active_tasks' = active_tasks \cup {hand}
                        /\ gen' = [gen EXCEPT ![hand] = "created"] /\ hand' = None
                BY <1>7 DEF ProcCondition
            <3>3. lockq' \in Seq(Coroutine)
                BY <3>2, LockTail DEF Release, Holds, TypeOK
            <3>4. /\ active_tasks' \in SUBSET Sample /\ hand' \in Sample \cup {None}
                  /\ gen' \in [Sample -> {"none", "created", "generating", "aborted", "done", "failed"}]
                BY <3>1, <3>2 DEF TypeOK
            <3> QED
                BY <3>2, <3>3, <3>4 DEF TypeOK, MQTypeOK, queues
        <2>2. HandInv'
            BY <1>7 DEF ProcCondition, HandInv, Holding
        <2>3. LockInv'
            BY <1>7 DEF ProcCondition, LockInv, Holds
        <2> QED
            BY <2>1, <2>2, <2>3
    <1>8. CASE ProcWake
        <2>1. TypeOK'
            BY <1>8 DEF ProcWake, queues, Acquire, TypeOK, MQTypeOK, Coroutine, HandInv
        <2>2. HandInv'
            BY <1>8 DEF ProcWake, HandInv, Holding
        <2>3. LockInv'
            BY <1>8, LockAppend DEF ProcWake, Acquire, LockInv, TypeOK, Coroutine, HandInv
        <2> QED
            BY <2>1, <2>2, <2>3
    <1> QED
        BY <1>1, <1>2, <1>3, <1>4, <1>5, <1>6, <1>7, <1>8 DEF Processor

LEMMA TypeTasks ==
    ASSUME TypeInv, NEW s \in Sample, Task(s) \/ TaskFail(s), UNCHANGED trainerVars
    PROVE  TypeInv'
    <1> USE DEF TypeInv, trainerVars, taskFrame, control, procVars, consVars, rpcVars, mqVars, counters
    <1>1. /\ UNCHANGED taskFrame
          /\ \E g \in {"generating", "aborted", "done", "failed"} : gen' = [gen EXCEPT ![s] = g]
          /\ tag' \in {tag, [tag EXCEPT ![s] = current_param_version]}
          /\ cancel_queue' = cancel_queue \/ cancel_queue' = Append(cancel_queue, s)
          /\ result_queue' = result_queue \/ result_queue' = Append(result_queue, s)
        BY DEF Task, TaskStart, ServerAbort, TaskFinish, TaskCancelled, TaskFail, VersionLabel
    <1>2. TypeOK'
        <2>1. /\ gen' \in [Sample -> {"none", "created", "generating", "aborted", "done", "failed"}]
              /\ tag' \in [Sample -> Nat]
            BY <1>1 DEF TypeOK
        <2>4. cancel_queue \in Seq(Sample) /\ result_queue \in Seq(Sample)
            BY DEF TypeOK
        <2>2. cancel_queue' \in Seq(Sample)
            BY <1>1, <2>4
        <2>3. result_queue' \in Seq(Sample)
            BY <1>1, <2>4
        <2> QED
            BY <1>1, <2>1, <2>2, <2>3 DEF TypeOK, MQTypeOK
    <1>3. HandInv' /\ LockInv'
        BY <1>1 DEF HandInv, LockInv, Holding, Holds
    <1> QED
        BY <1>2, <1>3

LEMMA PutType ==
    ASSUME MQTypeOK, NEW x \in Item, PutSample(x)
    PROVE  MQTypeOK'
    <1>1. queue # <<>> \/ ~Full
        BY MaxQueueSizeAssumption DEF Full
    <1>2. queue' \in Seq(Item)
        BY <1>1 DEF PutSample, MQTypeOK
    <1> QED
        BY <1>2 DEF PutSample, MQTypeOK, NotifyConsumers

LEMMA TypeConsumer ==
    ASSUME TypeInv, Consumer, UNCHANGED trainerVars
    PROVE  TypeInv'
    <1> USE DEF TypeInv, trainerVars, consFrame, control, taskVars, procVars, rpcVars
    <1>1. CASE ConsTake
        <2>1. consHand' \in Sample /\ result_queue' \in Seq(Sample)
            BY <1>1 DEF ConsTake, TypeOK
        <2>2. TypeOK'
            BY <1>1, <2>1 DEF ConsTake, TypeOK, MQTypeOK, mqVars, counters
        <2>3. HandInv' /\ LockInv'
            BY <1>1, <2>1, RollouterAssumption DEF ConsTake, HandInv, LockInv, Holding, Holds
        <2> QED
            BY <2>2, <2>3
    <1>2. CASE ConsDeliver \/ OrphanDeliver
        <2>1. consHand \in Item
            BY <1>2, RollouterAssumption DEF ConsDeliver, OrphanDeliver, HandInv, TypeOK
        <2>2. MQTypeOK'
            BY <1>2, <2>1, PutType DEF ConsDeliver, OrphanDeliver, TypeOK
        <2>3. TypeOK'
            BY <1>2, <2>2 DEF ConsDeliver, OrphanDeliver, TypeOK
        <2>4. HandInv' /\ LockInv'
            BY <1>2 DEF ConsDeliver, OrphanDeliver, HandInv, LockInv, Holding, Holds
        <2> QED
            BY <2>3, <2>4
    <1>3. CASE ConsAck
        <2>1. TypeOK'
            BY <1>3 DEF ConsAck, TypeOK, MQTypeOK, mqVars, counters
        <2>2. HandInv' /\ LockInv'
            BY <1>3 DEF ConsAck, HandInv, LockInv, Holding, Holds
        <2> QED
            BY <2>1, <2>2
    <1> QED
        BY <1>1, <1>2, <1>3 DEF Consumer

LEMMA TypeFeedMain ==
    ASSUME TypeInv, Feed \/ Main, UNCHANGED trainerVars
    PROVE  TypeInv'
    <1> USE DEF TypeInv, trainerVars, control, taskVars, procVars, consVars, rpcVars
    <1>1. CASE Feed
        <2>1. /\ \/ UNCHANGED <<pending_queue, fed>>
                 \/ pending_queue' = Append(pending_queue, Done) /\ fed' = fed
                 \/ /\ pending_queue' = Append(pending_queue, fed + 1) /\ fed' = fed + 1
                    /\ fed < TotalRolloutSteps
              /\ loop' \in {"idle", "feed"} /\ feedPc' \in {"feed", "done"}
            BY <1>1 DEF Feed, MoreSamples, TypeOK
        <2>4. fed' \in 0..TotalRolloutSteps /\ (fed < TotalRolloutSteps => fed + 1 \in Sample)
            BY <2>1, RollouterAssumption DEF TypeOK, Sample
        <2>5. pending_queue' \in Seq(Sample \cup {Done})
            <3>1. pending_queue \in Seq(Sample \cup {Done})
                BY DEF TypeOK
            <3> QED
                BY <2>1, <2>4, <3>1
        <2>2. TypeOK'
            BY <1>1, <2>1, <2>4, <2>5 DEF Feed, TypeOK, MQTypeOK, mqVars, counters
        <2>3. HandInv' /\ LockInv'
            BY <1>1 DEF Feed, HandInv, LockInv, Holding, Holds
        <2> QED
            BY <2>2, <2>3
    <1>2. CASE MainStep
        <2>1. TypeOK'
            BY <1>2 DEF MainStep, CancelConsumer, mainFrame, queues, TypeOK, MQTypeOK, mqVars, counters
        <2>2. LockInv'
            BY <1>2 DEF MainStep, mainFrame, LockInv, Holds
        <2>3. HandInv'
            BY <1>2 DEF MainStep, CancelConsumer, Joined, mainFrame, HandInv, Holding
        <2> QED
            BY <2>1, <2>2, <2>3
    <1>3. CASE MainSignal
        <2>1. MQTypeOK'
            BY <1>3, PutType, RollouterAssumption DEF MainSignal, TypeOK
        <2>2. TypeOK'
            BY <1>3, <2>1 DEF MainSignal, mainFrame, queues, TypeOK
        <2>3. HandInv' /\ LockInv'
            BY <1>3 DEF MainSignal, mainFrame, HandInv, LockInv, Holding, Holds
        <2> QED
            BY <2>2, <2>3
    <1>4. CASE MainStop
        <2>1. lockq' \in Seq(Coroutine)
            BY <1>4, LockGrant DEF MainStop, Coroutine, TypeOK
        <2>2. TypeOK'
            <3>1. /\ running' = FALSE /\ mainPc' = "done"
                  /\ UNCHANGED <<mqVars, consVars, loop, paused, monitor_loop_trigger,
                         current_param_version, staleness_samples, fed, queues,
                         taskVars, servers_paused, feedPc, procVars, monPc, rpcVars>>
                BY <1>4 DEF MainStop
            <3>2. running' \in BOOLEAN
                BY <3>1
            <3>3. MQTypeOK'
                BY <3>1 DEF TypeOK, MQTypeOK, mqVars, counters
            <3> HIDE DEF TypeInv
            <3>4. TypeOK
                BY DEF TypeInv
            <3> QED
                BY <2>1, <3>1, <3>2, <3>3, <3>4 DEF queues, taskVars, TypeOK
        <2>3. HandInv'
            BY <1>4 DEF MainStop, HandInv, Holding
        <2>4. LockInv'
            BY <1>4, LockGrant DEF MainStop, LockInv, Coroutine, TypeOK
        <2> QED
            BY <2>2, <2>3, <2>4
    <1> QED
        BY <1>1, <1>2, <1>3, <1>4 DEF Main

LEMMA TypeMonitor ==
    ASSUME TypeInv, Monitor, UNCHANGED trainerVars
    PROVE  TypeInv'
    <1> USE DEF TypeInv, trainerVars, monFrame, taskVars, consVars, rpcVars
    <1>1. /\ UNCHANGED monFrame
          /\ paused' \in {paused, FALSE}
          /\ procPc' \in {procPc, "woken"} /\ (procPc' # procPc => procPc = "wait")
          /\ monPc' \in {"sleep", "resume", "head", "done"}
        BY DEF Monitor, MonTick, MonResume, MonCheckRunning, MonHead, NotifyAll
    <1>2. \/ lockq' = lockq
          \/ lockq' = Append(lockq, "mon")
          \/ Holds("mon") /\ lockq' = Tail(lockq)
          \/ Holds("mon") /\ Tail(lockq) = <<>> /\ lockq' = <<>>
          \/ Holds("mon") /\ lockq' = Append(Tail(lockq), "mon")
        BY DEF Monitor, MonTick, MonResume, MonCheckRunning, MonHead, Release
    <1>3. lockq' \in Seq(Coroutine)
        <2>1. lockq \in Seq(Coroutine) /\ "mon" \in Coroutine
            BY DEF Coroutine, TypeOK
        <2>2. Holds("mon") => Tail(lockq) \in Seq(Coroutine)
            BY <2>1 DEF Holds
        <2>3. \A q \in Seq(Coroutine) : Append(q, "mon") \in Seq(Coroutine)
            BY <2>1
        <2> QED
            BY <1>2, <2>1, <2>2, <2>3
    <1>4. TypeOK'
        <2>1. /\ paused' \in BOOLEAN
              /\ procPc' \in {"top", "get", "mark", "quiesce", "limit", "drain", "collect",
                             "await", "idle", "submit", "wait", "woken", "finished", "crashed"}
            BY <1>1 DEF TypeOK
        <2> QED
            BY <1>1, <1>3, <2>1 DEF TypeOK, MQTypeOK, mqVars, counters, queues
    <1>5. HandInv'
        BY <1>1 DEF HandInv, Holding
    <1>6. LockInv'
        BY <1>1, <1>2, LockAppend DEF LockInv, Holds, TypeOK, Coroutine
    <1> QED
        BY <1>4, <1>5, <1>6

LEMMA TypeJoin ==
    ASSUME TypeInv, \E p \in {"pause", "update", "resume", "main"} : JoinLockQueue(p),
           UNCHANGED trainerVars
    PROVE  TypeInv'
    <1> PICK p \in {"pause", "update", "resume", "main"} : JoinLockQueue(p)
        OBVIOUS
    <1> USE DEF TypeInv, trainerVars, rpcFrame, consVars, rpcVars
    <1>1. lockq \in Seq(Coroutine) /\ p \in Coroutine /\ lockq' = Append(lockq, p)
        BY DEF JoinLockQueue, TypeOK, Coroutine
    <1>2. lockq' \in Seq(Coroutine)
        BY <1>1
    <1>3. TypeOK'
        BY <1>2 DEF JoinLockQueue, TypeOK, MQTypeOK, mqVars, counters, queues
    <1>4. HandInv'
        BY DEF JoinLockQueue, HandInv, Holding
    <1>5. LockInv'
        BY <1>1, LockAppend DEF JoinLockQueue, LockInv
    <1> QED
        BY <1>3, <1>4, <1>5

LEMMA TypePause ==
    ASSUME TypeInv, Pause, UNCHANGED trainerVars
    PROVE  TypeInv'
    <1> USE DEF TypeInv, trainerVars, pauseFrame, rpcFrame, consVars
    <1>0. TypeOK /\ lockq \in Seq(Coroutine)
        BY DEF TypeOK
    <1>1. CASE PauseEnter
        <2>1. lockq' \in Seq(Coroutine)
            BY <1>0, <1>1, LockGrant DEF PauseEnter, Coroutine
        <2>2. TypeOK'
            BY <1>0, <1>1, <2>1 DEF PauseEnter, TypeOK, MQTypeOK, mqVars, counters, queues
        <2>3. LockInv'
            BY <1>0, <1>1, LockGrant DEF PauseEnter, LockInv, Holds, Coroutine
        <2> QED
            BY <1>1, <2>2, <2>3 DEF PauseEnter, HandInv, Holding
    <1>2. CASE PauseCancel
        <2>1. TypeOK'
            BY <1>0, <1>2 DEF PauseCancel, TypeOK, MQTypeOK, mqVars, counters, queues
        <2> QED
            BY <1>2, <2>1 DEF PauseCancel, HandInv, Holding, LockInv, Holds
    <1>3. CASE PauseGather
        <2>1. TypeOK'
            BY <1>0, <1>3 DEF PauseGather, TypeOK, MQTypeOK, mqVars, counters, queues
        <2> QED
            BY <1>3, <2>1 DEF PauseGather, HandInv, Holding, LockInv, Holds
    <1>4. CASE PauseFinish
        <2>1. lockq' \in Seq(Coroutine) /\ Holds("pause")
            BY <1>0, <1>4, LockTail DEF PauseFinish, LockInv, Release, Holds
        <2>4. monitor_loop_trigger' \in BOOLEAN
            BY <1>4 DEF PauseFinish
        <2>2. TypeOK'
            BY <1>0, <1>4, <2>1, <2>4 DEF PauseFinish, TypeOK, MQTypeOK, mqVars, counters, queues
        <2>3. LockInv'
            BY <1>4, <2>1 DEF PauseFinish, LockInv, Holds
        <2> QED
            BY <1>4, <2>2, <2>3 DEF PauseFinish, HandInv, Holding
    <1> QED
        BY <1>1, <1>2, <1>3, <1>4 DEF Pause

(* The cardinalities of the model are numbers.                              *)
LEMMA CountsAreNat ==
    ASSUME TypeOK
    PROVE  /\ IsFiniteSet(Sample)
           /\ \A T \in SUBSET Sample : IsFiniteSet(T) /\ Cardinality(T) \in Nat
           /\ Counted \in Nat
           /\ Gone \in Nat
    <1>1. IsFiniteSet(Sample)
        BY FS_Interval, RollouterAssumption DEF Sample
    <1>2. \A T \in SUBSET Sample : IsFiniteSet(T) /\ Cardinality(T) \in Nat
        BY <1>1, FS_Subset, FS_CardinalityType
    <1>3. /\ active_tasks \in SUBSET Sample /\ Failed \in SUBSET Sample
          /\ cancel_queue \in Seq(Sample) /\ result_queue \in Seq(Sample)
          /\ total_consumed \in Nat /\ dropped_samples \in Nat
        BY DEF TypeOK, MQTypeOK, Failed
    <1>4. Len(cancel_queue) \in Nat /\ Len(result_queue) \in Nat
        BY <1>3
    <1> QED
        BY <1>1, <1>2, <1>3, <1>4 DEF Counted, Gone

LEMMA TypeUpdate ==
    ASSUME TypeInv, Update, UNCHANGED trainerVars
    PROVE  TypeInv'
    <1> USE DEF TypeInv, trainerVars, updateFrame, rpcFrame, consVars
    <1>0. TypeOK /\ lockq \in Seq(Coroutine) /\ Counted \in Nat
        BY CountsAreNat DEF TypeOK
    <1>1. CASE UpdateEnter(weights_version)
        <2>1. lockq' \in Seq(Coroutine)
            BY <1>0, <1>1, LockGrant DEF UpdateEnter, Coroutine
        <2>2. TypeOK'
            BY <1>0, <1>1, <2>1 DEF UpdateEnter, TypeOK, MQTypeOK, mqVars, counters, queues
        <2>3. LockInv'
            BY <1>0, <1>1, LockGrant DEF UpdateEnter, LockInv, Holds, Coroutine
        <2> QED
            BY <1>1, <2>2, <2>3 DEF UpdateEnter, HandInv, Holding
    <1>2. CASE UpdateAssign
        <2>1. TypeOK'
            BY <1>0, <1>2 DEF UpdateAssign, TypeOK, MQTypeOK, mqVars, counters, queues
        <2> QED
            BY <1>2, <2>1 DEF UpdateAssign, HandInv, Holding, LockInv, Holds
    <1>3. CASE UpdateFinish
        <2>1. lockq' \in Seq(Coroutine) /\ Holds("update")
            BY <1>0, <1>3, LockTail DEF UpdateFinish, LockInv, Release, Holds
        <2>2. TypeOK'
            BY <1>0, <1>3, <2>1 DEF UpdateFinish, TypeOK, MQTypeOK, mqVars, counters, queues
        <2>3. LockInv'
            BY <1>3, <2>1 DEF UpdateFinish, LockInv, Holds
        <2> QED
            BY <1>3, <2>2, <2>3 DEF UpdateFinish, HandInv, Holding
    <1> QED
        BY <1>1, <1>2, <1>3 DEF Update

LEMMA TypeResume ==
    ASSUME TypeInv, Resume, UNCHANGED trainerVars
    PROVE  TypeInv'
    <1> USE DEF TypeInv, trainerVars, resumeFrame, rpcFrame, consVars
    <1>0. TypeOK /\ lockq \in Seq(Coroutine)
        BY DEF TypeOK
    <1>1. CASE ResumeEnter
        <2>1. lockq' \in Seq(Coroutine)
            BY <1>0, <1>1, LockGrant, LockTail DEF ResumeEnter, Coroutine
        <2>2. procPc' \in {procPc, "woken"} /\ (procPc' # procPc => procPc = "wait")
            BY <1>1 DEF ResumeEnter, NotifyAll
        <2>5. paused' \in BOOLEAN /\ monitor_loop_trigger' \in BOOLEAN
            BY <1>1 DEF ResumeEnter
        <2>3. TypeOK'
            BY <1>0, <1>1, <2>1, <2>2, <2>5 DEF ResumeEnter, TypeOK, MQTypeOK, mqVars, counters, queues
        <2>4. LockInv'
            BY <1>0, <1>1, <2>2, LockGrant DEF ResumeEnter, LockInv, Holds, Coroutine
        <2> QED
            BY <1>1, <2>2, <2>3, <2>4 DEF ResumeEnter, HandInv, Holding
    <1>2. CASE ResumeServers
        <2>1. servers_paused' \in BOOLEAN
            BY <1>2 DEF ResumeServers
        <2>2. TypeOK'
            BY <1>0, <1>2, <2>1 DEF ResumeServers, TypeOK, MQTypeOK, mqVars, counters, queues
        <2> QED
            BY <1>2, <2>2 DEF ResumeServers, HandInv, Holding, LockInv, Holds
    <1>3. CASE ResumeFinish
        <2>1. lockq' \in Seq(Coroutine) /\ Holds("resume")
            BY <1>0, <1>3, LockTail DEF ResumeFinish, LockInv, Release, Holds
        <2>2. TypeOK'
            BY <1>0, <1>3, <2>1 DEF ResumeFinish, TypeOK, MQTypeOK, mqVars, counters, queues
        <2>3. LockInv'
            BY <1>3, <2>1 DEF ResumeFinish, LockInv, Holds
        <2> QED
            BY <1>3, <2>2, <2>3 DEF ResumeFinish, HandInv, Holding
    <1> QED
        BY <1>1, <1>2, <1>3 DEF Resume

LEMMA TypeTrainer ==
    ASSUME TypeInv, Trainer \/ StartResume \/ UpdateResetsStaleness
    PROVE  TypeInv'
    <1> USE DEF TypeInv
    <1>0. TypeOK
        OBVIOUS
    <1>1. CASE Collect
        <2>1. MQTypeOK' /\ (Head(queue) # Sentinel => Head(queue) \in Sample)
            BY <1>0, <1>1, RollouterAssumption DEF Collect, GetSample, TypeOK, MQTypeOK
        <2>2. /\ batch' \in SUBSET Sample /\ ending' \in BOOLEAN
              /\ trainerPc' \in {"final", "train", "collect"}
            BY <1>0, <1>1, <2>1 DEF Collect, TypeOK
        <2>3. TypeOK'
            BY <1>0, <1>1, <2>1, <2>2 DEF Collect, rollVars, control, queues, taskVars, procVars,
               consVars, rpcVars, TypeOK
        <2> QED
            BY <1>1, <2>3 DEF Collect, rollVars, procVars, consVars, rpcVars, HandInv, Holding,
               LockInv, Holds
    <1>2. CASE SleepOnQueue
        <2>1. MQTypeOK'
            BY <1>0, <1>2, TrainerAssumption DEF SleepOnQueue, WaitSample, counters, TypeOK, MQTypeOK
        <2>2. TypeOK'
            BY <1>0, <1>2, <2>1 DEF SleepOnQueue, rollVars, control, queues, taskVars, procVars,
               consVars, rpcVars, trainerVars, TypeOK
        <2> QED
            BY <1>2, <2>2 DEF SleepOnQueue, rollVars, procVars, consVars, rpcVars, HandInv,
               Holding, LockInv, Holds
    <1>3. CASE Train \/ FinalSync \/ TransferWeights \/ TrainerDone
        <2>1. /\ local_trigger_step' \in 1..TriggerParameterSyncStep
              /\ batch' \in SUBSET Sample /\ trained' \in SUBSET Sample
              /\ ending' \in BOOLEAN /\ trainer_version' \in Nat /\ weights_version' \in Nat
              /\ departed' \in Nat
              /\ trainerPc' \in {"collect", "wait", "launch", "done"}
            BY <1>0, <1>3, TrainerAssumption DEF Train, FinalSync, TransferWeights, TrainerDone,
               syncFrame, TypeOK
        <2>2. UNCHANGED <<mqVars, rollVars>>
            BY <1>3 DEF Train, FinalSync, TransferWeights, TrainerDone
        <2>3. TypeOK'
            BY <1>0, <2>1, <2>2 DEF rollVars, control, queues, taskVars, procVars,
               consVars, rpcVars, TypeOK, MQTypeOK, mqVars, counters
        <2> QED
            BY <2>2, <2>3 DEF rollVars, procVars, consVars, rpcVars, HandInv, Holding,
               LockInv, Holds
    <1>4. CASE LabelQueue
        <2>1. TypeOK'
            BY <1>0, <1>4 DEF LabelQueue, SetQueueVersion, syncFrame, rollVars, control, queues,
               taskVars, procVars, consVars, rpcVars, TypeOK, MQTypeOK, counters
        <2> QED
            BY <1>4, <2>1 DEF LabelQueue, rollVars, procVars, consVars, rpcVars, HandInv,
               Holding, LockInv, Holds
    <1>5. CASE CallPause \/ LaunchUpdate \/ StartResume
        <2>1. /\ UNCHANGED <<mqVars, handlersFrame, syncFrame, weights_version>>
              /\ pausePc' \in {pausePc, "off", "called"} /\ updPc' \in {updPc, "off", "called"}
              /\ resPc' \in {resPc, "off", "called"}
              /\ trainerPc' \in {trainerPc, "pausing", "lastwait", "collect"}
            BY <1>5 DEF CallPause, LaunchUpdate, StartResume, trainerVars, syncFrame
        <2>2. /\ pausePc' \in {"off", "called", "cancel", "gather", "flush", "replied"}
              /\ updPc' \in {"off", "called", "size", "assign", "validate", "replied"}
              /\ resPc' \in {"off", "called", "servers", "finish", "replied"}
              /\ trainerPc' \in {"collect", "train", "final", "wait", "pausing",
                                "transfer", "launch", "lastwait", "done"}
            BY <1>0, <2>1 DEF TypeOK
        <2>3. TypeOK'
            BY <1>0, <2>1, <2>2 DEF handlersFrame, syncFrame, control, queues, taskVars, procVars,
               consVars, TypeOK, MQTypeOK, mqVars, counters
        <2> QED
            BY <2>1, <2>3 DEF handlersFrame, procVars, consVars, HandInv, Holding, LockInv, Holds
    <1>6. CASE UpdateResetsStaleness
        <2>1. departed' \in Nat /\ updSum' \in Nat
            BY <1>0, <1>6, CountsAreNat DEF UpdateResetsStaleness, UpdateReadSize, TypeOK, MQTypeOK
        <2>2. TypeOK'
            BY <1>0, <1>6, <2>1 DEF UpdateResetsStaleness, UpdateReadSize, sizeFrame, control,
               queues, taskVars, procVars, TypeOK, MQTypeOK, mqVars, counters
        <2> QED
            BY <1>6, <2>2 DEF UpdateResetsStaleness, UpdateReadSize, sizeFrame, procVars,
               HandInv, Holding, LockInv, Holds
    <1> QED
        BY <1>1, <1>2, <1>3, <1>4, <1>5, <1>6 DEF Trainer

LEMMA TypeStep == TypeInv /\ [Next]_vars => TypeInv'
    <1> SUFFICES ASSUME TypeInv, [Next]_vars
                 PROVE  TypeInv'
        OBVIOUS
    <1>1. CASE RollouterStep /\ UNCHANGED trainerVars
        BY <1>1, TypeProcessor, TypeTasks, TypeConsumer, TypeFeedMain, TypeMonitor,
           TypeJoin, TypePause, TypeUpdate, TypeResume DEF RollouterStep
    <1>2. CASE Trainer \/ StartResume \/ UpdateResetsStaleness
        BY <1>2, TypeTrainer
    <1>3. CASE UNCHANGED vars
        <2>1. TypeOK'
            BY <1>3 DEF TypeInv, vars, mqVars, counters, rollVars, control, queues, taskVars,
               procVars, consVars, rpcVars, trainerVars, TypeOK, MQTypeOK
        <2> QED
            BY <1>3, <2>1 DEF TypeInv, vars, rollVars, procVars, consVars, rpcVars, HandInv,
               Holding, LockInv, Holds
    <1> QED
        BY <1>1, <1>2, <1>3 DEF Next, Finished

LEMMA TypeInit == Init => TypeInv
    <1> SUFFICES ASSUME Init PROVE TypeInv
        OBVIOUS
    <1>1. MQTypeOK
        BY DEF Init, MQInit, MQTypeOK
    <1>2. /\ paused \in BOOLEAN /\ monitor_loop_trigger \in BOOLEAN /\ running \in BOOLEAN
          /\ servers_paused \in BOOLEAN /\ bound \in BOOLEAN /\ ending \in BOOLEAN
        BY DEF Init, RollInit
    <1>3. /\ lockq \in Seq(Coroutine) /\ pending_queue \in Seq(Sample \cup {Done})
          /\ cancel_queue \in Seq(Sample) /\ result_queue \in Seq(Sample)
        BY DEF Init, RollInit
    <1>4. /\ gen \in [Sample -> {"none", "created", "generating", "aborted", "done", "failed"}]
          /\ tag \in [Sample -> Nat]
        BY DEF Init, RollInit
    <1>5. fed \in 0..TotalRolloutSteps /\ local_trigger_step \in 1..TriggerParameterSyncStep
        BY RollouterAssumption, TrainerAssumption DEF Init, RollInit
    <1>6. TypeOK
        BY <1>1, <1>2, <1>3, <1>4, <1>5 DEF Init, RollInit, TypeOK
    <1> QED
        BY <1>6 DEF Init, RollInit, TypeInv, HandInv, Holding, LockInv

(* Whatever the numbers of samples, the capacity of the queue and the       *)
(* throttle, every variable of rollouter, message queue and trainer holds a *)
(* value of its kind; staleness and versions never go negative.             *)
THEOREM TypeIsOK == Spec => []TypeOK
    <1>1. TypeInv => TypeOK
        BY DEF TypeInv
    <1> QED
        BY <1>1, TypeInit, TypeStep, PTL DEF Spec

-----------------------------------------------------------------------------
(* The books: no sample is in two places of the pipeline, and none is lost  *)
(* but to the message queue's drop.                                         *)

LEMMA OneOrNone ==
    ASSUME NEW n, NEW P
    PROVE  Cardinality({x \in {n} : P}) = IF P THEN 1 ELSE 0
    <1>1. P => {x \in {n} : P} = {n}
        OBVIOUS
    <1>2. ~P => {x \in {n} : P} = {}
        OBVIOUS
    <1> QED BY <1>1, <1>2, FS_Singleton, FS_EmptySet

(* How many elements of q are in T.                                        *)
CountIn(T, q) == Cardinality({i \in DOMAIN q : q[i] \in T})

(* Counting the elements of a queue that are in T ...                       *)
LEMMA CountFinite ==
    ASSUME NEW S, NEW q \in Seq(S), NEW T
    PROVE  /\ IsFiniteSet({i \in DOMAIN q : q[i] \in T})
           /\ CountIn(T, q) \in Nat
           /\ CountIn(T, q) = 0 <=> \A i \in DOMAIN q : q[i] \notin T
    <1> DEFINE I == {i \in DOMAIN q : q[i] \in T}
    <1>1. IsFiniteSet(1..Len(q))
        BY FS_Interval
    <1>2. I \in SUBSET (1..Len(q))
        OBVIOUS
    <1>3. IsFiniteSet(I)
        BY <1>1, <1>2, FS_Subset
    <1>4. Cardinality(I) = 0 <=> I = {}
        BY <1>3, FS_EmptySet
    <1>5. I = {} <=> \A i \in DOMAIN q : q[i] \notin T
        OBVIOUS
    <1> QED
        BY <1>3, <1>4, <1>5, FS_CardinalityType DEF CountIn

(* ... after an append ...                                                  *)
LEMMA CountAppend ==
    ASSUME NEW S, NEW q \in Seq(S), NEW x \in S, NEW T
    PROVE  CountIn(T, Append(q, x)) = CountIn(T, q) + (IF x \in T THEN 1 ELSE 0)
    <1> DEFINE I == {i \in DOMAIN q : q[i] \in T}
               J == {i \in DOMAIN Append(q, x) : Append(q, x)[i] \in T}
    <1>1. IsFiniteSet(I) /\ Cardinality(I) \in Nat
        BY CountFinite DEF CountIn
    <1>2. CountIn(T, Append(q, x)) = Cardinality(J) /\ CountIn(T, q) = Cardinality(I)
        BY DEF CountIn
    <1>3. x \in T => J = I \cup {Len(q) + 1}
        OBVIOUS
    <1>4. x \notin T => J = I
        OBVIOUS
    <1>5. Len(q) + 1 \notin I
        OBVIOUS
    <1> HIDE DEF I, J
    <1> QED
        BY <1>1, <1>2, <1>3, <1>4, <1>5, FS_AddElement

(* ... and after a removal at the head.                                     *)
LEMMA CountTail ==
    ASSUME NEW S, NEW q \in Seq(S), q # <<>>, NEW T
    PROVE  CountIn(T, q) = CountIn(T, Tail(q)) + (IF Head(q) \in T THEN 1 ELSE 0)
    <1> DEFINE I == {i \in DOMAIN q : q[i] \in T}
               K == I \ {1}
               J == {i \in DOMAIN Tail(q) : Tail(q)[i] \in T}
               f == [i \in J |-> i + 1]
    <1>1. IsFiniteSet(I) /\ Cardinality(I) \in Nat
        BY CountFinite DEF CountIn
    <1>2. IsFiniteSet(J) /\ Cardinality(J) \in Nat
        <2>1. Tail(q) \in Seq(S)
            OBVIOUS
        <2> QED
            BY <2>1, CountFinite DEF CountIn
    <1>3. Cardinality(J) = Cardinality(K)
        <2>1. f \in [J -> K]
            OBVIOUS
        <2>2. \A a, b \in J : f[a] = f[b] => a = b
            OBVIOUS
        <2>3. \A k \in K : \E a \in J : f[a] = k
            <3> SUFFICES ASSUME NEW k \in K PROVE k - 1 \in J /\ f[k - 1] = k
                OBVIOUS
            <3> QED OBVIOUS
        <2>4. ExistsBijection(J, K)
            <3> HIDE DEF J, K, f
            <3> QED BY <2>1, <2>2, <2>3, Fun_IsBij, Fun_ExistsBij
        <2> HIDE DEF J, K
        <2> QED
            BY <1>2, <2>4, FS_Bijection
    <1>4. Head(q) \in T <=> 1 \in I
        OBVIOUS
    <1>5. CountIn(T, Tail(q)) = Cardinality(J) /\ CountIn(T, q) = Cardinality(I)
        BY DEF CountIn
    <1>6. CASE 1 \in I
        <2>1. Cardinality(K) = Cardinality(I) - 1
            <3> HIDE DEF I
            <3> QED BY <1>1, <1>6, FS_RemoveElement
        <2> HIDE DEF I, J, K
        <2> QED BY <2>1, <1>1, <1>2, <1>3, <1>4, <1>5, <1>6
    <1>7. CASE 1 \notin I
        <2>1. K = I
            BY <1>7
        <2> HIDE DEF I, J, K
        <2> QED BY <2>1, <1>1, <1>3, <1>4, <1>5, <1>7
    <1> QED BY <1>6, <1>7

LEMMA OccursIsCount ==
    ASSUME NEW s, NEW q
    PROVE  Occurrences(s, q) = CountIn({s}, q)
    BY DEF Occurrences, CountIn

LEMMA OccursFinite ==
    ASSUME NEW S, NEW q \in Seq(S), NEW s
    PROVE  /\ Occurrences(s, q) \in Nat
           /\ Occurrences(s, q) = 0 <=> s \notin Elements(q)
    BY OccursIsCount, CountFinite DEF Elements

LEMMA OccursAppend ==
    ASSUME NEW S, NEW q \in Seq(S), NEW x \in S, NEW s
    PROVE  Occurrences(s, Append(q, x)) = Occurrences(s, q) + (IF x = s THEN 1 ELSE 0)
    BY OccursIsCount, CountAppend

LEMMA OccursTake ==
    ASSUME NEW S, NEW q \in Seq(S), q # <<>>, NEW s
    PROVE  Occurrences(s, q) = Occurrences(s, Tail(q)) + (IF Head(q) = s THEN 1 ELSE 0)
    BY OccursIsCount, CountTail

(* 1 for true, 0 for false.                                                 *)
Unit(P) == IF P THEN 1 ELSE 0

LEMMA UnitIsNat ==
    ASSUME NEW P
    PROVE  Unit(P) \in Nat
    BY DEF Unit

(* Copies as a plain sum.                                                   *)
Places(s) ==
    Occurrences(s, pending_queue) + Occurrences(s, cancel_queue)
    + Occurrences(s, result_queue) + Occurrences(s, queue)
    + Unit(hand = s) + Unit(consHand = s) + Unit(InFlight(s))
    + Unit(s \in batch \cup trained)

LEMMA CopiesSum ==
    ASSUME NEW s
    PROVE  Copies(s) = Places(s)
    BY OneOrNone DEF Copies, Places, Unit

LEMMA CopiesNext ==
    ASSUME NEW s
    PROVE  Copies(s)' =
             Occurrences(s, pending_queue') + Occurrences(s, cancel_queue')
             + Occurrences(s, result_queue') + Occurrences(s, queue')
             + Unit(hand' = s) + Unit(consHand' = s)
             + Unit(gen'[s] \in {"created", "generating", "aborted", "failed"})
             + Unit(s \in batch' \cup trained')
    BY OneOrNone DEF Copies, Unit, Occurrences, InFlight

LEMMA OccursInQueues ==
    ASSUME TypeOK, NEW s
    PROVE  /\ Occurrences(s, pending_queue) \in Nat /\ Occurrences(s, cancel_queue) \in Nat
           /\ Occurrences(s, result_queue) \in Nat /\ Occurrences(s, queue) \in Nat
    BY OccursFinite DEF TypeOK, MQTypeOK

(* The inductive form of Accounted: samples not fed yet are nowhere, and    *)
(* the exceptions (a drop, the end) are explicit.                           *)
BooksInv ==
    /\ \A s \in Sample : Copies(s) <= 1
    /\ \A s \in Sample : s > fed => Copies(s) = 0
    /\ dropped_samples = 0 /\ ~ending => \A s \in 1..fed : Copies(s) = 1
    /\ trainerPc = "final" => ending

LEMMA CopiesAreNat ==
    ASSUME TypeOK, NEW s
    PROVE  Copies(s) \in Nat
    BY CopiesSum, OccursInQueues DEF Places, Unit

(* A sample that moves from one place to another leaves the books balanced. *)
LEMMA Moved ==
    ASSUME TypeOK, BooksInv, UNCHANGED <<fed, ending>>,
           dropped_samples' \in Nat, dropped_samples' >= dropped_samples,
           \A s \in Sample : Copies(s)' \in Nat /\ Copies(s)' <= Copies(s),
           \A s \in Sample : dropped_samples' = dropped_samples /\ ~ending => Copies(s)' = Copies(s),
           trainerPc' = "final" => ending
    PROVE  BooksInv'
    <1>1. 1..fed \in SUBSET Sample /\ dropped_samples \in Nat
        BY RollouterAssumption DEF TypeOK, MQTypeOK, Sample
    <1>2. \A s \in Sample : Copies(s) \in Nat
        BY CopiesAreNat
    <1> QED
        BY <1>1, <1>2 DEF BooksInv

bookVars == <<queues, queue, hand, consHand, gen, fed, dropped_samples>>

LEMMA BooksFrame ==
    ASSUME TypeOK, BooksInv, UNCHANGED <<bookVars, batch \cup trained, ending>>,
           trainerPc' = "final" => ending
    PROVE  BooksInv'
    <1>1. \A s \in Sample : Copies(s)' = Copies(s)
        BY CopiesSum, CopiesNext DEF Places, InFlight, bookVars, queues
    <1>2. \A s \in Sample : Copies(s) \in Nat
        BY CopiesAreNat
    <1> QED
        BY <1>1, <1>2, Moved DEF bookVars, TypeOK, MQTypeOK

(* The terms of Copies the processor and the feeder do not touch.          *)
LEMMA CopiesMove ==
    ASSUME TypeOK, NEW s \in Sample, NEW d \in Int,
           UNCHANGED <<result_queue, queue, consHand, gen, batch, trained>>,
           Occurrences(s, pending_queue') \in Nat, Occurrences(s, cancel_queue') \in Nat,
           Occurrences(s, pending_queue') + Occurrences(s, cancel_queue') + Unit(hand' = s)
             = Occurrences(s, pending_queue) + Occurrences(s, cancel_queue) + Unit(hand = s) + d
    PROVE  Copies(s)' = Copies(s) + d
    <1> DEFINE r == Occurrences(s, result_queue)
               q == Occurrences(s, queue)
               c == Unit(consHand = s)
               g == Unit(gen[s] \in {"created", "generating", "aborted", "failed"})
               b == Unit(s \in batch \cup trained)
               x == Occurrences(s, pending_queue)
               y == Occurrences(s, cancel_queue)
               h == Unit(hand = s)
               x1 == Occurrences(s, pending_queue')
               y1 == Occurrences(s, cancel_queue')
               h1 == Unit(hand' = s)
    <1>1. Copies(s) = x + y + r + q + h + c + g + b
        BY CopiesSum DEF Places, InFlight
    <1>2. Copies(s)' = x1 + y1 + r + q + h1 + c + g + b
        BY CopiesNext
    <1>3. r \in Nat /\ q \in Nat /\ x \in Nat /\ y \in Nat
        BY OccursInQueues
    <1>4. c \in Nat /\ g \in Nat /\ b \in Nat /\ h \in Nat /\ h1 \in Nat
        BY DEF Unit
    <1>5. x1 \in Nat /\ y1 \in Nat /\ x1 + y1 + h1 = x + y + h + d
        OBVIOUS
    <1> HIDE DEF r, q, c, g, b, x, y, h, x1, y1, h1
    <1> QED
        BY <1>1, <1>2, <1>3, <1>4, <1>5

LEMMA BooksFeed ==
    ASSUME TypeInv, BooksInv, Feed, UNCHANGED trainerVars
    PROVE  BooksInv'
    <1>0. /\ TypeOK /\ pending_queue \in Seq(Sample \cup {Done})
          /\ fed \in 0..TotalRolloutSteps /\ TotalRolloutSteps \in Nat /\ Done \notin Sample
        BY RollouterAssumption DEF TypeInv, TypeOK
    <1>1. CASE UNCHANGED <<pending_queue, fed>>
        BY <1>0, <1>1, BooksFrame DEF Feed, bookVars, queues, mqVars, counters, taskVars,
           procVars, consVars, trainerVars, BooksInv
    <1>2. CASE pending_queue' = Append(pending_queue, Done) /\ fed' = fed
        <2>1. \A s \in Sample : Occurrences(s, pending_queue') = Occurrences(s, pending_queue)
            <3> TAKE s \in Sample
            <3>1. Occurrences(s, Append(pending_queue, Done))
                      = Occurrences(s, pending_queue) + (IF Done = s THEN 1 ELSE 0)
                BY <1>0, OccursAppend
            <3> QED
                BY <1>0, <1>2, <3>1, OccursInQueues
        <2>2. \A s \in Sample : Copies(s)' = Copies(s)
            BY <1>2, <2>1, CopiesSum, CopiesNext DEF Feed, Places, InFlight, mqVars, taskVars,
               procVars, consVars, trainerVars
        <2> QED
            BY <1>0, <1>2, <2>2, CopiesAreNat, Moved DEF Feed, mqVars, counters, trainerVars,
               BooksInv, TypeOK, MQTypeOK
    <1>3. CASE /\ pending_queue' = Append(pending_queue, fed + 1) /\ fed' = fed + 1
               /\ fed < TotalRolloutSteps
        <2>1. fed + 1 \in Sample /\ fed \in Nat
            BY <1>0, <1>3 DEF Sample
        <2>2. \A s \in Sample : Occurrences(s, pending_queue')
                                  = Occurrences(s, pending_queue) + Unit(fed + 1 = s)
            <3> TAKE s \in Sample
            <3>1. Occurrences(s, Append(pending_queue, fed + 1))
                      = Occurrences(s, pending_queue) + (IF fed + 1 = s THEN 1 ELSE 0)
                BY <1>0, <2>1, OccursAppend
            <3> QED
                BY <1>3, <3>1 DEF Unit
        <2>3. ASSUME NEW s \in Sample
              PROVE  Copies(s)' = Copies(s) + Unit(fed + 1 = s)
            <3>1. UNCHANGED <<cancel_queue, result_queue, queue, hand, consHand, gen, batch, trained>>
                BY DEF Feed, mqVars, taskVars, procVars, consVars, trainerVars
            <3>2. Occurrences(s, pending_queue) \in Nat /\ Occurrences(s, cancel_queue) \in Nat
                BY <1>0, OccursInQueues
            <3>3. Unit(fed + 1 = s) \in Nat /\ Unit(hand = s) \in Nat
                BY DEF Unit
            <3> QED
                BY <1>0, <2>2, <3>1, <3>2, <3>3, CopiesMove
        <2>4. \A s \in Sample : Copies(s) \in Nat /\ s \in Int
            BY <1>0, CopiesAreNat DEF Sample
        <2>5. Copies(fed + 1) = 0
            BY <2>1 DEF BooksInv
        <2>6. fed' = fed + 1 /\ UNCHANGED <<dropped_samples, ending, trainerPc>>
            BY <1>3 DEF Feed, mqVars, counters, trainerVars
        <2>7. 1..fed \in SUBSET Sample
            BY <1>0 DEF Sample
        <2>8. \A s \in 1..(fed + 1) : s \in 1..fed \/ s = fed + 1
            BY <2>1
        <2> QED
            BY <2>1, <2>3, <2>4, <2>5, <2>6, <2>7, <2>8 DEF BooksInv, Unit
    <1> QED
        BY <1>1, <1>2, <1>3 DEF Feed, MoreSamples, TypeOK

LEMMA BooksTake ==
    ASSUME TypeInv, BooksInv, ProcTop \/ ProcGet, UNCHANGED trainerVars
    PROVE  BooksInv'
    <1>0. /\ TypeOK /\ pending_queue \in Seq(Sample \cup {Done}) /\ cancel_queue \in Seq(Sample)
          /\ None \notin Sample /\ Done \notin Sample
        BY RollouterAssumption DEF TypeInv, TypeOK
    <1>1. UNCHANGED <<mqVars, result_queue, fed, gen, consHand, batch, trained, ending, trainerPc>>
        BY DEF ProcTop, ProcGet, TakePending, TakeInterrupted, procFrame, queues, consVars,
               trainerVars, Acquire
    <1>2. hand = None
        BY DEF ProcTop, ProcGet, TypeInv, HandInv, Holding
    <1>3. \/ UNCHANGED <<pending_queue, cancel_queue, hand>>
          \/ /\ cancel_queue # <<>> /\ UNCHANGED pending_queue
             /\ hand' = Head(cancel_queue) /\ cancel_queue' = Tail(cancel_queue)
          \/ /\ pending_queue # <<>> /\ UNCHANGED cancel_queue
             /\ pending_queue' = Tail(pending_queue)
             /\ hand' = IF Head(pending_queue) = Done THEN hand ELSE Head(pending_queue)
        BY DEF ProcTop, ProcGet, TakePending, TakeInterrupted, queues
    <1>4. ASSUME NEW s \in Sample
          PROVE  /\ Occurrences(s, pending_queue') + Occurrences(s, cancel_queue') + Unit(hand' = s)
                      = Occurrences(s, pending_queue) + Occurrences(s, cancel_queue) + Unit(hand = s)
                 /\ Occurrences(s, pending_queue') \in Nat /\ Occurrences(s, cancel_queue') \in Nat
        <2>0. Occurrences(s, pending_queue) \in Nat /\ Occurrences(s, cancel_queue) \in Nat
            BY <1>0, OccursInQueues
        <2>1. CASE UNCHANGED <<pending_queue, cancel_queue, hand>>
            BY <2>0, <2>1
        <2>2. CASE /\ cancel_queue # <<>> /\ UNCHANGED pending_queue
                   /\ hand' = Head(cancel_queue) /\ cancel_queue' = Tail(cancel_queue)
            <3>1. Tail(cancel_queue) \in Seq(Sample)
                BY <1>0, <2>2
            <3>2. Occurrences(s, Tail(cancel_queue)) \in Nat
                BY <3>1, OccursFinite
            <3>3. Occurrences(s, cancel_queue)
                    = Occurrences(s, Tail(cancel_queue)) + (IF Head(cancel_queue) = s THEN 1 ELSE 0)
                BY <1>0, <2>2, OccursTake
            <3> QED
                BY <2>0, <2>2, <1>0, <1>2, <3>2, <3>3 DEF Unit
        <2>3. CASE /\ pending_queue # <<>> /\ UNCHANGED cancel_queue
                   /\ pending_queue' = Tail(pending_queue)
                   /\ hand' = IF Head(pending_queue) = Done THEN hand ELSE Head(pending_queue)
            <3>1. Tail(pending_queue) \in Seq(Sample \cup {Done})
                BY <1>0, <2>3
            <3>2. Occurrences(s, Tail(pending_queue)) \in Nat
                BY <3>1, OccursFinite
            <3>3. Occurrences(s, pending_queue)
                    = Occurrences(s, Tail(pending_queue)) + (IF Head(pending_queue) = s THEN 1 ELSE 0)
                BY <1>0, <2>3, OccursTake
            <3> QED
                BY <2>0, <2>3, <1>0, <1>2, <3>2, <3>3 DEF Unit
        <2> QED
            BY <1>3, <2>1, <2>2, <2>3
    <1>5. \A s \in Sample : Copies(s)' = Copies(s)
        <2> TAKE s \in Sample
        <2>1. UNCHANGED <<result_queue, queue, gen, consHand, batch, trained>>
            BY <1>1 DEF mqVars
        <2>2. Occurrences(s, pending_queue') + Occurrences(s, cancel_queue') + Unit(hand' = s)
                = Occurrences(s, pending_queue) + Occurrences(s, cancel_queue) + Unit(hand = s) + 0
            BY <1>0, <1>4, OccursInQueues DEF Unit
        <2>3. Copies(s)' = Copies(s) + 0
            BY <1>0, <1>4, <2>1, <2>2, CopiesMove
        <2> QED
            BY <1>0, <2>3, CopiesAreNat
    <1> QED
        BY <1>0, <1>1, <1>5, CopiesAreNat, Moved DEF mqVars, counters, BooksInv, TypeOK, MQTypeOK

LEMMA BooksSubmit ==
    ASSUME TypeInv, BooksInv, ProcCondition, UNCHANGED trainerVars
    PROVE  BooksInv'
    <1>0. TypeOK /\ None \notin Sample
        BY RollouterAssumption DEF TypeInv
    <1>1. UNCHANGED <<mqVars, queues, fed, consHand, batch, trained, ending, trainerPc>>
        BY DEF ProcCondition, procFrame, consVars, trainerVars
    <1>2. CASE UNCHANGED <<hand, gen>>
        BY <1>0, <1>1, <1>2, BooksFrame DEF bookVars, mqVars, counters, BooksInv
    <1>3. CASE procPc = "submit" /\ gen' = [gen EXCEPT ![hand] = "created"] /\ hand' = None
        <2>1. hand \in Sample
            BY <1>3 DEF TypeInv, TypeOK, HandInv, Holding
        <2>2. ~InFlight(hand)
            BY <2>1, <1>0, CopiesSum, OccursInQueues DEF BooksInv, Places, Unit
        <2>3. \A s \in Sample : gen'[s] \in {"created", "generating", "aborted", "failed"}
                                  <=> InFlight(s) \/ s = hand
            BY <1>0, <1>3 DEF InFlight, TypeOK
        <2>5. \A s \in Sample : Copies(s)' = Copies(s)
            <3> TAKE s \in Sample
            <3>1. UNCHANGED <<result_queue, queue, pending_queue, cancel_queue, consHand, batch, trained>>
                BY <1>1 DEF mqVars, queues
            <3>2. Unit(hand' = s) = 0 /\ Unit(hand = s) \in Nat /\ Unit(InFlight(s)) \in Nat
                BY <1>0, <1>3 DEF Unit
            <3>3. Unit(gen'[s] \in {"created", "generating", "aborted", "failed"})
                    = Unit(hand = s) + Unit(InFlight(s))
                BY <2>1, <2>2, <2>3 DEF Unit
            <3> QED
                BY <3>1, <3>2, <3>3, <1>0, OccursInQueues, CopiesSum, CopiesNext DEF Places, Unit
        <2> QED
            BY <1>0, <1>1, <2>5, CopiesAreNat, Moved DEF mqVars, counters, BooksInv, TypeOK, MQTypeOK
    <1> QED
        BY <1>2, <1>3 DEF ProcCondition

LEMMA BooksProcessor ==
    ASSUME TypeInv, BooksInv, Processor, UNCHANGED trainerVars
    PROVE  BooksInv'
    <1>1. CASE ProcTop \/ ProcGet
        BY <1>1, BooksTake
    <1>2. CASE ProcMark \/ ProcLoopTest \/ ProcCollect \/ ProcAwait \/ ProcWake
        BY <1>2, BooksFrame DEF ProcMark, ProcLoopTest, ProcCollect, ProcAwait, ProcWake, procFrame,
           bookVars, queues, mqVars, counters, consVars, trainerVars, TypeInv, BooksInv
    <1>3. CASE ProcCondition
        BY <1>3, BooksSubmit
    <1> QED
        BY <1>1, <1>2, <1>3 DEF Processor

LEMMA BooksTasks ==
    ASSUME TypeInv, BooksInv, NEW t \in Sample, Task(t) \/ TaskFail(t), UNCHANGED trainerVars
    PROVE  BooksInv'
    <1>0. /\ TypeOK /\ cancel_queue \in Seq(Sample) /\ result_queue \in Seq(Sample)
          /\ gen \in [Sample -> {"none", "created", "generating", "aborted", "done", "failed"}]
        BY DEF TypeInv, TypeOK
    <1>1. UNCHANGED <<mqVars, pending_queue, fed, hand, consHand, batch, trained, ending, trainerPc>>
        BY DEF Task, TaskStart, ServerAbort, TaskFinish, TaskCancelled, TaskFail, taskFrame,
               procVars, consVars, trainerVars
    <1>2. /\ InFlight(t)
          /\ \/ /\ UNCHANGED <<cancel_queue, result_queue>>
                /\ \E g \in {"generating", "aborted", "failed"} : gen' = [gen EXCEPT ![t] = g]
             \/ /\ result_queue' = Append(result_queue, t) /\ cancel_queue' = cancel_queue
                /\ gen' = [gen EXCEPT ![t] = "done"]
             \/ /\ cancel_queue' = Append(cancel_queue, t) /\ result_queue' = result_queue
                /\ gen' = [gen EXCEPT ![t] = "done"]
        BY DEF Task, TaskStart, ServerAbort, TaskFinish, TaskCancelled, TaskFail, InFlight
    <1>3. ASSUME NEW s \in Sample
          PROVE  Copies(s)' = Copies(s)
        <2> DEFINE x == Occurrences(s, cancel_queue)
                   y == Occurrences(s, result_queue)
                   g == Unit(InFlight(s))
                   x1 == Occurrences(s, cancel_queue')
                   y1 == Occurrences(s, result_queue')
                   g1 == Unit(gen'[s] \in {"created", "generating", "aborted", "failed"})
                   p == Occurrences(s, pending_queue)
                   q == Occurrences(s, queue)
                   h == Unit(hand = s)
                   c == Unit(consHand = s)
                   b == Unit(s \in batch \cup trained)
        <2>1. Copies(s) = p + x + y + q + h + c + g + b
            BY CopiesSum DEF Places
        <2>2. Copies(s)' = p + x1 + y1 + q + h + c + g1 + b
            BY <1>1, CopiesNext DEF mqVars
        <2>3. p \in Nat /\ q \in Nat /\ x \in Nat /\ y \in Nat
            BY <1>0, OccursInQueues
        <2>4. h \in Nat /\ c \in Nat /\ b \in Nat /\ g \in Nat
            BY DEF Unit
        <2>5. g = Unit(s = t) + g1 - Unit(s = t /\ gen'[t] # "done") /\ g1 \in Nat
            BY <1>0, <1>2 DEF InFlight, Unit
        <2>6. x1 + y1 = x + y + Unit(s = t /\ gen'[t] = "done") /\ x1 \in Nat /\ y1 \in Nat
            <3>1. /\ Occurrences(s, Append(cancel_queue, t)) = x + (IF t = s THEN 1 ELSE 0)
                  /\ Occurrences(s, Append(result_queue, t)) = y + (IF t = s THEN 1 ELSE 0)
                BY <1>0, OccursAppend
            <3>2. gen'[t] = "done" <=> ~UNCHANGED <<cancel_queue, result_queue>>
                <4>1. Append(cancel_queue, t) # cancel_queue /\ Append(result_queue, t) # result_queue
                    BY <1>0, AppendGrows
                <4> QED
                    BY <1>0, <1>2, <4>1
            <3>3. CASE UNCHANGED <<cancel_queue, result_queue>>
                BY <2>3, <3>2, <3>3 DEF Unit
            <3>4. CASE result_queue' = Append(result_queue, t) /\ cancel_queue' = cancel_queue
                       /\ gen' = [gen EXCEPT ![t] = "done"]
                <4>1. gen'[t] = "done"
                    BY <1>0, <3>4
                <4>2. x1 = x /\ y1 = Occurrences(s, Append(result_queue, t))
                    BY <3>4
                <4>3. y1 = y + (IF t = s THEN 1 ELSE 0)
                    BY <3>1, <4>2
                <4>4. Unit(s = t /\ gen'[t] = "done") = (IF t = s THEN 1 ELSE 0)
                    BY <4>1 DEF Unit
                <4> HIDE DEF x, y, x1, y1
                <4> QED
                    BY <2>3, <4>2, <4>3, <4>4
            <3>5. CASE cancel_queue' = Append(cancel_queue, t) /\ result_queue' = result_queue
                       /\ gen' = [gen EXCEPT ![t] = "done"]
                <4>1. gen'[t] = "done"
                    BY <1>0, <3>5
                <4> QED
                    BY <2>3, <3>1, <3>5, <4>1 DEF Unit
            <3> QED
                BY <1>2, <3>3, <3>4, <3>5
        <2>7. Unit(s = t) = Unit(s = t /\ gen'[t] # "done") + Unit(s = t /\ gen'[t] = "done")
              /\ Unit(s = t) \in Nat /\ Unit(s = t /\ gen'[t] # "done") \in Nat
            BY DEF Unit
        <2> DEFINE u == Unit(s = t)
                   v == Unit(s = t /\ gen'[t] # "done")
                   w == Unit(s = t /\ gen'[t] = "done")
        <2>8. w \in Nat
            BY DEF Unit
        <2> HIDE DEF p, x, y, q, h, c, g, b, x1, y1, g1, u, v, w
        <2>9. g = u + g1 - v /\ x1 + y1 = x + y + w /\ u = v + w
            BY <2>5, <2>6, <2>7 DEF u, v, w
        <2>10. u \in Nat /\ v \in Nat /\ g1 \in Nat /\ x1 \in Nat /\ y1 \in Nat
            BY <2>5, <2>6, <2>7 DEF u, v
        <2> QED
            BY <2>1, <2>2, <2>3, <2>4, <2>8, <2>9, <2>10
    <1> QED
        BY <1>0, <1>1, <1>3, CopiesAreNat, Moved DEF mqVars, counters, BooksInv, TypeOK, MQTypeOK

(* A put: the new sample joins the queue and the oldest may drop out of it. *)
LEMMA OccursPut ==
    ASSUME MQTypeOK, NEW x \in Item, NEW s, PutSample(x)
    PROVE  /\ Occurrences(s, queue') \in Nat
           /\ Occurrences(s, queue') <= Occurrences(s, queue) + Unit(x = s)
           /\ dropped_samples' = dropped_samples
                => Occurrences(s, queue') = Occurrences(s, queue) + Unit(x = s)
           /\ dropped_samples' \in Nat /\ dropped_samples' >= dropped_samples
    <1>0. queue \in Seq(Item) /\ Occurrences(s, queue) \in Nat /\ dropped_samples \in Nat
        BY OccursFinite DEF MQTypeOK
    <1>1. CASE Full
        <2>1. queue # <<>> /\ queue' = Append(Tail(queue), x) /\ dropped_samples' = dropped_samples + 1
            BY <1>1, MaxQueueSizeAssumption DEF PutSample, Full
        <2>2. Tail(queue) \in Seq(Item)
            BY <1>0, <2>1
        <2>3. Occurrences(s, Append(Tail(queue), x))
                = Occurrences(s, Tail(queue)) + (IF x = s THEN 1 ELSE 0)
            BY <2>2, OccursAppend
        <2>4. /\ Occurrences(s, queue) = Occurrences(s, Tail(queue)) + (IF Head(queue) = s THEN 1 ELSE 0)
              /\ Occurrences(s, Tail(queue)) \in Nat
            BY <1>0, <2>1, <2>2, OccursTake, OccursFinite
        <2> QED
            BY <1>0, <2>1, <2>3, <2>4 DEF Unit
    <1>2. CASE ~Full
        <2>1. queue' = Append(queue, x) /\ dropped_samples' = dropped_samples
            BY <1>2 DEF PutSample
        <2>2. Occurrences(s, Append(queue, x)) = Occurrences(s, queue) + (IF x = s THEN 1 ELSE 0)
            BY <1>0, OccursAppend
        <2> QED
            BY <1>0, <2>1, <2>2 DEF Unit
    <1> QED
        BY <1>1, <1>2

LEMMA BooksConsumer ==
    ASSUME TypeInv, BooksInv, Consumer, UNCHANGED trainerVars
    PROVE  BooksInv'
    <1>0. TypeOK /\ MQTypeOK /\ result_queue \in Seq(Sample) /\ None \notin Sample
        BY RollouterAssumption DEF TypeInv, TypeOK
    <1>1. UNCHANGED <<pending_queue, cancel_queue, fed, gen, hand, batch, trained, ending, trainerPc>>
        BY DEF Consumer, ConsTake, ConsDeliver, ConsAck, OrphanDeliver, consFrame, taskVars,
               procVars, trainerVars
    <1>2. ASSUME NEW s \in Sample
          PROVE  /\ Copies(s) = Occurrences(s, pending_queue) + Occurrences(s, cancel_queue)
                       + Occurrences(s, result_queue) + Occurrences(s, queue)
                       + Unit(hand = s) + Unit(consHand = s)
                       + Unit(gen[s] \in {"created", "generating", "aborted", "failed"})
                       + Unit(s \in batch \cup trained)
                 /\ Copies(s)' = Occurrences(s, pending_queue) + Occurrences(s, cancel_queue)
                       + Occurrences(s, result_queue') + Occurrences(s, queue')
                       + Unit(hand = s) + Unit(consHand' = s)
                       + Unit(gen[s] \in {"created", "generating", "aborted", "failed"})
                       + Unit(s \in batch \cup trained)
        <2>1. Copies(s) = Places(s)
            BY CopiesSum
        <2> QED
            BY <2>1, <1>1, CopiesNext DEF Places, InFlight
    <1>3. ASSUME NEW s \in Sample,
                 Occurrences(s, result_queue') \in Nat, Occurrences(s, queue') \in Nat
          PROVE  /\ Occurrences(s, result_queue') + Occurrences(s, queue') + Unit(consHand' = s)
                    <= Occurrences(s, result_queue) + Occurrences(s, queue) + Unit(consHand = s)
                     => Copies(s)' \in Nat /\ Copies(s)' <= Copies(s)
                 /\ Occurrences(s, result_queue') + Occurrences(s, queue') + Unit(consHand' = s)
                    = Occurrences(s, result_queue) + Occurrences(s, queue) + Unit(consHand = s)
                     => Copies(s)' = Copies(s)
        <2> DEFINE p == Occurrences(s, pending_queue)
                   x == Occurrences(s, cancel_queue)
                   y == Occurrences(s, result_queue)
                   q == Occurrences(s, queue)
                   y1 == Occurrences(s, result_queue')
                   q1 == Occurrences(s, queue')
                   h == Unit(hand = s)
                   c == Unit(consHand = s)
                   c1 == Unit(consHand' = s)
                   g == Unit(gen[s] \in {"created", "generating", "aborted", "failed"})
                   b == Unit(s \in batch \cup trained)
        <2>1. p \in Nat /\ x \in Nat /\ y \in Nat /\ q \in Nat /\ y1 \in Nat /\ q1 \in Nat
            BY <1>0, <1>3, OccursInQueues
        <2>2. h \in Nat /\ c \in Nat /\ c1 \in Nat /\ g \in Nat /\ b \in Nat
            BY DEF Unit
        <2>3. Copies(s) = p + x + y + q + h + c + g + b
            BY <1>2
        <2>4. Copies(s)' = p + x + y1 + q1 + h + c1 + g + b
            BY <1>2
        <2> HIDE DEF p, x, y, q, y1, q1, h, c, c1, g, b
        <2>5. y1 + q1 + c1 <= y + q + c => Copies(s)' \in Nat /\ Copies(s)' <= Copies(s)
            BY <2>1, <2>2, <2>3, <2>4
        <2>6. y1 + q1 + c1 = y + q + c => Copies(s)' = Copies(s)
            BY <2>1, <2>2, <2>3, <2>4
        <2> QED
            BY <2>5, <2>6 DEF y, q, c, y1, q1, c1
    <1>4. CASE ConsTake
        <2>1. UNCHANGED mqVars /\ result_queue # <<>>
              /\ consHand' = Head(result_queue) /\ result_queue' = Tail(result_queue)
            BY <1>4 DEF ConsTake
        <2>2. consHand = None /\ Tail(result_queue) \in Seq(Sample)
            BY <1>0, <1>4, <2>1 DEF ConsTake, TypeInv, HandInv
        <2>3. ASSUME NEW s \in Sample
              PROVE  Copies(s)' = Copies(s)
            <3>1. /\ Occurrences(s, result_queue)
                       = Occurrences(s, Tail(result_queue)) + (IF Head(result_queue) = s THEN 1 ELSE 0)
                  /\ Occurrences(s, Tail(result_queue)) \in Nat
                BY <1>0, <2>1, <2>2, OccursTake, OccursFinite
            <3>2. Occurrences(s, queue') = Occurrences(s, queue) /\ Occurrences(s, queue) \in Nat
                BY <1>0, <2>1, OccursInQueues DEF mqVars
            <3>3. Unit(consHand' = s) = (IF Head(result_queue) = s THEN 1 ELSE 0)
                  /\ Unit(consHand = s) = 0
                BY <1>0, <2>1, <2>2 DEF Unit
            <3> QED
                BY <1>3, <2>1, <3>1, <3>2, <3>3
        <2>4. \A s \in Sample : Copies(s)' \in Nat /\ Copies(s)' <= Copies(s)
            BY <1>0, <2>3, CopiesAreNat
        <2> QED
            BY <1>0, <1>1, <2>1, <2>3, <2>4, Moved DEF mqVars, counters, BooksInv, TypeOK, MQTypeOK
    <1>5. CASE ConsDeliver \/ OrphanDeliver
        <2>1. PutSample(consHand) /\ consHand' = None /\ UNCHANGED result_queue
            BY <1>5 DEF ConsDeliver, OrphanDeliver
        <2>2. consHand \in Sample /\ consHand \in Item
            BY <1>5, RollouterAssumption DEF ConsDeliver, OrphanDeliver, TypeInv, HandInv, TypeOK
        <2>3. ASSUME NEW s \in Sample
              PROVE  /\ Copies(s)' \in Nat /\ Copies(s)' <= Copies(s)
                     /\ dropped_samples' = dropped_samples => Copies(s)' = Copies(s)
            <3>1. /\ Occurrences(s, queue') \in Nat
                  /\ Occurrences(s, queue') <= Occurrences(s, queue) + Unit(consHand = s)
                  /\ dropped_samples' = dropped_samples
                       => Occurrences(s, queue') = Occurrences(s, queue) + Unit(consHand = s)
                BY <1>0, <2>1, <2>2, OccursPut
            <3>2. /\ Occurrences(s, result_queue') = Occurrences(s, result_queue)
                  /\ Occurrences(s, result_queue) \in Nat /\ Occurrences(s, queue) \in Nat
                BY <1>0, <2>1, OccursInQueues
            <3>3. Unit(consHand' = s) = 0 /\ Unit(consHand = s) \in Nat
                BY <1>0, <2>1 DEF Unit
            <3> QED
                BY <1>3, <3>1, <3>2, <3>3
        <2>4. dropped_samples' \in Nat /\ dropped_samples' >= dropped_samples
            BY <1>0, <2>1, <2>2, OccursPut
        <2> QED
            BY <1>0, <1>1, <2>3, <2>4, Moved DEF BooksInv
    <1>6. CASE ConsAck
        BY <1>0, <1>1, <1>6, BooksFrame DEF ConsAck, bookVars, queues, mqVars, counters, BooksInv
    <1> QED
        BY <1>4, <1>5, <1>6 DEF Consumer

LEMMA BooksMain ==
    ASSUME TypeInv, BooksInv, Main, UNCHANGED trainerVars
    PROVE  BooksInv'
    <1>0. TypeOK /\ MQTypeOK /\ Sentinel \notin Sample /\ Sentinel \in Item
        BY RollouterAssumption DEF TypeInv, TypeOK
    <1>1. CASE MainStep \/ MainStop
        BY <1>0, <1>1, BooksFrame DEF MainStep, MainStop, mainFrame, bookVars, queues, mqVars,
           counters, taskVars, procVars, consVars, trainerVars, BooksInv
    <1>2. CASE MainSignal
        <2>1. PutSample(Sentinel)
              /\ UNCHANGED <<queues, fed, gen, hand, consHand, batch, trained, ending, trainerPc>>
            BY <1>2 DEF MainSignal, mainFrame, taskVars, procVars, consVars, trainerVars
        <2>2. ASSUME NEW s \in Sample
              PROVE  /\ Copies(s)' \in Nat /\ Copies(s)' <= Copies(s)
                     /\ dropped_samples' = dropped_samples => Copies(s)' = Copies(s)
            <3>1. Unit(Sentinel = s) = 0
                BY <1>0 DEF Unit
            <3>2. /\ Occurrences(s, queue') \in Nat
                  /\ Occurrences(s, queue') <= Occurrences(s, queue) + 0
                  /\ dropped_samples' = dropped_samples
                       => Occurrences(s, queue') = Occurrences(s, queue) + 0
                BY <1>0, <2>1, <3>1, OccursPut
            <3>3. Copies(s)' = Copies(s) - Occurrences(s, queue) + Occurrences(s, queue')
                <4> DEFINE p == Occurrences(s, pending_queue)
                           x == Occurrences(s, cancel_queue)
                           y == Occurrences(s, result_queue)
                           q == Occurrences(s, queue)
                           q1 == Occurrences(s, queue')
                           h == Unit(hand = s)
                           c == Unit(consHand = s)
                           g == Unit(gen[s] \in {"created", "generating", "aborted", "failed"})
                           b == Unit(s \in batch \cup trained)
                <4>1. Copies(s) = p + x + y + q + h + c + g + b
                    BY CopiesSum DEF Places, InFlight
                <4>2. Copies(s)' = p + x + y + q1 + h + c + g + b
                    BY <2>1, CopiesNext DEF queues
                <4>3. p \in Nat /\ x \in Nat /\ y \in Nat /\ q \in Nat /\ q1 \in Nat
                    BY <1>0, <3>2, OccursInQueues
                <4>4. h \in Nat /\ c \in Nat /\ g \in Nat /\ b \in Nat
                    BY DEF Unit
                <4>5. Copies(s)' = Copies(s) - q + q1
                    <5> HIDE DEF p, x, y, q, q1, h, c, g, b
                    <5> QED
                        BY <4>1, <4>2, <4>3, <4>4
                <4> QED
                    BY <4>5
            <3>4. /\ Occurrences(s, queue) \in Nat /\ Copies(s) \in Nat
                  /\ Copies(s) >= Occurrences(s, queue)
                <4> DEFINE p == Occurrences(s, pending_queue)
                           x == Occurrences(s, cancel_queue)
                           y == Occurrences(s, result_queue)
                           q == Occurrences(s, queue)
                           h == Unit(hand = s)
                           c == Unit(consHand = s)
                           g == Unit(InFlight(s))
                           b == Unit(s \in batch \cup trained)
                <4>1. Copies(s) = p + x + y + q + h + c + g + b
                    BY CopiesSum DEF Places
                <4>3. p \in Nat /\ x \in Nat /\ y \in Nat /\ q \in Nat
                    BY <1>0, OccursInQueues
                <4>4. h \in Nat /\ c \in Nat /\ g \in Nat /\ b \in Nat
                    BY DEF Unit
                <4>5. Copies(s) \in Nat /\ Copies(s) >= q /\ q \in Nat
                    <5> HIDE DEF p, x, y, q, h, c, g, b
                    <5> QED
                        BY <4>1, <4>3, <4>4
                <4> QED
                    BY <4>5
            <3> QED
                BY <3>2, <3>3, <3>4
        <2>3. dropped_samples' \in Nat /\ dropped_samples' >= dropped_samples
            BY <1>0, <2>1, OccursPut
        <2> QED
            BY <1>0, <2>1, <2>2, <2>3, Moved DEF BooksInv
    <1> QED
        BY <1>1, <1>2 DEF Main

LEMMA BooksFrames ==
    ASSUME TypeInv, BooksInv, Monitor \/ Handler, UNCHANGED trainerVars
    PROVE  BooksInv'
    <1>1. UNCHANGED bookVars
        <2>1. Monitor => UNCHANGED bookVars
            BY DEF Monitor, MonTick, MonResume, MonCheckRunning, monFrame, bookVars, queues, mqVars,
               counters, taskVars, consVars
        <2>2. Pause \/ Resume => UNCHANGED bookVars
            BY DEF Pause, PauseEnter, PauseCancel, PauseGather, PauseFinish, pauseFrame, Resume,
               ResumeEnter, ResumeServers, ResumeFinish, resumeFrame, rpcFrame, bookVars, queues,
               mqVars, counters, consVars
        <2>3. Update => UNCHANGED bookVars
            BY DEF Update, UpdateEnter, UpdateAssign, UpdateFinish, updateFrame, rpcFrame, bookVars,
               queues, mqVars, counters, consVars
        <2>4. (\E p \in {"pause", "update", "resume", "main"} : JoinLockQueue(p)) => UNCHANGED bookVars
            BY DEF JoinLockQueue, rpcFrame, bookVars, queues, mqVars, counters, consVars
        <2> QED
            BY <2>1, <2>2, <2>3, <2>4 DEF Handler
    <1> QED
        BY <1>1, BooksFrame DEF trainerVars, TypeInv, BooksInv

LEMMA BooksCollect ==
    ASSUME TypeInv, BooksInv, Collect
    PROVE  BooksInv'
    <1>0. /\ TypeOK /\ queue \in Seq(Item) /\ queue # <<>> /\ queue' = Tail(queue)
          /\ Sentinel \notin Sample /\ Item = Sample \cup {Sentinel}
          /\ UNCHANGED <<queues, fed, gen, hand, consHand, trained, dropped_samples>>
        BY RollouterAssumption DEF TypeInv, TypeOK, MQTypeOK, Collect, GetSample, rollVars, taskVars,
           procVars, consVars
    <1>1. ASSUME NEW s \in Sample
          PROVE  /\ Occurrences(s, queue) = Occurrences(s, queue') + (IF Head(queue) = s THEN 1 ELSE 0)
                 /\ Occurrences(s, queue') \in Nat
        <2>1. Tail(queue) \in Seq(Item)
            BY <1>0
        <2> QED
            BY <1>0, <2>1, OccursTake, OccursFinite
    <1>2. ASSUME NEW s \in Sample, Unit(s \in batch' \cup trained')
                    = Unit(s \in batch \cup trained) + (IF Head(queue) = s THEN 1 ELSE 0)
          PROVE  Copies(s)' = Copies(s)
        <2> DEFINE p == Occurrences(s, pending_queue)
                   x == Occurrences(s, cancel_queue)
                   y == Occurrences(s, result_queue)
                   q == Occurrences(s, queue)
                   q1 == Occurrences(s, queue')
                   h == Unit(hand = s)
                   c == Unit(consHand = s)
                   g == Unit(gen[s] \in {"created", "generating", "aborted", "failed"})
                   b == Unit(s \in batch \cup trained)
                   b1 == Unit(s \in batch' \cup trained')
                   d == IF Head(queue) = s THEN 1 ELSE 0
        <2>1. Copies(s) = p + x + y + q + h + c + g + b
            BY CopiesSum DEF Places, InFlight
        <2>2. Copies(s)' = p + x + y + q1 + h + c + g + b1
            BY <1>0, CopiesNext DEF queues
        <2>3. p \in Nat /\ x \in Nat /\ y \in Nat /\ q \in Nat /\ q1 \in Nat /\ d \in Nat
            BY <1>0, <1>1, OccursInQueues
        <2>4. h \in Nat /\ c \in Nat /\ g \in Nat /\ b \in Nat /\ b1 \in Nat
            BY DEF Unit
        <2>5. b1 = b + d /\ q = q1 + d
            BY <1>1, <1>2
        <2> HIDE DEF p, x, y, q, q1, h, c, g, b, b1, d
        <2> QED
            BY <2>1, <2>2, <2>3, <2>4, <2>5
    <1>3. \A s \in Sample : Copies(s)' = Copies(s)
        <2> TAKE s \in Sample
        <2>1. CASE Head(queue) = Sentinel
            <3>1. Head(queue) # s /\ batch' = batch
                BY <1>0, <2>1 DEF Collect
            <3> QED
                BY <1>0, <1>2, <3>1 DEF Unit
        <2>2. CASE Head(queue) # Sentinel /\ Head(queue) # s
            <3>1. batch' = batch \cup {Head(queue)}
                BY <2>2 DEF Collect
            <3> QED
                BY <1>0, <1>2, <2>2, <3>1 DEF Unit
        <2>3. CASE Head(queue) # Sentinel /\ Head(queue) = s
            <3>1. batch' = batch \cup {s}
                BY <2>3 DEF Collect
            <3>2. s \notin batch \cup trained
                <4>1. Occurrences(s, queue) >= 1
                    BY <1>1, <2>3
                <4> DEFINE p == Occurrences(s, pending_queue)
                           x == Occurrences(s, cancel_queue)
                           y == Occurrences(s, result_queue)
                           q == Occurrences(s, queue)
                           h == Unit(hand = s)
                           c == Unit(consHand = s)
                           g == Unit(InFlight(s))
                           b == Unit(s \in batch \cup trained)
                <4>2. Copies(s) = p + x + y + q + h + c + g + b /\ Copies(s) <= 1
                    BY <1>0, CopiesSum DEF Places, BooksInv
                <4>3. p \in Nat /\ x \in Nat /\ y \in Nat /\ q \in Nat
                    BY <1>0, OccursInQueues
                <4>4. h \in Nat /\ c \in Nat /\ g \in Nat /\ b \in Nat
                    BY DEF Unit
                <4>5. b = 0 => s \notin batch \cup trained
                    BY DEF Unit
                <4>6. q >= 1
                    BY <4>1
                <4> HIDE DEF p, x, y, q, h, c, g, b
                <4> QED
                    BY <4>2, <4>3, <4>4, <4>5, <4>6
            <3> QED
                BY <1>0, <1>2, <2>3, <3>1, <3>2 DEF Unit
        <2> QED
            BY <2>1, <2>2, <2>3
    <1>4. CASE ending' = ending
        <2>1. \A s \in Sample : Copies(s)' \in Nat /\ Copies(s)' <= Copies(s)
            BY <1>0, <1>3, CopiesAreNat
        <2>2. trainerPc' = "final" => ending
            BY <1>4 DEF Collect
        <2> QED
            BY <1>0, <1>3, <1>4, <2>1, <2>2, Moved DEF TypeOK, MQTypeOK
    <1>5. CASE ending'
        BY <1>0, <1>3, <1>5 DEF BooksInv
    <1> QED
        BY <1>4, <1>5 DEF Collect

LEMMA BooksFinal ==
    ASSUME TypeInv, BooksInv, FinalSync
    PROVE  BooksInv'
    <1>0. /\ TypeOK /\ ending /\ batch' = {} /\ trainerPc' = "wait"
          /\ UNCHANGED <<mqVars, queues, fed, gen, hand, consHand, trained, ending>>
        BY DEF TypeInv, FinalSync, BooksInv, rollVars, taskVars, procVars, consVars
    <1>1. ASSUME NEW s \in Sample
          PROVE  Copies(s)' \in Nat /\ Copies(s)' <= Copies(s)
        <2> DEFINE p == Occurrences(s, pending_queue)
                   x == Occurrences(s, cancel_queue)
                   y == Occurrences(s, result_queue)
                   q == Occurrences(s, queue)
                   h == Unit(hand = s)
                   c == Unit(consHand = s)
                   g == Unit(gen[s] \in {"created", "generating", "aborted", "failed"})
                   b == Unit(s \in batch \cup trained)
                   b1 == Unit(s \in batch' \cup trained')
        <2>1. Copies(s) = p + x + y + q + h + c + g + b
            BY CopiesSum DEF Places, InFlight
        <2>2. Copies(s)' = p + x + y + q + h + c + g + b1
            BY <1>0, CopiesNext DEF queues, mqVars
        <2>3. p \in Nat /\ x \in Nat /\ y \in Nat /\ q \in Nat
            BY <1>0, OccursInQueues
        <2>4. h \in Nat /\ c \in Nat /\ g \in Nat /\ b \in Nat /\ b1 \in Nat /\ b1 <= b
            BY <1>0 DEF Unit
        <2> HIDE DEF p, x, y, q, h, c, g, b, b1
        <2> QED
            BY <2>1, <2>2, <2>3, <2>4
    <1> QED
        BY <1>0, <1>1, Moved DEF mqVars, counters, TypeOK, MQTypeOK

LEMMA BooksTrainer ==
    ASSUME TypeInv, BooksInv, Trainer \/ StartResume \/ UpdateResetsStaleness
    PROVE  BooksInv'
    <1>0. TypeOK
        BY DEF TypeInv
    <1>1. CASE SleepOnQueue \/ LabelQueue
        BY <1>0, <1>1, BooksFrame DEF SleepOnQueue, WaitSample, LabelQueue, SetQueueVersion, counters,
           syncFrame, rollVars, taskVars, procVars, consVars, bookVars, trainerVars, BooksInv
    <1>2. CASE Train
        <2>1. batch' \cup trained' = batch \cup trained
            BY <1>2 DEF Train
        <2> QED
            BY <1>0, <1>2, <2>1, BooksFrame DEF Train, mqVars, counters, rollVars, taskVars, procVars,
               consVars, bookVars
    <1>3. CASE TransferWeights \/ TrainerDone
        BY <1>0, <1>3, BooksFrame DEF TransferWeights, TrainerDone, mqVars, counters, syncFrame,
           rollVars, taskVars, procVars, consVars, bookVars
    <1>4. CASE CallPause \/ LaunchUpdate \/ StartResume
        BY <1>0, <1>4, BooksFrame DEF CallPause, LaunchUpdate, StartResume, mqVars, counters, syncFrame,
           handlersFrame, taskVars, procVars, consVars, bookVars, trainerVars, BooksInv
    <1>5. CASE UpdateResetsStaleness
        BY <1>0, <1>5, BooksFrame DEF UpdateResetsStaleness, UpdateReadSize, sizeFrame,
           mqVars, counters, taskVars, procVars, bookVars, BooksInv
    <1> QED
        BY <1>1, <1>2, <1>3, <1>4, <1>5, BooksCollect, BooksFinal DEF Trainer

LEMMA BooksStep == TypeInv /\ BooksInv /\ [Next]_vars => BooksInv'
    <1> SUFFICES ASSUME TypeInv, BooksInv, [Next]_vars
                 PROVE  BooksInv'
        OBVIOUS
    <1>1. CASE RollouterStep /\ UNCHANGED trainerVars
        BY <1>1, BooksFeed, BooksProcessor, BooksTasks, BooksConsumer, BooksMain, BooksFrames
           DEF RollouterStep, Handler
    <1>2. CASE Trainer \/ StartResume \/ UpdateResetsStaleness
        BY <1>2, BooksTrainer
    <1>3. CASE UNCHANGED vars
        BY <1>3, BooksFrame DEF TypeInv, vars, mqVars, counters, rollVars, taskVars, procVars,
           consVars, trainerVars, bookVars, BooksInv
    <1> QED
        BY <1>1, <1>2, <1>3 DEF Next, Finished

LEMMA BooksInit == Init => BooksInv
    <1> SUFFICES ASSUME Init PROVE BooksInv
        OBVIOUS
    <1>1. ASSUME NEW s \in Sample PROVE Copies(s) = 0
        <2>1. Occurrences(s, <<>>) = 0
            <3>1. <<>> \in Seq(Sample) /\ s \notin Elements(<<>>)
                BY DEF Elements
            <3> QED
                BY <3>1, OccursFinite
        <2>2. Places(s) = 0
            BY <2>1, RollouterAssumption DEF Init, MQInit, RollInit, Places, Unit, InFlight
        <2> QED
            BY <2>2, CopiesSum
    <1> QED
        BY <1>1 DEF Init, RollInit, BooksInv

(* Through every interruption, resumption, cancelled consumer and final     *)
(* synchronization a sample is in at most one place, hence trained on at    *)
(* most once; unless the message queue drops one, all samples fed are       *)
(* somewhere until the trainer winds up.                                    *)
THEOREM SamplesAccounted == Spec => []Accounted
    <1>1. BooksInv => Accounted
        BY DEF BooksInv, Accounted
    <1> QED
        BY <1>1, TypeInit, TypeStep, BooksInit, BooksStep, PTL DEF Spec

-----------------------------------------------------------------------------
(* The finish signal is the last item the trainer can be handed.            *)

(* The generation's main coroutine has not yet begun to wind up.            *)
Open == mainPc \in {"feed", "proc", "join"}

(* Why nothing follows the finish signal: main sends it only after a        *)
(* processor that drained its tasks, a joined result queue and a cancelled  *)
(* consumer; a crashed processor is the exception.                          *)
EndInv ==
    /\ \A s \in Sample : gen[s] \in Running => s \in active_tasks
    /\ procPc = "finished" => active_tasks = {}
    /\ mainPc = "join" => procPc = "finished"
    /\ ~Open => Dead /\ consPc \in {"orphan", "off"}
    /\ ~Open /\ procPc = "finished" => result_queue = <<>> /\ consPc = "off"
    /\ Open \/ mainPc = "signal" => Sentinel \notin Elements(queue) /\ ~ending
    /\ \A i \in DOMAIN queue : queue[i] = Sentinel => i = Len(queue) \/ procPc = "crashed"
    /\ mainPc \in {"answered", "done"} /\ consPc = "orphan" /\ ~ending => Sentinel \in Elements(queue)
    /\ trainerPc = "final" => ending
    /\ ending => trainerPc \notin {"collect", "train"}

endVars == <<queue, ending, trainerPc, consPc, mainPc, result_queue>>

LEMMA EndProcessor ==
    ASSUME TypeInv, EndInv, Processor, UNCHANGED trainerVars
    PROVE  EndInv'
    <1>1. UNCHANGED endVars
        BY DEF Processor, ProcTop, ProcGet, TakePending, ProcMark, ProcLoopTest, ProcCollect,
               ProcAwait, ProcCondition, ProcWake, procFrame, queues, consVars, mqVars,
               trainerVars, endVars
    <1>2. procPc \notin {"finished", "crashed"}
        BY DEF Processor, ProcTop, ProcGet, ProcMark, ProcLoopTest, ProcCollect, ProcAwait,
               ProcCondition, ProcWake
    <1>3. \A s \in Sample : gen'[s] \in Running => s \in active_tasks'
        <2>1. CASE ProcCondition
            <3>1. \/ UNCHANGED <<active_tasks, gen>>
                  \/ active_tasks' = active_tasks \cup {hand} /\ gen' = [gen EXCEPT ![hand] = "created"]
                BY <2>1 DEF ProcCondition
            <3> QED
                BY <3>1 DEF EndInv, TypeInv, TypeOK
        <2>2. CASE ProcAwait
            BY <2>2 DEF ProcAwait, Completed, Running, EndInv
        <2>3. CASE ~ProcCondition /\ ~ProcAwait
            <3>1. UNCHANGED <<active_tasks, gen>>
                BY <2>3 DEF Processor, ProcTop, ProcGet, ProcMark, ProcLoopTest, ProcCollect, ProcWake
            <3> QED
                BY <3>1 DEF EndInv
        <2> QED
            BY <2>1, <2>2, <2>3
    <1>4. procPc' = "finished" => active_tasks' = {}
        <2>1. CASE ProcLoopTest
            <3>1. procPc' = "finished" => procPc = "drain" /\ ~MustWait /\ UNCHANGED active_tasks
                BY <2>1 DEF ProcLoopTest
            <3> QED
                BY <3>1 DEF MustWait
        <2>2. CASE ~ProcLoopTest
            <3>1. procPc' # "finished"
                BY <2>2 DEF Processor, ProcTop, ProcGet, TakePending, ProcMark, ProcCollect,
                   ProcAwait, ProcCondition, ProcWake, TypeInv, HandInv
            <3> QED
                BY <3>1
        <2> QED
            BY <2>1, <2>2
    <1> QED
        BY <1>1, <1>2, <1>3, <1>4 DEF EndInv, endVars, Open, Dead, Elements

LEMMA EndTasks ==
    ASSUME TypeInv, EndInv, NEW t \in Sample, Task(t) \/ TaskFail(t), UNCHANGED trainerVars
    PROVE  EndInv'
    <1>1. /\ UNCHANGED <<queue, ending, trainerPc, consPc, mainPc, procPc, active_tasks>>
          /\ gen[t] \in Running
          /\ \E g \in {"generating", "aborted", "done", "failed"} : gen' = [gen EXCEPT ![t] = g]
        BY DEF Task, TaskStart, ServerAbort, TaskFinish, TaskCancelled, TaskFail, taskFrame, mqVars,
               consVars, procVars, trainerVars, Running
    <1>2. t \in active_tasks
        BY <1>1 DEF EndInv
    <1>3. procPc # "finished"
        BY <1>2 DEF EndInv
    <1>4. \A s \in Sample : gen'[s] \in Running => s \in active_tasks
        BY <1>1, <1>2 DEF EndInv, TypeInv, TypeOK
    <1> QED
        BY <1>1, <1>3, <1>4 DEF EndInv, Open, Dead, Elements

(* What a put does to the queue: append, or drop the head and append.       *)
LEMMA PutShape ==
    ASSUME MQTypeOK, NEW x \in Item, PutSample(x)
    PROVE  /\ queue' \in Seq(Item) /\ Len(queue') \in Nat
           /\ Len(queue') >= 1 /\ queue'[Len(queue')] = x
           /\ \A i \in DOMAIN queue' : i < Len(queue') => queue'[i] \in Elements(queue)
           /\ \A s \in Elements(queue') : s = x \/ s \in Elements(queue)
    <1>1. queue # <<>> \/ ~Full
        BY MaxQueueSizeAssumption DEF Full
    <1>2. CASE Full
        <2>1. queue' = Append(Tail(queue), x)
            BY <1>2 DEF PutSample
        <2>2. queue \in Seq(Item) /\ queue # <<>> /\ Tail(queue) \in Seq(Item)
            BY <1>1, <1>2 DEF MQTypeOK
        <2>3. \A i \in DOMAIN Tail(queue) : Tail(queue)[i] = queue[i + 1] /\ i + 1 \in DOMAIN queue
            BY <2>2
        <2> QED
            BY <2>1, <2>2, <2>3 DEF Elements
    <1>3. CASE ~Full
        <2>1. queue' = Append(queue, x)
            BY <1>3 DEF PutSample
        <2>2. queue \in Seq(Item)
            BY DEF MQTypeOK
        <2> QED
            BY <2>1, <2>2 DEF Elements
    <1> QED
        BY <1>2, <1>3

LEMMA EndConsumer ==
    ASSUME TypeInv, EndInv, Consumer, UNCHANGED trainerVars
    PROVE  EndInv'
    <1>0. /\ UNCHANGED <<ending, trainerPc, mainPc, procPc, active_tasks, gen>>
          /\ MQTypeOK
        BY DEF Consumer, ConsTake, ConsDeliver, ConsAck, OrphanDeliver, consFrame, taskVars,
               procVars, trainerVars, TypeInv, TypeOK
    <1>1. CASE ConsTake \/ ConsAck
        <2>1. /\ UNCHANGED queue /\ consPc \notin {"orphan", "off"} /\ consPc' \notin {"orphan", "off"}
            BY <1>1 DEF ConsTake, ConsAck, mqVars
        <2> QED
            BY <1>0, <2>1 DEF EndInv, Open, Dead, Elements
    <1>2. CASE ConsDeliver \/ OrphanDeliver
        <2>1. /\ consHand \in Sample /\ PutSample(consHand) /\ UNCHANGED result_queue
              /\ consPc' \in {"answered", "off"} /\ consPc \in {"sent", "behind", "orphan"}
              /\ consPc = "orphan" => consPc' = "off"
              /\ consPc # "orphan" => consPc' = "answered"
            BY <1>2 DEF ConsDeliver, OrphanDeliver, TypeInv, TypeOK, HandInv
        <2>2. consHand \in Item /\ consHand # Sentinel
            BY <2>1, RollouterAssumption
        <2>3. /\ Sentinel \notin Elements(queue) => Sentinel \notin Elements(queue')
              /\ queue'[Len(queue')] # Sentinel
              /\ \A i \in DOMAIN queue' : queue'[i] = Sentinel => Sentinel \in Elements(queue)
            <3>1. /\ \A i \in DOMAIN queue' : i < Len(queue') => queue'[i] \in Elements(queue)
                  /\ \A s \in Elements(queue') : s = consHand \/ s \in Elements(queue)
                  /\ queue'[Len(queue')] = consHand /\ queue' \in Seq(Item)
                BY <1>0, <2>1, <2>2, PutShape
            <3> QED
                BY <2>2, <3>1
        <2>4. procPc = "finished" => Open
            BY <2>1 DEF EndInv
        <2>5. Open \/ procPc = "crashed"
            BY <2>4 DEF EndInv, Dead
        <2>6. consPc = "orphan" => ~Open
            BY DEF TypeInv, HandInv, Open
        <2>7. Elements(queue)' = Elements(queue')
            BY DEF Elements
        <2>8. Open => \A i \in DOMAIN queue' : queue'[i] # Sentinel
            BY <2>3 DEF EndInv
        <2> QED
            BY <1>0, <2>1, <2>3, <2>5, <2>6, <2>7, <2>8 DEF EndInv, Open, Dead
    <1> QED
        BY <1>1, <1>2 DEF Consumer

LEMMA EndMain ==
    ASSUME TypeInv, EndInv, Feed \/ Main, UNCHANGED trainerVars
    PROVE  EndInv'
    <1>0. /\ UNCHANGED <<ending, trainerPc, result_queue, procPc, active_tasks, gen>>
          /\ MQTypeOK
        BY DEF Feed, Main, MainStep, MainSignal, MainStop, mainFrame, taskVars, queues,
               procVars, trainerVars, TypeInv, TypeOK
    <1>1. CASE Feed
        BY <1>0, <1>1 DEF Feed, mqVars, consVars, EndInv, Open, Dead, Elements
    <1>2. CASE MainStep
        <2>1. UNCHANGED queue
            BY <1>2 DEF MainStep, mqVars
        <2> QED
            BY <1>0, <1>2, <2>1 DEF MainStep, CancelConsumer, Joined, EndInv, Open, Dead, Elements
    <1>3. CASE MainSignal
        <2>1. mainPc = "signal" /\ PutSample(Sentinel) /\ mainPc' = "answered" /\ consPc' = consPc
            BY <1>3 DEF MainSignal, consVars
        <2>2. Sentinel \in Item
            BY RollouterAssumption
        <2>3. /\ queue' \in Seq(Item) /\ Len(queue') >= 1 /\ queue'[Len(queue')] = Sentinel
              /\ Len(queue') \in Nat
              /\ \A i \in DOMAIN queue' : i < Len(queue') => queue'[i] \in Elements(queue)
            BY <1>0, <2>1, <2>2, PutShape
        <2>4. Sentinel \in Elements(queue')
            BY <2>3 DEF Elements
        <2>5. \A i \in DOMAIN queue' : queue'[i] = Sentinel => i = Len(queue')
            BY <2>1, <2>3 DEF EndInv
        <2>6. Elements(queue)' = Elements(queue')
            BY DEF Elements
        <2> QED
            BY <1>0, <2>1, <2>4, <2>5, <2>6 DEF EndInv, Open, Dead
    <1>4. CASE MainStop
        BY <1>0, <1>4 DEF MainStop, mqVars, consVars, EndInv, Open, Dead, Elements
    <1> QED
        BY <1>1, <1>2, <1>3, <1>4 DEF Main

LEMMA EndFrames ==
    ASSUME TypeInv, EndInv, Monitor \/ Handler, UNCHANGED trainerVars
    PROVE  EndInv'
    <1>1. /\ UNCHANGED endVars /\ UNCHANGED gen
          /\ procPc' = procPc \/ (procPc = "wait" /\ procPc' = "woken")
          /\ \/ UNCHANGED active_tasks
             \/ active_tasks' = {} /\ active_tasks = Completed(active_tasks)
        <2>1. Monitor => UNCHANGED <<endVars, gen, active_tasks>>
            BY DEF Monitor, MonTick, MonResume, MonCheckRunning, monFrame, endVars, queues, mqVars,
               taskVars, consVars, trainerVars
        <2>2. Pause \/ Resume => /\ UNCHANGED <<endVars, gen>>
                                 /\ \/ UNCHANGED active_tasks
                                    \/ active_tasks' = {} /\ active_tasks = Completed(active_tasks)
            BY DEF Pause, PauseEnter, PauseCancel, PauseGather, PauseFinish, pauseFrame, Resume,
               ResumeEnter, ResumeServers, ResumeFinish, resumeFrame, rpcFrame, endVars, queues,
               mqVars, consVars, trainerVars
        <2>3. Update => UNCHANGED <<endVars, gen, active_tasks>>
            BY DEF Update, UpdateEnter, UpdateAssign, UpdateFinish, updateFrame, rpcFrame, endVars,
               queues, mqVars, consVars, trainerVars
        <2>4. (\E p \in {"pause", "update", "resume", "main"} : JoinLockQueue(p))
                => UNCHANGED <<endVars, gen, active_tasks>>
            BY DEF JoinLockQueue, rpcFrame, endVars, queues, mqVars, consVars, trainerVars
        <2>5. Monitor => procPc' = procPc \/ (procPc = "wait" /\ procPc' = "woken")
            BY DEF Monitor, MonTick, MonResume, MonCheckRunning, monFrame, NotifyAll
        <2>6. Handler => procPc' = procPc \/ (procPc = "wait" /\ procPc' = "woken")
            BY DEF Handler, Pause, PauseEnter, PauseCancel, PauseGather, PauseFinish, pauseFrame,
               Update, UpdateEnter, UpdateAssign, UpdateFinish, updateFrame,
               Resume, ResumeEnter, ResumeServers, ResumeFinish, resumeFrame, rpcFrame, NotifyAll,
               JoinLockQueue
        <2> QED
            BY <2>1, <2>2, <2>3, <2>4, <2>5, <2>6 DEF Handler
    <1>2. \A s \in Sample : gen'[s] \in Running => s \in active_tasks'
        BY <1>1 DEF EndInv, Completed, Running
    <1> QED
        BY <1>1, <1>2 DEF EndInv, endVars, Open, Dead, Elements

LEMMA EndTrainer ==
    ASSUME TypeInv, EndInv, Trainer \/ StartResume \/ UpdateResetsStaleness
    PROVE  EndInv'
    <1>1. /\ UNCHANGED <<mainPc, procPc, result_queue, active_tasks, gen>>
          /\ consPc' = consPc \/ (consPc = "behind" /\ consPc' = "sent")
        BY DEF Trainer, Collect, SleepOnQueue, Train, FinalSync, CallPause, LabelQueue,
               TransferWeights, LaunchUpdate, TrainerDone, StartResume, UpdateResetsStaleness,
               UpdateReadSize, sizeFrame, handlersFrame, rollVars, queues, taskVars,
               procVars, consVars
    <1>2. CASE Collect
        <2>1. queue \in Seq(Item) /\ queue # <<>> /\ queue' = Tail(queue) /\ ~ending
            BY <1>2 DEF Collect, GetSample, TypeInv, TypeOK, MQTypeOK, EndInv
        <2>2. \A i \in DOMAIN Tail(queue) : Tail(queue)[i] = queue[i + 1] /\ i + 1 \in DOMAIN queue
            BY <2>1
        <2>3. Elements(queue') \in SUBSET Elements(queue)
            BY <2>1, <2>2 DEF Elements
        <2>4. \A i \in DOMAIN queue' : queue'[i] = Sentinel => i = Len(queue') \/ procPc = "crashed"
            BY <2>1, <2>2 DEF EndInv
        <2>5. CASE Head(queue) = Sentinel
            <3>1. ending' /\ trainerPc' = "final" /\ Sentinel \in Elements(queue)
                BY <1>2, <2>1, <2>5 DEF Collect, Elements
            <3>2. ~Open /\ mainPc # "signal"
                BY <3>1 DEF EndInv
            <3> QED
                BY <1>1, <2>4, <3>1, <3>2 DEF EndInv, Open, Dead
        <2>6. CASE Head(queue) # Sentinel
            <3>1. ending' = ending /\ trainerPc' \in {"train", "collect"}
                BY <1>2, <2>6 DEF Collect
            <3>2. Sentinel \in Elements(queue) <=> Sentinel \in Elements(queue')
                <4>1. \A i \in DOMAIN queue : i = 1 \/ (i - 1 \in DOMAIN Tail(queue) /\ Tail(queue)[i - 1] = queue[i])
                    BY <2>1
                <4> QED
                    BY <2>1, <2>3, <2>6, <4>1 DEF Elements
            <3>3. Elements(queue)' = Elements(queue')
                BY DEF Elements
            <3> QED
                BY <1>1, <2>1, <2>4, <3>1, <3>2, <3>3 DEF EndInv, Open, Dead
        <2> QED
            BY <2>5, <2>6
    <1>3. CASE ~Collect
        <2>1. UNCHANGED queue
            BY <1>3 DEF Trainer, SleepOnQueue, WaitSample, Train, FinalSync, CallPause, LabelQueue,
               SetQueueVersion, TransferWeights, LaunchUpdate, TrainerDone, StartResume,
               UpdateResetsStaleness, UpdateReadSize, sizeFrame, mqVars
        <2>2. /\ UNCHANGED ending
              /\ trainerPc' = "final" => trainerPc = "final"
              /\ ending => trainerPc' \notin {"collect", "train"}
            BY <1>3 DEF Trainer, SleepOnQueue, Train, FinalSync, CallPause, LabelQueue,
               TransferWeights, LaunchUpdate, TrainerDone, StartResume, UpdateResetsStaleness,
               trainerVars, syncFrame, EndInv
        <2> QED
            BY <1>1, <2>1, <2>2 DEF EndInv, Open, Dead, Elements
    <1> QED
        BY <1>2, <1>3

LEMMA EndStep == TypeInv /\ EndInv /\ [Next]_vars => EndInv'
    <1> SUFFICES ASSUME TypeInv, EndInv, [Next]_vars
                 PROVE  EndInv'
        OBVIOUS
    <1>1. CASE RollouterStep /\ UNCHANGED trainerVars
        BY <1>1, EndMain, EndProcessor, EndTasks, EndConsumer, EndFrames DEF RollouterStep, Handler
    <1>2. CASE Trainer \/ StartResume \/ UpdateResetsStaleness
        BY <1>2, EndTrainer
    <1>3. CASE UNCHANGED vars
        BY <1>3 DEF vars, mqVars, rollVars, queues, taskVars, procVars, consVars, trainerVars,
           EndInv, Open, Dead, Elements
    <1> QED
        BY <1>1, <1>2, <1>3 DEF Next, Finished

LEMMA EndInit == Init => EndInv
    BY DEF Init, MQInit, RollInit, EndInv, Open, Running, Elements

(* Unless the processor died, no sample is queued or on its way behind the  *)
(* finish signal.                                                           *)
THEOREM FinishSignalLast == Spec => []SentinelLast
    <1>1. TypeInv /\ EndInv => SentinelLast
        <2> SUFFICES ASSUME TypeInv, EndInv, procPc # "crashed", NEW i \in DOMAIN queue,
                            queue[i] = Sentinel
                     PROVE  i = Len(queue) /\ result_queue = <<>> /\ consPc = "off"
            BY DEF SentinelLast
        <2>1. ~Open
            BY DEF EndInv, Elements
        <2> QED
            BY <2>1 DEF EndInv, Dead
    <1> QED
        BY <1>1, TypeInit, TypeStep, EndInit, EndStep, PTL DEF Spec

-----------------------------------------------------------------------------
(* The flow: how many samples are on their way, for the throttle.           *)

(* How many samples are in one of the states G.                            *)
InState(G, g) == Cardinality({s \in Sample : g[s] \in G})

(* It is a number ...                                                       *)
LEMMA InStateType ==
    ASSUME NEW G, NEW g
    PROVE  IsFiniteSet({s \in Sample : g[s] \in G}) /\ InState(G, g) \in Nat
    <1>1. IsFiniteSet(Sample)
        BY FS_Interval, RollouterAssumption DEF Sample
    <1>2. {s \in Sample : g[s] \in G} \in SUBSET Sample
        OBVIOUS
    <1> QED
        BY <1>1, <1>2, FS_Subset, FS_CardinalityType DEF InState

(* ... that changes with the one sample that changes state.                 *)
LEMMA InStateMove ==
    ASSUME NEW V, gen \in [Sample -> V], NEW t \in Sample, NEW v \in V, NEW G,
           gen' = [gen EXCEPT ![t] = v]
    PROVE  InState(G, gen') + Unit(gen[t] \in G) = InState(G, gen) + Unit(v \in G)
    <1> DEFINE A == {s \in Sample : gen[s] \in G}
               B == {s \in Sample : gen'[s] \in G}
    <1>1. /\ IsFiniteSet(A) /\ Cardinality(A) \in Nat
          /\ IsFiniteSet(B) /\ Cardinality(B) \in Nat
          /\ InState(G, gen) = Cardinality(A) /\ InState(G, gen') = Cardinality(B)
        BY InStateType DEF InState
    <1>2. CASE gen[t] \in G /\ v \notin G
        <2>1. B = A \ {t} /\ t \in A
            BY <1>2
        <2>2. Cardinality(B) = Cardinality(A) - 1
            <3> HIDE DEF A, B
            <3> QED BY <1>1, <2>1, FS_RemoveElement
        <2> HIDE DEF A, B
        <2> QED BY <1>1, <1>2, <2>2 DEF Unit
    <1>3. CASE gen[t] \notin G /\ v \in G
        <2>1. B = A \cup {t} /\ t \notin A
            BY <1>3
        <2>2. Cardinality(B) = Cardinality(A) + 1
            <3> HIDE DEF A, B
            <3> QED BY <1>1, <2>1, FS_AddElement
        <2> HIDE DEF A, B
        <2> QED BY <1>1, <1>3, <2>2 DEF Unit
    <1>4. CASE gen[t] \in G <=> v \in G
        <2>1. A = B
            BY <1>4
        <2> HIDE DEF A, B
        <2> QED BY <1>1, <1>4, <2>1 DEF Unit
    <1> QED
        BY <1>2, <1>3, <1>4

(* Samples held between pending_queue and the message queue.               *)
Carried == Unit(hand # None) + Unit(consHand # None) + Len(cancel_queue)
          + Len(result_queue) + InState(Running, gen)

(* Until the rollouter winds up, what was taken from pending_queue is       *)
(* consumed, dropped, failed, held or queued, and each sample is counted   *)
(* once.                                                                   *)
FlowInv == Open => TakenFromPending = Gone + Carried + Len(queue)

(* TakenFromPending by the counting operator.                               *)
LEMMA TakenIs ==
    ASSUME NEW q \in Seq(Sample \cup {Done})
    PROVE  Cardinality({i \in DOMAIN q : q[i] # Done}) = CountIn(Sample, q)
    <1>1. {i \in DOMAIN q : q[i] # Done} = {i \in DOMAIN q : q[i] \in Sample}
        BY RollouterAssumption
    <1> QED
        BY <1>1 DEF CountIn

(* The terms of the flow are integers ...                                   *)
LEMMA FlowTypes ==
    ASSUME TypeOK
    PROVE  /\ TakenFromPending = fed - CountIn(Sample, pending_queue)
           /\ TakenFromPending \in Int /\ Gone \in Nat /\ Carried \in Nat /\ Len(queue) \in Nat
           /\ fed \in Nat /\ CountIn(Sample, pending_queue) \in Nat
           /\ Len(cancel_queue) \in Nat /\ Len(result_queue) \in Nat
           /\ InState(Running, gen) \in Nat /\ InState({"failed"}, gen) \in Nat
    <1>1. /\ fed \in 0..TotalRolloutSteps /\ pending_queue \in Seq(Sample \cup {Done})
          /\ cancel_queue \in Seq(Sample) /\ result_queue \in Seq(Sample) /\ queue \in Seq(Item)
        BY DEF TypeOK, MQTypeOK
    <1>2. CountIn(Sample, pending_queue) \in Nat
        BY <1>1, CountFinite
    <1>3. TakenFromPending = fed - CountIn(Sample, pending_queue)
        BY <1>1, TakenIs DEF TakenFromPending
    <1>4. InState(Running, gen) \in Nat /\ InState({"failed"}, gen) \in Nat
        BY InStateType
    <1>5. fed \in Nat
        BY <1>1, RollouterAssumption
    <1>6. Carried \in Nat
        BY <1>1, <1>4, UnitIsNat DEF Carried
    <1> QED
        BY <1>1, <1>2, <1>3, <1>4, <1>5, <1>6, CountsAreNat

(* ... and change only with their queues.                                   *)
LEMMA FlowTerms ==
    /\ UNCHANGED <<fed, pending_queue>> => TakenFromPending' = TakenFromPending
    /\ UNCHANGED <<total_consumed, dropped_samples, gen>> => Gone' = Gone
    /\ UNCHANGED <<hand, consHand, cancel_queue, result_queue, gen>> => Carried' = Carried
    /\ Carried' = Unit(hand' # None) + Unit(consHand' # None) + Len(cancel_queue')
                + Len(result_queue') + InState(Running, gen')
    /\ Gone' = total_consumed' + dropped_samples' + InState({"failed"}, gen')
    /\ Gone = total_consumed + dropped_samples + InState({"failed"}, gen)
    <1>1. /\ Failed = {s \in Sample : gen[s] \in {"failed"}}
          /\ Failed' = {s \in Sample : gen'[s] \in {"failed"}}
        BY DEF Failed
    <1> QED
        BY <1>1 DEF TakenFromPending, Gone, Carried, InState, Unit, Failed

(* TakenFromPending in the next state.                                      *)
LEMMA TakenNext ==
    ASSUME pending_queue' \in Seq(Sample \cup {Done})
    PROVE  /\ TakenFromPending' = fed' - CountIn(Sample, pending_queue')
           /\ CountIn(Sample, pending_queue') \in Nat
    BY TakenIs, CountFinite DEF TakenFromPending

flowVars == <<fed, queue, total_consumed, dropped_samples, hand, consHand, queues, gen>>

LEMMA FlowFrame ==
    ASSUME FlowInv, UNCHANGED flowVars, Open' => Open
    PROVE  FlowInv' /\ TakenFromPending' = TakenFromPending /\ Gone' = Gone /\ Carried' = Carried
    BY FlowTerms DEF FlowInv, flowVars, queues

LEMMA FlowFeed ==
    ASSUME TypeInv, FlowInv, Feed, UNCHANGED trainerVars
    PROVE  FlowInv' /\ TakenFromPending' = TakenFromPending /\ Gone' = Gone /\ Carried' = Carried
    <1>0. TypeOK
        BY DEF TypeInv
    <1>1. /\ UNCHANGED <<mqVars, cancel_queue, result_queue, gen, hand, consHand, mainPc>>
          /\ \/ UNCHANGED <<pending_queue, fed>>
             \/ pending_queue' = Append(pending_queue, Done) /\ fed' = fed
             \/ /\ pending_queue' = Append(pending_queue, fed + 1) /\ fed' = fed + 1
                /\ fed < TotalRolloutSteps
        BY DEF Feed, MoreSamples, taskVars, procVars, consVars
    <1>2. pending_queue \in Seq(Sample \cup {Done}) /\ Done \notin Sample
        BY <1>0, RollouterAssumption DEF TypeOK
    <1>3. TakenFromPending' = TakenFromPending
        <2>1. CASE pending_queue' = Append(pending_queue, Done) /\ fed' = fed
            <3>1. CountIn(Sample, Append(pending_queue, Done)) = CountIn(Sample, pending_queue) + 0
                BY <1>2, CountAppend
            <3>2. pending_queue' \in Seq(Sample \cup {Done})
                BY <1>2, <2>1
            <3> QED
                BY <1>0, <2>1, <3>1, <3>2, TakenNext, FlowTypes
        <2>2. CASE pending_queue' = Append(pending_queue, fed + 1) /\ fed' = fed + 1
                   /\ fed < TotalRolloutSteps
            <3>1. fed + 1 \in Sample
                BY <1>0, <2>2, RollouterAssumption DEF TypeOK, Sample
            <3>2. CountIn(Sample, Append(pending_queue, fed + 1)) = CountIn(Sample, pending_queue) + 1
                BY <1>2, <3>1, CountAppend
            <3>3. pending_queue' \in Seq(Sample \cup {Done})
                BY <1>2, <2>2, <3>1
            <3> QED
                BY <1>0, <2>2, <3>2, <3>3, TakenNext, FlowTypes
        <2> QED
            BY <1>1, <2>1, <2>2, FlowTerms
    <1> QED
        BY <1>1, <1>3, FlowTerms DEF FlowInv, mqVars, counters, Open

LEMMA FlowTake ==
    ASSUME TypeInv, FlowInv, TakePending, pending_queue # <<>>, hand = None,
           UNCHANGED <<mqVars, cancel_queue, result_queue, gen, fed, consHand, mainPc>>
    PROVE  /\ FlowInv' /\ Gone' = Gone
           /\ TakenFromPending' - TakenFromPending = Unit(hand' # None)
    <1>0. TypeOK
        BY DEF TypeInv
    <1>1. /\ pending_queue \in Seq(Sample \cup {Done}) /\ Done \notin Sample /\ None \notin Sample
          /\ pending_queue' = Tail(pending_queue)
        BY <1>0, RollouterAssumption DEF TypeOK, TakePending
    <1> DEFINE d == IF Head(pending_queue) \in Sample THEN 1 ELSE 0
    <1>2. CountIn(Sample, pending_queue) = CountIn(Sample, Tail(pending_queue)) + d
        BY <1>1, CountTail
    <1>3. pending_queue' \in Seq(Sample \cup {Done})
        BY <1>1
    <1>4. TakenFromPending' = TakenFromPending + d
        BY <1>0, <1>1, <1>2, <1>3, TakenNext, FlowTypes
    <1>5. Unit(hand' # None) = d /\ Unit(hand # None) = 0
        BY <1>1 DEF TakePending, Unit
    <1>6. Carried' = Carried + d
        <2>1. Carried = 0 + Unit(consHand # None) + Len(cancel_queue) + Len(result_queue)
                       + InState(Running, gen)
            BY <1>5 DEF Carried
        <2>2. Carried' = d + Unit(consHand # None) + Len(cancel_queue) + Len(result_queue)
                       + InState(Running, gen)
            BY <1>5, FlowTerms
        <2> HIDE DEF d
        <2> DEFINE c == Unit(consHand # None)
                   x == Len(cancel_queue)
                   y == Len(result_queue)
                   r == InState(Running, gen)
        <2>3. d \in Nat /\ c \in Nat /\ x \in Nat /\ y \in Nat /\ r \in Nat
            BY <1>0, FlowTypes DEF Unit, d
        <2>4. Carried = 0 + c + x + y + r /\ Carried' = d + c + x + y + r
            BY <2>1, <2>2
        <2> HIDE DEF c, x, y, r
        <2> QED
            BY <2>3, <2>4
    <1>7. Gone' = Gone
        BY FlowTerms DEF mqVars, counters
    <1> HIDE DEF d
    <1>8. d \in Nat
        BY DEF d
    <1>9. /\ TakenFromPending \in Int /\ Gone \in Nat /\ Carried \in Nat /\ Len(queue) \in Nat
          /\ Len(queue)' = Len(queue) /\ Open' = Open
        BY <1>0, FlowTypes DEF mqVars, Open
    <1>10. FlowInv'
        BY <1>4, <1>6, <1>7, <1>8, <1>9 DEF FlowInv
    <1> QED
        BY <1>4, <1>5, <1>7, <1>8, <1>9, <1>10

LEMMA FlowProcessor ==
    ASSUME TypeInv, BooksInv, FlowInv, Processor, UNCHANGED trainerVars
    PROVE  FlowInv' /\ Gone' = Gone
    <1>0. TypeOK /\ None \notin Sample
        BY RollouterAssumption DEF TypeInv
    <1>1. UNCHANGED <<mqVars, fed, result_queue, consHand, mainPc>>
        BY DEF Processor, ProcTop, ProcGet, ProcMark, ProcLoopTest, ProcCollect, ProcAwait,
               ProcCondition, ProcWake, procFrame, consVars, queues
    <1>2. CASE ProcTop
        <2>1. hand = None /\ UNCHANGED gen
            BY <1>2 DEF ProcTop, TypeInv, HandInv, Holding
        <2>2. CASE UNCHANGED <<queues, hand>>
            BY <1>1, <2>1, <2>2, FlowFrame DEF flowVars, mqVars, counters, Open
        <2>3. CASE cancel_queue # <<>> /\ TakeInterrupted /\ UNCHANGED pending_queue
            <3>1. cancel_queue \in Seq(Sample)
                BY <1>0 DEF TypeOK
            <3>2. Len(cancel_queue') = Len(cancel_queue) - 1 /\ hand' \in Sample
                BY <2>3, <3>1 DEF TakeInterrupted
            <3>3. Unit(hand # None) = 0 /\ Unit(hand' # None) = 1
                BY <1>0, <2>1, <3>2 DEF Unit
            <3>4. Carried' = Carried
                <4>1. Carried = 0 + Unit(consHand # None) + Len(cancel_queue) + Len(result_queue)
                               + InState(Running, gen)
                    BY <3>3 DEF Carried
                <4>2. Carried' = 1 + Unit(consHand # None) + (Len(cancel_queue) - 1) + Len(result_queue)
                               + InState(Running, gen)
                    BY <1>1, <2>1, <3>2, <3>3, FlowTerms
                <4> DEFINE c == Unit(consHand # None)
                           x == Len(cancel_queue)
                           y == Len(result_queue)
                           r == InState(Running, gen)
                <4>3. c \in Nat /\ x \in Nat /\ y \in Nat /\ r \in Nat
                    BY <1>0, FlowTypes DEF Unit
                <4>4. Carried = 0 + c + x + y + r /\ Carried' = 1 + c + (x - 1) + y + r
                    BY <4>1, <4>2
                <4> HIDE DEF c, x, y, r
                <4> QED
                    BY <4>3, <4>4
            <3> QED
                BY <1>1, <2>1, <2>3, <3>4, FlowTerms DEF FlowInv, mqVars, counters, Open
        <2>4. CASE pending_queue # <<>> /\ TakePending /\ UNCHANGED cancel_queue
            BY <1>1, <2>1, <2>4, FlowTake
        <2> QED
            BY <1>2, <2>2, <2>3, <2>4 DEF ProcTop, TakePending, queues
    <1>3. CASE ProcGet
        <2>1. /\ hand = None /\ UNCHANGED gen /\ pending_queue # <<>> /\ TakePending
              /\ UNCHANGED cancel_queue
            BY <1>3 DEF ProcGet, TakePending, TypeInv, HandInv, Holding
        <2> QED
            BY <1>1, <2>1, FlowTake
    <1>4. CASE ProcMark \/ ProcLoopTest \/ ProcCollect \/ ProcAwait \/ ProcWake
        BY <1>1, <1>4, FlowFrame DEF ProcMark, ProcLoopTest, ProcCollect, ProcAwait, ProcWake,
           flowVars, mqVars, counters, Open
    <1>5. CASE ProcCondition
        <2>1. UNCHANGED queues
            BY <1>5 DEF ProcCondition
        <2>2. CASE UNCHANGED <<hand, gen>>
            BY <1>1, <2>1, <2>2, FlowFrame DEF flowVars, mqVars, counters, Open
        <2>3. CASE procPc = "submit" /\ hand' = None /\ gen' = [gen EXCEPT ![hand] = "created"]
            <3>1. hand \in Sample
                BY <2>3, <1>0 DEF TypeInv, TypeOK, HandInv, Holding
            <3>2. ~InFlight(hand)
                <4> DEFINE s == hand
                           p == Occurrences(s, pending_queue)
                           x == Occurrences(s, cancel_queue)
                           y == Occurrences(s, result_queue)
                           q == Occurrences(s, queue)
                           c == Unit(consHand = s)
                           g == Unit(InFlight(s))
                           b == Unit(s \in batch \cup trained)
                <4>1. Copies(s) = p + x + y + q + Unit(hand = s) + c + g + b /\ Copies(s) <= 1
                    BY <3>1, CopiesSum DEF Places, BooksInv
                <4>2. p \in Nat /\ x \in Nat /\ y \in Nat /\ q \in Nat
                    BY <1>0, OccursInQueues
                <4>3. c \in Nat /\ g \in Nat /\ b \in Nat /\ Unit(hand = s) = 1
                    BY DEF Unit
                <4>4. g = 0 => ~InFlight(s)
                    BY DEF Unit
                <4> HIDE DEF s, p, x, y, q, c, g, b
                <4>5. ~InFlight(s)
                    BY <4>1, <4>2, <4>3, <4>4
                <4> QED
                    BY <4>5 DEF s
            <3>3. gen[hand] \notin Running /\ gen[hand] # "failed"
                BY <3>2 DEF InFlight, Running
            <3>4. gen \in [Sample -> {"none", "created", "generating", "aborted", "done", "failed"}]
                BY <1>0 DEF TypeOK
            <3>5. /\ InState(Running, gen') + Unit(gen[hand] \in Running)
                        = InState(Running, gen) + Unit("created" \in Running)
                  /\ InState({"failed"}, gen') + Unit(gen[hand] \in {"failed"})
                        = InState({"failed"}, gen) + Unit("created" \in {"failed"})
                BY <2>3, <3>1, <3>4, InStateMove
            <3>6. /\ Unit(gen[hand] \in Running) = 0 /\ Unit("created" \in Running) = 1
                  /\ Unit(gen[hand] \in {"failed"}) = 0 /\ Unit("created" \in {"failed"}) = 0
                  /\ Unit(hand # None) = 1 /\ Unit(hand' # None) = 0
                BY <1>0, <2>3, <3>1, <3>3 DEF Unit, Running
            <3>7. InState(Running, gen') \in Nat /\ InState({"failed"}, gen') \in Nat
                BY InStateType
            <3>8. InState(Running, gen') = InState(Running, gen) + 1
                  /\ InState({"failed"}, gen') = InState({"failed"}, gen)
                BY <1>0, <3>5, <3>6, <3>7, FlowTypes
            <3>9. Carried' = Carried
                <4>1. Carried = 1 + Unit(consHand # None) + Len(cancel_queue) + Len(result_queue)
                               + InState(Running, gen)
                    BY <3>6 DEF Carried
                <4>2. Carried' = 0 + Unit(consHand # None) + Len(cancel_queue) + Len(result_queue)
                               + (InState(Running, gen) + 1)
                    BY <1>1, <2>1, <3>6, <3>8, FlowTerms DEF queues
                <4> DEFINE c == Unit(consHand # None)
                           x == Len(cancel_queue)
                           y == Len(result_queue)
                           r == InState(Running, gen)
                <4>3. c \in Nat /\ x \in Nat /\ y \in Nat /\ r \in Nat
                    BY <1>0, FlowTypes DEF Unit
                <4>4. Carried = 1 + c + x + y + r /\ Carried' = 0 + c + x + y + (r + 1)
                    BY <4>1, <4>2
                <4> HIDE DEF c, x, y, r
                <4> QED
                    BY <4>3, <4>4
            <3> QED
                BY <1>1, <2>1, <3>8, <3>9, FlowTerms DEF FlowInv, mqVars, counters, queues, Open
        <2> QED
            BY <1>5, <2>2, <2>3 DEF ProcCondition
    <1> QED
        BY <1>2, <1>3, <1>4, <1>5 DEF Processor

LEMMA FlowTasks ==
    ASSUME TypeInv, FlowInv, NEW t \in Sample, Task(t) \/ TaskFail(t), UNCHANGED trainerVars
    PROVE  /\ FlowInv' /\ TakenFromPending' = TakenFromPending
           /\ Gone' \in Nat /\ Gone' >= Gone
    <1>0. TypeOK
        BY DEF TypeInv
    <1>1. /\ UNCHANGED <<mqVars, pending_queue, fed, hand, consHand, mainPc>>
          /\ gen[t] \in Running
        BY DEF Task, TaskStart, ServerAbort, TaskFinish, TaskCancelled, TaskFail, taskFrame,
               procVars, consVars, Running
    <1>2. \/ /\ UNCHANGED <<cancel_queue, result_queue>>
             /\ \E g \in {"generating", "aborted", "failed"} : gen' = [gen EXCEPT ![t] = g]
          \/ /\ result_queue' = Append(result_queue, t) /\ cancel_queue' = cancel_queue
             /\ gen' = [gen EXCEPT ![t] = "done"]
          \/ /\ cancel_queue' = Append(cancel_queue, t) /\ result_queue' = result_queue
             /\ gen' = [gen EXCEPT ![t] = "done"]
        BY DEF Task, TaskStart, ServerAbort, TaskFinish, TaskCancelled, TaskFail
    <1> DEFINE x == Len(cancel_queue)
               y == Len(result_queue)
               x1 == Len(cancel_queue')
               y1 == Len(result_queue')
               r == InState(Running, gen)
               r1 == InState(Running, gen')
               f == InState({"failed"}, gen)
               f1 == InState({"failed"}, gen')
               u == Unit(hand # None) + Unit(consHand # None)
    <1>3. PICK v \in {"generating", "aborted", "done", "failed"} : gen' = [gen EXCEPT ![t] = v]
        BY <1>2
    <1>4. gen \in [Sample -> {"none", "created", "generating", "aborted", "done", "failed"}]
        BY <1>0 DEF TypeOK
    <1>5. /\ r1 + Unit(gen[t] \in Running) = r + Unit(v \in Running)
          /\ f1 + Unit(gen[t] \in {"failed"}) = f + Unit(v \in {"failed"})
        <2>1. v \in {"none", "created", "generating", "aborted", "done", "failed"}
            OBVIOUS
        <2>2. ASSUME NEW G
              PROVE  InState(G, gen') + Unit(gen[t] \in G) = InState(G, gen) + Unit(v \in G)
            BY <1>3, <1>4, <2>1, InStateMove
        <2> QED
            BY <2>2
    <1>6. Unit(gen[t] \in Running) = 1 /\ Unit(gen[t] \in {"failed"}) = 0
        BY <1>1 DEF Unit, Running
    <1>7. /\ x \in Nat /\ y \in Nat /\ r \in Nat /\ f \in Nat /\ u \in Nat
          /\ total_consumed \in Nat /\ dropped_samples \in Nat
        <2>1. x \in Nat /\ y \in Nat /\ r \in Nat /\ f \in Nat
            BY <1>0, FlowTypes
        <2>2. u \in Nat
            BY DEF Unit
        <2> QED
            BY <1>0, <2>1, <2>2 DEF TypeOK, MQTypeOK
    <1>8. r1 \in Nat /\ f1 \in Nat
        BY InStateType
    <1>9. x1 + y1 = x + y + Unit(v = "done") /\ x1 \in Nat /\ y1 \in Nat
        <2>1. cancel_queue \in Seq(Sample) /\ result_queue \in Seq(Sample)
            BY <1>0 DEF TypeOK
        <2>2. gen'[t] = v
            BY <1>3, <1>4
        <2>3. CASE UNCHANGED <<cancel_queue, result_queue>>
            <3>1. v # "done"
                <4>1. Append(cancel_queue, t) # cancel_queue /\ Append(result_queue, t) # result_queue
                    BY <2>1, AppendGrows
                <4> QED
                    BY <1>2, <1>4, <2>2, <2>3, <4>1
            <3> QED
                BY <1>7, <2>3, <3>1 DEF Unit
        <2>4. CASE result_queue' = Append(result_queue, t) /\ cancel_queue' = cancel_queue
                   /\ gen' = [gen EXCEPT ![t] = "done"]
            <3>1. v = "done" /\ y1 = y + 1 /\ x1 = x
                BY <1>4, <2>1, <2>2, <2>4
            <3> HIDE DEF x, y, x1, y1
            <3> QED
                BY <1>7, <3>1 DEF Unit
        <2>5. CASE cancel_queue' = Append(cancel_queue, t) /\ result_queue' = result_queue
                   /\ gen' = [gen EXCEPT ![t] = "done"]
            <3>1. v = "done" /\ x1 = x + 1 /\ y1 = y
                BY <1>4, <2>1, <2>2, <2>5
            <3> HIDE DEF x, y, x1, y1
            <3> QED
                BY <1>7, <3>1 DEF Unit
        <2> QED
            BY <1>2, <2>3, <2>4, <2>5
    <1>10. /\ Carried = u + x + y + r /\ Carried' = u + x1 + y1 + r1
           /\ Gone = total_consumed + dropped_samples + f
           /\ Gone' = total_consumed + dropped_samples + f1
           /\ TakenFromPending' = TakenFromPending
        BY <1>1, FlowTerms DEF Carried, mqVars, counters
    <1>11. /\ Unit(v \in Running) + Unit(v = "done") + Unit(v \in {"failed"}) = 1
           /\ Unit(v \in Running) \in Nat /\ Unit(v = "done") \in Nat /\ Unit(v \in {"failed"}) \in Nat
        BY DEF Unit, Running
    <1>12. /\ TakenFromPending \in Int /\ Len(queue) \in Nat /\ Len(queue)' = Len(queue)
           /\ Open' = Open
        BY <1>0, <1>1, FlowTypes DEF mqVars, Open
    <1> DEFINE a == Unit(v \in Running)
               b == Unit(v = "done")
               c == Unit(v \in {"failed"})
    <1>13. /\ r1 + 1 = r + a /\ f1 + 0 = f + c /\ x1 + y1 = x + y + b
           /\ a + b + c = 1 /\ a \in Nat /\ b \in Nat /\ c \in Nat
        BY <1>5, <1>6, <1>9, <1>11
    <1> HIDE DEF x, y, x1, y1, r, r1, f, f1, u, a, b, c
    <1>14. Gone' + Carried' = Gone + Carried /\ Gone' \in Nat /\ Gone' >= Gone
        BY <1>7, <1>8, <1>9, <1>10, <1>13
    <1>15. Gone \in Nat /\ Carried \in Nat /\ Carried' \in Int
        BY <1>7, <1>8, <1>9, <1>10
    <1>16. FlowInv'
        BY <1>10, <1>12, <1>14, <1>15 DEF FlowInv
    <1> QED
        BY <1>10, <1>14, <1>16

LEMMA PutFlow ==
    ASSUME MQTypeOK, NEW x \in Item, PutSample(x)
    PROVE  /\ Len(queue') + dropped_samples' = Len(queue) + dropped_samples + 1
           /\ (dropped_samples' = dropped_samples \/ dropped_samples' = dropped_samples + 1)
           /\ total_consumed' = total_consumed
           /\ Len(queue') \in Nat
    <1>1. queue # <<>> \/ ~Full
        BY MaxQueueSizeAssumption DEF Full
    <1>2. queue \in Seq(Item) /\ dropped_samples \in Nat
        BY DEF MQTypeOK
    <1>3. CASE Full
        <2>1. Len(queue') = Len(queue) /\ dropped_samples' = dropped_samples + 1
            BY <1>1, <1>2, <1>3 DEF PutSample
        <2> QED
            BY <1>2, <2>1 DEF PutSample
    <1>4. CASE ~Full
        <2>1. Len(queue') = Len(queue) + 1 /\ dropped_samples' = dropped_samples
            BY <1>2, <1>4 DEF PutSample
        <2> QED
            BY <1>2, <2>1 DEF PutSample
    <1> QED
        BY <1>3, <1>4

LEMMA FlowConsumer ==
    ASSUME TypeInv, FlowInv, Consumer, UNCHANGED trainerVars
    PROVE  /\ FlowInv' /\ TakenFromPending' = TakenFromPending
           /\ \/ Gone' = Gone /\ queue' = queue
              \/ /\ (Gone' = Gone \/ Gone' = Gone + 1) /\ Len(queue') \in Nat
                 /\ Gone' + Len(queue') = Gone + Len(queue) + 1
                 /\ ConsDeliver \/ OrphanDeliver
    <1>0. TypeOK /\ None \notin Sample
        BY RollouterAssumption DEF TypeInv
    <1>1. UNCHANGED <<pending_queue, fed, cancel_queue, gen, hand, mainPc>>
        BY DEF Consumer, ConsTake, ConsDeliver, ConsAck, OrphanDeliver, consFrame, taskVars, procVars
    <1>2. CASE ConsAck
        <2>1. UNCHANGED flowVars
            BY <1>1, <1>2 DEF ConsAck, flowVars, mqVars, counters, queues
        <2> QED
            BY <1>1, <1>2, <2>1, FlowFrame DEF ConsAck, mqVars, Open
    <1>3. CASE ConsTake
        <2>1. result_queue \in Seq(Sample)
            BY <1>0 DEF TypeOK
        <2>2. Len(result_queue') = Len(result_queue) - 1 /\ consHand' \in Sample
            BY <1>3, <2>1 DEF ConsTake
        <2>3. consHand = None
            BY <1>3 DEF ConsTake, TypeInv, HandInv
        <2>4. Unit(consHand # None) = 0 /\ Unit(consHand' # None) = 1
            BY <1>0, <2>2, <2>3 DEF Unit
        <2> DEFINE h == Unit(hand # None)
                   x == Len(cancel_queue)
                   y == Len(result_queue)
                   r == InState(Running, gen)
        <2>5. h \in Nat /\ x \in Nat /\ y \in Nat /\ r \in Nat
            BY <1>0, FlowTypes DEF Unit
        <2>6. Carried = h + 0 + x + y + r /\ Carried' = h + 1 + x + (y - 1) + r
            BY <1>1, <2>2, <2>4, FlowTerms DEF Carried
        <2>7. Carried' = Carried
            <3> HIDE DEF h, x, y, r
            <3> QED BY <2>5, <2>6
        <2> QED
            BY <1>1, <1>3, <2>7, FlowTerms DEF ConsTake, FlowInv, mqVars, counters, Open
    <1>4. CASE ConsDeliver \/ OrphanDeliver
        <2>1. /\ consHand \in Sample /\ PutSample(consHand) /\ consHand' = None /\ UNCHANGED result_queue
            BY <1>4 DEF ConsDeliver, OrphanDeliver, TypeInv, TypeOK, HandInv
        <2>2. consHand \in Item /\ MQTypeOK
            BY <1>0, <2>1, RollouterAssumption DEF TypeOK
        <2>3. /\ Len(queue') + dropped_samples' = Len(queue) + dropped_samples + 1
              /\ (dropped_samples' = dropped_samples \/ dropped_samples' = dropped_samples + 1)
              /\ total_consumed' = total_consumed /\ Len(queue') \in Nat
            BY <2>1, <2>2, PutFlow
        <2>4. Unit(consHand # None) = 1 /\ Unit(consHand' # None) = 0
            BY <1>0, <2>1 DEF Unit
        <2> DEFINE h == Unit(hand # None)
                   x == Len(cancel_queue)
                   y == Len(result_queue)
                   r == InState(Running, gen)
                   f == InState({"failed"}, gen)
        <2>5. /\ h \in Nat /\ x \in Nat /\ y \in Nat /\ r \in Nat /\ f \in Nat
              /\ total_consumed \in Nat /\ dropped_samples \in Nat /\ Len(queue) \in Nat
            BY <1>0, FlowTypes DEF Unit, TypeOK, MQTypeOK
        <2>6. /\ Carried = h + 1 + x + y + r /\ Carried' = h + 0 + x + y + r
              /\ Gone = total_consumed + dropped_samples + f
              /\ Gone' = total_consumed + dropped_samples' + f
              /\ TakenFromPending' = TakenFromPending
            BY <1>1, <2>1, <2>3, <2>4, FlowTerms DEF Carried
        <2>7. Carried' = Carried - 1 /\ (Gone' = Gone \/ Gone' = Gone + 1) /\ Gone' + Len(queue') = Gone + Len(queue) + 1
            <3> HIDE DEF h, x, y, r, f
            <3>1. Carried' = Carried - 1
                BY <2>5, <2>6
            <3>2. CASE dropped_samples' = dropped_samples
                BY <2>3, <2>5, <2>6, <3>1, <3>2
            <3>3. CASE dropped_samples' = dropped_samples + 1
                BY <2>3, <2>5, <2>6, <3>1, <3>3
            <3> QED BY <2>3, <3>2, <3>3
        <2>8. TakenFromPending \in Int /\ Gone \in Nat /\ Carried \in Nat
            BY <1>0, FlowTypes
        <2>9. FlowInv'
            <3>1. Open' = Open /\ Len(queue)' = Len(queue') /\ Len(queue) \in Nat /\ Len(queue') \in Nat
                BY <1>1, <2>3, <2>5 DEF Open
            <3>2. TakenFromPending = Gone + Carried + Len(queue)
                    => TakenFromPending' = Gone' + Carried' + Len(queue')
                <4>1. TakenFromPending' = TakenFromPending
                    BY <2>6
                <4>2. Gone' \in Int
                    BY <2>7, <2>8
                <4> DEFINE g == Gone
                           g1 == Gone'
                           k == Carried
                           k1 == Carried'
                           n == TakenFromPending
                           q == Len(queue)
                           q1 == Len(queue')
                <4>3. /\ k1 = k - 1 /\ g1 + q1 = g + q + 1 /\ g1 \in Int /\ g \in Int /\ k \in Int
                      /\ q \in Int /\ q1 \in Int /\ n \in Int
                    BY <2>7, <2>8, <3>1, <4>2
                <4> HIDE DEF g, g1, k, k1, n, q, q1
                <4>4. n = g + k + q => n = g1 + k1 + q1
                    BY <4>3
                <4> QED
                    BY <4>1, <4>4 DEF g, g1, k, k1, n, q, q1
            <3> QED
                BY <3>1, <3>2 DEF FlowInv
        <2> QED
            BY <1>4, <2>3, <2>6, <2>7, <2>9
    <1> QED
        BY <1>2, <1>3, <1>4 DEF Consumer

LEMMA FlowCollect ==
    ASSUME TypeInv, FlowInv, Collect
    PROVE  /\ FlowInv' /\ TakenFromPending' = TakenFromPending
           /\ Gone' = Gone + 1 /\ Len(queue') = Len(queue) - 1 /\ Len(queue') \in Nat
    <1>0. TypeOK
        BY DEF TypeInv
    <1>1. /\ queue \in Seq(Item) /\ queue # <<>> /\ queue' = Tail(queue)
          /\ total_consumed' = total_consumed + 1
          /\ UNCHANGED <<pending_queue, fed, cancel_queue, result_queue, gen, hand, consHand, mainPc,
                         dropped_samples>>
        BY <1>0 DEF Collect, GetSample, rollVars, queues, taskVars, procVars, consVars, TypeOK, MQTypeOK
    <1>2. Len(queue') = Len(queue) - 1 /\ Len(queue') \in Nat
        BY <1>1
    <1> DEFINE f == InState({"failed"}, gen)
    <1>3. /\ f \in Nat /\ total_consumed \in Nat /\ dropped_samples \in Nat
        BY <1>0, FlowTypes DEF TypeOK, MQTypeOK
    <1>4. /\ Gone = total_consumed + dropped_samples + f
          /\ Gone' = total_consumed + 1 + dropped_samples + f
          /\ TakenFromPending' = TakenFromPending /\ Carried' = Carried
        BY <1>1, FlowTerms
    <1>5. Gone' = Gone + 1
        <2> HIDE DEF f
        <2> QED BY <1>3, <1>4
    <1>6. TakenFromPending \in Int /\ Gone \in Nat /\ Carried \in Nat /\ Len(queue) \in Nat
        BY <1>0, FlowTypes
    <1>7. FlowInv'
        BY <1>1, <1>2, <1>4, <1>5, <1>6 DEF FlowInv, Open
    <1> QED
        BY <1>2, <1>4, <1>5, <1>7

LEMMA FlowMain ==
    ASSUME TypeInv, FlowInv, Main, UNCHANGED trainerVars
    PROVE  /\ FlowInv' /\ TakenFromPending' = TakenFromPending
           /\ (Gone' = Gone \/ Gone' = Gone + 1)
    <1>0. TypeOK
        BY DEF TypeInv
    <1>1. UNCHANGED <<fed, queues, gen, hand, consHand, total_consumed>>
        BY DEF Main, MainStep, MainSignal, PutSample, MainStop, mainFrame, mqVars, counters, taskVars,
               procVars, consVars
    <1>2. TakenFromPending' = TakenFromPending
        BY <1>1, FlowTerms DEF queues
    <1>3. CASE MainStep \/ MainStop
        <2>1. UNCHANGED flowVars /\ (Open' => Open)
            BY <1>1, <1>3 DEF MainStep, MainStop, flowVars, mqVars, counters, Open
        <2> QED
            BY <2>1, FlowFrame
    <1>4. CASE MainSignal
        <2>1. /\ ~Open' /\ PutSample(Sentinel) /\ Sentinel \in Item /\ MQTypeOK
            BY <1>0, <1>4, RollouterAssumption DEF MainSignal, Open, TypeOK
        <2>2. (dropped_samples' = dropped_samples \/ dropped_samples' = dropped_samples + 1)
            BY <2>1, PutFlow
        <2> DEFINE f == InState({"failed"}, gen)
        <2>3. /\ f \in Nat /\ total_consumed \in Nat /\ dropped_samples \in Nat
            BY <1>0, FlowTypes DEF TypeOK, MQTypeOK
        <2>4. /\ Gone = total_consumed + dropped_samples + f
              /\ Gone' = total_consumed + dropped_samples' + f
            BY <1>1, FlowTerms
        <2>5. (Gone' = Gone \/ Gone' = Gone + 1)
            <3> HIDE DEF f
            <3> QED BY <2>2, <2>3, <2>4
        <2> QED
            BY <1>2, <2>1, <2>5 DEF FlowInv
    <1> QED
        BY <1>3, <1>4 DEF Main

LEMMA FlowRest ==
    ASSUME FlowInv,
           \/ (Monitor \/ Handler) /\ UNCHANGED trainerVars
           \/ (Trainer \/ StartResume \/ UpdateResetsStaleness) /\ ~Collect
           \/ UNCHANGED vars
    PROVE  /\ FlowInv' /\ TakenFromPending' = TakenFromPending /\ Gone' = Gone /\ Carried' = Carried
           /\ UNCHANGED <<queue, hand, mainPc>>
    <1>1. CASE Monitor \/ Handler
        <2>1. Monitor => UNCHANGED <<flowVars, mainPc>>
            BY DEF Monitor, MonTick, MonResume, MonCheckRunning, monFrame, flowVars, queues, mqVars,
               counters, taskVars, consVars
        <2>2. Pause \/ Resume => UNCHANGED <<flowVars, mainPc>>
            BY DEF Pause, PauseEnter, PauseCancel, PauseGather, PauseFinish, pauseFrame, Resume,
               ResumeEnter, ResumeServers, ResumeFinish, resumeFrame, rpcFrame, flowVars, queues,
               mqVars, counters, consVars
        <2>3. Update => UNCHANGED <<flowVars, mainPc>>
            BY DEF Update, UpdateEnter, UpdateAssign, UpdateFinish, updateFrame, rpcFrame, flowVars,
               queues, mqVars, counters, consVars
        <2>4. (\E p \in {"pause", "update", "resume", "main"} : JoinLockQueue(p))
                 => UNCHANGED <<flowVars, mainPc>>
            BY DEF JoinLockQueue, rpcFrame, flowVars, queues, mqVars, counters, consVars
        <2>5. UNCHANGED <<flowVars, mainPc>>
            BY <1>1, <2>1, <2>2, <2>3, <2>4 DEF Handler
        <2> QED
            BY <2>5, FlowFrame DEF Open, flowVars
    <1>2. CASE (Trainer \/ StartResume \/ UpdateResetsStaleness) /\ ~Collect
        <2>1. UNCHANGED <<flowVars, mainPc>>
            BY <1>2 DEF Trainer, SleepOnQueue, WaitSample, Train, FinalSync, CallPause,
               LabelQueue, SetQueueVersion, TransferWeights, LaunchUpdate, TrainerDone, StartResume,
               UpdateResetsStaleness, UpdateReadSize, sizeFrame, handlersFrame, rollVars, taskVars,
               procVars, consVars, flowVars, mqVars, counters
        <2> QED
            BY <2>1, FlowFrame DEF Open, flowVars
    <1>3. CASE UNCHANGED vars
        <2>1. UNCHANGED <<flowVars, mainPc>>
            BY <1>3 DEF vars, mqVars, counters, rollVars, taskVars, procVars, consVars, flowVars
        <2> QED
            BY <2>1, FlowFrame DEF Open, flowVars
    <1> QED
        BY <1>1, <1>2, <1>3

LEMMA FlowStep == TypeInv /\ BooksInv /\ FlowInv /\ [Next]_vars => FlowInv' /\ Gone' \in Nat /\ Gone' >= Gone
    <1> SUFFICES ASSUME TypeInv, BooksInv, FlowInv, [Next]_vars
                 PROVE  FlowInv' /\ Gone' \in Nat /\ Gone' >= Gone
        OBVIOUS
    <1>0. Gone \in Nat
        BY CountsAreNat DEF TypeInv
    <1>1. CASE RollouterStep /\ UNCHANGED trainerVars
        <2>1. CASE Feed \/ Processor
            BY <1>0, <1>1, <2>1, FlowFeed, FlowProcessor
        <2>2. CASE Consumer
            BY <1>0, <1>1, <2>2, FlowConsumer
        <2>3. CASE Main
            BY <1>0, <1>1, <2>3, FlowMain
        <2>4. CASE \E t \in Sample : Task(t) \/ TaskFail(t)
            BY <1>0, <1>1, <2>4, FlowTasks
        <2>5. CASE Monitor \/ Handler
            BY <1>0, <1>1, <2>5, FlowRest
        <2> QED
            BY <1>1, <2>1, <2>2, <2>3, <2>4, <2>5 DEF RollouterStep, Handler
    <1>2. CASE Trainer \/ StartResume \/ UpdateResetsStaleness
        BY <1>0, <1>2, FlowCollect, FlowRest
    <1>3. CASE UNCHANGED vars
        BY <1>0, <1>3, FlowRest
    <1> QED
        BY <1>1, <1>2, <1>3 DEF Next, Finished

LEMMA FlowInit == Init => FlowInv
    <1> SUFFICES ASSUME Init PROVE FlowInv
        OBVIOUS
    <1>1. /\ Cardinality({i \in DOMAIN pending_queue : pending_queue[i] # Done}) = 0
        <2>1. {i \in DOMAIN pending_queue : pending_queue[i] # Done} = {}
            BY DEF Init, RollInit
        <2> QED
            BY <2>1, FS_EmptySet
    <1>2. InState({"failed"}, gen) = 0 /\ InState(Running, gen) = 0
        <2>1. {s \in Sample : gen[s] \in {"failed"}} = {} /\ {s \in Sample : gen[s] \in Running} = {}
            BY DEF Init, RollInit, Running
        <2> QED
            BY <2>1, FS_EmptySet DEF InState
    <1>3. Gone = 0 /\ Carried = 0 /\ Len(queue) = 0 /\ TakenFromPending = 0
        BY <1>1, <1>2, FlowTerms DEF Init, RollInit, MQInit, Carried, TakenFromPending, Unit
    <1> QED
        BY <1>3 DEF FlowInv

-----------------------------------------------------------------------------
(* The throttle: staleness_samples is assigned from terms read at different *)
(* times, and yet bounds what is outstanding.                               *)

(* What the reset may miss beyond the processor's hand.                     *)
Slip == Uncounted - 1

(* StalenessBudget is not inductive: between the two reads of               *)
(* update_param_version and the assignment, the samples in the processor's  *)
(* and the consumer's hands slip through; updSum bounds the rest at every   *)
(* point.                                                                   *)
ThrottleInv ==
    /\ departed <= Gone
    /\ Outstanding <= MaxRequired + Uncounted
    /\ consPc = "behind" => updPc = "size"
    /\ ~Dead =>
         /\ Outstanding <= staleness_samples + Uncounted
         /\ procPc = "get" => Outstanding <= MaxRequired + Slip
         /\ updPc = "size" =>
              TakenFromPending - Gone <= updSum + Len(queue) + Unit(hand # None)
                                           + Unit(consPc = "sent")
         /\ updPc = "assign" => Outstanding <= updSum + Unit(hand # None) + Slip

(* The integers ThrottleInv is about.                                       *)
LEMMA ThrottleTypes ==
    ASSUME TypeOK
    PROVE  /\ TakenFromPending \in Int /\ Gone \in Int /\ departed \in Int
           /\ staleness_samples \in Int /\ updSum \in Int /\ Len(queue) \in Int
           /\ MaxRequired \in Int /\ Uncounted \in {1, 2} /\ Slip = Uncounted - 1
           /\ Unit(hand # None) \in {0, 1} /\ Unit(consPc = "sent") \in {0, 1}
           /\ Outstanding = TakenFromPending - departed
    BY FlowTypes, RollouterAssumption DEF TypeOK, Uncounted, Slip, Unit, Outstanding

(* The same terms in the next state.                                        *)
LEMMA ThrottleNext ==
    /\ Outstanding' = TakenFromPending' - departed'
    /\ Uncounted' = Uncounted /\ Slip' = Slip
    /\ Unit(hand # None)' = Unit(hand' # None)
    /\ Unit(consPc = "sent")' = Unit(consPc' = "sent")
    BY DEF Outstanding, Uncounted, Slip, Unit

(* A step that takes nothing, resets nothing and keeps the sample in hand.  *)
LEMMA ThrottleQuiet ==
    ASSUME TypeOK, TypeOK', ThrottleInv,
           TakenFromPending' = TakenFromPending, Gone' >= Gone,
           UNCHANGED <<departed, staleness_samples, updSum, updPc>>,
           Dead => Dead',
           procPc' = "get" => procPc = "get",
           consPc' = "behind" => consPc = "behind" \/ updPc = "size",
           ~Dead' => /\ hand' = hand
                     /\ Gone' + Len(queue') + Unit(consPc' = "sent")
                          >= Gone + Len(queue) + Unit(consPc = "sent")
    PROVE  ThrottleInv'
    <1> DEFINE n == TakenFromPending
               g == Gone
               g1 == Gone'
               q == Len(queue)
               q1 == Len(queue')
               h == Unit(hand # None)
               c == Unit(consPc = "sent")
               c1 == Unit(consPc' = "sent")
               o == Outstanding
    <1>1. /\ n \in Int /\ g \in Int /\ departed \in Int /\ staleness_samples \in Int
          /\ updSum \in Int /\ q \in Int /\ MaxRequired \in Int /\ h \in {0, 1} /\ c \in {0, 1}
          /\ o = n - departed
        BY ThrottleTypes
    <1>2. q1 \in Nat /\ g1 \in Nat
        <2>1. queue' \in Seq(Item)
            BY DEF TypeOK, MQTypeOK
        <2>2. /\ Cardinality(Failed') \in Nat /\ total_consumed' \in Nat /\ dropped_samples' \in Nat
            <3>1. Failed' \in SUBSET Sample /\ IsFiniteSet(Sample)
                BY FS_Interval, RollouterAssumption DEF Failed, Sample
            <3> QED
                BY <3>1, FS_Subset, FS_CardinalityType DEF TypeOK, MQTypeOK
        <2> QED
            BY <2>1, <2>2 DEF Gone
    <1>3. c1 \in {0, 1} /\ Uncounted \in {1, 2} /\ Slip = Uncounted - 1
        BY ThrottleTypes DEF Unit
    <1>4. /\ Outstanding' = o /\ Uncounted' = Uncounted /\ Slip' = Slip
          /\ Unit(hand # None)' = Unit(hand' # None) /\ Unit(consPc = "sent")' = c1
        BY <1>1, ThrottleNext
    <1>5. ~Dead' => hand' = hand /\ g1 + q1 + c1 >= g + q + c
        OBVIOUS
    <1>6. (departed <= Gone)' /\ (Outstanding <= MaxRequired + Uncounted)'
        <2>1. departed <= g /\ g1 >= g
            BY DEF ThrottleInv
        <2>2. departed <= g1
            <3> HIDE DEF g, g1
            <3> QED BY <1>1, <1>2, <2>1
        <2> QED
            BY <1>4, <2>2 DEF ThrottleInv
    <1>7. (consPc = "behind" => updPc = "size")'
        BY DEF ThrottleInv
    <1>8. ASSUME ~Dead', updPc = "size" PROVE n - g1 <= updSum + q1 + h + c1
        <2>1. ~Dead /\ n - g <= updSum + q + h + c
            BY <1>8 DEF ThrottleInv
        <2> HIDE DEF n, g, g1, q, q1, h, c, c1, o
        <2> QED
            BY <1>1, <1>2, <1>3, <1>5, <1>8, <2>1
    <1> QED
        BY <1>4, <1>5, <1>6, <1>7, <1>8 DEF ThrottleInv

(* A step that takes a sample from pending_queue: the gate it passed says   *)
(* that staleness was below the limit.                                      *)
LEMMA ThrottleTake ==
    ASSUME TypeOK, TypeOK', ThrottleInv, TakePending,
           TakenFromPending' - TakenFromPending = Unit(hand' # None), hand = None,
           Gone' = Gone, ~Dead,
           Outstanding <= MaxRequired + Slip,
           UNCHANGED <<queue, consPc, departed, updSum, updPc>>
    PROVE  ThrottleInv'
    <1> DEFINE n == TakenFromPending
               n1 == TakenFromPending'
               h1 == Unit(hand' # None)
               c == Unit(consPc = "sent")
               q == Len(queue)
    <1>1. /\ n \in Int /\ Gone \in Int /\ departed \in Int /\ staleness_samples \in Int
          /\ updSum \in Int /\ q \in Int /\ MaxRequired \in Int /\ c \in {0, 1}
          /\ Outstanding = n - departed /\ Uncounted \in {1, 2} /\ Slip = Uncounted - 1
        BY ThrottleTypes
    <1>2. /\ Outstanding' = n1 - departed /\ Uncounted' = Uncounted /\ Slip' = Slip
          /\ Unit(hand # None)' = h1 /\ Unit(consPc = "sent")' = c
        BY ThrottleNext DEF Unit
    <1>3. n1 \in Int
        <2>1. pending_queue' \in Seq(Sample \cup {Done}) /\ fed' \in 0..TotalRolloutSteps
            BY DEF TypeOK
        <2> QED
            BY <2>1, TakenNext, RollouterAssumption
    <1>4. h1 \in {0, 1} /\ Unit(hand # None) = 0
        BY DEF Unit
    <1>5. n1 = n + h1
        <2>1. n1 - n = h1
            OBVIOUS
        <2> HIDE DEF n, n1, h1
        <2> QED
            BY <1>1, <1>3, <1>4, <2>1
    <1>6. staleness_samples' = staleness_samples + 1 /\ procPc' \in {"drain", "limit"}
        BY DEF TakePending
    <1>7. /\ departed <= Gone /\ consPc = "behind" => updPc = "size"
          /\ n - departed <= staleness_samples + Uncounted /\ n - departed <= MaxRequired + Slip
          /\ updPc = "size" => n - Gone <= updSum + q + 0 + c
          /\ updPc = "assign" => n - departed <= updSum + 0 + Slip
        BY <1>1, <1>4 DEF ThrottleInv
    <1>8. /\ n1 - departed <= MaxRequired + Uncounted
          /\ n1 - departed <= staleness_samples' + Uncounted
          /\ updPc = "size" => n1 - Gone <= updSum + q + h1 + c
          /\ updPc = "assign" => n1 - departed <= updSum + h1 + Slip
        <2> HIDE DEF n, n1, h1, c, q
        <2> QED
            BY <1>1, <1>3, <1>4, <1>5, <1>6, <1>7
    <1>9. Len(queue)' = q
        OBVIOUS
    <1>10. departed <= Gone'
        <2>1. departed <= Gone
            BY DEF ThrottleInv
        <2>2. Gone' = Gone
            OBVIOUS
        <2> QED
            BY <2>1, <2>2
    <1> QED
        BY <1>2, <1>6, <1>7, <1>8, <1>9, <1>10 DEF ThrottleInv

LEMMA ThrottleProcessor ==
    ASSUME TypeInv, TypeInv', EndInv, BooksInv, FlowInv, ThrottleInv, Processor, UNCHANGED trainerVars
    PROVE  ThrottleInv'
    <1>0. TypeOK /\ TypeOK' /\ None \notin Sample
        BY RollouterAssumption DEF TypeInv
    <1>1. UNCHANGED <<mqVars, fed, result_queue, consHand, consPc, mainPc, departed, updSum, updPc>>
        BY DEF Processor, ProcTop, ProcGet, ProcMark, ProcLoopTest, ProcCollect, ProcAwait,
               ProcCondition, ProcWake, procFrame, consVars, rpcVars, queues, trainerVars
    <1>2. Gone' = Gone /\ Gone \in Int
        BY <1>0, FlowProcessor, ThrottleTypes
    <1>3. /\ Outstanding \in Int /\ MaxRequired \in Int /\ staleness_samples \in Int
          /\ Uncounted \in {1, 2} /\ Slip = Uncounted - 1 /\ Outstanding = TakenFromPending - departed
        BY <1>0, ThrottleTypes
    <1>4. ASSUME procPc = "top", ~(paused \/ ShouldPause) PROVE ~Dead /\ Outstanding <= MaxRequired + Slip
        <2>1. staleness_samples < MaxRequired
            BY <1>0, <1>3, <1>4 DEF ShouldPause
        <2>2. ~Dead
            BY <1>4 DEF Dead
        <2>3. Outstanding <= staleness_samples + Uncounted
            BY <2>2 DEF ThrottleInv
        <2> QED
            BY <1>3, <2>1, <2>2, <2>3
    <1>5. CASE ProcTop /\ (paused \/ ShouldPause)
        <2>1. /\ UNCHANGED <<queues, hand, staleness_samples, gen>> /\ procPc' = "mark" /\ procPc = "top"
            BY <1>5 DEF ProcTop
        <2>2. TakenFromPending' = TakenFromPending
            BY <1>1, <2>1, FlowTerms DEF queues
        <2>3. Len(queue') = Len(queue)
            BY <1>1 DEF mqVars
        <2> QED
            BY <1>0, <1>1, <1>2, <2>1, <2>2, <2>3, ThrottleQuiet, ThrottleTypes DEF Dead
    <1>6. CASE ProcTop /\ ~(paused \/ ShouldPause) /\ cancel_queue = <<>> /\ pending_queue # <<>>
        <2>1. TakePending /\ UNCHANGED <<cancel_queue, gen>> /\ procPc = "top" /\ hand = None
            BY <1>6 DEF ProcTop, TakePending, TypeInv, HandInv, Holding
        <2>2. TakenFromPending' - TakenFromPending = Unit(hand' # None)
            BY <1>1, <1>6, <2>1, FlowTake
        <2> QED
            BY <1>0, <1>1, <1>2, <1>4, <1>6, <2>1, <2>2, ThrottleTake DEF mqVars
    <1>7. CASE ProcGet
        <2>1. /\ TakePending /\ UNCHANGED <<cancel_queue, gen>> /\ procPc = "get" /\ hand = None
              /\ pending_queue # <<>>
            BY <1>7 DEF ProcGet, TakePending, TypeInv, HandInv, Holding
        <2>2. TakenFromPending' - TakenFromPending = Unit(hand' # None)
            BY <1>1, <2>1, FlowTake
        <2>3. ~Dead
            BY <2>1 DEF Dead
        <2>4. Outstanding <= MaxRequired + Slip
            BY <2>1, <2>3 DEF ThrottleInv
        <2> QED
            BY <1>0, <1>1, <1>2, <2>1, <2>2, <2>3, <2>4, ThrottleTake DEF mqVars
    <1>8. CASE ProcTop /\ ~(paused \/ ShouldPause) /\ (cancel_queue # <<>> \/ pending_queue = <<>>)
        <2>1. /\ procPc = "top" /\ hand = None /\ procPc' \in {"limit", "get"}
              /\ UNCHANGED <<pending_queue, staleness_samples, gen>>
            BY <1>8 DEF ProcTop, TypeInv, HandInv, Holding
        <2>2. TakenFromPending' = TakenFromPending
            BY <1>1, <2>1, FlowTerms
        <2> DEFINE n == TakenFromPending
                   h == Unit(hand # None)
                   h1 == Unit(hand' # None)
                   c == Unit(consPc = "sent")
                   q == Len(queue)
        <2>3. /\ h = 0 /\ h1 \in {0, 1} /\ c \in {0, 1} /\ n \in Int /\ q \in Int
              /\ updSum \in Int /\ departed \in Int
            BY <1>0, <2>1, ThrottleTypes DEF Unit
        <2>4. /\ Outstanding' = Outstanding /\ Uncounted' = Uncounted /\ Slip' = Slip
              /\ Unit(hand # None)' = h1 /\ Unit(consPc = "sent")' = c /\ Len(queue)' = q
            BY <1>1, <1>3, <2>2, ThrottleNext DEF mqVars
        <2>5. ~Dead /\ Outstanding <= MaxRequired + Slip
            BY <1>4, <1>8, <2>1
        <2>6. /\ updPc = "size" => n - Gone <= updSum + q + 0 + c
              /\ updPc = "assign" => Outstanding <= updSum + 0 + Slip
            BY <2>3, <2>5 DEF ThrottleInv
        <2>7. /\ updPc = "size" => n - Gone <= updSum + q + h1 + c
              /\ updPc = "assign" => Outstanding <= updSum + h1 + Slip
            <3> HIDE DEF n, h, h1, c, q
            <3> QED BY <1>2, <1>3, <2>3, <2>6
        <2> QED
            BY <1>1, <1>2, <2>1, <2>2, <2>4, <2>5, <2>7 DEF ThrottleInv
    <1>9. CASE ProcMark \/ ProcLoopTest \/ ProcCollect \/ ProcAwait \/ ProcWake
        <2>1. /\ UNCHANGED <<pending_queue, staleness_samples, hand>> /\ procPc' # "get" /\ ~Dead
            BY <1>9 DEF ProcMark, ProcLoopTest, ProcCollect, ProcAwait, ProcWake, queues, Dead,
               TypeInv, HandInv
        <2>2. TakenFromPending' = TakenFromPending /\ Len(queue') = Len(queue)
            BY <1>1, <2>1, FlowTerms DEF mqVars
        <2> QED
            BY <1>0, <1>1, <1>2, <2>1, <2>2, ThrottleQuiet, ThrottleTypes
    <1>10. CASE ProcCondition
        <2>1. /\ UNCHANGED <<pending_queue, staleness_samples>> /\ procPc' \in {"wait", "top"} /\ ~Dead
              /\ Holds("proc")
            BY <1>10 DEF ProcCondition, queues, Dead
        <2>2. TakenFromPending' = TakenFromPending /\ Len(queue') = Len(queue)
            BY <1>1, <2>1, FlowTerms DEF mqVars
        <2>3. updPc \notin {"size", "assign"}
            BY <2>1 DEF TypeInv, LockInv, Holds
        <2>4. /\ Outstanding' = Outstanding /\ Uncounted' = Uncounted /\ Slip' = Slip
            BY <1>1, <1>3, <2>2, ThrottleNext
        <2> QED
            BY <1>1, <1>2, <2>1, <2>3, <2>4 DEF ThrottleInv
    <1> QED
        BY <1>5, <1>6, <1>7, <1>8, <1>9, <1>10 DEF Processor

LEMMA ThrottleCoroutines ==
    ASSUME TypeInv, TypeInv', EndInv, FlowInv, ThrottleInv, UNCHANGED trainerVars,
           Feed \/ (\E t \in Sample : Task(t) \/ TaskFail(t))
    PROVE  ThrottleInv'
    <1>0. TypeOK /\ TypeOK'
        BY DEF TypeInv
    <1>1. UNCHANGED <<queue, hand, procPc, consPc, departed, staleness_samples, updSum, updPc>>
        BY DEF Feed, Task, TaskStart, ServerAbort, TaskFinish, TaskCancelled, TaskFail, taskFrame,
               mqVars, procVars, consVars, rpcVars, trainerVars
    <1>2. TakenFromPending' = TakenFromPending /\ Gone' \in Int /\ Gone' >= Gone
        BY <1>0, FlowFeed, FlowTasks, ThrottleTypes
    <1> DEFINE g == Gone
               g1 == Gone'
               q == Len(queue)
               c == Unit(consPc = "sent")
    <1>3. g \in Int /\ q \in Int /\ c \in Int
        BY <1>0, ThrottleTypes
    <1>4. g1 + q + c >= g + q + c
        <2> HIDE DEF g, g1, q, c
        <2>1. g1 >= g /\ g1 \in Int
            BY <1>2 DEF g, g1
        <2> QED BY <1>3, <2>1
    <1> QED
        BY <1>0, <1>1, <1>2, <1>4, ThrottleQuiet DEF Dead

(* A delivery moves one sample from the consumer's hand into the queue or,  *)
(* past its capacity, out of it.                                            *)
LEMMA ConsumerDelivers ==
    ASSUME TypeInv, FlowInv, ConsDeliver \/ OrphanDeliver, UNCHANGED trainerVars
    PROVE  Gone' + Len(queue') = Gone + Len(queue) + 1 /\ Len(queue') \in Nat
    <1>0. TypeOK
        BY DEF TypeInv
    <1>1. consHand \in Sample /\ PutSample(consHand) /\ UNCHANGED <<gen>>
        BY DEF ConsDeliver, OrphanDeliver, TypeInv, TypeOK, HandInv, consFrame, taskVars
    <1>2. consHand \in Item /\ MQTypeOK
        BY <1>0, <1>1, RollouterAssumption DEF TypeOK
    <1>3. /\ Len(queue') + dropped_samples' = Len(queue) + dropped_samples + 1
          /\ (dropped_samples' = dropped_samples \/ dropped_samples' = dropped_samples + 1)
          /\ total_consumed' = total_consumed /\ Len(queue') \in Nat
        BY <1>1, <1>2, PutFlow
    <1> DEFINE f == Cardinality(Failed)
               g == Gone
               g1 == Gone'
    <1>4. /\ g = total_consumed + dropped_samples + f
          /\ g1 = total_consumed + dropped_samples' + f
        BY <1>1, <1>3 DEF Gone, Failed
    <1>5. f \in Int /\ total_consumed \in Int /\ dropped_samples \in Int /\ Len(queue) \in Int
        <2>1. Failed \in SUBSET Sample
            BY DEF Failed
        <2>2. f \in Int
            BY <1>0, <2>1, CountsAreNat
        <2> QED
            BY <1>0, <2>2 DEF TypeOK, MQTypeOK
    <1> HIDE DEF f, g, g1
    <1>6. g1 + Len(queue') = g + Len(queue) + 1
        BY <1>3, <1>4, <1>5
    <1> QED
        BY <1>3, <1>6 DEF g, g1

LEMMA ThrottleConsumer ==
    ASSUME TypeInv, TypeInv', EndInv, FlowInv, ThrottleInv, Consumer, UNCHANGED trainerVars
    PROVE  ThrottleInv'
    <1>0. TypeOK /\ TypeOK'
        BY DEF TypeInv
    <1>1. UNCHANGED <<hand, procPc, departed, staleness_samples, updSum, updPc>>
        BY DEF Consumer, ConsTake, ConsDeliver, ConsAck, OrphanDeliver, consFrame, procVars, rpcVars,
               trainerVars
    <1>2. /\ TakenFromPending' = TakenFromPending
          /\ \/ Gone' = Gone /\ queue' = queue
             \/ /\ (Gone' = Gone \/ Gone' = Gone + 1) /\ Len(queue') \in Nat
                /\ Gone' + Len(queue') = Gone + Len(queue) + 1
                /\ ConsDeliver \/ OrphanDeliver
        BY FlowConsumer
    <1> DEFINE g == Gone
               g1 == Gone'
               q == Len(queue)
               q1 == Len(queue')
               c == Unit(consPc = "sent")
               c1 == Unit(consPc' = "sent")
    <1>3. g \in Int /\ q \in Int /\ c \in {0, 1} /\ c1 \in {0, 1}
        BY <1>0, ThrottleTypes DEF Unit
    <1>4. g1 >= g /\ g1 \in Int
        BY <1>2, <1>3
    <1>5. consPc' = "behind" => consPc = "behind" \/ updPc = "size"
        BY DEF Consumer, ConsTake, ConsDeliver, ConsAck, OrphanDeliver
    <1>6. g1 + q1 + c1 >= g + q + c
        <2>1. CASE Gone' = Gone /\ queue' = queue
            <3>1. CASE ConsTake \/ ConsAck
                <4>1. c = 0 /\ g1 = g /\ q1 = q
                    BY <2>1, <3>1 DEF ConsTake, ConsAck, Unit
                <4> HIDE DEF g, g1, q, q1, c, c1
                <4> QED
                    BY <1>3, <4>1
            <3>2. CASE ConsDeliver \/ OrphanDeliver
                <4>1. g1 + q1 = g + q + 1 /\ q1 \in Nat
                    BY <3>2, ConsumerDelivers
                <4> HIDE DEF g, g1, q, q1, c, c1
                <4> QED
                    BY <1>3, <1>4, <4>1
            <3> QED
                BY <3>1, <3>2 DEF Consumer
        <2>2. CASE g1 + q1 = g + q + 1 /\ q1 \in Nat
            <3> HIDE DEF g, g1, q, q1, c, c1
            <3> QED BY <1>3, <1>4, <2>2
        <2> QED
            BY <1>2, <2>1, <2>2
    <1> HIDE DEF g, g1, q, q1, c, c1
    <1>7. Gone' >= Gone /\ Gone' + Len(queue') + Unit(consPc' = "sent")
                            >= Gone + Len(queue) + Unit(consPc = "sent")
        BY <1>4, <1>6 DEF g, g1, q, q1, c, c1
    <1> QED
        BY <1>0, <1>1, <1>2, <1>5, <1>7, ThrottleQuiet DEF Dead

LEMMA ThrottleMain ==
    ASSUME TypeInv, TypeInv', EndInv, FlowInv, ThrottleInv, Main, UNCHANGED trainerVars
    PROVE  ThrottleInv'
    <1>0. TypeOK /\ TypeOK'
        BY DEF TypeInv
    <1>1. UNCHANGED <<hand, procPc, departed, staleness_samples, updSum, updPc>>
        BY DEF Main, MainStep, MainSignal, MainStop, mainFrame, procVars, rpcVars, trainerVars
    <1>2. TakenFromPending' = TakenFromPending /\ (Gone' = Gone \/ Gone' = Gone + 1)
        BY FlowMain
    <1>3. Gone \in Int /\ Len(queue) \in Int /\ Unit(consPc = "sent") \in Int
        BY <1>0, ThrottleTypes
    <1>4. Gone' >= Gone
        BY <1>2, <1>3
    <1>5. ~Dead => /\ queue' = queue /\ consPc' = consPc /\ Gone' = Gone
        <2>1. ~Dead => ~MainSignal /\ ~MainStop
            BY DEF MainSignal, MainStop, EndInv, Open
        <2>2. ASSUME ~Dead, MainStep PROVE queue' = queue /\ consPc' = consPc /\ Gone' = Gone
            <3>1. /\ UNCHANGED <<mqVars, gen>>
                  /\ consPc' = consPc
                BY <2>2 DEF MainStep, mainFrame, taskVars, Dead, EndInv
            <3> QED
                BY <3>1, FlowTerms DEF mqVars, counters
        <2> QED
            BY <2>1, <2>2 DEF Main
    <1>6. consPc' = "behind" => consPc = "behind"
        BY DEF Main, MainStep, CancelConsumer, MainSignal, MainStop, consVars
    <1>7. ~Dead => Gone' + Len(queue') + Unit(consPc' = "sent")
                     >= Gone + Len(queue) + Unit(consPc = "sent")
        BY <1>3, <1>5
    <1> QED
        BY <1>0, <1>1, <1>2, <1>4, <1>6, <1>7, ThrottleQuiet DEF Dead

LEMMA ThrottleFrames ==
    ASSUME TypeInv, TypeInv', FlowInv, ThrottleInv,
           \/ (Monitor \/ Pause \/ Resume
                 \/ \E p \in {"pause", "update", "resume", "main"} : JoinLockQueue(p))
                /\ UNCHANGED trainerVars
           \/ SleepOnQueue \/ Train \/ FinalSync \/ LabelQueue \/ TransferWeights \/ TrainerDone
           \/ StartResume
           \/ UNCHANGED vars
    PROVE  ThrottleInv'
    <1>0. TypeOK /\ TypeOK'
        BY DEF TypeInv
    <1>1. /\ TakenFromPending' = TakenFromPending /\ Gone' = Gone /\ UNCHANGED <<queue, hand>>
        <2>1. SleepOnQueue \/ Train \/ FinalSync \/ LabelQueue \/ TransferWeights \/ TrainerDone
                 \/ StartResume => ~Collect
            <3>1. SleepOnQueue => ~Collect
                BY DEF Collect, GetSample, SleepOnQueue, WaitSample
            <3>2. Train \/ FinalSync \/ LabelQueue \/ TransferWeights \/ TrainerDone => ~Collect
                BY DEF Collect, Train, FinalSync, LabelQueue, TransferWeights, TrainerDone
            <3>3. StartResume => ~Collect
                BY DEF Collect, StartResume, rollVars, rpcVars
            <3> QED
                BY <3>1, <3>2, <3>3
        <2> QED
            BY <2>1, FlowRest DEF Handler, Trainer
    <1>2. /\ UNCHANGED <<consPc, departed, staleness_samples, updSum, updPc>>
          /\ procPc' = procPc \/ (procPc = "wait" /\ procPc' = "woken")
        <2>1. CASE Monitor /\ UNCHANGED trainerVars
            BY <2>1 DEF Monitor, MonTick, MonResume, MonCheckRunning, monFrame, NotifyAll, consVars,
               rpcVars, trainerVars
        <2>2. CASE (Pause \/ Resume) /\ UNCHANGED trainerVars
            BY <2>2 DEF Pause, PauseEnter, PauseCancel, PauseGather, PauseFinish, pauseFrame, Resume,
               ResumeEnter, ResumeServers, ResumeFinish, resumeFrame, rpcFrame, NotifyAll, consVars,
               trainerVars
        <2>3. CASE (\E p \in {"pause", "update", "resume", "main"} : JoinLockQueue(p))
                     /\ UNCHANGED trainerVars
            BY <2>3 DEF JoinLockQueue, rpcFrame, consVars, rpcVars, trainerVars
        <2>4. CASE SleepOnQueue \/ Train \/ FinalSync \/ LabelQueue \/ TransferWeights \/ TrainerDone
            BY <2>4 DEF SleepOnQueue, Train, FinalSync, LabelQueue, TransferWeights, TrainerDone,
               syncFrame, rollVars, procVars, consVars, rpcVars, trainerVars
        <2>5. CASE StartResume \/ UNCHANGED vars
            BY <2>5 DEF StartResume, handlersFrame, trainerVars, vars, rollVars, procVars, consVars,
               rpcVars
        <2> QED
            BY <2>1, <2>2, <2>3, <2>4, <2>5
    <1>3. Gone \in Int /\ Len(queue) \in Int /\ Unit(consPc = "sent") \in Int
        BY <1>0, ThrottleTypes
    <1>4. /\ Gone' >= Gone
          /\ Gone' + Len(queue') + Unit(consPc' = "sent") >= Gone + Len(queue) + Unit(consPc = "sent")
        BY <1>1, <1>2, <1>3
    <1> QED
        BY <1>0, <1>1, <1>2, <1>4, ThrottleQuiet DEF Dead

LEMMA ThrottleCollect ==
    ASSUME TypeInv, TypeInv', FlowInv, ThrottleInv, Collect
    PROVE  ThrottleInv'
    <1>0. TypeOK /\ TypeOK'
        BY DEF TypeInv
    <1>1. UNCHANGED <<hand, procPc, consPc, departed, staleness_samples, updSum, updPc>>
        BY DEF Collect, rollVars, procVars, consVars, rpcVars
    <1>2. /\ TakenFromPending' = TakenFromPending
          /\ Gone' = Gone + 1 /\ Len(queue') = Len(queue) - 1
        BY FlowCollect
    <1> DEFINE g == Gone
               g1 == Gone'
               q == Len(queue)
               q1 == Len(queue')
               c == Unit(consPc = "sent")
    <1>3. g \in Int /\ q \in Int /\ c \in Int /\ g1 = g + 1 /\ q1 = q - 1
        BY <1>0, <1>2, ThrottleTypes
    <1>4. g1 + q1 + c >= g + q + c /\ g1 >= g
        <2> HIDE DEF g, g1, q, q1, c
        <2> QED BY <1>3
    <1> HIDE DEF g, g1, q, q1, c
    <1>5. /\ Gone' >= Gone
          /\ Gone' + Len(queue') + Unit(consPc = "sent") >= Gone + Len(queue) + Unit(consPc = "sent")
        BY <1>4 DEF g, g1, q, q1, c
    <1> QED
        BY <1>0, <1>1, <1>2, <1>5, ThrottleQuiet DEF Dead

LEMMA ThrottleSync ==
    ASSUME TypeInv, FlowInv, HandshakeInv, ThrottleInv, CallPause \/ LaunchUpdate
    PROVE  ThrottleInv'
    <1>1. /\ TakenFromPending' = TakenFromPending /\ Gone' = Gone /\ UNCHANGED <<queue, hand>>
        <2>1. ~Collect
            BY DEF Collect, CallPause, LaunchUpdate
        <2> QED
            BY <2>1, FlowRest DEF Trainer
    <1>2. /\ UNCHANGED <<consPc, departed, staleness_samples, updSum, procPc>>
          /\ updPc' \in {"off", "called"}
          /\ updPc # "size"
        BY DEF CallPause, LastSyncReturned, LaunchUpdate, handlersFrame, syncFrame, procVars, consVars,
               HandshakeInv
    <1>3. Outstanding' = Outstanding /\ Uncounted' = Uncounted /\ Slip' = Slip
        BY <1>1, <1>2, ThrottleNext DEF Outstanding
    <1> QED
        BY <1>1, <1>2, <1>3 DEF ThrottleInv, Dead

(* Every running task is among those the update counts.                     *)
LEMMA RunningAreActive ==
    ASSUME TypeOK, EndInv
    PROVE  InState(Running, gen) <= Cardinality(active_tasks)
    <1>1. {s \in Sample : gen[s] \in Running} \in SUBSET active_tasks
        BY DEF EndInv
    <1>2. IsFiniteSet(active_tasks)
        BY CountsAreNat DEF TypeOK
    <1> QED
        BY <1>1, <1>2, FS_Subset DEF InState

LEMMA ThrottleUpdate ==
    ASSUME TypeInv, EndInv, FlowInv, ThrottleInv, Update, UNCHANGED trainerVars
    PROVE  ThrottleInv'
    <1>0. TypeOK
        BY DEF TypeInv
    <1>1. /\ TakenFromPending' = TakenFromPending /\ Gone' = Gone /\ UNCHANGED <<queue, hand>>
        BY FlowRest DEF Handler
    <1>2. UNCHANGED <<consPc, procPc, departed>>
        BY DEF Update, UpdateEnter, UpdateAssign, UpdateFinish, updateFrame, rpcFrame, consVars,
               trainerVars
    <1>3. /\ Outstanding' = Outstanding /\ Uncounted' = Uncounted /\ Slip' = Slip
          /\ Unit(hand # None)' = Unit(hand # None) /\ Unit(consPc = "sent")' = Unit(consPc = "sent")
          /\ Len(queue)' = Len(queue)
        BY <1>1, <1>2, ThrottleNext DEF Outstanding
    <1>4. CASE UpdateEnter(weights_version)
        <2>1. /\ updPc = "called" /\ updPc' = "size" /\ updSum' = Counted
              /\ UNCHANGED staleness_samples
            BY <1>4 DEF UpdateEnter
        <2>2. ASSUME ~Dead
              PROVE  TakenFromPending - Gone <= Counted + Len(queue) + Unit(hand # None)
                                                  + Unit(consPc = "sent")
            <3> DEFINE h == Unit(hand # None)
                       c == Unit(consHand # None)
                       x == Len(cancel_queue)
                       y == Len(result_queue)
                       r == InState(Running, gen)
                       a == Cardinality(active_tasks)
                       q == Len(queue)
                       g == Gone
                       n == TakenFromPending
                       d == Unit(consPc = "sent")
            <3>1. Open
                BY <2>2 DEF EndInv
            <3>2. c = d
                <4>1. consPc \notin {"behind", "orphan"}
                    BY <2>1, <3>1 DEF ThrottleInv, TypeInv, HandInv, Open
                <4> QED
                    BY <4>1 DEF TypeInv, HandInv, Unit
            <3>3. n = g + (h + c + x + y + r) + q
                BY <3>1 DEF FlowInv, Carried
            <3>4. /\ h \in Int /\ c \in Int /\ x \in Int /\ y \in Int /\ r \in Int /\ q \in Int
                  /\ g \in Int /\ n \in Int
                BY <1>0, FlowTypes DEF Unit
            <3>5. a \in Int /\ r <= a
                BY <1>0, RunningAreActive, CountsAreNat DEF TypeOK
            <3>6. Counted = a + y + x
                BY DEF Counted
            <3>7. n - g <= (a + y + x) + q + h + d
                <4> HIDE DEF h, c, x, y, r, a, q, g, n, d
                <4> QED BY <3>2, <3>3, <3>4, <3>5
            <3> QED
                BY <3>6, <3>7
        <2> QED
            BY <1>1, <1>2, <1>3, <2>1, <2>2 DEF ThrottleInv, Dead
    <1>5. CASE UpdateAssign
        <2>1. /\ updPc = "assign" /\ updPc' = "validate" /\ staleness_samples' = updSum
            BY <1>5 DEF UpdateAssign
        <2>2. ~Dead => Outstanding <= updSum + Uncounted
            <3> DEFINE o == Outstanding
                       h == Unit(hand # None)
            <3>1. ~Dead => o <= updSum + h + Slip
                BY <2>1 DEF ThrottleInv
            <3>2. /\ o \in Int /\ h \in {0, 1} /\ updSum \in Int /\ Slip = Uncounted - 1
                  /\ Uncounted \in {1, 2}
                BY <1>0, ThrottleTypes
            <3> HIDE DEF o, h
            <3>3. ~Dead => o <= updSum + Uncounted
                BY <3>1, <3>2
            <3> QED
                BY <3>3 DEF o
        <2> QED
            BY <1>1, <1>2, <1>3, <2>1, <2>2 DEF ThrottleInv, Dead
    <1>6. CASE UpdateFinish
        <2>1. updPc = "validate" /\ updPc' = "replied" /\ UNCHANGED <<staleness_samples, updSum>>
            BY <1>6 DEF UpdateFinish
        <2> QED
            BY <1>1, <1>2, <1>3, <2>1 DEF ThrottleInv, Dead
    <1> QED
        BY <1>4, <1>5, <1>6 DEF Update

(* The reset: what is outstanding is recounted, the consumer's sample only  *)
(* when the calls of the rollouter are served in order.                    *)
LEMMA ThrottleReset ==
    ASSUME TypeInv, FlowInv, ThrottleInv, UpdateResetsStaleness
    PROVE  ThrottleInv'
    <1>0. TypeOK
        BY DEF TypeInv
    <1>1. /\ TakenFromPending' = TakenFromPending /\ Gone' = Gone /\ UNCHANGED <<queue, hand>>
        <2>1. ~Collect
            BY DEF Collect, UpdateResetsStaleness, UpdateReadSize, sizeFrame, GetSample, mqVars,
                   counters, TypeInv, TypeOK, MQTypeOK
        <2> QED
            BY <2>1, FlowRest
    <1>2. /\ updPc = "size" /\ updPc' = "assign" /\ updSum' = updSum + Len(queue) /\ departed' = Gone
          /\ UNCHANGED <<procPc, staleness_samples>> /\ consPc' # "behind"
          /\ OrderedCalls => consPc # "sent"
        BY DEF UpdateResetsStaleness, UpdateReadSize, sizeFrame, procVars
    <1> DEFINE n == TakenFromPending
               g == Gone
               h == Unit(hand # None)
               c == Unit(consPc = "sent")
               q == Len(queue)
    <1>3. /\ n \in Int /\ g \in Int /\ departed \in Int /\ staleness_samples \in Int /\ updSum \in Int
          /\ q \in Int /\ MaxRequired \in Int /\ Uncounted \in {1, 2} /\ Slip = Uncounted - 1
          /\ h \in {0, 1} /\ c \in {0, 1} /\ Outstanding = n - departed
        BY <1>0, ThrottleTypes
    <1>4. /\ Outstanding' = n - g /\ Uncounted' = Uncounted /\ Slip' = Slip
          /\ Unit(hand # None)' = h
        BY <1>1, <1>2, ThrottleNext
    <1>5. c <= Slip
        BY <1>2 DEF Unit, Slip, Uncounted
    <1>6. /\ departed <= g /\ n - departed <= MaxRequired + Uncounted
          /\ ~Dead => /\ n - departed <= staleness_samples + Uncounted
                      /\ procPc = "get" => n - departed <= MaxRequired + Slip
                      /\ n - g <= updSum + q + h + c
        BY <1>2, <1>3 DEF ThrottleInv
    <1> HIDE DEF n, g, h, c, q
    <1>7. /\ g <= g /\ n - g <= MaxRequired + Uncounted
          /\ ~Dead => /\ n - g <= staleness_samples + Uncounted
                      /\ procPc = "get" => n - g <= MaxRequired + Slip
                      /\ n - g <= (updSum + q) + h + Slip
        BY <1>3, <1>5, <1>6
    <1> QED
        BY <1>1, <1>2, <1>4, <1>7 DEF ThrottleInv, Dead, n, g, h, q

LEMMA ThrottleStep ==
    TypeInv /\ EndInv /\ BooksInv /\ HandshakeInv /\ FlowInv /\ ThrottleInv /\ [Next]_vars => ThrottleInv'
    <1> SUFFICES ASSUME TypeInv, EndInv, BooksInv, HandshakeInv, FlowInv, ThrottleInv, [Next]_vars
                 PROVE  ThrottleInv'
        OBVIOUS
    <1>0. TypeInv'
        BY TypeStep
    <1>1. CASE RollouterStep /\ UNCHANGED trainerVars
        <2>1. CASE Processor
            BY <1>0, <1>1, <2>1, ThrottleProcessor
        <2>2. CASE Feed \/ (\E t \in Sample : Task(t) \/ TaskFail(t))
            BY <1>0, <1>1, <2>2, ThrottleCoroutines
        <2>3. CASE Consumer
            BY <1>0, <1>1, <2>3, ThrottleConsumer
        <2>4. CASE Main
            BY <1>0, <1>1, <2>4, ThrottleMain
        <2>5. CASE Update
            BY <1>0, <1>1, <2>5, ThrottleUpdate
        <2>6. CASE \/ Monitor \/ Pause \/ Resume
                   \/ \E p \in {"pause", "update", "resume", "main"} : JoinLockQueue(p)
            BY <1>0, <1>1, <2>6, ThrottleFrames
        <2> QED
            BY <1>1, <2>1, <2>2, <2>3, <2>4, <2>5, <2>6 DEF RollouterStep
    <1>2. CASE Trainer \/ StartResume \/ UpdateResetsStaleness
        BY <1>0, <1>2, ThrottleFrames, ThrottleCollect, ThrottleSync, ThrottleReset DEF Trainer
    <1>3. CASE UNCHANGED vars
        BY <1>0, <1>3, ThrottleFrames
    <1> QED
        BY <1>1, <1>2, <1>3 DEF Next, Finished

LEMMA ThrottleInit == Init => ThrottleInv
    <1> SUFFICES ASSUME Init PROVE ThrottleInv
        OBVIOUS
    <1>1. TypeOK
        BY TypeInit DEF TypeInv
    <1>2. TakenFromPending = 0
        <2>1. {i \in DOMAIN pending_queue : pending_queue[i] # Done} = {}
            BY DEF Init, RollInit
        <2> QED
            BY <2>1, FS_EmptySet DEF TakenFromPending, Init, RollInit
    <1>3. departed = 0 /\ Gone \in Nat /\ staleness_samples = 0
          /\ MaxRequired \in Nat /\ Uncounted \in {1, 2}
        BY <1>1, FlowTypes, RollouterAssumption DEF Init, RollInit, Uncounted
    <1> QED
        BY <1>2, <1>3 DEF Init, RollInit, ThrottleInv, Outstanding

(* The throttle: whatever the interleaving of update_param_version with the *)
(* processor, the consumer and the trainer, the samples taken and not       *)
(* consumed, dropped or failed at the last reset exceed                     *)
(* max_required_samples by at most the one sample in the processor's hand   *)
(* (two, when the put of the consumer may be served after the size was      *)
(* read).                                                                   *)
THEOREM ThrottleHolds == Spec => []StalenessBudget
    <1>1. ThrottleInv => StalenessBudget
        BY DEF ThrottleInv, StalenessBudget
    <1>2. Init => HandshakeInv
        BY DEF Init, RollInit, HandshakeInv, Syncing, Ahead
    <1> QED
        BY <1>1, <1>2, TypeInit, TypeStep, EndInit, EndStep, BooksInit, BooksStep, FlowInit, FlowStep,
           HandshakeStep, ThrottleInit, ThrottleStep, PTL DEF Spec

(* Arithmetic the versions need: products of versions and samples.          *)
LEMMA Distribute ==
    ASSUME NEW x \in Int, NEW p \in Int
    PROVE  (x + 1) * p = x * p + p /\ (x - 1) * p = x * p - p /\ x * p \in Int
    OBVIOUS

(* Multiplication keeps order ...                                           *)
LEMMA Order ==
    ASSUME NEW x \in Int, NEW y \in Int, NEW p \in Nat, x <= y
    PROVE  x * p <= y * p
    OBVIOUS

(* ... and so does division.                                                *)
LEMMA Quotient ==
    ASSUME NEW x \in Int, NEW M \in Nat, NEW P \in Nat \ {0}, x * P <= M
    PROVE  x <= M \div P
    <1> DEFINE d == M \div P
    <1>1. d \in Int /\ M < (d + 1) * P
        OBVIOUS
    <1>2. ASSUME x >= d + 1 PROVE FALSE
        <2>1. (d + 1) * P <= x * P
            BY <1>1, <1>2, Order
        <2>2. x * P \in Int /\ (d + 1) * P \in Int
            BY <1>1, Distribute
        <2> QED BY <1>1, <2>1, <2>2
    <1> QED BY <1>1, <1>2

(* Part of a version's samples.                                             *)
LEMMA PartOfVersion ==
    ASSUME NEW R \in Nat, NEW T \in Nat, NEW l \in 1..T, NEW b \in 0..R
    PROVE  (l - 1) * R + b <= R * T /\ (l - 1) * R + b \in Nat
    <1>1. (l - 1) * R + R = l * R /\ l * R \in Int /\ T * R \in Int /\ (l - 1) * R \in Int
        BY Distribute
    <1>2. l * R <= T * R
        BY Order
    <1>3. T * R = R * T
        OBVIOUS
    <1>4. 0 * R <= (l - 1) * R
        BY Order
    <1> QED BY <1>1, <1>2, <1>3, <1>4

-----------------------------------------------------------------------------
(* The lag: what waits for training is bounded by what the throttle let     *)
(* through.                                                                 *)

(* The samples consumed are those of the published versions, of the         *)
(* finished steps and of the batch in hand; and what had departed at the    *)
(* last reset was consumed by the end of the version after the rollouter's. *)
PaceInv ==
    /\ Cardinality(batch) <= RequiredSamples
    /\ trainerPc = "train" => Cardinality(batch) = RequiredSamples
    /\ trainerPc = "collect" => Cardinality(batch) < RequiredSamples
    /\ trainerPc \notin {"collect", "train", "final"} => batch = {} /\ local_trigger_step = 1
    /\ ~ending => total_consumed = trainer_version * PerVersion
                                     + ((local_trigger_step - 1) * RequiredSamples + Cardinality(batch))
    /\ Open => departed <= (current_param_version + 1) * PerVersion
                             + (dropped_samples + InState({"failed"}, gen))

(* The numbers PaceInv is about.                                            *)
LEMMA PaceTypes ==
    ASSUME TypeOK
    PROVE  /\ PerVersion \in Nat \ {0} /\ RequiredSamples \in Nat \ {0}
           /\ TriggerParameterSyncStep \in Nat \ {0}
           /\ IsFiniteSet(batch) /\ Cardinality(batch) \in Nat
           /\ local_trigger_step \in 1..TriggerParameterSyncStep
           /\ trainer_version \in Nat /\ current_param_version \in Nat /\ weights_version \in Nat
           /\ total_consumed \in Nat /\ dropped_samples \in Nat /\ departed \in Nat
           /\ InState({"failed"}, gen) \in Nat
           /\ trainer_version * PerVersion \in Int
           /\ (current_param_version + 1) * PerVersion \in Int
    <1>1. RequiredSamples \in Nat \ {0} /\ TriggerParameterSyncStep \in Nat \ {0}
        BY TrainerAssumption
    <1>2. PerVersion \in Nat \ {0}
        BY <1>1 DEF PerVersion
    <1>3. IsFiniteSet(batch) /\ Cardinality(batch) \in Nat
        BY CountsAreNat DEF TypeOK
    <1>4. InState({"failed"}, gen) \in Nat
        BY FlowTypes
    <1>5. /\ local_trigger_step \in 1..TriggerParameterSyncStep
          /\ trainer_version \in Nat /\ current_param_version \in Nat /\ weights_version \in Nat
          /\ total_consumed \in Nat /\ dropped_samples \in Nat /\ departed \in Nat
        BY DEF TypeOK, MQTypeOK
    <1>6. /\ trainer_version * PerVersion \in Int
          /\ (current_param_version + 1) * PerVersion \in Int
        BY <1>2, <1>5, Distribute
    <1> QED
        BY <1>1, <1>2, <1>3, <1>4, <1>5, <1>6

(* Of the rollouter's steps none takes from the message queue, and only     *)
(* update_param_version moves the rollouter's version.                     *)
LEMMA RollouterFrame ==
    ASSUME TypeInv, RollouterStep, UNCHANGED trainerVars
    PROVE  /\ total_consumed' = total_consumed
           /\ \/ current_param_version' = current_param_version
              \/ updPc = "called" /\ current_param_version' = weights_version
           /\ Open' => Open
    <1>1. CASE Feed \/ Processor
        BY <1>1 DEF Feed, Processor, ProcTop, ProcGet, ProcMark, ProcLoopTest, ProcCollect, ProcAwait,
           ProcCondition, ProcWake, procFrame, mqVars, counters, control, Open
    <1>2. CASE Consumer
        BY <1>2 DEF Consumer, ConsTake, ConsDeliver, ConsAck, OrphanDeliver, consFrame, PutSample,
           mqVars, counters, Open
    <1>3. CASE Main
        BY <1>3 DEF Main, MainStep, MainSignal, MainStop, mainFrame, PutSample, mqVars, counters, Open
    <1>4. CASE Monitor
        BY <1>4 DEF Monitor, MonTick, MonResume, MonCheckRunning, monFrame, mqVars, counters, Open
    <1>5. CASE Pause \/ Resume
        BY <1>5 DEF Pause, PauseEnter, PauseCancel, PauseGather, PauseFinish, pauseFrame, Resume,
           ResumeEnter, ResumeServers, ResumeFinish, resumeFrame, rpcFrame, mqVars, counters, Open
    <1>6. CASE Update
        BY <1>6 DEF Update, UpdateEnter, UpdateAssign, UpdateFinish, updateFrame, rpcFrame, mqVars,
           counters, Open
    <1>7. CASE \E s \in Sample : Task(s) \/ TaskFail(s)
        BY <1>7 DEF Task, TaskStart, ServerAbort, TaskFinish, TaskCancelled, TaskFail, taskFrame, mqVars,
           counters, Open
    <1>8. CASE \E p \in {"pause", "update", "resume", "main"} : JoinLockQueue(p)
        BY <1>8 DEF JoinLockQueue, rpcFrame, mqVars, counters, Open
    <1> QED
        BY <1>1, <1>2, <1>3, <1>4, <1>5, <1>6, <1>7, <1>8 DEF RollouterStep

(* The rollouter consumes nothing; it only moves its version forward.       *)
LEMMA PaceRollouter ==
    ASSUME TypeInv, TypeInv', HandshakeInv, PaceInv, RollouterStep, UNCHANGED trainerVars,
           Gone' >= Gone
    PROVE  PaceInv'
    <1>0. TypeOK /\ TypeOK'
        BY DEF TypeInv
    <1> DEFINE P == PerVersion
               c == current_param_version
               c1 == current_param_version'
               l == dropped_samples + InState({"failed"}, gen)
               l1 == dropped_samples' + InState({"failed"}, gen')
    <1>1. /\ total_consumed' = total_consumed /\ (Open' => Open)
          /\ c1 = c \/ (updPc = "called" /\ c1 = weights_version)
        BY RollouterFrame
    <1>2. /\ P \in Nat /\ c \in Nat /\ weights_version \in Nat /\ l \in Nat /\ total_consumed \in Nat
          /\ departed \in Nat
        BY <1>0, PaceTypes
    <1>3. c1 \in Nat /\ dropped_samples' \in Nat
        BY <1>0 DEF TypeOK, MQTypeOK
    <1>4. InState({"failed"}, gen') \in Nat
        BY InStateType
    <1>5. c1 >= c
        BY <1>1, <1>2 DEF HandshakeInv
    <1>6. l1 >= l /\ l1 \in Nat
        <2> DEFINE d == dropped_samples
                   d1 == dropped_samples'
                   f == InState({"failed"}, gen)
                   f1 == InState({"failed"}, gen')
        <2>1. total_consumed + d1 + f1 >= total_consumed + d + f
            BY <1>1, FlowTerms
        <2>2. d \in Nat /\ f \in Nat
            BY <1>0, PaceTypes
        <2>3. d1 \in Nat /\ f1 \in Nat
            BY <1>3, <1>4
        <2> HIDE DEF d, d1, f, f1
        <2>4. d1 + f1 >= d + f /\ d1 + f1 \in Nat
            BY <1>2, <2>1, <2>2, <2>3
        <2> QED
            BY <2>4 DEF d, d1, f, f1
    <1>7. Open' => departed' <= (c1 + 1) * P + l1
        <2>1. (c + 1) * P <= (c1 + 1) * P
            <3> HIDE DEF P, c, c1
            <3>1. c + 1 \in Int /\ c1 + 1 \in Int /\ c + 1 <= c1 + 1
                BY <1>2, <1>3, <1>5
            <3> QED
                BY <1>2, <3>1, Order
        <2>2. (c + 1) * P \in Int /\ (c1 + 1) * P \in Int
            BY <1>2, <1>3, Distribute
        <2>3. Open => departed <= (c + 1) * P + l
            BY DEF PaceInv
        <2>4. departed' = departed
            BY DEF trainerVars
        <2> HIDE DEF P, c, c1, l, l1
        <2> QED
            BY <1>1, <1>2, <1>6, <2>1, <2>2, <2>3, <2>4
    <1> QED
        BY <1>1, <1>7 DEF PaceInv, trainerVars, PerVersion

(* What the books say of two places at once.                                *)
LEMMA OnePlace ==
    ASSUME TypeOK, BooksInv, NEW s \in Sample
    PROVE  /\ InFlight(s) => /\ s \notin Elements(queue) \cup Elements(result_queue) \cup batch
                             /\ consHand # s
           /\ s \in Elements(queue) => s \notin batch
    <1> DEFINE p == Occurrences(s, pending_queue)
               x == Occurrences(s, cancel_queue)
               y == Occurrences(s, result_queue)
               q == Occurrences(s, queue)
               h == Unit(hand = s)
               c == Unit(consHand = s)
               g == Unit(InFlight(s))
               b == Unit(s \in batch \cup trained)
    <1>1. p + x + y + q + h + c + g + b <= 1
        BY CopiesSum DEF Places, BooksInv
    <1>2. p \in Nat /\ x \in Nat /\ y \in Nat /\ q \in Nat
        BY OccursInQueues
    <1>3. h \in Nat /\ c \in Nat /\ g \in Nat /\ b \in Nat
        BY DEF Unit
    <1>4. /\ s \in Elements(queue) => q # 0
          /\ s \in Elements(result_queue) => y # 0
        BY OccursFinite DEF TypeOK, MQTypeOK
    <1>5. /\ consHand = s => c # 0
          /\ InFlight(s) => g # 0
          /\ s \in batch => b # 0
        BY DEF Unit
    <1> HIDE DEF p, x, y, q, h, c, g, b
    <1>6. (g # 0 => y = 0 /\ q = 0 /\ c = 0 /\ b = 0) /\ (q # 0 => b = 0)
        BY <1>1, <1>2, <1>3
    <1> QED
        BY <1>4, <1>5, <1>6

(* One sample more in the batch.                                            *)
LEMMA PaceCollect ==
    ASSUME TypeInv, BooksInv, EndInv, PaceInv, Collect
    PROVE  PaceInv'
    <1>0. TypeOK
        BY DEF TypeInv
    <1> DEFINE v == trainer_version * PerVersion
               l == (local_trigger_step - 1) * RequiredSamples
               b == Cardinality(batch)
               R == RequiredSamples
    <1>1. /\ trainerPc = "collect" /\ queue \in Seq(Item) /\ queue # <<>>
          /\ total_consumed' = total_consumed + 1
          /\ UNCHANGED <<local_trigger_step, trainer_version, departed, current_param_version,
                         dropped_samples, gen, mainPc>>
        BY <1>0 DEF Collect, GetSample, rollVars, taskVars, TypeOK, MQTypeOK
    <1>2. ~ending /\ total_consumed = v + (l + b) /\ b < R
        BY <1>1 DEF EndInv, PaceInv
    <1>3. /\ v \in Int /\ l \in Int /\ b \in Nat /\ R \in Nat /\ total_consumed \in Nat
          /\ IsFiniteSet(batch)
        BY <1>0, PaceTypes, Distribute
    <1>4. Open' => departed' <= (current_param_version' + 1) * PerVersion
                     + (dropped_samples' + InState({"failed"}, gen'))
        BY <1>1 DEF PaceInv, Open
    <1>5. CASE Head(queue) = Sentinel
        <2>1. ending' = TRUE /\ trainerPc' = "final" /\ batch' = batch
            BY <1>5 DEF Collect
        <2> QED
            BY <1>1, <1>2, <1>3, <1>4, <2>1 DEF PaceInv, PerVersion
    <1>6. CASE Head(queue) # Sentinel
        <2>1. /\ batch' = batch \cup {Head(queue)} /\ ending' = ending
              /\ trainerPc' = IF Cardinality(batch') = R THEN "train" ELSE "collect"
            BY <1>6 DEF Collect, BatchComplete
        <2>2. Head(queue) \in Sample /\ Head(queue) \in Elements(queue)
            BY <1>1, <1>6, RollouterAssumption DEF Elements
        <2>3. Head(queue) \notin batch
            BY <1>0, <2>2, OnePlace
        <2>4. Cardinality(batch') = b + 1
            BY <1>3, <2>1, <2>3, FS_AddElement
        <2>5. total_consumed' = v + (l + Cardinality(batch'))
            <3> HIDE DEF v, l, b
            <3> QED BY <1>1, <1>2, <1>3, <2>4
        <2>6. Cardinality(batch') <= R
            BY <1>2, <1>3, <2>4
        <2>7. Cardinality(batch') \in Nat
            BY <1>3, <2>4
        <2> QED
            BY <1>1, <1>2, <1>3, <1>4, <2>1, <2>5, <2>6, <2>7 DEF PaceInv, PerVersion
    <1> QED
        BY <1>5, <1>6

(* A whole step's samples: the product over versions and steps carries.     *)
LEMMA PaceTrain ==
    ASSUME TypeInv, EndInv, PaceInv, Train
    PROVE  PaceInv'
    <1>0. TypeOK
        BY DEF TypeInv
    <1> DEFINE v == trainer_version * PerVersion
               l == local_trigger_step
               R == RequiredSamples
               T == TriggerParameterSyncStep
               P == PerVersion
    <1>1. /\ trainerPc = "train" /\ batch' = {}
          /\ UNCHANGED <<total_consumed, departed, current_param_version, dropped_samples, gen,
                         mainPc, ending>>
        BY DEF Train, mqVars, counters, rollVars, taskVars
    <1>2. ~ending /\ total_consumed = v + ((l - 1) * R + R)
        BY <1>1 DEF EndInv, PaceInv
    <1>3. /\ v \in Int /\ R \in Nat \ {0} /\ T \in Nat /\ l \in 1..T /\ total_consumed \in Nat
          /\ P \in Nat /\ trainer_version \in Nat
        BY <1>0, PaceTypes
    <1>4. Open' => departed' <= (current_param_version' + 1) * PerVersion
                     + (dropped_samples' + InState({"failed"}, gen'))
        BY <1>1 DEF PaceInv, Open
    <1>5. Cardinality(batch') = 0
        BY <1>1, FS_EmptySet
    <1>6. (l - 1) * R + R = l * R /\ l * R \in Int
        BY <1>3, Distribute
    <1>7. CASE l < T
        <2>1. /\ local_trigger_step' = l + 1 /\ trainerPc' = "collect"
              /\ trainer_version' = trainer_version
            BY <1>7 DEF Train
        <2>2. total_consumed' = v + ((local_trigger_step' - 1) * R + Cardinality(batch'))
            <3>1. local_trigger_step' - 1 = l
                BY <1>3, <2>1
            <3> HIDE DEF v
            <3> QED
                BY <1>1, <1>2, <1>3, <1>5, <1>6, <3>1
        <2> QED
            BY <1>1, <1>3, <1>4, <1>5, <2>1, <2>2 DEF PaceInv, PerVersion
    <1>8. CASE ~(l < T)
        <2>1. /\ local_trigger_step' = 1 /\ trainer_version' = trainer_version + 1
              /\ trainerPc' = "wait"
            BY <1>8 DEF Train
        <2>2. l = T
            BY <1>3, <1>8
        <2>3. (trainer_version + 1) * P = v + P /\ 0 * R = 0
            BY <1>3, Distribute
        <2>4. T * R = P
            BY <1>3 DEF PerVersion
        <2>5. total_consumed' = (trainer_version + 1) * P + (0 * R + 0)
            <3> HIDE DEF v, P
            <3> QED
                BY <1>1, <1>2, <1>3, <1>6, <2>2, <2>3, <2>4
        <2>6. total_consumed' = trainer_version' * P'
                 + ((local_trigger_step' - 1) * R + Cardinality(batch'))
            BY <1>5, <2>1, <2>5 DEF PerVersion
        <2> QED
            BY <1>1, <1>3, <1>4, <1>5, <2>1, <2>6 DEF PaceInv, PerVersion
    <1> QED
        BY <1>7, <1>8

(* What has departed at a reset was consumed by the end of the version the  *)
(* trainer works on.                                                       *)
LEMMA PaceReset ==
    ASSUME TypeInv, EndInv, HandshakeInv, PaceInv, UpdateResetsStaleness
    PROVE  PaceInv'
    <1>0. TypeOK
        BY DEF TypeInv
    <1> DEFINE P == PerVersion
               c == current_param_version
               R == RequiredSamples
               l == local_trigger_step
               b == Cardinality(batch)
               m == (l - 1) * R + b
               x == dropped_samples + InState({"failed"}, gen)
    <1>1. /\ updPc = "size" /\ departed' = Gone
          /\ UNCHANGED <<trainerPc, batch, ending, local_trigger_step, trainer_version,
                         total_consumed, current_param_version, dropped_samples, gen, mainPc>>
        BY DEF UpdateResetsStaleness, UpdateReadSize, sizeFrame, mqVars, counters, taskVars
    <1>2. /\ P \in Nat /\ c \in Nat /\ R \in Nat /\ l \in 1..TriggerParameterSyncStep
          /\ b \in Nat /\ x \in Nat /\ total_consumed \in Nat /\ trainer_version \in Nat
          /\ TriggerParameterSyncStep \in Nat
        BY <1>0, PaceTypes
    <1>3. ASSUME Open
          PROVE  Gone <= (c + 1) * P + x
        <2>1. ~ending /\ total_consumed = trainer_version * P + m
            BY <1>3 DEF EndInv, PaceInv
        <2>2. (c + 1) * P = c * P + P /\ c * P \in Int
            BY <1>2, Distribute
        <2>3. total_consumed <= (c + 1) * P
            <3>1. CASE Syncing
                <4>1. trainer_version = c + 1
                    BY <1>1, <1>2, <3>1 DEF HandshakeInv, Ahead, Syncing
                <4>2. b = 0 /\ l = 1
                    BY <1>1, <3>1, FS_EmptySet DEF PaceInv, Syncing
                <4>3. m = 0
                    BY <1>2, <4>2, Distribute
                <4> HIDE DEF m, P
                <4> QED
                    BY <1>2, <2>1, <2>2, <4>1, <4>3
            <3>2. CASE ~Syncing
                <4>1. trainer_version = c
                    <5>1. ~Ahead
                        <6>1. trainerPc # "launch"
                            BY <1>1 DEF HandshakeInv
                        <6> QED
                            BY <1>1, <6>1 DEF Ahead
                    <5> QED
                        BY <1>2, <3>2, <5>1 DEF HandshakeInv
                <4>2. b \in 0..R
                    BY <1>2 DEF PaceInv
                <4>3. m <= P /\ m \in Nat
                    BY <1>2, <4>2, PartOfVersion DEF PerVersion
                <4> HIDE DEF m, P
                <4> QED
                    BY <1>2, <2>1, <2>2, <4>1, <4>3
            <3> QED
                BY <3>1, <3>2
        <2>4. Gone = total_consumed + x
            <3> DEFINE f == InState({"failed"}, gen)
            <3>1. Gone = total_consumed + dropped_samples + f
                BY FlowTerms
            <3>2. f \in Nat /\ dropped_samples \in Nat
                BY <1>0, PaceTypes
            <3>3. x = dropped_samples + f
                OBVIOUS
            <3> HIDE DEF f, x
            <3> QED
                BY <1>2, <3>1, <3>2, <3>3
        <2>5. (c + 1) * P \in Int
            BY <1>2, Distribute
        <2> HIDE DEF x, P, c
        <2> QED
            BY <1>2, <2>3, <2>4, <2>5
    <1> QED
        BY <1>1, <1>3 DEF PaceInv, Open, PerVersion

LEMMA PaceStep ==
    ASSUME TypeInv, BooksInv, EndInv, HandshakeInv, FlowInv, PaceInv, [Next]_vars
    PROVE  PaceInv'
    <1>0. TypeInv'
        BY TypeStep
    <1>1. CASE RollouterStep /\ UNCHANGED trainerVars
        BY <1>0, <1>1, FlowStep, PaceRollouter DEF Next
    <1>2. CASE Collect
        BY <1>2, PaceCollect
    <1>3. CASE Train
        BY <1>3, PaceTrain
    <1>4. CASE UpdateResetsStaleness
        BY <1>4, PaceReset
    <1>5. CASE FinalSync
        <2>1. /\ ending /\ ending' /\ trainerPc' = "wait" /\ batch' = {} /\ local_trigger_step' = 1
              /\ UNCHANGED <<departed, current_param_version, dropped_samples, gen, mainPc>>
            BY <1>5 DEF FinalSync, EndInv, mqVars, counters, rollVars, taskVars
        <2>2. Cardinality(batch') = 0 /\ RequiredSamples \in Nat
            BY <2>1, FS_EmptySet, TrainerAssumption
        <2> QED
            BY <2>1, <2>2 DEF PaceInv, Open, PerVersion
    <1>6. CASE SleepOnQueue \/ CallPause \/ LabelQueue \/ TransferWeights \/ LaunchUpdate \/ TrainerDone
                 \/ StartResume \/ UNCHANGED vars
        <2>1. /\ UNCHANGED <<batch, ending, local_trigger_step, trainer_version, total_consumed, departed,
                             current_param_version, dropped_samples, gen, mainPc>>
              /\ \/ trainerPc' = trainerPc
                 \/ trainerPc \in {"wait", "pausing", "transfer", "launch", "lastwait"}
                    /\ (trainerPc' \in {"pausing", "transfer", "launch", "lastwait", "done"}
                          \/ trainerPc' = "collect")
            BY <1>6 DEF SleepOnQueue, WaitSample, CallPause, LabelQueue, SetQueueVersion, TransferWeights,
               LaunchUpdate, TrainerDone, StartResume, syncFrame, handlersFrame, trainerVars, rollVars,
               taskVars, vars, mqVars, counters
        <2>2. trainerPc' = "collect" /\ trainerPc # "collect" => Cardinality(batch) < RequiredSamples
            BY <2>1, FS_EmptySet, TrainerAssumption DEF PaceInv
        <2> QED
            BY <2>1, <2>2 DEF PaceInv, Open, PerVersion
    <1> QED
        BY <1>1, <1>2, <1>3, <1>4, <1>5, <1>6 DEF Next, Trainer, Finished

LEMMA PaceInit == Init => PaceInv
    <1> SUFFICES ASSUME Init PROVE PaceInv
        OBVIOUS
    <1>1. TypeOK
        BY TypeInit DEF TypeInv
    <1>2. Cardinality(batch) = 0 /\ RequiredSamples \in Nat \ {0} /\ PerVersion \in Nat
        BY <1>1, FS_EmptySet, PaceTypes DEF Init
    <1>3. 0 * RequiredSamples = 0 /\ 0 * PerVersion = 0 /\ (0 + 1) * PerVersion = 0 + PerVersion
        BY <1>2
    <1>4. InState({"failed"}, gen) \in Nat
        BY InStateType
    <1> QED
        BY <1>2, <1>3, <1>4 DEF Init, MQInit, RollInit, PaceInv

(* How many samples may have been consumed when s is next.                  *)
Bound(tg, s) == (tg[s] + 1) * PerVersion + MaxRequired + Slip
(* No finish signal up to position i.                                       *)
Unended(i, q) == \A j \in 1..i : q[j] # Sentinel

(* BoundedLag is not inductive: it follows from where a sample stands       *)
(* behind those the trainer takes before it, from the result queue on.      *)
LagInv ==
    ~ending =>
      /\ \A i \in DOMAIN queue : Unended(i, queue) => total_consumed + i - 1 <= Bound(tag, queue[i])
      /\ consHand # None =>
           total_consumed + Len(queue) - Unit(mainPc \in {"answered", "done"}) <= Bound(tag, consHand)
      /\ Open =>
           \A i \in DOMAIN result_queue :
              total_consumed + Len(queue) + Unit(consHand # None) + i - 1 <= Bound(tag, result_queue[i])
      /\ \A s \in batch : trainer_version * PerVersion <= Bound(tag, s)

lagVars == <<ending, queue, total_consumed, consHand, result_queue, batch, trainer_version, tag>>

(* The numbers LagInv is about.                                             *)
LEMMA LagTypes ==
    ASSUME TypeOK
    PROVE  /\ \A s \in Sample : Bound(tag, s) \in Int
           /\ total_consumed \in Nat /\ Len(queue) \in Nat /\ Len(result_queue) \in Nat
           /\ trainer_version * PerVersion \in Int
           /\ queue \in Seq(Item) /\ result_queue \in Seq(Sample)
           /\ Item = Sample \cup {Sentinel} /\ Sentinel \notin Sample /\ None \notin Sample
    <1>1. /\ PerVersion \in Nat /\ MaxRequired \in Nat /\ Slip \in Int
          /\ trainer_version * PerVersion \in Int /\ total_consumed \in Nat
        BY PaceTypes, ThrottleTypes, RollouterAssumption
    <1>2. ASSUME NEW s \in Sample PROVE Bound(tag, s) \in Int
        <2>1. tag[s] + 1 \in Int
            BY DEF TypeOK
        <2>2. (tag[s] + 1) * PerVersion \in Int
            BY <1>1, <2>1, Distribute
        <2> QED
            BY <1>1, <2>2 DEF Bound
    <1>3. queue \in Seq(Item) /\ result_queue \in Seq(Sample)
        BY DEF TypeOK, MQTypeOK
    <1> QED
        BY <1>1, <1>2, <1>3, RollouterAssumption

(* The bound of a sample moves only with its label.                         *)
LEMMA BoundNext ==
    ASSUME NEW s, tag'[s] = tag[s]
    PROVE  Bound(tag', s) = Bound(tag, s)
    BY DEF Bound

(* LagInv in the next state.                                                *)
LEMMA LagNext ==
    ASSUME ~ending' =>
             /\ \A i \in DOMAIN queue' : Unended(i, queue')
                                           => total_consumed' + i - 1 <= Bound(tag', queue'[i])
             /\ consHand' # None =>
                  total_consumed' + Len(queue') - Unit(mainPc' \in {"answered", "done"})
                     <= Bound(tag', consHand')
             /\ Open' =>
                  \A i \in DOMAIN result_queue' :
                     total_consumed' + Len(queue') + Unit(consHand' # None) + i - 1
                        <= Bound(tag', result_queue'[i])
             /\ \A s \in batch' : trainer_version' * PerVersion <= Bound(tag', s)
    PROVE  LagInv'
    BY DEF LagInv, Unended, Unit, Bound, PerVersion, Slip, Uncounted

(* Steps that move no sample.                                               *)
LEMMA LagFrame ==
    ASSUME LagInv, UNCHANGED lagVars, Open' => Open,
           mainPc' \in {"answered", "done"} <=> mainPc \in {"answered", "done"}
    PROVE  LagInv'
    <1>1. Unit(mainPc' \in {"answered", "done"}) = Unit(mainPc \in {"answered", "done"})
        BY DEF Unit
    <1>2. UNCHANGED <<ending, queue, total_consumed, consHand, result_queue, batch, trainer_version, tag>>
        BY DEF lagVars
    <1> QED
        BY <1>1, <1>2, LagNext DEF LagInv

(* A sample that finishes joins behind everything that is on its way, and   *)
(* the throttle bounds that.                                               *)
LEMMA LagFinish ==
    ASSUME TypeInv, TypeInv', BooksInv, EndInv, FlowInv, ThrottleInv, PaceInv, LagInv,
           NEW t \in Sample, TaskFinish(t), UNCHANGED trainerVars
    PROVE  LagInv'
    <1>0. TypeOK /\ TypeOK'
        BY DEF TypeInv
    <1>1. /\ gen[t] = "generating" /\ result_queue' = Append(result_queue, t)
          /\ tag' = [tag EXCEPT ![t] = current_param_version]
          /\ UNCHANGED <<queue, total_consumed, consHand, mainPc, batch, ending, trainer_version>>
        BY DEF TaskFinish, VersionLabel, taskFrame, mqVars, counters, consVars, trainerVars
    <1>2. /\ t \notin Elements(queue) \cup Elements(result_queue) \cup batch /\ consHand # t
        BY <1>0, <1>1, OnePlace DEF InFlight
    <1>3. tag \in [Sample -> Nat]
        BY <1>0 DEF TypeOK
    <1>4. \A s \in Sample : s # t => Bound(tag', s) = Bound(tag, s)
        BY <1>1, <1>3, BoundNext
    <1>5. /\ queue \in Seq(Item) /\ result_queue \in Seq(Sample) /\ Item = Sample \cup {Sentinel}
          /\ Sentinel \notin Sample
          /\ batch \in SUBSET Sample /\ consHand \in Sample \cup {None}
        BY <1>0, LagTypes DEF TypeOK
    <1>7. ASSUME ~ending
          PROVE  \A i \in DOMAIN queue' : Unended(i, queue')
                    => total_consumed' + i - 1 <= Bound(tag', queue'[i])
        <2> TAKE i \in DOMAIN queue'
        <2> HAVE Unended(i, queue')
        <2>1. i \in DOMAIN queue /\ queue[i] # Sentinel /\ queue'[i] = queue[i] /\ Unended(i, queue)
            BY <1>1, <1>5 DEF Unended
        <2>2. queue[i] \in Sample /\ queue[i] # t
            BY <1>2, <1>5, <2>1 DEF Elements
        <2>3. Bound(tag', queue'[i]) = Bound(tag, queue[i])
            BY <1>4, <2>1, <2>2
        <2> QED
            BY <1>1, <1>7, <2>1, <2>3 DEF LagInv
    <1>8. ASSUME ~ending, consHand' # None
          PROVE  total_consumed' + Len(queue') - Unit(mainPc' \in {"answered", "done"}) <= Bound(tag', consHand')
        <2>1. Bound(tag', consHand') = Bound(tag, consHand)
            BY <1>1, <1>2, <1>4, <1>5, <1>8
        <2> QED
            BY <1>1, <1>8, <2>1 DEF LagInv
    <1>9. ASSUME ~ending, NEW s \in batch'
          PROVE  trainer_version' * PerVersion <= Bound(tag', s)
        <2>1. s \in batch /\ Bound(tag', s) = Bound(tag, s)
            BY <1>1, <1>2, <1>4, <1>5
        <2> QED
            BY <1>1, <1>9, <2>1 DEF LagInv
    <1>10. ASSUME ~ending, Open, NEW i \in DOMAIN result_queue'
           PROVE  total_consumed' + Len(queue') + Unit(consHand' # None) + i - 1 <= Bound(tag', result_queue'[i])
        <2>1. CASE i \in DOMAIN result_queue
            <3>1. result_queue'[i] = result_queue[i] /\ result_queue[i] \in Sample /\ result_queue[i] # t
                BY <1>1, <1>2, <1>5, <2>1 DEF Elements
            <3>2. Bound(tag', result_queue'[i]) = Bound(tag, result_queue[i])
                BY <1>4, <3>1
            <3> QED
                BY <1>1, <1>10, <2>1, <3>2 DEF LagInv
        <2>2. CASE i \notin DOMAIN result_queue
            <3>1. i = Len(result_queue) + 1 /\ result_queue'[i] = t
                BY <1>1, <1>5, <2>2
            <3> DEFINE v == (current_param_version + 1) * PerVersion
                       x == dropped_samples + InState({"failed"}, gen)
                       n == TakenFromPending
                       g == Gone
                       q == Len(queue)
                       y == Len(result_queue)
                       z == Len(cancel_queue)
                       c == Unit(consHand # None)
                       h == Unit(hand # None)
                       r == InState(Running, gen)
                       k == total_consumed
            <3>2. Bound(tag', result_queue'[i]) = v + MaxRequired + Slip
                <4>1. tag'[t] = current_param_version
                    BY <1>1, <1>3
                <4> QED
                    BY <3>1, <4>1 DEF Bound
            <3>3. departed <= v + x
                BY <1>10 DEF PaceInv
            <3>4. n - departed <= MaxRequired + Slip + 1 /\ MaxRequired \in Int /\ Slip \in Int
                BY <1>0, ThrottleTypes DEF ThrottleInv
            <3>5. n = g + (h + c + z + y + r) + q
                BY <1>10 DEF FlowInv, Carried
            <3>6. g = k + x
                <4> DEFINE f == InState({"failed"}, gen)
                <4>1. g = k + dropped_samples + f
                    BY FlowTerms
                <4>2. f \in Nat /\ dropped_samples \in Nat /\ k \in Nat
                    BY <1>0, PaceTypes
                <4>3. x = dropped_samples + f
                    OBVIOUS
                <4> HIDE DEF f, x, k, g
                <4> QED
                    BY <4>1, <4>2, <4>3
            <3>7. /\ v \in Int /\ x \in Nat /\ n \in Int /\ g \in Nat /\ q \in Nat /\ y \in Nat
                  /\ z \in Nat /\ c \in Nat /\ h \in Nat /\ r \in Nat /\ k \in Nat /\ departed \in Nat
                <4>1. v \in Int /\ x \in Nat /\ k \in Nat /\ departed \in Nat
                    BY <1>0, PaceTypes
                <4>2. n \in Int /\ g \in Nat /\ q \in Nat /\ y \in Nat /\ z \in Nat /\ r \in Nat
                    BY <1>0, FlowTypes
                <4>3. c \in Nat /\ h \in Nat
                    BY DEF Unit
                <4> QED
                    BY <4>1, <4>2, <4>3
            <3>8. r >= 1
                <4> DEFINE A == {s \in Sample : gen[s] \in Running}
                <4>1. t \in A /\ IsFiniteSet(A) /\ Cardinality(A) = r
                    BY <1>1, InStateType DEF Running, InState
                <4> HIDE DEF A
                <4>2. Cardinality(A) # 0 /\ Cardinality(A) \in Nat
                    BY <4>1, FS_EmptySet, FS_CardinalityType
                <4> HIDE DEF r
                <4> QED
                    BY <4>1, <4>2
            <3> HIDE DEF v, x, n, g, q, y, z, c, h, r, k
            <3>9. k + q + c + (y + 1) - 1 <= v + MaxRequired + Slip
                BY <3>3, <3>4, <3>5, <3>6, <3>7, <3>8
            <3> QED
                BY <1>1, <3>1, <3>2, <3>9 DEF k, q, c, y
        <2> QED
            BY <2>1, <2>2
    <1>11. ending' = ending /\ Open' = Open
        BY <1>1 DEF Open
    <1> QED
        BY <1>7, <1>8, <1>9, <1>10, <1>11, LagNext

(* From the result queue into the consumer's hand,                          *)
LEMMA LagTake ==
    ASSUME TypeInv, EndInv, LagInv, ConsTake, UNCHANGED trainerVars
    PROVE  LagInv'
    <1>0. TypeOK
        BY DEF TypeInv
    <1>1. /\ consPc = "get" /\ result_queue # <<>> /\ consHand' = Head(result_queue)
          /\ result_queue' = Tail(result_queue) /\ consHand = None
          /\ UNCHANGED <<queue, total_consumed, mainPc, batch, ending, trainer_version, tag>>
        BY DEF ConsTake, consFrame, mqVars, counters, taskVars, trainerVars, TypeInv, HandInv
    <1>2. /\ result_queue \in Seq(Sample) /\ total_consumed \in Nat /\ Len(queue) \in Nat
          /\ None \notin Sample /\ \A s \in Sample : Bound(tag, s) \in Int
        BY <1>0, LagTypes
    <1>3. \A s : Bound(tag', s) = Bound(tag, s)
        BY <1>1, BoundNext
    <1>4. Open
        BY <1>1 DEF EndInv
    <1>5. consHand' = result_queue[1] /\ 1 \in DOMAIN result_queue /\ consHand' \in Sample
        BY <1>1, <1>2
    <1>6. /\ Unit(mainPc \in {"answered", "done"}) = 0
          /\ Unit(consHand # None) = 0 /\ Unit(consHand' # None) = 1
        BY <1>1, <1>2, <1>4, <1>5 DEF Unit, Open
    <1>7. ~ending => total_consumed + Len(queue) - 0 <= Bound(tag, consHand')
        BY <1>2, <1>4, <1>5, <1>6 DEF LagInv
    <1>8. ASSUME ~ending, NEW i \in DOMAIN result_queue'
          PROVE  total_consumed + Len(queue) + 1 + i - 1 <= Bound(tag, result_queue'[i])
        <2>1. i + 1 \in DOMAIN result_queue /\ result_queue'[i] = result_queue[i + 1] /\ i \in Nat
              /\ result_queue[i + 1] \in Sample
            BY <1>1, <1>2
        <2>2. total_consumed + Len(queue) + 0 + (i + 1) - 1 <= Bound(tag, result_queue[i + 1])
            BY <1>4, <1>6, <1>8, <2>1 DEF LagInv
        <2> QED
            BY <1>2, <2>1, <2>2
    <1>9. Unit(mainPc' \in {"answered", "done"}) = 0
        BY <1>1, <1>6
    <1>10. /\ ~ending' => ~ending /\ queue' = queue /\ total_consumed' = total_consumed
           /\ batch' = batch /\ trainer_version' = trainer_version
        BY <1>1
    <1>11. ASSUME ~ending
           PROVE  /\ \A i \in DOMAIN queue' : Unended(i, queue') => total_consumed' + i - 1 <= Bound(tag', queue'[i])
                  /\ \A s \in batch' : trainer_version' * PerVersion <= Bound(tag', s)
        BY <1>1, <1>3, <1>9, <1>11 DEF LagInv
    <1>12. ASSUME ~ending
           PROVE  /\ total_consumed' + Len(queue') - Unit(mainPc' \in {"answered", "done"}) <= Bound(tag', consHand')
                  /\ \A i \in DOMAIN result_queue' :
                        total_consumed' + Len(queue') + Unit(consHand' # None) + i - 1 <= Bound(tag', result_queue'[i])
        BY <1>1, <1>3, <1>6, <1>7, <1>8, <1>9, <1>12
    <1> QED
        BY <1>1, <1>11, <1>12, LagNext

(* Where a put leaves every item.                                           *)
LEMMA PutIndex ==
    ASSUME MQTypeOK, NEW x \in Item, PutSample(x)
    PROVE  /\ Len(queue') \in Nat /\ Len(queue') >= 1 /\ queue'[Len(queue')] = x
           /\ \/ /\ Len(queue') = Len(queue)
                 /\ \A i \in DOMAIN queue' : i < Len(queue') => i + 1 \in DOMAIN queue /\ queue'[i] = queue[i + 1]
              \/ /\ Len(queue') = Len(queue) + 1
                 /\ \A i \in DOMAIN queue' : i < Len(queue') => i \in DOMAIN queue /\ queue'[i] = queue[i]
    <1>1. queue # <<>> \/ ~Full
        BY MaxQueueSizeAssumption DEF Full
    <1>2. queue \in Seq(Item)
        BY DEF MQTypeOK
    <1>3. CASE Full
        <2>1. queue' = Append(Tail(queue), x) /\ queue # <<>>
            BY <1>1, <1>3 DEF PutSample
        <2>2. Tail(queue) \in Seq(Item) /\ Len(Tail(queue)) = Len(queue) - 1
            BY <1>2, <2>1
        <2>3. \A i \in DOMAIN Tail(queue) : Tail(queue)[i] = queue[i + 1] /\ i + 1 \in DOMAIN queue
            BY <1>2, <2>1
        <2>4. Len(queue') = Len(queue) /\ queue'[Len(queue')] = x
            BY <1>2, <2>1, <2>2
        <2>5. \A i \in DOMAIN queue' : i < Len(queue') => i \in DOMAIN Tail(queue) /\ queue'[i] = Tail(queue)[i]
            BY <1>2, <2>1, <2>2
        <2>6. \A i \in DOMAIN queue' : i < Len(queue') => i + 1 \in DOMAIN queue /\ queue'[i] = queue[i + 1]
            BY <2>3, <2>5
        <2>7. Len(queue') \in Nat /\ Len(queue') >= 1
            BY <1>2, <2>1, <2>4
        <2> QED
            BY <2>4, <2>6, <2>7
    <1>4. CASE ~Full
        <2>1. queue' = Append(queue, x)
            BY <1>4 DEF PutSample
        <2> QED
            BY <1>2, <2>1
    <1> QED
        BY <1>3, <1>4

(* Behind the finish signal there can be one sample, the put of a cancelled *)
(* consumer, and then there is no other.                                   *)
TailInv == \A i \in DOMAIN queue : queue[i] = Sentinel => i = Len(queue) \/ consPc = "off"

LEMMA TailStep ==
    ASSUME TypeInv, EndInv, TailInv, [Next]_vars
    PROVE  TailInv'
    <1>0. TypeOK /\ MQTypeOK /\ Sentinel \in Item /\ Sample \subseteq Item /\ Sentinel \notin Sample
          /\ queue \in Seq(Item)
        BY RollouterAssumption DEF TypeInv, TypeOK, MQTypeOK
    <1>1. CASE (ConsDeliver \/ OrphanDeliver) /\ UNCHANGED trainerVars
        <2>1. PutSample(consHand) /\ consHand \in Sample
            BY <1>1 DEF ConsDeliver, OrphanDeliver, TypeInv, TypeOK, HandInv
        <2>2. consPc' = "off" \/ (ConsDeliver /\ Sentinel \notin Elements(queue))
            BY <1>1 DEF ConsDeliver, OrphanDeliver, EndInv
        <2>3. Sentinel \notin Elements(queue) => \A i \in DOMAIN queue' : queue'[i] # Sentinel
            <3>1. \A s \in Elements(queue') : s = consHand \/ s \in Elements(queue)
                BY <1>0, <2>1, PutShape
            <3> QED
                BY <1>0, <2>1, <3>1 DEF Elements
        <2> QED
            BY <2>2, <2>3 DEF TailInv
    <1>2. CASE MainSignal /\ UNCHANGED trainerVars
        <2>1. PutSample(Sentinel) /\ Sentinel \notin Elements(queue)
            BY <1>2 DEF MainSignal, EndInv
        <2>2. \A i \in DOMAIN queue' : i < Len(queue') => queue'[i] \in Elements(queue)
            BY <1>0, <2>1, PutShape
        <2>3. queue' \in Seq(Item)
            BY <1>0, <2>1, PutShape
        <2> QED
            BY <2>1, <2>2, <2>3 DEF TailInv
    <1>3. CASE Collect
        <2>1. queue # <<>> /\ queue' = Tail(queue) /\ consPc' = consPc
            BY <1>3 DEF Collect, GetSample, rollVars, consVars
        <2> QED
            BY <1>0, <2>1 DEF TailInv
    <1>4. CASE (ConsTake \/ MainStep) /\ UNCHANGED trainerVars
        <2>1. queue' = queue /\ Open
            BY <1>4 DEF ConsTake, MainStep, mqVars, Open, EndInv
        <2>2. Sentinel \notin Elements(queue)
            BY <2>1 DEF EndInv
        <2> QED
            BY <2>1, <2>2 DEF TailInv, Elements
    <1>5. CASE UNCHANGED <<queue, consPc>>
        BY <1>5 DEF TailInv
    <1>6. CASE ConsAck
        <2>1. queue' = queue /\ consPc # "off"
            BY <1>6 DEF ConsAck, mqVars
        <2> QED
            BY <2>1 DEF TailInv
    <1>7. CASE (Feed \/ Processor \/ Monitor \/ Pause \/ Resume \/ Update \/ MainStop) /\ UNCHANGED trainerVars
        <2>1. UNCHANGED <<queue, consPc>>
            <3>1. CASE Feed \/ Processor
                BY <3>1 DEF Feed, Processor, ProcTop, ProcGet, ProcMark, ProcLoopTest, ProcCollect,
                   ProcAwait, ProcCondition, ProcWake, procFrame, mqVars, consVars
            <3>2. CASE Monitor \/ Update \/ MainStop
                BY <3>2 DEF Monitor, MonTick, MonResume, MonCheckRunning, monFrame, Update, UpdateEnter,
                   UpdateAssign, UpdateFinish, updateFrame, rpcFrame, MainStop, mqVars, consVars
            <3>3. CASE Pause \/ Resume
                BY <3>3 DEF Pause, PauseEnter, PauseCancel, PauseGather, PauseFinish, pauseFrame, Resume,
                   ResumeEnter, ResumeServers, ResumeFinish, resumeFrame, rpcFrame, mqVars, consVars
            <3> QED
                BY <1>7, <3>1, <3>2, <3>3
        <2> QED
            BY <2>1 DEF TailInv
    <1>8. CASE (\E s \in Sample : Task(s) \/ TaskFail(s))
               \/ \E p \in {"pause", "update", "resume", "main"} : JoinLockQueue(p)
        <2>1. UNCHANGED <<queue, consPc>>
            BY <1>8 DEF Task, TaskStart, ServerAbort, TaskFinish, TaskCancelled, TaskFail, taskFrame,
               JoinLockQueue, rpcFrame, mqVars, consVars
        <2> QED
            BY <2>1 DEF TailInv
    <1>9. CASE UpdateResetsStaleness
        <2>1. queue' = queue /\ (consPc' = consPc \/ consPc # "off")
            BY <1>9 DEF UpdateResetsStaleness, UpdateReadSize, sizeFrame, mqVars
        <2> QED
            BY <2>1 DEF TailInv
    <1>10. CASE SleepOnQueue \/ Train \/ FinalSync \/ CallPause \/ LabelQueue \/ TransferWeights
                  \/ LaunchUpdate \/ TrainerDone \/ StartResume \/ UNCHANGED vars
        <2>1. UNCHANGED <<queue, consPc>>
            BY <1>10 DEF SleepOnQueue, WaitSample, Train, FinalSync, CallPause, LabelQueue,
               SetQueueVersion, TransferWeights, LaunchUpdate, TrainerDone, StartResume, handlersFrame,
               rollVars, consVars, vars, mqVars
        <2> QED
            BY <2>1 DEF TailInv
    <1> QED
        BY <1>1, <1>2, <1>3, <1>4, <1>6, <1>7, <1>8, <1>9, <1>10
           DEF Next, RollouterStep, Consumer, Main, Trainer, Finished

(* from there into the message queue, which may be full,                    *)
LEMMA LagDeliver ==
    ASSUME TypeInv, EndInv, TailInv, LagInv, ConsDeliver \/ OrphanDeliver, UNCHANGED trainerVars
    PROVE  LagInv'
    <1>0. TypeOK
        BY DEF TypeInv
    <1>1. /\ PutSample(consHand) /\ consHand' = None
          /\ UNCHANGED <<mainPc, result_queue, batch, ending, trainer_version, tag>>
          /\ consPc \in {"sent", "behind", "orphan"}
        BY DEF ConsDeliver, OrphanDeliver, consFrame, taskVars, trainerVars
    <1>2. /\ queue \in Seq(Item) /\ MQTypeOK /\ total_consumed \in Nat /\ Len(queue) \in Nat
          /\ None \notin Sample /\ Sentinel \notin Sample /\ Item = Sample \cup {Sentinel}
          /\ (\A s \in Sample : Bound(tag, s) \in Int) /\ result_queue \in Seq(Sample)
        BY <1>0, LagTypes DEF TypeOK
    <1>3. consHand \in Sample /\ consHand # None
        BY <1>0, <1>1, <1>2 DEF TypeInv, HandInv, TypeOK
    <1>4. total_consumed' = total_consumed
        BY <1>1 DEF PutSample
    <1>5. /\ Len(queue') \in Nat /\ Len(queue') >= 1 /\ queue'[Len(queue')] = consHand
          /\ \/ /\ Len(queue') = Len(queue)
                /\ \A i \in DOMAIN queue' : i < Len(queue') => i + 1 \in DOMAIN queue /\ queue'[i] = queue[i + 1]
             \/ /\ Len(queue') = Len(queue) + 1
                /\ \A i \in DOMAIN queue' : i < Len(queue') => i \in DOMAIN queue /\ queue'[i] = queue[i]
        BY <1>1, <1>2, <1>3, PutIndex
    <1>6. queue' \in Seq(Item)
        BY <1>1, <1>2, <1>3, PutShape
    <1>7. ASSUME ~ending, NEW i \in DOMAIN queue', Unended(i, queue')
          PROVE  total_consumed + i - 1 <= Bound(tag, queue'[i])
        <2>0. i \in Nat /\ i >= 1 /\ i <= Len(queue')
            BY <1>6
        <2> DEFINE u == Unit(mainPc \in {"answered", "done"})
                   k == Bound(tag, consHand)
        <2>1. total_consumed + Len(queue) - u <= k /\ u \in {0, 1} /\ k \in Int
            BY <1>2, <1>3, <1>7 DEF LagInv, Unit
        <2>2. CASE i = Len(queue')
            <3>1. Len(queue') = Len(queue) \/ (Len(queue') = Len(queue) + 1 /\ u = 0)
                <4>1. ASSUME Len(queue') = Len(queue) + 1, u # 0
                      PROVE  FALSE
                    <5>1. mainPc \in {"answered", "done"} /\ consPc = "orphan"
                        BY <1>1, <4>1 DEF EndInv, Unit, Open
                    <5>2. Sentinel \in Elements(queue)
                        BY <1>7, <5>1 DEF EndInv
                    <5>3. PICK j \in DOMAIN queue : queue[j] = Sentinel
                        BY <5>2 DEF Elements
                    <5>4. j \in DOMAIN queue' /\ j < Len(queue')
                        BY <1>2, <1>5, <1>6, <4>1
                    <5>5. queue'[j] = queue[j]
                        BY <1>2, <1>5, <4>1, <5>4
                    <5>6. j \in 1..i
                        BY <1>2, <2>0, <2>2, <5>4
                    <5> QED
                        BY <1>7, <5>3, <5>5, <5>6 DEF Unended
                <4> QED
                    BY <1>5, <2>1, <4>1
            <3> HIDE DEF u, k
            <3>2. total_consumed + i - 1 <= k
                BY <1>2, <2>1, <2>2, <3>1
            <3> QED
                BY <1>5, <2>2, <3>2 DEF k
        <2>3. CASE i < Len(queue') /\ Len(queue') = Len(queue)
            <3>1. i + 1 \in DOMAIN queue /\ queue'[i] = queue[i + 1]
                BY <1>2, <1>5, <2>3
            <3>2. queue[1] # Sentinel
                BY <1>1, <1>2, <2>0, <2>3 DEF TailInv
            <3>3. Unended(i + 1, queue)
                <4> SUFFICES ASSUME NEW j \in 1..(i + 1) PROVE queue[j] # Sentinel
                    BY DEF Unended
                <4>1. CASE j = 1
                    BY <3>2, <4>1
                <4>2. CASE j # 1
                    <5>1. j - 1 \in DOMAIN queue' /\ j - 1 < Len(queue') /\ j - 1 \in 1..i
                        BY <1>6, <2>0, <2>3, <4>2
                    <5>2. queue'[j - 1] = queue[(j - 1) + 1] /\ (j - 1) + 1 = j
                        BY <1>2, <1>5, <2>0, <2>3, <5>1
                    <5> QED
                        BY <1>7, <5>1, <5>2 DEF Unended
                <4> QED
                    BY <4>1, <4>2
            <3>4. total_consumed + (i + 1) - 1 <= Bound(tag, queue[i + 1])
                BY <1>7, <3>1, <3>3 DEF LagInv
            <3>5. queue[i + 1] \in Sample
                BY <1>2, <3>1, <3>3, <2>0 DEF Unended
            <3> QED
                BY <1>2, <2>0, <3>1, <3>4, <3>5
        <2>4. CASE i < Len(queue') /\ Len(queue') = Len(queue) + 1
            <3>1. \A j \in 1..i : j \in DOMAIN queue /\ queue'[j] = queue[j]
                <4>1. Len(queue') # Len(queue)
                    BY <1>2, <2>4
                <4>2. \A j \in DOMAIN queue' : j < Len(queue') => j \in DOMAIN queue /\ queue'[j] = queue[j]
                    BY <1>5, <4>1
                <4>3. \A j \in 1..i : j \in DOMAIN queue' /\ j < Len(queue')
                    BY <1>5, <1>6, <2>0, <2>4
                <4> QED
                    BY <4>2, <4>3
            <3>2. Unended(i, queue) /\ i \in DOMAIN queue /\ queue'[i] = queue[i]
                BY <1>7, <2>0, <3>1 DEF Unended
            <3> QED
                BY <1>7, <3>2 DEF LagInv
        <2> QED
            BY <1>5, <2>0, <2>2, <2>3, <2>4
    <1>8. ASSUME ~ending, Open, NEW i \in DOMAIN result_queue
          PROVE  total_consumed + Len(queue') + Unit(consHand' # None) + i - 1 <= Bound(tag, result_queue[i])
        <2>1. Unit(consHand # None) = 1 /\ Unit(consHand' # None) = 0
            BY <1>1, <1>3 DEF Unit
        <2>2. total_consumed + Len(queue) + 1 + i - 1 <= Bound(tag, result_queue[i])
            BY <1>8, <2>1 DEF LagInv
        <2>3. Bound(tag, result_queue[i]) \in Int /\ i \in Nat
            BY <1>2
        <2> DEFINE k == Bound(tag, result_queue[i])
        <2> HIDE DEF k
        <2>4. total_consumed + Len(queue') + 0 + i - 1 <= k
            <3>1. Len(queue') <= Len(queue) + 1
                BY <1>2, <1>5
            <3> QED
                BY <1>2, <1>5, <2>2, <2>3, <3>1 DEF k
        <2> QED
            BY <2>1, <2>4 DEF k
    <1>9. ~ending => \A s \in batch : trainer_version * PerVersion <= Bound(tag, s)
        BY DEF LagInv
    <1>10. Open' = Open
        BY <1>1 DEF Open
    <1> QED
        BY <1>1, <1>4, <1>7, <1>8, <1>9, <1>10, LagNext

(* the finish signal behind it,                                             *)
LEMMA LagSignal ==
    ASSUME TypeInv, EndInv, LagInv, MainSignal, UNCHANGED trainerVars
    PROVE  LagInv'
    <1>0. TypeOK
        BY DEF TypeInv
    <1>1. /\ PutSample(Sentinel) /\ mainPc = "signal" /\ mainPc' = "answered"
          /\ UNCHANGED <<consHand, result_queue, batch, ending, trainer_version, tag>>
        BY DEF MainSignal, mainFrame, queues, consVars, taskVars, trainerVars
    <1>2. /\ queue \in Seq(Item) /\ MQTypeOK /\ total_consumed \in Nat /\ Len(queue) \in Nat
          /\ None \notin Sample /\ Sentinel \notin Sample /\ Item = Sample \cup {Sentinel}
          /\ \A s \in Sample : Bound(tag, s) \in Int
        BY <1>0, LagTypes DEF TypeOK
    <1>3. Sentinel \notin Elements(queue)
        BY <1>1 DEF EndInv
    <1>4. total_consumed' = total_consumed
        BY <1>1 DEF PutSample
    <1>5. /\ Len(queue') \in Nat /\ Len(queue') >= 1 /\ queue'[Len(queue')] = Sentinel
          /\ \/ /\ Len(queue') = Len(queue)
                /\ \A i \in DOMAIN queue' : i < Len(queue') => i + 1 \in DOMAIN queue /\ queue'[i] = queue[i + 1]
             \/ /\ Len(queue') = Len(queue) + 1
                /\ \A i \in DOMAIN queue' : i < Len(queue') => i \in DOMAIN queue /\ queue'[i] = queue[i]
        BY <1>1, <1>2, PutIndex
    <1>6. queue' \in Seq(Item)
        BY <1>1, <1>2, PutShape
    <1>7. ASSUME ~ending, NEW i \in DOMAIN queue', Unended(i, queue')
          PROVE  total_consumed + i - 1 <= Bound(tag, queue'[i])
        <2>0. i \in Nat /\ i >= 1 /\ i <= Len(queue')
            BY <1>6
        <2>1. i < Len(queue')
            BY <1>5, <1>7, <2>0 DEF Unended
        <2>2. PICK m \in DOMAIN queue : queue'[i] = queue[m] /\ m >= i
            BY <1>2, <1>5, <2>0, <2>1
        <2>3. m \in Nat /\ queue[m] \in Sample /\ Unended(m, queue)
            BY <1>2, <1>3, <2>2 DEF Elements, Unended
        <2>4. total_consumed + m - 1 <= Bound(tag, queue[m])
            BY <1>7, <2>3 DEF LagInv
        <2> QED
            BY <1>2, <2>0, <2>2, <2>3, <2>4
    <1>8. ASSUME ~ending, consHand # None
          PROVE  total_consumed + Len(queue') - Unit(mainPc' \in {"answered", "done"}) <= Bound(tag, consHand)
        <2>1. Unit(mainPc \in {"answered", "done"}) = 0 /\ Unit(mainPc' \in {"answered", "done"}) = 1
            BY <1>1 DEF Unit
        <2>2. consHand \in Sample
            BY <1>0, <1>8 DEF TypeOK
        <2>3. total_consumed + Len(queue) - 0 <= Bound(tag, consHand)
            BY <1>8, <2>1 DEF LagInv
        <2>4. Len(queue') <= Len(queue) + 1
            BY <1>2, <1>5
        <2> QED
            BY <1>2, <1>5, <2>1, <2>2, <2>3, <2>4
    <1>9. ~ending => \A s \in batch : trainer_version * PerVersion <= Bound(tag, s)
        BY DEF LagInv
    <1>10. ~Open'
        BY <1>1 DEF Open
    <1> QED
        BY <1>1, <1>4, <1>7, <1>8, <1>9, <1>10, LagNext

(* and into the batch.                                                      *)
LEMMA LagCollect ==
    ASSUME TypeInv, EndInv, PaceInv, LagInv, Collect
    PROVE  LagInv'
    <1>0. TypeOK
        BY DEF TypeInv
    <1>1. /\ queue # <<>> /\ queue' = Tail(queue) /\ total_consumed' = total_consumed + 1
          /\ trainerPc = "collect"
          /\ UNCHANGED <<consHand, mainPc, result_queue, trainer_version, tag>>
        BY DEF Collect, GetSample, rollVars, consVars, taskVars, queues
    <1>2. /\ queue \in Seq(Item) /\ total_consumed \in Nat /\ Len(queue) \in Nat
          /\ None \notin Sample /\ Sentinel \notin Sample /\ Item = Sample \cup {Sentinel}
          /\ (\A s \in Sample : Bound(tag, s) \in Int) /\ result_queue \in Seq(Sample)
          /\ trainer_version * PerVersion \in Int
        BY <1>0, LagTypes
    <1>3. CASE Head(queue) = Sentinel
        <2>1. ending'
            BY <1>3 DEF Collect
        <2> QED
            BY <2>1, LagNext
    <1>4. CASE Head(queue) # Sentinel
        <2>1. batch' = batch \cup {Head(queue)} /\ ending' = ending /\ ~ending
            BY <1>1, <1>4 DEF Collect, EndInv
        <2>2. Len(queue') = Len(queue) - 1 /\ Len(queue') \in Nat
            BY <1>1, <1>2
        <2>3. ASSUME NEW i \in DOMAIN queue', Unended(i, queue')
              PROVE  total_consumed' + i - 1 <= Bound(tag, queue'[i])
            <3>1. /\ i \in Nat /\ i >= 1 /\ i + 1 \in DOMAIN queue /\ queue'[i] = queue[i + 1]
                BY <1>1, <1>2
            <3>2. \A j \in 1..i : queue'[j] = queue[j + 1]
                BY <1>1, <1>2, <3>1
            <3>3. Unended(i + 1, queue)
                <4> SUFFICES ASSUME NEW j \in 1..(i + 1) PROVE queue[j] # Sentinel
                    BY DEF Unended
                <4>1. CASE j = 1
                    BY <1>1, <1>2, <1>4, <4>1
                <4>2. CASE j # 1
                    <5>1. j - 1 \in 1..i /\ (j - 1) + 1 = j
                        BY <3>1, <4>2
                    <5>2. queue'[j - 1] = queue[j]
                        BY <3>2, <5>1
                    <5> QED
                        BY <2>3, <5>1, <5>2 DEF Unended
                <4> QED
                    BY <4>1, <4>2
            <3>4. total_consumed + (i + 1) - 1 <= Bound(tag, queue[i + 1])
                BY <2>1, <3>1, <3>3 DEF LagInv
            <3>5. queue[i + 1] \in Sample
                BY <1>2, <3>1, <3>3 DEF Unended
            <3> QED
                BY <1>1, <1>2, <3>1, <3>4, <3>5
        <2>4. ASSUME consHand # None
              PROVE  total_consumed' + Len(queue') - Unit(mainPc' \in {"answered", "done"}) <= Bound(tag, consHand)
            <3>1. total_consumed + Len(queue) - Unit(mainPc \in {"answered", "done"}) <= Bound(tag, consHand)
                BY <2>1, <2>4 DEF LagInv
            <3>2. Bound(tag, consHand) \in Int /\ Unit(mainPc \in {"answered", "done"}) \in Int
                BY <1>0, <1>2, <2>4 DEF TypeOK, Unit
            <3> QED
                BY <1>1, <1>2, <2>2, <3>1, <3>2
        <2>5. ASSUME Open, NEW i \in DOMAIN result_queue
              PROVE  total_consumed' + Len(queue') + Unit(consHand # None) + i - 1 <= Bound(tag, result_queue[i])
            <3>1. total_consumed + Len(queue) + Unit(consHand # None) + i - 1 <= Bound(tag, result_queue[i])
                BY <2>1, <2>5 DEF LagInv
            <3>2. Bound(tag, result_queue[i]) \in Int /\ Unit(consHand # None) \in Int /\ i \in Int
                BY <1>2 DEF Unit
            <3> QED
                BY <1>1, <1>2, <2>2, <3>1, <3>2
        <2>6. ASSUME NEW s \in batch'
              PROVE  trainer_version * PerVersion <= Bound(tag, s)
            <3>1. CASE s \in batch
                BY <2>1, <3>1 DEF LagInv
            <3>2. CASE s \notin batch
                <4>1. s = queue[1] /\ 1 \in DOMAIN queue /\ s \in Sample
                    BY <1>1, <1>2, <1>4, <2>1, <3>2
                <4>2. Unended(1, queue)
                    BY <1>2, <4>1 DEF Unended
                <4>3. total_consumed + 1 - 1 <= Bound(tag, s)
                    BY <2>1, <4>1, <4>2 DEF LagInv
                <4> DEFINE m == (local_trigger_step - 1) * RequiredSamples + Cardinality(batch)
                           v == trainer_version * PerVersion
                <4>4. total_consumed = v + m
                    BY <2>1 DEF PaceInv
                <4>5. m \in Nat
                    <5>1. Cardinality(batch) \in 0..RequiredSamples
                        BY <1>0, PaceTypes DEF PaceInv
                    <5> QED
                        BY <1>0, <5>1, PaceTypes, PartOfVersion
                <4> HIDE DEF m, v
                <4>6. v <= Bound(tag, s)
                    BY <1>2, <4>1, <4>3, <4>4, <4>5 DEF v
                <4> QED
                    BY <4>6 DEF v
            <3> QED
                BY <3>1, <3>2
        <2>7. Open' = Open
            BY <1>1 DEF Open
        <2> QED
            BY <1>1, <2>1, <2>3, <2>4, <2>5, <2>6, <2>7, LagNext
    <1> QED
        BY <1>3, <1>4

LEMMA LagStep ==
    ASSUME TypeInv, BooksInv, EndInv, FlowInv, ThrottleInv, PaceInv, TailInv, LagInv, [Next]_vars
    PROVE  LagInv'
    <1>0. TypeInv'
        BY TypeStep
    <1>1. CASE (\E s \in Sample : Task(s) \/ TaskFail(s)) /\ UNCHANGED trainerVars
        <2>1. CASE \E s \in Sample : TaskFinish(s)
            BY <1>0, <1>1, <2>1, LagFinish
        <2>2. CASE \E s \in Sample : TaskStart(s) \/ ServerAbort(s) \/ TaskCancelled(s) \/ TaskFail(s)
            <3>1. UNCHANGED lagVars /\ mainPc' = mainPc
                BY <1>1, <2>2 DEF TaskStart, ServerAbort, TaskCancelled, TaskFail, taskFrame, mqVars,
                   counters, consVars, trainerVars, lagVars
            <3> QED
                BY <3>1, LagFrame DEF Open
        <2> QED
            BY <1>1, <2>1, <2>2 DEF Task
    <1>2. CASE Consumer /\ UNCHANGED trainerVars
        <2>1. CASE ConsAck
            <3>1. UNCHANGED lagVars /\ mainPc' = mainPc
                BY <1>2, <2>1 DEF ConsAck, consFrame, taskVars, mqVars, counters, trainerVars, lagVars
            <3> QED
                BY <3>1, LagFrame DEF Open
        <2> QED
            BY <1>2, <2>1, LagTake, LagDeliver DEF Consumer
    <1>3. CASE Main /\ UNCHANGED trainerVars
        <2>1. CASE MainStep \/ MainStop
            <3>1. /\ UNCHANGED lagVars /\ (Open' => Open)
                  /\ mainPc' \in {"answered", "done"} <=> mainPc \in {"answered", "done"}
                BY <1>3, <2>1 DEF MainStep, MainStop, mainFrame, queues, taskVars, consVars, mqVars,
                   counters, trainerVars, lagVars, Open
            <3> QED
                BY <3>1, LagFrame
        <2> QED
            BY <1>3, <2>1, LagSignal DEF Main
    <1>4. CASE (Feed \/ Processor \/ Monitor \/ Pause \/ Resume \/ Update
                  \/ \E p \in {"pause", "update", "resume", "main"} : JoinLockQueue(p))
                /\ UNCHANGED trainerVars
        <2>1. Feed \/ Processor => UNCHANGED <<queue, total_consumed, consHand, result_queue, tag, mainPc>>
            BY DEF Feed, Processor, ProcTop, TakePending, TakeInterrupted, ProcGet, ProcMark, ProcLoopTest,
               ProcCollect, ProcAwait, ProcCondition, ProcWake, procFrame, queues, taskVars, mqVars,
               counters, consVars
        <2>2. Monitor \/ Update => UNCHANGED <<queue, total_consumed, consHand, result_queue, tag, mainPc>>
            BY DEF Monitor, MonTick, MonResume, MonCheckRunning, monFrame, Update, UpdateEnter,
               UpdateAssign, UpdateFinish, updateFrame, rpcFrame, queues, taskVars, mqVars, counters,
               consVars
        <2>3. Pause \/ Resume => UNCHANGED <<queue, total_consumed, consHand, result_queue, tag, mainPc>>
            BY DEF Pause, PauseEnter, PauseCancel, PauseGather, PauseFinish, pauseFrame, Resume,
               ResumeEnter, ResumeServers, ResumeFinish, resumeFrame, rpcFrame, queues, mqVars, counters,
               consVars
        <2>4. (\E p \in {"pause", "update", "resume", "main"} : JoinLockQueue(p))
                 => UNCHANGED <<queue, total_consumed, consHand, result_queue, tag, mainPc>>
            BY DEF JoinLockQueue, rpcFrame, queues, mqVars, counters, consVars
        <2>5. UNCHANGED lagVars /\ mainPc' = mainPc
            BY <1>4, <2>1, <2>2, <2>3, <2>4 DEF trainerVars, lagVars
        <2> QED
            BY <2>5, LagFrame DEF Open
    <1>5. CASE Collect
        BY <1>5, LagCollect
    <1>6. CASE Train \/ FinalSync
        <2>1. /\ batch' = {}
              /\ UNCHANGED <<ending, queue, total_consumed, consHand, result_queue, tag, mainPc>>
            BY <1>6 DEF Train, FinalSync, mqVars, counters, rollVars, queues, taskVars, consVars
        <2>2. Open' = Open /\ Unit(mainPc' \in {"answered", "done"}) = Unit(mainPc \in {"answered", "done"})
            BY <2>1 DEF Open, Unit
        <2> QED
            BY <2>1, <2>2, LagNext DEF LagInv
    <1>7. CASE \/ SleepOnQueue \/ CallPause \/ LabelQueue \/ TransferWeights \/ LaunchUpdate \/ TrainerDone
               \/ StartResume \/ UpdateResetsStaleness \/ UNCHANGED vars
        <2>1. UNCHANGED lagVars /\ mainPc' = mainPc
            BY <1>7 DEF SleepOnQueue, WaitSample, CallPause, LabelQueue, SetQueueVersion, TransferWeights,
               LaunchUpdate, TrainerDone, StartResume, UpdateResetsStaleness, UpdateReadSize, sizeFrame,
               syncFrame, handlersFrame, trainerVars, rollVars, queues, taskVars, consVars, vars, mqVars,
               counters, lagVars
        <2> QED
            BY <2>1, LagFrame DEF Open
    <1> QED
        BY <1>1, <1>2, <1>3, <1>4, <1>5, <1>6, <1>7 DEF Next, RollouterStep, Trainer, Finished

(* From positions to versions: a quotient.                                  *)
LEMMA LagHolds ==
    ASSUME TypeInv, EndInv, PaceInv, LagInv
    PROVE  BoundedLag
    <1>0. TypeOK
        BY DEF TypeInv
    <1> SUFFICES ASSUME NEW s \in ForTraining
                 PROVE  trainer_version - tag[s] <= 1 + (MaxRequired + Uncounted - 1) \div PerVersion
        BY DEF BoundedLag
    <1>1. ~ending
        BY DEF ForTraining
    <1> DEFINE v == trainer_version
               P == PerVersion
               M == MaxRequired + Uncounted - 1
               m == (local_trigger_step - 1) * RequiredSamples + Cardinality(batch)
               k == total_consumed
    <1>2. /\ v \in Nat /\ P \in Nat \ {0} /\ k \in Nat /\ v * P \in Int
        BY <1>0, PaceTypes
    <1>3. M \in Nat /\ M = MaxRequired + Slip
        BY <1>0, ThrottleTypes, RollouterAssumption
    <1>4. k = v * P + m /\ m \in Nat
        <2>1. Cardinality(batch) \in 0..RequiredSamples
            BY <1>0, PaceTypes DEF PaceInv
        <2> QED
            BY <1>0, <1>1, <2>1, PaceTypes, PartOfVersion DEF PaceInv
    <1>5. s \in Sample /\ v * P <= (tag[s] + 1) * P + M
        <2>1. CASE s \in batch
            <3>1. s \in Sample
                BY <1>0, <2>1 DEF TypeOK
            <3>2. v * P <= Bound(tag, s)
                BY <1>1, <2>1 DEF LagInv
            <3> DEFINE w == (tag[s] + 1) * P
            <3>3. Bound(tag, s) = w + MaxRequired + Slip
                BY DEF Bound
            <3>4. w \in Int /\ MaxRequired \in Int /\ Slip \in Int
                <4>1. tag[s] + 1 \in Int
                    BY <1>0, <3>1 DEF TypeOK
                <4> QED
                    BY <1>0, <1>2, <4>1, Distribute, ThrottleTypes
            <3> HIDE DEF w, v, P, M
            <3>5. v * P <= w + M
                BY <1>2, <1>3, <3>2, <3>3, <3>4
            <3> QED
                BY <3>1, <3>5 DEF w
        <2>2. CASE s \notin batch
            <3>1. PICK i \in DOMAIN queue : s = queue[i] /\ Unended(i, queue)
                BY <1>1, <2>2 DEF ForTraining, Unended
            <3>2. queue \in Seq(Item) /\ Item = Sample \cup {Sentinel}
                BY <1>0, LagTypes
            <3>3. s \in Sample /\ i \in Nat /\ i >= 1
                BY <3>1, <3>2 DEF Unended
            <3>4. k + i - 1 <= Bound(tag, s)
                BY <1>1, <3>1 DEF LagInv
            <3> DEFINE w == (tag[s] + 1) * P
            <3>5. Bound(tag, s) = w + MaxRequired + Slip
                BY DEF Bound
            <3>6. w \in Int /\ MaxRequired \in Int /\ Slip \in Int
                <4>1. tag[s] + 1 \in Int
                    BY <1>0, <3>3 DEF TypeOK
                <4> QED
                    BY <1>0, <1>2, <4>1, Distribute, ThrottleTypes
            <3> DEFINE u == v * P
            <3>7. u \in Int /\ k = u + m
                BY <1>2, <1>4
            <3> HIDE DEF w, u, M, m, k
            <3>8. u <= w + M
                BY <1>2, <1>3, <1>4, <3>3, <3>4, <3>5, <3>6, <3>7
            <3> QED
                BY <3>3, <3>8 DEF w, u
        <2> QED
            BY <2>1, <2>2
    <1>6. tag[s] \in Nat
        BY <1>0, <1>5 DEF TypeOK
    <1> DEFINE x == v - tag[s] - 1
    <1>7. x * P = v * P - (tag[s] + 1) * P /\ x \in Int
        <2> DEFINE t == tag[s]
        <2>1. t \in Nat
            BY <1>6
        <2> HIDE DEF t, v, P
        <2>2. (v - t - 1) * P = v * P - (t + 1) * P
            BY <1>2, <2>1
        <2> QED
            BY <1>2, <1>6, <2>2 DEF t
    <1>8. x * P <= M
        <2>1. (tag[s] + 1) * P \in Int
            BY <1>2, <1>6, Distribute
        <2> DEFINE a == v * P
                   b == (tag[s] + 1) * P
        <2>2. a <= b + M /\ x * P = a - b /\ a \in Int /\ b \in Int
            BY <1>2, <1>5, <1>7, <2>1
        <2> HIDE DEF a, b, x, P, M
        <2> QED
            BY <1>3, <2>2
    <1>9. x <= M \div P
        BY <1>2, <1>3, <1>7, <1>8, Quotient
    <1>10. M \div P \in Int
        BY <1>2, <1>3
    <1> HIDE DEF M, P
    <1>11. v - tag[s] <= 1 + M \div P
        BY <1>2, <1>6, <1>9, <1>10
    <1> QED
        BY <1>11 DEF M, P

(* What waits for training lags the trainer by one version, and by as many  *)
(* more as the samples the throttle lets through fill.                     *)
THEOREM LagIsBounded == Spec => []BoundedLag
    <1>1. Init => HandshakeInv
        BY DEF Init, RollInit, HandshakeInv, Syncing, Ahead
    <1>2. Init => TailInv /\ LagInv
        BY DEF Init, MQInit, RollInit, TailInv, LagInv
    <1> QED
        BY <1>1, <1>2, TypeInit, TypeStep, EndInit, EndStep, BooksInit, BooksStep, FlowInit, FlowStep,
           HandshakeStep, ThrottleInit, ThrottleStep, PaceInit, PaceStep, TailStep, LagStep, LagHolds,
           PTL DEF Spec

-----------------------------------------------------------------------------
(* The abstract stream: every step of the pipeline starts, uses or loses    *)
(* one sample, ends the stream, publishes a version, or hides from it.      *)

(* What a queue holds after an append ...                                   *)
LEMMA ElementsAppend ==
    ASSUME NEW S, NEW q \in Seq(S), NEW x \in S
    PROVE  Elements(Append(q, x)) = Elements(q) \cup {x}
    <1> DEFINE r == Append(q, x)
    <1>1. /\ r \in Seq(S) /\ Len(r) = Len(q) + 1 /\ Len(q) \in Nat
          /\ \A i \in 1..Len(q) : r[i] = q[i]
          /\ r[Len(q) + 1] = x
        OBVIOUS
    <1>2. DOMAIN q = 1..Len(q) /\ DOMAIN r = 1..(Len(q) + 1)
        OBVIOUS
    <1> HIDE DEF r
    <1>3. ASSUME NEW e PROVE e \in Elements(r) <=> e \in Elements(q) \cup {x}
        <2>1. \A i \in 1..(Len(q) + 1) : i \in 1..Len(q) \/ i = Len(q) + 1
            BY <1>1
        <2>2. 1..Len(q) \subseteq 1..(Len(q) + 1) /\ Len(q) + 1 \in 1..(Len(q) + 1)
            BY <1>1
        <2> QED
            BY <1>1, <1>2, <2>1, <2>2 DEF Elements
    <1> QED
        BY <1>3 DEF r

(* ... and after a removal at the head.                                     *)
LEMMA ElementsTail ==
    ASSUME NEW S, NEW q \in Seq(S), q # <<>>
    PROVE  Elements(q) = Elements(Tail(q)) \cup {Head(q)} /\ Tail(q) \in Seq(S) /\ Head(q) \in S
    <1> DEFINE r == Tail(q)
    <1>1. /\ r \in Seq(S) /\ Len(r) = Len(q) - 1 /\ Len(q) \in Nat /\ Len(q) >= 1
          /\ \A i \in 1..(Len(q) - 1) : r[i] = q[i + 1]
          /\ q[1] = Head(q) /\ Head(q) \in S
        OBVIOUS
    <1>2. DOMAIN q = 1..Len(q) /\ DOMAIN r = 1..(Len(q) - 1)
        BY <1>1
    <1> HIDE DEF r
    <1>3. ASSUME NEW e PROVE e \in Elements(q) <=> e \in Elements(r) \cup {Head(q)}
        <2>1. ASSUME NEW i \in 1..Len(q), i # 1 PROVE i - 1 \in 1..(Len(q) - 1) /\ r[i - 1] = q[i]
            <3>1. i - 1 \in 1..(Len(q) - 1) /\ (i - 1) + 1 = i
                BY <1>1, <2>1
            <3>2. r[i - 1] = q[(i - 1) + 1]
                BY <1>1, <3>1
            <3> QED BY <3>1, <3>2
        <2>2. \A i \in 1..(Len(q) - 1) : i + 1 \in 1..Len(q)
            BY <1>1
        <2>3. 1 \in 1..Len(q)
            BY <1>1
        <2>4. /\ e \in Elements(q) <=> \E i \in 1..Len(q) : e = q[i]
              /\ e \in Elements(r) <=> \E i \in 1..(Len(q) - 1) : e = r[i]
            BY <1>2 DEF Elements
        <2>5. ASSUME NEW i \in 1..Len(q), e = q[i]
              PROVE  e \in Elements(r) \cup {Head(q)}
            BY <1>1, <2>1, <2>4, <2>5
        <2>6. ASSUME e \in Elements(r) \cup {Head(q)}
              PROVE  e \in Elements(q)
            BY <1>1, <2>2, <2>3, <2>4, <2>6
        <2> QED
            BY <2>4, <2>5, <2>6
    <1> QED
        BY <1>1, <1>3 DEF r

(* A queue holds no more different elements than its length.                *)
LEMMA ElementsCount ==
    ASSUME NEW S, NEW q \in Seq(S)
    PROVE  IsFiniteSet(Elements(q)) /\ Cardinality(Elements(q)) <= Len(q)
    <1> DEFINE I == 1..Len(q)
               f == [i \in I |-> q[i]]
    <1>1. Len(q) \in Nat /\ DOMAIN q = I
        OBVIOUS
    <1>2. IsFiniteSet(I) /\ Cardinality(I) = Len(q)
        BY <1>1, FS_Interval
    <1>3. Elements(q) = {f[i] : i \in I}
        BY <1>1 DEF Elements
    <1>4. f \in [I -> Elements(q)]
        BY <1>1 DEF Elements
    <1>5. \A e \in Elements(q) : \E i \in I : f[i] = e
        BY <1>1 DEF Elements
    <1> HIDE DEF I, f
    <1>6. f \in Surjection(I, Elements(q))
        BY <1>4, <1>5, Fun_IsSurj
    <1> QED
        BY <1>2, <1>6, FS_Surjection

(* Where a sample is, it is alone.                                          *)
LEMMA OneHome ==
    ASSUME TypeOK, BooksInv, NEW s \in Sample
    PROVE  /\ pending_queue # <<>> /\ s = Head(pending_queue) => s <= fed /\ s \notin Elements(Tail(pending_queue))
           /\ queue # <<>> /\ s = Head(queue) =>
                /\ s \notin Elements(Tail(queue)) \cup Elements(cancel_queue) \cup Elements(result_queue)
                /\ hand # s /\ consHand # s /\ ~InFlight(s) /\ s \notin batch \cup trained
           /\ InFlight(s) =>
                /\ s \notin Elements(queue) \cup Elements(cancel_queue) \cup Elements(result_queue)
                /\ hand # s /\ consHand # s
    <1> DEFINE p == Occurrences(s, pending_queue)
               p1 == Occurrences(s, Tail(pending_queue))
               x == Occurrences(s, cancel_queue)
               y == Occurrences(s, result_queue)
               q == Occurrences(s, queue)
               q1 == Occurrences(s, Tail(queue))
               h == Unit(hand = s)
               c == Unit(consHand = s)
               g == Unit(InFlight(s))
               b == Unit(s \in batch \cup trained)
    <1>1. p + x + y + q + h + c + g + b <= 1 /\ (s > fed => p + x + y + q + h + c + g + b = 0)
        BY CopiesSum DEF Places, BooksInv
    <1>2. p \in Nat /\ x \in Nat /\ y \in Nat /\ q \in Nat
        BY OccursInQueues
    <1>3. h \in Nat /\ c \in Nat /\ g \in Nat /\ b \in Nat
        BY DEF Unit
    <1>0. /\ pending_queue \in Seq(Sample \cup {Done}) /\ cancel_queue \in Seq(Sample)
          /\ result_queue \in Seq(Sample) /\ queue \in Seq(Item) /\ fed \in Nat /\ s \in Nat
        BY RollouterAssumption DEF TypeOK, MQTypeOK, Sample
    <1>4. /\ s \in Elements(queue) <=> q # 0
          /\ s \in Elements(cancel_queue) <=> x # 0
          /\ s \in Elements(result_queue) <=> y # 0
        BY <1>0, OccursFinite
    <1>5. /\ consHand = s <=> c # 0
          /\ hand = s <=> h # 0
          /\ InFlight(s) <=> g # 0
          /\ s \in batch \cup trained <=> b # 0
        BY DEF Unit
    <1>6. ASSUME pending_queue # <<>>, s = Head(pending_queue)
          PROVE  /\ p = p1 + 1 /\ p1 \in Nat /\ (p1 = 0 <=> s \notin Elements(Tail(pending_queue)))
        <2>1. Tail(pending_queue) \in Seq(Sample \cup {Done})
            BY <1>0, <1>6, ElementsTail
        <2>2. Occurrences(s, pending_queue)
                = Occurrences(s, Tail(pending_queue)) + (IF Head(pending_queue) = s THEN 1 ELSE 0)
            BY <1>0, <1>6, OccursTake
        <2> QED
            BY <1>6, <2>1, <2>2, OccursFinite
    <1>7. ASSUME queue # <<>>, s = Head(queue)
          PROVE  /\ q = q1 + 1 /\ q1 \in Nat /\ (q1 = 0 <=> s \notin Elements(Tail(queue)))
        <2>1. Tail(queue) \in Seq(Item)
            BY <1>0, <1>7, ElementsTail
        <2>2. Occurrences(s, queue)
                = Occurrences(s, Tail(queue)) + (IF Head(queue) = s THEN 1 ELSE 0)
            BY <1>0, <1>7, OccursTake
        <2> QED
            BY <1>7, <2>1, <2>2, OccursFinite
    <1> HIDE DEF p, x, y, q, h, c, g, b, p1, q1
    <1>8. ASSUME pending_queue # <<>>, s = Head(pending_queue)
          PROVE  s <= fed /\ s \notin Elements(Tail(pending_queue))
        <2>1. p = p1 + 1 /\ p1 \in Nat /\ (p1 = 0 <=> s \notin Elements(Tail(pending_queue)))
            BY <1>6, <1>8
        <2>2. p1 = 0 /\ p + x + y + q + h + c + g + b # 0
            BY <1>1, <1>2, <1>3, <2>1
        <2>3. ~(s > fed)
            BY <1>1, <2>2
        <2> QED
            BY <1>0, <2>1, <2>2, <2>3
    <1>9. ASSUME queue # <<>>, s = Head(queue)
          PROVE  q1 = 0 /\ x = 0 /\ y = 0 /\ h = 0 /\ c = 0 /\ g = 0 /\ b = 0
        BY <1>1, <1>2, <1>3, <1>7, <1>9
    <1>10. g # 0 => q = 0 /\ x = 0 /\ y = 0 /\ h = 0 /\ c = 0
        BY <1>1, <1>2, <1>3
    <1> QED
        BY <1>4, <1>5, <1>7, <1>8, <1>9, <1>10

(* The state of the abstract stream, by name.                               *)
Fresh == {s \in Sample : ~Taken(s)}
Away == {s \in Sample : UnderWay(s)}
Used == trained \cup batch

(* Its variables, and when it stutters.                                     *)
LEMMA StreamIs ==
    /\ Stream!streamVars = <<Fresh, Away, Used, ending, trainer_version>>
    /\ UNCHANGED <<Fresh, Away, Used, ending, trainer_version>> => UNCHANGED Stream!streamVars
    BY DEF Stream!streamVars, Fresh, Away, Used

(* A sample is away in one of six places.                                   *)
LEMMA AwayIs ==
    ASSUME NEW s \in Sample
    PROVE  /\ s \in Away <=>
                \/ s \in Elements(cancel_queue) \/ s \in Elements(result_queue)
                \/ s \in Elements(queue) \/ s = hand \/ s = consHand \/ gen[s] \in Running
           /\ s \in Away' <=>
                \/ s \in Elements(cancel_queue') \/ s \in Elements(result_queue')
                \/ s \in Elements(queue') \/ s = hand' \/ s = consHand' \/ gen'[s] \in Running
           /\ s \in Fresh <=> ~(s <= fed) \/ s \in Elements(pending_queue)
           /\ s \in Fresh' <=> ~(s <= fed') \/ s \in Elements(pending_queue')
    <1>1. s \in Away <=> UnderWay(s)
        BY DEF Away
    <1>2. s \in Away' <=> UnderWay(s)'
        BY DEF Away
    <1>3. s \in Fresh <=> ~Taken(s)
        BY DEF Fresh
    <1>4. s \in Fresh' <=> ~Taken(s)'
        BY DEF Fresh
    <1> QED
        BY <1>1, <1>2, <1>3, <1>4 DEF UnderWay, Taken, Running, Elements

(* What no step of the pipeline's samples leaves unchanged.                 *)
LEMMA StreamFrame ==
    ASSUME UNCHANGED <<fed, queues, queue, hand, consHand, gen>>
    PROVE  UNCHANGED <<Fresh, Away>>
    BY DEF Fresh, Away, UnderWay, Taken, Elements, queues

(* Bounds of two sets add up to one of their union.                         *)
LEMMA UnionBound ==
    ASSUME NEW A, NEW B, NEW m \in Nat, NEW n \in Nat, IsFiniteSet(A), IsFiniteSet(B),
           Cardinality(A) <= m, Cardinality(B) <= n
    PROVE  IsFiniteSet(A \cup B) /\ Cardinality(A \cup B) <= m + n
    <1>1. /\ IsFiniteSet(A \cup B)
          /\ Cardinality(A \cup B) = Cardinality(A) + Cardinality(B) - Cardinality(A \cap B)
        BY FS_Union
    <1>2. IsFiniteSet(A \cap B)
        BY FS_Subset
    <1>3. Cardinality(A) \in Nat /\ Cardinality(B) \in Nat /\ Cardinality(A \cap B) \in Nat
        BY <1>2, FS_CardinalityType
    <1> QED
        BY <1>1, <1>3

(* No more samples are away than the flow counts.                           *)
LEMMA AwayCount ==
    ASSUME TypeOK
    PROVE  IsFiniteSet(Away) /\ Cardinality(Away) <= Carried + Len(queue) /\ Cardinality(Away) \in Nat
    <1> DEFINE A == Elements(cancel_queue)
               B == Elements(result_queue)
               C == Elements(queue)
               H == {x \in {hand} : x # None}
               K == {x \in {consHand} : x # None}
               G == {s \in Sample : gen[s] \in Running}
               a == Len(cancel_queue)
               b == Len(result_queue)
               c == Len(queue)
               h == Unit(hand # None)
               k == Unit(consHand # None)
               g == InState(Running, gen)
    <1>1. a \in Nat /\ b \in Nat /\ c \in Nat /\ h \in Nat /\ k \in Nat /\ g \in Nat
        BY FlowTypes DEF Unit
    <1>2. IsFiniteSet(A) /\ Cardinality(A) <= a
        BY ElementsCount DEF TypeOK
    <1>3. IsFiniteSet(B) /\ Cardinality(B) <= b
        BY ElementsCount DEF TypeOK
    <1>4. IsFiniteSet(C) /\ Cardinality(C) <= c
        BY ElementsCount DEF TypeOK, MQTypeOK
    <1>5. IsFiniteSet(G) /\ Cardinality(G) <= g
        BY <1>1, InStateType DEF InState
    <1>6. IsFiniteSet(H) /\ Cardinality(H) <= h
        <2>1. CASE hand # None
            <3>1. H = {hand} /\ h = 1
                BY <2>1 DEF Unit
            <3>2. IsFiniteSet({hand}) /\ Cardinality({hand}) = 1
                BY FS_Singleton
            <3> HIDE DEF H, h
            <3> QED
                BY <3>1, <3>2
        <2>2. CASE hand = None
            <3>1. H = {} /\ h = 0
                BY <2>2 DEF Unit
            <3> HIDE DEF H, h
            <3> QED
                BY <3>1, FS_EmptySet
        <2> QED
            BY <2>1, <2>2
    <1>7. IsFiniteSet(K) /\ Cardinality(K) <= k
        <2>1. CASE consHand # None
            <3>1. K = {consHand} /\ k = 1
                BY <2>1 DEF Unit
            <3>2. IsFiniteSet({consHand}) /\ Cardinality({consHand}) = 1
                BY FS_Singleton
            <3> HIDE DEF K, k
            <3> QED
                BY <3>1, <3>2
        <2>2. CASE consHand = None
            <3>1. K = {} /\ k = 0
                BY <2>2 DEF Unit
            <3> HIDE DEF K, k
            <3> QED
                BY <3>1, FS_EmptySet
        <2> QED
            BY <2>1, <2>2
    <1>8. Away \in SUBSET (H \cup K \cup A \cup B \cup G \cup C)
        <2>1. \A s \in Sample : s # None
            BY RollouterAssumption
        <2> QED
            BY <2>1, AwayIs DEF Away
    <1>9. Carried + c = h + k + a + b + g + c
        BY DEF Carried
    <1> HIDE DEF A, B, C, H, K, G, a, b, c, h, k, g
    <1> DEFINE M2 == H \cup K
               M3 == M2 \cup A
               M4 == M3 \cup B
               M5 == M4 \cup G
               Z == M5 \cup C
    <1>10. /\ h + k \in Nat /\ h + k + a \in Nat /\ h + k + a + b \in Nat
           /\ h + k + a + b + g \in Nat
        BY <1>1
    <1>11. Away \in SUBSET Z
        BY <1>8
    <1> HIDE DEF Z
    <1>12. IsFiniteSet(Z) /\ Cardinality(Z) <= h + k + a + b + g + c
        <2> HIDE DEF M5
        <2>1. IsFiniteSet(M5) /\ Cardinality(M5) <= h + k + a + b + g
            <3> HIDE DEF M4
            <3>1. IsFiniteSet(M4) /\ Cardinality(M4) <= h + k + a + b
                <4> HIDE DEF M3
                <4>1. IsFiniteSet(M3) /\ Cardinality(M3) <= h + k + a
                    <5> HIDE DEF M2
                    <5>1. IsFiniteSet(M2) /\ Cardinality(M2) <= h + k
                        BY <1>1, <1>6, <1>7, UnionBound DEF M2
                    <5> QED
                        BY <1>1, <1>2, <1>10, <5>1, UnionBound DEF M3
                <4> QED
                    BY <1>1, <1>3, <1>10, <4>1, UnionBound DEF M4
            <3> QED
                BY <1>1, <1>5, <1>10, <3>1, UnionBound DEF M5
        <2> QED
            BY <1>1, <1>4, <1>10, <2>1, UnionBound DEF Z
    <1>15. IsFiniteSet(Z) /\ Cardinality(Z) <= Carried + c
        BY <1>9, <1>12
    <1>16. IsFiniteSet(Away) /\ Cardinality(Away) <= Cardinality(Z)
        BY <1>11, <1>15, FS_Subset
    <1>17. Cardinality(Away) \in Nat /\ Cardinality(Z) \in Nat
        BY <1>15, <1>16, FS_CardinalityType
    <1>18. Carried + c \in Nat
        BY <1>1, FlowTypes
    <1>19. Cardinality(Away) <= Carried + c
        BY <1>15, <1>16, <1>17, <1>18
    <1> QED
        BY <1>16, <1>17, <1>19 DEF c

(* A step of the abstract stream, or a stutter.                             *)
StreamMove == [Stream!Next]_(Stream!streamVars)

(* The abstract stream counts as the pipeline does.                         *)
LEMMA StreamCounts ==
    ASSUME NEW A
    PROVE  Stream!Cardinality(A) = Cardinality(A)
    BY DEF Stream!Cardinality, Cardinality

(* The steps of the stream, in terms of Fresh, Away and Used.               *)
LEMMA StreamStutter ==
    ASSUME UNCHANGED <<Fresh, Away, Used, ending, trainer_version>>
    PROVE  StreamMove
    BY StreamIs DEF StreamMove

LEMMA StreamStart ==
    ASSUME NEW s \in Sample, s \in Fresh, Cardinality(Away) <= MaxRequired + Uncounted - 1,
           Fresh' = Fresh \ {s}, Away' = Away \cup {s},
           UNCHANGED <<Used, ending, trainer_version>>
    PROVE  StreamMove
    <1>1. Stream!Start(s)
        BY StreamCounts DEF Stream!Start, Fresh, Away, Used
    <1> QED
        BY <1>1 DEF StreamMove, Stream!Next

LEMMA StreamLose ==
    ASSUME NEW s \in Sample, s \in Away, Away' = Away \ {s},
           UNCHANGED <<Fresh, Used, ending, trainer_version>>
    PROVE  StreamMove
    <1>1. Stream!Lose(s)
        BY DEF Stream!Lose, Fresh, Away, Used
    <1> QED
        BY <1>1 DEF StreamMove, Stream!Next

LEMMA StreamUse ==
    ASSUME NEW s \in Sample, s \in Away, ~ending, Away' = Away \ {s}, Used' = Used \cup {s},
           UNCHANGED <<Fresh, ending, trainer_version>>
    PROVE  StreamMove
    <1>1. Stream!Use(s)
        BY DEF Stream!Use, Fresh, Away, Used
    <1> QED
        BY <1>1 DEF StreamMove, Stream!Next

LEMMA StreamClose ==
    ASSUME ~ending, ending' = TRUE, UNCHANGED <<Fresh, Away, Used, trainer_version>>
    PROVE  StreamMove
    <1>1. Stream!Close
        BY DEF Stream!Close, Fresh, Away, Used
    <1> QED
        BY <1>1 DEF StreamMove, Stream!Next

LEMMA StreamPublish ==
    ASSUME ~ending, Cardinality(Used) = (trainer_version + 1) * PerVersion,
           trainer_version' = trainer_version + 1, UNCHANGED <<Fresh, Away, Used, ending>>
    PROVE  StreamMove
    <1>1. Stream!Publish
        BY StreamCounts DEF Stream!Publish, Fresh, Away, Used
    <1> QED
        BY <1>1 DEF StreamMove, Stream!Next

LEMMA StreamPublishLast ==
    ASSUME ending, Used' \in SUBSET Used,
           trainer_version' = trainer_version + 1, UNCHANGED <<Fresh, Away, ending>>
    PROVE  StreamMove
    <1>1. Stream!PublishLast
        BY DEF Stream!PublishLast, Fresh, Away, Used
    <1> QED
        BY <1>1 DEF StreamMove, Stream!Next

(* Feeding makes nothing available that was not.                            *)
LEMMA StreamFeed ==
    ASSUME TypeInv, Feed, UNCHANGED trainerVars
    PROVE  StreamMove
    <1>0. /\ TypeOK /\ pending_queue \in Seq(Sample \cup {Done}) /\ fed \in Nat
          /\ Done \notin Sample /\ TotalRolloutSteps \in Nat
        BY RollouterAssumption DEF TypeInv, TypeOK
    <1>1. /\ UNCHANGED <<mqVars, cancel_queue, result_queue, gen, hand, consHand>>
          /\ \/ UNCHANGED <<pending_queue, fed>>
             \/ pending_queue' = Append(pending_queue, Done) /\ fed' = fed
             \/ /\ pending_queue' = Append(pending_queue, fed + 1) /\ fed' = fed + 1
                /\ fed < TotalRolloutSteps
        BY DEF Feed, MoreSamples, taskVars, procVars, consVars
    <1>2. Away' = Away
        BY <1>1 DEF Away, UnderWay, Elements, mqVars
    <1>3. Fresh' = Fresh
        <2>1. CASE UNCHANGED <<pending_queue, fed>>
            BY <2>1 DEF Fresh, Taken, Elements
        <2>2. CASE pending_queue' = Append(pending_queue, Done) /\ fed' = fed
            <3>1. Elements(pending_queue') = Elements(pending_queue) \cup {Done}
                BY <1>0, <2>2, ElementsAppend
            <3>2. \A s \in Sample : s \in Fresh' <=> s \in Fresh
                BY <1>0, <2>2, <3>1, AwayIs
            <3> QED
                BY <3>2 DEF Fresh
        <2>3. CASE /\ pending_queue' = Append(pending_queue, fed + 1) /\ fed' = fed + 1
                   /\ fed < TotalRolloutSteps
            <3>1. fed + 1 \in Sample
                BY <1>0, <2>3 DEF Sample
            <3>2. Elements(pending_queue') = Elements(pending_queue) \cup {fed + 1}
                BY <1>0, <2>3, <3>1, ElementsAppend
            <3>3. \A s \in Sample : s \in Nat
                BY <1>0 DEF Sample
            <3>4. \A s \in Sample : s \in Fresh' <=> s \in Fresh
                <4> TAKE s \in Sample
                <4>1. s <= fed + 1 /\ s # fed + 1 <=> s <= fed
                    BY <1>0, <3>3
                <4>2. /\ s \in Fresh <=> ~(s <= fed) \/ s \in Elements(pending_queue)
                      /\ s \in Fresh' <=> ~(s <= fed + 1) \/ s \in Elements(pending_queue) \/ s = fed + 1
                    BY <2>3, <3>2, AwayIs
                <4> QED
                    BY <4>1, <4>2
            <3> QED
                BY <3>4 DEF Fresh
        <2> QED
            BY <1>1, <2>1, <2>2, <2>3
    <1> QED
        BY <1>2, <1>3, StreamStutter DEF trainerVars, Used

(* Taking a sample from pending_queue starts it, and the throttle leaves    *)
(* room for it.                                                            *)
LEMMA StreamTake ==
    ASSUME TypeInv, BooksInv, FlowInv, Open, ThrottleInv, TypeInv', ThrottleInv',
           TakePending, pending_queue # <<>>, hand = None,
           UNCHANGED <<mqVars, result_queue, gen, fed, consHand, mainPc, departed>>,
           UNCHANGED trainerVars
    PROVE  StreamMove
    <1>0. /\ TypeOK /\ TypeOK' /\ pending_queue \in Seq(Sample \cup {Done})
          /\ Done \notin Sample /\ None \notin Sample
        BY RollouterAssumption DEF TypeInv, TypeOK
    <1>1. pending_queue' = Tail(pending_queue) /\ cancel_queue' = cancel_queue
        BY DEF TakePending
    <1>2. /\ Elements(pending_queue) = Elements(pending_queue') \cup {Head(pending_queue)}
          /\ Head(pending_queue) \in Sample \cup {Done}
        BY <1>0, <1>1, ElementsTail
    <1>3. UNCHANGED <<Used, ending, trainer_version, queue>>
        BY DEF trainerVars, Used, mqVars
    <1>4. CASE Head(pending_queue) = Done
        <2>1. hand' = hand
            BY <1>4 DEF TakePending
        <2>2. \A s \in Sample : (s \in Fresh' <=> s \in Fresh) /\ (s \in Away' <=> s \in Away)
            BY <1>0, <1>1, <1>2, <1>3, <1>4, <2>1, AwayIs
        <2>3. UNCHANGED <<Fresh, Away>>
            BY <2>2 DEF Fresh, Away
        <2> QED
            BY <1>3, <2>3, StreamStutter
    <1>5. CASE Head(pending_queue) # Done
        <2> DEFINE t == Head(pending_queue)
        <2>1. t \in Sample /\ hand' = t
            BY <1>2, <1>5 DEF TakePending
        <2>2. t <= fed /\ t \notin Elements(pending_queue')
            BY <1>0, <1>1, <2>1, OneHome
        <2>3. t \in Elements(pending_queue)
            BY <1>2
        <2> HIDE DEF t
        <2>4. \A s \in Sample : (s \in Fresh' <=> s \in Fresh /\ s # t)
            BY <1>2, <2>1, <2>2, <2>3, AwayIs DEF t
        <2>5. \A s \in Sample : (s \in Away' <=> s \in Away \/ s = t)
            BY <1>0, <1>1, <1>3, <2>1, AwayIs
        <2>6. t \in Fresh
            BY <2>1, <2>3, AwayIs
        <2>7. Fresh' = Fresh \ {t} /\ Away' = Away \cup {t}
            BY <2>1, <2>4, <2>5 DEF Fresh, Away
        <2>8. Cardinality(Away) <= MaxRequired + Uncounted - 1
            <3>1. Cardinality(Away) <= Carried + Len(queue) /\ Cardinality(Away) \in Nat
                BY <1>0, AwayCount
            <3>2. TakenFromPending = Gone + Carried + Len(queue)
                BY DEF FlowInv
            <3>3. TakenFromPending' = TakenFromPending + 1
                <4>1. TakenFromPending' - TakenFromPending = Unit(hand' # None)
                    BY <1>1, FlowTake DEF mqVars
                <4>2. hand' # None
                    BY <1>0, <2>1
                <4>3. TakenFromPending' \in Int /\ TakenFromPending \in Int
                    BY <1>0, <1>1, TakenNext, FlowTypes, ElementsTail
                <4>4. Unit(hand' # None) = 1
                    BY <4>2 DEF Unit
                <4> DEFINE k == TakenFromPending
                           k1 == TakenFromPending'
                <4>5. k1 - k = 1 /\ k \in Int /\ k1 \in Int
                    BY <4>1, <4>3, <4>4
                <4> HIDE DEF k, k1
                <4>6. k1 = k + 1
                    BY <4>5
                <4> QED
                    BY <4>6 DEF k, k1
            <3>4. departed <= Gone /\ departed' = departed
                BY DEF ThrottleInv
            <3>5. TakenFromPending' - departed' <= MaxRequired + Uncounted
                BY ThrottleNext DEF ThrottleInv
            <3>6. /\ Carried \in Nat /\ Len(queue) \in Nat /\ Gone \in Nat /\ departed \in Int
                  /\ TakenFromPending \in Int /\ MaxRequired \in Int /\ Uncounted \in Int
                BY <1>0, FlowTypes, ThrottleTypes
            <3> DEFINE n == Cardinality(Away)
                       c == Carried
                       q == Len(queue)
                       u == Uncounted
                       k == TakenFromPending
                       k1 == TakenFromPending'
            <3> HIDE DEF n, c, q, u, k, k1
            <3>7. n <= c + q /\ n \in Nat /\ k = Gone + c + q /\ k1 = k + 1 /\ k1 - departed <= MaxRequired + u
                BY <3>1, <3>2, <3>3, <3>4, <3>5 DEF n, c, q, u, k, k1
            <3>8. c \in Nat /\ q \in Nat /\ k \in Int /\ u \in Int
                BY <3>6 DEF c, q, k, u
            <3>9. n <= MaxRequired + u - 1
                BY <3>4, <3>6, <3>7, <3>8
            <3> QED
                BY <3>9 DEF n, u
        <2> QED
            BY <1>3, <2>1, <2>6, <2>7, <2>8, StreamStart
    <1> QED
        BY <1>4, <1>5

(* The processor starts samples; what it does with interrupted ones the     *)
(* stream does not see.                                                     *)
LEMMA StreamProcessor ==
    ASSUME TypeInv, BooksInv, EndInv, FlowInv, ThrottleInv, TypeInv', ThrottleInv',
           Processor, UNCHANGED trainerVars
    PROVE  StreamMove
    <1>0. /\ TypeOK /\ None \notin Sample /\ cancel_queue \in Seq(Sample) /\ Open
        <2>1. procPc \notin {"finished", "crashed"}
            BY DEF Processor, ProcTop, ProcGet, ProcMark, ProcLoopTest, ProcCollect, ProcAwait,
                   ProcCondition, ProcWake
        <2> QED
            BY <2>1, RollouterAssumption DEF TypeInv, TypeOK, EndInv, Dead
    <1>1. /\ UNCHANGED <<mqVars, result_queue, fed, consHand, mainPc>>
          /\ UNCHANGED <<Used, ending, trainer_version, departed>>
        BY DEF Processor, ProcTop, ProcGet, TakePending, ProcMark, ProcLoopTest, ProcCollect,
               ProcAwait, ProcCondition, ProcWake, procFrame, queues, consVars, trainerVars, Used
    <1>2. CASE ProcTop \/ ProcGet
        <2>1. hand = None /\ gen' = gen
            BY <1>2 DEF ProcTop, ProcGet, TypeInv, HandInv, Holding
        <2>2. \/ UNCHANGED <<pending_queue, cancel_queue, hand>>
              \/ /\ cancel_queue # <<>> /\ UNCHANGED pending_queue
                 /\ hand' = Head(cancel_queue) /\ cancel_queue' = Tail(cancel_queue)
              \/ TakePending /\ pending_queue # <<>>
            BY <1>2 DEF ProcTop, ProcGet, TakeInterrupted, queues
        <2>3. CASE UNCHANGED <<pending_queue, cancel_queue, hand>>
            BY <1>1, <2>1, <2>3, StreamFrame, StreamStutter DEF queues, mqVars
        <2>4. CASE /\ cancel_queue # <<>> /\ UNCHANGED pending_queue
                   /\ hand' = Head(cancel_queue) /\ cancel_queue' = Tail(cancel_queue)
            <3>1. Elements(cancel_queue) = Elements(cancel_queue') \cup {hand'}
                BY <1>0, <2>4, ElementsTail
            <3>2. \A s \in Sample : (s \in Away' <=> s \in Away) /\ (s \in Fresh' <=> s \in Fresh)
                BY <1>0, <1>1, <2>1, <2>4, <3>1, AwayIs DEF mqVars
            <3>3. UNCHANGED <<Fresh, Away>>
                BY <3>2 DEF Fresh, Away
            <3> QED
                BY <1>1, <3>3, StreamStutter
        <2>5. CASE TakePending /\ pending_queue # <<>>
            BY <1>0, <1>1, <2>1, <2>5, StreamTake
        <2> QED
            BY <2>2, <2>3, <2>4, <2>5
    <1>3. CASE ProcCondition
        <2>1. /\ UNCHANGED queues
              /\ \/ UNCHANGED <<hand, gen>>
                 \/ procPc = "submit" /\ gen' = [gen EXCEPT ![hand] = "created"] /\ hand' = None
            BY <1>3 DEF ProcCondition
        <2>2. CASE UNCHANGED <<hand, gen>>
            BY <1>1, <2>1, <2>2, StreamFrame, StreamStutter DEF mqVars
        <2>3. CASE procPc = "submit" /\ gen' = [gen EXCEPT ![hand] = "created"] /\ hand' = None
            <3>1. hand \in Sample
                BY <2>3 DEF TypeInv, TypeOK, HandInv, Holding
            <3>2. \A s \in Sample : gen'[s] \in Running <=> gen[s] \in Running \/ s = hand
                BY <1>0, <2>3, <3>1 DEF TypeOK, Running
            <3>3. \A s \in Sample : (s \in Away' <=> s \in Away) /\ (s \in Fresh' <=> s \in Fresh)
                BY <1>0, <1>1, <2>1, <2>3, <3>2, AwayIs DEF mqVars, queues
            <3>4. UNCHANGED <<Fresh, Away>>
                BY <3>3 DEF Fresh, Away
            <3> QED
                BY <1>1, <3>4, StreamStutter
        <2> QED
            BY <2>1, <2>2, <2>3
    <1>4. CASE ProcMark \/ ProcLoopTest \/ ProcCollect \/ ProcAwait \/ ProcWake
        <2>1. UNCHANGED <<queues, hand, gen>>
            BY <1>4 DEF ProcMark, ProcLoopTest, ProcCollect, ProcAwait, ProcWake
        <2> QED
            BY <1>1, <2>1, StreamFrame, StreamStutter DEF mqVars
    <1> QED
        BY <1>2, <1>3, <1>4 DEF Processor

(* Starting, cutting, finishing and interrupting a generation keep its      *)
(* sample under way; failing loses it.                                     *)
LEMMA StreamTasks ==
    ASSUME TypeInv, BooksInv, NEW t \in Sample, Task(t) \/ TaskFail(t), UNCHANGED trainerVars
    PROVE  StreamMove
    <1>0. /\ TypeOK /\ gen \in [Sample -> {"none", "created", "generating", "aborted", "done", "failed"}]
          /\ cancel_queue \in Seq(Sample) /\ result_queue \in Seq(Sample)
        BY DEF TypeInv, TypeOK
    <1>1. /\ UNCHANGED <<fed, pending_queue, queue, hand, consHand, Used, ending, trainer_version>>
          /\ gen[t] \in Running
        BY DEF Task, TaskStart, ServerAbort, TaskFinish, TaskCancelled, TaskFail, taskFrame, mqVars,
               consVars, procVars, trainerVars, Running, Used
    <1>2. UNCHANGED Fresh
        BY <1>1 DEF Fresh, Taken, Elements
    <1>3. CASE TaskStart(t) \/ ServerAbort(t)
        <2>1. /\ UNCHANGED <<cancel_queue, result_queue>>
              /\ \E g \in {"generating", "aborted"} : gen' = [gen EXCEPT ![t] = g]
            BY <1>3 DEF TaskStart, ServerAbort
        <2>2. \A s \in Sample : gen'[s] \in Running <=> gen[s] \in Running
            BY <1>0, <1>1, <2>1 DEF Running
        <2>3. \A s \in Sample : s \in Away' <=> s \in Away
            BY <1>1, <2>1, <2>2, AwayIs
        <2>4. UNCHANGED Away
            BY <2>3 DEF Away
        <2> QED
            BY <1>1, <1>2, <2>4, StreamStutter
    <1>4. CASE TaskFinish(t) \/ TaskCancelled(t)
        <2>1. /\ gen' = [gen EXCEPT ![t] = "done"]
              /\ \/ result_queue' = Append(result_queue, t) /\ UNCHANGED cancel_queue
                 \/ cancel_queue' = Append(cancel_queue, t) /\ UNCHANGED result_queue
            BY <1>4 DEF TaskFinish, TaskCancelled, taskFrame
        <2>2. Elements(cancel_queue') \cup Elements(result_queue')
                = Elements(cancel_queue) \cup Elements(result_queue) \cup {t}
            <3>1. /\ Elements(Append(cancel_queue, t)) = Elements(cancel_queue) \cup {t}
                  /\ Elements(Append(result_queue, t)) = Elements(result_queue) \cup {t}
                BY <1>0, ElementsAppend
            <3> QED
                BY <2>1, <3>1
        <2>3. \A s \in Sample : gen'[s] \in Running <=> gen[s] \in Running /\ s # t
            BY <1>0, <1>1, <2>1 DEF Running
        <2>4. \A s \in Sample : s \in Away' <=> s \in Away
            <3> TAKE s \in Sample
            <3>1. s \in Elements(cancel_queue') \/ s \in Elements(result_queue')
                    <=> s \in Elements(cancel_queue) \/ s \in Elements(result_queue) \/ s = t
                BY <2>2
            <3> QED
                BY <1>1, <2>3, <3>1, AwayIs
        <2>5. UNCHANGED Away
            BY <2>4 DEF Away
        <2> QED
            BY <1>1, <1>2, <2>5, StreamStutter
    <1>5. CASE TaskFail(t)
        <2>1. /\ gen' = [gen EXCEPT ![t] = "failed"] /\ UNCHANGED <<cancel_queue, result_queue>>
            BY <1>5 DEF TaskFail
        <2>2. \A s \in Sample : gen'[s] \in Running <=> gen[s] \in Running /\ s # t
            BY <1>0, <1>1, <2>1 DEF Running
        <2>3. /\ t \notin Elements(queue) \cup Elements(cancel_queue) \cup Elements(result_queue)
              /\ hand # t /\ consHand # t
            BY <1>0, <1>1, OneHome DEF InFlight, Running
        <2>4. \A s \in Sample : s \in Away' <=> s \in Away /\ s # t
            BY <1>1, <2>1, <2>2, <2>3, AwayIs
        <2>5. t \in Away /\ Away' = Away \ {t}
            BY <1>1, <2>4, AwayIs DEF Away
        <2> QED
            BY <1>1, <1>2, <2>5, StreamLose
    <1> QED
        BY <1>3, <1>4, <1>5 DEF Task

(* What a put leaves in the queue.                                          *)
LEMMA ElementsPut ==
    ASSUME MQTypeOK, NEW x \in Item, PutSample(x)
    PROVE  \/ Elements(queue') = Elements(queue) \cup {x}
           \/ /\ queue # <<>> /\ Elements(queue') = Elements(Tail(queue)) \cup {x}
              /\ Elements(queue) = Elements(Tail(queue)) \cup {Head(queue)}
    <1>0. queue \in Seq(Item)
        BY DEF MQTypeOK
    <1>1. CASE Full
        <2>1. queue # <<>> /\ queue' = Append(Tail(queue), x)
            BY <1>0, <1>1, MaxQueueSizeAssumption DEF PutSample, Full
        <2>2. Tail(queue) \in Seq(Item) /\ Elements(queue) = Elements(Tail(queue)) \cup {Head(queue)}
            BY <1>0, <2>1, ElementsTail
        <2>3. Elements(Append(Tail(queue), x)) = Elements(Tail(queue)) \cup {x}
            <3> DEFINE r == Tail(queue)
            <3>1. r \in Seq(Item)
                BY <2>2
            <3> HIDE DEF r
            <3>2. Elements(Append(r, x)) = Elements(r) \cup {x}
                BY <3>1, ElementsAppend
            <3> QED
                BY <3>2 DEF r
        <2> QED
            BY <2>1, <2>2, <2>3
    <1>2. CASE ~Full
        <2>1. queue' = Append(queue, x)
            BY <1>2 DEF PutSample
        <2> QED
            BY <1>0, <2>1, ElementsAppend
    <1> QED
        BY <1>1, <1>2

(* A put into a full queue loses the oldest sample.                         *)
LEMMA StreamPut ==
    ASSUME TypeOK, BooksInv, NEW x \in Item, PutSample(x),
           UNCHANGED <<fed, queues, hand, gen, Used, ending, trainer_version>>,
           \/ x = consHand /\ consHand' = None
           \/ x = Sentinel /\ consHand' = consHand
    PROVE  StreamMove
    <1>0. MQTypeOK /\ queue \in Seq(Item) /\ Item = Sample \cup {Sentinel}
          /\ None \notin Sample /\ Sentinel \notin Sample
        BY RollouterAssumption DEF TypeOK, MQTypeOK
    <1>1. UNCHANGED Fresh
        BY DEF Fresh, Taken, Elements, queues
    <1>2. UNCHANGED <<cancel_queue, result_queue, gen, hand>>
        BY DEF queues
    <1>3. \A s \in Sample : s = consHand' \/ s = x <=> s = consHand
        BY <1>0
    <1>4. CASE Elements(queue') = Elements(queue) \cup {x}
        <2>1. \A s \in Sample : s \in Away' <=> s \in Away
            <3> TAKE s \in Sample
            <3>1. s \in Elements(queue') \/ s = consHand' <=> s \in Elements(queue) \/ s = consHand
                BY <1>3, <1>4
            <3> QED
                BY <1>2, <3>1, AwayIs
        <2>2. UNCHANGED Away
            BY <2>1 DEF Away
        <2> QED
            BY <1>1, <2>2, StreamStutter
    <1>5. CASE /\ queue # <<>> /\ Elements(queue') = Elements(Tail(queue)) \cup {x}
               /\ Elements(queue) = Elements(Tail(queue)) \cup {Head(queue)}
        <2> DEFINE t == Head(queue)
        <2>1. t \in Sample \cup {Sentinel}
            BY <1>0, <1>5, ElementsTail
        <2>2. CASE t \in Sample
            <3>1. /\ t \notin Elements(Tail(queue)) \cup Elements(cancel_queue) \cup Elements(result_queue)
                  /\ hand # t /\ consHand # t /\ gen[t] \notin Running
                BY <1>5, <2>2, OneHome DEF InFlight, Running
            <3>2. /\ Elements(queue') = Elements(Tail(queue)) \cup {x}
                  /\ Elements(queue) = Elements(Tail(queue)) \cup {t}
                BY <1>5
            <3> HIDE DEF t
            <3>3. \A s \in Sample : s \in Away' <=> s \in Away /\ s # t
                <4> TAKE s \in Sample
                <4>1. s \in Elements(queue') \/ s = consHand'
                        <=> s \in Elements(Tail(queue)) \/ s = consHand
                    BY <1>3, <3>2
                <4>2. CASE s = t
                    BY <1>2, <3>1, <4>1, <4>2, AwayIs
                <4>3. CASE s # t
                    BY <1>2, <3>2, <4>1, <4>3, AwayIs
                <4> QED
                    BY <4>2, <4>3
            <3>4. t \in Away
                BY <2>2, <3>2, AwayIs
            <3>5. Away' = Away \ {t}
                BY <3>3 DEF Away
            <3> QED
                BY <1>1, <2>2, <3>4, <3>5, StreamLose
        <2>3. CASE t = Sentinel
            <3>1. \A s \in Sample : s \in Away' <=> s \in Away
                <4> TAKE s \in Sample
                <4>1. s \in Elements(queue') \/ s = consHand' <=> s \in Elements(queue) \/ s = consHand
                    BY <1>0, <1>3, <1>5, <2>3
                <4> QED
                    BY <1>2, <4>1, AwayIs
            <3>2. UNCHANGED Away
                BY <3>1 DEF Away
            <3> QED
                BY <1>1, <3>2, StreamStutter
        <2> QED
            BY <2>1, <2>2, <2>3
    <1> QED
        BY <1>0, <1>4, <1>5, ElementsPut

(* The consumer only moves its sample along - or makes the full queue drop  *)
(* one.                                                                     *)
LEMMA StreamConsumer ==
    ASSUME TypeInv, BooksInv, Consumer, UNCHANGED trainerVars
    PROVE  StreamMove
    <1>0. TypeOK /\ result_queue \in Seq(Sample) /\ None \notin Sample
        BY RollouterAssumption DEF TypeInv, TypeOK
    <1>1. UNCHANGED <<pending_queue, cancel_queue, fed, gen, hand, Used, ending, trainer_version>>
        BY DEF Consumer, ConsTake, ConsDeliver, ConsAck, OrphanDeliver, consFrame, taskVars,
               procVars, trainerVars, Used
    <1>2. CASE ConsTake
        <2>1. /\ queue' = queue /\ consHand = None
              /\ consHand' = Head(result_queue) /\ result_queue' = Tail(result_queue)
              /\ result_queue # <<>>
            BY <1>2 DEF ConsTake, mqVars, TypeInv, HandInv
        <2>2. Elements(result_queue) = Elements(result_queue') \cup {consHand'}
            BY <1>0, <2>1, ElementsTail
        <2>3. \A s \in Sample : s \in Away' <=> s \in Away
            BY <1>0, <1>1, <2>1, <2>2, AwayIs
        <2>4. UNCHANGED Away
            BY <2>3 DEF Away
        <2>5. UNCHANGED Fresh
            BY <1>1 DEF Fresh, Taken, Elements
        <2> QED
            BY <1>1, <2>4, <2>5, StreamStutter
    <1>3. CASE ConsDeliver \/ OrphanDeliver
        <2>1. /\ consHand \in Item /\ PutSample(consHand) /\ consHand' = None
              /\ UNCHANGED result_queue
            BY <1>3, RollouterAssumption DEF ConsDeliver, OrphanDeliver, TypeInv, TypeOK, HandInv
        <2>2. UNCHANGED queues
            BY <1>1, <2>1 DEF queues
        <2> QED
            BY <1>0, <1>1, <2>1, <2>2, StreamPut
    <1>4. CASE ConsAck
        <2>1. UNCHANGED <<queue, consHand, queues>>
            BY <1>1, <1>4 DEF ConsAck, mqVars, queues
        <2> QED
            BY <1>1, <2>1, StreamFrame, StreamStutter
    <1> QED
        BY <1>2, <1>3, <1>4 DEF Consumer

(* So does the finish signal.                                               *)
LEMMA StreamMain ==
    ASSUME TypeInv, BooksInv, Main, UNCHANGED trainerVars
    PROVE  StreamMove
    <1>0. TypeOK /\ Sentinel \in Item
        BY RollouterAssumption DEF TypeInv
    <1>1. UNCHANGED <<queues, fed, gen, hand, consHand, Used, ending, trainer_version>>
        BY DEF Main, MainStep, MainSignal, MainStop, mainFrame, consVars, taskVars, procVars,
               trainerVars, Used
    <1>2. CASE MainSignal
        BY <1>0, <1>1, <1>2, StreamPut DEF MainSignal
    <1>3. CASE MainStep \/ MainStop
        <2>1. UNCHANGED queue
            BY <1>3 DEF MainStep, MainStop, mqVars
        <2> QED
            BY <1>1, <2>1, StreamFrame, StreamStutter
    <1> QED
        BY <1>2, <1>3 DEF Main

(* The monitor and the synchronizer's handlers touch no sample.             *)
LEMMA StreamHandlers ==
    ASSUME Monitor \/ Handler, UNCHANGED trainerVars
    PROVE  StreamMove
    <1>1. UNCHANGED <<fed, queues, queue, hand, consHand, gen>>
        <2>1. CASE Monitor
            BY <2>1 DEF Monitor, MonTick, MonResume, MonCheckRunning, monFrame, mqVars, taskVars, consVars
        <2>2. CASE Pause
            BY <2>2 DEF Pause, PauseEnter, PauseCancel, PauseGather, PauseFinish, pauseFrame, rpcFrame,
               mqVars, consVars
        <2>3. CASE Resume
            BY <2>3 DEF Resume, ResumeEnter, ResumeServers, ResumeFinish, resumeFrame, rpcFrame,
               mqVars, consVars
        <2>4. CASE Update
            BY <2>4 DEF Update, UpdateEnter, UpdateAssign, UpdateFinish, updateFrame, rpcFrame,
               mqVars, consVars
        <2>5. CASE \E p \in {"pause", "update", "resume", "main"} : JoinLockQueue(p)
            BY <2>5 DEF JoinLockQueue, rpcFrame, mqVars, consVars
        <2> QED
            BY <2>1, <2>2, <2>3, <2>4, <2>5 DEF Handler
    <1>2. UNCHANGED <<Used, ending, trainer_version>>
        BY DEF trainerVars, Used
    <1> QED
        BY <1>1, <1>2, StreamFrame, StreamStutter

(* Until the end every sample consumed is in the batch or trained on.       *)
UsedInv == ~ending => total_consumed = Cardinality(Used)

(* What is used can be counted.                                             *)
LEMMA UsedFinite ==
    ASSUME TypeOK
    PROVE  IsFiniteSet(Used) /\ Cardinality(Used) \in Nat
    <1>1. IsFiniteSet(Sample)
        BY FS_Interval, RollouterAssumption DEF Sample
    <1>2. Used \in SUBSET Sample
        BY DEF TypeOK, Used
    <1> QED
        BY <1>1, <1>2, FS_Subset, FS_CardinalityType

(* Consuming a sample uses it; the finish signal closes the stream.         *)
LEMMA StreamCollect ==
    ASSUME TypeInv, BooksInv, EndInv, UsedInv, Collect
    PROVE  StreamMove /\ UsedInv'
    <1>0. /\ TypeOK /\ queue \in Seq(Item) /\ Item = Sample \cup {Sentinel} /\ Sentinel \notin Sample
        BY RollouterAssumption DEF TypeInv, TypeOK, MQTypeOK
    <1>1. /\ queue # <<>> /\ queue' = Tail(queue) /\ total_consumed' = total_consumed + 1
          /\ UNCHANGED <<fed, queues, hand, consHand, gen, trained, trainer_version>>
          /\ ~ending
        BY DEF Collect, GetSample, rollVars, taskVars, procVars, consVars, EndInv
    <1>2. UNCHANGED Fresh /\ UNCHANGED <<cancel_queue, result_queue>>
        BY <1>1 DEF Fresh, Taken, Elements, queues
    <1> DEFINE t == Head(queue)
    <1>3. Elements(queue) = Elements(queue') \cup {t} /\ t \in Item
        BY <1>0, <1>1, ElementsTail
    <1>4. CASE t = Sentinel
        <2>1. ending' = TRUE /\ batch' = batch
            BY <1>4 DEF Collect
        <2>2. \A s \in Sample : s \in Away' <=> s \in Away
            BY <1>0, <1>1, <1>2, <1>3, <1>4, AwayIs
        <2>3. UNCHANGED <<Away, Used>>
            BY <1>1, <2>1, <2>2 DEF Away, Used
        <2> QED
            BY <1>1, <1>2, <2>1, <2>3, StreamClose DEF UsedInv
    <1>5. CASE t # Sentinel
        <2>1. t \in Sample
            BY <1>0, <1>3, <1>5
        <2>2. ending' = ending /\ batch' = batch \cup {t}
            BY <1>5 DEF Collect
        <2>3. /\ t \notin Elements(queue') \cup Elements(cancel_queue) \cup Elements(result_queue)
              /\ hand # t /\ consHand # t /\ gen[t] \notin Running /\ t \notin Used
            BY <1>0, <1>1, <2>1, OneHome DEF InFlight, Running, Used
        <2> HIDE DEF t
        <2>4. \A s \in Sample : s \in Away' <=> s \in Away /\ s # t
            BY <1>1, <1>2, <1>3, <2>3, AwayIs
        <2>5. t \in Away
            BY <1>3, <2>1, AwayIs
        <2>6. Away' = Away \ {t}
            BY <2>4 DEF Away
        <2>7. Used' = Used \cup {t}
            BY <1>1, <2>2 DEF Used
        <2>8. StreamMove
            BY <1>1, <1>2, <2>1, <2>2, <2>5, <2>6, <2>7, StreamUse
        <2>9. Cardinality(Used') = Cardinality(Used) + 1
            BY <1>0, <2>3, <2>7, UsedFinite, FS_AddElement
        <2>10. UsedInv'
            BY <1>1, <2>9 DEF UsedInv
        <2> QED
            BY <2>8, <2>10
    <1> QED
        BY <1>4, <1>5

(* The step that fills a version publishes it.                              *)
LEMMA StreamTrain ==
    ASSUME TypeInv, EndInv, PaceInv, UsedInv, Train
    PROVE  StreamMove /\ UsedInv'
    <1>0. TypeOK
        BY DEF TypeInv
    <1>1. /\ trainerPc = "train" /\ Used' = Used
          /\ UNCHANGED <<fed, queues, queue, hand, consHand, gen, ending, total_consumed>>
        BY DEF Train, mqVars, counters, rollVars, taskVars, procVars, consVars, Used
    <1>2. UNCHANGED <<Fresh, Away>>
        BY <1>1, StreamFrame
    <1>3. UsedInv'
        BY <1>1 DEF UsedInv
    <1>4. CASE local_trigger_step < TriggerParameterSyncStep
        <2>1. trainer_version' = trainer_version
            BY <1>4 DEF Train
        <2> QED
            BY <1>1, <1>2, <1>3, <2>1, StreamStutter
    <1>5. CASE ~(local_trigger_step < TriggerParameterSyncStep)
        <2> DEFINE v == trainer_version
                   l == local_trigger_step
                   R == RequiredSamples
                   T == TriggerParameterSyncStep
                   P == PerVersion
        <2>1. trainer_version' = trainer_version + 1
            BY <1>5 DEF Train
        <2>2. ~ending /\ total_consumed = v * P + ((l - 1) * R + R)
            BY <1>1 DEF EndInv, PaceInv
        <2>3. /\ v \in Nat /\ R \in Nat \ {0} /\ T \in Nat \ {0} /\ l \in 1..T /\ P \in Nat
            BY <1>0, PaceTypes
        <2>4. l = T
            BY <1>5, <2>3
        <2>5. (v + 1) * P = v * P + P /\ v * P \in Int
            BY <2>3, Distribute
        <2>6. (l - 1) * R + R = l * R /\ l * R \in Int
            BY <2>3, Distribute
        <2>7. T * R = P
            BY <2>3 DEF PerVersion
        <2>8. total_consumed = (v + 1) * P
            <3> DEFINE x == v * P
                       y == (l - 1) * R
            <3>1. total_consumed = x + (y + R) /\ y + R = l * R /\ l * R = P
                BY <2>2, <2>4, <2>6, <2>7
            <3>2. (v + 1) * P = x + P
                BY <2>5
            <3> HIDE DEF x, y, P
            <3> QED
                BY <3>1, <3>2
        <2>9. Cardinality(Used) = (trainer_version + 1) * PerVersion
            BY <2>2, <2>8 DEF UsedInv
        <2> QED
            BY <1>1, <1>2, <1>3, <2>1, <2>2, <2>9, StreamPublish
    <1> QED
        BY <1>4, <1>5

(* After the end the last version is published; the rest is hidden.         *)
LEMMA StreamTrainer ==
    ASSUME TypeInv, EndInv, UsedInv, FinalSync \/ StartResume \/ UpdateResetsStaleness
                                     \/ SleepOnQueue \/ CallPause \/ LabelQueue \/ TransferWeights
                                     \/ LaunchUpdate \/ TrainerDone
    PROVE  StreamMove /\ UsedInv'
    <1>1. UNCHANGED <<fed, queues, queue, hand, consHand, gen, ending, trained, total_consumed>>
        <2>1. CASE FinalSync \/ StartResume \/ SleepOnQueue \/ TrainerDone
            BY <2>1 DEF FinalSync, StartResume, SleepOnQueue, WaitSample, TrainerDone, syncFrame,
               handlersFrame, rollVars, mqVars, counters, taskVars, procVars, consVars, trainerVars
        <2>2. CASE CallPause \/ LabelQueue \/ TransferWeights \/ LaunchUpdate
            BY <2>2 DEF CallPause, LabelQueue, SetQueueVersion, TransferWeights, LaunchUpdate, syncFrame,
               handlersFrame, rollVars, mqVars, counters, taskVars, procVars, consVars
        <2>3. CASE UpdateResetsStaleness
            BY <2>3 DEF UpdateResetsStaleness, UpdateReadSize, sizeFrame, mqVars, counters, taskVars, procVars
        <2> QED
            BY <2>1, <2>2, <2>3
    <1>2. UNCHANGED <<Fresh, Away>>
        BY <1>1, StreamFrame
    <1>3. CASE FinalSync
        <2>1. ending /\ batch' = {} /\ trainer_version' = trainer_version + 1
            BY <1>3 DEF FinalSync, EndInv
        <2>2. Used' \in SUBSET Used
            BY <1>1, <2>1 DEF Used
        <2> QED
            BY <1>1, <1>2, <2>1, <2>2, StreamPublishLast DEF UsedInv
    <1>4. CASE ~FinalSync
        <2>1. UNCHANGED <<batch, trainer_version>>
            BY <1>4 DEF StartResume, UpdateResetsStaleness, SleepOnQueue, WaitSample, CallPause, LabelQueue,
               TransferWeights, LaunchUpdate, TrainerDone, syncFrame, trainerVars
        <2>2. UNCHANGED Used
            BY <1>1, <2>1 DEF Used
        <2> QED
            BY <1>1, <1>2, <2>1, <2>2, StreamStutter DEF UsedInv
    <1> QED
        BY <1>3, <1>4

(* The invariants a step of the stream rests on.                            *)
LEMMA StreamStep ==
    ASSUME TypeInv, EndInv, BooksInv, HandshakeInv, FlowInv, ThrottleInv, PaceInv, UsedInv, [Next]_vars
    PROVE  StreamMove /\ UsedInv'
    <1>0. TypeInv' /\ ThrottleInv'
        BY TypeStep, ThrottleStep
    <1>1. CASE RollouterStep /\ UNCHANGED trainerVars
        <2>1. total_consumed' = total_consumed /\ UNCHANGED <<ending, Used>>
            BY <1>1, RollouterFrame DEF trainerVars, Used
        <2>2. UsedInv'
            BY <2>1 DEF UsedInv
        <2>3. StreamMove
            BY <1>0, <1>1, StreamFeed, StreamProcessor, StreamTasks, StreamConsumer, StreamMain,
               StreamHandlers DEF RollouterStep, Handler
        <2> QED
            BY <2>2, <2>3
    <1>2. CASE Trainer \/ StartResume \/ UpdateResetsStaleness
        BY <1>2, StreamCollect, StreamTrain, StreamTrainer DEF Trainer
    <1>3. CASE UNCHANGED vars
        <2>1. UNCHANGED <<fed, queues, queue, hand, consHand, gen, ending, trainer_version, total_consumed>>
              /\ UNCHANGED Used
            BY <1>3 DEF vars, mqVars, counters, rollVars, taskVars, procVars, consVars, trainerVars, Used
        <2> QED
            BY <2>1, StreamFrame, StreamStutter DEF UsedInv
    <1> QED
        BY <1>1, <1>2, <1>3 DEF Next, Finished

(* Initially everything is fresh.                                           *)
LEMMA StreamInit == Init => Stream!Init /\ UsedInv
    <1> SUFFICES ASSUME Init PROVE Stream!Init /\ UsedInv
        OBVIOUS
    <1>1. /\ fed = 0 /\ pending_queue = <<>> /\ cancel_queue = <<>> /\ result_queue = <<>>
          /\ queue = <<>> /\ hand = None /\ consHand = None /\ gen = [s \in Sample |-> "none"]
          /\ trained = {} /\ batch = {} /\ ending = FALSE /\ trainer_version = 0 /\ total_consumed = 0
        BY DEF Init, MQInit, RollInit
    <1>2. Elements(<<>>) = {}
        BY DEF Elements
    <1>3. \A s \in Sample : s \in Nat /\ s # 0 /\ s # None
        BY RollouterAssumption DEF Sample
    <1>4. \A s \in Sample : s \in Fresh /\ s \notin Away
        <2> TAKE s \in Sample
        <2>1. ~(s <= 0)
            BY <1>3
        <2> QED
            BY <1>1, <1>2, <1>3, <2>1, AwayIs DEF Running
    <1>5. Fresh = Sample /\ Away = {} /\ Used = {}
        BY <1>1, <1>4 DEF Fresh, Away, Used
    <1>6. UsedInv
        BY <1>1, <1>5, FS_EmptySet DEF UsedInv
    <1> QED
        BY <1>1, <1>5, <1>6 DEF Stream!Init, Fresh, Away, Used

(* Fully asynchronous training implements the abstract stream of samples,   *)
(* for every number of samples, every capacity and every setting of the     *)
(* throttle: queues, locks, interruptions and the staleness counter are all *)
(* hidden, and what remains is that a sample is started, used and lost at   *)
(* most once, within the budget, and that versions follow the samples used. *)
THEOREM ImplementsStream == Spec => StreamSpec
    <1>1. Init => HandshakeInv
        BY DEF Init, RollInit, HandshakeInv, Syncing, Ahead
    <1>2. TypeInv /\ EndInv /\ BooksInv /\ HandshakeInv /\ FlowInv /\ ThrottleInv /\ PaceInv /\ UsedInv
          /\ [Next]_vars => [Stream!Next]_(Stream!streamVars) /\ UsedInv'
        BY StreamStep DEF StreamMove
    <1> QED
        BY <1>1, <1>2, TypeInit, TypeStep, EndInit, EndStep, BooksInit, BooksStep, FlowInit, FlowStep,
           HandshakeStep, ThrottleInit, ThrottleStep, PaceInit, PaceStep, StreamInit,
           PTL DEF Spec, StreamSpec, Stream!Spec

-----------------------------------------------------------------------------
(* The message queue in the composition.                                    *)

(* The rollouter and the trainer use the queue by its operations, on items   *)
(* it may hold.                                                             *)
LEMMA QueueStep == TypeInv /\ [Next]_vars => [MQNext]_mqVars
    <1> SUFFICES ASSUME TypeInv, [Next]_vars
                 PROVE  [MQNext]_mqVars
        OBVIOUS
    <1>1. CASE RollouterStep /\ UNCHANGED trainerVars
        <2>1. CASE ConsDeliver \/ OrphanDeliver
            <3>1. consHand \in Item /\ PutSample(consHand)
                BY <2>1, RollouterAssumption DEF ConsDeliver, OrphanDeliver, TypeInv, TypeOK, HandInv
            <3> QED
                BY <3>1 DEF MQNext
        <2>2. CASE MainSignal
            <3>1. Sentinel \in Item /\ PutSample(Sentinel)
                BY <2>2, RollouterAssumption DEF MainSignal
            <3> QED
                BY <3>1 DEF MQNext
        <2>3. CASE ConsTake \/ ConsAck \/ MainStep \/ MainStop
            BY <2>3 DEF ConsTake, ConsAck, MainStep, MainStop
        <2>4. CASE Feed \/ Processor
            BY <2>4 DEF Feed, Processor, ProcTop, ProcGet, ProcMark, ProcLoopTest, ProcCollect, ProcAwait,
               ProcCondition, ProcWake, procFrame
        <2>5. CASE \E s \in Sample : Task(s) \/ TaskFail(s)
            BY <2>5 DEF Task, TaskStart, ServerAbort, TaskFinish, TaskCancelled, TaskFail, taskFrame
        <2>6. CASE Monitor \/ Pause
            BY <2>6 DEF Monitor, MonTick, MonResume, MonCheckRunning, monFrame, Pause, PauseEnter,
               PauseCancel, PauseGather, PauseFinish, pauseFrame, rpcFrame
        <2>7. CASE Update \/ Resume \/ \E p \in {"pause", "update", "resume", "main"} : JoinLockQueue(p)
            BY <2>7 DEF Update, UpdateEnter, UpdateAssign, UpdateFinish, updateFrame, Resume, ResumeEnter,
               ResumeServers, ResumeFinish, resumeFrame, JoinLockQueue, rpcFrame
        <2> QED
            BY <1>1, <2>1, <2>2, <2>3, <2>4, <2>5, <2>6, <2>7 DEF RollouterStep, Consumer, Main
    <1>2. CASE Collect \/ SleepOnQueue
        <2>1. "trainer" \in Consumers
            BY TrainerAssumption
        <2> QED
            BY <1>2, <2>1 DEF Collect, SleepOnQueue, MQNext
    <1>3. CASE LabelQueue
        <2>1. trainer_version \in Nat /\ SetQueueVersion(trainer_version)
            BY <1>3 DEF LabelQueue, TypeInv, TypeOK
        <2> QED
            BY <2>1 DEF MQNext
    <1>4. CASE Train \/ FinalSync \/ CallPause \/ TransferWeights \/ LaunchUpdate \/ TrainerDone
               \/ StartResume \/ UpdateResetsStaleness \/ UNCHANGED vars
        BY <1>4 DEF Train, FinalSync, CallPause, TransferWeights, LaunchUpdate, TrainerDone, StartResume,
           UpdateResetsStaleness, UpdateReadSize, sizeFrame, vars
    <1> QED
        BY <1>1, <1>2, <1>3, <1>4 DEF Next, Trainer, Finished

(* So what MessageQueue_proofs shows of the queue alone holds here as well:  *)
(* the composition implements the queue's specification ...                 *)
THEOREM UsesQueue == Spec => MQSpec
    <1>1. Init => MQInit
        BY DEF Init
    <1> QED
        BY <1>1, TypeInit, TypeStep, QueueStep, PTL DEF Spec, MQSpec

(* ... and the trainer is never asleep while there is something for it, in   *)
(* whatever order samples, the finish signal and its own calls arrive.      *)
THEOREM TrainerIsWoken == Spec => []NoLostWakeup
    <1>1. Init => NoLostWakeup
        BY DEF Init, MQInit, NoLostWakeup
    <1>2. NoLostWakeup /\ [MQNext]_mqVars => NoLostWakeup'
        BY DEF NoLostWakeup, MQNext, PutSample, NotifyConsumers, GetSample, WaitSample, SetQueueVersion,
           ClearQueue, Shutdown, mqVars, counters
    <1> QED
        BY <1>1, <1>2, TypeInit, TypeStep, QueueStep, PTL DEF Spec
=============================================================================
