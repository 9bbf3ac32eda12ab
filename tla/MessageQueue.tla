---------------------------- MODULE MessageQueue ----------------------------
(***************************************************************************)
(* The MessageQueue actor of the fully asynchronous recipe                 *)
(* (verl/recipe/fully_async_policy/message_queue.py): a bounded FIFO       *)
(* between the rollouter and the trainer.  Every method body runs under    *)
(* one asyncio lock, so one method call is one action here; only get_sample *)
(* gives the lock up in the middle, to sleep on the condition variable.    *)
(***************************************************************************)
EXTENDS Integers, Sequences, FiniteSets

CONSTANTS MaxQueueSize,  \* max_queue_size, the deque's maxlen
          Item,          \* what may be queued: samples and the finish signal
          Consumers      \* callers of get_sample

ASSUME MaxQueueSizeAssumption == MaxQueueSize \in Nat \ {0}

VARIABLES
    queue,            \* deque of samples, oldest first
    mq_running,       \* self.running: cleared by shutdown()
    mq_param_version, \* self.current_param_version
    total_produced,
    total_consumed,
    dropped_samples,
    asleep            \* consumers inside _consumer_condition.wait()

counters == <<total_produced, total_consumed, dropped_samples>>
mqVars == <<queue, mq_running, mq_param_version, counters, asleep>>

MQInit ==
    /\ queue = <<>>
    /\ mq_running = TRUE
    /\ mq_param_version = 0
    /\ total_produced = 0
    /\ total_consumed = 0
    /\ dropped_samples = 0
    /\ asleep = {}
-----------------------------------------------------------------------------
(* A slip the invariant below is meant to catch: nobody is notified.        *)
NotifyNoConsumer == UNCHANGED asleep

Full == Len(queue) >= MaxQueueSize

(* notify_all: no sleeping consumer is left behind.                        *)
NotifyConsumers == asleep' = {}

(* put_sample: a full queue loses its oldest element, never the new one;    *)
(* every sleeping consumer is notified.                                    *)
PutSample(x) ==
    /\ IF Full
       THEN /\ queue' = Append(Tail(queue), x)
            /\ dropped_samples' = dropped_samples + 1
       ELSE /\ queue' = Append(queue, x)
            /\ UNCHANGED dropped_samples
    /\ total_produced' = total_produced + 1
    /\ NotifyConsumers
    /\ UNCHANGED <<mq_running, mq_param_version, total_consumed>>

(* get_sample with something to return.                                    *)
GetSample(c) ==
    /\ c \notin asleep
    /\ queue # <<>>
    /\ queue' = Tail(queue)
    /\ total_consumed' = total_consumed + 1
    /\ UNCHANGED <<mq_running, mq_param_version, total_produced,
                   dropped_samples, asleep>>

(* get_sample finds nothing: the loop around _consumer_condition.wait().   *)
WaitSample(c) ==
    /\ c \notin asleep
    /\ queue = <<>> /\ mq_running
    /\ asleep' = asleep \cup {c}
    /\ UNCHANGED <<queue, mq_running, mq_param_version, counters>>

(* update_param_version: a label on the queue, which no sample is checked   *)
(* against.                                                                *)
SetQueueVersion(v) ==
    /\ mq_param_version' = v
    /\ UNCHANGED <<queue, mq_running, counters, asleep>>

(* clear_queue: drops everything without counting it in any statistic.     *)
ClearQueue ==
    /\ queue' = <<>>
    /\ UNCHANGED <<mq_running, mq_param_version, counters, asleep>>

(* shutdown: no new item is needed to release the sleeping consumers.      *)
Shutdown ==
    /\ mq_running' = FALSE
    /\ NotifyConsumers
    /\ UNCHANGED <<queue, mq_param_version, counters>>

MQNext ==
    \/ \E x \in Item : PutSample(x)
    \/ \E c \in Consumers : GetSample(c) \/ WaitSample(c)
    \/ \E v \in Nat : SetQueueVersion(v)
    \/ ClearQueue
    \/ Shutdown

MQSpec == MQInit /\ [][MQNext]_mqVars
-----------------------------------------------------------------------------
MQTypeOK ==
    /\ queue \in Seq(Item)
    /\ mq_running \in BOOLEAN
    /\ mq_param_version \in Nat
    /\ total_produced \in Nat
    /\ total_consumed \in Nat
    /\ dropped_samples \in Nat
    /\ asleep \in SUBSET Consumers

(* The deque never outgrows max_queue_size, although put_sample never      *)
(* refuses an item.                                                        *)
BoundedQueue == Len(queue) <= MaxQueueSize

(* No lost wake-up: a consumer sleeps only while there is nothing for it.  *)
NoLostWakeup == asleep # {} => queue = <<>> /\ mq_running
=============================================================================
