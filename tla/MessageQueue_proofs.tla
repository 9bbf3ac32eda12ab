------------------------ MODULE MessageQueue_proofs ------------------------
(***************************************************************************)
(* The two queues of the MessageQueue actor.  The sample queue, for every  *)
(* capacity, every set of items, any number of consumers and whatever is   *)
(* called (MQSpec).  The validation queue with the trainer and the         *)
(* rollouter around it, for every length of the run, every trigger and     *)
(* every frequency (Spec, of ValidationHandoff): the results keep up with  *)
(* the versions, and the run ends with a validation.                       *)
(***************************************************************************)
EXTENDS MessageQueue, ValidationHandoff, TLAPS

-----------------------------------------------------------------------------
(* The sample queue.                                                       *)

(* The queue's types, its bound, and nobody asleep beside something to take. *)
MQInv == MQTypeOK /\ BoundedQueue /\ NoLostWakeup

(* What Append returns.                                                    *)
LEMMA AppendLength ==
    ASSUME NEW S, NEW s \in Seq(S), NEW x \in S
    PROVE  /\ Append(s, x) \in Seq(S)
           /\ Len(Append(s, x)) = Len(s) + 1
    OBVIOUS

(* What is left of a queue that is not empty.                              *)
LEMMA TailLength ==
    ASSUME NEW S, NEW s \in Seq(S), s # <<>>
    PROVE  /\ Tail(s) \in Seq(S)
           /\ Len(Tail(s)) = Len(s) - 1
           /\ Len(s) \in Nat \ {0}
    OBVIOUS

(* put_sample never outgrows the deque and leaves nobody asleep.            *)
LEMMA PutPreserves ==
    ASSUME MQInv, NEW x \in Item, PutSample(x)
    PROVE  MQInv'
    <1> USE MaxQueueSizeAssumption DEF MQInv, MQTypeOK
    <1>0. /\ total_produced' = total_produced + 1
          /\ asleep' = {}
          /\ UNCHANGED <<mq_running, mq_param_version, total_consumed>>
        BY DEF PutSample, NotifyConsumers
    <1>1. CASE Full
        <2>1. queue # <<>>
            BY <1>1 DEF Full
        <2>2. Tail(queue) \in Seq(Item) /\ Len(Tail(queue)) = Len(queue) - 1
            BY <2>1, TailLength
        <2>3. queue' = Append(Tail(queue), x) /\ dropped_samples' = dropped_samples + 1
            BY <1>1 DEF PutSample
        <2>4. queue' \in Seq(Item) /\ Len(queue') = Len(queue)
            BY <2>1, <2>2, <2>3, AppendLength, TailLength
        <2>5. MQTypeOK'
            BY <1>0, <2>3, <2>4
        <2>6. BoundedQueue'
            BY <2>4 DEF BoundedQueue
        <2>7. NoLostWakeup'
            BY <1>0 DEF NoLostWakeup
        <2> QED
            BY <2>5, <2>6, <2>7
    <1>2. CASE ~Full
        <2>1. queue' = Append(queue, x) /\ dropped_samples' = dropped_samples
            BY <1>2 DEF PutSample
        <2>2. queue' \in Seq(Item) /\ Len(queue') = Len(queue) + 1
            BY <2>1, AppendLength
        <2>3. Len(queue') <= MaxQueueSize
            BY <1>2, <2>2 DEF Full
        <2>4. MQTypeOK'
            BY <1>0, <2>1, <2>2
        <2>5. BoundedQueue'
            BY <2>3 DEF BoundedQueue
        <2>6. NoLostWakeup'
            BY <1>0 DEF NoLostWakeup
        <2> QED
            BY <2>4, <2>5, <2>6
    <1> QED
        BY <1>1, <1>2

(* get_sample takes from a queue it has seen non-empty.                     *)
LEMMA GetPreserves ==
    ASSUME MQInv, NEW c \in Consumers, GetSample(c)
    PROVE  MQInv'
    <1> USE MaxQueueSizeAssumption DEF MQInv, MQTypeOK
    <1>1. queue # <<>> /\ queue' = Tail(queue)
        BY DEF GetSample
    <1>2. queue' \in Seq(Item) /\ Len(queue') = Len(queue) - 1 /\ Len(queue) \in Nat
        BY <1>1, TailLength
    <1>3. asleep = {}
        BY <1>1 DEF NoLostWakeup
    <1> QED
        BY <1>2, <1>3 DEF GetSample, BoundedQueue, NoLostWakeup

(* Every call keeps the invariant.                                         *)
LEMMA MQStep == MQInv /\ [MQNext]_mqVars => MQInv'
    <1> SUFFICES ASSUME MQInv, [MQNext]_mqVars
                 PROVE  MQInv'
        OBVIOUS
    <1> USE MaxQueueSizeAssumption
    <1>1. CASE \E x \in Item : PutSample(x)
        BY <1>1, PutPreserves
    <1>2. CASE \E c \in Consumers : GetSample(c)
        BY <1>2, GetPreserves
    <1>3. CASE \E c \in Consumers : WaitSample(c)
        BY <1>3 DEF MQInv, MQTypeOK, BoundedQueue, NoLostWakeup, WaitSample, counters
    <1>4. CASE \E v \in Nat : SetQueueVersion(v)
        BY <1>4 DEF MQInv, MQTypeOK, BoundedQueue, NoLostWakeup, SetQueueVersion, counters
    <1>5. CASE ClearQueue
        <2>1. queue' = <<>> /\ <<>> \in Seq(Item) /\ Len(<<>>) = 0
            BY <1>5 DEF ClearQueue
        <2> QED
            BY <1>5, <2>1 DEF MQInv, MQTypeOK, BoundedQueue, NoLostWakeup, ClearQueue, counters
    <1>6. CASE Shutdown
        BY <1>6 DEF MQInv, MQTypeOK, BoundedQueue, NoLostWakeup, Shutdown,
                    NotifyConsumers, counters
    <1>7. CASE UNCHANGED mqVars
        BY <1>7 DEF MQInv, MQTypeOK, BoundedQueue, NoLostWakeup, mqVars, counters
    <1> QED
        BY <1>1, <1>2, <1>3, <1>4, <1>5, <1>6, <1>7 DEF MQNext

(* Whatever calls reach the queue, in whatever order, it keeps its types,   *)
(* never outgrows max_queue_size, and nobody sleeps while there is          *)
(* something to take or the queue is shut down.                            *)
THEOREM MQInvariant == MQSpec => []MQInv
    <1>1. MQInit => MQInv
        BY MaxQueueSizeAssumption
           DEF MQInit, MQInv, MQTypeOK, BoundedQueue, NoLostWakeup
    <1> QED
        BY <1>1, MQStep, PTL DEF MQSpec

(* The deque's bound.                                                      *)
THEOREM QueueStaysBounded == MQSpec => []BoundedQueue
    BY MQInvariant, PTL DEF MQInv

(* No lost wake-up, whoever notifies and however many sleep.                *)
THEOREM NoConsumerLeftAsleep == MQSpec => []NoLostWakeup
    BY MQInvariant, PTL DEF MQInv
-----------------------------------------------------------------------------
(* The validation queue.                                                   *)

Updates == [version : Nat, validate : BOOLEAN, put : BOOLEAN]

Weights(version) == version * trigger_parameter_sync_step

(* A version that is under way: its result is to come, or its              *)
(* synchronization.                                                        *)
Pending == IF update = None THEN 0 ELSE IF update.put THEN 0 ELSE 1
Unsynced == IF trainerPc = "sync" THEN 1 ELSE 0

(* Every version has one result, logged, queued or to come, and the trainer  *)
(* is never two behind.                                                    *)
CountInv ==
    /\ Len(logged) + Len(val_queue) + Pending + Unsynced = current_param_version + 1
    /\ Len(logged) >= current_param_version - 1
    /\ trainerPc \in {"train", "done"} => Len(logged) >= current_param_version
    /\ update # None => update.version = current_param_version - Unsynced

VersionInv ==
    /\ \A i \in DOMAIN logged : logged[i].param_version = i - 1
    /\ \A i \in DOMAIN val_queue : val_queue[i].param_version = Len(logged) + i - 1

Measured(version, metrics) ==
    \/ metrics = Weights(version)
    \/ ending /\ version = current_param_version /\ metrics = steps
Truthful(e) == e.metrics # None => Measured(e.param_version, e.metrics)

MeasureInv ==
    /\ ~ending => steps = Weights(current_param_version) + local_trigger_step - 1
    /\ ending => trainerPc # "train"
    /\ trainerPc = "sync" => local_trigger_step = 1
    /\ update # None => Measured(update.version, rollout_weights)
    /\ \A i \in DOMAIN logged : Truthful(logged[i])
    /\ \A i \in DOMAIN val_queue : Truthful(val_queue[i])

Validating == update # None /\ ~update.put /\ update.validate /\ rollout_weights = steps

EndInv ==
    /\ (trainerPc = "train" /\ val_data # None) =>
          Len(logged) > 0 /\ val_data = logged[Len(logged)]
    /\ (ending /\ trainerPc = "poll") => Validating \/ steps \in Known
    /\ trainerPc = "done" =>
          \/ steps \in Known
          \/ /\ val_data # None /\ val_data.metrics \in Known \ {None}
             /\ val_data.metrics > steps - 2 * trigger_parameter_sync_step

Inv == TypeOK /\ CountInv /\ VersionInv /\ MeasureInv /\ EndInv
-----------------------------------------------------------------------------
(* Sequences.                                                              *)

LEMMA AppendFacts ==
  ASSUME NEW S, NEW s \in Seq(S), NEW e \in S
  PROVE  /\ Append(s, e) \in Seq(S) /\ Len(Append(s, e)) = Len(s) + 1
         /\ DOMAIN s = 1..Len(s) /\ DOMAIN Append(s, e) = 1..(Len(s) + 1)
         /\ Len(s) \in Nat
         /\ \A i \in 1..Len(s) : Append(s, e)[i] = s[i]
         /\ Append(s, e)[Len(s) + 1] = e
  OBVIOUS

(* popleft.                                                                *)
LEMMA WithoutFirst ==
  ASSUME NEW S, NEW s \in Seq(S), s # <<>>
  PROVE  /\ s[1] \in S
         /\ Without(s, 1) \in Seq(S) /\ Len(Without(s, 1)) = Len(s) - 1
         /\ Len(s) \in Nat \ {0} /\ DOMAIN s = 1..Len(s)
         /\ DOMAIN Without(s, 1) = 1..(Len(s) - 1)
         /\ \A i \in 1..(Len(s) - 1) : Without(s, 1)[i] = s[i + 1]
<1>1. Len(s) \in Nat \ {0} /\ DOMAIN s = 1..Len(s)
  OBVIOUS
<1>2. s[1] \in S
  BY <1>1
<1>3. SubSeq(s, 1, 0) = <<>>
  BY <1>1
<1> DEFINE t == SubSeq(s, 2, Len(s))
<1>4. t \in Seq(S) /\ Len(t) = Len(s) - 1 /\ \A i \in 1..(Len(s) - 1) : t[i] = s[i + 1]
  BY <1>1
<1>5. Without(s, 1) = <<>> \o t
  BY <1>3 DEF Without
<1> HIDE DEF t
<1>6. <<>> \o t = t
  BY <1>4
<1>7. Without(s, 1) = t
  BY <1>5, <1>6
<1>8. DOMAIN t = 1..(Len(s) - 1)
  BY <1>1, <1>4
<1> QED
  BY <1>1, <1>2, <1>4, <1>7, <1>8

(* What is taken from the queue and logged is still known.                  *)
LEMMA TakingKeepsKnown ==
  ASSUME NEW q \in Seq(Results), NEW g \in Seq(Results), q # <<>>
  PROVE  {g[i].metrics : i \in DOMAIN g} \cup {q[i].metrics : i \in DOMAIN q}
           \subseteq {Append(g, q[1])[i].metrics : i \in DOMAIN Append(g, q[1])}
             \cup {Without(q, 1)[i].metrics : i \in DOMAIN Without(q, 1)}
<1> DEFINE h == Append(g, q[1])
           r == Without(q, 1)
<1>1. /\ q[1] \in Results /\ Len(q) \in Nat \ {0} /\ DOMAIN q = 1..Len(q)
      /\ DOMAIN r = 1..(Len(q) - 1) /\ \A i \in 1..(Len(q) - 1) : r[i] = q[i + 1]
  BY WithoutFirst
<1>2. /\ DOMAIN g = 1..Len(g) /\ DOMAIN h = 1..(Len(g) + 1) /\ Len(g) \in Nat
      /\ \A i \in 1..Len(g) : h[i] = g[i]
      /\ h[Len(g) + 1] = q[1]
  BY <1>1, AppendFacts
<1> HIDE DEF h, r
<1>3. ASSUME NEW i \in DOMAIN g
      PROVE  \E j \in DOMAIN h : h[j].metrics = g[i].metrics
  BY <1>2
<1>4. ASSUME NEW i \in DOMAIN q
      PROVE  \/ \E j \in DOMAIN h : h[j].metrics = q[i].metrics
             \/ \E j \in DOMAIN r : r[j].metrics = q[i].metrics
  <2>1. CASE i = 1
    BY <2>1, <1>2
  <2>2. CASE i # 1
    <3>1. i - 1 \in DOMAIN r /\ r[i - 1] = q[i]
      BY <2>2, <1>1
    <3> QED
      BY <3>1
  <2> QED
    BY <2>1, <2>2
<1>5. {g[i].metrics : i \in DOMAIN g} \cup {q[i].metrics : i \in DOMAIN q}
           \subseteq {h[i].metrics : i \in DOMAIN h} \cup {r[i].metrics : i \in DOMAIN r}
  BY <1>3, <1>4
<1> QED
  BY <1>5 DEF h, r

LEMMA AppendKeepsKnown ==
  ASSUME NEW q \in Seq(Results), NEW e \in Results
  PROVE  {q[i].metrics : i \in DOMAIN q} \cup {e.metrics}
           \subseteq {Append(q, e)[i].metrics : i \in DOMAIN Append(q, e)}
<1> DEFINE h == Append(q, e)
<1>1. /\ DOMAIN q = 1..Len(q) /\ DOMAIN h = 1..(Len(q) + 1) /\ Len(q) \in Nat
      /\ \A i \in 1..Len(q) : h[i] = q[i]
      /\ h[Len(q) + 1] = e
  BY AppendFacts
<1> HIDE DEF h
<1>2. ASSUME NEW i \in DOMAIN q
      PROVE  i \in DOMAIN h /\ h[i].metrics = q[i].metrics
  BY <1>1
<1>3. Len(q) + 1 \in DOMAIN h /\ h[Len(q) + 1].metrics = e.metrics
  BY <1>1
<1>4. {q[i].metrics : i \in DOMAIN q} \cup {e.metrics} \subseteq {h[i].metrics : i \in DOMAIN h}
  BY <1>2, <1>3
<1> QED
  BY <1>4 DEF h
-----------------------------------------------------------------------------
(* The handoff.                                                            *)

LEMMA Constants ==
  /\ Triggers \subseteq Nat \ {0} /\ TestFreqs \subseteq Nat
  /\ None \notin Nat /\ None \notin Results /\ None \notin Updates
  BY HandoffAssumption DEF Results, Updates

LEMMA InitInv == Init => Inv
<1> SUFFICES ASSUME Init PROVE Inv
  OBVIOUS
<1> USE Constants
<1>1. PICK m \in {None, 0} : val_queue = <<ValidateMetrics(0, m)>>
  BY DEF Init
<1>2. ValidateMetrics(0, m) \in Results /\ ValidateMetrics(0, m).param_version = 0
      /\ ValidateMetrics(0, m).metrics = m
  BY DEF ValidateMetrics, Results
<1>3. /\ val_queue \in Seq(Results) /\ Len(val_queue) = 1 /\ DOMAIN val_queue = {1}
      /\ val_queue[1] = ValidateMetrics(0, m)
  BY <1>1, <1>2
<1>4. logged \in Seq(Results) /\ Len(logged) = 0 /\ DOMAIN logged = {}
  BY DEF Init
<1>5. trigger_parameter_sync_step \in Nat \ {0}
  BY DEF Init
<1>6. TypeOK
  <2>1. 1 \in 1..trigger_parameter_sync_step
    BY <1>5
  <2> QED
    BY <1>3, <1>4, <2>1 DEF Init, TypeOK
<1>7. CountInv
  BY <1>3, <1>4 DEF Init, CountInv, Pending, Unsynced
<1>8. VersionInv
  BY <1>2, <1>3, <1>4 DEF VersionInv
<1>9. MeasureInv
  BY <1>2, <1>3, <1>4, <1>5 DEF Init, MeasureInv, Truthful, Measured, Weights
<1>10. EndInv
  BY DEF Init, EndInv
<1> QED
  BY <1>6, <1>7, <1>8, <1>9, <1>10 DEF Inv

(* What is true of a result stays so while nothing is trained.               *)
LEMMA StaysTruthful ==
  ASSUME NEW r, Truthful(r),
         UNCHANGED <<trigger_parameter_sync_step, current_param_version, ending, steps>>
  PROVE  r.metrics # None => Measured(r.param_version, r.metrics)'
  BY DEF Truthful, Measured, Weights

LEMMA PutInv ==
  ASSUME Inv, PutValidate
  PROVE  Inv'
<1> USE Constants
<1>1. update \in Updates /\ ~update.put /\ update.version \in Nat
  BY DEF Inv, TypeOK, PutValidate, Updates
<1>2. PICK m \in {rollout_weights, None} :
          /\ val_queue' = Append(val_queue, ValidateMetrics(update.version, m))
          /\ update.validate => m = rollout_weights
  BY DEF PutValidate
<1> DEFINE e == ValidateMetrics(update.version, m)
<1>3. e \in Results /\ e.param_version = update.version /\ e.metrics = m
  BY <1>1 DEF Inv, TypeOK, ValidateMetrics, Results
<1> HIDE DEF e
<1>4. /\ val_queue' \in Seq(Results) /\ Len(val_queue') = Len(val_queue) + 1
      /\ DOMAIN val_queue = 1..Len(val_queue) /\ DOMAIN val_queue' = 1..(Len(val_queue) + 1)
      /\ Len(val_queue) \in Nat
      /\ \A i \in 1..Len(val_queue) : val_queue'[i] = val_queue[i]
      /\ val_queue'[Len(val_queue) + 1] = e
  BY <1>2, <1>3, AppendFacts DEF Inv, TypeOK, e
<1>5. /\ update' \in Updates /\ update'.put /\ update'.version = update.version
      /\ update' # None
  BY <1>1 DEF PutValidate, Updates
<1>6. UNCHANGED <<trigger_parameter_sync_step, test_freq, trainerPc, steps, local_trigger_step,
                  current_param_version, ending, rollout_weights, val_data, logged>>
  BY DEF PutValidate, config
<1>7. TypeOK'
  BY <1>4, <1>5, <1>6 DEF Inv, TypeOK, Updates
<1>8. Len(logged) \in Nat /\ current_param_version \in Nat
  BY DEF Inv, TypeOK
<1>9. CountInv'
  BY <1>1, <1>4, <1>5, <1>6, <1>8 DEF Inv, CountInv, Pending, Unsynced
<1>10. VersionInv'
  <2>1. update.version = Len(logged) + Len(val_queue)
    BY <1>1, <1>4, <1>8 DEF Inv, CountInv, Pending, Unsynced
  <2> QED
    BY <1>3, <1>4, <1>6, <1>8, <2>1 DEF Inv, VersionInv
<1>11. MeasureInv'
  <2>1. Truthful(e)
    BY <1>1, <1>2, <1>3 DEF Inv, MeasureInv, Truthful
  <2>2. \A i \in DOMAIN val_queue' : Truthful(val_queue'[i])
    BY <1>4, <2>1 DEF Inv, MeasureInv
  <2>3. \A i \in DOMAIN val_queue' : Truthful(val_queue[i])'
    BY <1>6, <2>2, StaysTruthful DEF Truthful
  <2>4. \A i \in DOMAIN logged' : Truthful(logged[i])'
    BY <1>6, StaysTruthful DEF Inv, MeasureInv, Truthful
  <2>5. update' # None => Measured(update.version, rollout_weights)'
    BY <1>1, <1>5, <1>6 DEF Inv, MeasureInv, Measured, Weights
  <2>6. /\ ~ending' => steps' = Weights(current_param_version)' + local_trigger_step' - 1
        /\ ending' => trainerPc' # "train"
        /\ trainerPc' = "sync" => local_trigger_step' = 1
    BY <1>6 DEF Inv, MeasureInv, Weights
  <2> QED
    BY <2>3, <2>4, <2>5, <2>6 DEF MeasureInv
<1>12. EndInv'
  <2>1. Known \cup {m} \subseteq Known'
    <3>1. {val_queue[i].metrics : i \in DOMAIN val_queue} \cup {e.metrics}
             \subseteq {val_queue'[i].metrics : i \in DOMAIN val_queue'}
      <4>1. val_queue \in Seq(Results)
        BY DEF Inv, TypeOK
      <4>2. {val_queue[i].metrics : i \in DOMAIN val_queue} \cup {e.metrics}
               \subseteq {Append(val_queue, e)[i].metrics : i \in DOMAIN Append(val_queue, e)}
        BY <1>3, <4>1, AppendKeepsKnown
      <4>3. val_queue' = Append(val_queue, e)
        BY <1>2 DEF e
      <4> QED
        BY <4>2, <4>3
    <3> QED
      BY <1>3, <1>6, <3>1 DEF Known
  <2>2. Validating => steps \in Known'
    BY <1>2, <2>1 DEF Validating
  <2> QED
    BY <1>6, <2>1, <2>2 DEF Inv, EndInv
<1> QED
  BY <1>7, <1>9, <1>10, <1>11, <1>12 DEF Inv

LEMMA ReturnInv ==
  ASSUME Inv, UpdateReturns
  PROVE  Inv'
<1> USE Constants
<1>1. update # None /\ update.put /\ update' = None
  BY DEF UpdateReturns
<1>2. UNCHANGED <<trigger_parameter_sync_step, test_freq, trainerPc, steps, local_trigger_step,
                  current_param_version, ending, rollout_weights, val_queue, val_data, logged>>
  BY DEF UpdateReturns, config
<1>3. TypeOK'
  BY <1>1, <1>2 DEF Inv, TypeOK
<1>4. CountInv'
  BY <1>1, <1>2 DEF Inv, CountInv, Pending, Unsynced
<1>5. VersionInv'
  BY <1>2 DEF Inv, VersionInv
<1>6. MeasureInv'
  BY <1>1, <1>2 DEF Inv, MeasureInv, Truthful, Measured, Weights
<1>7. EndInv'
  BY <1>1, <1>2 DEF Inv, EndInv, Validating, Known
<1> QED
  BY <1>3, <1>4, <1>5, <1>6, <1>7 DEF Inv

(* get_validate: from an empty queue, or the oldest result.                  *)
LEMMA PollInv ==
  ASSUME Inv, Poll
  PROVE  Inv'
<1> USE Constants
<1>1. /\ UNCHANGED <<trigger_parameter_sync_step, test_freq, steps, local_trigger_step,
                     current_param_version, ending, rollout_weights, update>>
      /\ trainerPc = "poll" /\ trainerPc' = IF ending THEN "done" ELSE "train"
      /\ ending => update = None
  BY DEF Poll, config, rollouter
<1>2. /\ Len(logged) \in Nat /\ Len(val_queue) \in Nat /\ current_param_version \in Nat
      /\ DOMAIN logged = 1..Len(logged) /\ DOMAIN val_queue = 1..Len(val_queue)
      /\ Pending \in {0, 1} /\ Unsynced = 0
  BY <1>1 DEF Inv, TypeOK, Pending, Unsynced
<1>3. CASE val_queue = <<>>
  <2>1. val_data' = None /\ UNCHANGED <<val_queue, logged>>
    BY <1>3 DEF Poll, GetValidate
  <2>2. TypeOK'
    BY <1>1, <2>1 DEF Inv, TypeOK
  <2>3. Len(val_queue) = 0
    BY <1>3
  <2>4. CountInv'
    BY <1>1, <1>2, <2>1, <2>3 DEF Inv, CountInv, Pending, Unsynced
  <2>5. VersionInv'
    BY <2>1 DEF Inv, VersionInv
  <2>6. MeasureInv'
    BY <1>1, <2>1 DEF Inv, MeasureInv, Truthful, Measured, Weights
  <2>7. EndInv'
    BY <1>1, <2>1 DEF Inv, EndInv, Validating, Known
  <2> QED
    BY <2>2, <2>4, <2>5, <2>6, <2>7 DEF Inv
<1>4. CASE val_queue # <<>>
  <2> DEFINE e == val_queue[1]
  <2>1. /\ val_data' = e /\ val_queue' = Without(val_queue, 1)
        /\ logged' = Append(logged, e)
    BY <1>4 DEF Poll, GetValidate, Taken
  <2>2. /\ e \in Results
        /\ val_queue' \in Seq(Results) /\ Len(val_queue') = Len(val_queue) - 1
        /\ Len(val_queue) > 0 /\ DOMAIN val_queue' = 1..(Len(val_queue) - 1)
        /\ \A i \in 1..(Len(val_queue) - 1) : val_queue'[i] = val_queue[i + 1]
    <3>1. val_queue \in Seq(Results)
      BY DEF Inv, TypeOK
    <3> QED
      BY <1>4, <2>1, <3>1, WithoutFirst
  <2>3. /\ logged' \in Seq(Results) /\ Len(logged') = Len(logged) + 1
        /\ DOMAIN logged' = 1..(Len(logged) + 1)
        /\ \A i \in 1..Len(logged) : logged'[i] = logged[i]
        /\ logged'[Len(logged) + 1] = e
    BY <2>1, <2>2, AppendFacts DEF Inv, TypeOK
  <2>4. /\ {logged[i].metrics : i \in DOMAIN logged}
              \cup {val_queue[i].metrics : i \in DOMAIN val_queue}
            \subseteq {Append(logged, e)[i].metrics : i \in DOMAIN Append(logged, e)}
              \cup {Without(val_queue, 1)[i].metrics : i \in DOMAIN Without(val_queue, 1)}
    BY <1>4, TakingKeepsKnown DEF Inv, TypeOK
  <2>5. Known \subseteq Known'
    BY <2>1, <2>4 DEF Known
  <2>6. e.param_version = Len(logged) /\ Truthful(e)
    BY <1>2, <2>2 DEF Inv, VersionInv, MeasureInv
  <2> HIDE DEF e
  <2>7. TypeOK'
    BY <1>1, <2>1, <2>2, <2>3 DEF Inv, TypeOK
  <2>8. CountInv'
    BY <1>1, <1>2, <2>2, <2>3 DEF Inv, CountInv, Pending, Unsynced
  <2>9. VersionInv'
    <3>1. \A i \in DOMAIN logged' : logged'[i].param_version = i - 1
      BY <1>2, <2>3, <2>6 DEF Inv, VersionInv
    <3>2. \A i \in DOMAIN val_queue' : val_queue'[i].param_version = Len(logged') + i - 1
      <4>1. ASSUME NEW i \in 1..(Len(val_queue) - 1)
            PROVE  val_queue'[i].param_version = Len(logged) + (i + 1) - 1
        <5>1. i + 1 \in DOMAIN val_queue /\ val_queue'[i] = val_queue[i + 1]
          BY <1>2, <2>2
        <5> QED
          BY <5>1 DEF Inv, VersionInv
      <4> QED
        BY <1>2, <2>2, <2>3, <4>1
    <3> QED
      BY <3>1, <3>2 DEF VersionInv
  <2>10. MeasureInv'
    <3>1. \A i \in DOMAIN logged' : Truthful(logged'[i])
      <4>1. \A i \in 1..Len(logged) : Truthful(logged'[i])
        BY <1>2, <2>3 DEF Inv, MeasureInv
      <4>2. Truthful(logged'[Len(logged) + 1])
        BY <2>3, <2>6
      <4> QED
        BY <1>2, <2>3, <4>1, <4>2
    <3>2. \A i \in DOMAIN val_queue' : Truthful(val_queue'[i])
      <4>1. ASSUME NEW i \in 1..(Len(val_queue) - 1)
            PROVE  i + 1 \in DOMAIN val_queue /\ val_queue'[i] = val_queue[i + 1]
        BY <1>2, <2>2
      <4> QED
        BY <2>2, <4>1 DEF Inv, MeasureInv
    <3>3. \A i \in DOMAIN logged' : Truthful(logged[i])'
      BY <1>1, <3>1, StaysTruthful DEF Truthful
    <3>4. \A i \in DOMAIN val_queue' : Truthful(val_queue[i])'
      BY <1>1, <3>2, StaysTruthful DEF Truthful
    <3>5. update' # None => Measured(update.version, rollout_weights)'
      BY <1>1 DEF Inv, MeasureInv, Measured, Weights
    <3>6. /\ ~ending' => steps' = Weights(current_param_version)' + local_trigger_step' - 1
          /\ ending' => trainerPc' # "train"
          /\ trainerPc' = "sync" => local_trigger_step' = 1
      BY <1>1 DEF Inv, MeasureInv, Weights
    <3> QED
      BY <3>3, <3>4, <3>5, <3>6 DEF MeasureInv
  <2>11. EndInv'
    BY <1>1, <1>2, <2>1, <2>3, <2>5 DEF Inv, EndInv, Validating
  <2> QED
    BY <2>7, <2>8, <2>9, <2>10, <2>11 DEF Inv
<1> QED
  BY <1>3, <1>4

LEMMA NextWeights ==
  ASSUME NEW v \in Nat, trigger_parameter_sync_step \in Nat
  PROVE  Weights(v + 1) = Weights(v) + trigger_parameter_sync_step /\ Weights(v) \in Nat
  BY DEF Weights

LEMMA TrainInv ==
  ASSUME Inv, TrainStep
  PROVE  Inv'
<1> USE Constants
<1>1. /\ UNCHANGED <<trigger_parameter_sync_step, test_freq, ending, rollout_weights, update,
                     val_queue, val_data, logged>>
      /\ trainerPc = "train" /\ steps' = steps + 1
  BY DEF TrainStep, config, rollouter
<1>2. ~ending /\ ~ending'
  BY <1>1 DEF Inv, MeasureInv
<1>3. /\ trigger_parameter_sync_step \in Nat \ {0} /\ current_param_version \in Nat
      /\ local_trigger_step \in 1..trigger_parameter_sync_step /\ steps \in Nat
      /\ steps = Weights(current_param_version) + local_trigger_step - 1
      /\ Len(logged) \in Nat /\ Len(val_queue) \in Nat /\ Len(logged) >= current_param_version
  BY <1>1, <1>2, Constants DEF Inv, TypeOK, CountInv, MeasureInv
<1>4. /\ Weights(current_param_version + 1)
            = Weights(current_param_version) + trigger_parameter_sync_step
      /\ Weights(current_param_version) \in Nat
  BY <1>3, NextWeights
<1>5. \/ /\ local_trigger_step = trigger_parameter_sync_step /\ local_trigger_step' = 1
         /\ current_param_version' = current_param_version + 1 /\ trainerPc' = "sync"
      \/ /\ local_trigger_step < trigger_parameter_sync_step
         /\ local_trigger_step' = local_trigger_step + 1
         /\ current_param_version' = current_param_version /\ trainerPc' = "poll"
  BY <1>3 DEF TrainStep, TriggerDue
<1>6. TypeOK'
  BY <1>1, <1>3, <1>5 DEF Inv, TypeOK
<1>7. CountInv'
  BY <1>1, <1>3, <1>5 DEF Inv, CountInv, Pending, Unsynced
<1>8. VersionInv'
  BY <1>1 DEF Inv, VersionInv
<1>9. MeasureInv'
  <2>1. steps' = Weights(current_param_version') + local_trigger_step' - 1
    BY <1>1, <1>3, <1>4, <1>5
  <2>2. trainerPc' = "sync" => local_trigger_step' = 1
    BY <1>5
  <2>3. update' # None => Measured(update.version, rollout_weights)'
    BY <1>1, <1>2 DEF Inv, MeasureInv, Measured, Weights
  <2>4. /\ \A i \in DOMAIN logged' : Truthful(logged[i])'
        /\ \A i \in DOMAIN val_queue' : Truthful(val_queue[i])'
    BY <1>1, <1>2 DEF Inv, MeasureInv, Truthful, Measured, Weights
  <2>5. steps' = Weights(current_param_version)' + local_trigger_step' - 1
    BY <1>1, <2>1 DEF Weights
  <2> QED
    BY <1>2, <2>2, <2>3, <2>4, <2>5 DEF MeasureInv
<1>10. EndInv'
  BY <1>1, <1>2, <1>5 DEF Inv, EndInv
<1> QED
  BY <1>6, <1>7, <1>8, <1>9, <1>10 DEF Inv

LEMMA EndOfSamplesInv ==
  ASSUME Inv, EndOfSamples
  PROVE  Inv'
<1> USE Constants
<1>1. /\ UNCHANGED <<trigger_parameter_sync_step, test_freq, steps, rollout_weights, update,
                     val_queue, val_data, logged>>
      /\ trainerPc = "train" /\ ending'
  BY DEF EndOfSamples, config, rollouter
<1>2. /\ ~ending /\ trigger_parameter_sync_step \in Nat \ {0} /\ current_param_version \in Nat
      /\ local_trigger_step \in 1..trigger_parameter_sync_step /\ steps \in Nat
      /\ steps = Weights(current_param_version) + local_trigger_step - 1
      /\ Len(logged) \in Nat /\ Len(val_queue) \in Nat /\ Len(logged) >= current_param_version
      /\ DOMAIN logged = 1..Len(logged)
  BY <1>1, Constants DEF Inv, TypeOK, CountInv, MeasureInv
<1>3. \/ /\ current_param_version' = current_param_version + 1 /\ local_trigger_step' = 1
         /\ trainerPc' = "sync"
      \/ /\ ~NeedsLastValidation /\ trainerPc' = "done"
         /\ UNCHANGED <<current_param_version, local_trigger_step>>
  BY DEF EndOfSamples
<1>4. TypeOK'
  BY <1>1, <1>2, <1>3 DEF Inv, TypeOK
<1>5. CountInv'
  BY <1>1, <1>2, <1>3 DEF Inv, CountInv, Pending, Unsynced
<1>6. VersionInv'
  BY <1>1 DEF Inv, VersionInv
<1>7. MeasureInv'
  <2>1. ASSUME NEW v, NEW metrics, Measured(v, metrics)
        PROVE  metrics = v * trigger_parameter_sync_step
    BY <1>2, <2>1 DEF Measured, Weights
  <2> QED
    BY <1>1, <1>2, <1>3, <2>1 DEF Inv, MeasureInv, Measured, Truthful, Weights
<1>8. EndInv'
  <2>1. CASE trainerPc' = "sync"
    BY <1>1, <2>1 DEF EndInv
  <2>2. CASE ~NeedsLastValidation /\ trainerPc' = "done"
    <3>1. /\ val_data # None /\ val_data.metrics # None
          /\ Len(logged) > 0 /\ val_data = logged[Len(logged)]
      BY <1>1, <2>2 DEF NeedsLastValidation, Inv, EndInv
    <3>2. Len(logged) \in DOMAIN logged
      BY <1>2, <3>1
    <3>3. val_data.metrics \in Known
      BY <3>1, <3>2 DEF Known
    <3>4. val_data.param_version = Len(logged) - 1 /\ Truthful(val_data)
      BY <3>1, <3>2 DEF Inv, VersionInv, MeasureInv
    <3>5. val_data.metrics = (Len(logged) - 1) * trigger_parameter_sync_step
      BY <1>2, <3>1, <3>4 DEF Truthful, Measured, Weights
    <3>6. (Len(logged) - 1) * trigger_parameter_sync_step
             >= current_param_version * trigger_parameter_sync_step - trigger_parameter_sync_step
      <4> DEFINE d == Len(logged) - current_param_version
                 t == trigger_parameter_sync_step
      <4>1. d \in Nat /\ t \in Nat /\ Len(logged) = current_param_version + d
        BY <1>2
      <4>2. d * t \in Nat
        BY <4>1
      <4>3. (current_param_version + d - 1) * t = current_param_version * t + d * t - t
        BY <1>2, <4>1
      <4>4. current_param_version * t \in Nat
        BY <1>2
      <4>5. (Len(logged) - 1) * t = (current_param_version + d - 1) * t
        BY <1>2, <4>1
      <4> DEFINE w == current_param_version * t
                 n == (Len(logged) - 1) * t
                 x == d * t
      <4>6. x \in Nat /\ w \in Nat /\ t \in Nat /\ n = w + x - t
        BY <4>1, <4>2, <4>3, <4>4, <4>5
      <4> HIDE DEF w, n, x, t
      <4>7. n >= w - t
        BY <4>6
      <4> QED
        BY <4>7 DEF w, n, t
    <3>7. val_data.metrics > steps - 2 * trigger_parameter_sync_step
      <4> DEFINE w == current_param_version * trigger_parameter_sync_step
                 m == val_data.metrics
                 n == (Len(logged) - 1) * trigger_parameter_sync_step
      <4>1. w \in Nat /\ n \in Int /\ m = n /\ steps = w + local_trigger_step - 1
        BY <1>2, <3>5 DEF Weights
      <4>2. n >= w - trigger_parameter_sync_step
        BY <3>6
      <4> HIDE DEF w, m, n
      <4>3. m > steps - 2 * trigger_parameter_sync_step
        BY <1>2, <4>1, <4>2
      <4> QED
        BY <4>3 DEF m
    <3>8. Known' = Known
      BY <1>1 DEF Known
    <3> QED
      BY <1>1, <2>2, <3>1, <3>3, <3>7, <3>8 DEF EndInv
  <2> QED
    BY <1>3, <2>1, <2>2
<1> QED
  BY <1>4, <1>5, <1>6, <1>7, <1>8 DEF Inv

LEMMA SyncInv ==
  ASSUME Inv, SyncWeights
  PROVE  Inv'
<1> USE Constants
<1>1. /\ UNCHANGED <<trigger_parameter_sync_step, test_freq, steps, local_trigger_step,
                     current_param_version, ending, val_queue, val_data, logged>>
      /\ trainerPc = "sync" /\ trainerPc' = "poll" /\ update = None /\ rollout_weights' = steps
  BY DEF SyncWeights, config
<1>2. /\ update' \in Updates /\ update' # None /\ ~update'.put
      /\ update'.version = current_param_version /\ update'.validate = ending
  <2>1. ending \in BOOLEAN /\ current_param_version \in Nat
    BY DEF Inv, TypeOK
  <2>2. update' = [version |-> current_param_version, validate |-> ending, put |-> FALSE]
    BY DEF SyncWeights, ValidateRequested
  <2>3. update' \in Updates
    BY <2>1, <2>2 DEF Updates
  <2> QED
    BY <2>2, <2>3
<1>3. TypeOK'
  BY <1>1, <1>2 DEF Inv, TypeOK, Updates
<1>4. CountInv'
  BY <1>1, <1>2 DEF Inv, TypeOK, CountInv, Pending, Unsynced
<1>5. VersionInv'
  BY <1>1 DEF Inv, VersionInv
<1>6. MeasureInv'
  <2>1. Measured(update'.version, rollout_weights')
    <3>1. CASE ending
      BY <1>1, <1>2, <3>1 DEF Measured
    <3>2. CASE ~ending
      <4>1. local_trigger_step = 1 /\ steps = Weights(current_param_version) + 1 - 1
        BY <1>1, <3>2 DEF Inv, MeasureInv
      <4>2. Weights(current_param_version) \in Nat
        BY DEF Weights, Inv, TypeOK
      <4> QED
        BY <1>1, <1>2, <4>1, <4>2 DEF Measured
    <3> QED
      BY <3>1, <3>2
  <2>2. Measured(update.version, rollout_weights)'
    BY <1>1, <2>1 DEF Measured, Weights
  <2> QED
    BY <1>1, <2>2 DEF Inv, MeasureInv, Measured, Truthful, Weights
<1>7. EndInv'
  BY <1>1, <1>2 DEF EndInv, Validating
<1> QED
  BY <1>3, <1>4, <1>5, <1>6, <1>7 DEF Inv

LEMMA NextInv == Inv /\ [Next]_vars => Inv'
<1> SUFFICES ASSUME Inv, [Next]_vars PROVE Inv'
  OBVIOUS
<1>1. CASE UNCHANGED vars
  BY <1>1 DEF vars, config, rollouter, Inv, TypeOK, CountInv, Pending, Unsynced, VersionInv,
     MeasureInv, Measured, Truthful, Weights, EndInv, Validating, Known
<1> QED
  BY <1>1, PutInv, ReturnInv, PollInv, TrainInv, EndOfSamplesInv, SyncInv DEF Next, Terminated

THEOREM InvHolds == Spec => []Inv
  BY InitInv, NextInv, PTL DEF Spec

(* Results keep up with the versions, and say what was measured, whenever    *)
(* they arrive (put_validate, get_validate, wait_last_valid).               *)
THEOREM ResultsAlwaysKeepUp == Spec => []ResultsKeepUp
<1>1. Inv => ResultsKeepUp
  <2> SUFFICES ASSUME Inv PROVE ResultsKeepUp
    OBVIOUS
  <2>1. trainerPc = "train" => Len(logged) \in {current_param_version, current_param_version + 1}
    BY DEF Inv, TypeOK, CountInv, Pending, Unsynced
  <2> QED
    BY <2>1 DEF Inv, VersionInv, MeasureInv, Truthful, Measured, Weights, ResultsKeepUp
<1> QED
  BY <1>1, InvHolds, PTL

(* However the run ends, weights of less than two synchronizations ago have  *)
(* been validated, and the trained ones unless the trainer holds an older    *)
(* result (end of fit).                                                    *)
THEOREM EndsValidated == Spec => []FinalValidation
<1>1. Inv => FinalValidation
  <2> SUFFICES ASSUME Inv, trainerPc = "done" PROVE FinalValidation
    BY DEF FinalValidation
  <2>1. /\ trigger_parameter_sync_step \in Nat \ {0} /\ steps \in Nat /\ steps # None
        /\ Len(logged) \in Nat /\ Len(val_queue) \in Nat
    BY Constants DEF Inv, TypeOK
  <2>2. Len(val_queue) =< 1
    BY <2>1 DEF Inv, TypeOK, CountInv, Pending, Unsynced
  <2>3. \E w \in Known \ {None} : w > steps - 2 * trigger_parameter_sync_step
    BY <2>1 DEF Inv, EndInv
  <2>4. steps \in Known \/ (val_data # None /\ val_data.metrics # None)
    BY DEF Inv, EndInv
  <2> QED
    BY <2>2, <2>3, <2>4 DEF FinalValidation
<1> QED
  BY <1>1, InvHolds, PTL

=============================================================================
