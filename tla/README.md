# A verification project for the OPD training system

This directory holds TLA+ models of the concurrent and stateful parts of the repository, the TLC configurations that
check them on small instances, and TLAPS proofs of some of their properties for every instance. The repository is a fork
of verl (`verl/`) with a rubric-scored on-policy distillation trainer on top, evaluation suites (`math_eval/`,
`code_eval/`) and experiment scripts. Paths below are relative to the repository; `fap/` stands for
`verl/recipe/fully_async_policy/`.

## Inventory

| component | state it keeps | operations | what is hard | what makes it correct |
|---|---|---|---|---|
| **Message queue** `fap/message_queue.py` | deque, running flag, version label, three counters, condition with sleeping consumers, one validation slot | put, get, label, clear, shutdown, statistics | drops when full, wake-ups, calls from several processes in any order | bound, no lost wake-up, drops only what the throttle allows |
| **Rollouter** `fap/fully_async_rollouter.py` | pending / cancel / result queues, active tasks, paused, trigger and running flags, version, staleness counter, lock and condition | feed, process, generate, consume, monitor, pause, update version, resume, finish | eight coroutines on one event loop, state read before a lock or an await and used after it, interrupted generations | no sample lost or trained on twice, throttle, no generation during a transfer, termination |
| **Trainer and synchronizer** `fap/fully_async_trainer.py`, `fap/param_sync.py` | batch, step within the trigger, version, handles of the last update and resume | collect, train, trigger, sync, final sync | the update is launched and not awaited; a finish signal in the middle of a batch | versions agree, every pause is answered, version due exactly on the boundary |
| **Generation server** `fap/vllm_rollout/`, `fap/agent_loop/` | table of requests, cancel events, paused flag | generate, cancel, resume | cancellation racing completion, requests that arrive after it, rows of one sample in different states | partial output never lost or doubled, every pause ends |
| **Rubric distillation step** `verl/verl/trainer/ppo/ray_trainer.py` (1168-2951) | the batch's rows, scores, reroll marks, rubric history | score, reroll, accept, drop, pad, balance | rows added, replaced and removed by several passes; partial failures of the scorer | every row accounted for, weights and masks follow their row |
| **Checkpoints and resume** `ray_trainer.py` (3255-3373), `verl/verl/utils/checkpoint/` | step directories, tracker file, data-loader state | save, rotate, load | a crash between two writes | resume never points at a missing or partial step |
| **GPT scorer** `verl/verl/trainer/ppo/gpt_rollout_scorer.py` | thread pool, attempts | score, suggest | two nested retry loops, futures completing in any order, two thresholds for a suggestion | every row gets its own result, and what its score calls for |
| **One-step-off-policy** `verl/recipe/one_step_off_policy/` | weights on two sets of workers, the batch in flight, the loader's position | draw, sync, generate ahead, train, validate, save, resume | generation overlapping training, a checkpoint saved with a batch in flight, data that end before the steps | at most one update of lag, no batch trained twice |
| **Agent loops** `verl/verl/experimental/agent_loop/` | per conversation: ids, mask, log-probs, turns; cache and counts of the server manager | generate, call tools, interact, return | three handlers extend what is cut apart at the end; limits on turns and lengths; a cache shared with earlier batches | ids, mask and log-probs stand for the same tokens, one server per conversation |
| **Tools, reward router** `verl/verl/tools/`, `verl/verl/experimental/reward/` | rate limiter, router table | execute, route | concurrency and limits | limits kept, fair routing |
| **Dispatch** `verl/verl/single_controller/`, `verl/verl/protocol.py` | worker groups, batches | split, pad, collect | uneven sizes | concat of split is the identity |
| **Length balancing** `verl/verl/utils/seqlen_balancing.py` | - | partition | equal-size mode | a partition, balanced |

The rest (tensor arithmetic in `core_algos.py`, workers, engines, models and kernels; other recipes; evaluation suites;
shell pipelines, data, documents) keeps no state whose interleavings matter, or is vendored. `PROJECT.json` lists every
component, and under `hazards` the places where the code is hard to test.

## How the modelled parts interact

    feeder -> pending_queue -> processor -> task -> generation server
                                   ^          |
                                   |          +-> result_queue -> consumer -> MessageQueue -> trainer
                                   +- cancel_queue <- (interrupted)                              |
        pause / update_param_version / resume  <--------- ParameterSynchronizer <---------------+

The rollouter is one actor: its coroutines share one event loop, one `asyncio.Lock` and one condition. The queue, the
generation servers and the trainer are other processes. The synchronizer runs only inside calls the trainer waits for,
but the update and the resume it launches are not waited for until the next synchronization.

## Modules

| module | models | notes |
|---|---|---|
| `MessageQueue` | `fap/message_queue.py` | each method body runs under the actor's lock, so a call is one action; only `get_sample` splits, at the condition |
| `Rollouter` | `fap/fully_async_rollouter.py` | one action per slice of a coroutine between two suspensions |
| `FullyAsync` | `fap/fully_async_trainer.py`, `fap/param_sync.py` | composes the two above with the trainer; holds the properties |
| `SampleStream` | abstract specification | what the pipeline promises about samples, with no queue, lock or coroutine |
| `CheckpointResume` | `verl/verl/trainer/ppo/ray_trainer.py` (fit, save, load), `verl/verl/utils/checkpoint/` | the training loop as far as checkpoints see it, the disk, crashes and launches |
| `RubricStep` | `verl/verl/trainer/ppo/ray_trainer.py` (1301-2951, 3397-3430, 3525-3893), `dp_actor.py`, `protocol.py` | the rows of a batch through one step, one action per pass |
| `PartialServer` | `fap/vllm_rollout/vllm_async_server.py`, `fap/agent_loop/`, the tasks of the rollouter | what happens inside a generation that `Rollouter` takes as one step |
| `GrowingResponse` | abstract specification | what partial rollout promises about responses, with no server, request or pause |
| `ScorerPool` | `gpt_rollout_scorer.py`, `_ensure_low_score_revision_suggestions` of `ray_trainer.py` | the threads, retries and fallbacks behind the scores `RubricStep` starts from |
| `OneStepOff` | `verl/recipe/one_step_off_policy/ray_trainer.py` | one step of its loop per blocking call, with restarts |
| `ValidationHandoff` | validation in `fap/fully_async_rollouter.py` (`update_param_version`), `fap/fully_async_trainer.py` (fit), `fap/message_queue.py` (validation queue) | the one thing `FullyAsync` leaves out of an update, and the end of `fit` it decides |
| `ToolAgentLoop` | `verl/verl/experimental/agent_loop/tool_agent_loop.py`, the server manager and the gathering of a batch in `agent_loop.py` | one action per handler, two or three where a handler awaits a server or tools |
| `MCFullyAsync`, `MCCheckpointResume`, `MCRubricStep`, `MCPartialServer`, `MCScorerPool`, `MCOneStepOff`, `MCValidationHandoff`, `MCToolAgentLoop` | - | instances for TLC |
| `FullyAsync_proofs`, `MessageQueue_proofs` (with `ValidationHandoff`), `CheckpointResume_proofs`, `OneStepOff_proofs`, `PartialServer_proofs`, `ScorerPool_proofs`, `ToolAgentLoop_proofs`, `RubricStep_proofs` | - | theorems |

How the code maps to the model:

* **Cooperative scheduling.** `loop` is the coroutine in mid-slice. A coroutine that does not suspend (a free lock, a
  non-empty queue) keeps it; others run only when it is `"idle"`. Queue, servers and trainer ignore it.
* **The lock** is the FIFO `lockq`, whose head is the holder; `asyncio.Lock` grants in FIFO order. A coroutine whose
  turn has come still has to be scheduled.
* **Condition.** Only the processor waits on it, so `notify_all` moves `procPc` from `"wait"` to `"woken"`.
* **Blocking calls.** `_should_pause_generation` calls the queue synchronously and blocks the whole loop, so it is part
  of the step that uses its answer.
* **Staleness** counts samples the processor takes, and is recomputed by `update_param_version` in two reads separated
  by an await (`UpdateEnter`, `UpdateReadSize`, `UpdateAssign`); that the `+= 1` in between is lost is part of the model.
* **`UnboundLocalError`.** `bound` says whether `done_tasks` has been assigned; if not, the loop over it kills the
  processor (`ProcCollect`).
* **Failures.** `TaskFail` is a generation that raises. Awaited by the processor it kills it; gathered by `pause()` it
  vanishes (`return_exceptions=True`).
* `departed` is a history variable, used by properties only.

In `CheckpointResume` a model is the sequence of its updates, a shard is the model one rank wrote, and the disk is three
sets of files and the tracker. Each write of the code is an action, so a crash may come between any two; what a write in
progress has already destroyed is chosen by `Crash` (`HalfRemoved`, `HalfWritten`, a torn `data.pt`, an emptied tracker).
A crash loses the process: `previous_saved_paths` starts empty. What the data loader does with a state taken at the end of
an epoch is external and left open (`LoadedLeft`). The deadline of an elastic instance is a free choice.

`RubricStep` follows the batch as a sequence of rows; a row is the per-row fields of `DataProto` that some pass tests
(`g_opd_sample_kind`, `g_opd_padding_sample`, whether mask and weights are positive, the scores). The phases are the
calls of `fit` in their order:

    rollout -> reroll -> pad -> logprob -> rank -> pad_update -> update -> (next step)

`RolloutAndScore` leaves open what GPT answers, failures included (`Unscored`); `Reroll` which hints fit into the prompt
(`ready`) and what the second answers score; `PadAndBalance` whether the batch is reordered (kept or reversed, which is
what ties and padding can tell apart); `ComputeLogProbs` what the teacher thinks. `RankGap` is the whole of
`_rank_gap_drop_and_rubric_shift`: ranks, drop, new ranks, shift, and the update of `_gpt_rubric_history`. A shift is
its sign, because coefficients, clips and the standard deviation (floored above zero) do not change it. `dropped` is used by properties only. Weights configured as positive are positive: `orig_loss_weight`,
`reroll_hint_loss_weight`, and the SFT weights, which are exponentials. GPT's labels of a rollout are fixed by the
configuration, second answers share the teacher score of the first, buckets are the labels (mode `random` is left out).

`PartialServer` opens up the generation of a sample. A row has at most one request at a time, so its record `request` is
what the server keeps under that id (`req_output`, `cancel_event`, whether generation has ended), and `output` is the
agent loop's answer, which the next task of the same sample carries on. A token is the pair of its place in the response
and the version of the weights that made it, so that a lost, repeated or mislabelled token shows. The balancer's choice of
a server is left open. In `Rollouter` all of this is the step in which a task ends or is interrupted; here the queues
and the other coroutines are reduced to `status` and `sync`, and the monitor, which may wake a paused rollouter, is left out.

`ScorerPool` has the pool's queue, its threads (a record each: the row, the stage, the attempts made) and the futures.
GPT's answer is a free choice of a score, with or without a suggestion, or of a failure; whether a body could be read
decides which of the two loops a failure leaves (`HintAttempt`). Waits between attempts are steps other threads may take.

`OneStepOff` counts the weights: a version is the number of updates that went into it. `rollout` are the weights of the
rollout workers, brought by `sync_rollout_weights` only. Calls to a worker group are served in order, so a call that
blocks takes effect once the earlier ones are done, and the generation of the batch ahead is the only call that
outlives its step. `_save_checkpoint` is one step (`CheckpointResume` has its parts), a restart resumes the last checkpoint.

`ValidationHandoff` counts weights by the training steps in them, and a result carries the weights it measured. The update
is launched by `SyncWeights` and not awaited, so its result (`PutValidate`) may come any number of polls later, up to the
next synchronization. A validation reward function is taken to be configured; without one every result is empty. The
initial synchronization, with or without `val_before_train`, is the initial state. The samples may run out
before any step.

In `ToolAgentLoop` a token is where it comes from (the prompt, the model, a tool, the user), so that a mask or a log-prob on
the wrong token shows. `agent_data` is the record of that name plus the state of the loop, in which `waiting` and
`calling` stand for the awaits inside two handlers, and `failed` for an exception that leaves `run`. A request id is fresh in every batch, as
a uuid is. Prompts have been filtered to `prompt_length`, an answer of the model, a tool or a user is never empty once tokenized,
and a tool that raises is an answer like another (`_call_tool` catches it), while an interaction that raises is not caught.
Text, images and rewards are left out, and with them the exceptions that only images raise.

Abstractions: a sample is a number, its payload is not modelled; a training step is one action; in `FullyAsync` the
validation inside `update_param_version` is a point at which the lock is held, and the final synchronization is always
made, as it is without validation metrics (`ValidationHandoff` has the rest); the initial synchronization before
training is the initial state; `clear_queue` and `shutdown` of the queue are only in `MQSpec`, the subject of the queue's
proofs, because training never reaches them (`fully_async_main.py` calls the client's coroutine without awaiting it).

Operators next to a definition whose comment calls them a slip, a gate that lets too much through and the like are
altered forms of it: each was checked to break the property named in `PROJECT.json`, which shows that the property
depends on that line of the code.

## Runs

Constants in the order `TotalRolloutSteps, RequiredSamples, TriggerParameterSyncStep, MaxRequired, MaxConcurrent,
PendingMax`; P partial rollout, M monitor ticks, F failing generations, O ordered calls.

| run | instance | shows |
|---|---|---|
| `FA_throttle` | 5,1,1,2,2,2 P F=1 O | at most `max_required + 1` samples outstanding, lag bounded by what that lets through, transfers quiet, labels true |
| `FA_monitor` | 4,2,1,3,2,2 P M F=1 | with ticks, failures and unordered calls: no sample duplicated or lost unseen; versions agree; the finish signal comes last; no lost wake-up in the queue; implements `SampleStream` |
| `FA_live` | 4,2,1,3,2,2 P | training terminates unless the processor died; every pause is answered; interrupted samples are taken up again |
| `FA_doc_standstill` | 5,2,1,3,2,2 P M O | **violated**: rollouter and trainer wait for each other for ever (README, line 139) |
| `CR_auto` | 5 steps, save every 2 or by deadline, keep 2, actor and critic, 2 ranks, 2 crashes, mode auto | the tracker names one complete checkpoint, no batch skipped or repeated, a job that returns is trained and saved, and it comes to rest |
| `CR_modes` | 4 steps, keep 1, 2 crashes, every mode | the step number is the number of updates of whatever was loaded |
| `RB` | 2 steps, 3 rollouts, 3 data-parallel ranks, 5 configurations (reroll with hint and no-hint or SFT, drop, each shift) | every answer trains once and padding never, an update always has rows to train on and splits evenly, second answers beat their own first, history and shift are honest |
| `PS` | 1 sample of 2 rows, 2 servers, responses of 2 tokens in a window of 3, 3 synchronizations | tokens in their places and truthfully labelled whatever interruptions; implements `GrowingResponse`; every pause ends; every sample is delivered |
| `SP` | 4 rows, 2 threads, 1 retry of each kind, scores around both thresholds | a row gets its own result; low rows have a suggestion, others none; a score or an error |
| `OSO` | 2 epochs of 3 batches, 6 steps, critic warm-up 2, save and test every step, 3 restarts | at most one update behind, also validation (two at the end); a restart skips at most the batch ahead and repeats none |
| `VH` | at most 7 steps, triggers 1 to 3, test frequencies 0 to 3, with and without validation before training | results are logged one per version, in order, at most one version late, and say what was measured; the run ends with weights validated that are less than two synchronizations old |
| `TAL` | 2 batches of 2 conversations, 3 servers, a cache of 2, prompts of 2 and responses of 4 tokens, tools alone or with an interaction, with and without limits on turns | what a conversation returns fits together; a tool's answer leaves room to go on; a conversation stays on its server and the servers are balanced |

Other disagreements the models show, each by an invariant that TLC refutes in seconds, but which have no run of their own:

* An interrupted sample is lost at the end: `cancel_queue` is not read again once the end signal has been taken
  (`fully_async_rollouter.py:368`), where README of the recipe, line 212, says that interrupted samples are resumed.
  `procPc = "finished" => cancel_queue = <<>>` fails in the instance `3,2,1,4,2,2 P O`.
* Keeping one checkpoint, the only one is removed before the next is written (`fsdp_checkpoint_manager.py:213`):
  a crash in between leaves nothing to resume from (config.rst, line 598). Instance: 4 steps, keep 1, 1 crash; the
  tracker then names a directory that is gone or half there.
* `Outstanding <= MaxRequired` in the instance `5,1,1,2,1,2 O`: README of the recipe, line 134, promises at most
  `rollout_num` samples between two updates, and the sample in the processor's hand escapes the count. With
  unordered calls so does the consumer's, whose put may be served after the size was read: `Outstanding <= MaxRequired + 1`
  then fails in the instance `6,1,1,3,2,2 P`. `Uncounted`, in `StalenessBudget`, `BoundedLag` and the budget of `SampleStream`, is one or two accordingly.
* The update of `RubricStep` has no row to train on, if the configuration accepts second answers without a gain: with
  `require_improvement` off, `append_min_score` below `min_score` and `nohint_min_gain` zero, the one row the drop
  leaves may be a second answer of weight zero. The defaults
  (`ppo_trainer.yaml:186-202`) rule it out three times over, and so do the configurations of `RB`; `UpdateIsPossible` has it as its hypothesis `SecondsTrain`.
* `QuietTransfer` in the instance `4,2,1,3,2,2 M O`: a monitor tick overtakes a pause and generation goes on while the
  weights move (README of the recipe, line 203). `FA_doc_standstill` shows what the same race does in the end.
* `procPc # "crashed"` in the instance `4,2,1,3,2,2 O`: the processor dies of an unassigned `done_tasks` (comment,
  `fully_async_rollouter.py:346`). `Terminates` admits it.
* `phase # "failed"` in `RubricStep`: a number of rerolled rows that does not split evenly over the generation workers
  fails the assertion of `protocol.py:889`.
* A second answer exactly `reroll_append_min_gain` better is rejected (`ray_trainer.py:2798`), where
  `OPD_RUBRIC_EXPERIMENTS.md`, line 158, says "at least"; `drop_scope = "appended"` never drops anything, because
  appended rows are not ranked (line 2490); and the drop removes the row (line 2567) where line 171 of the document says
  that it sets its weight to zero.
* Rows nobody disagrees about are dropped when some rollouts are unscored: these count in the teacher's ranks but not in
  the rubric's (`ray_trainer.py:2493`), where `OPD_RUBRIC_EXPERIMENTS.md`, line 75, asks for rank disagreement. In one step
  with threshold 3/4, "a dropped row has a disagreement among the scored rows" fails in `RubricStep`.
* `tracker # Garbled` in `CheckpointResume`: a crash between `open("w")` and `write` leaves an empty tracker, and
  `int("")` stops every later launch, also in mode resume_path (comment "for atomic usage", `ray_trainer.py:3308`).
* At most `Keep[p]` checkpoints on disk: the list of saved paths does not survive a restart
  (`fsdp_checkpoint_manager.py:190`).
* At most `TotalTrainingSteps` updates: a finished job launched again trains one step past the end.
* All ranks hold the same model: fails with modes auto and disable mixed, when a run from scratch writes over the
  checkpoint the tracker names and dies between two ranks.

* `PartialServer`: a request interrupted before its first token returns without removing its entries of `req_output` and
  `cancel_event` (`vllm_async_server.py:107`), which therefore grow; and the agent loop cuts ids and mask at
  `response_length`, but not log-probs (`partial_single_turn_agent_loop.py:101`). `TokensAccountedFor` admits both.
* `ScorerPool`: an HTTP error whose body cannot be read, while a suggestion is asked for, discards the score already
  obtained (`gpt_rollout_scorer.py:568`); `retries = -1` leaves rows without a score and without an error.
* `fit` of the fully asynchronous trainer calls `_save_checkpoint` (`fully_async_trainer.py:265`), which reads
  `train_dataloader` (`ray_trainer.py:3305`), and nothing in this trainer creates it: with `save_freq > 0` the first save
  fails, after the actor's weights are written and before the tracker. The scripts of the recipe set `save_freq=-1`, so
  it is stated here and not modelled.
* `ValidationHandoff`: after the loop the trainer validates again only if its last answer of `get_validate` had no metrics
  (`fully_async_trainer.py:293`). That answer is of the synchronization before the last: with metrics in it the trained
  weights are never validated, or validated and not logged. If the final validation does run, line 296 takes the oldest
  entry of the queue, which may be an earlier result, and the final one stays behind. The comment of line 292 says "final parameter sync and
  validate". `trainerPc = "done" => \E i \in DOMAIN logged : logged[i].metrics = steps` fails in the instance of `VH`.
* `ToolAgentLoop`: a user's turn is appended without being measured (`tool_agent_loop.py:415`), so the next generation may
  ask for no tokens at all (`vllm_async_server.py:382`), which raises and fails the whole batch: `agent_data[c].state #
  "failed"` fails with an interaction, also if that never raises. Nothing calls `finalize_interaction`, which
  `verl/docs/sglang_multiturn/interaction_system.rst`, line 393, says to call always.
* `OneStepOff`: when the data end before the steps, as they do after any restart in a last or only epoch, the loop
  ends without the final validation and checkpoint and without a word; validation before training, on a resumed job,
  measures the weights the rollout workers were initialized with; the last validation measures weights two updates behind.

Bounds. `TotalRolloutSteps` exceeds `MaxRequired`, so the gate closes; it covers at least two synchronizations, so one
comes while the update of the previous is running; `MaxConcurrent` of 2 lets a task finish while another is cut;
`PendingMax` of 2 lets the feeder block. `MonitorAwake` bounds the ten-second timer: false means that no tick falls in
the modelled stretch, true that one may fall anywhere. `MaxFailures` bounds the generations that raise. `OrderedCalls`
says whether calls of one actor to the queue are served in the order they were made.
In `FA_monitor` four samples are all there are and `MaxRequired + Uncounted - 1` is four, so the budget in `StreamSpec` does not bind there: `StalenessBudget` in
`FA_throttle` and the theorems `ThrottleHolds` and `ImplementsStream` are what shows it.
The `CR` runs have an epoch of two batches, so that saves fall inside and at the end of one, and two crashes, so that a
resumed run is itself interrupted; keeping two, a rotation removes something before and after a restart.
Deadlock is not checked in the `CR` runs, whose jobs return, and in the `FullyAsync` runs, because a dead processor really can leave everybody waiting (the
feeder blocks on a full queue, the main coroutine on the feeder, the trainer on the queue).
`RB` has three rollouts, the least for which all may be dropped (ranks in a cycle), one row be appended and two be padding;
two steps, so that the second is measured against the first; scores 0, 1 and 3 around the thresholds 2, so that a gain
is below, at and above the minimum; a history of three, which two steps overflow; and a threshold of 2/5, so that one
place of difference is enough to drop. `RB` stops after two steps or a failed assertion, hence no deadlock check.
`PS` has two rows, so that one can end while its sibling is cut, two servers, so that one is paused before the other,
three synchronizations, so that a response of two tokens is cut before, within and after, and a prompt one token shorter than
the window, so that the engine may run past `response_length`; it stops when everything is delivered and no synchronization is left, hence
no deadlock check. `SP` has more rows than threads, and scores below 50, between the two thresholds and at the upper
one. `OSO` has restarts enough to skip a batch in either epoch, and a warm-up during which versions stand still. `VH` has at least two synchronizations for every trigger, and frequencies
for which every, every second, every third or no version is due, so that the last result polled may or may not have
metrics; seven steps leave a remainder for triggers 2 and 3. These three check deadlock; stopping is a step that changes nothing. `TAL` has a cache with room for exactly one
batch, so that every conversation of the second evicts one of the first, and three servers, so that they are unevenly loaded when it does; responses of four tokens let
a conversation have several turns of one or two tokens; three tool calls are one more than are made in parallel. It stops after two batches or a
failed one, hence no deadlock check.

Fairness. Each coroutine, server and process is weakly fair: the event loop runs every ready coroutine, and a server
finishes or aborts a generation. The RPC handlers are strongly fair as a group: they are enabled only between the slices
of other coroutines, and the loop's ready queue is FIFO. A generation is never obliged to fail. In `PS` tasks, requests and the synchronization's calls are weakly
fair, and the engine is not: `PauseEnds` must hold even if it never produces another token, because `cancel()` waits for
events and not for tokens; `AllDelivered` states the engine's fairness as its hypothesis. In `CR_auto` a live job runs on; nobody is obliged to launch it again.

What the liveness runs do not show: with the monitor ticking and partial rollout, `Terminates` fails by the standstill
above.

## Proofs

Every invariant and action property of a passing run is a theorem, and so are the refinements. The theorems use the
assumptions named in the modules - sizes and switches of the kind the configuration has, and that `None` is no value - and nothing
else but the hypotheses given below. `TypeOK` is seldom inductive as it stands: it takes which program counters go with a full hand, a held lock or a running task.
`TypeIsOK` states it for each module, except `OneStepOff` and `ValidationHandoff`, where it is a part of the invariant and no run repeats it.

`FullyAsync_proofs` is about rollouter, queue, trainer and synchronizer together:

* `HandshakeHolds`: `VersionHandshake`. The property only bounds differences; the inductive `HandshakeInv` says in which
  control states each side is ahead, and that no update is pending while a pause is.
* `TransfersAreQuiet`: `QuietTransfer`, assuming `~MonitorAwake` (with ticks it is false, see the list above).
  `QuietInv` ties running tasks to `active_tasks`, and says that from `pause()` to `resume()` the processor is held by
  `paused` or is dead, and that a stopped rollouter has no processor the monitor could wake.
* `LabelsAreTruthful`: the action property `TruthfulTags` under the same assumption, from both invariants.
* `SamplesAccounted`: `Accounted`. `BooksInv` adds that a sample not yet fed is nowhere. `Copies` is a sum of eight terms, so the proof is one
  of counting: a step takes one from a term and gives it to another, or to a counted loss.
* `FinishSignalLast`: `SentinelLast`. `EndInv` retraces the way to the signal: the processor has drained its tasks or died, the results
  were joined, the consumer is cancelled, and only a dead processor leaves an orphaned put.
* `ThrottleHolds`: `StalenessBudget`. Two invariants carry it. `FlowInv`: until the rollouter winds up, what was taken is consumed,
  dropped, failed, held by someone or queued, each counted once. `ThrottleInv`: at every point of the two reads and the assignment of
  `update_param_version`, what the sum will have missed is in the processor's hand or, with unordered calls, in the consumer's.
* `LagIsBounded`: `BoundedLag`. `PaceInv` counts consumption in versions, steps and the batch at hand; `LagInv` bounds, for each sample
  waiting, how many can be consumed before it, by where it stands in the queue and the version it carries.
* `ImplementsStream`: `StreamSpec`, the refinement of `SampleStream`. It rests on all of the above but the lag, and on `UsedInv`: until the
  end as many samples are used as the queue counts as consumed, so that by `PaceInv` the step that triggers the
  synchronization is the one that fills a version. A sample starts when the processor takes it, and there is room because by
  `FlowInv` no more are away than were taken and not gone, which `ThrottleInv` bounds after the step too. `OneHome` (from `BooksInv`) makes losing and using a
  sample final: it is nowhere else.
* `UsesQueue`: the composition implements `MQSpec`, hence `TrainerIsWoken`: `NoLostWakeup` in the composition.

`MessageQueue_proofs` proves the type invariant, the bound and the absence of lost wake-ups for every capacity, item set
and number of consumers, also under `clear_queue` and `shutdown`; the three together are inductive, because `get_sample` preserves `NoLostWakeup` only by it
(a queue one can take from has nobody asleep). Its second part is about `ValidationHandoff`: `ResultsAlwaysKeepUp` (`ResultsKeepUp`)
and `EndsValidated` (`FinalValidation`) for every number of steps, trigger and frequency. Each version but one under way has one result,
logged or queued (`CountInv`), numbered without a gap (`VersionInv`), the trainer is at most one behind when it trains, and metrics of version v are
those of v times the trigger steps (`MeasureInv`). `EndInv` says what the end rests on: before the last poll, the trained
weights are being validated or have been; if they are not, the trainer holds the result of the last version but one at the oldest.

`CheckpointResume_proofs` proves, for every number of ranks, steps, crashes and deadlines, `TrackerIsSafe` (`TrackerNamesWholeCheckpoint`), `BatchesAreContinuous`
(`NoBatchSkippedOrRepeated`) and `DoneIsTrained` (`DoneMeansTrained`) in mode auto with no manager keeping
exactly one checkpoint; both conditions are needed (see the list above). The inductive `IInv` adds what the
properties do not say: the step being saved is past the tracker's (`AheadInv`), which parts of the running save are already
complete (`SaveInv`), and that the remembered paths grow up to the tracker's, so that only the last can be it
(`RotationInv`); with room for two the last is never among the victims. `EpochInv` adds that what is drawn and to come makes up all epochs.
`TypeIsOK` and `StepsAreCounted` (`StepCountsUpdates`) need no condition on modes or numbers kept: `BoundInv` lets the step number run past the total by one for each launch, and `LengthInv` says
of every shard, half-overwritten checkpoints included, that its model has as many updates as its step.

`OneStepOff_proofs` proves `StaysOneStepOff` (`OneStepOffPolicy`), `NoBatchTwice` (the part `TrainedInOrder` of
`CostOfRestart`) and `RestartsCost` (all of it) for every number of batches, epochs, steps, restarts and every warm-up and frequency. `LagInv` says at each point of the loop how far the rollout workers and the two batches are behind
the actor: the batch ahead carries the version of the rollout workers, who are level right after a synchronization and
one behind after the update. `ScoreInv` carries this to what was validated. `OrderInv` says that everything trained on was drawn
before the batch at hand, that before the one ahead, and that a checkpoint's loader state is past all its batches. The numbers need
`GapInv` - what is drawn and not trained on is one batch for each restart and those under way, in the checkpoint as in the loop - and `LoaderInv`, by which
a loop that ends early has drawn all epochs.

`PartialServer_proofs` proves `TokensHold` (`TokensAccountedFor`) and `GrowthHolds` (`GrowthSpec`, the refinement of
`GrowingResponse`) for any samples, rows, servers, lengths and synchronizations. `TokenInv` says that a server's tokens continue the row's response under the
weights in place, which do not change under a request because by `TaskInv` nothing is generated once tasks are gathered; `RoomInv` that
an interrupted response has room for a token, without which the growth would end in nothing; `HeardInv` that a row of a running task
that is not out for an answer has one.

`ScorerPool_proofs` proves `ResultsAreOwn` (`OwnResult`) and `HintsHold` (`HintsForLow`) for any rows, threads and retries.
`PlaceInv`: the requests submitted are the first so many, each in one place - the pool's queue, a thread, or done - and `CollectInv` where its result is from there.

`ToolAgentLoop_proofs` proves `StickyHolds` (`StickyAndBalanced`) and `AnswersSound` (`AnswerSound`). For the first, `CacheInv` orders the
cache by batch, so that what a full cache evicts is of an earlier batch as long as a batch fits; `HeapInv` is the balance. For the
second, `ConvInv` says of each conversation in each state of the loop which tokens came last and how much room is left.

`RubricStep_proofs` follows the rows through the passes of a step, for every number of rollouts, ranks, scores and configuration. `RowOK` says what is so of a row wherever copying,
reordering and dropping have put it, `Distinct` that no two rows are about the same thing; `BatchInv` has both, and what of the batch is fixed in each
phase. From it: `RowsTrainOnceHolds`, `AppendedHaveImproved`, `HistoryIsHonest` (with `HistoryInv`), `DropNeedsDisagreement` (the action property), `ShiftFollows` (with `ShiftInv`;
counting the rows below another is monotone, and so is the z-score against a fixed history) and
`UpdateIsPossible`. The last has a hypothesis, `SecondsTrain`: an accepted second answer has a gain. The row the drop is certain to
leave may be a second answer, and without a gain its weight is zero (see the list above). That a row is left at all is
because some row has rubric rank 0 (`SomeIsBest`), and the code spares it when all others go.

Only model-checked is what the prover cannot do: liveness and fairness (`Terminates`, `PauseAnswered`, `InterruptedResume`, `Settles`,
`PauseEnds`, `AllDelivered`), and that a guard is enabled where the code does not block, hence deadlock.

What proving changed in the models. `StalenessBudget` held in the instances and was not inductive: the size of the queue could be
read with the consumer's put behind it, also when calls are ordered, because the mark for such a put outlived the call it was behind; and with
unordered calls the bound is one higher, which no instance small enough for the list of runs shows. `BoundedLag` followed. In `RubricStep` the attempt at `UpdateIsPossible` found the
configuration that `SecondsTrain` excludes. `None` had to be told apart from the answers of a server and the work of a thread.

## Plan

1. `RubricStep`: done; left are a generator that fails, random history buckets and a reroll together with the history
   shift in one run (too many states for two steps).
2. `CheckpointResume`: done; left are the Megatron manager, `del_local_ckpt_after_load` and the rubric history, which no
   checkpoint holds.
3. `PartialServer`, `ScorerPool`, `OneStepOff`: done, the first without the multi-turn agent loop and the monitor.
4. `ValidationHandoff`: done.
5. `ToolAgentLoop`: done for tools and interactions. Left: `Dispatch` (split, pad, collect), length balancing, rate limiter.
6. Proofs: every invariant and action property of a passing run, and each refinement, are theorems. Left: the same under weaker
   hypotheses where the code justifies them (`QuietTransfer` with ticks that come only between synchronizations, the
   checkpoint theorems for a manager that keeps one and is never interrupted while it removes), and mutual exclusion of the lock's holders as a theorem of its own.
