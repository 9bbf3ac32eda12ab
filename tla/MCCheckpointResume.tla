------------------------- MODULE MCCheckpointResume -------------------------
(* Instances of CheckpointResume for TLC.                                   *)
EXTENDS CheckpointResume

CONSTANT KeepBoth  \* max_actor_ckpt_to_keep and max_critic_ckpt_to_keep

KeepOf == [p \in Parts |-> KeepBoth]
=============================================================================
