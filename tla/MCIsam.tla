-------------------------------- MODULE MCIsam ---------------------------------
(***************************************************************************)
(* Two batches of one process, which share a barrier, and one of another.  *)
(* When these have ended, a last one inserts the key of the first.         *)
(***************************************************************************)
EXTENDS IsamPipeline, TLC
CONSTANTS b1, b2, b3, b4, p1, p2, k1, k2, k3
MCProcessOf == b1 :> p1 @@ b2 :> p1 @@ b3 :> p2 @@ b4 :> p2
MCKeyOf == b1 :> k1 @@ b2 :> k2 @@ b3 :> k3 @@ b4 :> k1

LastComesLast ==
    batch'[b4].pc # "idle" =>
        \A b \in Batch \ {b4} : batch[b].pc \notin Active \cup {"idle"}

MCNext == PipelineNext /\ LastComesLast
MCSpec == PipelineInit /\ [][MCNext]_vars
================================================================================
