------------------------------ MODULE MCTransport ------------------------------
(***************************************************************************)
(* Instances of Transport: a worker that is started twice, with a device  *)
(* of two bytes; no plans.                                                 *)
(***************************************************************************)
EXTENDS Transport

OneWorker == {<<1, 1>>, <<1, 2>>}

Half == [id |-> 1, offset |-> 0, length |-> 1, movability |-> "RELEASEABLE",
         reserved |-> FALSE, policy_protected |-> FALSE]
MCAllocs == {Half}
MCLayouts == {<<Half>>}
MCResources == [id : ResourceIds, gen : {1, 2}, cap : {2}, group : {NoGroup},
                prov : {"MEASURED"}]

(* fg_worker publishes generation 1, fg_cuda_worker its boot id. *)
EitherTool == [c \in Conns |-> {1, c[2]}]
CudaWorker == [c \in Conns |-> {c[2]}]
=============================================================================
