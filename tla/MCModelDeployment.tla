------------------------- MODULE MCModelDeployment -------------------------
(* Instances of ModelDeployment for TLC.                                    *)
EXTENDS ModelDeployment, TLC

CONSTANTS Users, Faulty, Budgets, Scalings, Crashes

MCLimit == [e \in Event |-> CASE e = "user" -> Users [] e = "fault" -> Faulty
                              [] e = "budget" -> Budgets [] e = "scale" -> Scalings
                              [] e = "crash" -> Crashes]

(* One kind of deployment; two that differ in the engine; and one that     *)
(* KEDA scales.                                                            *)
OneSpec  == {<<"vllm", "fixed">>}
KedaSpec == {<<"vllm", "keepOne">>}
Edited   == {<<"vllm", "toZero">>, <<"sglang", "fixed">>}

DeploymentSymmetry == Permutations(MD)
=============================================================================
