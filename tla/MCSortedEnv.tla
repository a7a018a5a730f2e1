---------------------------- MODULE MCSortedEnv ----------------------------
(* All environments of up to five strings with three ranks among them: the *)
(* early end, equal strings and every number of passes occur.              *)
EXTENDS SortedEnv
SmallEnvs == UNION {[1..n -> 1..3] : n \in 0..5}
=============================================================================
