------------------------------ MODULE MCHalTx ------------------------------
(* What the runs of HalTx are given to do.                                 *)
EXTENDS HalTx

(* One queue, filled with single frames and aggregates.                    *)
MCOneQueue == {[frames |-> [q \in Queues |-> 4], vids |-> {"v0"},
                flushes |-> {}, pauses |-> FALSE]}

(* Two interfaces share a queue and one of them is flushed; or two queues  *)
(* share ids and pages while transmission is paused at any time.           *)
MCTwoLoads == {[frames |-> [q \in Queues |-> IF q = 0 THEN 3 ELSE 0],
                vids |-> {"v0", "v1"}, flushes |-> {"v0"}, pauses |-> FALSE],
               [frames |-> [q \in Queues |-> IF q = 0 THEN 2 ELSE 1], vids |-> {"v0"},
                flushes |-> {}, pauses |-> TRUE]}
=============================================================================
