-------------------------- MODULE MCAddbaExchange --------------------------
(* Three loads: handlers one after the other with enough frames to fill    *)
(* the buffer, a DELBA among handlers that overlap, and two senders that   *)
(* overlap each other and an answer.                                       *)
EXTENDS AddbaExchange

CONSTANTS f1, f2, f3, s1, s2

MCFrames  == {f1, f2, f3}
MCSenders == {s1, s2}

MCLoads == {[frames |-> MCFrames, senders |-> {s1}, delbas |-> 1, overlap |-> FALSE],
            [frames |-> {f1, f2}, senders |-> {s1}, delbas |-> 1, overlap |-> TRUE],
            [frames |-> {f1, f2}, senders |-> {s1, s2}, delbas |-> 0,
             overlap |-> TRUE]}
=============================================================================
