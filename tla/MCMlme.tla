------------------------------- MODULE MCMlme -------------------------------
EXTENDS Mlme

(* An attempt with everything the access point may do to it; and            *)
(* one that succeeds, with a disconnect at any time and a lost connection. *)
MCLoads == {
    [connects |-> 1, disconnects |-> 0, frames |-> 3, losses |-> 1],
    [connects |-> 1, disconnects |-> 1, frames |-> 2, losses |-> 1]}
=============================================================================
