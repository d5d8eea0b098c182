----------------------------- MODULE TaskPoolMC -----------------------------
(* Instances of TaskPool for TLC: who brackets AddTask with Lock / Unlock. *)
EXTENDS TaskPool

EveryClient == Clients
OneClient == {CHOOSE c \in Clients : TRUE}
=============================================================================
