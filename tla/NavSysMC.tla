------------------------------ MODULE NavSysMC ------------------------------
(* Instances of NavSys for TLC. *)
EXTENDS NavSys

\* The cells (1, 11) and (11, 1) concatenate to the same key.
Search(k, w) == [func |-> "Search", key |-> k, what |-> w]
SomeRequests == {Search("111", "1-11"), Search("111", "11-1"), Search("22", "2-2"),
                 [func |-> "ResumeSearch", key |-> "7", what |-> "7"],
                 [func |-> "MultiSearch", key |-> "e", what |-> "e"]}

\* The stronger of the two attackers is the slower one.
Attackers == {[dps |-> 1, speed |-> 2], [dps |-> 2, speed |-> 1]}
=============================================================================
