------------------------------ MODULE TestRunner ------------------------------
(***************************************************************************)
(* What the whole system promises (ABOUT, "Tests"): the entries of the     *)
(* test table are executed in order, each exactly once and each at the     *)
(* exception level and in the security state it names, and then the run    *)
(* ends.  How a request reaches its owner is not visible here.             *)
(***************************************************************************)
EXTENDS Naturals, Sequences

CONSTANT Tables

VARIABLES
    table,      \* the requests, [fid, el, state]
    executed,   \* what was executed, with the place it was executed at
    finished

vars == <<table, executed, finished>>

Init == table \in Tables /\ executed = <<>> /\ finished = FALSE

ExecuteNext ==
    /\ ~ finished /\ Len(executed) < Len(table)
    /\ LET r == table[Len(executed) + 1]
       IN  executed' = Append(executed,
                              [req |-> r, el |-> r.el, state |-> r.state])
    /\ UNCHANGED <<table, finished>>

Finish ==
    /\ ~ finished /\ Len(executed) = Len(table)
    /\ finished' = TRUE
    /\ UNCHANGED <<table, executed>>

Next == ExecuteNext \/ Finish

Spec == Init /\ [][Next]_vars

\* Every run comes to its end.
Terminates == <>finished
=============================================================================
