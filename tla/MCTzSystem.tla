----------------------------- MODULE MCTzSystem -----------------------------
(***************************************************************************)
(* TzSystem with the scripts and tables of TestScripts.                    *)
(***************************************************************************)
EXTENDS TzInvariant, TestScripts

\* test_func[] for every request the table of this architecture makes.
MCScripts == FoldSet(LAMBDA r, f : f @@ (r :> test_func(Arch, r)),
                     <<>>, ToSet(tztest(Arch)))

\* The table the program is built with.
TheTable == {tztest(Arch)}

\* That table and every table of at most two of its entries, in any order.
ShortTables ==
    TheTable \cup UNION {[1 .. n -> ToSet(tztest(Arch))] : n \in 0 .. 2}
=============================================================================
