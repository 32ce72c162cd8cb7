----------------------- MODULE MCContractPublication -----------------------
(* Small instances of ContractPublication, alone and with a reader, for TLC. *)
EXTENDS ContractReading, TLC

CONSTANTS w1, w2, n1, n2, old, new

Symmetry == Permutations({w1, w2}) \cup Permutations({n1, n2})

\* Two contents of different lengths: a replacement can be longer or shorter.
Texts == (old :> <<"o", "o">>) @@ (new :> <<"n", "n", "n">>)

Ample == [traversal |-> 8, entries |-> 3, total |-> 9, file |-> 3]
Budgets == {Ample,
            [Ample EXCEPT !.traversal = 3],
            [Ample EXCEPT !.entries = 1],
            [Ample EXCEPT !.total = 4],
            [Ample EXCEPT !.file = 2]}
=============================================================================
