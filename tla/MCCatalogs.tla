----------------------------- MODULE MCCatalogs -----------------------------
(* Instance of Catalogs for TLC.                                           *)
EXTENDS Catalogs

CONSTANTS d, c, m, x

MCRank == [u \in Urls |-> IF u = m THEN 1 ELSE IF u = c THEN 2 ELSE 3]

\* The default catalog does not have it.
MCLists == [u \in Urls |-> IF u = d THEN {} ELSE {x}]

At(u, p, b) == [url |-> u, priority |-> p, allowed |-> b]

\* Without priorities, with priorities in order, and out of order.
MCWritten ==
    [k \in Kinds |->
        (IF k = "bundle" THEN {} ELSE {<<At(c, Implicit, FALSE), At(m, Implicit, TRUE)>>})
        \cup {<<At(m, 1, TRUE), At(c, 2, FALSE)>>, <<At(d, 3, TRUE), At(c, 2, FALSE), At(m, 1, TRUE)>>}]

MCUserFiles == {<<>>, <<At(m, 1, TRUE), At(c, 3, FALSE)>>}

=============================================================================
