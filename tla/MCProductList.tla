--------------------------- MODULE MCProductList ---------------------------
(* Three nodes: one in the hands of each thread, one in the list.          *)
EXTENDS ProductList
CONSTANTS n1, n2, n3
MCNodes == {n1, n2, n3}
=============================================================================
