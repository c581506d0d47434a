------------------------------ MODULE MCBundle ------------------------------
(* An instance of CatalogBundle for TLC: archives of one part or two. *)
EXTENDS CatalogBundle

McPartNames == <<"part-000", "part-001">>
=============================================================================
