--------------------------- MODULE MCCatalogCache ---------------------------
(* Instances of CatalogCache for TLC.                                      *)
EXTENDS CatalogCache

\* Every history of three versions in which only the key a is ever revoked.
MCLineages ==
    LET Manifest == [kid : Kids, revokes : {{}, {"a"}}, min : Builds]
    IN  {l \in [1..3 -> Manifest] :
            \A v \in 1..3 : \A u \in 1..v : l[v].kid \notin l[u].revokes}
=============================================================================
