------------------------ MODULE MCCatalogPersistence ------------------------
(* CatalogPersistence for TLC; the configurations give every constant. *)
EXTENDS CatalogPersistence
=============================================================================
