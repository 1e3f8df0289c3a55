-------------------------- MODULE MCCatalogReload --------------------------
(* Small instances of CatalogReload for TLC.                                *)
EXTENDS CatalogReload
=============================================================================
