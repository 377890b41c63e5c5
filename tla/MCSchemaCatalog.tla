-------------------------- MODULE MCSchemaCatalog --------------------------
(* A model, an extra schema and a shared one, fetched two at a time with one *)
(* retry, by three downloads into the same directory: enough for a run that  *)
(* succeeds, one that fails or is killed anywhere, and one that follows.     *)
EXTENDS SchemaCatalog
=============================================================================
