--------------------------- MODULE MCMetadataCache ---------------------------
(* Instances of MetadataCache for TLC. *)
EXTENDS MetadataCache
==============================================================================
