--------------------------- MODULE MCKnowledgeSync ---------------------------
(* Model checking KnowledgeSync: its constants are in the configuration. *)
EXTENDS KnowledgeSync
=============================================================================
