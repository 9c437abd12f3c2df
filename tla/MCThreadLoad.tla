----------------------------- MODULE MCThreadLoad -----------------------------
(* The idle thread, the streaming thread and the shell.                      *)
EXTENDS ThreadLoad

CONSTANTS idle, shell

MCAlways == <<idle, shell>>
=============================================================================
