----------------------------- MODULE MCToolCalls -----------------------------
(* Small instances of ToolCalls for TLC: one tool that edits and one that is *)
(* dangerous; each needs consent in some modes and not in others.           *)
EXTENDS ToolCalls

CONSTANTS s1, s2, editFile, bashExec
=============================================================================
