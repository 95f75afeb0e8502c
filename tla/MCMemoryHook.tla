---- MODULE MCMemoryHook ----
(* Checks of the memory hook and of the MCP client it uses.                *)
EXTENDS MemoryHook
====
