--------------------------- MODULE MCClientWorkers ---------------------------
(* Ctrl-C may find the main thread anywhere in serve_forever.                *)
EXTENDS ClientWorkers

Anywhere == MainStates \ {"stopped"}
==============================================================================
