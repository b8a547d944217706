--------------------------- MODULE MCServerManager ---------------------------
(* The two services, and servers of others for one of them.                *)
EXTENDS ServerManager
CONSTANTS back, front, x1, x2

MCServiceOf == [x \in External |-> back]
=============================================================================
