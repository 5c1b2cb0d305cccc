--------------------------------- MODULE MCIpc ---------------------------------
(* Instances of the sharing of memory between processes for TLC. *)
EXTENDS Ipc

\* The handlers of two pools over the same provider.
MCUpstreamOf == [h \in Handlers |-> "provider"]
=============================================================================
