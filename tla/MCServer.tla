------------------------------ MODULE MCServer ------------------------------
(* Peers and listeners for the instances of Server that TLC checks. *)
EXTENDS Server, TLC

CONSTANTS p1, p2, p3, tcp, unix

\* Two peers use TCP, one the unix socket.
ListenTwo == p1 :> tcp @@ p2 :> tcp @@ p3 :> unix
=============================================================================
