------------------------------ MODULE Session ------------------------------
(***************************************************************************)
(* What the send path and the receive path of one Session share            *)
(* (Session.h): either may find the connection gone and clear it.          *)
(***************************************************************************)

VARIABLE connected      \* mConnected
=============================================================================
