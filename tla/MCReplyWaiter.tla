--------------------------- MODULE MCReplyWaiter ---------------------------
(* Three calls share the connection; one of them has a timeout.            *)
EXTENDS ReplyWaiter
=============================================================================
