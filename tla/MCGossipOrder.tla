---------------------------- MODULE MCGossipOrder ----------------------------
(* Instance of GossipOrder: three overlapping calls of gossipLocal.          *)
EXTENDS GossipOrder
===============================================================================
