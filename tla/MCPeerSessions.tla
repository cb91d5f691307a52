--------------------------- MODULE MCPeerSessions ---------------------------
(***************************************************************************)
(* One dialling and two accepted transports of one peer, which reports two *)
(* chains: a short one of much work and a longer one of little.            *)
(***************************************************************************)
EXTENDS PeerSessions

CONSTANTS dialled, accepted1, accepted2

MCSummary == {[height |-> 1, work |-> 3, tip |-> TRUE],
              [height |-> 2, work |-> 2, tip |-> TRUE]}
=============================================================================
