---------------------------- MODULE MCStarletIrq ----------------------------
(* StarletIrq with the values its run gives its constants.                  *)
EXTENDS StarletIrq

\* With both interrupt enables on: withdraw one's own flags, and set either
\* of them while taking a flag of the peer.
McCtrlData ==
  {Irqs \cup s : s \in {{}, {Sent, PeerAcked}, {Acked, PeerSent}}}
=============================================================================
