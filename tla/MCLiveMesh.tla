----------------------------- MODULE MCLiveMesh -----------------------------
(* LiveMesh for TLC.                                                        *)
EXTENDS LiveMesh

\* Peer ids are only ever compared with one another: they are drawn in order.
InOrder ==
  \A p \in Peer : conn[p] = "unborn" /\ conn'[p] # "unborn"
                    => p = CHOOSE q \in Peer : conn[q] = "unborn"

CallNext == MeshNext /\ InOrder
CallSpec == MeshInit /\ [][CallNext]_allVars /\ MeshFairness
=============================================================================
