----------------------------- MODULE MCTorrent -----------------------------
(* A torrent with a piece of two blocks and one of one block; peers start with *)
(* everything or without the first piece.                                   *)
EXTENDS Torrent, TLC

MCSizes == <<2, 1>>
MCFields == {{1, 2}, {2}}
PeerSymmetry == Permutations(Peers)
=============================================================================
