------------------------ MODULE MCBufferPoolManager ------------------------
(* The buffer pool with two frames, two clients and three page ids: enough *)
(* for a page to be evicted while another stays pinned, for two clients to *)
(* share a pin, and for a deleted frame to be reused.                      *)
EXTENDS BufferPoolManager

CONSTANTS f1, f2, c1, c2

MCFrames  == {f1, f2}
MCClients == {c1, c2}
=============================================================================
