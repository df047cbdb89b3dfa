----------------------------- MODULE MCDownload -----------------------------
(***************************************************************************)
(* Model-checking instance of ParallelDownload: three connection           *)
(* identities, the downloading goroutine m and one other session user p1. *)
(***************************************************************************)
EXTENDS ParallelDownload

CONSTANTS c1, c2, c3, m, p1

MCConn == {c1, c2, c3}
MCCallers == {m, p1}

=============================================================================
