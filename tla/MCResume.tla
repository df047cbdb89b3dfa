------------------------------ MODULE MCResume ------------------------------
(***************************************************************************)
(* Model-checking instance of ResumableDownload: three connection          *)
(* identities and the downloading goroutine m as the session's only user: *)
(* the other users' sharing is checked by MCDownload.                     *)
(***************************************************************************)
EXTENDS ResumableDownload

CONSTANTS c1, c2, c3, m, p1

MCConn == {c1, c2, c3}
MCCallers == {m, p1}

=============================================================================
