---------------------------- MODULE MCJobTracker ----------------------------
(***************************************************************************)
(* Small instances of JobTracker for TLC.                                   *)
(***************************************************************************)
EXTENDS JobTracker

CONSTANTS u1, u2, report

TwoUploads == {u1, u2}

\* Two uploads of the same file name share the key "failed_<file_name>".
SameName == [u \in TwoUploads |-> report]
=============================================================================
