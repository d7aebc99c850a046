-------------------------- MODULE MCItemLifecycle --------------------------
(***************************************************************************)
(* Small instances of ItemLifecycle for TLC.                                *)
(***************************************************************************)
EXTENDS ItemLifecycle, TLC

CONSTANTS a, b, note, md5, empty

\* Two uploads of the same file; one upload and an item created from JSON.
TwoUploads == {a, b}
UploadAndNote == {a, note}
OneUpload == {a}
NoUploads == {}
SameContent == [i \in Items |-> IF i \in Uploaded THEN md5 ELSE empty]

\* The two uploads differ in nothing else, nor do slots, objects and requests.
Interchangeable ==
    UNION {Permutations(S) : S \in {{a, b}, Workers, Keys, Deletes, Reprocesses}}
=============================================================================
