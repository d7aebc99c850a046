---------------------------- MODULE MCFileStore -----------------------------
(***************************************************************************)
(* Small instances of FileStore for TLC.                                    *)
(***************************************************************************)
EXTENDS FileStore, TLC

CONSTANTS u1, u2, u3, u4

\* u1 and u2 are the same file under two names, u3 another file under u1's name
\* and u4 u1's file in another organisation.
FourOrgs == u1 :> "A" @@ u2 :> "A" @@ u3 :> "A" @@ u4 :> "B"
FourContents == u1 :> "c" @@ u2 :> "c" @@ u3 :> "d" @@ u4 :> "c"
FourNames == u1 :> "a" @@ u2 :> "b" @@ u3 :> "a" @@ u4 :> "e"
AllButThird == {u1, u2, u4}
\* "b" stands for a name with a question mark: its url's path is another key.
QueryKeys == "a" :> "a" @@ "b" :> "x" @@ "e" :> "e" @@ "x" :> "x"
=============================================================================
