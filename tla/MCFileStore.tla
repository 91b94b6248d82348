---------------------------- MODULE MCFileStore ----------------------------
(* Two keys in one directory, and a third one in a sibling of it. *)
EXTENDS FileStore, TLC

CONSTANTS k1, k2, k3

MCKeys == {k1, k2, k3}
MCDirOf == (k1 :> <<"sha1", "aa">>) @@ (k2 :> <<"sha1", "aa">>) @@ (k3 :> <<"sha1", "bb">>)

Symmetry == Permutations(Thread)
=============================================================================
