---------------------------- MODULE MCFileSystem ----------------------------
(* TLC instances of FileSystem.  Nothing tells one name that fs_create     *)
(* accepts from another, so the names are a symmetry set.                  *)
EXTENDS FileSystem, TLC

CONSTANTS a, b, c

MCNames    == {a, b, c}
MCSymmetry == Permutations(MCNames)

MCNoSources == {}
MCSources   == {<<"x", "y">>}
MCBytes     == {"x", "y", "?"}
MCOffsets   == {1, 2}
=============================================================================
