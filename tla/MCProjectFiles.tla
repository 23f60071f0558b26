--------------------------- MODULE MCProjectFiles ---------------------------
(* Manifests of one entry, and of two for the same path: entries for          *)
(* different paths do not touch each other.  The paths are one that is read,  *)
(* one that another may stand in for, one the debug pass writes, and one      *)
(* beside the scaffold of each kind.                                         *)
EXTENDS ProjectFiles

Named == {"README.md", "docs/WALKTHROUGH.md", DebugReport} \cup OtherPaths \cup SkippedNames

MCNext == /\ FilesNext
          /\ \A k \in 1..Len(manifest') : /\ manifest'[k].name \in Named
                                          /\ manifest'[k].name = manifest'[1].name

MCSpec == FilesInit /\ [][MCNext]_allVars
=============================================================================
