------------------------------ MODULE Manifest ------------------------------
(***************************************************************************)
(* cbom_compass/scanners/dependencies.py: the libraries a manifest names,  *)
(* and the algorithms each is known to expose.                             *)
(*                                                                         *)
(* A manifest is a sequence of dependencies [name, version], in the order  *)
(* its format lists them; a version it does not pin is None.               *)
(***************************************************************************)
EXTENDS FileWalk

CONSTANTS
  Exposes,        \* LIBRARY_ALGORITHMS, in its order: [key, row, algorithms]
  PartOf          \* <<key, name>>, where the key is part of the name

ASSUME ManifestAssumption ==
  /\ Exposes \in Seq(Range(Exposes))
  /\ \A i \in DOMAIN Exposes : Exposes[i].algorithms \in Seq(Range(Exposes[i].algorithms))

(* The first row of the table whose key is the name or in it, if any.      *)
RowsOf(name) == {i \in DOMAIN Exposes : name = Exposes[i].key \/ <<Exposes[i].key, name>> \in PartOf}

Declared(f, name, kind, lib) ==
  LET place == <<"manifest", f>> IN
  [name |-> name, kind |-> kind, size |-> None, params |-> None, lib |-> lib,
   place |-> place, cert |-> None, provider |-> None, ev |-> {<<place, "manifest-parse">>}]

(* _to_assets(): the library, and what it exposes, which depends on it.    *)
LibraryPiece(f, dep) ==
  LET row == Exposes[CHOOSE i \in RowsOf(dep.name) : \A j \in RowsOf(dep.name) : i <= j]
      lib == <<row.key, dep.version>>
  IN IF RowsOf(dep.name) = {} THEN NoPiece
     ELSE Piece(<<Declared(f, row.row, "material", lib)>>
                  \o [i \in DOMAIN row.algorithms |-> Declared(f, row.algorithms[i], "algorithm", lib)],
                {<<1 + i, 1, "depends-on">> : i \in DOMAIN row.algorithms})

ManifestPiece(f) ==
  LET upto[n \in 0..Len(f.deps)] ==
        IF n = 0 THEN NoPiece ELSE Joined(upto[n - 1], LibraryPiece(f.id, f.deps[n]))
  IN upto[Len(f.deps)]

ParseManifest ==
  /\ NextFile /\ ThisFile.lang = "manifest"
  /\ TakeFile(ManifestPiece(ThisFile))
=============================================================================
