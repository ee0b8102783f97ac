------------------------------ MODULE Container ------------------------------
(***************************************************************************)
(* cbom_compass/scanners/container.py: a directory, a saved image or the   *)
(* name of one is turned into findings, by whatever tools there are.       *)
(*                                                                         *)
(* A piece is [assets, links], with links as triples of positions; what is *)
(* gathered is a result of Pipeline, whose `moved' are the findings that   *)
(* are relocated into the image when their links have been made.           *)
(*                                                                         *)
(* What a tree shows depends on which of its parts were unpacked: an       *)
(* image has a set of nested archives, and tree and material are functions *)
(* of those that are missing.                                              *)
(***************************************************************************)
EXTENDS Naturals, Sequences, Functions

VARIABLES
  istep,          \* where scan() is
  image,          \* the target: its form, the tools, and what is in it
  fetched,        \* whether a tool was sent for it by its name
  dropped,        \* the nested archives that were not unpacked to their end
  gathered,       \* the result so far
  noted           \* what its errors name

nvars == <<istep, image, fetched, dropped, gathered, noted>>

NoImage == [form |-> "none"]
Nothing == [assets |-> <<>>, links |-> {}, moved |-> {}, found |-> <<>>]

ContainerInit ==
  /\ istep = "idle" /\ image = NoImage /\ fetched = FALSE /\ dropped = {}
  /\ gathered = Nothing /\ noted = {}

StartImage(at_step, t) ==
  /\ istep' = at_step /\ image' = t /\ fetched' = FALSE /\ dropped' = {}
  /\ gathered' = Nothing /\ noted' = {}

ContainerReset == StartImage("idle", NoImage)

(* scan(): a directory, a tar, or else the name of an image.               *)
BeginImage(t) ==
  StartImage(CASE t.form = "dir" -> "tree"
               [] t.form = "tar" -> "unpack"
               [] t.form = "name" -> IF t.syft THEN "catalogue" ELSE "save", t)

(* result.extend()                                                         *)
Gather(piece, moving) ==
  LET n == Len(gathered.assets) IN
  gathered' =
    [gathered EXCEPT
       !.assets = @ \o piece.assets,
       !.links = @ \cup {<<n + l[1], n + l[2], l[3]>> : l \in piece.links},
       !.moved = @ \cup (IF moving THEN {n + i : i \in DOMAIN piece.assets} ELSE {})]

Note(x) == noted' = noted \cup {<<x>>}

EndImage(x) == istep' = "done" /\ Note(x) /\ UNCHANGED <<image, dropped, gathered>>

-----------------------------------------------------------------------------
(* _syft(): its catalogue, the error that it could not be run or read, or  *)
(* nothing, when it failed without a word on its output.  What it prints   *)
(* need not be a catalogue, and is then outside the try block.             *)
Catalogue ==
  /\ istep = "catalogue" /\ fetched' = TRUE
  /\ \/ /\ istep' = "save"
        /\ \/ Gather(image.catalogue, FALSE) /\ UNCHANGED noted
           \/ Note("syft") /\ UNCHANGED gathered
           \/ UNCHANGED <<gathered, noted>>
     \/ istep' = "crashed" /\ UNCHANGED <<gathered, noted>>
  /\ UNCHANGED <<image, dropped>>

(* Without docker the catalogue is all there is; the target is named only  *)
(* if that is empty.                                                       *)
NoDocker ==
  /\ istep = "save" /\ ~image.docker
  /\ IF gathered.assets = <<>> THEN EndImage("target")
     ELSE istep' = "done" /\ UNCHANGED <<image, dropped, gathered, noted>>
  /\ UNCHANGED fetched

(* docker save, which may fail or take too long; that its complaint is not *)
(* text is not foreseen.                                                   *)
Save ==
  /\ istep = "save" /\ image.docker
  /\ fetched' = TRUE
  /\ \/ istep' \in {"unpack", "crashed"} /\ UNCHANGED <<image, dropped, gathered, noted>>
     \/ EndImage("target")

(* _extract(): the image or the tar, and the layers inside it; a layer     *)
(* that raises is passed over without a word.                              *)
Unpack ==
  /\ istep = "unpack"
  /\ \/ istep' = "tree" /\ dropped' \in SUBSET image.nested /\ UNCHANGED <<image, gathered, noted>>
     \/ EndImage("target")
  /\ UNCHANGED fetched

(* Not the code: the exception is passed over.                             *)
WalkTreeQuietly ==
  /\ istep = "tree" /\ istep' = "material"
  /\ Gather(image.tree[dropped], TRUE) \/ UNCHANGED gathered
  /\ UNCHANGED <<image, fetched, dropped, noted>>

(* _scan_tree(): the dependency and binary scanners, whose findings are    *)
(* lost together if either raises.                                         *)
WalkTree ==
  /\ istep = "tree" /\ istep' = "material"
  /\ \/ Gather(image.tree[dropped], TRUE) /\ UNCHANGED noted
     \/ Note("tree") /\ UNCHANGED gathered
  /\ UNCHANGED <<image, fetched, dropped>>

(* _key_material(): keys and certificates baked into the layers.  It is    *)
(* outside the try block, and a path it may not look at raises.            *)
KeyMaterial ==
  /\ istep = "material"
  /\ \/ istep' = "done" /\ Gather(image.material[dropped], FALSE)
     \/ istep' = "crashed" /\ UNCHANGED gathered
  /\ UNCHANGED <<image, fetched, dropped, noted>>

ContainerNext == Catalogue \/ NoDocker \/ Save \/ Unpack \/ WalkTree \/ KeyMaterial

-----------------------------------------------------------------------------
Holding(piece) == Range(piece.assets) \subseteq Range(gathered.assets)
Told(x) == <<x>> \in noted

(* Docker is not there to open it, and a catalogue of it is.               *)
OnlyCatalogued == image.form = "name" /\ ~image.docker /\ gathered.assets # <<>>

(* container.py:42-151: the tree of a target as it was unpacked, and the   *)
(* key material in it, are in the result, whole, unless an error names the *)
(* tree or the target; only an image that docker is not there to open is   *)
(* reported from its catalogue alone.  Findings that an error disowns are  *)
(* not in the result.  (A layer that cannot be opened is left out of the   *)
(* tree with `except Exception: continue', container.py:98, and no error   *)
(* names it: whole is what was unpacked.)                                  *)
ImageAccounted ==
  istep = "done" =>
    /\ \/ Told("target") \/ OnlyCatalogued
       \/ Holding(image.material[dropped]) /\ (Holding(image.tree[dropped]) \/ Told("tree"))
    /\ Told("target") => /\ gathered.moved = {}
                         /\ Range(gathered.assets) \subseteq Range(image.catalogue.assets)
    /\ Told("tree") => gathered.moved = {}
=============================================================================
