------------------------------ MODULE FileWalk ------------------------------
(***************************************************************************)
(* What the scanners of files (scanners/source.py, config.py and           *)
(* dependencies.py) do alike: they list the files of their target and take *)
(* them one after another, and a file that fails must not lose the others. *)
(*                                                                         *)
(* A file is [id, lang, skipped, ...], where `lang' is what the scanner    *)
(* makes of its name and `skipped' that it is in a directory left out.     *)
(***************************************************************************)
EXTENDS Naturals, Sequences, FiniteSets, Functions, SequencesExt, Findings

VARIABLES
  sstep,          \* where scan() is
  files,          \* the target
  fpos,           \* the file it has come to
  sourced,        \* the findings so far
  related,        \* their relationships, <<i, j, kind>>
  unread          \* the files its errors name

svars == <<sstep, files, fpos, sourced, related, unread>>

NoFiles == [exists |-> FALSE, all |-> <<>>]

StartFiles(at_step, t) ==
  /\ sstep' = at_step /\ files' = t /\ fpos' = 1
  /\ sourced' = <<>> /\ related' = {} /\ unread' = {}

FilesInit ==
  /\ sstep = "idle" /\ files = NoFiles /\ fpos = 1
  /\ sourced = <<>> /\ related = {} /\ unread = {}

BeginFiles(t) == StartFiles("list", t)
FilesReset == StartFiles("idle", NoFiles)

(* The elements of s at the positions of S, in their order.                *)
Chosen(s, S) == FlattenSeq([i \in DOMAIN s |-> IF i \in S THEN <<s[i]>> ELSE <<>>])

Piece(assets, links) == [assets |-> assets, links |-> links]
NoPiece == Piece(<<>>, {})

Joined(p, q) ==
  Piece(p.assets \o q.assets,
        p.links \cup {<<Len(p.assets) + l[1], Len(p.assets) + l[2], l[3]>> : l \in q.links})

Unskipped(t) == Chosen(t.all, {i \in DOMAIN t.all : ~t.all[i].skipped})

(* scan(): the files below the target that are not in a directory it       *)
(* skips; a path it may not look at raises.                                *)
ListFiles ==
  /\ sstep = "list"
  /\ IF files.exists
     THEN \/ sstep' = "files" /\ files' = [exists |-> TRUE, all |-> Unskipped(files)]
             /\ UNCHANGED unread
          \/ sstep' = "crashed" /\ UNCHANGED <<files, unread>>
     ELSE sstep' = "done" /\ unread' = {<<"target">>} /\ UNCHANGED files
  /\ UNCHANGED <<fpos, sourced, related>>

ThisFile == files.all[fpos]
NextFile == sstep = "files" /\ fpos \in DOMAIN files.all /\ fpos' = fpos + 1

(* result.extend()                                                         *)
Take(piece) ==
  LET all == Joined(Piece(sourced, related), piece) IN
  sourced' = all.assets /\ related' = all.links

NameFile == unread' = unread \cup {<<"file", ThisFile.id>>}

(* A file that cannot be read or followed is named, or what it shows is    *)
(* taken whole.                                                            *)
TakeFile(piece) ==
  /\ \/ NameFile /\ UNCHANGED <<sourced, related>>
     \/ Take(piece) /\ UNCHANGED unread
  /\ UNCHANGED <<sstep, files>>

PassOver ==
  /\ NextFile /\ ThisFile.lang = "other"
  /\ UNCHANGED <<sstep, files, sourced, related, unread>>

EndFiles ==
  /\ sstep = "files" /\ fpos \notin DOMAIN files.all
  /\ sstep' = "done" /\ UNCHANGED <<files, fpos, sourced, related, unread>>

WalkFiles == ListFiles \/ PassOver \/ EndFiles

Followed(f) == <<"file", f.id>> \notin unread
=============================================================================
