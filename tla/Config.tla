-------------------------------- MODULE Config --------------------------------
(***************************************************************************)
(* cbom_compass/scanners/config.py: what configuration files permit.       *)
(*                                                                         *)
(* A configuration file is a sequence of lines, each a directive `is' with *)
(* the names it lists; `remark' are those in a comment behind them.  The   *)
(* names of a line are                                                     *)
(*   "ssh"                   names, with `mod' "", "+", "^" or "-"         *)
(*   "ipsec"                 proposals, each a sequence of tokens          *)
(*   "openvpn"               names                                         *)
(*   "protocols", "suites"   [mark, name], with mark "", "!" or "-"        *)
(*   "marker", "cms"         S/MIME: no names, and names                   *)
(* An algorithm is its name with its size; of its other parameters the     *)
(* partner of a hybrid is told apart.                                      *)
(***************************************************************************)
EXTENDS FileWalk, SSHNames

CONSTANTS
  Means,          \* the other tables: [name -> sequence of algorithms]
  PqcKems,        \* PQC_KEMS
  Agreements      \* DH and ECDH

(* A name of the other tables stands for algorithms and protocols that     *)
(* findings can have, S/MIME not being one, and for at most one key        *)
(* encapsulation.                                                          *)
ASSUME MeansAssumption ==
  \A x \in DOMAIN Means :
    /\ Means[x] \in Seq(Range(Means[x])) /\ Range(Means[x]) \subseteq Names \ {"S/MIME"}
    /\ \A a, b \in Range(Means[x]) \cap PqcKems : a = b

Configured(f, line, kind, name, partner) ==
  LET place == <<"config", f.id, line>> IN
  [name |-> name, kind |-> kind, size |-> None, params |-> partner, lib |-> None,
   place |-> place, cert |-> None, provider |-> None, ev |-> {<<place, "config">>}]

(* _emit(): algorithms [line, algorithm, partner], each negotiated by the  *)
(* first of some protocols, if there is one.                               *)
Emitted(f, protocols, entries) ==
  LET n == Len(protocols) IN
  Piece(protocols \o [i \in DOMAIN entries |->
          Configured(f, entries[i].line, "algorithm", entries[i].algorithm, entries[i].partner)],
        IF n = 0 THEN {} ELSE {<<n + i, 1, "negotiated-by">> : i \in DOMAIN entries})

At(line, halves) ==
  [i \in DOMAIN halves |->
     [line |-> line, algorithm |-> halves[i].algorithm, partner |-> halves[i].partner]]

Plain(names) ==
  LET all == FlattenSeq([i \in DOMAIN names |-> IF names[i] \in DOMAIN Means THEN Means[names[i]] ELSE <<>>])
  IN [i \in DOMAIN all |-> [algorithm |-> all[i], partner |-> None]]

(* What the lines of a file say, in their order.                           *)
EachLine(says) == FlattenSeq([i \in DOMAIN says |-> At(i, says[i])])

(* The row of a protocol that has no line of its own.                      *)
Anchor(f, directives, protocol) ==
  IF directives = {} THEN <<>> ELSE <<Configured(f, 0, "protocol", protocol, None)>>

Directives(f, is) == {i \in DOMAIN f.lines : f.lines[i].is = is}

-----------------------------------------------------------------------------
(* _scan_ssh_config(): a list that removes algorithms configures none.     *)
SSHListed(l) ==
  IF l.is # "ssh" \/ l.mod = "-" THEN <<>>
  ELSE FlattenSeq([i \in DOMAIN l.names |-> Halves(l.names[i])])

SSHConfig(f) ==
  Emitted(f, Anchor(f, {i \in Directives(f, "ssh") : f.lines[i].mod # "-"}, "SSH-2.0"),
          EachLine([i \in DOMAIN f.lines |-> SSHListed(f.lines[i])]))

(* Not the code: the key encapsulation of any proposal of the line.        *)
PartnerOnLine(proposals, i) ==
  LET all == FlattenSeq([j \in DOMAIN proposals |-> Plain(proposals[j])])
      kems == {j \in DOMAIN all : all[j].algorithm \in PqcKems}
  IN IF kems = {} THEN None ELSE all[CHOOSE j \in kems : \A k \in kems : j <= k].algorithm

(* The first post-quantum key encapsulation of a proposal.                 *)
Partner(proposals, i) ==
  LET parts == Plain(proposals[i])
      kems == {j \in DOMAIN parts : parts[j].algorithm \in PqcKems}
  IN IF kems = {} THEN None ELSE parts[CHOOSE j \in kems : \A k \in kems : j <= k].algorithm

(* _scan_ipsec(): a proposal is decomposed, and its key agreements are     *)
(* halves of a hybrid if it has a key encapsulation.  What follows a # is  *)
(* read with the rest of the line.                                         *)
IPsecListed(l) ==
  IF l.is # "ipsec" THEN <<>>
  ELSE LET proposals == l.names \o l.remark IN
       FlattenSeq([i \in DOMAIN proposals |->
         LET parts == Plain(proposals[i]) IN
         [j \in DOMAIN parts |->
            IF parts[j].algorithm \in Agreements
            THEN [parts[j] EXCEPT !.partner = Partner(proposals, i)] ELSE parts[j]]])

IPsecConfig(f) ==
  Emitted(f, Anchor(f, Directives(f, "ipsec"), "IPsec"), EachLine([i \in DOMAIN f.lines |-> IPsecListed(f.lines[i])]))

(* _scan_openvpn()                                                         *)
VPNListed(l) == IF l.is # "openvpn" THEN <<>> ELSE Plain(l.names)

VPNConfig(f) ==
  Emitted(f, Anchor(f, Directives(f, "openvpn"), "OpenVPN"), EachLine([i \in DOMAIN f.lines |-> VPNListed(f.lines[i])]))

(* _scan_web_tls(): a version that is disabled, or a suite that is         *)
(* excluded, is not configured; a remark is read with the rest.            *)
Unmarked(items, mark) ==
  LET left == Chosen(items, {i \in DOMAIN items : items[i].mark # mark}) IN
  Plain([i \in DOMAIN left |-> left[i].name])

Versions(l) == IF l.is # "protocols" THEN <<>> ELSE Unmarked(l.names \o l.remark, "-")
Suites(l) == IF l.is # "suites" THEN <<>> ELSE Unmarked(l.names \o l.remark, "!")

(* Each version once, at the first line that enables it.                   *)
WebProtocols(f) ==
  LET all == EachLine([i \in DOMAIN f.lines |-> Versions(f.lines[i])])
      first == {i \in DOMAIN all : \A j \in DOMAIN all : all[j].algorithm = all[i].algorithm => i <= j}
      versions == Chosen(all, first)
  IN [i \in DOMAIN versions |-> Configured(f, versions[i].line, "protocol", versions[i].algorithm, None)]

WebConfig(f) == Emitted(f, WebProtocols(f), EachLine([i \in DOMAIN f.lines |-> Suites(f.lines[i])]))

(* _scan_smime(): nothing, unless there is a marker, of which a content    *)
(* encryption is one.                                                      *)
ContentEncryption(l) == IF l.is # "cms" THEN <<>> ELSE Plain(l.names)

SMIME(f) ==
  LET markers == Directives(f, "marker") \cup Directives(f, "cms")
      marker == CHOOSE i \in markers : \A j \in markers : i <= j
  IN IF markers = {} THEN NoPiece
     ELSE Emitted(f, <<Configured(f, marker, "protocol", "S/MIME", None)>>,
                  EachLine([i \in DOMAIN f.lines |-> ContentEncryption(f.lines[i])]))

Handled(f) ==
  CASE f.kind = "ssh" -> SSHConfig(f)
    [] f.kind = "ipsec" -> IPsecConfig(f)
    [] f.kind = "openvpn" -> VPNConfig(f)
    [] f.kind = "webtls" -> WebConfig(f)
    [] f.kind = "smime" -> SMIME(f)

(* Mail may be configured in any of the files.                             *)
Besides(f) == IF f.kind = "smime" THEN NoPiece ELSE SMIME(f)

-----------------------------------------------------------------------------
ThisConfig == NextFile /\ ThisFile.lang = "config"

(* Its size cannot be asked, or it cannot be read.                         *)
UnreadConfig ==
  /\ ThisConfig /\ NameFile
  /\ UNCHANGED <<sstep, files, sourced, related>>

(* No configuration file is that large; it is not named.                   *)
LargeConfig ==
  /\ ThisConfig /\ ThisFile.large
  /\ UNCHANGED <<sstep, files, sourced, related, unread>>

ScanConfig ==
  /\ ThisConfig /\ ~ThisFile.large
  /\ Take(Joined(Handled(ThisFile), Besides(ThisFile)))
  /\ UNCHANGED <<sstep, files, unread>>

(* The handler raises; what it has found is lost, and S/MIME looked for.   *)
HandlerFails ==
  /\ ThisConfig /\ ~ThisFile.large
  /\ NameFile /\ Take(Besides(ThisFile))
  /\ UNCHANGED <<sstep, files>>

ConfigStep == UnreadConfig \/ LargeConfig \/ ScanConfig \/ HandlerFails

-----------------------------------------------------------------------------
(* What a name stands for, and the key encapsulation that the first of     *)
(* some names that stands for one does.                                    *)
Stands(x) == IF x \in DOMAIN Means THEN Range(Means[x]) ELSE {}

KemAmong(names) ==
  LET some == {k \in DOMAIN names : Stands(names[k]) \cap PqcKems # {}}
      first == CHOOSE n \in some : \A m \in some : n <= m
  IN IF some = {} THEN None ELSE CHOOSE kem \in Stands(names[first]) \cap PqcKems : TRUE

(* What a file says is permitted, each name with what it is beside: the    *)
(* other half of the name, or of the proposal.                             *)
Permits(f) ==
  LET l(i) == f.lines[i]
      other(x, a) == IF Len(Table[x]) < 2 THEN None ELSE CHOOSE b \in Range(Table[x]) : b # a
      with(names, a) == IF a \in Agreements THEN KemAmong(names) ELSE None
      parts(i, j) == UNION {Stands(x) : x \in Range(l(i).names[j])}
      pairs(is, S) == {p \in Directives(f, is) \X S : l(p[1]).mod # "-"}
  IN CASE f.kind = "ssh" ->
            UNION {{<<p[1], a, other(p[2], a)>> : a \in Range(Table[p[2]])} :
                   p \in {q \in pairs("ssh", DOMAIN Table) : q[2] \in Range(l(q[1]).names)}}
       [] f.kind = "ipsec" ->
            UNION {UNION {{<<i, a, with(l(i).names[j], a)>> : a \in parts(i, j)} :
                            j \in DOMAIN l(i).names} : i \in Directives(f, "ipsec")}
       [] f.kind = "openvpn" ->
            {<<p[1], p[2], None>> :
               p \in {q \in pairs("openvpn", Names) : \E x \in Range(l(q[1]).names) : q[2] \in Stands(x)}}
       [] f.kind = "webtls" ->
            {<<p[1], p[2], None>> :
               p \in {q \in pairs("suites", Names) :
                        \E x \in Range(l(q[1]).names) : x.mark = "" /\ q[2] \in Stands(x.name)}}
       [] OTHER -> {}

Encrypts(f) ==
  {<<p[1], p[2], None>> :
     p \in {q \in Directives(f, "cms") \X Names :
              \E x \in Range(f.lines[q[1]].names) : q[2] \in Stands(x)}}

(* A configuration file as described above.                                *)
IsConfiguration(f) ==
  /\ f.kind \in {"ssh", "ipsec", "openvpn", "webtls", "smime"} /\ f.large \in BOOLEAN
  /\ f.lines \in Seq(Range(f.lines))
  /\ \A l \in Range(f.lines) :
       /\ l.names \in Seq(Range(l.names)) /\ l.remark \in Seq(Range(l.remark))
       /\ l.is # "ssh" => l.mod # "-"
       /\ l.is = "ipsec" => \A p \in Range(l.names) \cup Range(l.remark) : p \in Seq(Range(p))
       /\ l.is = "suites" => \A x \in Range(l.names) : x.mark \in {"", "!", "-"}

(* What the scanner reads otherwise: a suite that is taken out by a minus, *)
(* and a comment behind a directive.                                       *)
ReadAsMeant(f) ==
  \A l \in Range(f.lines) :
    /\ l.is = "suites" => \A x \in Range(l.names) : x.mark # "-"
    /\ l.is \in {"ipsec", "protocols", "suites"} => l.remark = <<>>

(* The protocol versions it enables.                                       *)
Enabled(f) ==
  {a \in Names : \E i \in Directives(f, "protocols") : \E x \in Range(f.lines[i].names) :
     x.mark # "-" /\ a \in Stands(x.name)}

OfFile(id) == {i \in DOMAIN sourced : sourced[i].place[2] = id}

ReportedAsPermitted(f) ==
  LET mine == OfFile(f.id)
      shown == {<<sourced[i].place[3], sourced[i].name, sourced[i].params>> :
                  i \in {j \in mine : sourced[j].kind = "algorithm"}}
      protocols == {i \in mine : sourced[i].kind = "protocol"}
      enabled == {sourced[i].name : i \in protocols}
  IN /\ Followed(f) => shown = Permits(f) \cup Encrypts(f)
     /\ ~Followed(f) => shown \in {{}, IF f.kind = "smime" THEN {} ELSE Encrypts(f)}
     /\ f.kind = "webtls" /\ Followed(f) => enabled \ {"S/MIME"} = Enabled(f)
     /\ \A i \in mine \ protocols :
          \/ \E p \in protocols : <<i, p, "negotiated-by">> \in related
          \/ f.kind = "webtls" /\ Enabled(f) = {}

(* config.py:227-516: a file is named, or reported with exactly what it    *)
(* permits, never with what a list takes away ("the opposite of the        *)
(* truth", :273-276); a key agreement is a hybrid's exactly beside a key   *)
(* encapsulation of its own proposal; and every algorithm is negotiated by *)
(* a protocol that the same file configures, where it configures one.      *)
(* S/MIME is found in every file that could be read.                       *)
ConfigAccounted ==
  sstep = "done" /\ files.exists =>
    \A f \in {x \in Range(files.all) : x.lang = "config" /\ ReadAsMeant(x)} :
      IF f.large THEN OfFile(f.id) = {} ELSE ReportedAsPermitted(f)
=============================================================================
