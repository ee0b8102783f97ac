------------------------------ MODULE MCCollect ------------------------------
EXTENDS Collect, TLC

CONSTANTS k1, k2, k3, k4, p1, p2, p3

Key(id) == [id |-> id, spec |-> "mapped", live |-> TRUE]
Odd(id) == [id |-> id, spec |-> "other", live |-> TRUE]
Dead(id) == [id |-> id, spec |-> "mapped", live |-> FALSE]

UpTo2(S) == UNION {[1..n -> S] : n \in 0..2}

(* Up to two groups of up to two entries, of every kind of key.            *)
KeyNames == <<<<k1, k2>>, <<k3, k4>>>>
Shapes ==
  {[g \in DOMAIN s |-> [e \in DOMAIN s[g] |->
      <<[id |-> KeyNames[g][e], spec |-> s[g][e], live |-> TRUE]>>]] :
     s \in UpTo2(UpTo2({"mapped", "other", NoSpec})) \ {<<>>}}

KeyVersions == {
  <<<<<<Key(k1), Dead(k2)>>>>, <<<<Key(k3)>>>>>>,
  <<<<<<Key(k1), Key(k2), Odd(k3)>>>>>> }

StoreOf(kind, groups, slot) ==
  [kind |-> kind, wellNamed |-> TRUE, allowed |-> TRUE, slot |-> slot, groups |-> groups]

OneGroup == {s \in Shapes : Len(s) = 1}

Stores ==
  {StoreOf("aws", s, AnySlot) : s \in Shapes}
  \cup {StoreOf(kind, s, AnySlot) : kind \in {"azure", "file"}, s \in OneGroup}
  \cup {StoreOf("gcp", s, AnySlot) : s \in Shapes \cup KeyVersions \cup {<<>>}}
  \cup {StoreOf("pkcs11", s, slot) : s \in Shapes, slot \in {AnySlot, 2}}

BadStores ==
  {[StoreOf("aws", <<<<<<Key(k1)>>>>>>, AnySlot) EXCEPT !.allowed = FALSE],
   [StoreOf("gcp", <<<<<<Key(k1)>>>>>>, AnySlot) EXCEPT !.wellNamed = FALSE],
   [StoreOf("file", <<<<<<Key(k1)>>>>>>, AnySlot) EXCEPT !.wellNamed = FALSE]}

-----------------------------------------------------------------------------
MCTable ==
  [n \in {"curve25519", "mlkem768x25519", "aes256"} |->
     CASE n = "curve25519" -> <<"x25519">>
       [] n = "mlkem768x25519" -> <<"ML-KEM", "x25519">>
       [] n = "aes256" -> <<"AES">>]

Text == [is |-> "text"]
Banner(n) == FoldLeft(\o, <<>>, [i \in 1..n |-> <<Text, NewLine>>])
             \o <<[is |-> "ssh"], Text, NewLine>>

Offers == {
  <<<<"curve25519", "mlkem768x25519">>, <<>>, <<"aes256", "mystery">>>>,
  <<<<"mlkem768x25519">>>> }

Packet(type, lists, pad) ==
  LET body == <<[is |-> type]>> \o [i \in DOMAIN lists |-> [is |-> "names", list |-> lists[i]]]
              \o [i \in 1..pad |-> [is |-> "fill"]]
  IN <<[is |-> "length", n |-> Len(body) + 1], [is |-> "padding", n |-> pad]>> \o body

SSH(n, type, lists, pad, eager, cut) ==
  LET hello == Banner(n)
      packet == Packet(type, lists, pad)
  IN [kind |-> "ssh", wellNamed |-> TRUE, allowed |-> TRUE, up |-> TRUE, eager |-> eager,
      proper |-> type = "kexinit" /\ n < MaxLines /\ Len(packet) <= MaxPacket,
      hello |-> hello, packet |-> packet, lists |-> lists,
      cut |-> SmallerOf(cut, Len(hello) + Len(packet))]

Servers ==
  {SSH(n, "kexinit", l, pad, eager, cut) :
     n \in 0..MaxLines, l \in Offers, pad \in 0..1, eager \in BOOLEAN, cut \in 0..17}
  \cup {SSH(1, "disconnect", <<>>, 0, FALSE, 17),
         SSH(0, "kexinit", [i \in 1..(MaxPacket + 1) |-> <<>>], 0, FALSE, 99)}
  \cup {[SSH(0, "kexinit", <<<<"aes256">>, <<"curve25519">>>>, 0, FALSE, 99)
            EXCEPT !.packet[2].n = 4, !.lists = <<<<"aes256">>>>],
         [SSH(0, "kexinit", <<<<"aes256">>>>, 0, FALSE, 99) EXCEPT !.packet[2].n = 5, !.proper = FALSE]}

TLS(answers) ==
  [kind |-> "tls", wellNamed |-> TRUE, allowed |-> TRUE, up |-> TRUE, answers |-> answers,
   negotiated |-> {[algorithm |-> a, partner |-> None] : a \in {"TLSv1.2", "ECDH", "AES"}}]

Endpoints ==
  Servers \cup {TLS(TRUE), TLS(FALSE)}
  \cup {[h EXCEPT !.wellNamed = FALSE] : h \in {TLS(TRUE), SSH(0, "kexinit", <<>>, 0, FALSE, 99)}}
  \cup {[h EXCEPT !.allowed = FALSE] : h \in {TLS(TRUE), SSH(0, "kexinit", <<>>, 0, FALSE, 99)}}
  \cup {[TLS(TRUE) EXCEPT !.up = FALSE]}

-----------------------------------------------------------------------------
File(path, size) == [type |-> "file", path |-> path, size |-> size]
Dir(path) == [type |-> "dir", path |-> path, size |-> 0]
Link(path) == [type |-> "link", path |-> path, size |-> 1]

Members == {
  Dir(<<"d">>), Link(<<"l">>), File(Unsafe, 1), File(<<"d", "f">>, 2),
  File(<<"f">>, 0), File(<<"f">>, 3), File(<<"g">>, 1), File(<<"g">>, 4), File(<<"f", "h">>, 3) }

Contents == UNION {[1..n -> Members] : n \in 0..3}

Archives ==
  {[form |-> form, size |-> 2, entries |-> m, damaged |-> d] :
     form \in {"zip", "tar"}, m \in Contents, d \in BOOLEAN}
  \cup {[form |-> "single", size |-> 2, entries |-> <<File(<<"f">>, 2)>>, damaged |-> d] : d \in BOOLEAN}
  \cup {[form |-> form, size |-> size, entries |-> <<>>, damaged |-> FALSE] :
          form \in {"misnamed", "unreadable"}, size \in {0, 1, 5}}

Checkouts == {
  <<File(<<"f">>, 2), File(<<"git", "h">>, 4), Link(<<"l">>)>>,
  <<File(<<"f">>, 3), File(<<"g">>, 3)>>,
  <<File(<<"git", "h">>, 1)>> }

Repositories ==
  {[form |-> "repo", size |-> 0, entries |-> m, damaged |-> d, allowed |-> TRUE] :
     m \in Checkouts, d \in BOOLEAN}
  \cup {[form |-> "repo", size |-> 0, entries |-> <<>>, damaged |-> FALSE, allowed |-> FALSE]}

-----------------------------------------------------------------------------
Cloud(s) == [scanner |-> "cloud", of |-> s]
Remote(h) == [scanner |-> h.kind, of |-> h]

Some ==
  {[scanner |-> "unknown", of |-> NoHost],
   Cloud(StoreOf("azure", <<<<<<Key(k1)>>>>>>, AnySlot)),
   Cloud(StoreOf("file", <<<<<<Key(k1)>>, <<Key(k2)>>>>>>, AnySlot)),
   Cloud(StoreOf("gcp", <<<<<<Key(k1)>>, <<Key(k2)>>>>>>, AnySlot)),
   Cloud(StoreOf("aws", <<<<<<Key(k1)>>>>, <<<<Key(k2)>>>>>>, AnySlot)),
   Remote([TLS(TRUE) EXCEPT !.wellNamed = FALSE]),
   Remote(TLS(TRUE)), Remote(TLS(FALSE)),
   Remote(SSH(0, "kexinit", <<<<"aes256">>>>, 0, FALSE, 99))}

-----------------------------------------------------------------------------
Finding(name, kind, size, params, lib, place, cert, provider) ==
  [name |-> name, kind |-> kind, size |-> size, params |-> params, lib |-> lib,
   place |-> place, cert |-> cert, provider |-> provider, ev |-> {<<place, "parse">>}]

Openssl == <<"openssl", "3">>

(* RSA at two places, of every size or without one, on its own and in a    *)
(* library; and a certificate of an RSA key.                               *)
Rsa(size, params, lib, place) ==
  Finding("RSA", "algorithm", size, params, lib, place, None, None)
Shown ==
  {Rsa(sp[1], sp[2], lib, place) :
     sp \in {<<None, None>>, <<None, "curve">>, <<2048, None>>, <<4096, None>>},
     lib \in {Openssl, None}, place \in {<<"a">>, <<"b">>}}
  \cup {Finding("RSA", "certificate", s, "material", None, <<"b">>, p1, None) : s \in {None, 2048}}

(* Libraries in two versions, what they expose, call sites through them.   *)
Library(name, version) ==
  Finding(name, "material", None, None, <<name, version>>, <<"m">>, None, None)
Used == {
  Library("p", "1"), Library("p", "2"), Library("q", "1"),
  Finding("RSA", "algorithm", None, None, <<"p", "1">>, <<"m">>, None, None),
  Finding("RSA", "algorithm", 2048, None, None, <<"a">>, None, "p"),
  Finding("RSA", "algorithm", None, None, None, <<"a">>, None, "p"),
  Finding("RSA", "algorithm", None, None, None, <<"b">>, None, "q") }

UpTo3(S) == UNION {[1..n -> S] : n \in 0..3}

Linked(n) == {<<i, j, "depends-on">> : i, j \in 1..n} \ {<<i, i, "depends-on">> : i \in 1..n}
Part(assets, linked) ==
  [assets |-> assets, links |-> IF linked THEN Linked(Len(assets)) ELSE {}]
OfResult(assets, linked) ==
  [assets |-> assets, links |-> Part(assets, linked).links, moved |-> {}, found |-> <<>>]

(* A place is as good as the other: the first finding is at one of them.   *)
Merges ==
  {OfResult(s, FALSE) : s \in UpTo3(Used)}
  \cup {OfResult(s, TRUE) : s \in {r \in UpTo3(Shown) : r # <<>> => r[1].place = <<"a">>}}

(* What relates two findings of an image relates findings of a library.    *)
InLibrary == {f \in Shown \cup Used : f.lib # None}
OfImage(form, syft, docker, catalogue, walked) ==
  LET nested == IF form = "dir" THEN {} ELSE {"layer"}
      key == <<Finding("RSA", "material", None, "material", None, InImage(<<"a">>), None, None)>>
  IN [form |-> form, syft |-> syft, docker |-> docker, nested |-> nested,
      catalogue |-> Part(catalogue, TRUE),
      tree |-> [gone \in SUBSET nested |->
                  IF gone = {} THEN Part(walked, TRUE) ELSE Part(<<walked[1]>>, FALSE)],
      material |-> [gone \in SUBSET nested |-> Part(IF gone = {} THEN key ELSE <<>>, FALSE)]]

Exposing == <<Library("p", "1"), Rsa(None, None, <<"p", "1">>, <<"m">>)>>
Images ==
  {OfImage("dir", FALSE, FALSE, <<>>, s) : s \in UpTo2(InLibrary)}
  \cup {OfImage(form, syft, docker, c, <<Library("p", "2"), Rsa(2048, None, Openssl, <<"b">>)>>) :
          form \in {"tar", "name"}, syft \in BOOLEAN, docker \in BOOLEAN, c \in {<<>>, Exposing}}

-----------------------------------------------------------------------------
MCCallRules ==
  (<<"hashlib", "md5">> :> "MD5") @@ (<<"hashlib", "new">> :> Unnamed)
  @@ (<<"rsa", "generate">> :> "RSA") @@ (<<"AES", "new">> :> "AES")
MCSizeArg == <<"rsa", "generate">> :> 2
MCModeRules == <<"modes", "ECB">> :> "ECB"
MCFamilies == ("MLKEM" :> "ML-KEM") @@ ("Kyber" :> "ML-KEM") @@ ("MLDSA" :> "ML-DSA")
MCEndings == {<<"mymodes", "modes">>}
Match(begins, rule, name, size, mode, provider) ==
  [begins |-> begins, rule |-> rule, name |-> name, size |-> size, mode |-> mode, provider |-> provider]
MCMatches ==
  ("RSA(" :> Match("R", 1, "RSA", None, None, None))
  @@ ("RSA(2048" :> Match("R", 2, "RSA", 2048, None, "Crypto"))
  @@ ("ECB" :> Match("E", 1, "AES", None, "ECB", None))
  @@ ("'RSA" :> Match("'", 1, "RSA", None, None, "Crypto"))

Str(v) == [is |-> "str", v |-> v]
Num(v) == [is |-> "int", v |-> v]
Ref(v) == [is |-> "name", v |-> v]
Env(e) == [is |-> "env", default |-> e]
Opaque == [is |-> "other"]

Import(name, origin) == [is |-> "import", name |-> name, origin |-> origin]
Assign(name, value) == [is |-> "assign", name |-> name, value |-> value]
Call(fn, args, size) == [is |-> "call", fn |-> fn, args |-> args, size |-> size]
Module(n) == n @@ [deep |-> FALSE]
Inside(n) == n @@ [deep |-> TRUE]

Bindings == {
  Module(Import("hashlib", <<"hashlib">>)), Inside(Import("digest", <<"hashlib", "md5">>)),
  Module(Import("digest", <<"hashlib", "new">>)), Module(Import("rsa", <<"Crypto", "rsa">>)),
  Module(Assign("ALG", Str("MD5"))), Module(Assign("ALG", Env(Str("SHA-1")))),
  Inside(Assign("ALG", Str("MD5"))), Module(Assign("ALG", Opaque)),
  Module(Assign("BITS", Num(2048))), Module(Assign("BITS", Env(Opaque))) }
Calls == {
  Module(Call(<<"hashlib", "new">>, <<Ref("ALG"), Opaque>>, None)),
  Module(Call(<<"hashlib", "new">>, <<Ref("ALG"), Str("SHA-1")>>, None)),
  Inside(Call(<<"digest">>, <<Ref("ALG")>>, None)),
  Module(Call(<<"getattr">>, <<Ref("hashlib"), Str("md5")>>, None)),
  Module(Call(<<"rsa", "generate">>, <<Num(65537), Ref("BITS")>>, None)),
  Inside(Call(<<"rsa", "generate">>, <<Num(65537)>>, Ref("BITS"))),
  Module(Call(<<"AES", "new">>, <<Opaque, [is |-> "mode", v |-> "GCM"]>>, None)),
  Module(Call(<<"modes", "ECB">>, <<>>, None)), Module(Call(<<"mymodes", "ECB">>, <<>>, None)),
  Module(Call(<<"self", "Kyber">>, <<Str("MLDSA")>>, None)),
  Module(Call(<<"self", "Kyber">>, <<Str("x"), Str("MLDSA")>>, None)),
  Module(Call(<<"self", "Kyber">>, <<Ref("ALG"), Str("MLDSA")>>, None)),
  Module(Call(<<"self", "Kyber">>, <<Str("MLDSA"), Ref("ALG")>>, None)) }

Numbered(nodes) == [i \in DOMAIN nodes |-> nodes[i] @@ [line |-> i]]
Programs ==
  {b \o <<c>> : b \in UpTo2(Bindings), c \in Calls}
  \cup {<<Module(Assign("BITS", Num(2048))), c, d>> : c, d \in Calls}

PythonFile(i, program) ==
  [id |-> i, lang |-> "python", skipped |-> FALSE, parses |-> TRUE, nodes |-> Numbered(program)]
PatternFile(i, text) == [id |-> i, lang |-> "pattern", skipped |-> FALSE, text |-> text]

(* Texts that lead up to a match: up to four characters that matter to     *)
(* comments, and what rules matched two lines on.                          *)
Characters == {"'", "/", "*", "\n", "\\", "#"}
Texts ==
  {t \o <<"RSA(">> : t \in UNION {[1..n -> Characters] : n \in 0..4}}
  \cup {<<c, "'RSA">> \o t \o <<"RSA(">> : c \in Characters, t \in UNION {[1..n -> Characters] : n \in 0..3}}
  \cup {<<a, "\n">> \o b \o <<c>> : a, c \in DOMAIN MCMatches, b \in {<<>>, <<"\n">>, <<"/", "/">>}}

Sources ==
  {[exists |-> TRUE, all |-> <<PythonFile(1, p)>>] : p \in Programs}
  \cup {[exists |-> TRUE, all |-> <<PatternFile(1, t)>>] : t \in Texts}
  \cup {[exists |-> e, all |->
           <<PythonFile(1, <<Module(Call(<<"AES", "new">>, <<Opaque>>, None))>>),
             [PythonFile(2, <<>>) EXCEPT !.parses = FALSE],
             [PatternFile(3, <<"RSA(">>) EXCEPT !.skipped = TRUE],
             [id |-> 4, lang |-> "other", skipped |-> FALSE],
             PatternFile(5, <<"RSA(2048">>)>>] : e \in BOOLEAN}

-----------------------------------------------------------------------------
MCMeans ==
  ("aes256" :> <<"AES">>) @@ ("modp1024" :> <<"DH">>) @@ ("curve25519" :> <<"ECDH">>)
  @@ ("ke1_mlkem768" :> <<"ML-KEM">>) @@ ("DHE-RSA-AES256" :> <<"DH", "RSA", "AES">>)
  @@ ("DES-CBC3" :> <<"3DES">>) @@ ("tlsv1" :> <<"TLSv1.0">>) @@ ("tlsv1.2" :> <<"TLSv1.2">>)

Line(is, mod, names, remark) == [is |-> is, mod |-> mod, names |-> names, remark |-> remark]
Marked(mark, name) == [mark |-> mark, name |-> name]

Mail == {Line("marker", "", <<>>, <<>>), Line("cms", "", <<"DES-CBC3">>, <<>>)}
SSHLines ==
  {Line("ssh", mod, names, <<>>) : mod \in {"", "+", "-"},
     names \in {<<"curve25519", "mlkem768x25519">>, <<"mlkem768x25519", "mystery">>, <<"aes256">>}}
Classical == <<"aes256", "modp1024">>
Hybrid == <<"aes256", "curve25519", "ke1_mlkem768">>
IPsecLines ==
  {Line("ipsec", "", p, <<>>) :
     p \in {<<>>, <<Classical>>, <<Hybrid>>, <<Classical, Hybrid>>, <<Hybrid, Classical>>, <<Hybrid, <<"mystery">>>>}}
  \cup {Line("ipsec", "", <<<<"aes256">>>>, <<<<"modp1024">>>>)}
VPNLines == {Line("openvpn", "", names, <<>>) : names \in {<<"aes256", "DES-CBC3">>, <<"DHE-RSA-AES256">>, <<"none">>}}
WebLines ==
  {Line("protocols", "", names, <<>>) :
     names \in {<<Marked("", "tlsv1.2")>>, <<Marked("", "tlsv1"), Marked("", "tlsv1.2")>>, <<Marked("-", "tlsv1"), Marked("", "tlsv1.2")>>}}
  \cup {Line("suites", "", names, <<>>) :
           names \in {<<Marked("", "DHE-RSA-AES256"), Marked("!", "DES-CBC3")>>, <<Marked("-", "DES-CBC3")>>}}
  \cup {Line("protocols", "", <<Marked("", "tlsv1.2")>>, <<Marked("", "tlsv1")>>)}

ConfigFile(i, kind, lines_) ==
  [id |-> i, lang |-> "config", skipped |-> FALSE, kind |-> kind, large |-> FALSE, lines |-> lines_]

(* Of up to two lines, in which mail may be configured as well; and of     *)
(* files beside one that is not a configuration, or too large for one.     *)
Configs ==
  UNION {{[exists |-> TRUE, all |-> <<ConfigFile(1, k, l)>>] : l \in UpTo2(Mail \cup (
            CASE k = "ssh" -> SSHLines [] k = "ipsec" -> IPsecLines [] k = "openvpn" -> VPNLines
              [] k = "webtls" -> WebLines [] k = "smime" -> {}))} :
         k \in {"ssh", "ipsec", "openvpn", "webtls", "smime"}}
  \cup {[exists |-> e, all |->
           <<ConfigFile(1, "ssh", <<l>>), [id |-> 2, lang |-> "other", skipped |-> FALSE],
             [ConfigFile(3, "openvpn", <<m>>) EXCEPT !.large = TRUE], ConfigFile(4, "openvpn", <<m>>)>>] :
          e \in BOOLEAN, l \in SSHLines, m \in VPNLines}

-----------------------------------------------------------------------------
MCExposes == <<
  [key |-> "openssl", row |-> "OPENSSL", algorithms |-> <<"RSA", "AES">>],
  [key |-> "rsa", row |-> "RSA", algorithms |-> <<"RSA">>],
  [key |-> "pyopenssl", row |-> "PYOPENSSL", algorithms |-> <<"RSA", "AES", "SHA-1">>] >>
MCPartOf == {<<"openssl", "pyopenssl">>}

ManifestFile(i, deps) == [id |-> i, lang |-> "manifest", skipped |-> FALSE, deps |-> deps]
Dependency(name, version) == [name |-> name, version |-> version]
Dependencies ==
  {Dependency("rsa", "4.9"), Dependency("rsa", None), Dependency("pyopenssl", "3"), Dependency("leftpad", "1")}
OneManifest(deps) == [exists |-> TRUE, all |-> <<ManifestFile(1, deps)>>]

-----------------------------------------------------------------------------
(* The certificate a walk comes to is a new one or one it has met, and key *)
(* ids and names are only compared, so the first one's can be fixed.       *)
Walks == {<<p1>>, <<p1, p1>>, <<p1, p2>>, <<p1, p2, p1>>, <<p1, p1, p2>>, <<p1, p2, p2>>}

Fields == [ski : {"j", "k", Absent}, aki : {"j", "k", Absent}, subject : {"A", "B"}, issuer : {"A", "B"}]
FirstFields == {f \in Fields : f.subject = "A" /\ f.ski # "k"}

Certificate(print, f) ==
  [print |-> print, ski |-> f.ski, aki |-> f.aki, subject |-> f.subject, issuer |-> f.issuer]

(* A certificate's fields are a function of its fingerprint.  The third one  *)
(* is known by its name only, the first by its key, which is enough for a  *)
(* cycle of three.                                                         *)
Bundles ==
  {[i \in DOMAIN walk |->
      IF walk[i] = p1 THEN Certificate(p1, f1) ELSE Certificate(p2, f2)] :
     walk \in Walks, f1 \in FirstFields, f2 \in Fields}
  \cup
  {<<Certificate(p1, f1), Certificate(p2, f2), Certificate(p3, f3)>> :
     f1 \in {f \in FirstFields : f.ski = "j"}, f2 \in Fields, f3 \in {f \in Fields : f.ski = Absent}}

OfBundle(certs) ==
  [assets |-> [i \in DOMAIN certs |->
     Finding("RSA", "certificate", 2048, "material", None, <<"c", i>>, certs[i].print, None)],
   links |-> {}, moved |-> {}, found |-> certs]

Scan(scanner, result) == [scanner |-> scanner, of |-> result]

Pair == {
  Scan("binary", OfResult(<<Library("p", "1")>>, FALSE)),
  Scan("binary", OfResult(<<Finding("RSA", "algorithm", None, None, None, <<"a">>, None, "P"),
                             Finding("RSA", "algorithm", None, None, None, <<"b">>, None, "p")>>, FALSE)),
  Scan("binary", OfResult(<<Rsa(2048, None, None, <<"a">>)>>, FALSE)),
  Scan("source", [exists |-> TRUE, all |-> <<PythonFile(1, <<Module(Call(<<"p", "rsa", "generate">>, <<Opaque, Num(2048)>>, None))>>)>>]),
  Scan("config", [exists |-> TRUE, all |-> <<ConfigFile(1, "openvpn", <<Line("openvpn", "", <<"DHE-RSA-AES256">>, <<>>)>>)>>]),
  Scan("dependencies", OneManifest(<<Dependency("rsa", "4.9")>>)),
  Scan("source", [exists |-> TRUE, all |-> <<PythonFile(1, <<Module(Call(<<"rsa", "generate">>, <<Opaque, Num(2048)>>, None))>>)>>]),
  Scan("container", OfImage("tar", FALSE, FALSE, <<>>, Exposing)),
  Scan("certificates", OfBundle(<<Certificate(p1, [ski |-> "j", aki |-> "k", subject |-> "A", issuer |-> "B"]),
                                  Certificate(p2, [ski |-> "k", aki |-> "j", subject |-> "B", issuer |-> "A"])>>)),
  Scan("certificates", OfBundle(<<Certificate(p3, [ski |-> Absent, aki |-> "k", subject |-> "C", issuer |-> "B"]),
                                  Certificate(p2, [ski |-> "k", aki |-> "j", subject |-> "B", issuer |-> "A"])>>)) }

-----------------------------------------------------------------------------
Project(local, s) == [local |-> local, of |-> s]
Tree == Project(TRUE, NoSource)

(* TLC unites two sets faster when the first is sorted, as a filter is.    *)
Sorted(S) == {x \in S : TRUE}

Others ==
  {[kind |-> "scan", targets |-> <<Cloud(s)>>] : s \in Stores \cup BadStores}
  \cup {[kind |-> "scan", targets |-> <<Remote(h)>>] : h \in Endpoints}
  \cup {[kind |-> "scan", targets |-> <<p, q>>] : p, q \in Some}
  \cup {[kind |-> "scan", targets |-> <<p, q>>] : p, q \in Pair}
  \cup {[kind |-> "scan", targets |-> <<Scan("container", r)>>] : r \in Images}
  \cup {[kind |-> "scan", targets |-> <<Scan("source", t)>>] : t \in Sources}
  \cup {[kind |-> "scan", targets |-> <<Scan("config", t)>>] : t \in Configs}
  \cup {[kind |-> "scan", targets |-> <<Scan("dependencies", OneManifest(d))>>] : d \in UpTo2(Dependencies)}
  \cup {[kind |-> "upload", targets |-> <<Project(FALSE, a)>>] : a \in Archives}
  \cup {[kind |-> "survey", targets |-> <<Project(FALSE, r), q>>] :
          r \in Repositories, q \in {Tree} \cup {Project(FALSE, r) : r \in Repositories}}

MCJobs ==
  Sorted(Sorted(Others)
         \cup {[kind |-> "scan", targets |-> <<Scan("binary", r)>>] : r \in Merges})
  \cup {[kind |-> "scan", targets |-> <<Scan("certificates", OfBundle(b))>>] : b \in Bundles}

(* A library that bears the name of the algorithm it exposes, and one that *)
(* does not.                                                               *)
ExposedJobs ==
  {[kind |-> "scan", targets |-> <<Scan("dependencies", OneManifest(<<Dependency(name, "4.9")>>))>>] :
     name \in {"rsa", "openssl"}}

MCPlaces ==
  LET outside == {<<"a">>, <<"b">>, <<"m">>} \cup ({"c"} \X (1..3)) IN
  ({"file"} \X (1..5) \X (1..5)) \cup ({"config"} \X (1..5) \X (0..5)) \cup ({"manifest"} \X (1..5))
  \cup outside \cup {InImage(x) : x \in outside}
MCLowerCase == [name \in {"P", "Crypto"} |-> IF name = "P" THEN "p" ELSE "crypto"]
MCLibraries ==
  {<<"P", None>>} \cup ({"p", "q"} \X {"1", "2", None}) \cup ({"hashlib", "Crypto", "rsa", "AES"} \X {None})
  \cup {Openssl, <<"openssl", "4.9">>, <<"rsa", "4.9">>}
=============================================================================
