------------------------------ MODULE MCReports ------------------------------
(* Module Reports for TLC: inventories of up to three assets that stand    *)
(* for each rule of the rating and each way of being paired.               *)
EXTENDS Reports, TLC

CONSTANTS app, kex, one, other

MCModules == {app, kex}
MCExchanges == {one, other}

Plain(algorithm) ==
  [algorithm |-> algorithm, size |-> None, curve |-> None, set |-> None,
   type |-> "algorithm", place |-> "call-site", module |-> app, library |-> FALSE,
   privateKey |-> FALSE, checksum |-> FALSE, hybrid |-> FALSE, context |-> {}, exchange |-> one]
In(module, a)  == [a EXCEPT !.module = module]
Apart(a)       == [a EXCEPT !.exchange = other]
Size(bits, a)  == [a EXCEPT !.size = bits]
Set(n, a)      == [a EXCEPT !.set = n]
Type(type, a)  == [a EXCEPT !.type = type]
Place(place, a) == [a EXCEPT !.place = place]

X25519      == In(kex, [Plain("ECDH") EXCEPT !.curve = "X25519"])
Declared    == [X25519 EXCEPT !.hybrid = TRUE]
MLKEM       == In(kex, Set(768, Plain("ML-KEM")))
Library     == Type("related-crypto-material", [Plain("OpenSSL") EXCEPT !.library = TRUE])
PrivateKey  == Type("related-crypto-material",
                 Place("image-layer", [Plain("RSA") EXCEPT !.privateKey = TRUE, !.library = TRUE]))
WeakCA      == Type("certificate", Place("certificate-authority", Size(1024, Plain("RSA"))))
Firmware    == [Plain("RSA") EXCEPT !.size = 4096, !.context = {"signing", "firmware"}]
Checksum    == [Plain("MD5") EXCEPT !.checksum = TRUE]

MCInventories ==
  { {Size(2048, Plain("RSA")), Size(128, Plain("AES")), In(kex, Size(3072, Plain("DH")))},
    {X25519, MLKEM},
    {Apart(X25519), Declared, MLKEM},
    {Apart(X25519), MLKEM, Plain("ELGAMAL")},
    {Checksum, Plain("MD5"), Plain("SHA-256")},
    {Library, PrivateKey, Plain("homemade")},
    {WeakCA, Firmware, [Plain("ECDSA") EXCEPT !.context = {"embedded"}]},
    {Type("protocol", Place("negotiated", Plain("TLSv1.0"))), Plain("3DES"),
     Type("protocol", Plain("SSH-2.0"))},
    {In(kex, Plain("DSA")), In(kex, Set(65, Plain("ML-DSA"))), Apart(In(kex, Size(2048, Plain("RSA"))))} }

File ==
  [z |-> 2035, scale |-> 10, cnsa |-> FALSE, multiplier |-> 4, default |-> "medium",
   weights |-> [low |-> 4, medium |-> 7, high |-> 10],
   lifetimes |-> [c \in Classes |-> None],
   tags |-> (app :> [class |-> "regulated", criticality |-> "high", surface |-> "public-api"])
            @@ (kex :> None)]
StrictFile ==
  [File EXCEPT !.z = 2030, !.cnsa = TRUE, !.scale = 5,
               !.lifetimes["custom"] = 40,
               !.tags[app] = [class |-> "ephemeral", criticality |-> "low", surface |-> None],
               !.tags[kex] = [class |-> "custom", criticality |-> "high", surface |-> "embedded"]]
MCFiles == {File, StrictFile}

MCChanges == {[z |-> 2030, cnsa |-> TRUE],
              [scale |-> 5, weights |-> [low |-> 1, medium |-> 7, high |-> 10]]}

MCFilters == {[statuses |-> {"broken"}, levels |-> Levels],
              [statuses |-> {"broken", "adequate"}, levels |-> {"medium", "high"}]}
=============================================================================
