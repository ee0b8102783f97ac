------------------------------- MODULE Rating -------------------------------
(***************************************************************************)
(* How an asset is rated and what is advised for it:                       *)
(* knowledge/algorithms.py classify(), knowledge/mosca.py, risk.py         *)
(* classify_asset() and find_hybrid_partners(), recommend.py               *)
(* recommend_asset(), and the settings they read (policy.py).              *)
(*                                                                         *)
(* Numbers are integers: lifetimes and migration times in twentieths of a  *)
(* year (0.1y is 2, 0.25y is 5), urgency, compliance and timing in         *)
(* thousandths, vulnerability, weights and the harvest multiplier in       *)
(* tenths, so a score is in millionths and exact.  (The code rounds what   *)
(* it prints to three places.)                                             *)
(***************************************************************************)
EXTENDS Integers, FiniteSets, FiniteSetsExt

CONSTANTS
  None,           \* an absent size, curve, parameter set, class or surface
  Modules,        \* the files, images and endpoints findings sit in
  Exchanges       \* the exchanges and signatures algorithms are used for

Year == 20

Types    == {"algorithm", "certificate", "protocol", "related-crypto-material"}
Surfaces == {"internal-service", "containerised", "public-api", "third-party-saas", "embedded"}
Levels   == {"low", "medium", "high"}
Contexts == {"signing", "firmware", "embedded"}

-----------------------------------------------------------------------------
(* What is known of an algorithm.  Names are canonical (normalise()).      *)

(* What is not RSA, DSA or DH is judged as a curve, ElGamal too.           *)
Factoring == {"RSA", "DSA", "DH"}
Curves    == {"ECDH", "ECDSA", "EdDSA", "ECIES", "ELGAMAL"}
Shor      == Factoring \cup Curves

StandardPQC == {"ML-KEM", "ML-DSA", "SLH-DSA", "FN-DSA", "HQC", "LMS", "XMSS"}
OtherPQC    == {"sntrup761", "FrodoKEM", "NTRU"}
PQC         == StandardPQC \cup OtherPQC

BrokenClassical == {"MD5", "MD4", "DES", "RC4", "RC2", "SSH-1"}
Deprecated      == {"3DES", "SHA-1", "Blowfish", "CAST5", "IDEA", "SHA-224",
                    "SSLv3", "TLSv1.0", "TLSv1.1"}
Containers      == {"SSH-2.0", "IPsec", "OpenVPN", "WireGuard", "S/MIME"}
Adequate        == {"AES", "ChaCha20", "Camellia", "SEED", "SHA-256", "SHA-384", "SHA-512",
                    "SHA3-256", "SHA3-512", "BLAKE2b", "TLSv1.2", "TLSv1.3", "PBKDF2",
                    "bcrypt", "scrypt", "Argon2", "HMAC", "UMAC", "Poly1305"}
                   \cup Containers \cup PQC

(* PRIMITIVE, as far as the pairing of hybrids tells them apart.           *)
Role(algorithm) ==
  CASE algorithm \in {"ML-KEM", "HQC"} \cup OtherPQC                   -> "kem"
    [] algorithm \in {"DSA", "ECDSA", "EdDSA", "ML-DSA", "SLH-DSA",
                      "FN-DSA", "LMS", "XMSS"}                          -> "signature"
    [] algorithm \in {"DH", "ECDH"}                                     -> "key-agree"
    [] algorithm = "RSA"                                                -> "pke"
    [] OTHER                                                            -> "none"

(* An asset, and the exchange it is part of, which no code knows.          *)
Asset ==
  [algorithm : STRING, size : Nat \cup {None}, curve : STRING \cup {None},
   set : Nat \cup {None}, type : Types, place : STRING, module : Modules,
   library : BOOLEAN, privateKey : BOOLEAN, checksum : BOOLEAN, hybrid : BOOLEAN,
   context : SUBSET Contexts, exchange : Exchanges]

(* The row of a library: its risk is carried by what it exposes.           *)
LibraryRow(a) == a.type = "related-crypto-material" /\ a.library /\ ~a.privateKey

Status(a) ==
  IF LibraryRow(a) THEN "not_applicable"
  ELSE CASE a.algorithm \in Shor            -> "broken"
         [] a.algorithm \in BrokenClassical -> "broken_classical"
         [] a.algorithm \in Deprecated      -> "deprecated_insufficient"
         [] a.algorithm \in Adequate        -> "adequate"
         [] OTHER                           -> "unknown"

Smaller(a, bits) == a.size # None /\ a.size < bits

(* "classically_insufficient": too small whatever quantum computers do.    *)
TooSmall(a) ==
  \/ a.algorithm \in Factoring /\ Smaller(a, 2048)
  \/ a.algorithm \in Curves /\ (a.curve \in {"secp192r1", "secp160r1"} \/ Smaller(a, 256))

(* The years NIST IR 8547 sets for it.                                     *)
Deadlines(a) ==
  IF a.algorithm \notin Shor THEN {}
  ELSE {2035} \cup
       IF /\ ~TooSmall(a)
          /\ \/ a.algorithm \in Factoring /\ (a.size = None \/ Smaller(a, 3072))
             \/ a.algorithm \in Curves /\ a.curve \in {None, "P-256", "X25519"}
       THEN {2030} ELSE {}

(* "cnsa2_noncompliant"                                                    *)
OutsideCNSA(a) ==
  \/ a.algorithm \in Shor \cup BrokenClassical \cup Deprecated \cup OtherPQC
  \/ a.algorithm \in {"ChaCha20", "Camellia", "SEED", "SHA-256", "SHA3-256", "BLAKE2b", "TLSv1.2"}
  \/ a.algorithm = "AES" /\ (a.size = None \/ a.size < 256)
  \/ a.algorithm = "ML-KEM" /\ a.set \notin {None, 1024}
  \/ a.algorithm = "ML-DSA" /\ a.set \notin {None, 87}

-----------------------------------------------------------------------------
(* The settings: what crypto-policy.yaml and the Settings page set.        *)

(* How long data of a class stays secret, unless the policy file says.     *)
ClassLifetime ==
  [ephemeral |-> 2, operational |-> 3 * Year, financial |-> 7 * Year, pii |-> 10 * Year,
   health |-> 20 * Year, regulated |-> 25 * Year, defence |-> 25 * Year]

(* "custom" is a class of the organisation's own, or a misspelt one.       *)
Classes == DOMAIN ClassLifetime \cup {"custom"}

Tag == [class : Classes \cup {None}, criticality : Levels, surface : Surfaces \cup {None}]

Settings ==
  [z : Nat, scale : Nat \ {0}, cnsa : BOOLEAN, weights : [Levels -> 0..10],
   multiplier : 0..10, default : Levels, lifetimes : [Classes -> Nat \cup {None}],
   tags : [Modules -> Tag \cup {None}]]

Criticality(a, p) == IF p.tags[a.module] = None THEN p.default ELSE p.tags[a.module].criticality
ClassOf(a, p)     == IF p.tags[a.module] = None THEN None ELSE p.tags[a.module].class

(* X: how long the data must stay secret.                                  *)
X(a, p) ==
  LET class == ClassOf(a, p) IN
  IF class # None /\ p.lifetimes[class] # None THEN p.lifetimes[class]
  ELSE IF class \in DOMAIN ClassLifetime THEN ClassLifetime[class]
  ELSE ClassLifetime["financial"]

(* Worth recording today: the data outlives any plausible Q-Day.           *)
LongLived(a, p) ==
  \/ ClassOf(a, p) \in {"pii", "health", "regulated", "defence", "financial"}
  \/ X(a, p) >= 5 * Year

(* Y: how long the migration takes.                                        *)
InferredSurface(place) ==
  CASE place = "image-layer"                                  -> "containerised"
    [] place = "negotiated"                                   -> "public-api"
    [] place \in {"hardware-module", "certificate-authority"} -> "embedded"
    [] OTHER                                                  -> "internal-service"

MigrationTime(type) ==
  LET table(near, public, saas) ==
        [s \in Surfaces |-> CASE s \in {"internal-service", "containerised"} -> near
                              [] s = "public-api"                            -> public
                              [] s = "third-party-saas"                      -> saas
                              [] s = "embedded"                              -> 5 * Year] IN
  CASE type = "algorithm"               -> table(10, 40, 60)
    [] type = "certificate"             -> table(5, 20, 40)
    [] type = "protocol"                -> table(20, 50, 60)
    [] type = "related-crypto-material" -> table(10, 20, 40)

Y(a, p) ==
  LET tag == p.tags[a.module] IN
  MigrationTime(a.type)[IF tag # None /\ tag.surface # None THEN tag.surface
                        ELSE InferredSurface(a.place)]

-----------------------------------------------------------------------------
(* Hybrids: which assets are the classical half of one.                    *)

Covers(pqc, classical) ==
  \/ Role(pqc.algorithm) = "kem" /\ Role(classical.algorithm) = "key-agree"
  \/ Role(pqc.algorithm) = "signature" /\ Role(classical.algorithm) \in {"signature", "pke"}

(* Not the code: no scanner's word keeps the co-located from being paired. *)
PairedByNeighbour(a, assets) ==
  \/ a.hybrid
  \/ /\ a.algorithm \notin PQC
     /\ \E b \in assets : b.algorithm \in PQC /\ b.module = a.module /\ Covers(b, a)

(* A pairing a scanner declared; or, in a module where none did, a         *)
(* post-quantum algorithm of the matching role.                            *)
Paired(a, assets) ==
  \/ a.hybrid
  \/ /\ a.algorithm \notin PQC
     /\ ~\E b \in assets : b.hybrid /\ b.module = a.module
     /\ \E b \in assets : b.algorithm \in PQC /\ b.module = a.module /\ Covers(b, a)

-----------------------------------------------------------------------------
(* The rating.                                                             *)

Clamp(n) == Max({0, Min({1000, n})})

Urgency(a, p, year) ==
  Clamp(((X(a, p) + Y(a, p) - Year * Max({0, p.z - year})) * 50) \div p.scale)

(* Not the code: a deadline that has passed presses no more.               *)
ComplianceUntilDeadline(a, year) ==
  LET ahead == {d \in Deadlines(a) : d >= year} IN
  IF a.privateKey \/ TooSmall(a) THEN 1000
  ELSE IF ahead = {} THEN 0
  ELSE Clamp(1000 - 100 * (Min(ahead) - year))

(* Pressure rises over the ten years before the nearest deadline.          *)
Compliance(a, year) ==
  IF a.privateKey \/ TooSmall(a) THEN 1000
  ELSE IF Deadlines(a) = {} THEN 0
  ELSE Clamp(1000 - 100 * (Min(Deadlines(a)) - year))

Timing(a, p, year) == Max({Urgency(a, p, year), Compliance(a, year), 500})

(* Need to replace it, in itself.                                          *)
Weakness(a, p) ==
  LET known == CASE Status(a) \in {"broken", "broken_classical"} -> 10
                 [] Status(a) = "deprecated_insufficient"        -> 8
                 [] Status(a) = "unknown"                        -> 2
                 [] OTHER                                        -> 0 IN
  IF a.privateKey THEN 10
  ELSE IF known = 0 /\ p.cnsa /\ OutsideCNSA(a) THEN 3 ELSE known

Ignored(a) == LibraryRow(a) \/ a.checksum

(* Not the code: a half of a hybrid is safe, and scores nothing.           *)
VulnerabilityOfHybrid(a, p, paired) ==
  IF Ignored(a) \/ paired THEN 0 ELSE Weakness(a, p)

Vulnerability(a, p, paired) ==
  IF Ignored(a) THEN 0
  ELSE IF paired THEN Min({1, Weakness(a, p)}) ELSE Weakness(a, p)

Harvestable(a, p, paired) ==
  /\ ~Ignored(a) /\ ~(paired /\ Weakness(a, p) > 1)
  /\ LongLived(a, p)
  /\ Status(a) \in {"broken", "deprecated_insufficient"}

(* Not the code: whatever has a deadline is driven by it.                  *)
DriverByDeadline(a, p, year, paired) ==
  IF Vulnerability(a, p, paired) = 0 THEN "none"
  ELSE IF Compliance(a, year) > 0 THEN "compliance"
  ELSE "mosca-urgency"

(* The axis that drove the score; the first of equals.                     *)
Driver(a, p, year, paired) ==
  IF Vulnerability(a, p, paired) = 0 THEN "none"
  ELSE IF Urgency(a, p, year) = Timing(a, p, year) THEN "mosca-urgency"
  ELSE IF Compliance(a, year) = Timing(a, p, year) THEN "compliance"
  ELSE "baseline"

Score(a, p, year, paired) ==
  Vulnerability(a, p, paired) * Timing(a, p, year)
    * ((10 - p.multiplier) + IF Harvestable(a, p, paired) THEN p.multiplier ELSE 0)
    * p.weights[Criticality(a, p)]

-----------------------------------------------------------------------------
(* The advice: the standard to move to and the algorithm to use.           *)

Signs(a) == \/ "signing" \in a.context
            \/ a.algorithm \in {"ECDSA", "DSA", "EdDSA"}
            \/ a.type = "certificate"

Replacement(algorithm) ==
  CASE algorithm \in {"MD5", "SHA-1", "SHA-224"} -> "SHA-256"
    [] algorithm \in {"DES", "3DES"}             -> "AES-256"
    [] OTHER                                     -> "AES-256-GCM"

NoChange(a)              == [standard |-> "no-change", algorithm |-> a.algorithm]
MoveTo(standard, target) == [standard |-> standard, algorithm |-> target]

(* Not the code: the regime is not asked.                                  *)
UsualSet(p, usual, strict) == usual

(* CNSA 2.0 has parameter sets of its own.                                 *)
ParameterSet(p, usual, strict) == IF p.cnsa THEN strict ELSE usual

(* The rules apply in this order: the first that fits.                     *)
Advice(a, p) ==
  IF Ignored(a) THEN NoChange(a)
  ELSE IF a.privateKey THEN MoveTo("operational", "rotate")
  ELSE IF Status(a) = "adequate" /\ a.algorithm \in StandardPQC THEN NoChange(a)
  ELSE IF Status(a) \in {"broken_classical", "deprecated_insufficient"}
    THEN MoveTo("FIPS-197/180-4", Replacement(a.algorithm))
  ELSE IF Status(a) = "adequate" THEN
    IF p.cnsa /\ a.algorithm = "AES" /\ (a.size = None \/ a.size < 256)
      THEN MoveTo("CNSA-2.0", "AES-256")
    ELSE IF p.cnsa /\ a.algorithm \in {"SHA-256", "SHA3-256"} THEN MoveTo("CNSA-2.0", "SHA-384")
    ELSE NoChange(a)
  ELSE IF a.type = "protocol" THEN MoveTo("RFC-8996", "TLS-1.3")
  ELSE IF ~Signs(a) THEN MoveTo("FIPS-203", ParameterSet(p, "ML-KEM-768", "ML-KEM-1024"))
  ELSE IF "firmware" \in a.context THEN MoveTo("SP-800-208", "LMS/XMSS")
  ELSE IF "embedded" \in a.context THEN MoveTo("FIPS-206", "FN-DSA-512")
  ELSE MoveTo("FIPS-204", ParameterSet(p, "ML-DSA-65", "ML-DSA-87"))
=============================================================================
