------------------------------- MODULE Findings -------------------------------
(***************************************************************************)
(* cbom_compass/models.py: a finding, and what makes two of them one.      *)
(*                                                                         *)
(* A place is a location class with a location; a library is a name with   *)
(* its version.  Evidence is a set: merge() adds an observation only when  *)
(* no other has its location and method.                                   *)
(***************************************************************************)
EXTENDS Naturals

CONSTANTS
  Names,          \* algorithms and libraries, upper-cased
  Sizes,          \* key sizes
  Params,         \* non-empty parameter dictionaries
  Libraries,      \* <<name, version>>
  Places,         \* location class and location
  Methods,        \* detection methods
  Prints,         \* certificate fingerprints
  Providers,      \* modules that call sites go through
  None            \* no size, parameters, library, certificate, provider

Asset ==
  [name : Names, kind : {"algorithm", "material", "certificate", "protocol"},
   size : Sizes \cup {None}, params : Params \cup {None},
   lib : Libraries \cup {None}, place : Places, cert : Prints \cup {None},
   provider : Providers \cup {None}, ev : SUBSET (Places \X Methods)]

(* Asset.identity_key: a certificate is its fingerprint; a library-backed  *)
(* finding has no place, any other has one.                                *)
IdentityKey(a) ==
  IF a.cert # None THEN <<"cert", a.cert>>
  ELSE IF a.lib # None THEN <<"lib", a.name, a.size, a.params, a.lib>>
  ELSE <<"site", a.name, a.size, a.params, a.place>>

(* The keys there are.                                                     *)
Identities ==
  ({"cert"} \X Prints)
  \cup ({"lib"} \X Names \X (Sizes \cup {None}) \X (Params \cup {None}) \X Libraries)
  \cup ({"site"} \X Names \X (Sizes \cup {None}) \X (Params \cup {None}) \X Places)

(* No certificate is of a library, and only a call site goes through a     *)
(* module.                                                                 *)
Coherent(a) ==
  /\ a.lib # None => a.cert = None
  /\ a.provider # None => a.lib = None /\ a.cert = None
=============================================================================
