------------------------------- MODULE KeyStore -------------------------------
(***************************************************************************)
(* cbom_compass/scanners/cloud.py and pkcs11.py: one target, walked from   *)
(* its listing down to its keys, while any call to the provider may fail.  *)
(*                                                                         *)
(* A store is a sequence of groups (pages of AWS, rings of GCP, slots of a *)
(* PKCS#11 module, and one group for an Azure vault or an export), a group *)
(* a sequence of entries, and an entry a sequence of keys (the versions of *)
(* a GCP key, and one key everywhere else).                                *)
(***************************************************************************)
EXTENDS Naturals, Sequences, FiniteSets, Functions

CONSTANTS
  KeyIds,         \* keys, versions and objects
  NoSpec,         \* a key whose metadata has no specification
  AnySlot         \* no slot was asked for

VARIABLES
  kstep,          \* where the walk is
  store,          \* the target and what the provider holds
  group,          \* the group it has come to
  listed,         \* the entries it has listed and not handled
  session,        \* a session on a token is open
  reported,       \* the keys that became assets
  named,          \* what its errors name: the target, a group or a key
  contacted       \* a provider was connected to, or a module loaded

kvars == <<kstep, store, group, listed, session, reported, named, contacted>>

NoStore == [kind |-> "none"]

KeyStoreInit ==
  /\ kstep = "idle" /\ store = NoStore
  /\ group = 1 /\ listed = <<>> /\ session = FALSE
  /\ reported = {} /\ named = {} /\ contacted = FALSE

StartStore(at_step, s) ==
  /\ kstep' = at_step /\ store' = s
  /\ group' = 1 /\ listed' = <<>> /\ session' = FALSE
  /\ reported' = {} /\ named' = {} /\ contacted' = FALSE

(* CloudScanner.scan(): the scheme decides.                                *)
BeginStore(s) == StartStore("scheme", s)
KeyStoreReset == StartStore("idle", NoStore)

Report(ids) == reported' = reported \cup ids
Name(x) == named' = named \cup {x}

Kept == UNCHANGED <<store, session, contacted>>

Whole == <<"target">>

(* An error that ends the walk: what was reported stays.                   *)
EndWith(x) ==
  /\ kstep' = "done" /\ Name(x)
  /\ UNCHANGED <<group, listed, reported>>

(* _key_asset(): a provider's specification nobody mapped is kept, under   *)
(* its own name.                                                           *)
IsKey(k) == k.spec # NoSpec

(* _pkcs11_asset(): an object of a type nobody mapped (a certificate, a    *)
(* data object) is no key.                                                 *)
IsHardwareKey(k) == k.spec = "mapped"

(* _gcp_metadata(): a version that holds no material is dropped.           *)
HoldsMaterial(k) == k.live

IsAsset(kind, k) ==
  CASE kind = "pkcs11" -> IsHardwareKey(k)
    [] kind = "gcp" -> HoldsMaterial(k) /\ IsKey(k)
    [] OTHER -> IsKey(k)

AssetsOf(keys) == {k.id : k \in {x \in Range(keys) : IsAsset(store.kind, x)}}

-----------------------------------------------------------------------------
(* An unknown scheme; no vault, project, module path; no export, or an     *)
(* export that is not JSON.                                                *)
Misnamed ==
  /\ kstep = "scheme" /\ ~store.wellNamed
  /\ EndWith(Whole) /\ Kept

(* _refused(): the allowlist does not have the target.  An export is a     *)
(* file of the user's and is not asked about.                              *)
RefuseStore ==
  /\ kstep = "scheme" /\ store.wellNamed
  /\ store.kind # "file" /\ ~store.allowed
  /\ EndWith(Whole) /\ Kept

(* Not the code: the client is made, and then the allowlist asked.         *)
ConnectFirst ==
  /\ kstep = "scheme" /\ store.wellNamed
  /\ contacted' = (store.kind # "file")
  /\ \/ kstep' = "list" /\ UNCHANGED <<group, listed, reported, named>>
     \/ store.kind # "file" /\ EndWith(Whole)
  /\ UNCHANGED <<store, session>>

(* The client is made, the module loaded, the export read.                 *)
Connect ==
  /\ kstep = "scheme" /\ store.wellNamed
  /\ store.kind = "file" \/ store.allowed
  /\ contacted' = (store.kind # "file")
  /\ \/ kstep' = "list" /\ UNCHANGED <<group, listed, reported, named>>
     \/ store.kind # "file" /\ EndWith(Whole)
  /\ UNCHANGED <<store, session>>

(* Not the code: a page that fails ends the listing.                       *)
ListFailsQuietly ==
  /\ kstep = "list" /\ store.kind # "file"
  /\ kstep' = "entries" /\ UNCHANGED <<group, listed, reported, named>> /\ Kept

(* list_keys, list_properties_of_keys, list_key_rings, get_slots: the walk *)
(* ends if the call fails, on whichever page it does.                      *)
ListFails ==
  /\ kstep = "list" /\ store.kind # "file"
  /\ EndWith(Whole) /\ Kept

(* A page of AWS joins those before it; the next one is asked for while    *)
(* there is a marker.                                                      *)
ListPage ==
  /\ kstep = "list" /\ store.kind \in {"aws", "azure", "file"}
  /\ listed' = listed \o store.groups[group]
  /\ IF group = Len(store.groups) THEN kstep' = "entries" /\ group' = group
     ELSE kstep' = "list" /\ group' = group + 1
  /\ UNCHANGED <<reported, named>> /\ Kept

ListGroups ==
  /\ kstep = "list" /\ store.kind \in {"gcp", "pkcs11"}
  /\ kstep' = "group"
  /\ UNCHANGED <<group, listed, reported, named>> /\ Kept

Groups == group \in DOMAIN store.groups

NextGroup == kstep' = "group" /\ group' = group + 1 /\ listed' = <<>>

EndGroups ==
  /\ kstep = "group" /\ ~Groups
  /\ kstep' = "done"
  /\ UNCHANGED <<group, listed, reported, named>> /\ Kept

(* list_crypto_keys of a ring, get_token of a slot.                        *)
GroupFails ==
  /\ kstep = "group" /\ Groups
  /\ store.kind = "pkcs11" => store.slot \in {AnySlot, group}
  /\ Name(<<"group", group>>) /\ NextGroup
  /\ UNCHANGED reported /\ Kept

OpenRing ==
  /\ kstep = "group" /\ Groups /\ store.kind = "gcp"
  /\ kstep' = "entries" /\ listed' = store.groups[group]
  /\ UNCHANGED <<group, reported, named>> /\ Kept

SkipSlot ==
  /\ kstep = "group" /\ Groups /\ store.kind = "pkcs11"
  /\ store.slot \notin {AnySlot, group}
  /\ NextGroup /\ UNCHANGED <<reported, named>> /\ Kept

(* token.open()                                                            *)
OpenToken ==
  /\ kstep = "group" /\ Groups /\ store.kind = "pkcs11"
  /\ store.slot \in {AnySlot, group}
  /\ kstep' = "token" /\ session' = TRUE
  /\ UNCHANGED <<store, group, listed, reported, named, contacted>>

(* get_objects, and the close that follows whether it fails or not.        *)
GetObjects ==
  /\ kstep = "token" /\ session
  /\ session' = FALSE
  /\ \/ /\ listed' = store.groups[group]
        /\ UNCHANGED <<kstep, group, named>>
     \/ Name(<<"group", group>>) /\ NextGroup
  /\ UNCHANGED <<store, reported, contacted>>

(* The attributes are read once the session is closed: one object that     *)
(* raises loses the token's others, and the error names the token.         *)
ReadObjects ==
  /\ kstep = "token" /\ ~session
  /\ \/ Report(UNION {AssetsOf(e) : e \in Range(listed)}) /\ UNCHANGED named
     \/ listed # <<>> /\ Name(<<"group", group>>) /\ UNCHANGED reported
  /\ NextGroup /\ Kept

Entries == listed # <<>>

(* describe_key, get_key and list_crypto_key_versions of one entry.        *)
EntryFails ==
  /\ kstep = "entries" /\ Entries /\ store.kind # "file"
  /\ Name(<<"key", Head(listed)[1].id>>)
  /\ listed' = Tail(listed)
  /\ UNCHANGED <<kstep, group, reported>> /\ Kept

(* The keys of an entry become assets; the rotation status of an AWS key   *)
(* may be refused and is then unknown.                                     *)
ReadEntry ==
  /\ kstep = "entries" /\ Entries
  /\ Report(AssetsOf(Head(listed)))
  /\ listed' = Tail(listed)
  /\ UNCHANGED <<kstep, group, named>> /\ Kept

(* What is outside the try blocks and raises (_azure_metadata, an entry    *)
(* that is not a dictionary) leaves scan() with everything it has found.   *)
WalkRaises ==
  /\ kstep = "entries" /\ Entries /\ store.kind \in {"azure", "file"}
  /\ kstep' = "crashed"
  /\ UNCHANGED <<group, listed, reported, named>> /\ Kept

EndWalk ==
  /\ kstep = "entries" /\ ~Entries
  /\ IF store.kind = "gcp" THEN NextGroup
     ELSE kstep' = "done" /\ UNCHANGED <<group, listed>>
  /\ UNCHANGED <<reported, named>> /\ Kept

KeyStoreNext ==
  \/ Misnamed \/ RefuseStore \/ Connect
  \/ ListFails \/ ListPage \/ ListGroups \/ EndGroups
  \/ GroupFails \/ OpenRing \/ SkipSlot \/ OpenToken \/ GetObjects \/ ReadObjects
  \/ EntryFails \/ ReadEntry \/ WalkRaises \/ EndWalk
=============================================================================
