------------------------------- MODULE Ledger -------------------------------
(***************************************************************************)
(* What cbom_compass/store.py promises its callers, without saying how:    *)
(* two tables that only ever grow.  A scan is recorded once, under an id   *)
(* of its own, with a start time no later than now; an audit entry is      *)
(* stamped no later than now; and a "scan.completed" entry is written only *)
(* about a scan that is already recorded, and only once.                   *)
(*                                                                         *)
(* Module Store implements it with threads, a lock, the two commits of     *)
(* save() and crashes between them: LedgerSpec is a property of its runs   *)
(* and a theorem of StoreProofs.                                           *)
(***************************************************************************)
EXTENDS Naturals, Sequences

CONSTANTS
  ScanIds,        \* the scan ids run_scan can draw
  Actions         \* the audit actions other than "scan.completed"

ASSUME LedgerAssumption == "scan.completed" \notin Actions

VARIABLES
  scans,          \* the scans table in rowid order: <<[id, started], ...>>
  audit,          \* the audit table in rowid order: <<[ts, action, about], ...>>
  clock           \* the wall clock, in seconds

ledger == <<scans, audit, clock>>

ScanRow    == [id : ScanIds, started : Nat]
AuditEntry == [ts : Nat, action : {"scan.completed"}, about : ScanIds]
              \cup [ts : Nat, action : Actions, about : {"-"}]

Stored == {scans[i].id : i \in DOMAIN scans}
Logged == {audit[i].about : i \in {j \in DOMAIN audit :
                                     audit[j].action = "scan.completed"}}

-----------------------------------------------------------------------------
LedgerInit ==
  /\ scans = <<>>
  /\ audit = <<>>
  /\ clock \in Nat

(* A row appears, for a scan that started in the past.                     *)
Record ==
  \E id \in ScanIds \ Stored, started \in 0..clock :
    /\ scans' = Append(scans, [id |-> id, started |-> started])
    /\ UNCHANGED <<audit, clock>>

(* The completion of a recorded scan is logged, once.                      *)
LogScan ==
  \E id \in Stored \ Logged, ts \in 0..clock :
    /\ audit' = Append(audit, [ts |-> ts, action |-> "scan.completed",
                               about |-> id])
    /\ UNCHANGED <<scans, clock>>

(* Any other action is logged: an export, a settings change.               *)
LogAction ==
  \E action \in Actions, ts \in 0..clock :
    /\ audit' = Append(audit, [ts |-> ts, action |-> action, about |-> "-"])
    /\ UNCHANGED <<scans, clock>>

Elapse ==
  /\ clock' \in Nat
  /\ clock' >= clock
  /\ UNCHANGED <<scans, audit>>

LedgerNext == Record \/ LogScan \/ LogAction \/ Elapse

LedgerSpec == LedgerInit /\ [][LedgerNext]_ledger
=============================================================================
