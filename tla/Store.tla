-------------------------------- MODULE Store --------------------------------
(***************************************************************************)
(* cbom_compass/store.py: the scan snapshots and the audit log, in one     *)
(* SQLite file that the API server's worker threads share through one      *)
(* connection and one re-entrant lock, and that command-line processes     *)
(* open beside it with a connection and a lock of their own.               *)
(*                                                                         *)
(* A statement together with its commit is one step: SQLite serialises     *)
(* write transactions between connections.  What is NOT one step is        *)
(* save(): it commits the scan, and then calls audit(), which commits the  *)
(* "scan.completed" entry.  A process may die, or the second statement may *)
(* raise, between the two.                                                 *)
(***************************************************************************)
EXTENDS Ledger, FiniteSets

CONSTANTS
  Threads,        \* every thread that uses the store, in any process
  Processes,      \* the processes that have the file open
  Host,           \* [Threads -> Processes]: the process a thread runs in
  None,           \* no thread
  MaxClock,       \* bound: the clock stops here
  MaxEntries,     \* bound: no audit() is called from outside past this many
  MaxFaults       \* bound: crashes and raised statements in a behaviour

ASSUME StoreAssumption ==
  /\ Host \in [Threads -> Processes]
  /\ IsFiniteSet(Processes)
  /\ None \notin Threads
  /\ MaxClock \in Nat /\ MaxEntries \in Nat /\ MaxFaults \in Nat

VARIABLES
  lock,           \* [Processes -> [owner, depth]]: each process's RLock
  call,           \* [Threads -> the call the thread is making]
  faults          \* the number of crashes and raised statements so far

vars == <<scans, audit, clock, lock, call, faults>>

(* Where a thread is.  "idle": outside the store.  "scanning": run_scan is *)
(* under way, and its report will be saved.  In save(): "save" waits for   *)
(* the lock, "insert" holds it, "inserted" has committed the row,          *)
(* "logging" is in the audit() that save() calls, its timestamp taken.  In *)
(* an audit() called from outside: "audit" waits for the lock, "auditing"  *)
(* holds it with the timestamp taken.  "release": about to leave the       *)
(* with-blocks.                                                            *)
Calls ==
  [at : {"idle", "release"}]
  \cup [at : {"scanning", "save", "insert", "inserted"}, id : ScanIds, started : Nat]
  \cup [at : {"logging"}, id : ScanIds, ts : Nat]
  \cup [at : {"audit"}, action : Actions]
  \cup [at : {"auditing"}, action : Actions, ts : Nat]

Idle == [at |-> "idle"]
Free == [owner |-> None, depth |-> 0]

(* One conjunct per variable; the lock's depth never passes 2, the nesting *)
(* of save() and audit().                                                  *)
TypeOK ==
  /\ scans \in Seq(ScanRow)
  /\ audit \in Seq(AuditEntry)
  /\ clock \in Nat
  /\ lock \in [Processes -> [owner : Threads \cup {None}, depth : 0..2]]
  /\ call \in [Threads -> Calls]
  /\ faults \in Nat

(* The id a thread's scan has drawn, while it is not settled.              *)
Drawn(t) == IF call[t].at \in {"scanning", "save", "insert", "inserted", "logging"}
            THEN {call[t].id} ELSE {}

(* A save that has got as far as at.                                       *)
SaveAt(at, c) == [at |-> at, id |-> c.id, started |-> c.started]

(* Not the code: a lock that is not re-entrant (threading.Lock).           *)
PlainLockFree(t) == lock[Host[t]].owner = None

(* RLock: free, or already this thread's.                                  *)
CanAcquire(t) == lock[Host[t]].owner \in {None, t}

Acquire(t) ==
  /\ CanAcquire(t)
  /\ lock' = [lock EXCEPT ![Host[t]] = [owner |-> t, depth |-> @.depth + 1]]

(* Not the code: only the inner with-block is left.                        *)
ReleaseInner(t) == lock' = [lock EXCEPT ![Host[t]].depth = @ - 1]

ReleaseAll(t) == lock' = [lock EXCEPT ![Host[t]] = Free]

-----------------------------------------------------------------------------
(* Queries.  A row is named by its rowid, its place in the table.          *)

(* ORDER BY started_at DESC, rowid DESC: i comes before j.                 *)
Before(i, j) == \/ scans[i].started > scans[j].started
                \/ scans[i].started = scans[j].started /\ i > j

(* Not the code: ORDER BY rowid DESC.                                      *)
LastInserted == Len(scans)

(* latest(): the first row of that order, when there is one.               *)
Latest == CHOOSE i \in DOMAIN scans : \A j \in DOMAIN scans \ {i} : Before(i, j)

-----------------------------------------------------------------------------
Init ==
  /\ scans = <<>>
  /\ audit = <<>>
  /\ clock = 0
  /\ lock = [p \in Processes |-> Free]
  /\ call = [t \in Threads |-> Idle]
  /\ faults = 0

Tick ==
  /\ clock < MaxClock
  /\ clock' = clock + 1
  /\ UNCHANGED <<scans, audit, lock, call, faults>>

(* run_scan stamps started_at when it begins and draws the id when it      *)
(* ends; the id is drawn here.  Eight hex digits of a uuid4 are taken to   *)
(* be fresh, so the OR REPLACE of the insert never replaces.               *)
BeginScan(t) ==
  /\ call[t] = Idle
  /\ \E id \in ScanIds \ (Stored \cup UNION {Drawn(u) : u \in Threads}) :
       call' = [call EXCEPT ![t] = [at |-> "scanning", id |-> id,
                                    started |-> clock]]
  /\ UNCHANGED <<scans, audit, clock, lock, faults>>

CallSave(t) ==
  /\ call[t].at = "scanning"
  /\ call' = [call EXCEPT ![t] = SaveAt("save", call[t])]
  /\ UNCHANGED <<scans, audit, clock, lock, faults>>

(* Not the code: save() that logs the scan and forgets to store it.        *)
LockSaveSkipInsert(t) ==
  /\ call[t].at = "save"
  /\ Acquire(t)
  /\ call' = [call EXCEPT ![t] = SaveAt("inserted", call[t])]
  /\ UNCHANGED <<scans, audit, clock, faults>>

(* Not the code: save() without "with self._lock".                         *)
SaveWithoutLock(t) ==
  /\ call[t].at = "save"
  /\ call' = [call EXCEPT ![t] = SaveAt("insert", call[t])]
  /\ UNCHANGED <<scans, audit, clock, lock, faults>>

LockSave(t) ==
  /\ call[t].at = "save"
  /\ Acquire(t)
  /\ call' = [call EXCEPT ![t] = SaveAt("insert", call[t])]
  /\ UNCHANGED <<scans, audit, clock, faults>>

(* INSERT OR REPLACE INTO scans, commit.                                   *)
InsertScan(t) ==
  /\ call[t].at = "insert"
  /\ scans' = Append(scans, [id |-> call[t].id, started |-> call[t].started])
  /\ call' = [call EXCEPT ![t] = SaveAt("inserted", call[t])]
  /\ UNCHANGED <<audit, clock, lock, faults>>

(* save() calls audit(), which takes the lock its thread already holds and *)
(* then the time, before it waits for SQLite.                              *)
LockScanAudit(t) ==
  /\ call[t].at = "inserted"
  /\ Acquire(t)
  /\ call' = [call EXCEPT ![t] = [at |-> "logging", id |-> call[t].id,
                                  ts |-> clock]]
  /\ UNCHANGED <<scans, audit, clock, faults>>

InsertScanAudit(t) ==
  /\ call[t].at = "logging"
  /\ audit' = Append(audit, [ts |-> call[t].ts, action |-> "scan.completed",
                             about |-> call[t].id])
  /\ call' = [call EXCEPT ![t] = [at |-> "release"]]
  /\ UNCHANGED <<scans, clock, lock, faults>>

(* audit() called from outside: an export, a settings change.              *)
CallAudit(t) ==
  /\ call[t] = Idle
  /\ Len(audit) < MaxEntries
  /\ \E action \in Actions :
       call' = [call EXCEPT ![t] = [at |-> "audit", action |-> action]]
  /\ UNCHANGED <<scans, audit, clock, lock, faults>>

(* Not the code: audit() that takes the time before it takes the lock.     *)
AuditWithoutLock(t) ==
  /\ call[t].at = "audit"
  /\ call' = [call EXCEPT ![t] = [at |-> "auditing", action |-> call[t].action,
                                  ts |-> clock]]
  /\ UNCHANGED <<scans, audit, clock, lock, faults>>

LockAudit(t) ==
  /\ call[t].at = "audit"
  /\ Acquire(t)
  /\ call' = [call EXCEPT ![t] = [at |-> "auditing", action |-> call[t].action,
                                  ts |-> clock]]
  /\ UNCHANGED <<scans, audit, clock, faults>>

InsertAudit(t) ==
  /\ call[t].at = "auditing"
  /\ audit' = Append(audit, [ts |-> call[t].ts, action |-> call[t].action,
                             about |-> "-"])
  /\ call' = [call EXCEPT ![t] = [at |-> "release"]]
  /\ UNCHANGED <<scans, clock, lock, faults>>

(* The with-blocks end, inner and outer.                                   *)
Release(t) ==
  /\ call[t].at = "release"
  /\ ReleaseAll(t)
  /\ call' = [call EXCEPT ![t] = Idle]
  /\ UNCHANGED <<scans, audit, clock, faults>>

(* Not the code: a lock taken and released without a with-block, which an  *)
(* exception leaves taken.                                                 *)
RaiseHoldingLock(t) ==
  /\ faults < MaxFaults
  /\ call[t].at \in {"insert", "logging", "auditing"}
  /\ call' = [call EXCEPT ![t] = Idle]
  /\ faults' = faults + 1
  /\ UNCHANGED <<scans, audit, clock, lock>>

(* A statement raises (the file is locked past busy_timeout, the disk is   *)
(* full): nothing is written, and the exception leaves every with-block.   *)
(* (A commit() that raises and leaves its transaction open is not of the   *)
(* model: there is no rollback(), and the next commit would take the row   *)
(* along.)                                                                 *)
Raise(t) ==
  /\ faults < MaxFaults
  /\ call[t].at \in {"insert", "logging", "auditing"}
  /\ ReleaseAll(t)
  /\ call' = [call EXCEPT ![t] = Idle]
  /\ faults' = faults + 1
  /\ UNCHANGED <<scans, audit, clock>>

(* A process dies: its threads and its lock are gone, the file stays.      *)
Crash(p) ==
  /\ faults < MaxFaults
  /\ lock' = [lock EXCEPT ![p] = Free]
  /\ call' = [t \in Threads |-> IF Host[t] = p THEN Idle ELSE call[t]]
  /\ faults' = faults + 1
  /\ UNCHANGED <<scans, audit, clock>>

(* A thread going on with what it has begun.                               *)
ThreadStep(t) ==
  \/ CallSave(t)
  \/ LockSave(t)
  \/ InsertScan(t)
  \/ LockScanAudit(t)
  \/ InsertScanAudit(t)
  \/ LockAudit(t)
  \/ InsertAudit(t)
  \/ Release(t)

Next ==
  \/ Tick
  \/ \E t \in Threads : BeginScan(t) \/ CallAudit(t) \/ ThreadStep(t) \/ Raise(t)
  \/ \E p \in Processes : Crash(p)

Spec == Init /\ [][Next]_vars

(* A thread that can go on is scheduled in the end.                        *)
FairSpec == Spec /\ \A t \in Threads : WF_vars(ThreadStep(t))

-----------------------------------------------------------------------------
Inside(t) == call[t].at \in {"insert", "inserted", "logging", "auditing", "release"}

(* save() and audit() (store.py:69-82, 130-137): a process's lock is held  *)
(* exactly by the thread of that process that is between its first         *)
(* statement and its release; so never by two, and never by one that a     *)
(* raised statement or a crash has taken out of the store.                 *)
LockDiscipline ==
  \A t \in Threads : Inside(t) <=> lock[Host[t]].owner = t

Unlogged == Stored \ Logged

(* The processes in which a thread is between the two commits of save().   *)
Savers == {p \in Processes :
             \E t \in Threads : Host[t] = p /\ call[t].at \in {"inserted", "logging"}}

(* save() (store.py:71-81) commits the scan and then its audit entry: a    *)
(* stored scan that has no "scan.completed" entry is one that a thread is  *)
(* saving now, at most one per process, or one lost to a fault.  Whoever   *)
(* counts scans in the audit log misses at most that many.                 *)
UnloggedAccounted == Cardinality(Unlogged) <= faults + Cardinality(Savers)

(* audit() (store.py:130-137) takes its timestamp under the lock: within   *)
(* one process the entries are in time order.  (Two processes can invert   *)
(* them: one waits for SQLite with its timestamp taken.)                   *)
AuditInTimeOrder ==
  \A i, j \in DOMAIN audit : i < j => audit[i].ts <= audit[j].ts

(* latest() (store.py:90-95): the scan the dashboard opens on is never     *)
(* replaced by one that started before it, in whatever order slow and      *)
(* quick scans are saved.                                                  *)
CurrentNeverGoesBack ==
  [][scans # <<>> => scans'[Latest'].started >= scans[Latest].started]_scans

(* The re-entrant lock (store.py:60): every thread that has begun a scan   *)
(* or a call leaves the store, done or failed; save() does not wait for    *)
(* itself in audit().                                                      *)
EveryCallReturns == \A t \in Threads : call[t] # Idle ~> call[t] = Idle
=============================================================================
