----------------------------- MODULE StoreProofs -----------------------------
(***************************************************************************)
(* Theorems about module Store, for every set of threads and processes.    *)
(*                                                                         *)
(* The inductive invariant IInv says, beside the types, how deep the lock  *)
(* of a thread inside the store is, that a timestamp taken is not ahead of *)
(* the clock, and what has become of the id each thread's scan has drawn:  *)
(* nobody else's, and in the tables just as far as its save() has come.    *)
(***************************************************************************)
EXTENDS Store, SequenceTheorems, FiniteSetTheorems, TLAPS

(* A lock nobody holds has depth 0; a thread past its first with-block is  *)
(* at depth 1 until audit() nests a second one.                            *)
DepthInv ==
  /\ \A p \in Processes : lock[p].owner = None => lock[p].depth = 0
  /\ \A t \in Threads : call[t].at \in {"insert", "inserted"} => lock[Host[t]].depth = 1

TypeInv == TypeOK /\ LockDiscipline /\ DepthInv

-----------------------------------------------------------------------------
(* What the guard of a thread's location says about its call.              *)
LEMMA CallShape ==
  ASSUME NEW c \in Calls
  PROVE  /\ c.at \in {"scanning", "save", "insert", "inserted"} =>
              c.id \in ScanIds /\ c.started \in Nat
         /\ c.at = "logging" => c.id \in ScanIds /\ c.ts \in Nat
         /\ c.at = "audit" => c.action \in Actions
         /\ c.at = "auditing" => c.action \in Actions /\ c.ts \in Nat
  BY DEF Calls

LEMMA MoveShape ==
  ASSUME NEW c \in Calls,
         c.at \in {"scanning", "save", "insert", "inserted"},
         NEW at \in {"scanning", "save", "insert", "inserted"}
  PROVE  SaveAt(at, c) \in Calls
  BY DEF Calls, SaveAt

LEMMA IdleShape == Idle \in Calls /\ [at |-> "release"] \in Calls
  BY DEF Calls, Idle

(* Taking the lock for the first time, and again in the nested audit().    *)
LEMMA LockShape ==
  ASSUME TypeInv, NEW t \in Threads, Acquire(t)
  PROVE  /\ call[t].at \in {"save", "audit"} =>
              /\ lock[Host[t]].owner = None
              /\ lock' = [lock EXCEPT ![Host[t]] = [owner |-> t, depth |-> 1]]
         /\ call[t].at = "inserted" =>
              /\ lock[Host[t]].owner = t
              /\ lock' = [lock EXCEPT ![Host[t]] = [owner |-> t, depth |-> 2]]
  <1>1. Host[t] \in Processes
    BY StoreAssumption
  <1>2. lock' = [lock EXCEPT ![Host[t]] = [owner |-> t, depth |-> lock[Host[t]].depth + 1]]
    BY DEF Acquire
  <1>3. ASSUME call[t].at = "inserted"
        PROVE  lock[Host[t]].owner = t /\ lock[Host[t]].depth + 1 = 2
    BY <1>3 DEF TypeInv, LockDiscipline, Inside, DepthInv
  <1>4. ASSUME call[t].at \in {"save", "audit"}
        PROVE  lock[Host[t]].owner = None /\ lock[Host[t]].depth + 1 = 1
    <2>1. lock[Host[t]].owner # t
      BY <1>4 DEF TypeInv, LockDiscipline, Inside
    <2> QED
      BY <1>1, <2>1 DEF Acquire, CanAcquire, TypeInv, DepthInv
  <1> QED
    BY <1>2, <1>3, <1>4

(* A thread inside the store is the only one of its process that is.       *)
LEMMA AloneInside ==
  ASSUME LockDiscipline, NEW t \in Threads, NEW u \in Threads,
         Inside(t), Host[t] = Host[u], t # u
  PROVE  ~Inside(u)
  BY DEF LockDiscipline

InsideAt == {"insert", "inserted", "logging", "auditing", "release"}

(* A step of t that leaves every lock alone and stays inside, or outside.  *)
LEMMA StepAside ==
  ASSUME TypeInv, NEW t \in Threads, NEW c \in Calls,
         call' = [call EXCEPT ![t] = c], lock' = lock,
         c.at \in InsideAt <=> Inside(t),
         c.at \in {"insert", "inserted"} => call[t].at \in {"insert", "inserted"}
  PROVE  call' \in [Threads -> Calls] /\ LockDiscipline' /\ DepthInv'
  <1>1. call \in [Threads -> Calls]
    BY DEF TypeInv, TypeOK
  <1>2. \A u \in Threads : call'[u] = IF u = t THEN c ELSE call[u]
    BY <1>1
  <1>3. call' \in [Threads -> Calls]
    BY <1>1
  <1>4. LockDiscipline'
    BY <1>2 DEF TypeInv, LockDiscipline, Inside, InsideAt
  <1>5. DepthInv'
    BY <1>2 DEF TypeInv, DepthInv
  <1> QED
    BY <1>3, <1>4, <1>5

(* A step of t that takes its lock: from outside, or once more.            *)
LEMMA StepIn ==
  ASSUME TypeInv, NEW t \in Threads, NEW c \in Calls, Acquire(t),
         call' = [call EXCEPT ![t] = c],
         \/ call[t].at \in {"save", "audit"} /\ c.at \in {"insert", "auditing"}
         \/ call[t].at = "inserted" /\ c.at = "logging"
  PROVE  /\ call' \in [Threads -> Calls]
         /\ lock' \in [Processes -> [owner : Threads \cup {None}, depth : 0..2]]
         /\ LockDiscipline' /\ DepthInv'
  <1>1. call \in [Threads -> Calls]
        /\ lock \in [Processes -> [owner : Threads \cup {None}, depth : 0..2]]
    BY DEF TypeInv, TypeOK
  <1>2. \A u \in Threads : call'[u] = IF u = t THEN c ELSE call[u]
    BY <1>1
  <1>3. Host \in [Threads -> Processes] /\ None \notin Threads
    BY StoreAssumption
  <1>4. PICK d \in {1, 2} :
          /\ lock' = [lock EXCEPT ![Host[t]] = [owner |-> t, depth |-> d]]
          /\ d = 2 => call[t].at = "inserted"
    BY LockShape
  <1>5. /\ \A p \in Processes : p # Host[t] => lock'[p] = lock[p]
        /\ lock'[Host[t]].owner = t /\ lock'[Host[t]].depth = d
    BY <1>1, <1>3, <1>4
  <1>6. lock[Host[t]].owner \in {None, t}
    BY DEF Acquire, CanAcquire
  <1>7. LockDiscipline'
    <2> SUFFICES ASSUME NEW u \in Threads
                 PROVE  Inside(u)' <=> lock'[Host[u]].owner = u
      BY DEF LockDiscipline
    <2>1. CASE u = t
      BY <1>2, <1>5, <2>1 DEF Inside
    <2>2. CASE u # t /\ Host[u] = Host[t]
      BY <1>2, <1>3, <1>5, <1>6, <2>2 DEF Inside, TypeInv, LockDiscipline
    <2>3. CASE Host[u] # Host[t]
      BY <1>2, <1>3, <1>5, <2>3 DEF Inside, TypeInv, LockDiscipline
    <2> QED
      BY <2>1, <2>2, <2>3
  <1>8. DepthInv'
    <2>1. \A p \in Processes : lock'[p].owner = None => lock'[p].depth = 0
      BY <1>3, <1>5 DEF TypeInv, DepthInv
    <2>2. ASSUME NEW u \in Threads, call'[u].at \in {"insert", "inserted"}
          PROVE  lock'[Host[u]].depth = 1
      <3>1. CASE u = t
        BY <1>2, <1>4, <1>5, <2>2, <3>1
      <3>2. CASE u # t
        <4>1. Inside(u)
          BY <1>2, <2>2, <3>2 DEF Inside
        <4>2. Host[u] # Host[t]
          BY <1>3, <1>6, <3>2, <4>1 DEF TypeInv, LockDiscipline
        <4> QED
          BY <1>2, <1>3, <1>5, <2>2, <3>2, <4>2 DEF TypeInv, DepthInv
      <3> QED
        BY <3>1, <3>2
    <2> QED
      BY <2>1, <2>2 DEF DepthInv
  <1> QED
    BY <1>1, <1>2, <1>3, <1>4, <1>7, <1>8

(* A step that takes the threads of Gone out of the store, all of those of *)
(* process p among them that were inside, and frees its lock.              *)
LEMMA StepOut ==
  ASSUME TypeInv, NEW p \in Processes, NEW Gone \in SUBSET Threads,
         \A u \in Gone : Host[u] = p,
         \A u \in Threads : Inside(u) /\ Host[u] = p => u \in Gone,
         lock' = [lock EXCEPT ![p] = Free],
         call' = [u \in Threads |-> IF u \in Gone THEN Idle ELSE call[u]]
  PROVE  /\ call' \in [Threads -> Calls]
         /\ lock' \in [Processes -> [owner : Threads \cup {None}, depth : 0..2]]
         /\ LockDiscipline' /\ DepthInv'
  <1>1. call \in [Threads -> Calls]
        /\ lock \in [Processes -> [owner : Threads \cup {None}, depth : 0..2]]
    BY DEF TypeInv, TypeOK
  <1>2. Host \in [Threads -> Processes] /\ None \notin Threads
    BY StoreAssumption
  <1>3. Free \in [owner : Threads \cup {None}, depth : 0..2]
    BY DEF Free
  <1>4. /\ \A q \in Processes : q # p => lock'[q] = lock[q]
        /\ lock'[p].owner = None /\ lock'[p].depth = 0
    BY <1>1 DEF Free
  <1>5. \A u \in Threads : IF u \in Gone THEN call'[u].at = "idle" ELSE call'[u] = call[u]
    BY DEF Idle
  <1>6. LockDiscipline'
    <2> SUFFICES ASSUME NEW u \in Threads
                 PROVE  Inside(u)' <=> lock'[Host[u]].owner = u
      BY DEF LockDiscipline
    <2>1. CASE Host[u] = p
      BY <1>2, <1>4, <1>5, <2>1 DEF Inside
    <2>2. CASE Host[u] # p
      BY <1>2, <1>4, <1>5, <2>2 DEF Inside, TypeInv, LockDiscipline
    <2> QED
      BY <2>1, <2>2
  <1>7. DepthInv'
    <2>1. \A q \in Processes : lock'[q].owner = None => lock'[q].depth = 0
      BY <1>4 DEF TypeInv, DepthInv
    <2>2. ASSUME NEW u \in Threads, call'[u].at \in {"insert", "inserted"}
          PROVE  lock'[Host[u]].depth = 1
      BY <1>2, <1>4, <1>5, <2>2 DEF TypeInv, DepthInv, Inside
    <2> QED
      BY <2>1, <2>2 DEF DepthInv
  <1> QED
    BY <1>1, <1>3, <1>6, <1>7, IdleShape

-----------------------------------------------------------------------------
(* What appending a row does to the ids a table holds.                     *)
LEMMA StoredAppend ==
  ASSUME scans \in Seq(ScanRow), NEW r \in ScanRow, scans' = Append(scans, r)
  PROVE  scans' \in Seq(ScanRow) /\ Stored' = Stored \cup {r.id}
  <1>1. /\ scans' \in Seq(ScanRow) /\ Len(scans') = Len(scans) + 1
        /\ \A i \in 1..Len(scans) : scans'[i] = scans[i]
        /\ scans'[Len(scans) + 1] = r
    BY AppendProperties
  <1>2. DOMAIN scans = 1..Len(scans) /\ Len(scans) \in Nat /\ DOMAIN scans' = 1..Len(scans')
    BY <1>1, LenProperties
  <1>3. DOMAIN scans' = DOMAIN scans \cup {Len(scans) + 1}
    BY <1>1, <1>2
  <1>4. \A i \in DOMAIN scans : scans'[i] = scans[i]
    BY <1>1, <1>2
  <1> QED
    BY <1>1, <1>3, <1>4 DEF Stored

LEMMA LoggedAppend ==
  ASSUME audit \in Seq(AuditEntry), NEW e \in AuditEntry, audit' = Append(audit, e)
  PROVE  /\ audit' \in Seq(AuditEntry)
         /\ Logged' = IF e.action = "scan.completed" THEN Logged \cup {e.about} ELSE Logged
  <1>1. /\ audit' \in Seq(AuditEntry) /\ Len(audit') = Len(audit) + 1
        /\ \A i \in 1..Len(audit) : audit'[i] = audit[i]
        /\ audit'[Len(audit) + 1] = e
    BY AppendProperties
  <1>2. DOMAIN audit = 1..Len(audit) /\ Len(audit) \in Nat /\ DOMAIN audit' = 1..Len(audit')
    BY <1>1, LenProperties
  <1>3. DOMAIN audit' = DOMAIN audit \cup {Len(audit) + 1}
    BY <1>1, <1>2
  <1>4. \A i \in DOMAIN audit : audit'[i] = audit[i]
    BY <1>1, <1>2
  <1> QED
    BY <1>1, <1>3, <1>4 DEF Logged

(* A timestamp taken is not ahead of the clock.                            *)
StampInv ==
  \A t \in Threads :
    /\ call[t].at \in {"scanning", "save", "insert", "inserted"} => call[t].started <= clock
    /\ call[t].at \in {"logging", "auditing"} => call[t].ts <= clock

(* The id of a scan in hand is in the tables as far as its save() has come *)
(* and in no other thread's hand.                                          *)
DrawnInv ==
  /\ \A t \in Threads :
       /\ call[t].at \in {"scanning", "save", "insert"} => call[t].id \notin Stored
       /\ call[t].at \in {"inserted", "logging"} => call[t].id \in Stored \ Logged
  /\ \A t, u \in Threads : t # u => Drawn(t) \cap Drawn(u) = {}

IInv == TypeInv /\ StampInv /\ DrawnInv /\ Logged \subseteq Stored

LEMMA InitInv == Init => IInv
  <1> SUFFICES ASSUME Init PROVE IInv
    OBVIOUS
  <1>1. \A t \in Threads : call[t].at = "idle"
    BY DEF Init, Idle
  <1>2. \A p \in Processes : lock[p].owner = None /\ lock[p].depth = 0
    BY DEF Init, Free
  <1>3. TypeOK
    <2>1. lock \in [Processes -> [owner : Threads \cup {None}, depth : 0..2]]
      BY DEF Init, Free
    <2>2. call \in [Threads -> Calls]
      BY IdleShape DEF Init
    <2> QED
      BY <2>1, <2>2 DEF Init, TypeOK
  <1>4. LockDiscipline /\ DepthInv
    BY <1>1, <1>2, StoreAssumption DEF LockDiscipline, DepthInv, Inside
  <1>5. Stored = {} /\ Logged = {}
    BY DEF Init, Stored, Logged
  <1>6. StampInv /\ DrawnInv
    BY <1>1 DEF StampInv, DrawnInv, Drawn
  <1> QED
    BY <1>3, <1>4, <1>5, <1>6 DEF IInv, TypeInv

-----------------------------------------------------------------------------
(* Steps that leave both tables and the clock alone: the call of t becomes *)
(* c, with the stamp and the id it had, or a fresh id, or neither.         *)
LEMMA TablesAlone ==
  ASSUME IInv, NEW t \in Threads, NEW c \in Calls,
         call' = [call EXCEPT ![t] = c], UNCHANGED <<scans, audit, clock>>,
         c.at \in {"scanning", "save", "insert", "inserted"} => c.started <= clock,
         c.at \in {"logging", "auditing"} => c.ts <= clock,
         \/ c.at \in {"idle", "audit", "auditing", "release"}
         \/ /\ c.at = "scanning" /\ c.id \notin Stored
            /\ \A u \in Threads : c.id \notin Drawn(u)
         \/ /\ c.at \in {"save", "insert"} /\ c.id = call[t].id
            /\ call[t].at \in {"scanning", "save"}
         \/ c.at = "logging" /\ c.id = call[t].id /\ call[t].at = "inserted"
  PROVE  StampInv' /\ DrawnInv' /\ (Logged \subseteq Stored)'
  <1>1. call \in [Threads -> Calls]
    BY DEF IInv, TypeInv, TypeOK
  <1>2. \A u \in Threads : call'[u] = IF u = t THEN c ELSE call[u]
    BY <1>1
  <1>3. Stored' = Stored /\ Logged' = Logged /\ clock' = clock
    BY DEF Stored, Logged
  <1>4. StampInv'
    BY <1>2, <1>3 DEF IInv, StampInv
  <1>5. \A u \in Threads :
          /\ call'[u].at \in {"scanning", "save", "insert"} => call'[u].id \notin Stored
          /\ call'[u].at \in {"inserted", "logging"} => call'[u].id \in Stored \ Logged
    BY <1>2 DEF IInv, DrawnInv
  <1>6. \A u \in Threads : u # t => Drawn(u)' = Drawn(u)
    BY <1>2 DEF Drawn
  <1>7. \/ Drawn(t)' \subseteq Drawn(t)
        \/ \E id : Drawn(t)' = {id} /\ \A u \in Threads : id \notin Drawn(u)
    BY <1>2 DEF Drawn
  <1>8. \A u, v \in Threads : u # v => Drawn(u)' \cap Drawn(v)' = {}
    BY <1>6, <1>7 DEF IInv, DrawnInv
  <1> QED
    BY <1>3, <1>4, <1>5, <1>8 DEF IInv, DrawnInv

LEMMA ThreadsKnown ==
  ASSUME IInv, NEW t \in Threads
  PROVE  /\ Host[t] \in Processes /\ call[t] \in Calls
         /\ clock \in Nat /\ faults \in Nat
         /\ scans \in Seq(ScanRow) /\ audit \in Seq(AuditEntry)
         /\ lock \in [Processes -> [owner : Threads \cup {None}, depth : 0..2]]
  BY StoreAssumption DEF IInv, TypeInv, TypeOK

LEMMA BeginScanInv == ASSUME IInv, NEW t \in Threads, BeginScan(t) PROVE IInv'
  <1>1. PICK id \in ScanIds \ (Stored \cup UNION {Drawn(u) : u \in Threads}) :
          call' = [call EXCEPT ![t] = [at |-> "scanning", id |-> id, started |-> clock]]
    BY DEF BeginScan
  <1> DEFINE c == [at |-> "scanning", id |-> id, started |-> clock]
  <1>2. c \in Calls /\ c.at = "scanning" /\ c.id = id /\ c.started = clock
    BY ThreadsKnown DEF Calls
  <1>3. call[t].at = "idle" /\ UNCHANGED <<scans, audit, clock, lock, faults>>
    BY DEF BeginScan, Idle
  <1> HIDE DEF c
  <1>4. call' = [call EXCEPT ![t] = c]
    BY <1>1 DEF c
  <1>5. call' \in [Threads -> Calls] /\ LockDiscipline' /\ DepthInv'
    BY <1>2, <1>3, <1>4, StepAside DEF IInv, Inside, InsideAt
  <1>6. c.started <= clock
    BY <1>2, ThreadsKnown
  <1>7. StampInv' /\ DrawnInv' /\ (Logged \subseteq Stored)'
    BY <1>1, <1>2, <1>3, <1>4, <1>6, TablesAlone
  <1>8. TypeOK'
    BY <1>3, <1>5, ThreadsKnown DEF TypeOK
  <1> QED
    BY <1>5, <1>7, <1>8 DEF IInv, TypeInv

LEMMA CallSaveInv == ASSUME IInv, NEW t \in Threads, CallSave(t) PROVE IInv'
  <1> DEFINE c == SaveAt("save", call[t])
  <1>1. call[t].at = "scanning" /\ UNCHANGED <<scans, audit, clock, lock, faults>>
    BY DEF CallSave
  <1>2. /\ c \in Calls /\ c.at = "save" /\ c.id = call[t].id
        /\ c.started = call[t].started
    BY <1>1, ThreadsKnown, MoveShape DEF SaveAt
  <1>3. call' = [call EXCEPT ![t] = c]
    BY DEF CallSave
  <1> HIDE DEF c
  <1>4. call' \in [Threads -> Calls] /\ LockDiscipline' /\ DepthInv'
    BY <1>1, <1>2, <1>3, StepAside DEF IInv, Inside, InsideAt
  <1>5. c.started <= clock
    BY <1>1, <1>2 DEF IInv, StampInv
  <1>6. StampInv' /\ DrawnInv' /\ (Logged \subseteq Stored)'
    BY <1>1, <1>2, <1>3, <1>5, TablesAlone
  <1>7. TypeOK'
    BY <1>1, <1>4, ThreadsKnown DEF TypeOK
  <1> QED
    BY <1>4, <1>6, <1>7 DEF IInv, TypeInv

LEMMA LockSaveInv == ASSUME IInv, NEW t \in Threads, LockSave(t) PROVE IInv'
  <1> DEFINE c == SaveAt("insert", call[t])
  <1>1. call[t].at = "save" /\ Acquire(t) /\ UNCHANGED <<scans, audit, clock, faults>>
    BY DEF LockSave
  <1>2. /\ c \in Calls /\ c.at = "insert" /\ c.id = call[t].id
        /\ c.started = call[t].started
    BY <1>1, ThreadsKnown, MoveShape DEF SaveAt
  <1>3. call' = [call EXCEPT ![t] = c]
    BY DEF LockSave
  <1> HIDE DEF c
  <1>4. /\ call' \in [Threads -> Calls]
        /\ lock' \in [Processes -> [owner : Threads \cup {None}, depth : 0..2]]
        /\ LockDiscipline' /\ DepthInv'
    BY <1>1, <1>2, <1>3, StepIn DEF IInv
  <1>5. c.started <= clock
    BY <1>1, <1>2 DEF IInv, StampInv
  <1>6. StampInv' /\ DrawnInv' /\ (Logged \subseteq Stored)'
    BY <1>1, <1>2, <1>3, <1>5, TablesAlone
  <1>7. TypeOK'
    BY <1>1, <1>4, ThreadsKnown DEF TypeOK
  <1> QED
    BY <1>4, <1>6, <1>7 DEF IInv, TypeInv

LEMMA LockScanAuditInv == ASSUME IInv, NEW t \in Threads, LockScanAudit(t) PROVE IInv'
  <1> DEFINE c == [at |-> "logging", id |-> call[t].id, ts |-> clock]
  <1>1. call[t].at = "inserted" /\ Acquire(t) /\ UNCHANGED <<scans, audit, clock, faults>>
    BY DEF LockScanAudit
  <1>2. c \in Calls /\ c.at = "logging" /\ c.id = call[t].id /\ c.ts = clock
    BY <1>1, ThreadsKnown, CallShape DEF Calls
  <1>3. call' = [call EXCEPT ![t] = c]
    BY DEF LockScanAudit
  <1> HIDE DEF c
  <1>4. /\ call' \in [Threads -> Calls]
        /\ lock' \in [Processes -> [owner : Threads \cup {None}, depth : 0..2]]
        /\ LockDiscipline' /\ DepthInv'
    BY <1>1, <1>2, <1>3, StepIn DEF IInv
  <1>5. c.ts <= clock
    BY <1>2, ThreadsKnown
  <1>6. StampInv' /\ DrawnInv' /\ (Logged \subseteq Stored)'
    BY <1>1, <1>2, <1>3, <1>5, TablesAlone
  <1>7. TypeOK'
    BY <1>1, <1>4, ThreadsKnown DEF TypeOK
  <1> QED
    BY <1>4, <1>6, <1>7 DEF IInv, TypeInv

LEMMA CallAuditInv == ASSUME IInv, NEW t \in Threads, CallAudit(t) PROVE IInv'
  <1>1. PICK action \in Actions : call' = [call EXCEPT ![t] = [at |-> "audit", action |-> action]]
    BY DEF CallAudit
  <1> DEFINE c == [at |-> "audit", action |-> action]
  <1>2. c \in Calls /\ c.at = "audit"
    BY DEF Calls
  <1>3. call[t].at = "idle" /\ UNCHANGED <<scans, audit, clock, lock, faults>>
    BY DEF CallAudit, Idle
  <1>4. call' = [call EXCEPT ![t] = c]
    BY <1>1
  <1> HIDE DEF c
  <1>5. call' \in [Threads -> Calls] /\ LockDiscipline' /\ DepthInv'
    BY <1>2, <1>3, <1>4, StepAside DEF IInv, Inside, InsideAt
  <1>6. StampInv' /\ DrawnInv' /\ (Logged \subseteq Stored)'
    BY <1>2, <1>3, <1>4, TablesAlone
  <1>7. TypeOK'
    BY <1>3, <1>5, ThreadsKnown DEF TypeOK
  <1> QED
    BY <1>5, <1>6, <1>7 DEF IInv, TypeInv

LEMMA LockAuditInv == ASSUME IInv, NEW t \in Threads, LockAudit(t) PROVE IInv'
  <1> DEFINE c == [at |-> "auditing", action |-> call[t].action, ts |-> clock]
  <1>1. call[t].at = "audit" /\ Acquire(t) /\ UNCHANGED <<scans, audit, clock, faults>>
    BY DEF LockAudit
  <1>2. c \in Calls /\ c.at = "auditing" /\ c.ts = clock
    BY <1>1, ThreadsKnown, CallShape DEF Calls
  <1>3. call' = [call EXCEPT ![t] = c]
    BY DEF LockAudit
  <1> HIDE DEF c
  <1>4. /\ call' \in [Threads -> Calls]
        /\ lock' \in [Processes -> [owner : Threads \cup {None}, depth : 0..2]]
        /\ LockDiscipline' /\ DepthInv'
    BY <1>1, <1>2, <1>3, StepIn DEF IInv
  <1>5. c.ts <= clock
    BY <1>2, ThreadsKnown
  <1>6. StampInv' /\ DrawnInv' /\ (Logged \subseteq Stored)'
    BY <1>1, <1>2, <1>3, <1>5, TablesAlone
  <1>7. TypeOK'
    BY <1>1, <1>4, ThreadsKnown DEF TypeOK
  <1> QED
    BY <1>4, <1>6, <1>7 DEF IInv, TypeInv

-----------------------------------------------------------------------------
(* Steps that write a row.                                                 *)
LEMMA InsertScanShape ==
  ASSUME IInv, NEW t \in Threads, InsertScan(t)
  PROVE  /\ call[t].id \in ScanIds \ Stored /\ call[t].started \in 0..clock
         /\ scans' \in Seq(ScanRow) /\ Stored' = Stored \cup {call[t].id}
         /\ Logged' = Logged
  <1>1. call[t].at = "insert" /\ call[t] \in Calls /\ clock \in Nat
    BY ThreadsKnown DEF InsertScan
  <1>2. call[t].id \in ScanIds /\ call[t].started \in Nat
    BY <1>1, CallShape
  <1>3. call[t].id \notin Stored /\ call[t].started <= clock
    BY <1>1 DEF IInv, StampInv, DrawnInv
  <1> DEFINE r == [id |-> call[t].id, started |-> call[t].started]
  <1>4. r \in ScanRow /\ r.id = call[t].id
    BY <1>2 DEF ScanRow
  <1>5. scans' = Append(scans, r)
    BY DEF InsertScan
  <1> HIDE DEF r
  <1>6. scans' \in Seq(ScanRow) /\ Stored' = Stored \cup {call[t].id}
    BY <1>4, <1>5, StoredAppend, ThreadsKnown
  <1>7. Logged' = Logged
    BY DEF InsertScan, Logged
  <1> QED
    BY <1>1, <1>2, <1>3, <1>6, <1>7

LEMMA InsertScanInv == ASSUME IInv, NEW t \in Threads, InsertScan(t) PROVE IInv'
  <1> DEFINE c == SaveAt("inserted", call[t])
  <1>1. call[t].at = "insert" /\ UNCHANGED <<audit, clock, lock, faults>>
    BY DEF InsertScan
  <1>2. /\ c \in Calls /\ c.at = "inserted" /\ c.id = call[t].id
        /\ c.started = call[t].started
    BY <1>1, ThreadsKnown, MoveShape DEF SaveAt
  <1>3. call' = [call EXCEPT ![t] = c]
    BY DEF InsertScan
  <1> HIDE DEF c
  <1>4. call' \in [Threads -> Calls] /\ LockDiscipline' /\ DepthInv'
    BY <1>1, <1>2, <1>3, StepAside DEF IInv, Inside, InsideAt
  <1>5. \A u \in Threads : call'[u] = IF u = t THEN c ELSE call[u]
    BY <1>3, <1>4 DEF IInv, TypeInv, TypeOK
  <1>6. /\ call[t].id \notin Stored /\ Stored' = Stored \cup {call[t].id}
        /\ Logged' = Logged /\ scans' \in Seq(ScanRow)
    BY InsertScanShape
  <1>7. StampInv'
    BY <1>1, <1>2, <1>5 DEF IInv, StampInv
  <1>8. (Logged \subseteq Stored)'
    BY <1>6 DEF IInv
  <1>9. DrawnInv'
    <2>1. \A u \in Threads : Drawn(u)' = Drawn(u)
      BY <1>1, <1>2, <1>5 DEF Drawn
    <2>2. Drawn(t) = {call[t].id}
      BY <1>1 DEF Drawn
    <2>3. ASSUME NEW u \in Threads
          PROVE  /\ call'[u].at \in {"scanning", "save", "insert"} => call'[u].id \notin Stored'
                 /\ call'[u].at \in {"inserted", "logging"} => call'[u].id \in Stored' \ Logged'
      <3>1. CASE u = t
        BY <1>2, <1>5, <1>6, <3>1 DEF IInv
      <3>2. CASE u # t
        <4>1. Drawn(u) \cap {call[t].id} = {}
          BY <2>2, <3>2 DEF IInv, DrawnInv
        <4> QED
          BY <1>5, <1>6, <3>2, <4>1 DEF IInv, DrawnInv, Drawn
      <3> QED
        BY <3>1, <3>2
    <2> QED
      BY <2>1, <2>3 DEF IInv, DrawnInv
  <1>10. TypeOK'
    BY <1>1, <1>4, <1>6, ThreadsKnown DEF TypeOK
  <1> QED
    BY <1>4, <1>7, <1>8, <1>9, <1>10 DEF IInv, TypeInv

LEMMA InsertScanAuditShape ==
  ASSUME IInv, NEW t \in Threads, InsertScanAudit(t)
  PROVE  /\ call[t].id \in Stored \ Logged /\ call[t].id \in ScanIds
         /\ call[t].ts \in 0..clock
         /\ audit' \in Seq(AuditEntry) /\ Logged' = Logged \cup {call[t].id}
         /\ Stored' = Stored
  <1>1. call[t].at = "logging" /\ call[t] \in Calls /\ clock \in Nat
    BY ThreadsKnown DEF InsertScanAudit
  <1>2. call[t].id \in ScanIds /\ call[t].ts \in Nat
    BY <1>1, CallShape
  <1>3. call[t].id \in Stored \ Logged /\ call[t].ts <= clock
    BY <1>1 DEF IInv, StampInv, DrawnInv
  <1> DEFINE e == [ts |-> call[t].ts, action |-> "scan.completed", about |-> call[t].id]
  <1>4. e \in AuditEntry /\ e.action = "scan.completed" /\ e.about = call[t].id
    BY <1>2 DEF AuditEntry
  <1>5. audit' = Append(audit, e)
    BY DEF InsertScanAudit
  <1> HIDE DEF e
  <1>6. audit' \in Seq(AuditEntry) /\ Logged' = Logged \cup {call[t].id}
    BY <1>4, <1>5, LoggedAppend, ThreadsKnown
  <1>7. Stored' = Stored
    BY DEF InsertScanAudit, Stored
  <1> QED
    BY <1>1, <1>2, <1>3, <1>6, <1>7

LEMMA InsertAuditShape ==
  ASSUME IInv, NEW t \in Threads, InsertAudit(t)
  PROVE  /\ call[t].action \in Actions /\ call[t].ts \in 0..clock
         /\ audit' \in Seq(AuditEntry) /\ Logged' = Logged /\ Stored' = Stored
  <1>1. call[t].at = "auditing" /\ call[t] \in Calls /\ clock \in Nat
    BY ThreadsKnown DEF InsertAudit
  <1>2. call[t].action \in Actions /\ call[t].ts \in Nat
    BY <1>1, CallShape
  <1>3. call[t].ts <= clock
    BY <1>1 DEF IInv, StampInv
  <1> DEFINE e == [ts |-> call[t].ts, action |-> call[t].action, about |-> "-"]
  <1>4. e \in AuditEntry /\ e.action # "scan.completed"
    BY <1>2, LedgerAssumption DEF AuditEntry
  <1>5. audit' = Append(audit, e)
    BY DEF InsertAudit
  <1> HIDE DEF e
  <1>6. audit' \in Seq(AuditEntry) /\ Logged' = Logged
    BY <1>4, <1>5, LoggedAppend, ThreadsKnown
  <1>7. Stored' = Stored
    BY DEF InsertAudit, Stored
  <1> QED
    BY <1>1, <1>2, <1>3, <1>6, <1>7

(* Either insert into the audit table leaves t about to release.           *)
LEMMA AuditWritten ==
  ASSUME IInv, NEW t \in Threads, InsertScanAudit(t) \/ InsertAudit(t)
  PROVE  IInv'
  <1> DEFINE c == [at |-> "release"]
  <1>1. /\ call[t].at \in {"logging", "auditing"} /\ UNCHANGED <<scans, clock, lock, faults>>
        /\ call' = [call EXCEPT ![t] = c]
    BY DEF InsertScanAudit, InsertAudit
  <1>2. c \in Calls /\ c.at = "release"
    BY IdleShape
  <1> HIDE DEF c
  <1>3. call' \in [Threads -> Calls] /\ LockDiscipline' /\ DepthInv'
    BY <1>1, <1>2, StepAside DEF IInv, Inside, InsideAt
  <1>4. \A u \in Threads : call'[u] = IF u = t THEN c ELSE call[u]
    BY <1>1, <1>3 DEF IInv, TypeInv, TypeOK
  <1>5. /\ audit' \in Seq(AuditEntry) /\ Stored' = Stored
        /\ \/ Logged' = Logged
           \/ /\ call[t].at = "logging" /\ call[t].id \in Stored
              /\ Logged' = Logged \cup {call[t].id}
    BY InsertScanAuditShape, InsertAuditShape DEF InsertScanAudit
  <1>6. StampInv'
    BY <1>1, <1>2, <1>4 DEF IInv, StampInv
  <1>7. (Logged \subseteq Stored)'
    BY <1>5 DEF IInv
  <1>8. DrawnInv'
    <2>1. \A u \in Threads : Drawn(u)' = IF u = t THEN {} ELSE Drawn(u)
      BY <1>2, <1>4 DEF Drawn
    <2>2. ASSUME NEW u \in Threads
          PROVE  /\ call'[u].at \in {"scanning", "save", "insert"} => call'[u].id \notin Stored'
                 /\ call'[u].at \in {"inserted", "logging"} => call'[u].id \in Stored' \ Logged'
      <3>1. CASE u = t
        BY <1>2, <1>4, <3>1
      <3>2. CASE u # t
        <4>1. Drawn(u) \cap Drawn(t) = {}
          BY <3>2 DEF IInv, DrawnInv
        <4> QED
          BY <1>4, <1>5, <3>2, <4>1 DEF IInv, DrawnInv, Drawn
      <3> QED
        BY <3>1, <3>2
    <2> QED
      BY <2>1, <2>2 DEF IInv, DrawnInv
  <1>9. TypeOK'
    BY <1>1, <1>3, <1>5, ThreadsKnown DEF TypeOK
  <1> QED
    BY <1>3, <1>6, <1>7, <1>8, <1>9 DEF IInv, TypeInv

-----------------------------------------------------------------------------
(* Threads that leave the store, done or failed or dead.                   *)
LEMMA Left ==
  ASSUME IInv, NEW p \in Processes, NEW Gone \in SUBSET Threads,
         \A u \in Gone : Host[u] = p,
         \A u \in Threads : Inside(u) /\ Host[u] = p => u \in Gone,
         lock' = [lock EXCEPT ![p] = Free],
         call' = [u \in Threads |-> IF u \in Gone THEN Idle ELSE call[u]],
         faults' \in Nat, UNCHANGED <<scans, audit, clock>>
  PROVE  IInv'
  <1>1. /\ call' \in [Threads -> Calls]
        /\ lock' \in [Processes -> [owner : Threads \cup {None}, depth : 0..2]]
        /\ LockDiscipline' /\ DepthInv'
    BY StepOut DEF IInv
  <1>2. \A u \in Threads : IF u \in Gone THEN call'[u].at = "idle" ELSE call'[u] = call[u]
    BY DEF Idle
  <1>3. Stored' = Stored /\ Logged' = Logged
    BY DEF Stored, Logged
  <1>4. StampInv'
    BY <1>2 DEF IInv, StampInv
  <1>5. \A u \in Threads : Drawn(u)' \subseteq Drawn(u)
    BY <1>2 DEF Drawn
  <1>6. DrawnInv'
    BY <1>2, <1>3, <1>5 DEF IInv, DrawnInv
  <1>7. TypeOK'
    BY <1>1, ThreadsKnown DEF IInv, TypeInv, TypeOK
  <1> QED
    BY <1>1, <1>3, <1>4, <1>6, <1>7 DEF IInv, TypeInv

LEMMA ThreadLeft ==
  ASSUME IInv, NEW t \in Threads, Release(t) \/ Raise(t)
  PROVE  IInv'
  <1>1. Inside(t) /\ ReleaseAll(t) /\ call' = [call EXCEPT ![t] = Idle]
    BY DEF Release, Raise, Inside
  <1>2. faults' \in Nat /\ UNCHANGED <<scans, audit, clock>>
    BY ThreadsKnown DEF Release, Raise
  <1> DEFINE Gone == {t}
  <1>3. call' = [u \in Threads |-> IF u \in Gone THEN Idle ELSE call[u]]
    BY <1>1 DEF IInv, TypeInv, TypeOK
  <1>4. \A u \in Threads : Inside(u) /\ Host[u] = Host[t] => u \in Gone
    BY <1>1, AloneInside DEF IInv, TypeInv
  <1>5. Gone \in SUBSET Threads /\ \A u \in Gone : Host[u] = Host[t]
    OBVIOUS
  <1>6. Host[t] \in Processes /\ lock' = [lock EXCEPT ![Host[t]] = Free]
    BY <1>1, ThreadsKnown DEF ReleaseAll
  <1> HIDE DEF Gone
  <1> QED
    BY <1>2, <1>3, <1>4, <1>5, <1>6, Left

LEMMA CrashInv == ASSUME IInv, NEW p \in Processes, Crash(p) PROVE IInv'
  <1> DEFINE Gone == {u \in Threads : Host[u] = p}
  <1>1. call' = [u \in Threads |-> IF u \in Gone THEN Idle ELSE call[u]]
    BY DEF Crash
  <1>2. /\ lock' = [lock EXCEPT ![p] = Free] /\ UNCHANGED <<scans, audit, clock>>
        /\ faults' \in Nat
    BY DEF Crash, IInv, TypeInv, TypeOK
  <1>3. Gone \subseteq Threads /\ \A u \in Threads : u \in Gone <=> Host[u] = p
    OBVIOUS
  <1> HIDE DEF Gone
  <1> QED
    BY <1>1, <1>2, <1>3, Left

LEMMA TickInv == ASSUME IInv, Tick PROVE IInv'
  <1>1. clock \in Nat /\ clock' = clock + 1 /\ UNCHANGED <<scans, audit, lock, call, faults>>
    BY DEF IInv, TypeInv, TypeOK, Tick
  <1>2. TypeOK'
    BY <1>1 DEF IInv, TypeInv, TypeOK
  <1>3. LockDiscipline' /\ DepthInv'
    BY <1>1 DEF IInv, TypeInv, LockDiscipline, DepthInv, Inside
  <1>4. StampInv'
    <2> SUFFICES ASSUME NEW t \in Threads
                 PROVE  /\ call[t].at \in {"scanning", "save", "insert", "inserted"} =>
                             call[t].started <= clock'
                        /\ call[t].at \in {"logging", "auditing"} => call[t].ts <= clock'
      BY <1>1 DEF StampInv
    <2> QED
      BY <1>1, ThreadsKnown, CallShape DEF IInv, StampInv
  <1>5. DrawnInv' /\ (Logged \subseteq Stored)'
    BY <1>1 DEF IInv, DrawnInv, Drawn, Stored, Logged
  <1> QED
    BY <1>2, <1>3, <1>4, <1>5 DEF IInv, TypeInv

LEMMA StutterInv == ASSUME IInv, UNCHANGED vars PROVE IInv'
  <1>1. UNCHANGED <<scans, audit, clock, lock, call, faults>>
    BY DEF vars
  <1>2. TypeInv'
    BY <1>1 DEF IInv, TypeInv, TypeOK, LockDiscipline, DepthInv, Inside
  <1>3. StampInv' /\ DrawnInv' /\ (Logged \subseteq Stored)'
    BY <1>1 DEF IInv, StampInv, DrawnInv, Drawn, Stored, Logged
  <1> QED
    BY <1>2, <1>3 DEF IInv

LEMMA StepInv == ASSUME IInv, [Next]_vars PROVE IInv'
  <1>1. CASE Tick
    BY <1>1, TickInv
  <1>2. ASSUME NEW t \in Threads, BeginScan(t) PROVE IInv'
    BY <1>2, BeginScanInv
  <1>3. ASSUME NEW t \in Threads, CallAudit(t) PROVE IInv'
    BY <1>3, CallAuditInv
  <1>4. ASSUME NEW t \in Threads, CallSave(t) PROVE IInv'
    BY <1>4, CallSaveInv
  <1>5. ASSUME NEW t \in Threads, LockSave(t) PROVE IInv'
    BY <1>5, LockSaveInv
  <1>6. ASSUME NEW t \in Threads, InsertScan(t) PROVE IInv'
    BY <1>6, InsertScanInv
  <1>7. ASSUME NEW t \in Threads, LockScanAudit(t) PROVE IInv'
    BY <1>7, LockScanAuditInv
  <1>8. ASSUME NEW t \in Threads, InsertScanAudit(t) \/ InsertAudit(t) PROVE IInv'
    BY <1>8, AuditWritten
  <1>9. ASSUME NEW t \in Threads, LockAudit(t) PROVE IInv'
    BY <1>9, LockAuditInv
  <1>10. ASSUME NEW t \in Threads, Release(t) \/ Raise(t) PROVE IInv'
    BY <1>10, ThreadLeft
  <1>11. ASSUME NEW p \in Processes, Crash(p) PROVE IInv'
    BY <1>11, CrashInv
  <1>12. CASE UNCHANGED vars
    BY <1>12, StutterInv
  <1> QED
    BY <1>1, <1>2, <1>3, <1>4, <1>5, <1>6, <1>7, <1>8, <1>9, <1>10, <1>11, <1>12
       DEF Next, ThreadStep

(* The invariant on which the other theorems rest.                         *)
THEOREM Invariant == Spec => []IInv
  BY InitInv, StepInv, PTL DEF Spec

(* Type correctness of the store (store.py:43-143); the RLock is never     *)
(* more than two deep.                                                     *)
THEOREM TypeCorrect == Spec => []TypeOK
  <1>1. IInv => TypeOK
    BY DEF IInv, TypeInv
  <1> QED
    BY <1>1, Invariant, PTL

(* Mutual exclusion of save() and audit() within a process (store.py:71,   *)
(* 131), and no lock left behind by an exception or a crash.               *)
THEOREM LockSafe == Spec => []LockDiscipline
  <1>1. IInv => LockDiscipline
    BY DEF IInv, TypeInv
  <1> QED
    BY <1>1, Invariant, PTL

-----------------------------------------------------------------------------
(* A step of the store is a step of the ledger, or none.                   *)
LEMMA StepRefines == ASSUME IInv, [Next]_vars PROVE [LedgerNext]_ledger
  <1>1. CASE Tick
    <2>1. clock \in Nat /\ clock' = clock + 1
      BY <1>1, ThreadsKnown DEF Tick, IInv, TypeInv, TypeOK
    <2> QED
      BY <1>1, <2>1 DEF Tick, Elapse, LedgerNext
  <1>2. ASSUME NEW t \in Threads, InsertScan(t) PROVE LedgerNext
    <2>1. /\ call[t].id \in ScanIds \ Stored /\ call[t].started \in 0..clock
          /\ scans' = Append(scans, [id |-> call[t].id, started |-> call[t].started])
          /\ UNCHANGED <<audit, clock>>
      BY <1>2, InsertScanShape DEF InsertScan
    <2>2. Record
      BY <2>1 DEF Record
    <2> QED
      BY <2>2 DEF LedgerNext
  <1>3. ASSUME NEW t \in Threads, InsertScanAudit(t) PROVE LedgerNext
    <2>1. /\ call[t].id \in Stored \ Logged /\ call[t].ts \in 0..clock
          /\ audit' = Append(audit, [ts |-> call[t].ts, action |-> "scan.completed",
                                     about |-> call[t].id])
          /\ UNCHANGED <<scans, clock>>
      BY <1>3, InsertScanAuditShape DEF InsertScanAudit
    <2>2. LogScan
      BY <2>1 DEF LogScan
    <2> QED
      BY <2>2 DEF LedgerNext
  <1>4. ASSUME NEW t \in Threads, InsertAudit(t) PROVE LedgerNext
    <2>1. /\ call[t].action \in Actions /\ call[t].ts \in 0..clock
          /\ audit' = Append(audit, [ts |-> call[t].ts, action |-> call[t].action,
                                     about |-> "-"])
          /\ UNCHANGED <<scans, clock>>
      BY <1>4, InsertAuditShape DEF InsertAudit
    <2>2. LogAction
      BY <2>1 DEF LogAction
    <2> QED
      BY <2>2 DEF LedgerNext
  <1>5. ASSUME NEW t \in Threads,
               \/ BeginScan(t) \/ CallSave(t) \/ LockSave(t) \/ LockScanAudit(t)
               \/ CallAudit(t) \/ LockAudit(t) \/ Release(t) \/ Raise(t)
        PROVE  UNCHANGED ledger
    BY <1>5 DEF BeginScan, CallSave, LockSave, LockScanAudit, CallAudit, LockAudit, Release,
                Raise, ledger
  <1>6. ASSUME NEW p \in Processes, Crash(p) PROVE UNCHANGED ledger
    BY <1>6 DEF Crash, ledger
  <1>7. CASE UNCHANGED vars
    BY <1>7 DEF vars, ledger
  <1> QED
    BY <1>1, <1>2, <1>3, <1>4, <1>5, <1>6, <1>7 DEF Next, ThreadStep

(* The store implements the ledger: threads, the two commits of save(),    *)
(* exceptions and crashes included, the tables change only as Ledger says. *)
THEOREM StoreRefinesLedger == Spec => LedgerSpec
  <1>1. Init => LedgerInit
    BY DEF Init, LedgerInit
  <1> QED
    BY <1>1, Invariant, StepRefines, PTL DEF Spec, LedgerSpec
-----------------------------------------------------------------------------
(* What the tables show over time: the order of the audit log within one   *)
(* process, the scan the dashboard opens on, and the scans the audit log   *)
(* knows nothing of.                                                       *)

(* One process: every thread shares the lock.  What keeps the entries in   *)
(* time order is that a timestamp taken is as late as every entry written. *)
OrderInv ==
  /\ AuditInTimeOrder
  /\ \A i \in DOMAIN audit : audit[i].ts <= clock
  /\ \A t \in Threads : call[t].at \in {"logging", "auditing"} =>
       \A i \in DOMAIN audit : audit[i].ts <= call[t].ts

LEMMA StampsAreNumbers ==
  ASSUME IInv
  PROVE  /\ clock \in Nat /\ \A i \in DOMAIN audit : audit[i].ts \in Nat
         /\ \A t \in Threads : call[t].at \in {"logging", "auditing"} => call[t].ts \in Nat
  <1>1. \A i \in DOMAIN audit : audit[i] \in AuditEntry
    BY ElementOfSeq, LenProperties DEF IInv, TypeInv, TypeOK
  <1>2. \A i \in DOMAIN audit : audit[i].ts \in Nat
    BY <1>1 DEF AuditEntry
  <1> QED
    BY <1>2, ThreadsKnown, CallShape DEF IInv, TypeInv, TypeOK

(* An entry written by t, no earlier than those before it.                 *)
LEMMA EntryInOrder ==
  ASSUME IInv, OrderInv, \A u, v \in Threads : Host[u] = Host[v],
         NEW t \in Threads, call[t].at \in {"logging", "auditing"},
         NEW e \in AuditEntry, e.ts = call[t].ts, audit' = Append(audit, e),
         call' = [call EXCEPT ![t] = [at |-> "release"]], clock' = clock
  PROVE  OrderInv'
  <1>1. audit \in Seq(AuditEntry)
    BY ThreadsKnown
  <1>2. /\ audit' \in Seq(AuditEntry) /\ Len(audit') = Len(audit) + 1
        /\ \A i \in 1..Len(audit) : audit'[i] = audit[i]
        /\ audit'[Len(audit) + 1] = e
    BY <1>1, AppendProperties
  <1>3. /\ DOMAIN audit = 1..Len(audit) /\ Len(audit) \in Nat
        /\ DOMAIN audit' = 1..(Len(audit) + 1)
    BY <1>1, <1>2, LenProperties
  <1>4. \A i \in DOMAIN audit : audit'[i] = audit[i] /\ audit[i].ts <= e.ts
    BY <1>2, <1>3 DEF OrderInv
  <1>5. e.ts <= clock
    BY DEF IInv, StampInv
  <1>6. AuditInTimeOrder'
    <2> SUFFICES ASSUME NEW i \in DOMAIN audit', NEW j \in DOMAIN audit', i < j
                 PROVE  audit'[i].ts <= audit'[j].ts
      BY DEF AuditInTimeOrder
    <2>1. i \in DOMAIN audit
      BY <1>3
    <2>2. CASE j \in DOMAIN audit
      BY <1>4, <2>1, <2>2 DEF OrderInv, AuditInTimeOrder
    <2>3. CASE j = Len(audit) + 1
      BY <1>2, <1>4, <2>1, <2>3
    <2> QED
      BY <1>3, <2>2, <2>3
  <1>7. \A i \in DOMAIN audit' : audit'[i].ts <= clock'
    BY <1>2, <1>3, <1>4, <1>5 DEF OrderInv
  <1>8. \A u \in Threads : call'[u].at \notin {"logging", "auditing"}
    <2> SUFFICES ASSUME NEW u \in Threads
                 PROVE  call'[u].at \notin {"logging", "auditing"}
      OBVIOUS
    <2>1. CASE u = t
      BY <2>1, ThreadsKnown DEF IInv, TypeInv, TypeOK
    <2>2. CASE u # t
      BY <2>2, AloneInside DEF IInv, TypeInv, TypeOK, Inside
    <2> QED
      BY <2>1, <2>2
  <1> QED
    BY <1>6, <1>7, <1>8 DEF OrderInv

LEMMA OrderStep ==
  ASSUME IInv, OrderInv, \A u, v \in Threads : Host[u] = Host[v], [Next]_vars
  PROVE  OrderInv'
  <1> USE DEF OrderInv
  <1>1. CASE Tick
    <2>1. clock' = clock + 1 /\ UNCHANGED <<audit, call>>
      BY <1>1 DEF Tick
    <2> QED
      BY <2>1, StampsAreNumbers DEF AuditInTimeOrder
  <1>2. ASSUME NEW t \in Threads, InsertScanAudit(t) PROVE OrderInv'
    <2> DEFINE e == [ts |-> call[t].ts, action |-> "scan.completed", about |-> call[t].id]
    <2>1. e \in AuditEntry /\ e.ts = call[t].ts
      BY <1>2, InsertScanAuditShape, ThreadsKnown, CallShape DEF AuditEntry, InsertScanAudit
    <2>2. audit' = Append(audit, e)
      BY <1>2 DEF InsertScanAudit
    <2> HIDE DEF e
    <2> QED
      BY <1>2, <2>1, <2>2, EntryInOrder DEF InsertScanAudit
  <1>3. ASSUME NEW t \in Threads, InsertAudit(t) PROVE OrderInv'
    <2> DEFINE e == [ts |-> call[t].ts, action |-> call[t].action, about |-> "-"]
    <2>1. e \in AuditEntry /\ e.ts = call[t].ts
      BY <1>3, InsertAuditShape, ThreadsKnown, CallShape DEF AuditEntry, InsertAudit
    <2>2. audit' = Append(audit, e)
      BY <1>3 DEF InsertAudit
    <2> HIDE DEF e
    <2> QED
      BY <1>3, <2>1, <2>2, EntryInOrder DEF InsertAudit
  <1>4. ASSUME NEW t \in Threads, NEW c, call' = [call EXCEPT ![t] = c],
               c.at \in {"logging", "auditing"} => c.ts = clock,
               UNCHANGED <<audit, clock>>
        PROVE  OrderInv'
    BY <1>4 DEF IInv, TypeInv, TypeOK, AuditInTimeOrder
  <1>5. ASSUME NEW t \in Threads, LockScanAudit(t) \/ LockAudit(t) PROVE OrderInv'
    BY <1>4, <1>5 DEF LockScanAudit, LockAudit
  <1>6. ASSUME NEW t \in Threads,
               \/ BeginScan(t) \/ CallSave(t) \/ LockSave(t) \/ InsertScan(t)
               \/ CallAudit(t) \/ Release(t) \/ Raise(t)
        PROVE  OrderInv'
    BY <1>4, <1>6 DEF BeginScan, CallSave, LockSave, InsertScan, CallAudit, Release, Raise,
                      SaveAt, Idle
  <1>7. ASSUME NEW p \in Processes, Crash(p) PROVE OrderInv'
    BY <1>7 DEF Crash, Idle, AuditInTimeOrder
  <1>8. CASE UNCHANGED vars
    BY <1>8 DEF vars, AuditInTimeOrder
  <1> QED
    BY <1>1, <1>2, <1>3, <1>5, <1>6, <1>7, <1>8 DEF Next, ThreadStep

(* audit() takes the time under the lock (store.py:131-135): when all the  *)
(* threads belong to one process, the entries are in time order.           *)
THEOREM OneProcessInOrder ==
  ASSUME \A u, v \in Threads : Host[u] = Host[v]
  PROVE  Spec => []AuditInTimeOrder
  <1>1. Init => OrderInv
    BY IdleShape DEF Init, OrderInv, AuditInTimeOrder, Idle
  <1>2. IInv /\ OrderInv /\ [Next]_vars => OrderInv'
    BY OrderStep
  <1>3. OrderInv => AuditInTimeOrder
    BY DEF OrderInv
  <1> QED
    BY <1>1, <1>2, <1>3, Invariant, PTL DEF Spec

-----------------------------------------------------------------------------
(* A table that is not empty has a first row in latest()'s order, so that  *)
(* Latest names it.                                                        *)
IsLatest(i) == i \in DOMAIN scans /\ \A j \in DOMAIN scans \ {i} : Before(i, j)

LatestInv == scans # <<>> => \E i \in DOMAIN scans : IsLatest(i)

LEMMA LatestIsLatest ==
  ASSUME LatestInv, scans # <<>>
  PROVE  IsLatest(Latest)
  BY DEF LatestInv, IsLatest, Latest

LEMMA ScansTyped ==
  ASSUME IInv
  PROVE  /\ DOMAIN scans = 1..Len(scans) /\ Len(scans) \in Nat
         /\ \A i \in DOMAIN scans : i \in Nat /\ scans[i].started \in Nat
  <1>1. scans \in Seq(ScanRow)
    BY ThreadsKnown DEF IInv, TypeInv, TypeOK
  <1>2. DOMAIN scans = 1..Len(scans) /\ Len(scans) \in Nat
    BY <1>1, LenProperties
  <1>3. \A i \in DOMAIN scans : scans[i] \in ScanRow
    BY <1>1, ElementOfSeq, <1>2
  <1> QED
    BY <1>2, <1>3 DEF ScanRow

(* The row that is added is the new first one, or the old first one stays; *)
(* either way the first row has not become older.                          *)
LEMMA LatestAfterInsert ==
  ASSUME IInv, LatestInv, NEW t \in Threads, InsertScan(t)
  PROVE  /\ LatestInv'
         /\ scans # <<>> => scans'[Latest'].started >= scans[Latest].started
  <1> DEFINE r == [id |-> call[t].id, started |-> call[t].started]
  <1>1. r \in ScanRow /\ r.started \in Nat
    BY InsertScanShape, ThreadsKnown DEF ScanRow
  <1>2. scans' = Append(scans, r) /\ scans \in Seq(ScanRow)
    BY ThreadsKnown DEF InsertScan
  <1> HIDE DEF r
  <1>0. PICK new \in Nat : new = Len(scans) + 1
    BY ScansTyped
  <1>3. /\ \A i \in DOMAIN scans : scans'[i] = scans[i] /\ i < new
        /\ scans'[new] = r /\ DOMAIN scans' = DOMAIN scans \cup {new}
        /\ scans' # <<>> /\ new \notin DOMAIN scans
    BY <1>0, <1>1, <1>2, AppendProperties, LenProperties, ScansTyped
  <1>4. \A i \in DOMAIN scans : i \in Nat /\ scans[i].started \in Nat
    BY ScansTyped
  <1>5. CASE scans = <<>>
    <2>1. DOMAIN scans = {}
      BY <1>5
    <2>2. IsLatest(new)'
      BY <1>3, <2>1 DEF IsLatest
    <2> QED
      BY <1>3, <1>5, <2>2 DEF LatestInv
  <1>6. CASE scans # <<>>
    <2>1. PICK i \in DOMAIN scans : i = Latest /\ IsLatest(i)
      BY <1>6, LatestIsLatest DEF IsLatest
    <2>2. CASE r.started >= scans[i].started
      <3>1. IsLatest(new)'
        <4> SUFFICES ASSUME NEW j \in DOMAIN scans
                     PROVE  \/ r.started > scans[j].started
                            \/ r.started = scans[j].started /\ new > j
          BY <1>3 DEF IsLatest, Before
        <4>1. scans[i].started >= scans[j].started
          BY <1>4, <2>1 DEF IsLatest, Before
        <4> QED
          BY <1>1, <1>3, <1>4, <2>1, <2>2, <4>1
      <3>2. LatestInv'
        BY <1>3, <3>1 DEF LatestInv
      <3>3. IsLatest(Latest)'
        BY <1>3, <3>2, LatestIsLatest DEF LatestInv, IsLatest, Latest, Before
      <3>4. Latest' = new
        BY <1>1, <1>3, <1>4, <3>1, <3>3 DEF IsLatest, Before
      <3> QED
        BY <1>3, <2>1, <2>2, <3>2, <3>4
    <2>3. CASE r.started < scans[i].started
      <3>1. IsLatest(i)'
        BY <1>3, <2>1, <2>3 DEF IsLatest, Before
      <3>2. LatestInv'
        BY <1>3, <2>1, <3>1 DEF LatestInv
      <3>3. IsLatest(Latest)'
        BY <1>3, <3>2, LatestIsLatest DEF LatestInv, IsLatest, Latest, Before
      <3>4. Latest' = i
        BY <1>1, <1>3, <1>4, <2>1, <3>1, <3>3 DEF IsLatest, Before
      <3> QED
        BY <1>3, <1>4, <2>1, <3>2, <3>4
    <2> QED
      BY <1>1, <1>4, <2>1, <2>2, <2>3
  <1> QED
    BY <1>5, <1>6

LEMMA LatestStep ==
  ASSUME IInv, LatestInv, [Next]_vars
  PROVE  /\ LatestInv'
         /\ [scans # <<>> => scans'[Latest'].started >= scans[Latest].started]_scans
  <1>1. ASSUME NEW t \in Threads, InsertScan(t)
        PROVE  /\ LatestInv'
               /\ scans # <<>> => scans'[Latest'].started >= scans[Latest].started
    BY <1>1, LatestAfterInsert
  <1>2. CASE UNCHANGED scans
    BY <1>2 DEF LatestInv, IsLatest, Before
  <1>3. UNCHANGED scans \/ \E t \in Threads : InsertScan(t)
    BY DEF Next, ThreadStep, Tick, BeginScan, CallSave, LockSave, LockScanAudit, InsertScanAudit,
           CallAudit, LockAudit, InsertAudit, Release, Raise, Crash, vars
  <1> QED
    BY <1>1, <1>2, <1>3

(* latest() orders by start time and then rowid (store.py:94): the scan    *)
(* the dashboard opens on is never replaced by one that started earlier.   *)
THEOREM CurrentOnlyAdvances == Spec => CurrentNeverGoesBack
  <1>1. Init => LatestInv
    BY DEF Init, LatestInv
  <1> QED
    BY <1>1, LatestStep, Invariant, PTL DEF Spec, CurrentNeverGoesBack

-----------------------------------------------------------------------------
(* The scans without an audit entry are finitely many, and counted.        *)
CountInv == IsFiniteSet(Unlogged) /\ UnloggedAccounted

LEMMA SaversFinite ==
  IsFiniteSet(Savers) /\ IsFiniteSet(Savers')
  <1>1. Savers \subseteq Processes /\ Savers' \subseteq Processes
    BY DEF Savers
  <1>2. IsFiniteSet(Processes)
    BY StoreAssumption
  <1> QED
    BY <1>1, <1>2, FS_Subset

(* A step after which nothing more is unlogged, and for which each process *)
(* that is no longer saving is paid for by a fault.                        *)
LEMMA NothingLost ==
  ASSUME IInv, CountInv, Unlogged' = Unlogged,
         \/ faults' = faults /\ Savers' = Savers
         \/ faults' = faults + 1 /\ \E p : Savers \subseteq Savers' \cup {p}
  PROVE  CountInv'
  <1>1. /\ Cardinality(Unlogged) \in Nat /\ faults \in Nat
        /\ Cardinality(Savers) \in Nat /\ Cardinality(Savers') \in Nat
    BY FS_CardinalityType, SaversFinite DEF CountInv, IInv, TypeInv, TypeOK
  <1>2. Cardinality(Unlogged) <= faults + Cardinality(Savers)
    BY DEF CountInv, UnloggedAccounted
  <1>3. CASE faults' = faults /\ Savers' = Savers
    BY <1>3 DEF CountInv, UnloggedAccounted
  <1>4. CASE faults' = faults + 1 /\ \E p : Savers \subseteq Savers' \cup {p}
    <2>1. PICK p : Savers \subseteq Savers' \cup {p}
      BY <1>4
    <2>2. /\ IsFiniteSet(Savers' \cup {p})
          /\ Cardinality(Savers' \cup {p}) <= Cardinality(Savers') + 1
      BY <1>1, FS_AddElement, SaversFinite
    <2>3. Cardinality(Savers) <= Cardinality(Savers' \cup {p})
      BY <2>1, <2>2, FS_Subset
    <2>4. Cardinality(Savers' \cup {p}) \in Nat
      BY <2>2, FS_CardinalityType
    <2>5. Cardinality(Unlogged) <= faults' + Cardinality(Savers')
      BY <1>1, <1>2, <1>4, <2>2, <2>3, <2>4
    <2> QED
      BY <2>5 DEF CountInv, UnloggedAccounted
  <1> QED
    BY <1>3, <1>4

(* How the call of t changing to c changes the set of saving processes.    *)
LEMMA SaversStep ==
  ASSUME IInv, NEW t \in Threads, NEW c, call' = [call EXCEPT ![t] = c],
         (c.at \in {"inserted", "logging"} \/ call[t].at \in {"inserted", "logging"}) => Inside(t)
  PROVE  Savers' = IF c.at \in {"inserted", "logging"} THEN Savers \cup {Host[t]}
                   ELSE IF call[t].at \in {"inserted", "logging"} THEN Savers \ {Host[t]}
                   ELSE Savers
  <1>1. \A u \in Threads : call'[u] = IF u = t THEN c ELSE call[u]
    BY DEF IInv, TypeInv, TypeOK
  <1>2. Host[t] \in Processes
    BY StoreAssumption
  <1>3. \A u \in Threads : call[u].at \in {"inserted", "logging"} => Inside(u)
    BY DEF Inside
  <1>4. ASSUME Inside(t), NEW u \in Threads, u # t, Host[u] = Host[t]
        PROVE  call[u].at \notin {"inserted", "logging"}
    BY <1>3, <1>4, AloneInside DEF IInv, TypeInv
  <1>5. CASE c.at \in {"inserted", "logging"}
    BY <1>1, <1>2, <1>4, <1>5 DEF Savers
  <1>6. CASE c.at \notin {"inserted", "logging"} /\ call[t].at \in {"inserted", "logging"}
    BY <1>1, <1>2, <1>4, <1>6 DEF Savers
  <1>7. CASE c.at \notin {"inserted", "logging"} /\ call[t].at \notin {"inserted", "logging"}
    BY <1>1, <1>7 DEF Savers
  <1> QED
    BY <1>5, <1>6, <1>7

LEMMA CountInsertScan ==
  ASSUME IInv, CountInv, NEW t \in Threads, InsertScan(t)
  PROVE  CountInv'
  <1>1. PICK c : /\ call' = [call EXCEPT ![t] = c] /\ c.at = "inserted" /\ Inside(t)
                 /\ call[t].at = "insert" /\ faults' = faults
    BY DEF InsertScan, Inside, SaveAt
  <1>2. Savers' = Savers \cup {Host[t]}
    BY <1>1, SaversStep
  <1>3. Host[t] \notin Savers
    BY <1>1, AloneInside DEF Savers, IInv, TypeInv, Inside
  <1>4. Unlogged' = Unlogged \cup {call[t].id}
    BY InsertScanShape DEF Unlogged, IInv
  <1>0. IsFiniteSet(Unlogged) /\ Cardinality(Unlogged) \in Nat
    BY FS_CardinalityType DEF CountInv
  <1>5. IsFiniteSet(Unlogged') /\ Cardinality(Unlogged') <= Cardinality(Unlogged) + 1
    BY <1>0, <1>4, FS_AddElement
  <1>6. Cardinality(Savers') = Cardinality(Savers) + 1 /\ Cardinality(Savers) \in Nat
    BY <1>2, <1>3, FS_AddElement, FS_CardinalityType, SaversFinite
  <1>7. faults \in Nat /\ Cardinality(Unlogged') \in Nat
    BY <1>5, FS_CardinalityType DEF IInv, TypeInv, TypeOK
  <1>8. Cardinality(Unlogged') <= faults' + Cardinality(Savers')
    BY <1>0, <1>1, <1>5, <1>6, <1>7 DEF CountInv, UnloggedAccounted
  <1> QED
    BY <1>5, <1>8 DEF CountInv, UnloggedAccounted

LEMMA CountInsertScanAudit ==
  ASSUME IInv, CountInv, NEW t \in Threads, InsertScanAudit(t)
  PROVE  CountInv'
  <1>1. PICK c : /\ call' = [call EXCEPT ![t] = c] /\ c.at = "release" /\ Inside(t)
                 /\ call[t].at = "logging" /\ faults' = faults
    BY DEF InsertScanAudit, Inside
  <1>2. Savers' = Savers \ {Host[t]}
    BY <1>1, SaversStep
  <1>3. Host[t] \in Savers
    BY <1>1, StoreAssumption DEF Savers
  <1>4. Unlogged' = Unlogged \ {call[t].id} /\ call[t].id \in Unlogged
    BY InsertScanAuditShape DEF Unlogged
  <1>5. /\ IsFiniteSet(Unlogged') /\ Cardinality(Unlogged') = Cardinality(Unlogged) - 1
        /\ Cardinality(Unlogged) \in Nat
    BY <1>4, FS_RemoveElement, FS_CardinalityType DEF CountInv
  <1>6. Cardinality(Savers') = Cardinality(Savers) - 1 /\ Cardinality(Savers) \in Nat
    BY <1>2, <1>3, FS_RemoveElement, FS_CardinalityType, SaversFinite
  <1>7. faults \in Nat
    BY DEF IInv, TypeInv, TypeOK
  <1>8. Cardinality(Unlogged') <= faults' + Cardinality(Savers')
    BY <1>1, <1>5, <1>6, <1>7 DEF CountInv, UnloggedAccounted
  <1> QED
    BY <1>5, <1>8 DEF CountInv, UnloggedAccounted

LEMMA CountStep ==
  ASSUME IInv, CountInv, [Next]_vars
  PROVE  CountInv'
  <1>1. ASSUME NEW t \in Threads, InsertScan(t) PROVE CountInv'
    BY <1>1, CountInsertScan
  <1>2. ASSUME NEW t \in Threads, InsertScanAudit(t) PROVE CountInv'
    BY <1>2, CountInsertScanAudit
  <1>3. ASSUME NEW t \in Threads, InsertAudit(t) PROVE CountInv'
    <2>1. Unlogged' = Unlogged
      BY <1>3, InsertAuditShape DEF Unlogged
    <2>2. PICK c : call' = [call EXCEPT ![t] = c] /\ c.at = "release" /\ call[t].at = "auditing"
      BY <1>3 DEF InsertAudit
    <2>3. Savers' = Savers
      BY <2>2, SaversStep
    <2> QED
      BY <1>3, <2>1, <2>3, NothingLost DEF InsertAudit
  <1>4. ASSUME UNCHANGED <<scans, audit>> PROVE Unlogged' = Unlogged
    BY <1>4 DEF Unlogged, Stored, Logged
  <1>5. ASSUME NEW t \in Threads,
               \/ BeginScan(t) \/ CallSave(t) \/ LockSave(t)
               \/ CallAudit(t) \/ LockAudit(t) \/ Release(t)
        PROVE  CountInv'
    <2>1. PICK c : /\ call' = [call EXCEPT ![t] = c] /\ c.at \notin {"inserted", "logging"}
                   /\ call[t].at \notin {"inserted", "logging"}
      BY <1>5 DEF BeginScan, CallSave, LockSave, CallAudit, LockAudit, Release, SaveAt, Idle
    <2>2. UNCHANGED <<scans, audit>> /\ faults' = faults
      BY <1>5 DEF BeginScan, CallSave, LockSave, CallAudit, LockAudit, Release
    <2>3. Savers' = Savers
      BY <2>1, SaversStep
    <2> QED
      BY <1>4, <2>2, <2>3, NothingLost
  <1>6. ASSUME NEW t \in Threads, LockScanAudit(t) PROVE CountInv'
    <2>1. PICK c :
          /\ call' = [call EXCEPT ![t] = c] /\ c.at = "logging"
          /\ call[t].at = "inserted" /\ UNCHANGED <<scans, audit>> /\ faults' = faults
          /\ Inside(t)
      BY <1>6 DEF LockScanAudit, Inside
    <2>2. Savers' = Savers \cup {Host[t]}
      BY <2>1, SaversStep
    <2>3. Host[t] \in Savers
      BY <2>1, StoreAssumption DEF Savers
    <2>4. Savers' = Savers
      BY <2>2, <2>3
    <2> QED
      BY <1>4, <2>1, <2>4, NothingLost
  <1>7. ASSUME NEW t \in Threads, Raise(t) PROVE CountInv'
    <2>1. /\ call' = [call EXCEPT ![t] = Idle] /\ UNCHANGED <<scans, audit>>
          /\ faults' = faults + 1 /\ Inside(t)
      BY <1>7 DEF Raise, Inside
    <2>2. Savers \subseteq Savers' \cup {Host[t]}
      BY <2>1, SaversStep DEF Idle
    <2> QED
      BY <1>4, <2>1, <2>2, NothingLost
  <1>8. ASSUME NEW p \in Processes, Crash(p) PROVE CountInv'
    <2>1. /\ call' = [t \in Threads |-> IF Host[t] = p THEN Idle ELSE call[t]]
          /\ UNCHANGED <<scans, audit>> /\ faults' = faults + 1
      BY <1>8 DEF Crash
    <2>2. Savers \subseteq Savers' \cup {p}
      BY <2>1 DEF Savers
    <2> QED
      BY <1>4, <2>1, <2>2, NothingLost
  <1>9. CASE Tick \/ UNCHANGED vars
    <2>1. UNCHANGED <<scans, audit, call, faults>>
      BY <1>9 DEF Tick, vars
    <2>2. Savers' = Savers
      BY <2>1 DEF Savers
    <2> QED
      BY <1>4, <2>1, <2>2, NothingLost
  <1> QED
    BY <1>1, <1>2, <1>3, <1>5, <1>6, <1>7, <1>8, <1>9 DEF Next, ThreadStep

(* save() commits twice (store.py:79, 136): of the scans stored, the audit *)
(* log misses at most one per fault and one per process saving now.        *)
THEOREM LossIsBounded == Spec => []UnloggedAccounted
  <1>1. Init => CountInv
    <2> SUFFICES ASSUME Init PROVE CountInv
      OBVIOUS
    <2>1. Unlogged = {} /\ faults = 0
      BY DEF Init, Unlogged, Stored
    <2>2. IsFiniteSet(Unlogged) /\ Cardinality(Unlogged) = 0
      BY <2>1, FS_EmptySet
    <2>3. Cardinality(Savers) \in Nat
      BY SaversFinite, FS_CardinalityType
    <2> QED
      BY <2>1, <2>2, <2>3 DEF CountInv, UnloggedAccounted
  <1>2. CountInv => UnloggedAccounted
    BY DEF CountInv
  <1> QED
    BY <1>1, <1>2, CountStep, Invariant, PTL DEF Spec
=============================================================================
