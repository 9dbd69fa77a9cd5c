----------------------------- MODULE ProjectLock -----------------------------
(***************************************************************************)
(* The exclusive lock of one .aidub project directory                      *)
(* (infrastructure/locking/project_lock.py).  Three things decide who owns *)
(* the project:                                                            *)
(*                                                                         *)
(*   owners  the table _PROCESS_OWNERS of each process: one reservation    *)
(*           per project, taken before the gate file is opened;            *)
(*   gate    the advisory lock of the operating system on .aidub.lock;     *)
(*   record  the file .aidub.lock.json, naming the owner by its nonce.     *)
(*                                                                         *)
(* The first two vanish with a process, the third stays.  Every object of  *)
(* class ProjectLock is used by one thread at a time, so an element of     *)
(* Locks is an object together with the thread that calls it.  A step is   *)
(* one call that another process or thread can observe.                    *)
(***************************************************************************)
EXTENDS FiniteSets

CONSTANTS
    Procs,      \* operating-system processes
    Locks,      \* ProjectLock objects
    ProcOf,     \* the process each object lives in
    Nonces,     \* what secrets.token_hex(16) may return: no value comes twice
    MayTamper,  \* whether foreign software may touch the record file
    None,       \* no owner, no record, no nonce
    Garbage     \* a record file that _record_from_payload rejects

ASSUME LockConstants ==
    /\ ProcOf \in [Locks -> Procs]
    /\ Locks \cap Nonces = {}
    /\ None \notin Locks \cup Nonces \cup {Garbage}
    /\ Garbage \notin Nonces
    /\ MayTamper \in BOOLEAN

VARIABLES
    owners,     \* owners[p]: _PROCESS_OWNERS[key] in process p
    gate,       \* the object whose open stream holds the OS lock
    record,     \* contents of .aidub.lock.json
    mine,       \* mine[l]: l._record (set and cleared together with _stream)
    pc,         \* pc[l]: the call l is in and how far it got
    token,      \* token[l]: what the call put into the process table
    want,       \* want[l]: break_lock's expected_nonce
    seen,       \* seen[l]: the record inspect() read before it tried the gate
    published,  \* nonces that have been written to a record
    audited,    \* nonces whose break the audit callback has recorded
    disturbed   \* a process died, a file-system call failed half-way or
                \* foreign software touched the record

vars == <<owners, gate, record, mine, pc, token, want, seen,
          published, audited, disturbed>>

AcquireSites == {"acq_gate", "acq_read", "acq_write", "acq_sync"}
ReleaseSites == {"rel_unlink", "rel_unlock", "rel_clear"}
InspectSites == {"ins_read", "ins_reserve", "ins_gate", "ins_verdict"}
BreakSites   == {"brk_gate", "brk_read", "brk_audit", "brk_reread", "brk_unlink"}
Sites == {"idle", "unlock", "unreserve"} \cup AcquireSites \cup ReleaseSites
            \cup InspectSites \cup BreakSites

(* Between these points a call has the OS lock, by itself. *)
AtGate == {"acq_read", "acq_write", "acq_sync", "ins_verdict",
           "brk_read", "brk_audit", "brk_reread", "brk_unlink", "unlock"}

Goto(l, site) == pc' = [pc EXCEPT ![l] = site]

Init ==
    /\ owners = [p \in Procs |-> None]
    /\ gate = None
    /\ record = None
    /\ mine = [l \in Locks |-> None]
    /\ pc = [l \in Locks |-> "idle"]
    /\ token = [l \in Locks |-> None]
    /\ want = [l \in Locks |-> None]
    /\ seen = [l \in Locks |-> None]
    /\ published = {}
    /\ audited = {}
    /\ disturbed = FALSE

-----------------------------------------------------------------------------
(* Helpers shared by the operations. *)

\* Mutant: a second object of the process takes the entry over.
ReserveOver(l, owner) == owners' = [owners EXCEPT ![ProcOf[l]] = owner]

\* _reserve_process: one owner or reservation per project and process.
Reserve(l, owner) ==
    /\ owners[ProcOf[l]] = None
    /\ owners' = [owners EXCEPT ![ProcOf[l]] = owner]

\* _unreserve_process: only the entry this call made is taken out.
Unreserve(l, owner) ==
    owners' = IF owners[ProcOf[l]] = owner
              THEN [owners EXCEPT ![ProcOf[l]] = None]
              ELSE owners

\* Mutant: the answer of the OS lock is not looked at.
TryGateBlind(l, next) == gate' = l /\ Goto(l, next)

\* _open_gate and _try_os_lock: either l gets the free gate and goes on, or
\* the open fails or finds the gate taken and the call backs out.
TryGate(l, next) ==
    \/ /\ gate = None
       /\ gate' = l
       /\ Goto(l, next)
    \/ /\ gate' = gate
       /\ Goto(l, "unreserve")

\* The way out of acquire (on an exception), inspect and break_lock: first
\* the OS lock goes, later the entry in the process table.
Unlock(l) ==
    /\ pc[l] \in {"unlock", "ins_verdict"}
    /\ gate' = None
    /\ Goto(l, "unreserve")
    /\ UNCHANGED <<owners, record, mine, token, want, seen, published,
                   audited, disturbed>>

Return(l) ==
    /\ pc[l] = "unreserve"
    /\ Unreserve(l, token[l])
    /\ Goto(l, "idle")
    /\ token' = [token EXCEPT ![l] = None]
    /\ want' = [want EXCEPT ![l] = None]
    /\ seen' = [seen EXCEPT ![l] = None]
    /\ UNCHANGED <<gate, record, mine, published, audited, disturbed>>

-----------------------------------------------------------------------------
(* acquire(): never waits, never takes an existing record over.  A call on *)
(* an object that already holds the lock returns its record at once, and a *)
(* call that finds the process table taken raises LockContendedError: both *)
(* leave the state alone.  A nonce that was never published has left no    *)
(* trace, so a later call may draw it again.                               *)

AcquireReserve(l) ==
    /\ pc[l] = "idle"
    /\ mine[l] = None
    /\ \E n \in Nonces \ (published \cup {token[m] : m \in Locks}) :
        /\ Reserve(l, n)
        /\ token' = [token EXCEPT ![l] = n]
    /\ Goto(l, "acq_gate")
    /\ UNCHANGED <<gate, record, mine, want, seen, published, audited, disturbed>>

AcquireGate(l) ==
    /\ pc[l] = "acq_gate"
    /\ TryGate(l, "acq_read")
    /\ UNCHANGED <<owners, record, mine, token, want, seen, published,
                   audited, disturbed>>

\* Mutant: an orphan record is taken over without a break.
AcquireReadTakeover(l) ==
    /\ pc[l] = "acq_read"
    /\ Goto(l, "acq_write")
    /\ UNCHANGED <<owners, gate, record, mine, token, want, seen, published,
                   audited, disturbed>>

\* Any record, even an unreadable one, belongs to somebody else: raise.
AcquireRead(l) ==
    /\ pc[l] = "acq_read"
    /\ Goto(l, IF record = None THEN "acq_write" ELSE "unlock")
    /\ UNCHANGED <<owners, gate, record, mine, token, want, seen,
                   published, audited, disturbed>>

\* _write_record_atomic up to the replace, or a failure before it.
AcquireWrite(l) ==
    /\ pc[l] = "acq_write"
    /\ \/ /\ record' = token[l]
          /\ published' = published \cup {token[l]}
          /\ Goto(l, "acq_sync")
       \/ /\ UNCHANGED <<record, published>>
          /\ Goto(l, "unlock")
    /\ UNCHANGED <<owners, gate, mine, token, want, seen, audited, disturbed>>

\* Mutant: the cleanup after a failed directory sync forgets the OS lock.
AcquireSyncNoUnlock(l) ==
    /\ pc[l] = "acq_sync"
    /\ Goto(l, "unreserve")
    /\ disturbed' = TRUE
    /\ UNCHANGED <<owners, gate, record, mine, token, want, seen, published, audited>>

\* _fsync_directory after the replace.  If it raises, the cleanup gives up
\* the gate and the reservation but the record is already on disk.
AcquireSync(l) ==
    /\ pc[l] = "acq_sync"
    /\ \/ /\ mine' = [mine EXCEPT ![l] = token[l]]
          /\ token' = [token EXCEPT ![l] = None]
          /\ Goto(l, "idle")
          /\ disturbed' = disturbed
       \/ /\ Goto(l, "unlock")
          /\ disturbed' = TRUE
          /\ UNCHANGED <<mine, token>>
    /\ UNCHANGED <<owners, gate, record, want, seen, published, audited>>

-----------------------------------------------------------------------------
(* release(): removes the record only if it still carries this owner's     *)
(* nonce, and gives the OS lock and the reservation up in any case.        *)

\* Mutant: release gives the lock back and leaves its record.
ReleaseReadOnly(l) ==
    /\ pc[l] = "idle"
    /\ mine[l] # None
    /\ Goto(l, "rel_unlock")
    /\ UNCHANGED <<owners, gate, record, mine, token, want, seen, published,
                   audited, disturbed>>

ReleaseRead(l) ==
    /\ pc[l] = "idle"
    /\ mine[l] # None
    /\ Goto(l, IF record = mine[l] THEN "rel_unlink" ELSE "rel_unlock")
    /\ UNCHANGED <<owners, gate, record, mine, token, want, seen,
                   published, audited, disturbed>>

ReleaseUnlink(l) ==
    /\ pc[l] = "rel_unlink"
    /\ \/ record' = None /\ disturbed' = disturbed
       \/ record' = record /\ disturbed' = TRUE
    /\ Goto(l, "rel_unlock")
    /\ UNCHANGED <<owners, gate, mine, token, want, seen, published, audited>>

ReleaseUnlock(l) ==
    /\ pc[l] = "rel_unlock"
    /\ gate' = None
    /\ Goto(l, "rel_clear")
    /\ UNCHANGED <<owners, record, mine, token, want, seen, published,
                   audited, disturbed>>

ReleaseClear(l) ==
    /\ pc[l] = "rel_clear"
    /\ Unreserve(l, mine[l])
    /\ mine' = [mine EXCEPT ![l] = None]
    /\ Goto(l, "idle")
    /\ UNCHANGED <<gate, record, token, want, seen, published, audited, disturbed>>

-----------------------------------------------------------------------------
(* inspect(): reads the record before it looks at the table and the gate. *)
(* It returns INVALID for a record it cannot parse, HELD when the table or *)
(* the gate is taken, and otherwise, at ins_verdict, ORPHANED or UNLOCKED  *)
(* by the record it has seen, which may be gone by then.  Its answer is    *)
(* not kept; what it does is to occupy the table and the gate meanwhile.   *)

\* _read_record, the lstat: a missing file is no record.
InspectStat(l) ==
    /\ pc[l] = "idle"
    /\ Goto(l, IF record = None THEN "ins_reserve" ELSE "ins_read")
    /\ UNCHANGED <<owners, gate, record, mine, token, want, seen, published,
                   audited, disturbed>>

\* Mutant: whatever the file holds is taken for a record.
InspectReadUnparsed(l) ==
    /\ pc[l] = "ins_read"
    /\ seen' = [seen EXCEPT ![l] = record]
    /\ Goto(l, "ins_reserve")
    /\ UNCHANGED <<owners, gate, record, mine, token, want, published,
                   audited, disturbed>>

\* _read_record, the read: a file that is gone by now cannot be parsed.
InspectRead(l) ==
    /\ pc[l] = "ins_read"
    /\ \/ /\ record \in Nonces
          /\ seen' = [seen EXCEPT ![l] = record]
          /\ Goto(l, "ins_reserve")
       \/ /\ record \notin Nonces
          /\ seen' = seen
          /\ Goto(l, "idle")
    /\ UNCHANGED <<owners, gate, record, mine, token, want, published,
                   audited, disturbed>>

InspectReserve(l) ==
    /\ pc[l] = "ins_reserve"
    /\ \/ /\ Reserve(l, l)
          /\ token' = [token EXCEPT ![l] = l]
          /\ Goto(l, "ins_gate")
          /\ seen' = seen
       \/ /\ owners[ProcOf[l]] # None
          /\ seen' = [seen EXCEPT ![l] = None]
          /\ Goto(l, "idle")
          /\ UNCHANGED <<owners, token>>
    /\ UNCHANGED <<gate, record, mine, want, published, audited, disturbed>>

InspectGate(l) ==
    /\ pc[l] = "ins_gate"
    /\ TryGate(l, "ins_verdict")
    /\ UNCHANGED <<owners, record, mine, token, want, seen, published,
                   audited, disturbed>>

-----------------------------------------------------------------------------
(* break_lock(expected_nonce, reason, audit_callback): an operator removes *)
(* an orphan, with a nonce some earlier inspection showed.                 *)

BreakReserve(l) ==
    /\ pc[l] = "idle"
    /\ Reserve(l, l)
    /\ token' = [token EXCEPT ![l] = l]
    /\ \E n \in published : want' = [want EXCEPT ![l] = n]
    /\ Goto(l, "brk_gate")
    /\ UNCHANGED <<gate, record, mine, seen, published, audited, disturbed>>

BreakGate(l) ==
    /\ pc[l] = "brk_gate"
    /\ TryGate(l, "brk_read")
    /\ UNCHANGED <<owners, record, mine, token, want, seen, published,
                   audited, disturbed>>

BreakRead(l) ==
    /\ pc[l] = "brk_read"
    /\ Goto(l, IF record = want[l] THEN "brk_audit" ELSE "unlock")
    /\ UNCHANGED <<owners, gate, record, mine, token, want, seen,
                   published, audited, disturbed>>

\* Mutant: the break goes on when the audit callback fails.
BreakAuditIgnored(l) ==
    /\ pc[l] = "brk_audit"
    /\ audited' \in {audited, audited \cup {want[l]}}
    /\ Goto(l, "brk_reread")
    /\ UNCHANGED <<owners, gate, record, mine, token, want, seen, published, disturbed>>

\* The callback must record the event; if it raises, nothing is removed.
BreakAudit(l) ==
    /\ pc[l] = "brk_audit"
    /\ \/ /\ audited' = audited \cup {want[l]}
          /\ Goto(l, "brk_reread")
       \/ /\ audited' = audited
          /\ Goto(l, "unlock")
    /\ UNCHANGED <<owners, gate, record, mine, token, want, seen,
                   published, disturbed>>

BreakReread(l) ==
    /\ pc[l] = "brk_reread"
    /\ Goto(l, IF record = want[l] THEN "brk_unlink" ELSE "unlock")
    /\ UNCHANGED <<owners, gate, record, mine, token, want, seen,
                   published, audited, disturbed>>

BreakUnlink(l) ==
    /\ pc[l] = "brk_unlink"
    /\ record' \in {None, record}
    /\ Goto(l, "unlock")
    /\ UNCHANGED <<owners, gate, mine, token, want, seen, published,
                   audited, disturbed>>

-----------------------------------------------------------------------------
(* The environment. *)

\* A process dies at any point: its descriptors close, so the OS frees the
\* gate, and its table is gone.  The files stay.
Crash(p) ==
    LET dead == {l \in Locks : ProcOf[l] = p}
        Wiped(f, v) == [l \in Locks |-> IF l \in dead THEN v ELSE f[l]]
    IN  /\ owners' = [owners EXCEPT ![p] = None]
        /\ gate' = IF gate \in dead THEN None ELSE gate
        /\ mine' = Wiped(mine, None)
        /\ pc' = Wiped(pc, "idle")
        /\ token' = Wiped(token, None)
        /\ want' = Wiped(want, None)
        /\ seen' = Wiped(seen, None)
        /\ disturbed' = TRUE
        /\ UNCHANGED <<record, published, audited>>

\* Software that ignores the protocol damages or deletes the record file.
Tamper ==
    /\ MayTamper
    /\ record # None
    /\ record' \in {None, Garbage} \ {record}
    /\ disturbed' = TRUE
    /\ UNCHANGED <<owners, gate, mine, pc, token, want, seen, published, audited>>

LockStep(l) ==
    \/ Unlock(l) \/ Return(l)
    \/ AcquireReserve(l) \/ AcquireGate(l) \/ AcquireRead(l)
    \/ AcquireWrite(l) \/ AcquireSync(l)
    \/ ReleaseRead(l) \/ ReleaseUnlink(l) \/ ReleaseUnlock(l) \/ ReleaseClear(l)
    \/ InspectStat(l) \/ InspectRead(l) \/ InspectReserve(l)
    \/ InspectGate(l)
    \/ BreakReserve(l) \/ BreakGate(l) \/ BreakRead(l) \/ BreakAudit(l)
    \/ BreakReread(l) \/ BreakUnlink(l)

Next ==
    \/ \E l \in Locks : LockStep(l)
    \/ \E p \in Procs : Crash(p)
    \/ Tamper

Spec == Init /\ [][Next]_vars

-----------------------------------------------------------------------------
(* What the lock promises. *)

TypeOK ==
    /\ owners \in [Procs -> Nonces \cup Locks \cup {None}]
    /\ gate \in Locks \cup {None}
    /\ record \in Nonces \cup {None, Garbage}
    /\ mine \in [Locks -> Nonces \cup {None}]
    /\ pc \in [Locks -> Sites]
    /\ token \in [Locks -> Nonces \cup Locks \cup {None}]
    /\ want \in [Locks -> Nonces \cup {None}]
    /\ seen \in [Locks -> Nonces \cup {None}]
    /\ published \subseteq Nonces
    /\ audited \subseteq Nonces
    /\ disturbed \in BOOLEAN

\* l owns the project: acquire() returned and release() has not yet given
\* the OS lock back.
Owns(l) == mine[l] # None /\ pc[l] # "rel_clear"

\* Two objects never own the project at once, in one process or in two,
\* whatever crashes, failed file-system calls, inspections, breaks and
\* damaged records happen in between (acquire, l.296-327).
MutualExclusion == \A l, m \in Locks : Owns(l) /\ Owns(m) => l = m

\* While somebody owns the project, nobody else is past the gate: no other
\* acquire, inspect or break_lock is between its OS lock and its unlock, so
\* only the owner touches the record ("An operating-system lock is never
\* stolen", l.444).
OwnerHasGate ==
    \A l \in Locks : Owns(l) =>
        /\ gate = l
        /\ owners[ProcOf[l]] = mine[l]
        /\ \A m \in Locks : pc[m] \notin AtGate

\* A record nobody owns is the trace of a crash, of a file-system call that
\* failed or of foreign software; no interleaving of complete calls leaves
\* one (release, l.345-377, and the cleanup of acquire).
OrphanHasCause ==
    disturbed = FALSE /\ record # None =>
        \E l \in Locks : record = mine[l] \/ (pc[l] = "acq_sync" /\ record = token[l])

\* ADR-007: a failed cleanup leaves a record to recover, never "a leaked
\* live lock": the gate and the table entries belong to a call in progress
\* or to an owner (the finally clauses of release, inspect and break_lock).
NoLeakedLock ==
    /\ gate # None => Owns(gate) \/ pc[gate] \in AtGate
    /\ \A p \in Procs : owners[p] # None =>
          \E l \in Locks : ProcOf[l] = p /\ owners[p] \in {mine[l], token[l]}

\* Nobody but the owner, in release(), or an audited break while nobody
\* owns the project, removes or replaces a published record; foreign
\* software is the step that moves no call.
RemovalAuthorised ==
    [][\A n \in Nonces : record = n /\ record' # n =>
         \/ \E l \in Locks : mine[l] = n /\ pc[l] = "rel_unlink"
         \/ n \in audited /\ \A l \in Locks : ~Owns(l)
         \/ UNCHANGED pc]_vars

\* The promise of module ProjectOwnership.  The owner begins at the replace
\* that publishes its record and ends when the gate is given back.
Ownership == INSTANCE ProjectOwnership WITH
    MayMeddle <- MayTamper, calls <- pc,
    owner <- IF gate # None /\ (Owns(gate) \/ pc[gate] = "acq_sync")
             THEN gate ELSE None

\* Every step of the protocol is a step of the promise, or changes nothing
\* of it (the whole module).
ImplementsOwnership == Ownership!Spec
=============================================================================
