-------------------------- MODULE ProjectLockProofs --------------------------
(***************************************************************************)
(* Machine-checked facts about module ProjectLock, for any set of          *)
(* processes, lock objects and nonces.                                     *)
(***************************************************************************)
EXTENDS ProjectLock, TLAPS

(* A call that has put something into its process's table and not yet      *)
(* taken it out again.                                                     *)
Reserved == {"acq_gate", "acq_read", "acq_write", "acq_sync", "ins_gate",
             "ins_verdict", "brk_gate", "brk_read", "brk_audit", "brk_reread",
             "brk_unlink", "unlock", "unreserve"}

Engaged(l) == mine[l] # None \/ token[l] # None

(* The position of a call tells what its object holds. *)
CallInv ==
    \A l \in Locks :
        /\ pc[l] \in Reserved <=> token[l] # None
        /\ pc[l] \in ReleaseSites => mine[l] # None
        /\ mine[l] # None => token[l] = None
        /\ token[l] \in Nonces \cup {l, None}
        /\ pc[l] \in AcquireSites => token[l] \in Nonces
        /\ pc[l] \in BreakSites => want[l] \in Nonces

(* The process table: an engaged object has the entry, so there is at most *)
(* one per process, and no entry is left without one.                      *)
TableInv ==
    /\ \A l \in Locks : mine[l] # None => owners[ProcOf[l]] = mine[l]
    /\ \A l \in Locks : token[l] # None => owners[ProcOf[l]] = token[l]
    /\ \A l, m \in Locks :
        ProcOf[l] = ProcOf[m] /\ Engaged(l) /\ Engaged(m) => l = m
    /\ \A p \in Procs : owners[p] # None =>
        \E l \in Locks : ProcOf[l] = p /\ Engaged(l)

(* The OS lock: the owner has it, or a call that is past it. *)
GateInv ==
    /\ \A l \in Locks : Owns(l) \/ pc[l] \in AtGate => gate = l
    /\ gate # None => Owns(gate) \/ pc[gate] \in AtGate

(* What may be in the record file while a call is about to change it. *)
RecordInv ==
    \A l \in Locks :
        /\ pc[l] = "acq_write" => record = None
        /\ pc[l] = "rel_unlink" => record \in {mine[l], None, Garbage}
        /\ pc[l] = "brk_unlink" => record \in {want[l], None, Garbage}
        /\ pc[l] \in {"brk_reread", "brk_unlink"} => want[l] \in audited

(* An undisturbed owner finds its own nonce, which nobody publishes again. *)
NonceInv ==
    /\ record \in Nonces => record \in published
    /\ \A l \in Locks : mine[l] # None => mine[l] \in published
    /\ \A l \in Locks :
        pc[l] \in {"acq_gate", "acq_read", "acq_write"} => token[l] \notin published
    /\ \A l \in Locks : pc[l] = "acq_sync" => token[l] \in published
    /\ \A l, m \in Locks : l # m /\ token[l] # None => token[l] # token[m]

CauseInv ==
    ~disturbed =>
        /\ \A l \in Locks : pc[l] = "acq_sync" => record = token[l]
        /\ \A l \in Locks : mine[l] # None =>
             IF pc[l] \in {"rel_unlock", "rel_clear"}
             THEN record # mine[l] ELSE record = mine[l]
        /\ OrphanHasCause

(* A break is called for a record that was published. *)
BreakInv ==
    \A l \in Locks : pc[l] \in BreakSites => want[l] \in published

IInv == TypeOK /\ CallInv /\ TableInv /\ GateInv /\ RecordInv /\ NonceInv /\ CauseInv
            /\ BreakInv

(* Every step keeps every variable in its range. *)
LEMMA TypeStep ==
    ASSUME TypeOK, CallInv, [Next]_vars
    PROVE  TypeOK'
PROOF
<1> USE LockConstants DEF TypeOK, Sites, AcquireSites, ReleaseSites,
     InspectSites, BreakSites
<1>1. ASSUME NEW l \in Locks, Unlock(l) PROVE TypeOK'
  BY <1>1 DEF Unlock, Goto
<1>2. ASSUME NEW l \in Locks, Return(l) PROVE TypeOK'
  BY <1>2 DEF Return, Goto, Unreserve
<1>3. ASSUME NEW l \in Locks, AcquireReserve(l) PROVE TypeOK'
  BY <1>3 DEF AcquireReserve, Goto, Reserve
<1>4. ASSUME NEW l \in Locks, AcquireGate(l) PROVE TypeOK'
  BY <1>4 DEF AcquireGate, Goto, TryGate
<1>5. ASSUME NEW l \in Locks, AcquireRead(l) PROVE TypeOK'
  BY <1>5 DEF AcquireRead, Goto
<1>6. ASSUME NEW l \in Locks, AcquireWrite(l) PROVE TypeOK'
  BY <1>6 DEF AcquireWrite, Goto, CallInv
<1>7. ASSUME NEW l \in Locks, AcquireSync(l) PROVE TypeOK'
  <2>1. token[l] \in Nonces
    BY <1>7 DEF AcquireSync, CallInv
  <2>2. mine' \in [Locks -> Nonces \cup {None}]
    BY <1>7, <2>1 DEF AcquireSync
  <2>3. token' \in [Locks -> Nonces \cup Locks \cup {None}]
    BY <1>7 DEF AcquireSync
  <2>4. pc' \in [Locks -> Sites] /\ disturbed' \in BOOLEAN
    BY <1>7 DEF AcquireSync, Goto
  <2> QED
    BY <1>7, <2>2, <2>3, <2>4 DEF AcquireSync
<1>8. ASSUME NEW l \in Locks, ReleaseRead(l) PROVE TypeOK'
  BY <1>8 DEF ReleaseRead, Goto
<1>9. ASSUME NEW l \in Locks, ReleaseUnlink(l) PROVE TypeOK'
  BY <1>9 DEF ReleaseUnlink, Goto
<1>10. ASSUME NEW l \in Locks, ReleaseUnlock(l) PROVE TypeOK'
  BY <1>10 DEF ReleaseUnlock, Goto
<1>11. ASSUME NEW l \in Locks, ReleaseClear(l) PROVE TypeOK'
  BY <1>11 DEF ReleaseClear, Goto, Unreserve
<1>12. ASSUME NEW l \in Locks, InspectStat(l) PROVE TypeOK'
  BY <1>12 DEF InspectStat, Goto
<1>13. ASSUME NEW l \in Locks, InspectRead(l) PROVE TypeOK'
  BY <1>13 DEF InspectRead, Goto
<1>14. ASSUME NEW l \in Locks, InspectReserve(l) PROVE TypeOK'
  BY <1>14 DEF InspectReserve, Goto, Reserve
<1>15. ASSUME NEW l \in Locks, InspectGate(l) PROVE TypeOK'
  BY <1>15 DEF InspectGate, Goto, TryGate
<1>16. ASSUME NEW l \in Locks, BreakReserve(l) PROVE TypeOK'
  BY <1>16 DEF BreakReserve, Goto, Reserve
<1>17. ASSUME NEW l \in Locks, BreakGate(l) PROVE TypeOK'
  BY <1>17 DEF BreakGate, Goto, TryGate
<1>18. ASSUME NEW l \in Locks, BreakRead(l) PROVE TypeOK'
  BY <1>18 DEF BreakRead, Goto
<1>19. ASSUME NEW l \in Locks, BreakAudit(l) PROVE TypeOK'
  BY <1>19 DEF BreakAudit, Goto, CallInv
<1>20. ASSUME NEW l \in Locks, BreakReread(l) PROVE TypeOK'
  BY <1>20 DEF BreakReread, Goto
<1>21. ASSUME NEW l \in Locks, BreakUnlink(l) PROVE TypeOK'
  BY <1>21 DEF BreakUnlink, Goto
<1>22. ASSUME NEW p \in Procs, Crash(p) PROVE TypeOK'
  BY <1>22 DEF Crash
<1>23. CASE Tamper
  BY <1>23 DEF Tamper
<1>24. CASE UNCHANGED vars
  BY <1>24 DEF vars
<1> QED
  BY <1>1, <1>2, <1>3, <1>4, <1>5, <1>6, <1>7, <1>8, <1>9, <1>10, <1>11,
       <1>12, <1>13, <1>14, <1>15, <1>16, <1>17, <1>18, <1>19, <1>20, <1>21,
       <1>22, <1>23, <1>24 DEF Next, LockStep

(* Every step keeps what a call holds in line with how far it got. *)
LEMMA CallStep ==
    ASSUME TypeOK, CallInv, TableInv, [Next]_vars
    PROVE  CallInv'
PROOF
<1> USE LockConstants DEF TypeOK, CallInv, TableInv, Engaged, Reserved, Sites,
     AcquireSites, ReleaseSites, InspectSites, BreakSites
<1>1. ASSUME NEW l \in Locks, Unlock(l) PROVE CallInv'
  BY <1>1 DEF Unlock, Goto
<1>2. ASSUME NEW l \in Locks, Return(l) PROVE CallInv'
  BY <1>2 DEF Return, Goto, Unreserve
<1>3. ASSUME NEW l \in Locks, AcquireReserve(l) PROVE CallInv'
  BY <1>3 DEF AcquireReserve, Goto, Reserve
<1>4. ASSUME NEW l \in Locks, AcquireGate(l) PROVE CallInv'
  BY <1>4 DEF AcquireGate, Goto, TryGate
<1>5. ASSUME NEW l \in Locks, AcquireRead(l) PROVE CallInv'
  BY <1>5 DEF AcquireRead, Goto
<1>6. ASSUME NEW l \in Locks, AcquireWrite(l) PROVE CallInv'
  BY <1>6 DEF AcquireWrite, Goto
<1>7. ASSUME NEW l \in Locks, AcquireSync(l) PROVE CallInv'
  BY <1>7 DEF AcquireSync, Goto
<1>8. ASSUME NEW l \in Locks, ReleaseRead(l) PROVE CallInv'
  BY <1>8 DEF ReleaseRead, Goto
<1>9. ASSUME NEW l \in Locks, ReleaseUnlink(l) PROVE CallInv'
  BY <1>9 DEF ReleaseUnlink, Goto
<1>10. ASSUME NEW l \in Locks, ReleaseUnlock(l) PROVE CallInv'
  BY <1>10 DEF ReleaseUnlock, Goto
<1>11. ASSUME NEW l \in Locks, ReleaseClear(l) PROVE CallInv'
  BY <1>11 DEF ReleaseClear, Goto, Unreserve
<1>12. ASSUME NEW l \in Locks, InspectStat(l) PROVE CallInv'
  BY <1>12 DEF InspectStat, Goto
<1>13. ASSUME NEW l \in Locks, InspectRead(l) PROVE CallInv'
  BY <1>13 DEF InspectRead, Goto
<1>14. ASSUME NEW l \in Locks, InspectReserve(l) PROVE CallInv'
  BY <1>14 DEF InspectReserve, Goto, Reserve
<1>15. ASSUME NEW l \in Locks, InspectGate(l) PROVE CallInv'
  BY <1>15 DEF InspectGate, Goto, TryGate
<1>16. ASSUME NEW l \in Locks, BreakReserve(l) PROVE CallInv'
  BY <1>16 DEF BreakReserve, Goto, Reserve
<1>17. ASSUME NEW l \in Locks, BreakGate(l) PROVE CallInv'
  BY <1>17 DEF BreakGate, Goto, TryGate
<1>18. ASSUME NEW l \in Locks, BreakRead(l) PROVE CallInv'
  BY <1>18 DEF BreakRead, Goto
<1>19. ASSUME NEW l \in Locks, BreakAudit(l) PROVE CallInv'
  BY <1>19 DEF BreakAudit, Goto
<1>20. ASSUME NEW l \in Locks, BreakReread(l) PROVE CallInv'
  BY <1>20 DEF BreakReread, Goto
<1>21. ASSUME NEW l \in Locks, BreakUnlink(l) PROVE CallInv'
  BY <1>21 DEF BreakUnlink, Goto
<1>22. ASSUME NEW p \in Procs, Crash(p) PROVE CallInv'
  BY <1>22 DEF Crash
<1>23. CASE Tamper
  BY <1>23 DEF Tamper
<1>24. CASE UNCHANGED vars
  BY <1>24 DEF vars
<1> QED
  BY <1>1, <1>2, <1>3, <1>4, <1>5, <1>6, <1>7, <1>8, <1>9, <1>10, <1>11,
       <1>12, <1>13, <1>14, <1>15, <1>16, <1>17, <1>18, <1>19, <1>20, <1>21,
       <1>22, <1>23, <1>24 DEF Next, LockStep

(* Every step keeps the process tables and the calls in line. *)
LEMMA TableStep ==
    ASSUME TypeOK, CallInv, TableInv, [Next]_vars
    PROVE  TableInv'
PROOF
<1> USE LockConstants DEF TypeOK, CallInv, TableInv, Engaged, Reserved, Sites,
     AcquireSites, ReleaseSites, InspectSites, BreakSites
<1>1. ASSUME NEW l \in Locks, Unlock(l) PROVE TableInv'
  BY <1>1 DEF Unlock, Goto
<1>2. ASSUME NEW l \in Locks, Return(l) PROVE TableInv'
  BY <1>2 DEF Return, Goto, Unreserve
<1>3. ASSUME NEW l \in Locks, AcquireReserve(l) PROVE TableInv'
  BY <1>3 DEF AcquireReserve, Goto, Reserve
<1>4. ASSUME NEW l \in Locks, AcquireGate(l) PROVE TableInv'
  BY <1>4 DEF AcquireGate, Goto, TryGate
<1>5. ASSUME NEW l \in Locks, AcquireRead(l) PROVE TableInv'
  BY <1>5 DEF AcquireRead, Goto
<1>6. ASSUME NEW l \in Locks, AcquireWrite(l) PROVE TableInv'
  BY <1>6 DEF AcquireWrite, Goto
<1>7. ASSUME NEW l \in Locks, AcquireSync(l) PROVE TableInv'
  BY <1>7 DEF AcquireSync, Goto
<1>8. ASSUME NEW l \in Locks, ReleaseRead(l) PROVE TableInv'
  BY <1>8 DEF ReleaseRead, Goto
<1>9. ASSUME NEW l \in Locks, ReleaseUnlink(l) PROVE TableInv'
  BY <1>9 DEF ReleaseUnlink, Goto
<1>10. ASSUME NEW l \in Locks, ReleaseUnlock(l) PROVE TableInv'
  BY <1>10 DEF ReleaseUnlock, Goto
<1>11. ASSUME NEW l \in Locks, ReleaseClear(l) PROVE TableInv'
  BY <1>11 DEF ReleaseClear, Goto, Unreserve
<1>12. ASSUME NEW l \in Locks, InspectStat(l) PROVE TableInv'
  BY <1>12 DEF InspectStat, Goto
<1>13. ASSUME NEW l \in Locks, InspectRead(l) PROVE TableInv'
  BY <1>13 DEF InspectRead, Goto
<1>14. ASSUME NEW l \in Locks, InspectReserve(l) PROVE TableInv'
  BY <1>14 DEF InspectReserve, Goto, Reserve
<1>15. ASSUME NEW l \in Locks, InspectGate(l) PROVE TableInv'
  BY <1>15 DEF InspectGate, Goto, TryGate
<1>16. ASSUME NEW l \in Locks, BreakReserve(l) PROVE TableInv'
  BY <1>16 DEF BreakReserve, Goto, Reserve
<1>17. ASSUME NEW l \in Locks, BreakGate(l) PROVE TableInv'
  BY <1>17 DEF BreakGate, Goto, TryGate
<1>18. ASSUME NEW l \in Locks, BreakRead(l) PROVE TableInv'
  BY <1>18 DEF BreakRead, Goto
<1>19. ASSUME NEW l \in Locks, BreakAudit(l) PROVE TableInv'
  BY <1>19 DEF BreakAudit, Goto
<1>20. ASSUME NEW l \in Locks, BreakReread(l) PROVE TableInv'
  BY <1>20 DEF BreakReread, Goto
<1>21. ASSUME NEW l \in Locks, BreakUnlink(l) PROVE TableInv'
  BY <1>21 DEF BreakUnlink, Goto
<1>22. ASSUME NEW p \in Procs, Crash(p) PROVE TableInv'
  BY <1>22 DEF Crash
<1>23. CASE Tamper
  BY <1>23 DEF Tamper
<1>24. CASE UNCHANGED vars
  BY <1>24 DEF vars
<1> QED
  BY <1>1, <1>2, <1>3, <1>4, <1>5, <1>6, <1>7, <1>8, <1>9, <1>10, <1>11,
       <1>12, <1>13, <1>14, <1>15, <1>16, <1>17, <1>18, <1>19, <1>20, <1>21,
       <1>22, <1>23, <1>24 DEF Next, LockStep

(* Every step keeps the OS lock with the owner or the call past it. *)
LEMMA GateStep ==
    ASSUME TypeOK, CallInv, TableInv, GateInv, [Next]_vars
    PROVE  GateInv'
PROOF
<1> USE LockConstants DEF TypeOK, CallInv, TableInv, Engaged, GateInv, Owns,
     AtGate, Reserved, Sites, AcquireSites, ReleaseSites, InspectSites,
     BreakSites
<1>1. ASSUME NEW l \in Locks, Unlock(l) PROVE GateInv'
  BY <1>1 DEF Unlock, Goto
<1>2. ASSUME NEW l \in Locks, Return(l) PROVE GateInv'
  BY <1>2 DEF Return, Goto, Unreserve
<1>3. ASSUME NEW l \in Locks, AcquireReserve(l) PROVE GateInv'
  BY <1>3 DEF AcquireReserve, Goto, Reserve
<1>4. ASSUME NEW l \in Locks, AcquireGate(l) PROVE GateInv'
  BY <1>4 DEF AcquireGate, Goto, TryGate
<1>5. ASSUME NEW l \in Locks, AcquireRead(l) PROVE GateInv'
  BY <1>5 DEF AcquireRead, Goto
<1>6. ASSUME NEW l \in Locks, AcquireWrite(l) PROVE GateInv'
  BY <1>6 DEF AcquireWrite, Goto
<1>7. ASSUME NEW l \in Locks, AcquireSync(l) PROVE GateInv'
  BY <1>7 DEF AcquireSync, Goto
<1>8. ASSUME NEW l \in Locks, ReleaseRead(l) PROVE GateInv'
  BY <1>8 DEF ReleaseRead, Goto
<1>9. ASSUME NEW l \in Locks, ReleaseUnlink(l) PROVE GateInv'
  BY <1>9 DEF ReleaseUnlink, Goto
<1>10. ASSUME NEW l \in Locks, ReleaseUnlock(l) PROVE GateInv'
  BY <1>10 DEF ReleaseUnlock, Goto
<1>11. ASSUME NEW l \in Locks, ReleaseClear(l) PROVE GateInv'
  BY <1>11 DEF ReleaseClear, Goto, Unreserve
<1>12. ASSUME NEW l \in Locks, InspectStat(l) PROVE GateInv'
  BY <1>12 DEF InspectStat, Goto
<1>13. ASSUME NEW l \in Locks, InspectRead(l) PROVE GateInv'
  BY <1>13 DEF InspectRead, Goto
<1>14. ASSUME NEW l \in Locks, InspectReserve(l) PROVE GateInv'
  BY <1>14 DEF InspectReserve, Goto, Reserve
<1>15. ASSUME NEW l \in Locks, InspectGate(l) PROVE GateInv'
  BY <1>15 DEF InspectGate, Goto, TryGate
<1>16. ASSUME NEW l \in Locks, BreakReserve(l) PROVE GateInv'
  BY <1>16 DEF BreakReserve, Goto, Reserve
<1>17. ASSUME NEW l \in Locks, BreakGate(l) PROVE GateInv'
  BY <1>17 DEF BreakGate, Goto, TryGate
<1>18. ASSUME NEW l \in Locks, BreakRead(l) PROVE GateInv'
  BY <1>18 DEF BreakRead, Goto
<1>19. ASSUME NEW l \in Locks, BreakAudit(l) PROVE GateInv'
  BY <1>19 DEF BreakAudit, Goto
<1>20. ASSUME NEW l \in Locks, BreakReread(l) PROVE GateInv'
  BY <1>20 DEF BreakReread, Goto
<1>21. ASSUME NEW l \in Locks, BreakUnlink(l) PROVE GateInv'
  BY <1>21 DEF BreakUnlink, Goto
<1>22. ASSUME NEW p \in Procs, Crash(p) PROVE GateInv'
  BY <1>22 DEF Crash
<1>23. CASE Tamper
  BY <1>23 DEF Tamper
<1>24. CASE UNCHANGED vars
  BY <1>24 DEF vars
<1> QED
  BY <1>1, <1>2, <1>3, <1>4, <1>5, <1>6, <1>7, <1>8, <1>9, <1>10, <1>11,
       <1>12, <1>13, <1>14, <1>15, <1>16, <1>17, <1>18, <1>19, <1>20, <1>21,
       <1>22, <1>23, <1>24 DEF Next, LockStep

(* Every step keeps what the next change of the record relies on. *)
LEMMA RecordStep ==
    ASSUME TypeOK, CallInv, GateInv, RecordInv, [Next]_vars
    PROVE  RecordInv'
PROOF
<1> USE LockConstants DEF TypeOK, CallInv, GateInv, RecordInv, Owns, AtGate,
     Reserved, Sites, AcquireSites, ReleaseSites, InspectSites, BreakSites
<1>1. ASSUME NEW l \in Locks, Unlock(l) PROVE RecordInv'
  BY <1>1 DEF Unlock, Goto
<1>2. ASSUME NEW l \in Locks, Return(l) PROVE RecordInv'
  BY <1>2 DEF Return, Goto, Unreserve
<1>3. ASSUME NEW l \in Locks, AcquireReserve(l) PROVE RecordInv'
  BY <1>3 DEF AcquireReserve, Goto, Reserve
<1>4. ASSUME NEW l \in Locks, AcquireGate(l) PROVE RecordInv'
  BY <1>4 DEF AcquireGate, Goto, TryGate
<1>5. ASSUME NEW l \in Locks, AcquireRead(l) PROVE RecordInv'
  BY <1>5 DEF AcquireRead, Goto
<1>6. ASSUME NEW l \in Locks, AcquireWrite(l) PROVE RecordInv'
  BY <1>6 DEF AcquireWrite, Goto
<1>7. ASSUME NEW l \in Locks, AcquireSync(l) PROVE RecordInv'
  BY <1>7 DEF AcquireSync, Goto
<1>8. ASSUME NEW l \in Locks, ReleaseRead(l) PROVE RecordInv'
  BY <1>8 DEF ReleaseRead, Goto
<1>9. ASSUME NEW l \in Locks, ReleaseUnlink(l) PROVE RecordInv'
  BY <1>9 DEF ReleaseUnlink, Goto
<1>10. ASSUME NEW l \in Locks, ReleaseUnlock(l) PROVE RecordInv'
  BY <1>10 DEF ReleaseUnlock, Goto
<1>11. ASSUME NEW l \in Locks, ReleaseClear(l) PROVE RecordInv'
  BY <1>11 DEF ReleaseClear, Goto, Unreserve
<1>12. ASSUME NEW l \in Locks, InspectStat(l) PROVE RecordInv'
  BY <1>12 DEF InspectStat, Goto
<1>13. ASSUME NEW l \in Locks, InspectRead(l) PROVE RecordInv'
  BY <1>13 DEF InspectRead, Goto
<1>14. ASSUME NEW l \in Locks, InspectReserve(l) PROVE RecordInv'
  BY <1>14 DEF InspectReserve, Goto, Reserve
<1>15. ASSUME NEW l \in Locks, InspectGate(l) PROVE RecordInv'
  BY <1>15 DEF InspectGate, Goto, TryGate
<1>16. ASSUME NEW l \in Locks, BreakReserve(l) PROVE RecordInv'
  BY <1>16 DEF BreakReserve, Goto, Reserve
<1>17. ASSUME NEW l \in Locks, BreakGate(l) PROVE RecordInv'
  BY <1>17 DEF BreakGate, Goto, TryGate
<1>18. ASSUME NEW l \in Locks, BreakRead(l) PROVE RecordInv'
  BY <1>18 DEF BreakRead, Goto
<1>19. ASSUME NEW l \in Locks, BreakAudit(l) PROVE RecordInv'
  BY <1>19 DEF BreakAudit, Goto
<1>20. ASSUME NEW l \in Locks, BreakReread(l) PROVE RecordInv'
  BY <1>20 DEF BreakReread, Goto
<1>21. ASSUME NEW l \in Locks, BreakUnlink(l) PROVE RecordInv'
  BY <1>21 DEF BreakUnlink, Goto
<1>22. ASSUME NEW p \in Procs, Crash(p) PROVE RecordInv'
  BY <1>22 DEF Crash
<1>23. CASE Tamper
  BY <1>23 DEF Tamper
<1>24. CASE UNCHANGED vars
  BY <1>24 DEF vars
<1> QED
  BY <1>1, <1>2, <1>3, <1>4, <1>5, <1>6, <1>7, <1>8, <1>9, <1>10, <1>11,
       <1>12, <1>13, <1>14, <1>15, <1>16, <1>17, <1>18, <1>19, <1>20, <1>21,
       <1>22, <1>23, <1>24 DEF Next, LockStep

(* Every step keeps the nonces of owners and calls distinct. *)
LEMMA NonceStep ==
    ASSUME TypeOK, CallInv, NonceInv, GateInv, [Next]_vars
    PROVE  NonceInv'
PROOF
<1> USE LockConstants DEF TypeOK, CallInv, GateInv, NonceInv, Owns, AtGate,
     Reserved, Sites, AcquireSites, ReleaseSites, InspectSites, BreakSites
<1>1. ASSUME NEW l \in Locks, Unlock(l) PROVE NonceInv'
  BY <1>1 DEF Unlock, Goto
<1>2. ASSUME NEW l \in Locks, Return(l) PROVE NonceInv'
  BY <1>2 DEF Return, Goto, Unreserve
<1>3. ASSUME NEW l \in Locks, AcquireReserve(l) PROVE NonceInv'
  BY <1>3 DEF AcquireReserve, Goto, Reserve
<1>4. ASSUME NEW l \in Locks, AcquireGate(l) PROVE NonceInv'
  BY <1>4 DEF AcquireGate, Goto, TryGate
<1>5. ASSUME NEW l \in Locks, AcquireRead(l) PROVE NonceInv'
  BY <1>5 DEF AcquireRead, Goto
<1>6. ASSUME NEW l \in Locks, AcquireWrite(l) PROVE NonceInv'
  BY <1>6 DEF AcquireWrite, Goto
<1>7. ASSUME NEW l \in Locks, AcquireSync(l) PROVE NonceInv'
  BY <1>7 DEF AcquireSync, Goto
<1>8. ASSUME NEW l \in Locks, ReleaseRead(l) PROVE NonceInv'
  BY <1>8 DEF ReleaseRead, Goto
<1>9. ASSUME NEW l \in Locks, ReleaseUnlink(l) PROVE NonceInv'
  BY <1>9 DEF ReleaseUnlink, Goto
<1>10. ASSUME NEW l \in Locks, ReleaseUnlock(l) PROVE NonceInv'
  BY <1>10 DEF ReleaseUnlock, Goto
<1>11. ASSUME NEW l \in Locks, ReleaseClear(l) PROVE NonceInv'
  BY <1>11 DEF ReleaseClear, Goto, Unreserve
<1>12. ASSUME NEW l \in Locks, InspectStat(l) PROVE NonceInv'
  BY <1>12 DEF InspectStat, Goto
<1>13. ASSUME NEW l \in Locks, InspectRead(l) PROVE NonceInv'
  BY <1>13 DEF InspectRead, Goto
<1>14. ASSUME NEW l \in Locks, InspectReserve(l) PROVE NonceInv'
  BY <1>14 DEF InspectReserve, Goto, Reserve
<1>15. ASSUME NEW l \in Locks, InspectGate(l) PROVE NonceInv'
  BY <1>15 DEF InspectGate, Goto, TryGate
<1>16. ASSUME NEW l \in Locks, BreakReserve(l) PROVE NonceInv'
  BY <1>16 DEF BreakReserve, Goto, Reserve
<1>17. ASSUME NEW l \in Locks, BreakGate(l) PROVE NonceInv'
  BY <1>17 DEF BreakGate, Goto, TryGate
<1>18. ASSUME NEW l \in Locks, BreakRead(l) PROVE NonceInv'
  BY <1>18 DEF BreakRead, Goto
<1>19. ASSUME NEW l \in Locks, BreakAudit(l) PROVE NonceInv'
  BY <1>19 DEF BreakAudit, Goto
<1>20. ASSUME NEW l \in Locks, BreakReread(l) PROVE NonceInv'
  BY <1>20 DEF BreakReread, Goto
<1>21. ASSUME NEW l \in Locks, BreakUnlink(l) PROVE NonceInv'
  BY <1>21 DEF BreakUnlink, Goto
<1>22. ASSUME NEW p \in Procs, Crash(p) PROVE NonceInv'
  BY <1>22 DEF Crash
<1>23. CASE Tamper
  BY <1>23 DEF Tamper
<1>24. CASE UNCHANGED vars
  BY <1>24 DEF vars
<1> QED
  BY <1>1, <1>2, <1>3, <1>4, <1>5, <1>6, <1>7, <1>8, <1>9, <1>10, <1>11,
       <1>12, <1>13, <1>14, <1>15, <1>16, <1>17, <1>18, <1>19, <1>20, <1>21,
       <1>22, <1>23, <1>24 DEF Next, LockStep

(* Every step that leaves a record behind is a disturbance. *)
LEMMA CauseStep ==
    ASSUME TypeOK, CallInv, GateInv, RecordInv, NonceInv, CauseInv, [Next]_vars
    PROVE  CauseInv'
PROOF
<1> USE LockConstants DEF TypeOK, CallInv, GateInv, RecordInv, NonceInv,
     CauseInv, OrphanHasCause, Owns, AtGate, Reserved, Sites, AcquireSites,
     ReleaseSites, InspectSites, BreakSites
<1>1. ASSUME NEW l \in Locks, Unlock(l) PROVE CauseInv'
  BY <1>1 DEF Unlock, Goto
<1>2. ASSUME NEW l \in Locks, Return(l) PROVE CauseInv'
  BY <1>2 DEF Return, Goto, Unreserve
<1>3. ASSUME NEW l \in Locks, AcquireReserve(l) PROVE CauseInv'
  BY <1>3 DEF AcquireReserve, Goto, Reserve
<1>4. ASSUME NEW l \in Locks, AcquireGate(l) PROVE CauseInv'
  BY <1>4 DEF AcquireGate, Goto, TryGate
<1>5. ASSUME NEW l \in Locks, AcquireRead(l) PROVE CauseInv'
  BY <1>5 DEF AcquireRead, Goto
<1>6. ASSUME NEW l \in Locks, AcquireWrite(l) PROVE CauseInv'
  BY <1>6 DEF AcquireWrite, Goto
<1>7. ASSUME NEW l \in Locks, AcquireSync(l) PROVE CauseInv'
  BY <1>7 DEF AcquireSync, Goto
<1>8. ASSUME NEW l \in Locks, ReleaseRead(l) PROVE CauseInv'
  BY <1>8 DEF ReleaseRead, Goto
<1>9. ASSUME NEW l \in Locks, ReleaseUnlink(l) PROVE CauseInv'
  BY <1>9 DEF ReleaseUnlink, Goto
<1>10. ASSUME NEW l \in Locks, ReleaseUnlock(l) PROVE CauseInv'
  BY <1>10 DEF ReleaseUnlock, Goto
<1>11. ASSUME NEW l \in Locks, ReleaseClear(l) PROVE CauseInv'
  BY <1>11 DEF ReleaseClear, Goto, Unreserve
<1>12. ASSUME NEW l \in Locks, InspectStat(l) PROVE CauseInv'
  BY <1>12 DEF InspectStat, Goto
<1>13. ASSUME NEW l \in Locks, InspectRead(l) PROVE CauseInv'
  BY <1>13 DEF InspectRead, Goto
<1>14. ASSUME NEW l \in Locks, InspectReserve(l) PROVE CauseInv'
  BY <1>14 DEF InspectReserve, Goto, Reserve
<1>15. ASSUME NEW l \in Locks, InspectGate(l) PROVE CauseInv'
  BY <1>15 DEF InspectGate, Goto, TryGate
<1>16. ASSUME NEW l \in Locks, BreakReserve(l) PROVE CauseInv'
  BY <1>16 DEF BreakReserve, Goto, Reserve
<1>17. ASSUME NEW l \in Locks, BreakGate(l) PROVE CauseInv'
  BY <1>17 DEF BreakGate, Goto, TryGate
<1>18. ASSUME NEW l \in Locks, BreakRead(l) PROVE CauseInv'
  BY <1>18 DEF BreakRead, Goto
<1>19. ASSUME NEW l \in Locks, BreakAudit(l) PROVE CauseInv'
  BY <1>19 DEF BreakAudit, Goto
<1>20. ASSUME NEW l \in Locks, BreakReread(l) PROVE CauseInv'
  BY <1>20 DEF BreakReread, Goto
<1>21. ASSUME NEW l \in Locks, BreakUnlink(l) PROVE CauseInv'
  BY <1>21 DEF BreakUnlink, Goto
<1>22. ASSUME NEW p \in Procs, Crash(p) PROVE CauseInv'
  BY <1>22 DEF Crash
<1>23. CASE Tamper
  BY <1>23 DEF Tamper
<1>24. CASE UNCHANGED vars
  BY <1>24 DEF vars
<1> QED
  BY <1>1, <1>2, <1>3, <1>4, <1>5, <1>6, <1>7, <1>8, <1>9, <1>10, <1>11,
       <1>12, <1>13, <1>14, <1>15, <1>16, <1>17, <1>18, <1>19, <1>20, <1>21,
       <1>22, <1>23, <1>24 DEF Next, LockStep

(* Every step keeps what a break was called for published. *)
LEMMA BreakStep ==
    ASSUME TypeOK, CallInv, GateInv, BreakInv, [Next]_vars
    PROVE  BreakInv'
PROOF
<1> USE LockConstants DEF TypeOK, CallInv, GateInv, BreakInv, Owns, AtGate,
     Reserved, Sites, AcquireSites, ReleaseSites, InspectSites, BreakSites
<1>1. ASSUME NEW l \in Locks, Unlock(l) PROVE BreakInv'
  BY <1>1 DEF Unlock, Goto
<1>2. ASSUME NEW l \in Locks, Return(l) PROVE BreakInv'
  BY <1>2 DEF Return, Goto, Unreserve
<1>3. ASSUME NEW l \in Locks, AcquireReserve(l) PROVE BreakInv'
  BY <1>3 DEF AcquireReserve, Goto, Reserve
<1>4. ASSUME NEW l \in Locks, AcquireGate(l) PROVE BreakInv'
  BY <1>4 DEF AcquireGate, Goto, TryGate
<1>5. ASSUME NEW l \in Locks, AcquireRead(l) PROVE BreakInv'
  BY <1>5 DEF AcquireRead, Goto
<1>6. ASSUME NEW l \in Locks, AcquireWrite(l) PROVE BreakInv'
  BY <1>6 DEF AcquireWrite, Goto
<1>7. ASSUME NEW l \in Locks, AcquireSync(l) PROVE BreakInv'
  BY <1>7 DEF AcquireSync, Goto
<1>8. ASSUME NEW l \in Locks, ReleaseRead(l) PROVE BreakInv'
  BY <1>8 DEF ReleaseRead, Goto
<1>9. ASSUME NEW l \in Locks, ReleaseUnlink(l) PROVE BreakInv'
  BY <1>9 DEF ReleaseUnlink, Goto
<1>10. ASSUME NEW l \in Locks, ReleaseUnlock(l) PROVE BreakInv'
  BY <1>10 DEF ReleaseUnlock, Goto
<1>11. ASSUME NEW l \in Locks, ReleaseClear(l) PROVE BreakInv'
  BY <1>11 DEF ReleaseClear, Goto, Unreserve
<1>12. ASSUME NEW l \in Locks, InspectStat(l) PROVE BreakInv'
  BY <1>12 DEF InspectStat, Goto
<1>13. ASSUME NEW l \in Locks, InspectRead(l) PROVE BreakInv'
  BY <1>13 DEF InspectRead, Goto
<1>14. ASSUME NEW l \in Locks, InspectReserve(l) PROVE BreakInv'
  BY <1>14 DEF InspectReserve, Goto, Reserve
<1>15. ASSUME NEW l \in Locks, InspectGate(l) PROVE BreakInv'
  BY <1>15 DEF InspectGate, Goto, TryGate
<1>16. ASSUME NEW l \in Locks, BreakReserve(l) PROVE BreakInv'
  BY <1>16 DEF BreakReserve, Goto, Reserve
<1>17. ASSUME NEW l \in Locks, BreakGate(l) PROVE BreakInv'
  BY <1>17 DEF BreakGate, Goto, TryGate
<1>18. ASSUME NEW l \in Locks, BreakRead(l) PROVE BreakInv'
  BY <1>18 DEF BreakRead, Goto
<1>19. ASSUME NEW l \in Locks, BreakAudit(l) PROVE BreakInv'
  BY <1>19 DEF BreakAudit, Goto
<1>20. ASSUME NEW l \in Locks, BreakReread(l) PROVE BreakInv'
  BY <1>20 DEF BreakReread, Goto
<1>21. ASSUME NEW l \in Locks, BreakUnlink(l) PROVE BreakInv'
  BY <1>21 DEF BreakUnlink, Goto
<1>22. ASSUME NEW p \in Procs, Crash(p) PROVE BreakInv'
  BY <1>22 DEF Crash
<1>23. CASE Tamper
  BY <1>23 DEF Tamper
<1>24. CASE UNCHANGED vars
  BY <1>24 DEF vars
<1> QED
  BY <1>1, <1>2, <1>3, <1>4, <1>5, <1>6, <1>7, <1>8, <1>9, <1>10, <1>11,
       <1>12, <1>13, <1>14, <1>15, <1>16, <1>17, <1>18, <1>19, <1>20, <1>21,
       <1>22, <1>23, <1>24 DEF Next, LockStep

(* The inductive invariant holds initially. *)
LEMMA InitIInv == Init => IInv
  BY LockConstants DEF Init, IInv, TypeOK, CallInv, TableInv, GateInv,
       RecordInv,
     NonceInv, CauseInv, BreakInv, OrphanHasCause, Engaged, Reserved, Owns, AtGate,
     Sites, AcquireSites, ReleaseSites, InspectSites, BreakSites

(* Every step of every call, crash or tampering preserves it. *)
LEMMA StepIInv == IInv /\ [Next]_vars => IInv'
  BY TypeStep, CallStep, TableStep, GateStep, RecordStep, NonceStep, CauseStep,
     BreakStep DEF IInv

(* So it holds in every state of every behaviour of the lock protocol. *)
THEOREM Invariance == Spec => []IInv
  BY InitIInv, StepIInv, PTL DEF Spec

-----------------------------------------------------------------------------
(* The lock's variables always hold values of their types. *)
THEOREM TypeCorrect == Spec => []TypeOK
<1>1. IInv => TypeOK
  BY DEF IInv
<1> QED
  BY <1>1, Invariance, PTL

(* The owner alone is past the OS lock, and its process's table names it   *)
(* (acquire, release, inspect and break_lock, with crashes at any point).  *)
THEOREM OwnerAlonePastGate == Spec => []OwnerHasGate
<1>1. IInv => OwnerHasGate
  <2> SUFFICES ASSUME IInv, NEW l \in Locks, Owns(l)
               PROVE  /\ gate = l
                      /\ owners[ProcOf[l]] = mine[l]
                      /\ \A m \in Locks : pc[m] \notin AtGate
    BY DEF OwnerHasGate
  <2>1. gate = l
    BY DEF IInv, GateInv
  <2>2. owners[ProcOf[l]] = mine[l]
    BY DEF IInv, TableInv, Owns
  <2>3. pc[l] \notin AtGate
    BY DEF IInv, CallInv, Owns, AtGate, Reserved
  <2>4. ASSUME NEW m \in Locks, pc[m] \in AtGate PROVE FALSE
    BY <2>1, <2>3, <2>4 DEF IInv, GateInv
  <2> QED
    BY <2>1, <2>2, <2>4
<1> QED
  BY <1>1, Invariance, PTL

(* Two objects, of one process or of two, never own the project at once. *)
THEOREM AtMostOneOwner == Spec => []MutualExclusion
<1>1. IInv => MutualExclusion
  BY DEF IInv, GateInv, MutualExclusion
<1> QED
  BY <1>1, Invariance, PTL

(* Gate and table entries always belong to an owner or to a call under way, *)
(* so no failed call leaves a live lock behind.                             *)
THEOREM NothingLeaks == Spec => []NoLeakedLock
<1>1. IInv => NoLeakedLock
  <2> SUFFICES ASSUME IInv PROVE NoLeakedLock
    OBVIOUS
  <2>1. gate # None => Owns(gate) \/ pc[gate] \in AtGate
    BY DEF IInv, GateInv
  <2>2. ASSUME NEW p \in Procs, owners[p] # None
        PROVE  \E l \in Locks : ProcOf[l] = p /\ owners[p] \in {mine[l], token[l]}
    <3>1. PICK l \in Locks : ProcOf[l] = p /\ Engaged(l)
      BY <2>2 DEF IInv, TableInv
    <3> QED
      BY <3>1 DEF IInv, TableInv, Engaged
  <2> QED
    BY <2>1, <2>2 DEF NoLeakedLock
<1> QED
  BY <1>1, Invariance, PTL

(* Complete calls, however they interleave, leave no orphan record. *)
THEOREM OrphansAreCaused == Spec => []OrphanHasCause
<1>1. IInv => OrphanHasCause
  BY DEF IInv, CauseInv, OrphanHasCause
<1> QED
  BY <1>1, Invariance, PTL

(* A published record goes only with its owner's release, with an audited  *)
(* break of an unowned project, or by foreign software.                    *)
LEMMA RemovalStep ==
    ASSUME IInv, [Next]_vars, NEW n \in Nonces, record = n, record' # n
    PROVE  \/ \E l \in Locks : mine[l] = n /\ pc[l] = "rel_unlink"
           \/ n \in audited /\ \A l \in Locks : ~Owns(l)
           \/ UNCHANGED pc
<1> USE LockConstants
<1>1. CASE \E l \in Locks : LockStep(l)
  <2>1. PICK l \in Locks : LockStep(l)
    BY <1>1
  <2>2. AcquireWrite(l) \/ ReleaseUnlink(l) \/ BreakUnlink(l)
    BY <2>1 DEF LockStep, Unlock, Return, AcquireReserve, AcquireGate,
         AcquireRead,
       AcquireSync, ReleaseRead, ReleaseUnlock, ReleaseClear, InspectStat,
       InspectRead, InspectReserve, InspectGate, BreakReserve, BreakGate,
       BreakRead, BreakAudit, BreakReread
  <2>3. ~AcquireWrite(l)
    BY DEF AcquireWrite, IInv, RecordInv
  <2>4. CASE ReleaseUnlink(l)
    BY <2>4 DEF ReleaseUnlink, IInv, RecordInv
  <2>5. CASE BreakUnlink(l)
    <3>1. n \in audited
      BY <2>5 DEF BreakUnlink, IInv, RecordInv
    <3>2. gate = l /\ ~Owns(l)
      BY <2>5 DEF BreakUnlink, IInv, GateInv, CallInv, Owns, AtGate, Reserved
    <3> QED
      BY <3>1, <3>2 DEF IInv, GateInv
  <2> QED
    BY <2>2, <2>3, <2>4, <2>5
<1>2. CASE \E p \in Procs : Crash(p)
  BY <1>2 DEF Crash
<1>3. CASE Tamper
  BY <1>3 DEF Tamper
<1>4. CASE UNCHANGED vars
  BY <1>4 DEF vars
<1> QED
  BY <1>1, <1>2, <1>3, <1>4 DEF Next

(* That is an action property of every behaviour (release and break_lock). *)
THEOREM RemovalsAuthorised == Spec => RemovalAuthorised
<1>1. IInv /\ [Next]_vars =>
        [\A n \in Nonces : record = n /\ record' # n =>
           \/ \E l \in Locks : mine[l] = n /\ pc[l] = "rel_unlink"
           \/ n \in audited /\ \A l \in Locks : ~Owns(l)
           \/ UNCHANGED pc]_vars
  BY RemovalStep
<1> QED
  BY <1>1, Invariance, PTL DEF Spec, RemovalAuthorised



-----------------------------------------------------------------------------
(* Every step of the protocol is a step of module ProjectOwnership or      *)
(* changes nothing of it, with foreign software or without.                *)
LEMMA OwnershipStep ==
    ASSUME IInv, [Next]_vars
    PROVE  [Ownership!Next]_(Ownership!vars)
<1> USE LockConstants DEF Ownership!vars, Ownership!Next
<1>1. ASSUME NEW l \in Locks, Unlock(l) PROVE [Ownership!Next]_(Ownership!vars)
  BY <1>1 DEF Unlock, Goto, IInv, TypeOK, GateInv, CallInv, Owns, AtGate,
       Reserved
<1>2. ASSUME NEW l \in Locks, Return(l) PROVE [Ownership!Next]_(Ownership!vars)
  BY <1>2 DEF Return, Goto, Unreserve, IInv, TypeOK, GateInv, CallInv, Owns,
       AtGate, Reserved
<1>3. ASSUME NEW l \in Locks, AcquireReserve(l) PROVE [Ownership!Next]_(Ownership!vars)
  BY <1>3 DEF AcquireReserve, Goto, Reserve, IInv, TypeOK, GateInv, CallInv,
       Owns, AtGate, Reserved
<1>4. ASSUME NEW l \in Locks, AcquireGate(l) PROVE [Ownership!Next]_(Ownership!vars)
  BY <1>4 DEF AcquireGate, Goto, TryGate, IInv, TypeOK, GateInv, CallInv,
       Owns, AtGate, Reserved
<1>5. ASSUME NEW l \in Locks, AcquireRead(l) PROVE [Ownership!Next]_(Ownership!vars)
  BY <1>5 DEF AcquireRead, Goto, IInv, TypeOK, GateInv, CallInv, Owns, AtGate,
       Reserved
<1>6. ASSUME NEW l \in Locks, AcquireWrite(l) PROVE [Ownership!Next]_(Ownership!vars)
  BY <1>6 DEF AcquireWrite, Goto, IInv, TypeOK, GateInv, CallInv, Owns,
       AtGate, Reserved, Ownership!Claim, RecordInv, NonceInv, AcquireSites
<1>7. ASSUME NEW l \in Locks, AcquireSync(l) PROVE [Ownership!Next]_(Ownership!vars)
  BY <1>7 DEF AcquireSync, Goto, IInv, TypeOK, GateInv, CallInv, Owns, AtGate,
       Reserved, Ownership!LetGo
<1>8. ASSUME NEW l \in Locks, ReleaseRead(l) PROVE [Ownership!Next]_(Ownership!vars)
  BY <1>8 DEF ReleaseRead, Goto, IInv, TypeOK, GateInv, CallInv, Owns, AtGate,
       Reserved
<1>9. ASSUME NEW l \in Locks, ReleaseUnlink(l) PROVE [Ownership!Next]_(Ownership!vars)
  BY <1>9 DEF ReleaseUnlink, Goto, IInv, TypeOK, GateInv, CallInv, Owns,
       AtGate, Reserved, ReleaseSites, Ownership!Withdraw
<1>10. ASSUME NEW l \in Locks, ReleaseUnlock(l) PROVE [Ownership!Next]_(Ownership!vars)
  BY <1>10 DEF ReleaseUnlock, Goto, IInv, TypeOK, GateInv, CallInv, Owns,
       AtGate, Reserved, ReleaseSites, Ownership!LetGo
<1>11. ASSUME NEW l \in Locks, ReleaseClear(l) PROVE [Ownership!Next]_(Ownership!vars)
  BY <1>11 DEF ReleaseClear, Goto, Unreserve, IInv, TypeOK, GateInv, CallInv,
       Owns, AtGate, Reserved
<1>12. ASSUME NEW l \in Locks, InspectStat(l) PROVE [Ownership!Next]_(Ownership!vars)
  BY <1>12 DEF InspectStat, Goto, IInv, TypeOK, GateInv, CallInv, Owns,
       AtGate, Reserved
<1>13. ASSUME NEW l \in Locks, InspectRead(l) PROVE [Ownership!Next]_(Ownership!vars)
  BY <1>13 DEF InspectRead, Goto, IInv, TypeOK, GateInv, CallInv, Owns,
       AtGate, Reserved
<1>14. ASSUME NEW l \in Locks, InspectReserve(l) PROVE [Ownership!Next]_(Ownership!vars)
  BY <1>14 DEF InspectReserve, Goto, Reserve, IInv, TypeOK, GateInv, CallInv,
       Owns, AtGate, Reserved
<1>15. ASSUME NEW l \in Locks, InspectGate(l) PROVE [Ownership!Next]_(Ownership!vars)
  BY <1>15 DEF InspectGate, Goto, TryGate, IInv, TypeOK, GateInv, CallInv,
       Owns, AtGate, Reserved
<1>16. ASSUME NEW l \in Locks, BreakReserve(l) PROVE [Ownership!Next]_(Ownership!vars)
  BY <1>16 DEF BreakReserve, Goto, Reserve, IInv, TypeOK, GateInv, CallInv,
       Owns, AtGate, Reserved
<1>17. ASSUME NEW l \in Locks, BreakGate(l) PROVE [Ownership!Next]_(Ownership!vars)
  BY <1>17 DEF BreakGate, Goto, TryGate, IInv, TypeOK, GateInv, CallInv, Owns,
       AtGate, Reserved
<1>18. ASSUME NEW l \in Locks, BreakRead(l) PROVE [Ownership!Next]_(Ownership!vars)
  BY <1>18 DEF BreakRead, Goto, IInv, TypeOK, GateInv, CallInv, Owns, AtGate,
       Reserved
<1>19. ASSUME NEW l \in Locks, BreakAudit(l) PROVE [Ownership!Next]_(Ownership!vars)
  BY <1>19 DEF BreakAudit, Goto, IInv, TypeOK, GateInv, CallInv, Owns, AtGate,
       Reserved, Ownership!Authorise, BreakInv, BreakSites
<1>20. ASSUME NEW l \in Locks, BreakReread(l) PROVE [Ownership!Next]_(Ownership!vars)
  BY <1>20 DEF BreakReread, Goto, IInv, TypeOK, GateInv, CallInv, Owns,
       AtGate, Reserved
<1>21. ASSUME NEW l \in Locks, BreakUnlink(l) PROVE [Ownership!Next]_(Ownership!vars)
  BY <1>21 DEF BreakUnlink, Goto, IInv, TypeOK, GateInv, CallInv, Owns,
       AtGate, Reserved, Ownership!BreakOrphan, BreakInv, RecordInv,
       BreakSites
<1>22. ASSUME NEW p \in Procs, Crash(p) PROVE [Ownership!Next]_(Ownership!vars)
  BY <1>22 DEF Crash, Ownership!LetGo, IInv, TypeOK, GateInv, CallInv, Owns,
       AtGate, Reserved
<1>23. CASE Tamper
  BY <1>23 DEF Tamper, Ownership!Meddle, Owns
<1>24. CASE UNCHANGED vars
  BY <1>24 DEF vars, Owns
<1> QED
  BY <1>1, <1>2, <1>3, <1>4, <1>5, <1>6, <1>7, <1>8, <1>9, <1>10, <1>11,
       <1>12, <1>13, <1>14, <1>15, <1>16, <1>17, <1>18, <1>19, <1>20, <1>21,
       <1>22, <1>23, <1>24 DEF Next, LockStep

(* The protocol implements that promise: at most one owner, and a record    *)
(* that only its owner or an audited break takes away.                     *)
THEOREM LockImplementsOwnership == Spec => ImplementsOwnership
<1>1. Init => Ownership!Init
  BY DEF Init, Ownership!Init
<1>2. IInv /\ [Next]_vars => [Ownership!Next]_(Ownership!vars)
  BY OwnershipStep
<1> QED
  BY <1>1, <1>2, Invariance, PTL DEF Spec, ImplementsOwnership, Ownership!Spec

=============================================================================
