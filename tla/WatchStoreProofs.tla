--------------------------- MODULE WatchStoreProofs ---------------------------
(***************************************************************************)
(* What the lock and the recovery protocol of WatchStore establish for any *)
(* set of processes, requests and starting directories.                    *)
(*                                                                         *)
(* The control invariants need nothing of what a mutation computes: Effect,*)
(* Canonical and Compact stay unexpanded throughout, so the results hold   *)
(* whatever the operations are.                                            *)
(***************************************************************************)
EXTENDS WatchStore, WatchGenerationProofs

\* Labels of the first publication, and those from the verdict to the write.
FirstLabels  == {"backup", "build", "sync", "publish"}
CopiedLabels == {"build", "sync", "publish"}
SavingLabels == FirstLabels \union {"save", "commit"}

\* Whoever observes or changes the directory for a mutation holds the lock, and
\* so does a Load while it decides about a database that never was published.
LockHeld ==
  \A p \in Procs :
    \/ pc[p] \in HoldingLabels
    \/ pc[p] \in {"stat", "view", "json"} /\ ~IsLoad(p)
    => lock = p

\* A Load never reaches a label of a mutation.
LoadsOnlyRead ==
  \A p \in Procs :
    IsLoad(p) => pc[p] \notin {"apply", "tx", "refused"} \union SavingLabels

\* What the mutation under the lock has learnt of the database.
DatabaseKnown ==
  \A p \in Procs :
    /\ pc[p] = "json" /\ ~IsLoad(p) => db.kind = "none"
    /\ pc[p] \in {"apply", "save"} => db.kind \in {"none", "published"}
    /\ pc[p] \in FirstLabels => db.kind = "none"
    /\ pc[p] = "commit" => db.kind = "published"

\* A quote comes to the write path only to convert a legacy pair, and nobody else to
\* its transaction.
QuoteConverts ==
  \A p \in Procs :
    /\ pc[p] = "tx" => IsRecord(p)
    /\ IsRecord(p) => pc[p] \notin {"view", "recheck", "reload", "apply", "commit"}
    /\ IsRecord(p) /\ pc[p] = "save" => db.kind = "none"

\* What is being saved is what the mutation decided to save.
SavesDecided ==
  \A p \in Procs :
    pc[p] \in SavingLabels /\ ~IsRecord(p) => Outcome(p).verdict = "save"

\* The copy of the legacy pair precedes the conversion.
CopyPrecedes ==
  \A p \in Procs : pc[p] \in CopiedLabels /\ legacy.present => backedUp

IInv ==
  /\ TypeOK /\ LockHeld /\ LoadsOnlyRead /\ DatabaseKnown /\ QuoteConverts
  /\ SavesDecided /\ CopyPrecedes
  /\ FreshUntilSaved /\ StagedWhole /\ LegacyCopied

-----------------------------------------------------------------------------
(* What a quote's transaction may do to the database.                       *)
LEMMA TxWrites ==
  ASSUME TypeOK, NEW p \in Procs, Tx(p)
  PROVE  LET e == Effect(db.gen, request[p])
         IN /\ UNCHANGED <<legacy, creating, quarantined, backedUp>>
            /\ \/ UNCHANGED db
               \/ /\ Writable /\ e.verdict = "save" /\ Finish(p, Done(e.out))
                  /\ db' = [kind |-> db'.kind, gen |-> e.gen] /\ Writable'
                  /\ db.kind = "published" => db'.kind = "published"
<1> DEFINE e == Effect(db.gen, request[p])
<1>1. CASE Writable /\ e.verdict = "save"
  <2>1. PICK k \in KindsAfter(e) : db' = [kind |-> k, gen |-> e.gen]
    BY <1>1 DEF Tx
  <2>2. k \in {"published", "torn"} /\ (db.kind = "published" => k = "published")
    BY <2>1 DEF KindsAfter
  <2>3. Finish(p, Done(e.out))
    BY <1>1 DEF Tx
  <2> HIDE DEF e
  <2> QED
    BY <1>1, <2>1, <2>2, <2>3 DEF Writable, Tx, e
<1>2. CASE ~(Writable /\ e.verdict = "save")
  BY <1>2 DEF Tx
<1> QED
  BY <1>1, <1>2

(* Every step leaves the control state in shape.                            *)
LEMMA TypeStep == TypeOK /\ Next => TypeOK'
<1> SUFFICES ASSUME TypeOK, NEW p \in Procs, Step(p) PROVE TypeOK'
  BY DEF Next
<1> USE ProcAssumption DEF TypeOK, Labels, HoldingLabels, DbKinds, disk, Goto, Finish
<1>0. ASSUME NEW r \in Requests \union {Loading}, Invoke(p, r) PROVE TypeOK'
  BY <1>0 DEF Invoke
<1>1. CASE Reject(p)
  BY <1>1 DEF Reject
<1>2. CASE TakeLock(p)
  BY <1>2 DEF TakeLock
<1>3. CASE Stat(p)
  BY <1>3 DEF Stat
<1>4. CASE View(p)
  BY <1>4 DEF View, Deliver
<1>5. CASE Recheck(p)
  BY <1>5 DEF Recheck, MayQuarantine
<1>6. CASE Reload(p)
  BY <1>6 DEF Reload, Deliver
<1>7. CASE Json(p)
  BY <1>7 DEF Json
<1>8. CASE ApplyTxn(p)
  BY <1>8 DEF ApplyTxn
<1>9. CASE SaveStat(p)
  BY <1>9 DEF SaveStat
<1>10. CASE Backup(p)
  BY <1>10 DEF Backup
<1>11. CASE Build(p)
  BY <1>11 DEF Build
<1>12. CASE Sync(p)
  BY <1>12 DEF Sync
<1>13. CASE Publish(p)
  BY <1>13 DEF Publish
<1>14. CASE Commit(p)
  BY <1>14 DEF Commit
<1>15. CASE Tx(p)
  <2>1. /\ db' = [kind |-> db'.kind, gen |-> db'.gen] /\ db'.kind \in DbKinds
        /\ UNCHANGED <<legacy, creating, quarantined, backedUp>>
    BY <1>15, TxWrites DEF Writable
  <2> QED
    BY <1>15, <2>1 DEF Tx
<1>16. CASE Return(p)
  BY <1>16 DEF Return, Leave
<1>17. CASE Fault(p)
  BY <1>17 DEF Fault
<1>18. CASE Crash(p)
  BY <1>18 DEF Crash, Leave
<1> QED
  BY <1>0, <1>1, <1>2, <1>3, <1>4, <1>5, <1>6, <1>7, <1>8, <1>9, <1>10, <1>11, <1>12, <1>13, <1>14, <1>15, <1>16, <1>17, <1>18 DEF Step, Advance

(***************************************************************************)
(* Initially nobody is busy, and a database that is already published is   *)
(* backed up.                                                              *)
(***************************************************************************)
LEMMA IInvInit == Init => IInv
<1> SUFFICES ASSUME Init PROVE IInv
  OBVIOUS
<1>1. TypeOK
  <2>1. db \in InitDbs /\ legacy \in InitLegacies
    BY DEF Init
  <2>2. /\ db = [kind |-> db.kind, gen |-> db.gen] /\ db.kind \in DbKinds
        /\ legacy.present \in BOOLEAN
    BY <2>1, StartAssumption, Zenon
  <2> QED
    BY <2>2, ProcAssumption DEF Init, TypeOK, Labels, Converted
<1>2. /\ LockHeld /\ LoadsOnlyRead /\ DatabaseKnown /\ QuoteConverts
      /\ SavesDecided /\ CopyPrecedes /\ FreshUntilSaved /\ StagedWhole
  BY DEF Init, LockHeld, LoadsOnlyRead, DatabaseKnown, QuoteConverts,
    SavesDecided, CopyPrecedes, FreshUntilSaved, StagedWhole, HoldingLabels,
    ReloadedLabels, SavingLabels, FirstLabels, CopiedLabels
<1>3. LegacyCopied
  BY DEF Init, LegacyCopied
<1> QED
  BY <1>1, <1>2, <1>3 DEF IInv

(***************************************************************************)
(* Every step preserves the invariant.  Two groups of conjuncts: where the *)
(* processes are, and what they know of the directory.                     *)
(***************************************************************************)
LEMMA IInvStep == IInv /\ Next => IInv'
<1> SUFFICES ASSUME IInv, NEW p \in Procs, Step(p) PROVE IInv'
  BY DEF Next
<1>t. TypeOK'
  BY TypeStep DEF IInv, Next
<1> USE ProcAssumption DEF TypeOK, disk, Goto, Finish
<1> DEFINE Control == LockHeld /\ LoadsOnlyRead /\ QuoteConverts /\ SavesDecided
           Disk == /\ DatabaseKnown /\ CopyPrecedes
                   /\ FreshUntilSaved /\ StagedWhole /\ LegacyCopied
<1>0. ASSUME NEW r \in Requests \union {Loading}, Invoke(p, r) PROVE IInv'
  <2>1. Control'
    BY <1>0 DEF IInv, Invoke, LockHeld, LoadsOnlyRead, QuoteConverts,
      SavesDecided, HoldingLabels, SavingLabels, FirstLabels, IsLoad,
      IsRecord, Outcome
  <2>2. Disk'
    BY <1>0 DEF IInv, Invoke, LockHeld, DatabaseKnown, CopyPrecedes,
      FreshUntilSaved, StagedWhole, LegacyCopied, HoldingLabels,
      ReloadedLabels, FirstLabels, CopiedLabels, IsLoad, IsRecord, Book, Converted,
      LegacyGen
  <2> QED
    BY <1>t, <2>1, <2>2 DEF IInv
<1>1. CASE Reject(p)
  <2>1. Control'
    BY <1>1 DEF IInv, Reject, LockHeld, LoadsOnlyRead, QuoteConverts,
      SavesDecided, HoldingLabels, SavingLabels, FirstLabels, IsLoad,
      IsRecord, Outcome
  <2>2. Disk'
    BY <1>1 DEF IInv, Reject, LockHeld, DatabaseKnown, CopyPrecedes,
      FreshUntilSaved, StagedWhole, LegacyCopied, HoldingLabels,
      ReloadedLabels, FirstLabels, CopiedLabels, IsLoad, IsRecord, Book, Converted,
      LegacyGen
  <2> QED
    BY <1>t, <2>1, <2>2 DEF IInv
<1>2. CASE TakeLock(p)
  <2>1. Control'
    BY <1>2 DEF IInv, TakeLock, LockHeld, LoadsOnlyRead, QuoteConverts,
      SavesDecided, HoldingLabels, SavingLabels, FirstLabels, IsLoad,
      IsRecord, Outcome
  <2>2. Disk'
    BY <1>2 DEF IInv, TakeLock, LockHeld, DatabaseKnown, CopyPrecedes,
      FreshUntilSaved, StagedWhole, LegacyCopied, HoldingLabels,
      ReloadedLabels, FirstLabels, CopiedLabels, IsLoad, IsRecord, Book, Converted,
      LegacyGen
  <2> QED
    BY <1>t, <2>1, <2>2 DEF IInv
<1>3. CASE Stat(p)
  <2>1. Control'
    BY <1>3 DEF IInv, Stat, LockHeld, LoadsOnlyRead, QuoteConverts,
      SavesDecided, HoldingLabels, SavingLabels, FirstLabels, IsLoad,
      IsRecord, Outcome
  <2>2. Disk'
    BY <1>3 DEF IInv, Stat, LockHeld, DatabaseKnown, CopyPrecedes,
      FreshUntilSaved, StagedWhole, LegacyCopied, HoldingLabels,
      ReloadedLabels, FirstLabels, CopiedLabels, IsLoad, IsRecord, Book, Converted,
      LegacyGen
  <2> QED
    BY <1>t, <2>1, <2>2 DEF IInv
<1>4. CASE View(p)
  <2>1. Control'
    BY <1>4 DEF IInv, View, Deliver, LockHeld, LoadsOnlyRead, QuoteConverts,
      SavesDecided, HoldingLabels, SavingLabels, FirstLabels, IsLoad,
      IsRecord, Outcome
  <2>2. Disk'
    BY <1>4 DEF IInv, View, Deliver, LockHeld, DatabaseKnown, CopyPrecedes,
      FreshUntilSaved, StagedWhole, LegacyCopied, HoldingLabels,
      ReloadedLabels, FirstLabels, CopiedLabels, IsLoad, IsRecord, Book, Converted,
      LegacyGen
  <2> QED
    BY <1>t, <2>1, <2>2 DEF IInv
<1>5. CASE Recheck(p)
  <2>1. Control'
    BY <1>5 DEF IInv, Recheck, MayQuarantine, LockHeld, LoadsOnlyRead,
      QuoteConverts, SavesDecided, HoldingLabels, SavingLabels, FirstLabels,
      IsLoad, IsRecord, Outcome
  <2>2. Disk'
    BY <1>5 DEF IInv, Recheck, MayQuarantine, LockHeld, DatabaseKnown,
      CopyPrecedes, FreshUntilSaved, StagedWhole, LegacyCopied, HoldingLabels,
      ReloadedLabels, FirstLabels, CopiedLabels, IsLoad, IsRecord, Book, Converted,
      LegacyGen
  <2> QED
    BY <1>t, <2>1, <2>2 DEF IInv
<1>6. CASE Reload(p)
  <2>1. Control'
    BY <1>6 DEF IInv, Reload, Deliver, LockHeld, LoadsOnlyRead, QuoteConverts,
      SavesDecided, HoldingLabels, SavingLabels, FirstLabels, IsLoad,
      IsRecord, Outcome
  <2>2. Disk'
    BY <1>6 DEF IInv, Reload, Deliver, LockHeld, DatabaseKnown, CopyPrecedes,
      FreshUntilSaved, StagedWhole, LegacyCopied, HoldingLabels,
      ReloadedLabels, FirstLabels, CopiedLabels, IsLoad, IsRecord, Book, Converted,
      LegacyGen
  <2> QED
    BY <1>t, <2>1, <2>2 DEF IInv
<1>7. CASE Json(p)
  <2>1. Control'
    BY <1>7 DEF IInv, Json, LockHeld, LoadsOnlyRead, QuoteConverts,
      SavesDecided, HoldingLabels, SavingLabels, FirstLabels, IsLoad,
      IsRecord, Outcome, DatabaseKnown
  <2>2. Disk'
    BY <1>7 DEF IInv, Json, LockHeld, DatabaseKnown, CopyPrecedes,
      FreshUntilSaved, StagedWhole, LegacyCopied, HoldingLabels,
      ReloadedLabels, FirstLabels, CopiedLabels, IsLoad, IsRecord, Book, Converted,
      LegacyGen
  <2> QED
    BY <1>t, <2>1, <2>2 DEF IInv
<1>8. CASE ApplyTxn(p)
  <2>1. Control'
    BY <1>8 DEF IInv, ApplyTxn, LockHeld, LoadsOnlyRead, QuoteConverts,
      SavesDecided, HoldingLabels, SavingLabels, FirstLabels, IsLoad,
      IsRecord, Outcome
  <2>2. Disk'
    BY <1>8 DEF IInv, ApplyTxn, LockHeld, DatabaseKnown, CopyPrecedes,
      FreshUntilSaved, StagedWhole, LegacyCopied, HoldingLabels,
      ReloadedLabels, FirstLabels, CopiedLabels, IsLoad, IsRecord, Book, Converted,
      LegacyGen
  <2> QED
    BY <1>t, <2>1, <2>2 DEF IInv
<1>9. CASE SaveStat(p)
  <2>1. Control'
    BY <1>9 DEF IInv, SaveStat, LockHeld, LoadsOnlyRead, QuoteConverts,
      SavesDecided, HoldingLabels, SavingLabels, FirstLabels, IsLoad,
      IsRecord, Outcome
  <2>2. Disk'
    BY <1>9 DEF IInv, SaveStat, LockHeld, DatabaseKnown, CopyPrecedes,
      FreshUntilSaved, StagedWhole, LegacyCopied, HoldingLabels,
      ReloadedLabels, FirstLabels, CopiedLabels, IsLoad, IsRecord, Book, Converted,
      LegacyGen
  <2> QED
    BY <1>t, <2>1, <2>2 DEF IInv
<1>10. CASE Backup(p)
  <2>1. Control'
    BY <1>10 DEF IInv, Backup, LockHeld, LoadsOnlyRead, QuoteConverts,
      SavesDecided, HoldingLabels, SavingLabels, FirstLabels, IsLoad,
      IsRecord, Outcome
  <2>2. Disk'
    BY <1>10 DEF IInv, Backup, LockHeld, DatabaseKnown, CopyPrecedes,
      FreshUntilSaved, StagedWhole, LegacyCopied, HoldingLabels,
      ReloadedLabels, FirstLabels, CopiedLabels, IsLoad, IsRecord, Book, Converted,
      LegacyGen
  <2> QED
    BY <1>t, <2>1, <2>2 DEF IInv
<1>11. CASE Build(p)
  <2>1. Control'
    BY <1>11 DEF IInv, Build, LockHeld, LoadsOnlyRead, QuoteConverts,
      SavesDecided, HoldingLabels, SavingLabels, FirstLabels, IsLoad,
      IsRecord, Outcome
  <2>2. Disk'
    BY <1>11 DEF IInv, Build, LockHeld, DatabaseKnown, CopyPrecedes,
      FreshUntilSaved, StagedWhole, LegacyCopied, HoldingLabels,
      ReloadedLabels, FirstLabels, CopiedLabels, IsLoad, IsRecord, Book, Converted,
      LegacyGen
  <2> QED
    BY <1>t, <2>1, <2>2 DEF IInv
<1>12. CASE Sync(p)
  <2>1. Control'
    BY <1>12 DEF IInv, Sync, LockHeld, LoadsOnlyRead, QuoteConverts,
      SavesDecided, HoldingLabels, SavingLabels, FirstLabels, IsLoad,
      IsRecord, Outcome
  <2>2. Disk'
    BY <1>12 DEF IInv, Sync, LockHeld, DatabaseKnown, CopyPrecedes,
      FreshUntilSaved, StagedWhole, LegacyCopied, HoldingLabels,
      ReloadedLabels, FirstLabels, CopiedLabels, IsLoad, IsRecord, Book, Converted,
      LegacyGen
  <2> QED
    BY <1>t, <2>1, <2>2 DEF IInv
<1>13. CASE Publish(p)
  <2>1. Control'
    BY <1>13 DEF IInv, Publish, LockHeld, LoadsOnlyRead, QuoteConverts,
      SavesDecided, HoldingLabels, SavingLabels, FirstLabels, IsLoad,
      IsRecord, Outcome
  <2>2. Disk'
    BY <1>13 DEF IInv, Publish, LockHeld, DatabaseKnown, CopyPrecedes,
      FreshUntilSaved, StagedWhole, LegacyCopied, HoldingLabels,
      ReloadedLabels, FirstLabels, CopiedLabels, IsLoad, IsRecord, Book, Converted,
      LegacyGen
  <2> QED
    BY <1>t, <2>1, <2>2 DEF IInv
<1>14. CASE Commit(p)
  <2>1. Control'
    BY <1>14 DEF IInv, Commit, LockHeld, LoadsOnlyRead, QuoteConverts,
      SavesDecided, HoldingLabels, SavingLabels, FirstLabels, IsLoad,
      IsRecord, Outcome
  <2>2. Disk'
    BY <1>14 DEF IInv, Commit, LockHeld, DatabaseKnown, CopyPrecedes,
      FreshUntilSaved, StagedWhole, LegacyCopied, HoldingLabels,
      ReloadedLabels, FirstLabels, CopiedLabels, IsLoad, IsRecord, Book, Converted,
      LegacyGen
  <2> QED
    BY <1>t, <2>1, <2>2 DEF IInv
<1>15. CASE Tx(p)
  <2>0. /\ pc[p] = "tx" /\ pc' = [pc EXCEPT ![p] = "done"]
        /\ UNCHANGED <<legacy, creating, backedUp, lock, mem, request>>
    BY <1>15 DEF Tx
  <2>1. UNCHANGED db \/ (Writable /\ Writable')
    BY <1>15, TxWrites DEF IInv
  <2>2. lock = p /\ \A q \in Procs : q # p => pc[q] \notin HoldingLabels
    BY <2>0 DEF IInv, LockHeld, HoldingLabels
  <2>3. Control'
    BY <2>0, <2>2 DEF IInv, LockHeld, LoadsOnlyRead, QuoteConverts,
      SavesDecided, HoldingLabels, SavingLabels, FirstLabels, IsLoad,
      IsRecord, Outcome
  <2>4. DatabaseKnown' /\ FreshUntilSaved' /\ StagedWhole'
    BY <2>0, <2>2 DEF IInv, LockHeld, DatabaseKnown, FreshUntilSaved, StagedWhole,
      HoldingLabels, ReloadedLabels, FirstLabels, IsLoad
  <2>5. CopyPrecedes' /\ LegacyCopied'
    BY <2>0, <2>1 DEF IInv, CopyPrecedes, LegacyCopied, CopiedLabels, Converted, Writable
  <2> QED
    BY <1>t, <2>3, <2>4, <2>5 DEF IInv
<1>16. CASE Return(p)
  <2>1. Control'
    BY <1>16 DEF IInv, Return, Leave, LockHeld, LoadsOnlyRead, QuoteConverts,
      SavesDecided, HoldingLabels, SavingLabels, FirstLabels, IsLoad,
      IsRecord, Outcome
  <2>2. Disk'
    BY <1>16 DEF IInv, Return, Leave, LockHeld, DatabaseKnown, CopyPrecedes,
      FreshUntilSaved, StagedWhole, LegacyCopied, HoldingLabels,
      ReloadedLabels, FirstLabels, CopiedLabels, IsLoad, IsRecord, Book, Converted,
      LegacyGen
  <2> QED
    BY <1>t, <2>1, <2>2 DEF IInv
<1>17. CASE Fault(p)
  <2>1. Control'
    BY <1>17 DEF IInv, Fault, Fallible, LockHeld, LoadsOnlyRead,
      QuoteConverts, SavesDecided, HoldingLabels, SavingLabels, FirstLabels,
      IsLoad, IsRecord, Outcome
  <2>2. Disk'
    BY <1>17 DEF IInv, Fault, Fallible, LockHeld, DatabaseKnown, CopyPrecedes,
      FreshUntilSaved, StagedWhole, LegacyCopied, HoldingLabels,
      ReloadedLabels, FirstLabels, CopiedLabels, IsLoad, IsRecord, Book, Converted,
      LegacyGen
  <2> QED
    BY <1>t, <2>1, <2>2 DEF IInv
<1>18. CASE Crash(p)
  <2>1. Control'
    BY <1>18 DEF IInv, Crash, Leave, LockHeld, LoadsOnlyRead, QuoteConverts,
      SavesDecided, HoldingLabels, SavingLabels, FirstLabels, IsLoad,
      IsRecord, Outcome
  <2>2. Disk'
    BY <1>18 DEF IInv, Crash, Leave, LockHeld, DatabaseKnown, CopyPrecedes,
      FreshUntilSaved, StagedWhole, LegacyCopied, HoldingLabels,
      ReloadedLabels, FirstLabels, CopiedLabels, IsLoad, IsRecord, Book, Converted,
      LegacyGen
  <2> QED
    BY <1>t, <2>1, <2>2 DEF IInv
<1> QED
  BY <1>0, <1>1, <1>2, <1>3, <1>4, <1>5, <1>6, <1>7, <1>8, <1>9, <1>10, <1>11,
    <1>12, <1>13, <1>14, <1>15, <1>16, <1>17, <1>18 DEF Step, Advance

(* The invariant of every reachable state, whichever processes crash.       *)
THEOREM Inductive == Spec => []IInv
<1>1. IInv /\ UNCHANGED vars => IInv'
  BY DEF IInv, vars, disk, TypeOK, LockHeld, LoadsOnlyRead, DatabaseKnown,
    QuoteConverts, SavesDecided, CopyPrecedes, FreshUntilSaved, StagedWhole,
    LegacyCopied, IsLoad, IsRecord, Outcome, Book, Converted, LegacyGen
<1> QED
  BY IInvInit, IInvStep, <1>1, PTL DEF Spec

-----------------------------------------------------------------------------
(* The control state has the shape the code gives it.                       *)
THEOREM TypeCorrect == Spec => []TypeOK
  BY Inductive, PTL DEF IInv

(***************************************************************************)
(* No update is lost: what a mutation reloaded under .lock is still what   *)
(* the directory stands for when it writes (withTxn).                      *)
(***************************************************************************)
THEOREM NoLostUpdate == Spec => []FreshUntilSaved
  BY Inductive, PTL DEF IInv

(***************************************************************************)
(* Only a complete, flushed generation is ever renamed over a watch.db     *)
(* that does not exist (publishFirstGenerationLocked).                     *)
(***************************************************************************)
THEOREM NothingHalfPublished == Spec => []StagedWhole
  BY Inductive, PTL DEF IInv

(* A published database never supersedes a legacy pair that has no copy.    *)
THEOREM CopiedBeforeConverted == Spec => []LegacyCopied
  BY Inductive, PTL DEF IInv

(* The first publication is of a whole generation, and leaves a copy.       *)
THEOREM ConvertedSafely == Spec => []ConversionSafe
  BY NothingHalfPublished, CopiedBeforeConverted, PTL DEF ConversionSafe

(***************************************************************************)
(* No recovery ever sets aside a published database, however stale the     *)
(* observation that started it.                                            *)
(***************************************************************************)
THEOREM PublicationStays == Spec => PublishedStays
<1>1. IInv /\ Next => (db.kind = "published" => db'.kind = "published")
  <2> SUFFICES ASSUME IInv, NEW p \in Procs, Step(p), db.kind = "published"
               PROVE db'.kind = "published"
    BY DEF Next
  <2> USE DEF IInv, TypeOK, disk
  <2>1. CASE Recheck(p)
    BY <2>1 DEF Recheck, MayQuarantine
  <2>2. CASE Publish(p)
    BY <2>2 DEF Publish, StagedWhole
  <2>3. CASE Commit(p)
    BY <2>3 DEF Commit
  <2>4. CASE Tx(p)
    BY <2>4, TxWrites
  <2>5. CASE UNCHANGED db
    BY <2>5
  <2>6. \/ Recheck(p) \/ Publish(p) \/ Commit(p) \/ Tx(p) \/ UNCHANGED db
    BY DEF Step, Advance, Invoke, Reject, TakeLock, Stat, View, Reload, Json,
      ApplyTxn, SaveStat, Backup, Build, Sync, Return, Leave, Fault, Crash
  <2> QED
    BY <2>1, <2>2, <2>3, <2>4, <2>5, <2>6
<1>2. UNCHANGED vars => (db.kind = "published" => db'.kind = "published")
  BY DEF vars, disk
<1> QED
  BY Inductive, <1>1, <1>2, PTL DEF Spec, PublishedStays

(***************************************************************************)
(* A database with a point nobody can decode is never set aside, and only  *)
(* a quote's transaction changes it: whoever rewrites a whole generation   *)
(* has loaded one under the lock.                                          *)
(***************************************************************************)
THEOREM TornStays == Spec => TornKept
<1> DEFINE Kept == /\ UNCHANGED <<legacy, creating, quarantined, backedUp>>
                   /\ db'.kind \in {"published", "torn"}
                   /\ db' # db => \E p \in Procs : pc[p] = "tx" /\ IsRecord(p)
<1>1. IInv /\ Next => (db.kind = "torn" => Kept)
  <2> SUFFICES ASSUME IInv, NEW p \in Procs, Step(p), db.kind = "torn" PROVE Kept
    BY DEF Next
  <2> USE DEF IInv, DatabaseKnown, FirstLabels, disk
  <2>1. CASE Recheck(p)
    BY <2>1 DEF Recheck, MayQuarantine
  <2>2. CASE Backup(p) \/ Build(p) \/ Sync(p) \/ Publish(p) \/ Commit(p)
    BY <2>2 DEF Backup, Build, Sync, Publish, Commit
  <2>3. CASE Tx(p)
    <3>1. /\ UNCHANGED <<legacy, creating, quarantined, backedUp>>
          /\ db'.kind \in {"published", "torn"}
      BY <2>3, TxWrites DEF Writable
    <3>2. pc[p] = "tx" /\ IsRecord(p)
      BY <2>3 DEF Tx, QuoteConverts
    <3> QED
      BY <3>1, <3>2
  <2>4. CASE Fault(p)
    BY <2>4 DEF Fault
  <2>5. CASE UNCHANGED disk
    BY <2>5
  <2>6. \/ Recheck(p) \/ Tx(p) \/ Fault(p) \/ UNCHANGED disk
        \/ Backup(p) \/ Build(p) \/ Sync(p) \/ Publish(p) \/ Commit(p)
    BY DEF Step, Advance, Invoke, Reject, TakeLock, Stat, View, Reload, Json,
      ApplyTxn, SaveStat, Return, Leave, Crash
  <2> QED
    BY <2>1, <2>2, <2>3, <2>4, <2>5, <2>6
<1>2. UNCHANGED vars => (db.kind = "torn" => Kept)
  BY DEF vars, disk
<1> QED
  BY Inductive, <1>1, <1>2, PTL DEF Spec, TornKept

(***************************************************************************)
(* A database with a newer schema, or watches nobody can decode, keeps its *)
(* directory as it is: every step that would write has seen another kind   *)
(* under the lock, and a quote's transaction refuses that one.             *)
(***************************************************************************)
THEOREM AlienKept == Spec => AlienUntouched
<1>1. IInv /\ Next => (db.kind = "alien" => UNCHANGED disk)
  <2> SUFFICES ASSUME IInv, NEW p \in Procs, Step(p), db.kind = "alien"
               PROVE UNCHANGED disk
    BY DEF Next
  <2> USE DEF IInv, DatabaseKnown, FirstLabels, disk
  <2>1. CASE Recheck(p)
    BY <2>1 DEF Recheck, MayQuarantine
  <2>2. CASE Backup(p) \/ Build(p) \/ Sync(p) \/ Publish(p) \/ Commit(p)
    BY <2>2 DEF Backup, Build, Sync, Publish, Commit
  <2>3. CASE Tx(p)
    BY <2>3 DEF Tx, Writable
  <2>4. CASE Fault(p)
    BY <2>4 DEF Fault
  <2>5. CASE UNCHANGED disk
    BY <2>5
  <2>6. \/ Recheck(p) \/ Tx(p) \/ Fault(p) \/ UNCHANGED disk
        \/ Backup(p) \/ Build(p) \/ Sync(p) \/ Publish(p) \/ Commit(p)
    BY DEF Step, Advance, Invoke, Reject, TakeLock, Stat, View, Reload, Json,
      ApplyTxn, SaveStat, Return, Leave, Crash
  <2> QED
    BY <2>1, <2>2, <2>3, <2>4, <2>5, <2>6
<1>2. UNCHANGED vars => (db.kind = "alien" => UNCHANGED disk)
  BY DEF vars
<1> QED
  BY Inductive, <1>1, <1>2, PTL DEF Spec, AlienUntouched

(* No recovery sets aside or writes over a database with somebody's data.   *)
THEOREM DatabaseKept == Spec => DatabaseRespected
  BY PublicationStays, TornStays, AlienKept DEF DatabaseRespected

-----------------------------------------------------------------------------
(***************************************************************************)
(* The published generation.  Only Publish, Commit and Tx write it: the    *)
(* first from the legacy pair, which nothing changes, the others from the  *)
(* generation that is published already.                                   *)
(***************************************************************************)
LegacyKept == legacy \in InitLegacies

PublishedInv == LegacyKept /\ PricedPairs /\ GenerationSound

(* What a writer reloaded before the first publication is in order, and no  *)
(* request clashes with it.                                                 *)
LEMMA FirstRead ==
  ASSUME LegacyKept, PricedPairs, db.kind = "none", NEW r \in Requests
  PROVE  /\ Askable(r) /\ Unused(Canonical(Book), r) /\ Normal(Canonical(Book))
         /\ ~legacy.present => Sound(Canonical(Book))
         /\ OneEach(Book) => OneEach(Canonical(Book))
<1>1. Askable(r) /\ (legacy.present => Unused(legacy.gen, r))
  BY RequestAssumption DEF LegacyKept
<1>2. CASE legacy.present
  <2>1. Book = legacy.gen /\ Loadable(legacy.gen)
    BY <1>2, StartAssumption DEF LegacyKept, PricedPairs, Loadable, Book, Converted, LegacyGen
  <2>2. /\ Normal(Canonical(Book)) /\ (OneEach(Book) => OneEach(Canonical(Book)))
        /\ IdsOf(Canonical(Book)) = IdsOf(Book)
        /\ DOMAIN Canonical(Book).history = DOMAIN Book.history
        /\ \A k \in DOMAIN Book.history : Canonical(Book).history[k].id = Book.history[k].id
    BY <2>1, CanonicalLoads
  <2>3. Unused(Canonical(Book), r)
    BY <1>1, <1>2, <2>1, <2>2 DEF Unused
  <2> QED
    BY <1>1, <1>2, <2>2, <2>3
<1>3. CASE ~legacy.present
  <2>1. Book = Empty /\ Canonical(Book) = Empty
    BY <1>3, EmptySound, CanonicalOfSound DEF Book, Converted, LegacyGen
  <2>2. Sound(Canonical(Book)) /\ Normal(Canonical(Book))
    BY <2>1, EmptySound
  <2> QED
    BY <1>1, <2>1, <2>2, SoundUnused
<1> QED
  BY <1>2, <1>3

(* It holds at the start.                                                   *)
LEMMA PublishedInit == PricedPairs /\ Init => PublishedInv
<1> SUFFICES ASSUME PricedPairs, Init PROVE PublishedInv
  OBVIOUS
<1>1. db \in InitDbs /\ legacy \in InitLegacies
  BY DEF Init
<1>2. db.kind \in {"published", "torn"} => Sound(db.gen)
  BY <1>1, StartAssumption, Zenon
<1> QED
  BY <1>1, <1>2 DEF PublishedInv, LegacyKept, GenerationSound, Writable

(* No step publishes a generation that is not sound or changes the legacy   *)
(* pair.                                                                    *)
LEMMA PublishedStep == IInv /\ PublishedInv /\ Next => PublishedInv'
<1> SUFFICES ASSUME IInv, PublishedInv, NEW p \in Procs, Step(p) PROVE PublishedInv'
  BY DEF Next
<1> USE DEF PublishedInv
<1>t. /\ db = [kind |-> db.kind, gen |-> db.gen]
      /\ ~IsLoad(p) => request[p] \in Requests
  BY DEF IInv, TypeOK, IsLoad
<1>1. LegacyKept'
  <2>1. UNCHANGED legacy
    BY DEF Step, Advance, Invoke, Reject, TakeLock, Stat, View, Recheck, Reload, Json,
      ApplyTxn, SaveStat, Backup, Build, Sync, Publish, Commit, Tx, Return, Leave,
      Fault, Crash, disk
  <2> QED
    BY <2>1 DEF LegacyKept
<1>2. CASE Recheck(p)
  <2>1. db'.kind = "none" \/ UNCHANGED db
    BY <1>t, <1>2 DEF Recheck
  <2> QED
    BY <1>1, <2>1 DEF GenerationSound, Writable
<1>3. CASE Publish(p)
  <2>1. /\ mem[p] = Canonical(Book) /\ ~IsLoad(p) /\ db.kind = "none"
    BY <1>3 DEF IInv, FreshUntilSaved, ReloadedLabels, LoadsOnlyRead,
      SavingLabels, FirstLabels, StagedWhole, Publish
  <2>2. /\ Askable(request[p]) /\ Unused(mem[p], request[p]) /\ Normal(mem[p])
        /\ ~legacy.present => Sound(mem[p])
    BY <1>t, <2>1, FirstRead
  <2>3. Normal(Written(p)) /\ (~legacy.present => Sound(Written(p)))
    <3>1. CASE IsRecord(p)
      BY <2>2, <3>1 DEF Written
    <3>2. CASE ~IsRecord(p)
      <4>1. Effect(mem[p], request[p]).verdict = "save" /\ Written(p) = Effect(mem[p], request[p]).gen
        BY <1>3, <3>2 DEF IInv, SavesDecided, SavingLabels, FirstLabels, Publish, Written, Outcome
      <4> QED
        BY <2>2, <4>1, EffectKeeps
    <3> QED
      BY <3>1, <3>2
  <2>4. Sound(FirstGeneration(p))
    BY <2>3, CompactSound DEF FirstGeneration
  <2>5. db'.gen = FirstGeneration(p)
    BY <1>3 DEF Publish
  <2> QED
    BY <1>1, <2>4, <2>5 DEF GenerationSound
<1>4. CASE Commit(p)
  <2>1. /\ mem[p] = Canonical(Book) /\ ~IsLoad(p) /\ ~IsRecord(p)
        /\ db.kind = "published" /\ Outcome(p).verdict = "save"
    BY <1>4 DEF IInv, FreshUntilSaved, ReloadedLabels, LoadsOnlyRead, SavesDecided,
      SavingLabels, QuoteConverts, DatabaseKnown, Commit
  <2>2. Sound(db.gen) /\ mem[p] = db.gen
    BY <2>1, CanonicalOfSound DEF GenerationSound, Writable, Book, Converted
  <2>3. Askable(request[p]) /\ Unused(db.gen, request[p]) /\ Normal(db.gen)
    BY <1>t, <2>1, <2>2, RequestAssumption, SoundUnused, SoundNormal
  <2>4. Sound(Effect(db.gen, request[p]).gen)
    BY <2>1, <2>2, <2>3, EffectKeeps DEF Outcome
  <2>5. db'.gen = Effect(db.gen, request[p]).gen
    BY <1>4, <2>1, <2>2 DEF Commit, Written, Outcome
  <2> QED
    BY <1>1, <2>4, <2>5 DEF GenerationSound
<1>5. CASE Tx(p)
  <2> DEFINE e == Effect(db.gen, request[p])
  <2>1. CASE UNCHANGED db
    BY <1>1, <2>1 DEF GenerationSound, Writable
  <2>2. CASE Writable /\ e.verdict = "save" /\ db'.gen = e.gen
    <3>1. ~IsLoad(p)
      BY <1>5 DEF IInv, LoadsOnlyRead, Tx
    <3>2. Sound(db.gen) /\ Askable(request[p]) /\ Unused(db.gen, request[p]) /\ Normal(db.gen)
      BY <1>t, <2>2, <3>1, RequestAssumption, SoundUnused, SoundNormal DEF GenerationSound
    <3>3. Sound(e.gen)
      BY <2>2, <3>2, EffectKeeps
    <3> QED
      BY <1>1, <2>2, <3>3 DEF GenerationSound
  <2> QED
    BY <1>5, <2>1, <2>2, TxWrites DEF IInv
<1>6. CASE UNCHANGED db
  BY <1>1, <1>6 DEF GenerationSound, Writable
<1>7. Recheck(p) \/ Publish(p) \/ Commit(p) \/ Tx(p) \/ UNCHANGED db
  BY DEF Step, Advance, Invoke, Reject, TakeLock, Stat, View, Reload, Json,
    ApplyTxn, SaveStat, Backup, Build, Sync, Return, Leave, Fault, Crash, disk
<1> QED
  BY <1>2, <1>3, <1>4, <1>5, <1>6, <1>7

(***************************************************************************)
(* Whatever is published is sound, the first generation included: for any  *)
(* caps, currencies, processes and requests, and from any old pair, with   *)
(* duplicates, orphans and foreign points, in which every watch with       *)
(* points has seen a price.                                                *)
(***************************************************************************)
THEOREM AlwaysSound == PricedPairs => (Spec => []GenerationSound)
<1> SUFFICES ASSUME PricedPairs PROVE Spec => []GenerationSound
  OBVIOUS
<1>1. PublishedInv /\ UNCHANGED vars => PublishedInv'
  BY DEF PublishedInv, vars, disk, LegacyKept, GenerationSound, Writable
<1>2. Init => PublishedInv
  BY PublishedInit
<1> QED
  BY Inductive, <1>2, PublishedStep, <1>1, PTL DEF Spec, PublishedInv

(***************************************************************************)
(* No step makes a second watch of a target, from the same pairs: Add      *)
(* looks for the target in what it reloaded, which is what the directory   *)
(* stands for, and no other operation adds a watch or changes a target.    *)
(***************************************************************************)
THEOREM NeverTwice == PricedPairs => (Spec => NoNewDuplicates)
<1> SUFFICES ASSUME PricedPairs PROVE Spec => NoNewDuplicates
  OBVIOUS
<1>1. IInv /\ PublishedInv /\ Next => (OneEach(Book) => OneEach(Book'))
  <2> SUFFICES ASSUME IInv, PublishedInv, NEW p \in Procs, Step(p), OneEach(Book)
               PROVE  OneEach(Book')
    BY DEF Next
  <2>t. ~IsLoad(p) => request[p] \in Requests
    BY DEF IInv, TypeOK, IsLoad
  <2>1. CASE Publish(p)
    <3>1. /\ mem[p] = Canonical(Book) /\ ~IsLoad(p) /\ db.kind = "none"
          /\ creating = "whole"
      BY <2>1 DEF IInv, FreshUntilSaved, ReloadedLabels, LoadsOnlyRead,
        SavingLabels, FirstLabels, StagedWhole, Publish
    <3>2. /\ Askable(request[p]) /\ Unused(mem[p], request[p]) /\ Normal(mem[p])
          /\ OneEach(mem[p])
      BY <2>t, <3>1, FirstRead DEF PublishedInv
    <3>3. Normal(Written(p)) /\ OneEach(Written(p))
      <4>1. CASE IsRecord(p)
        BY <3>2, <4>1 DEF Written
      <4>2. CASE ~IsRecord(p)
        <5>1. /\ Effect(mem[p], request[p]).verdict = "save"
              /\ Written(p) = Effect(mem[p], request[p]).gen
          BY <2>1, <4>2 DEF IInv, SavesDecided, SavingLabels, FirstLabels, Publish,
            Written, Outcome
        <5> QED
          BY <3>2, <5>1, EffectKeeps
      <4> QED
        BY <4>1, <4>2
    <3>4. OneEach(FirstGeneration(p))
      BY <3>3, CompactSound DEF FirstGeneration, OneEach
    <3>5. Book' = FirstGeneration(p)
      BY <2>1, <3>1 DEF Publish, Book, Converted
    <3> QED
      BY <3>4, <3>5
  <2>2. CASE Commit(p)
    <3>1. /\ mem[p] = Canonical(Book) /\ ~IsLoad(p) /\ ~IsRecord(p)
          /\ db.kind = "published" /\ Outcome(p).verdict = "save"
      BY <2>2 DEF IInv, FreshUntilSaved, ReloadedLabels, LoadsOnlyRead, SavesDecided,
        SavingLabels, QuoteConverts, DatabaseKnown, Commit
    <3>2. Sound(db.gen) /\ mem[p] = db.gen /\ OneEach(db.gen)
      BY <3>1, CanonicalOfSound DEF PublishedInv, GenerationSound, Writable, Book, Converted
    <3>3. Askable(request[p]) /\ Unused(db.gen, request[p]) /\ Normal(db.gen)
      BY <2>t, <3>1, <3>2, RequestAssumption, SoundUnused, SoundNormal
    <3>4. OneEach(Effect(db.gen, request[p]).gen)
      BY <3>1, <3>2, <3>3, EffectKeeps DEF Outcome
    <3>5. Book' = Effect(db.gen, request[p]).gen
      BY <2>2, <3>1, <3>2 DEF Commit, Written, Outcome, Book, Converted
    <3> QED
      BY <3>4, <3>5
  <2>3. CASE Tx(p) /\ ~UNCHANGED db
    <3> DEFINE e == Effect(db.gen, request[p])
    <3>1. /\ Writable /\ e.verdict = "save" /\ db'.gen = e.gen /\ Writable'
      BY <2>3, TxWrites DEF IInv
    <3>2. ~IsLoad(p) /\ Sound(db.gen) /\ OneEach(db.gen)
      BY <2>3, <3>1 DEF IInv, LoadsOnlyRead, Tx, PublishedInv, GenerationSound, Writable,
        Book, Converted
    <3>3. Askable(request[p]) /\ Unused(db.gen, request[p]) /\ Normal(db.gen)
      BY <2>t, <3>2, RequestAssumption, SoundUnused, SoundNormal
    <3>4. OneEach(e.gen)
      BY <3>1, <3>2, <3>3, EffectKeeps
    <3>5. Book' = e.gen
      BY <3>1 DEF Writable, Book, Converted
    <3> QED
      BY <3>4, <3>5
  <2>4. CASE UNCHANGED <<db, legacy>>
    BY <2>4 DEF Book, Converted, LegacyGen
  <2>5. CASE Recheck(p)
    BY <2>5 DEF IInv, TypeOK, Recheck, MayQuarantine, Book, Converted, LegacyGen
  <2>6. Publish(p) \/ Commit(p) \/ (Tx(p) /\ ~UNCHANGED db) \/ Recheck(p) \/ UNCHANGED <<db, legacy>>
    BY DEF Step, Advance, Invoke, Reject, TakeLock, Stat, View, Reload, Json,
      ApplyTxn, SaveStat, Backup, Build, Sync, Tx, Return, Leave, Fault, Crash, disk
  <2> QED
    BY <2>1, <2>2, <2>3, <2>4, <2>5, <2>6
<1>2. UNCHANGED vars => (OneEach(Book) => OneEach(Book'))
  BY DEF vars, disk, Book, Converted, LegacyGen
<1>3. PublishedInv /\ UNCHANGED vars => PublishedInv'
  BY DEF PublishedInv, vars, disk, LegacyKept, GenerationSound, Writable
<1>4. Init => PublishedInv
  BY PublishedInit
<1> QED
  BY Inductive, PublishedStep, <1>1, <1>2, <1>3, <1>4, PTL DEF Spec, NoNewDuplicates

-----------------------------------------------------------------------------
(***************************************************************************)
(* The refinement.  A step of one process moves only its own phase, and    *)
(* is one of the ledger's operations or none.                              *)
(***************************************************************************)
Phases == [q \in Procs |-> PhaseOf(q)]

(* A step of one process leaves the phases of the others.                   *)
LEMMA OwnPhase ==
  ASSUME TypeOK, NEW p \in Procs, NEW label, Goto(p, label),
         \A q \in Procs : q # p => request'[q] = request[q]
  PROVE  Phases' = [Phases EXCEPT ![p] = PhaseOf(p)']
<1> SUFFICES ASSUME NEW q \in Procs, q # p PROVE PhaseOf(q)' = PhaseOf(q)
  BY DEF Phases
<1> QED
  BY DEF TypeOK, Goto, PhaseOf, IsLoad

(* Moving between labels of the same phase is no step of the ledger.         *)
LEMMA Busy ==
  ASSUME TypeOK, NEW p \in Procs, NEW label, Goto(p, label),
         UNCHANGED <<request, reply>>, PhaseOf(p)' = PhaseOf(p),
         Book' = Book,
         Converted' = Converted
  PROVE  UNCHANGED Ledger!ledgerVars
<1>1. Phases' = [Phases EXCEPT ![p] = PhaseOf(p)']
  BY OwnPhase
<1>2. Phases' = Phases
  BY <1>1 DEF Phases
<1> QED
  BY <1>2 DEF Ledger!ledgerVars, Phases

(* An operation that ends with an error has not touched the book.            *)
LEMMA Refused ==
  ASSUME TypeOK, NEW p \in Procs, PhaseOf(p) = "called", Finish(p, Errored),
         UNCHANGED request, Book' = Book,
         Converted' = Converted
  PROVE  Ledger!Refuse(p)
<1>1. Phases' = [Phases EXCEPT ![p] = PhaseOf(p)']
  BY OwnPhase DEF Finish
<1>2. PhaseOf(p)' = "replied"
  BY DEF Finish, Goto, TypeOK, PhaseOf
<1> QED
  BY <1>1, <1>2 DEF Ledger!Refuse, Ledger!Answer, Ledger!Errored, Errored,
    Finish, Phases

(* A Load that has its generation has read the book.                         *)
LEMMA HasRead ==
  ASSUME TypeOK, NEW p \in Procs, PhaseOf(p) = "called", PhaseOf(p)' = "replied",
         IsLoad(p), NEW label, Goto(p, label), UNCHANGED request,
         reply' = [reply EXCEPT ![p] = Loaded(Canonical(Book))], Book' = Book,
         Converted' = Converted
  PROVE  Ledger!Read(p)
<1>1. Phases' = [Phases EXCEPT ![p] = PhaseOf(p)']
  BY OwnPhase
<1> QED
  BY <1>1 DEF Ledger!Read, Ledger!Answer, Ledger!Loaded, Loaded, IsLoad, Phases

(* The call is over.                                                         *)
LEMMA Over ==
  ASSUME TypeOK, NEW p \in Procs, pc[p] # "idle", Leave(p)
  PROVE  Ledger!Die(p)
<1>1. Phases' = [Phases EXCEPT ![p] = PhaseOf(p)']
  BY OwnPhase DEF Leave, TypeOK
<1>2. PhaseOf(p)' = "idle"
  BY DEF Leave, Goto, TypeOK, PhaseOf
<1>3. PhaseOf(p) # "idle"
  BY DEF PhaseOf
<1> QED
  BY <1>1, <1>2, <1>3 DEF Ledger!Die, Ledger!Forget, Ledger!Errored, Errored,
    Leave, disk, Book, Converted, LegacyGen, Phases

(* A mutation that skips or commits has applied to the book as it stood.     *)
LEMMA Applied ==
  ASSUME TypeOK, NEW p \in Procs, PhaseOf(p) = "called", ~IsLoad(p),
         UNCHANGED request, NEW g \in {Book, Canonical(Book)},
         NEW e, e = Effect(g, request[p]), e.verdict \in {"save", "skip"},
         Finish(p, Done(e.out)),
         e.verdict = "save" =>
           Converted' /\ Book' \in IF Converted THEN {e.gen} ELSE {e.gen, Compact(e.gen)},
         e.verdict = "skip" => Book' = Book /\ Converted' = Converted
  PROVE  Ledger!Apply(p)
<1>1. Phases' = [Phases EXCEPT ![p] = PhaseOf(p)']
  BY OwnPhase DEF Finish
<1>2. PhaseOf(p)' = "replied"
  BY DEF Finish, Goto, TypeOK, PhaseOf
<1>3. Ledger!Answer(p, Ledger!Done(e.out))
  BY <1>1, <1>2 DEF Ledger!Answer, Ledger!Done, Done, Finish, Phases
<1> QED
  BY <1>3 DEF Ledger!Apply, IsLoad

(* The store begins as the ledger does.                                     *)
LEMMA RefinementInit == Init => Ledger!LedgerInit
  BY DEF Init, Ledger!LedgerInit, PhaseOf, Ledger!Errored, Errored

(* Every step is an operation of the ledger, or none.                       *)
LEMMA RefinementStep == IInv /\ Next => Ledger!LedgerNext \/ UNCHANGED Ledger!ledgerVars
<1> SUFFICES ASSUME IInv, NEW p \in Procs, Step(p)
             PROVE  \/ \E r \in Requests \union {Loading} : Ledger!Call(p, r)
                    \/ Ledger!Read(p) \/ Ledger!Apply(p) \/ Ledger!Refuse(p)
                    \/ Ledger!Die(p) \/ Ledger!Convert
                    \/ UNCHANGED Ledger!ledgerVars
  BY DEF Next, Ledger!LedgerNext
<1> DEFINE Kept == /\ Book' = Book
                   /\ Converted' = Converted
<1>t. TypeOK
  BY DEF IInv
<1> USE <1>t
<1>k. UNCHANGED <<db, legacy>> => Kept
  BY DEF Book, Converted, LegacyGen
<1>0. ASSUME NEW r \in Requests \union {Loading}, Invoke(p, r) PROVE Ledger!Call(p, r)
  <2>1. PICK label : Goto(p, label) /\ label \in {"stat", "lock", "refused"}
    BY <1>0 DEF Invoke
  <2>2. Phases' = [Phases EXCEPT ![p] = PhaseOf(p)']
    BY <1>0, <2>1, OwnPhase DEF Invoke, TypeOK
  <2>3. PhaseOf(p) = "idle" /\ PhaseOf(p)' = "called"
    BY <1>0, <2>1 DEF Invoke, Goto, PhaseOf, TypeOK
  <2> QED
    BY <1>0, <1>k, <2>2, <2>3 DEF Ledger!Call, Invoke, disk, Phases
<1>1. CASE Reject(p)
  BY <1>1, <1>k, Refused DEF Reject, disk, PhaseOf
<1>2. CASE TakeLock(p)
  BY <1>2, <1>k, Busy DEF TakeLock, disk, PhaseOf, Goto, TypeOK, IsLoad
<1>3. CASE Stat(p)
  <2>1. CASE IsLoad(p) /\ db.kind = "none"
    BY <1>3, <1>k, <2>1, HasRead DEF Stat, disk, PhaseOf, Goto, TypeOK, IsLoad, Book, Converted
  <2>2. CASE ~(IsLoad(p) /\ db.kind = "none")
    BY <1>3, <1>k, <2>2, Busy DEF Stat, disk, PhaseOf, Goto, TypeOK, IsLoad
  <2> QED
    BY <2>1, <2>2
<1>4. CASE View(p)
  <2>1. CASE db.kind = "published" /\ IsLoad(p)
    BY <1>4, <1>k, <2>1, HasRead DEF View, Deliver, Finish, disk, PhaseOf, Goto,
      TypeOK, IsLoad, Book, Converted
  <2>2. CASE db.kind = "bare" \/ (db.kind = "published" /\ ~IsLoad(p))
    BY <1>4, <1>k, <2>2, Busy DEF View, Deliver, disk, PhaseOf, Goto, TypeOK, IsLoad
  <2>3. CASE db.kind \notin {"bare", "published"}
    BY <1>4, <1>k, <2>3, Refused DEF View, disk, PhaseOf
  <2> QED
    BY <2>1, <2>2, <2>3
<1>5. CASE Recheck(p)
  <2>1. CASE MayQuarantine
    <3>1. Kept
      BY <1>5, <2>1 DEF Recheck, MayQuarantine, Book, Converted, LegacyGen, TypeOK
    <3>2. CASE IsLoad(p)
      BY <1>5, <2>1, <3>1, <3>2, HasRead DEF Recheck, MayQuarantine, PhaseOf,
        Goto, TypeOK, IsLoad, Book, Converted
    <3>3. CASE ~IsLoad(p)
      BY <1>5, <2>1, <3>1, <3>3, Busy DEF Recheck, PhaseOf, Goto, TypeOK, IsLoad
    <3> QED
      BY <3>2, <3>3
  <2>2. CASE ~MayQuarantine /\ db.kind = "published"
    BY <1>5, <1>k, <2>2, Busy DEF Recheck, PhaseOf, Goto, TypeOK, IsLoad
  <2>3. CASE ~MayQuarantine /\ db.kind # "published"
    BY <1>5, <1>k, <2>3, Refused DEF Recheck, PhaseOf
  <2> QED
    BY <2>1, <2>2, <2>3
<1>6. CASE Reload(p)
  <2>1. CASE db.kind = "published" /\ IsLoad(p)
    BY <1>6, <1>k, <2>1, HasRead DEF Reload, Deliver, Finish, disk, PhaseOf, Goto,
      TypeOK, IsLoad, Book, Converted
  <2>2. CASE db.kind = "published" /\ ~IsLoad(p)
    BY <1>6, <1>k, <2>2, Busy DEF Reload, Deliver, disk, PhaseOf, Goto, TypeOK, IsLoad
  <2>3. CASE db.kind # "published"
    BY <1>6, <1>k, <2>3, Refused DEF Reload, disk, PhaseOf
  <2> QED
    BY <2>1, <2>2, <2>3
<1>7. CASE Json(p)
  BY <1>7, <1>k, Busy DEF Json, disk, PhaseOf, Goto, TypeOK, IsLoad
<1>8. CASE ApplyTxn(p)
  <2> USE DEF ApplyTxn, disk
  <2>1. CASE Outcome(p).verdict = "save"
    BY <1>8, <1>k, <2>1, Busy DEF PhaseOf, Goto, TypeOK, IsLoad
  <2>2. CASE Outcome(p).verdict = "skip"
    <3>1. mem[p] = Canonical(Book) /\ ~IsLoad(p) /\ PhaseOf(p) = "called"
      BY <1>8 DEF IInv, FreshUntilSaved, ReloadedLabels, LoadsOnlyRead, PhaseOf
    <3> QED
      BY <1>8, <1>k, <2>2, <3>1, Applied DEF Outcome
  <2>3. CASE Outcome(p).verdict \notin {"save", "skip"}
    BY <1>8, <1>k, <2>3, Refused DEF PhaseOf
  <2> QED
    BY <2>1, <2>2, <2>3
<1>9. CASE SaveStat(p) \/ Backup(p) \/ Build(p) \/ Sync(p)
  BY <1>9, <1>k, Busy DEF SaveStat, Backup, Build, Sync, disk, PhaseOf, Goto,
    TypeOK, IsLoad
<1>10. CASE Publish(p)
  <2>1. /\ mem[p] = Canonical(Book) /\ ~IsLoad(p) /\ PhaseOf(p) = "called"
        /\ db.kind = "none" /\ creating = "whole"
    BY <1>10 DEF IInv, FreshUntilSaved, ReloadedLabels, LoadsOnlyRead,
      SavingLabels, FirstLabels, StagedWhole, Publish, PhaseOf
  <2>2. ~Converted /\ Converted' /\ Book' = FirstGeneration(p)
    BY <1>10, <2>1 DEF Publish, Book, Converted
  <2>3. CASE IsRecord(p)
    <3>1. Phases' = [Phases EXCEPT ![p] = PhaseOf(p)'] /\ PhaseOf(p)' = "called"
      BY <1>10, <2>3, OwnPhase DEF Publish, PhaseOf, Goto, TypeOK
    <3>2. Phases' = Phases
      BY <2>1, <3>1 DEF Phases
    <3>3. Book' \in {Canonical(Book), Compact(Canonical(Book))}
      BY <2>1, <2>2, <2>3 DEF FirstGeneration, Written
    <3> QED
      BY <1>10, <2>1, <2>2, <2>3, <3>2, <3>3 DEF Ledger!Convert, Publish, Phases
  <2>4. CASE ~IsRecord(p)
    <3>1. Outcome(p).verdict = "save"
      BY <1>10, <2>4 DEF IInv, SavesDecided, SavingLabels, FirstLabels, Publish
    <3>2. Book' \in {Outcome(p).gen, Compact(Outcome(p).gen)}
      BY <2>2, <2>4 DEF FirstGeneration, Written
    <3> QED
      BY <1>10, <2>1, <2>2, <2>4, <3>1, <3>2, Applied DEF Publish, Outcome
  <2> QED
    BY <2>3, <2>4
<1>11. CASE Commit(p)
  <2>1. /\ mem[p] = Canonical(Book) /\ ~IsLoad(p) /\ PhaseOf(p) = "called"
        /\ ~IsRecord(p) /\ db.kind = "published"
    BY <1>11 DEF IInv, FreshUntilSaved, ReloadedLabels, LoadsOnlyRead,
      SavingLabels, QuoteConverts, DatabaseKnown, Commit, PhaseOf
  <2>2. Outcome(p).verdict = "save"
    BY <1>11, <2>1 DEF IInv, SavesDecided, SavingLabels, Commit
  <2>3. Converted /\ Converted' /\ Book' = Outcome(p).gen
    BY <1>11, <2>1 DEF Commit, Book, Converted, Written
  <2> QED
    BY <1>11, <2>1, <2>2, <2>3, Applied DEF Commit, Outcome
<1>12. CASE Tx(p)
  <2> DEFINE e == Effect(db.gen, request[p])
  <2>1. ~IsLoad(p) /\ PhaseOf(p) = "called"
    BY <1>12 DEF IInv, LoadsOnlyRead, Tx, PhaseOf
  <2>2. CASE Writable /\ e.verdict = "save"
    <3>1. PICK k \in KindsAfter(e) : db' = [kind |-> k, gen |-> e.gen]
      BY <1>12, <2>2 DEF Tx
    <3>2. k \in {"published", "torn"}
      BY DEF KindsAfter
    <3>3. Converted /\ Converted' /\ Book = db.gen /\ Book' = e.gen
      BY <2>2, <3>1, <3>2 DEF Writable, Book, Converted
    <3>4. Finish(p, Done(e.out)) /\ UNCHANGED request
      BY <1>12, <2>2 DEF Tx
    <3> HIDE DEF e
    <3> QED
      BY <2>1, <2>2, <3>3, <3>4, Applied DEF e
  <2>3. CASE Writable /\ e.verdict = "skip"
    <3>1. Book = db.gen /\ Kept
      BY <1>12, <1>k, <2>3 DEF Tx, Writable, Book, Converted
    <3> QED
      BY <1>12, <2>1, <2>3, <3>1, Applied DEF Tx
  <2>4. CASE ~Writable \/ e.verdict \notin {"save", "skip"}
    BY <1>12, <1>k, <2>1, <2>4, Refused DEF Tx
  <2> QED
    BY <2>2, <2>3, <2>4
<1>13. CASE Return(p) \/ Crash(p)
  BY <1>13, Over DEF Return, Crash
<1>14. CASE Fault(p)
  BY <1>14, <1>k, Refused DEF Fault, Fallible, PhaseOf
<1> QED
  BY <1>0, <1>1, <1>2, <1>3, <1>4, <1>5, <1>6, <1>7, <1>8, <1>9, <1>10, <1>11,
    <1>12, <1>13, <1>14 DEF Step, Advance

(***************************************************************************)
(* The store implements the ledger: for any number of processes, failures  *)
(* and crashes, every operation takes effect on the book at one instant    *)
(* between its call and its return, or not at all.                         *)
(***************************************************************************)
THEOREM Implements == Spec => Linearizable
<1>1. UNCHANGED vars => UNCHANGED Ledger!ledgerVars
  BY DEF vars, disk, Ledger!ledgerVars, Book, Converted, LegacyGen, PhaseOf, IsLoad
<1> QED
  BY RefinementInit, RefinementStep, Inductive, <1>1, PTL
  DEF Spec, Linearizable, Ledger!LedgerSpec
=============================================================================
