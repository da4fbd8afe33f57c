------------------------------ MODULE WatchStore ------------------------------
(***************************************************************************)
(* The watch store of internal/watch as several processes run it against   *)
(* one ~/.trvl directory: the advisory lock .lock, the database watch.db   *)
(* and its first publication from the legacy JSON pair, the recovery of a  *)
(* database that never finished converting, and the two write paths        *)
(* (withTxn: reload, apply, rewrite; withBoltMutation: one transaction).   *)
(*                                                                         *)
(* Each process has one Store, whose mutex s.mu admits one operation at a  *)
(* time: pc[p] is that operation.  A step is one observation or change of  *)
(* the directory.  A database transaction is atomic on disk (bbolt); the   *)
(* lock is released by the kernel when its holder dies.                    *)
(***************************************************************************)
EXTENDS WatchGeneration

CONSTANTS
  Procs,
  Requests,       \* the mutations that may be asked for
  Loading,        \* the request of a plain Load
  NoProc,
  FailingProcs,   \* processes whose file operations may fail
  MaxQuarantine,  \* quarantined databases that may sit beside the store (100)
  InitDbs,        \* databases the directory may start with
  InitLegacies    \* legacy pairs the directory may start with

ASSUME ProcAssumption ==
  /\ NoProc \notin Procs
  /\ FailingProcs \subseteq Procs
  /\ MaxQuarantine \in Nat
  /\ Loading \notin Requests

DbKinds == {"none",      \* no file
            "bare",      \* a file with no schema and no data: neverPublished
            "published", \* a committed generation
            "torn",      \* one with a history point that cannot be decoded: no load
                         \* succeeds, but a quote never looks at the points
            "alien"}     \* one that every path refuses: a newer schema, watches that
                         \* cannot be decoded, a file that does not open

\* A database is as this code left it, the text of a point aside; old pairs may hold
\* several watches per target, orphans, foreign points and more than the caps.
ASSUME StartAssumption ==
  /\ \A d \in InitDbs :
       /\ d = [kind |-> d.kind, gen |-> d.gen] /\ d.kind \in DbKinds
       /\ d.kind \in {"published", "torn"} => Sound(d.gen)
  /\ \A l \in InitLegacies :
       l.present \in BOOLEAN /\ (l.present => l.gen \in Generations)

ASSUME RequestAssumption ==
  \A r \in Requests :
    Askable(r) /\ \A l \in InitLegacies : l.present => Unused(l.gen, r)

VARIABLES
  db,          \* watch.db: [kind, gen]; a torn point stands in gen as it was
  legacy,      \* watches.json and price-history.json: [present, gen]
  creating,    \* watch.db.creating: none, partial or whole
  quarantined, \* databases renamed to watch.db.unreadable*
  backedUp,    \* a timestamped copy of the legacy pair exists
  lock,        \* holder of .lock
  pc,          \* what each process's Store is doing
  mem,         \* the generation it reloaded under the lock
  request, reply,
  drawn        \* watch IDs shortID has returned

disk == <<db, legacy, creating, quarantined, backedUp>>
vars == <<disk, lock, pc, mem, request, reply, drawn>>

LegacyGen == IF legacy.present THEN legacy.gen ELSE Empty

\* Some generation was committed to the database; one that a quote can write.
Converted == db.kind \in {"published", "torn", "alien"}
Writable  == db.kind \in {"published", "torn"}

\* The generation the directory stands for.
Book == IF Converted THEN db.gen ELSE LegacyGen

Errored   == [status |-> "error"]
Loaded(g) == [status |-> "loaded", gen |-> g]
Done(out) == [status |-> "done", out |-> out]

IsLoad(p)   == request[p] = Loading
IsRecord(p) == ~IsLoad(p) /\ request[p].op = "record"
IsTxn(p)    == ~IsLoad(p) /\ request[p].op \in TxnOps

Init ==
  /\ db \in InitDbs
  /\ legacy \in InitLegacies
  /\ creating \in IF db.kind = "none" THEN {"none", "partial"} ELSE {"none"}
  /\ quarantined \in IF db.kind = "bare" THEN {0, MaxQuarantine} ELSE {0}
  /\ backedUp = Converted
  /\ lock = NoProc
  /\ pc = [p \in Procs |-> "idle"]
  /\ mem = [p \in Procs |-> Empty]
  /\ request = [p \in Procs |-> Loading]
  /\ reply = [p \in Procs |-> Errored]
  /\ drawn = {}

-----------------------------------------------------------------------------
Goto(p, label) == pc' = [pc EXCEPT ![p] = label]

\* The operation is over: its caller will see a, and the deferred unlock is due.
Finish(p, a) == Goto(p, "done") /\ reply' = [reply EXCEPT ![p] = a]

(* A public method is called.  Add validates its argument before it locks.  *)
Acceptable(r) == r.op = "add" => (Upper[r.wish.cur] = NoCur \/ ValidCode(Upper[r.wish.cur]))

Invoke(p, r) ==
  /\ pc[p] = "idle"
  /\ request' = [request EXCEPT ![p] = r]
  /\ IF r = Loading THEN Goto(p, "stat") /\ UNCHANGED drawn
     ELSE /\ Goto(p, IF Acceptable(r) THEN "lock" ELSE "refused")
          /\ IF r.op = "add" /\ Acceptable(r)
             THEN r.id \notin drawn /\ drawn' = drawn \union {r.id}
             ELSE UNCHANGED drawn
  /\ UNCHANGED <<disk, lock, mem, reply>>

Reject(p) ==
  /\ pc[p] = "refused"
  /\ Finish(p, Errored)
  /\ UNCHANGED <<disk, lock, mem, request, drawn>>

\* Mutant: the lock does not exclude (a platform without flock).
TakeLockShared(p) ==
  /\ pc[p] = "lock"
  /\ lock' = p
  /\ Goto(p, IF IsLoad(p) THEN "recheck" ELSE "stat")
  /\ UNCHANGED <<disk, mem, request, reply, drawn>>

(* acquireFileLock blocks until the lock is free.                           *)
TakeLock(p) ==
  /\ pc[p] = "lock" /\ lock = NoProc
  /\ lock' = p
  /\ Goto(p, IF IsLoad(p) THEN "recheck" ELSE "stat")
  /\ UNCHANGED <<disk, mem, request, reply, drawn>>

(* Stat of watch.db: its mere existence is what stops the legacy files from  *)
(* being read (loadLockedWithFileLock, prepareBoltLocked).                   *)
Stat(p) ==
  /\ pc[p] = "stat"
  /\ IF db.kind = "none"
     THEN /\ Goto(p, "json")
          /\ reply' = IF IsLoad(p) THEN [reply EXCEPT ![p] = Loaded(Canonical(LegacyGen))]
                      ELSE reply
     ELSE Goto(p, IF IsRecord(p) THEN "tx" ELSE "view") /\ UNCHANGED reply
  /\ UNCHANGED <<disk, lock, mem, request, drawn>>

\* The loaded generation goes to the caller of Load, or to the transaction.
Deliver(p, g) ==
  IF IsLoad(p) THEN Finish(p, Loaded(Canonical(g))) /\ UNCHANGED mem
  ELSE /\ mem' = [mem EXCEPT ![p] = Canonical(g)]
       /\ Goto(p, "apply") /\ UNCHANGED reply

\* Mutant: a point that cannot be decoded is passed over.
ViewLenient(p) ==
  /\ pc[p] = "view"
  /\ CASE Writable         -> Deliver(p, db.gen)
       [] db.kind = "bare" -> /\ Goto(p, IF lock = p THEN "recheck" ELSE "lock")
                              /\ UNCHANGED <<mem, reply>>
       [] OTHER            -> Finish(p, Errored) /\ UNCHANGED mem
  /\ UNCHANGED <<disk, lock, request, drawn>>

(* loadBoltLocked: one read-only transaction on whatever the file now is.    *)
View(p) ==
  /\ pc[p] = "view"
  /\ CASE db.kind = "published" -> Deliver(p, db.gen)
       [] db.kind = "bare"      -> /\ Goto(p, IF lock = p THEN "recheck" ELSE "lock")
                                   /\ UNCHANGED <<mem, reply>>
       [] OTHER                 -> Finish(p, Errored) /\ UNCHANGED mem
  /\ UNCHANGED <<disk, lock, request, drawn>>

\* Mutants: the file is renamed on the unlocked observation; the names run out.
MayQuarantineUnchecked == legacy.present /\ quarantined < MaxQuarantine
MayQuarantineUnbounded == db.kind = "bare" /\ legacy.present

(* quarantineUnreadableDatabaseFileLocked: the question is asked again under *)
(* the lock before the file is renamed aside.                                *)
MayQuarantine == db.kind = "bare" /\ legacy.present /\ quarantined < MaxQuarantine

Recheck(p) ==
  /\ pc[p] = "recheck"
  /\ IF MayQuarantine
     THEN /\ db' = [db EXCEPT !.kind = "none"]
          /\ quarantined' = quarantined + 1
          /\ Goto(p, "json")
          /\ reply' = IF IsLoad(p) THEN [reply EXCEPT ![p] = Loaded(Canonical(LegacyGen))]
                      ELSE reply
     ELSE /\ IF db.kind = "published" THEN Goto(p, "reload") /\ UNCHANGED reply
             ELSE Finish(p, Errored)
          /\ UNCHANGED <<db, quarantined>>
  /\ UNCHANGED <<legacy, creating, backedUp, lock, mem, request, drawn>>

(* A writer published while this process waited: its generation is loaded.   *)
Reload(p) ==
  /\ pc[p] = "reload"
  /\ IF db.kind = "published" THEN Deliver(p, db.gen)
     ELSE Finish(p, Errored) /\ UNCHANGED mem
  /\ UNCHANGED <<disk, lock, request, drawn>>

\* Mutant: the legacy texts are not canonicalised on their way in.
JsonVerbatim(p) ==
  /\ pc[p] = "json"
  /\ IF IsLoad(p) THEN Goto(p, "done") /\ UNCHANGED mem
     ELSE /\ mem' = [mem EXCEPT ![p] = LegacyGen]
          /\ Goto(p, IF IsRecord(p) THEN "save" ELSE "apply")
  /\ UNCHANGED <<disk, lock, request, reply, drawn>>

(* The legacy JSON pair, which nothing ever rewrites.                        *)
Json(p) ==
  /\ pc[p] = "json"
  /\ IF IsLoad(p) THEN Goto(p, "done") /\ UNCHANGED mem
     ELSE /\ mem' = [mem EXCEPT ![p] = Canonical(LegacyGen)]
          /\ Goto(p, IF IsRecord(p) THEN "save" ELSE "apply")
  /\ UNCHANGED <<disk, lock, request, reply, drawn>>

(* withTxn's callback, on the reloaded generation.                           *)
Outcome(p) == Effect(mem[p], request[p])

ApplyTxn(p) ==
  /\ pc[p] = "apply"
  /\ CASE Outcome(p).verdict = "save" -> Goto(p, "save") /\ UNCHANGED reply
       [] Outcome(p).verdict = "skip" -> Finish(p, Done(Outcome(p).out))
       [] OTHER                       -> Finish(p, Errored)
  /\ UNCHANGED <<disk, lock, mem, request, drawn>>

\* What this process is about to write: a quote's conversion writes what it read.
Written(p) == IF IsRecord(p) THEN mem[p] ELSE Outcome(p).gen

(* persistBoltLocked: a missing database means the first publication.        *)
SaveStat(p) ==
  /\ pc[p] = "save"
  /\ Goto(p, IF db.kind = "none" THEN "backup" ELSE "commit")
  /\ UNCHANGED <<disk, lock, mem, request, reply, drawn>>

\* Mutant: the conversion makes no copy.
BackupSkipped(p) ==
  /\ pc[p] = "backup"
  /\ Goto(p, "build")
  /\ UNCHANGED <<disk, lock, mem, request, reply, drawn>>

Backup(p) ==
  /\ pc[p] = "backup"
  /\ backedUp' = (backedUp \/ legacy.present)
  /\ Goto(p, "build")
  /\ UNCHANGED <<db, legacy, creating, quarantined, lock, mem, request, reply, drawn>>

\* Mutant: the rename does not wait for the flush.
BuildUnsynced(p) ==
  /\ pc[p] = "build"
  /\ creating' = "partial"
  /\ Goto(p, "publish")
  /\ UNCHANGED <<db, legacy, quarantined, backedUp, lock, mem, request, reply, drawn>>

(* publishFirstGenerationLocked: a leftover is removed and the generation is *)
(* assembled elsewhere, flushed, and renamed into place.                     *)
Build(p) ==
  /\ pc[p] = "build"
  /\ creating' = "partial"
  /\ Goto(p, "sync")
  /\ UNCHANGED <<db, legacy, quarantined, backedUp, lock, mem, request, reply, drawn>>

Sync(p) ==
  /\ pc[p] = "sync"
  /\ creating' = "whole"
  /\ Goto(p, "publish")
  /\ UNCHANGED <<db, legacy, quarantined, backedUp, lock, mem, request, reply, drawn>>

FirstGeneration(p) == IF legacy.present THEN Compact(Written(p)) ELSE Written(p)

Publish(p) ==
  /\ pc[p] = "publish"
  /\ db' = [kind |-> IF creating = "whole" THEN "published" ELSE "bare",
            gen  |-> FirstGeneration(p)]
  /\ creating' = "none"
  /\ IF IsRecord(p) THEN Goto(p, "tx") /\ UNCHANGED reply
     ELSE Finish(p, Done(Outcome(p).out))
  /\ UNCHANGED <<legacy, quarantined, backedUp, lock, mem, request, drawn>>

\* Mutant: the outcome of the write is not looked at.
CommitUnheeded(p) ==
  /\ pc[p] = "commit"
  /\ Finish(p, Done(Outcome(p).out))
  /\ UNCHANGED <<disk, lock, mem, request, drawn>>

(* The steady-state rewrite of the whole generation in one transaction.      *)
Commit(p) ==
  /\ pc[p] = "commit"
  /\ db' = [kind |-> "published", gen |-> Written(p)]
  /\ Finish(p, Done(Outcome(p).out))
  /\ UNCHANGED <<legacy, creating, quarantined, backedUp, lock, mem, request, drawn>>

\* Mutant: the schema is not validated before the transaction writes.
TxUnvalidated(p) ==
  LET e == Effect(db.gen, request[p])
  IN /\ pc[p] = "tx"
     /\ IF e.verdict = "save" THEN Finish(p, Done(e.out)) /\ db' = [db EXCEPT !.gen = e.gen]
        ELSE Finish(p, Errored) /\ UNCHANGED db
     /\ UNCHANGED <<legacy, creating, quarantined, backedUp, lock, mem, request, drawn>>

(* A purge and a cap drop points by their keys, unread: a torn one may go    *)
(* with them, and then every load succeeds again.                           *)
KindsAfter(e) ==
  LET left == Len(e.gen.history) - (IF e.out.point THEN 1 ELSE 0)
  IN IF db.kind = "published" \/ left = 0 THEN {"published"}
     ELSE IF left = Len(db.gen.history) THEN {"torn"} ELSE {"published", "torn"}

(* withBoltMutation: schema and watches are validated and re-read inside the *)
(* transaction that writes them, as they are stored; the history is not.    *)
Tx(p) ==
  LET e == Effect(db.gen, request[p])
  IN /\ pc[p] = "tx"
     /\ CASE Writable /\ e.verdict = "save" ->
               /\ Finish(p, Done(e.out))
               /\ \E k \in KindsAfter(e) : db' = [kind |-> k, gen |-> e.gen]
          [] Writable /\ e.verdict = "skip" -> Finish(p, Done(e.out)) /\ UNCHANGED db
          [] OTHER -> Finish(p, Errored) /\ UNCHANGED db
     /\ UNCHANGED <<legacy, creating, quarantined, backedUp, lock, mem, request, drawn>>

\* The operation is gone, and with it the process's hold on the lock.
Leave(p) ==
  /\ Goto(p, "idle")
  /\ lock' = IF lock = p THEN NoProc ELSE lock
  /\ mem' = [mem EXCEPT ![p] = Empty]
  /\ request' = [request EXCEPT ![p] = Loading]
  /\ reply' = [reply EXCEPT ![p] = Errored]
  /\ UNCHANGED <<disk, drawn>>

\* Mutant: an early return that forgets the deferred unlock.
ReturnLocked(p) ==
  /\ pc[p] = "done"
  /\ Goto(p, "idle")
  /\ UNCHANGED <<disk, lock, mem, request, reply, drawn>>

(* The method returns: its deferred releaseFileLock and s.mu.Unlock run.     *)
Return(p) == pc[p] = "done" /\ Leave(p)

\* A file operation fails: nothing is committed, and the staging file goes.
Fallible == {"lock", "stat", "view", "recheck", "reload", "save", "backup",
             "build", "sync", "publish", "commit", "tx"}

Fault(p) ==
  /\ p \in FailingProcs /\ pc[p] \in Fallible
  /\ Finish(p, Errored)
  /\ creating' = IF pc[p] \in {"sync", "publish"} THEN "none" ELSE creating
  /\ UNCHANGED <<db, legacy, quarantined, backedUp, lock, mem, request, drawn>>

\* The process dies; the kernel drops its lock and its next run starts afresh.
Crash(p) == pc[p] # "idle" /\ Leave(p)

\* A process that waits for nobody.
Advance(p) ==
  \/ Reject(p) \/ Stat(p) \/ View(p) \/ Recheck(p) \/ Reload(p) \/ Json(p)
  \/ ApplyTxn(p) \/ SaveStat(p) \/ Backup(p) \/ Build(p) \/ Sync(p)
  \/ Publish(p) \/ Commit(p) \/ Tx(p) \/ Return(p)

Step(p) ==
  \/ \E r \in Requests \union {Loading} : Invoke(p, r)
  \/ TakeLock(p) \/ Advance(p) \/ Fault(p) \/ Crash(p)

Next == \E p \in Procs : Step(p)

Spec == Init /\ [][Next]_vars

\* Running code keeps running; the kernel starves nobody who waits on .lock.
Fairness == \A p \in Procs : WF_vars(Advance(p)) /\ SF_vars(TakeLock(p))
FairSpec == Spec /\ Fairness

-----------------------------------------------------------------------------
\* The labels at which a Store holds .lock, and those of its read-modify-write
\* at which it relies on what it reloaded.
HoldingLabels == {"recheck", "reload", "apply", "save", "backup", "build",
                  "sync", "publish", "commit", "tx"}
ReloadedLabels == {"apply", "save", "backup", "build", "sync", "publish", "commit"}
Labels == {"idle", "refused", "lock", "stat", "view", "json", "done"} \union HoldingLabels

(***************************************************************************)
(* TypeOK: the control state has the shape the code gives it.              *)
(***************************************************************************)
TypeOK ==
  /\ db = [kind |-> db.kind, gen |-> db.gen] /\ db.kind \in DbKinds
  /\ legacy.present \in BOOLEAN
  /\ creating \in {"none", "partial", "whole"}
  /\ quarantined \in 0..MaxQuarantine
  /\ backedUp \in BOOLEAN
  /\ lock \in Procs \union {NoProc}
  /\ pc \in [Procs -> Labels]
  /\ mem = [p \in Procs |-> mem[p]] /\ reply = [p \in Procs |-> reply[p]]
  /\ request \in [Procs -> Requests \union {Loading}]

(***************************************************************************)
(* FreshUntilSaved: from the reload to the write, the generation in memory *)
(* is what the directory stands for, whatever the other processes did in   *)
(* between -- a check and the mutation it guards see the same store        *)
(* (txn.go, the fix for lost updates between processes, #512).             *)
(***************************************************************************)
FreshUntilSaved ==
  \A p \in Procs : pc[p] \in ReloadedLabels => mem[p] = Canonical(Book)

(***************************************************************************)
(* StagedWhole: what is about to be renamed over watch.db is a complete,   *)
(* flushed generation, also when an earlier attempt died and left its own  *)
(* staging file behind (publishFirstGenerationLocked).                     *)
(***************************************************************************)
StagedWhole ==
  \A p \in Procs : pc[p] = "publish" => creating = "whole" /\ db.kind = "none"

(***************************************************************************)
(* LegacyCopied: a database never supersedes a legacy pair that has no     *)
(* timestamped copy beside it (persistBoltLocked, backupLegacyLocked).     *)
(***************************************************************************)
LegacyCopied == Converted /\ legacy.present => backedUp

(* ConversionSafe: of a first publication, both.                            *)
ConversionSafe == StagedWhole /\ LegacyCopied

(***************************************************************************)
(* GenerationSound: what is published has canonical currency texts, points *)
(* of stored watches in their currency, and no more of them than the caps  *)
(* allow -- the first generation included, whatever orphans, foreign and   *)
(* surplus points the old pair held, and a database with a torn point too. *)
(* It takes PricedPairs: a quote purges the points of a watch only when    *)
(* the watch knows a price, and nothing makes an old pair bring it.        *)
(***************************************************************************)
PricedPairs == \A l \in InitLegacies : l.present => Priced(l.gen)

GenerationSound == Writable => Sound(db.gen)

(***************************************************************************)
(* NoNewDuplicates: once no target is watched twice, none ever is again,   *)
(* though several processes add it at once, through the conversion too     *)
(* (Store.Add's existence check; an old pair keeps the duplicates it has). *)
(***************************************************************************)
NoNewDuplicates == [][OneEach(Book) => OneEach(Book')]_vars

(***************************************************************************)
(* PublishedStays: once a generation is published, no reader's recovery    *)
(* ever sets the database aside, however stale the observation that made   *)
(* it try (the re-check inside the lock).                                  *)
(***************************************************************************)
PublishedStays == [][db.kind = "published" => db'.kind = "published"]_vars

(***************************************************************************)
(* TornKept: a database that holds a point nobody can decode is never set  *)
(* aside, and no rewrite of a whole generation, which could only be one    *)
(* without that point, goes over it: nothing but a quote's own transaction *)
(* changes it (loadBoltStateTx fails; withBoltMutation does not decode it).*)
(***************************************************************************)
TornKept ==
  [][db.kind = "torn" =>
       /\ UNCHANGED <<legacy, creating, quarantined, backedUp>>
       /\ db'.kind \in {"published", "torn"}
       /\ db' # db => \E p \in Procs : pc[p] = "tx" /\ IsRecord(p)]_vars

(***************************************************************************)
(* AlienUntouched: a database whose schema is newer, whose watches cannot  *)
(* be decoded or that does not open is neither renamed nor written,        *)
(* whatever is asked of it (validateBoltSchema and decodeWatches on both   *)
(* the read path and the quote's).                                         *)
(***************************************************************************)
AlienUntouched == [][db.kind = "alien" => UNCHANGED disk]_vars

(* DatabaseRespected: a database that holds somebody's data is no recovery's *)
(* to set aside or to write over.                                           *)
DatabaseRespected == PublishedStays /\ TornKept /\ AlienUntouched

(***************************************************************************)
(* EveryCallReturns: no operation waits for ever, in spite of crashes of   *)
(* lock holders and of recoveries that take the lock inside Load.          *)
(***************************************************************************)
EveryCallReturns == \A p \in Procs : (pc[p] # "idle") ~> (pc[p] = "idle")

(***************************************************************************)
(* Linearizable: the store implements the ledger.  An operation takes      *)
(* effect where its transaction commits; a Load from the legacy files where*)
(* it found no database.                                                   *)
(***************************************************************************)
PhaseOf(p) == IF pc[p] = "idle" THEN "idle"
              ELSE IF pc[p] = "done" \/ (pc[p] = "json" /\ IsLoad(p)) THEN "replied"
              ELSE "called"

Ledger == INSTANCE WatchLedger
  WITH Requests <- Requests \union {Loading},
       book <- Book, converted <- Converted,
       phase <- [p \in Procs |-> PhaseOf(p)]

Linearizable == Ledger!LedgerSpec
=============================================================================
