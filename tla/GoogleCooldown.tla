---------------------------- MODULE GoogleCooldown ----------------------------
(***************************************************************************)
(* The quiet period after a refusal by Google (batchexec/refusal.go and    *)
(* doWithRetryVia): calls to Google go one at a time, over all clients of  *)
(* the machine, through a mutex per client and a file lock; a call that is *)
(* declined arms a deadline in its client's memory and in a file, and      *)
(* nobody calls before it has passed.                                      *)
(*                                                                         *)
(* Modelled with its faults: the file lock may be out of order, a write    *)
(* may fail or be cut off after the file was truncated, and a process may  *)
(* die anywhere.  Each client is in a process of its own.  Time never runs *)
(* backwards.                                                              *)
(***************************************************************************)
EXTENDS Integers

CONSTANTS
  Clients, Calls, ClientOf,
  Attempts,  \* defaultMaxRetries + 1
  Waits,     \* what googleRefusalWait may choose
  Cap,       \* googleRefusalCap
  InitFiles, \* deadlines that earlier runs, or damage, may have left in the file
  MaxClock,  \* the bound of the model
  NoCall

ASSUME CooldownAssumption ==
  /\ ClientOf \in [Calls -> Clients] /\ NoCall \notin Calls
  /\ Attempts \in Nat \ {0} /\ Cap \in Nat \ {0} /\ Waits \subseteq 1..Cap
  /\ InitFiles \subseteq Nat /\ MaxClock \in Nat

VARIABLES
  clock,
  at,     \* where a call is
  tries,  \* requests a call has sent
  mutex,  \* googleMu of a client: the call that holds it
  lock,   \* the file lock
  mem,    \* refuseUntil of a client
  file,   \* the deadline in the cooldown file; 0 if none can be read from it
  sound,  \* history variable: no lock and no write has failed
  since   \* history variable: when Google last declined a call or, if it did not, a
          \* deadline was first learnt from the file; Never again when a process dies
          \* with a deadline that it had not begun to store

vars == <<clock, at, tries, mutex, lock, mem, file, sound, since>>

Never == -1

Init ==
  /\ clock = 0
  /\ at = [c \in Calls |-> "new"] /\ tries = [c \in Calls |-> 0]
  /\ mutex = [k \in Clients |-> NoCall] /\ lock = NoCall
  /\ mem = [k \in Clients |-> 0] /\ file \in InitFiles
  /\ sound = TRUE /\ since = Never

Later(a, b) == IF a > b THEN a ELSE b

Step(c, from, to) == at[c] = from /\ at' = [at EXCEPT ![c] = to]

\* Both locks are given back, as far as c holds them.
Release(c) ==
  /\ mutex' = [k \in Clients |-> IF mutex[k] = c THEN NoCall ELSE mutex[k]]
  /\ lock' = IF lock = c THEN NoCall ELSE lock

End(c, from) == Step(c, from, "over") /\ Release(c)

-----------------------------------------------------------------------------
(* beginGoogle.                                                             *)

Call(c) ==
  /\ Step(c, "new", "queued")
  /\ UNCHANGED <<clock, tries, mutex, lock, mem, file, sound, since>>

TakeMutex(c) ==
  /\ mutex[ClientOf[c]] = NoCall
  /\ Step(c, "queued", "locking")
  /\ mutex' = [mutex EXCEPT ![ClientOf[c]] = c]
  /\ UNCHANGED <<clock, tries, lock, mem, file, sound, since>>

TakeLock(c) ==
  /\ lock = NoCall /\ lock' = c
  /\ Step(c, "locking", "inside")
  /\ UNCHANGED <<clock, tries, mutex, mem, file, sound, since>>

(* "a lock problem must not fail the search"                                *)
GoWithoutLock(c) ==
  /\ Step(c, "locking", "inside")
  /\ sound' = FALSE
  /\ UNCHANGED <<clock, tries, mutex, lock, mem, file, since>>

(* The context ends, while the call waits for a lock or for an answer.      *)
ContextEnds(c) ==
  /\ \E from \in {"queued", "locking", "ready", "sent"} : End(c, from)
  /\ UNCHANGED <<clock, tries, mem, file, sound, since>>

\* Mutant: the deadline in the file is not looked at.
ForbiddenHere(c) == clock < mem[ClientOf[c]]

\* A deadline in memory or in the file is still ahead.
Forbidden(c) == clock < mem[ClientOf[c]] \/ clock < file

\* Mutant: the restored deadline is taken as it is.
BoundedNot == file

\* "bound it and store the bound"
Bounded == IF file > clock + Cap THEN clock + Cap ELSE file

\* The deadline of the file is learnt only if the memory had none.
Learn(c) ==
  /\ clock >= mem[ClientOf[c]]
  /\ mem' = [mem EXCEPT ![ClientOf[c]] = Bounded]
  /\ since' = IF since = Never THEN clock ELSE since

\* Mutant: the bound is not stored, and the next one to look bounds anew.
RefuseUnstored(c) ==
  /\ Forbidden(c) /\ End(c, "inside")
  /\ (clock < mem[ClientOf[c]] /\ UNCHANGED <<mem, since>>) \/ Learn(c)
  /\ UNCHANGED <<clock, tries, file, sound>>

(* beginGoogle gives up; a deadline that had to be bounded is stored first. *)
Refuse(c) ==
  /\ Forbidden(c)
  /\ \/ clock < mem[ClientOf[c]] /\ End(c, "inside") /\ UNCHANGED <<mem, since>>
     \/ /\ Learn(c)
        /\ IF Bounded = file THEN End(c, "inside")
           ELSE Step(c, "inside", "arming") /\ UNCHANGED <<mutex, lock>>
  /\ UNCHANGED <<clock, tries, file, sound>>

\* Mutant: the locks protect the look at the deadlines only.
AdmitAndRelease(c) ==
  /\ ~Forbidden(c)
  /\ Step(c, "inside", "ready") /\ Release(c)
  /\ UNCHANGED <<clock, tries, mem, file, sound, since>>

Admit(c) ==
  /\ ~Forbidden(c)
  /\ Step(c, "inside", "ready")
  /\ UNCHANGED <<clock, tries, mutex, lock, mem, file, sound, since>>

-----------------------------------------------------------------------------
(* doWithRetryVia: the requests of a call.                                  *)

Send(c) ==
  /\ Step(c, "ready", "sent")
  /\ tries' = [tries EXCEPT ![c] = @ + 1]
  /\ UNCHANGED <<clock, mutex, lock, mem, file, sound, since>>

(* An error of the transport or of the server.                              *)
Retry(c) ==
  /\ tries[c] < Attempts /\ Step(c, "sent", "ready")
  /\ UNCHANGED <<clock, tries, mutex, lock, mem, file, sound, since>>

(* An answer, an error that is not retried, or the last of the attempts.    *)
Finish(c) ==
  /\ End(c, "sent")
  /\ UNCHANGED <<clock, tries, mem, file, sound, since>>

\* Mutant: the deadline is stored after the locks were given back.
DeclineReleasing(c) ==
  /\ Step(c, "sent", "arming") /\ Release(c)
  /\ \E wait \in Waits :
       mem' = [mem EXCEPT ![ClientOf[c]] = Later(@, Later(file, clock + wait))]
  /\ since' = clock
  /\ UNCHANGED <<clock, tries, file, sound>>

(* HTTP 429, or a quota body: armGoogleRefusal, up to the write.            *)
Decline(c) ==
  /\ Step(c, "sent", "arming")
  /\ \E wait \in Waits :
       mem' = [mem EXCEPT ![ClientOf[c]] = Later(@, Later(file, clock + wait))]
  /\ since' = clock
  /\ UNCHANGED <<clock, tries, mutex, lock, file, sound>>

(* os.WriteFile truncates the file before it writes ...                     *)
Truncate(c) ==
  /\ Step(c, "arming", "writing")
  /\ file' = 0
  /\ UNCHANGED <<clock, tries, mutex, lock, mem, sound, since>>

Store(c) ==
  /\ End(c, "writing")
  /\ file' = mem[ClientOf[c]]
  /\ UNCHANGED <<clock, tries, mem, sound, since>>

(* ... and fails before or after that; the search goes on without the file. *)
WriteFails(c) ==
  /\ End(c, "arming") \/ End(c, "writing")
  /\ sound' = FALSE
  /\ UNCHANGED <<clock, tries, mem, file, since>>

-----------------------------------------------------------------------------
\* Mutant: the lock of a dead process stays.
FreedNot(k) == UNCHANGED lock

\* The system takes back the lock of a dead process.
Freed(k) == lock' = IF lock # NoCall /\ ClientOf[lock] = k THEN NoCall ELSE lock

(* A process dies, and another one starts without memory.                   *)
Die(k) ==
  /\ \E c \in Calls : ClientOf[c] = k /\ at[c] \notin {"new", "over"}
  /\ at' = [c \in Calls |-> IF ClientOf[c] = k /\ at[c] # "new" THEN "over" ELSE at[c]]
  /\ mutex' = [mutex EXCEPT ![k] = NoCall] /\ Freed(k)
  /\ mem' = [mem EXCEPT ![k] = 0]
  /\ sound' = (sound /\ \A c \in Calls : ClientOf[c] = k => at[c] # "writing")
  /\ since' = IF \E c \in Calls : ClientOf[c] = k /\ at[c] = "arming" THEN Never ELSE since
  /\ UNCHANGED <<clock, tries, file>>

Tick ==
  /\ clock < MaxClock /\ clock' = clock + 1
  /\ UNCHANGED <<at, tries, mutex, lock, mem, file, sound, since>>

Progress(c) ==
  TakeMutex(c) \/ TakeLock(c) \/ Refuse(c) \/ Admit(c) \/ Send(c) \/ Retry(c) \/ Finish(c)
    \/ Decline(c) \/ Truncate(c) \/ Store(c)

Next ==
  \/ \E c \in Calls : Call(c) \/ Progress(c) \/ GoWithoutLock(c) \/ ContextEnds(c) \/ WriteFails(c)
  \/ \E k \in Clients : Die(k)
  \/ Tick

Spec == Init /\ [][Next]_vars

(* A call goes on; requests have a timeout.  No context has to end.         *)
FairSpec == Spec /\ \A c \in Calls : WF_vars(Progress(c))

-----------------------------------------------------------------------------
Stages == {"new", "queued", "locking", "inside", "ready", "sent", "arming", "writing", "over"}

TypeOK ==
  /\ clock \in Nat /\ file \in Nat /\ sound \in BOOLEAN /\ since \in Nat \union {Never}
  /\ at \in [Calls -> Stages] /\ tries \in [Calls -> Nat]
  /\ mutex \in [Clients -> Calls \union {NoCall}] /\ lock \in Calls \union {NoCall}
  /\ mem \in [Clients -> Nat]

(***************************************************************************)
(* QuietKept: "the first refusal starts a cooldown and later Google calls  *)
(* return ErrRefused without dialing" (client.go:305): a call that dials,  *)
(* for the first time or after a retry, has no deadline of its client      *)
(* ahead, whatever fails; nor any deadline that another process armed,     *)
(* unless a lock was out of order.                                         *)
(***************************************************************************)
QuietKept ==
  \A c \in Calls : at[c] \in {"ready", "sent"} =>
    clock >= mem[ClientOf[c]] /\ (sound => clock >= file)

(***************************************************************************)
(* Shared: what a client knows of a deadline ahead is in the file for the  *)
(* others whenever nobody holds the lock, also after processes died with   *)
(* it, unless a lock or a write failed.                                    *)
(***************************************************************************)
Shared ==
  sound /\ lock = NoCall => \A k \in Clients : mem[k] <= Later(file, clock)

(***************************************************************************)
(* QuietEnds: Google is not spared for longer than the cap after it last   *)
(* declined a call or, if it did not, after the first look at a file that  *)
(* may hold any deadline: no client learns a later one, and the file that  *)
(* others look at has none, so that a damaged deadline does not stick by   *)
(* being bounded again at every look ("bound it and store the bound",      *)
(* refusal.go:130).  Without the lock, when the write fails, and when the  *)
(* process dies before it, the far deadline stays for the next one to      *)
(* bound, and the silence is longer.                                       *)
(***************************************************************************)
QuietEnds ==
  sound /\ since # Never =>
    /\ \A k \in Clients : mem[k] <= since + Cap
    /\ lock = NoCall => file <= since + Cap

(***************************************************************************)
(* EveryCallEnds: nobody waits for ever for a lock, though a holder dies,  *)
(* retries, or holds one lock while it waits for the other.                *)
(***************************************************************************)
EveryCallEnds == \A c \in Calls : (at[c] = "queued") ~> (at[c] = "over")
=============================================================================
