------------------------- MODULE GoogleCooldownProofs -------------------------
(***************************************************************************)
(* The quiet period is kept for any clients, calls, waits and faults.  The *)
(* argument: while no lock has failed, what a call saw in the file when it *)
(* was admitted is still there when it dials, because it alone may write.  *)
(***************************************************************************)
EXTENDS GoogleCooldown, TLAPS

Dialing == {"ready", "sent"}
Writing == {"arming", "writing"}
Locked == {"inside"} \union Dialing \union Writing

\* A call past the mutex holds it.
MutexHeld == \A c \in Calls : at[c] \in Locked \union {"locking"} => mutex[ClientOf[c]] = c

LockHeld == sound => \A c \in Calls : at[c] \in Locked => lock = c

\* No client knows a deadline beyond the cap ...
MemCapped == \A k \in Clients : mem[k] <= clock + Cap

\* ... and one in the file, as damage may leave it, admits nobody.
FarAdmitsNobody == \A c \in Calls : at[c] \in Dialing => file <= clock + Cap

\* What clients know is in the file ...
Known == sound /\ (\A c \in Calls : at[c] \notin Writing) =>
           \A k \in Clients : mem[k] <= Later(file, clock)

\* ... or about to be stored, by one that knows the latest ...
StoresLatest ==
  sound => \A c \in Calls : at[c] \in Writing =>
             \A k \in Clients : mem[k] <= Later(mem[ClientOf[c]], clock)

\* ... and until it truncates the file, that still serves the others.
StillThere ==
  sound => \A c \in Calls : at[c] = "arming" =>
             \A k \in Clients \ {ClientOf[c]} : mem[k] <= Later(file, clock)

\* Since the quiet began nobody learnt a deadline beyond the cap of then, and the file
\* has none but while the one that learnt it is about to bound it.
Ends ==
  sound /\ since # Never =>
    /\ \A k \in Clients : mem[k] <= since + Cap
    /\ (\A c \in Calls : at[c] # "arming") => file <= since + Cap

IInv ==
  /\ TypeOK /\ MutexHeld /\ LockHeld /\ QuietKept /\ MemCapped /\ Ends
  /\ FarAdmitsNobody /\ Known /\ StoresLatest /\ StillThere

-----------------------------------------------------------------------------
(* Every call has a client, and none is the absent call.                    *)
LEMMA CallsKnown == \A c \in Calls : ClientOf[c] \in Clients /\ c # NoCall
BY CooldownAssumption

(* Later picks the greater of two times.                                    *)
LEMMA LaterIs ==
  \A a, b \in Nat : Later(a, b) \in Nat /\ a <= Later(a, b) /\ b <= Later(a, b)
                    /\ (Later(a, b) = a \/ Later(a, b) = b)
BY DEF Later

(* IInit: nobody knows anything, whatever is in the file.                   *)
LEMMA IInit == Init => IInv
<1> SUFFICES ASSUME Init PROVE IInv
  OBVIOUS
<1>1. TypeOK /\ MemCapped /\ Ends
  BY CooldownAssumption DEF Init, TypeOK, Stages, MemCapped, Ends
<1>2. \A c \in Calls : at[c] = "new"
  BY DEF Init
<1>3. MutexHeld /\ LockHeld /\ QuietKept /\ FarAdmitsNobody /\ StoresLatest /\ StillThere
  BY <1>2 DEF MutexHeld, LockHeld, QuietKept, FarAdmitsNobody, StoresLatest, StillThere,
    Locked, Dialing, Writing
<1>4. Known
  BY <1>1, LaterIs DEF Init, Known, TypeOK
<1> QED BY <1>1, <1>3, <1>4 DEF IInv

(* IStep: no step of a call, no death and no tick breaks the invariant.     *)
LEMMA IStep == IInv /\ [Next]_vars => IInv'
<1> SUFFICES ASSUME IInv, [Next]_vars PROVE IInv'
  OBVIOUS
<1> USE CooldownAssumption, CallsKnown
    DEF IInv, TypeOK, Stages, MutexHeld, LockHeld, QuietKept, MemCapped, Ends, Never,
        FarAdmitsNobody, Known, StoresLatest, StillThere, Locked, Dialing, Writing,
        Step, End, Release, Later
<1>1. ASSUME NEW c \in Calls, Call(c) PROVE IInv'
  BY <1>1 DEF Call
<1>2. ASSUME NEW c \in Calls, TakeMutex(c) PROVE IInv'
  BY <1>2 DEF TakeMutex
<1>3. ASSUME NEW c \in Calls, TakeLock(c) PROVE IInv'
  BY <1>3 DEF TakeLock
<1>4. ASSUME NEW c \in Calls, GoWithoutLock(c) PROVE IInv'
  BY <1>4 DEF GoWithoutLock
<1>5. ASSUME NEW c \in Calls, ContextEnds(c) PROVE IInv'
  BY <1>5 DEF ContextEnds
<1>6. ASSUME NEW c \in Calls, Refuse(c) PROVE IInv'
  BY <1>6 DEF Refuse, Learn, Forbidden, Bounded
<1>7. ASSUME NEW c \in Calls, Admit(c) PROVE IInv'
  BY <1>7 DEF Admit, Forbidden
<1>8. ASSUME NEW c \in Calls, Send(c) PROVE IInv'
  BY <1>8 DEF Send
<1>9. ASSUME NEW c \in Calls, Retry(c) PROVE IInv'
  BY <1>9 DEF Retry
<1>10. ASSUME NEW c \in Calls, Finish(c) PROVE IInv'
  BY <1>10 DEF Finish
<1>11. ASSUME NEW c \in Calls, Decline(c) PROVE IInv'
  BY <1>11 DEF Decline
<1>12. ASSUME NEW c \in Calls, Truncate(c) PROVE IInv'
  BY <1>12 DEF Truncate
<1>13. ASSUME NEW c \in Calls, Store(c) PROVE IInv'
  BY <1>13 DEF Store
<1>14. ASSUME NEW c \in Calls, WriteFails(c) PROVE IInv'
  <2> USE <1>14 DEF WriteFails, End
  <2>1. TypeOK' /\ ~sound' /\ clock' = clock /\ mem' = mem /\ file' = file
    OBVIOUS
  <2>2. \A d \in Calls : d # c => at'[d] = at[d]
    OBVIOUS
  <2>3. at'[c] = "over" /\ \A k \in Clients : mutex[k] # c => mutex'[k] = mutex[k]
    OBVIOUS
  <2>4. MutexHeld'
    BY <2>2, <2>3
  <2>5. QuietKept' /\ MemCapped' /\ FarAdmitsNobody'
    BY <2>1, <2>2, <2>3
  <2>6. LockHeld' /\ Ends' /\ Known' /\ StoresLatest' /\ StillThere'
    BY <2>1
  <2> QED
    BY <2>1, <2>4, <2>5, <2>6
<1>15. ASSUME NEW k \in Clients, Die(k) PROVE IInv'
  <2> USE <1>15 DEF Die, Freed
  <2>1. \A c \in Calls : /\ at'[c] \in {at[c], "over"}
                         /\ ClientOf[c] = k => at'[c] \in {"new", "over"}
    OBVIOUS
  <2>2. \A d \in Clients : mem'[d] <= mem[d] /\ (d # k => mem'[d] = mem[d])
    OBVIOUS
  <2>3. sound' => sound /\ \A c \in Calls : at[c] = "writing" => ClientOf[c] # k
    OBVIOUS
  <2>4. TypeOK'
    OBVIOUS
  <2>5. MutexHeld' /\ LockHeld'
    BY <2>1
  <2>6. QuietKept' /\ MemCapped' /\ FarAdmitsNobody'
    BY <2>1, <2>2, <2>4
  <2>7. StoresLatest' /\ StillThere'
    BY <2>1, <2>2, <2>3
  <2>8. Known'
    <3> SUFFICES ASSUME sound', \A c \in Calls : at'[c] \notin Writing, NEW d \in Clients
                 PROVE  mem'[d] <= Later(file, clock)
      OBVIOUS
    <3>1. CASE \A c \in Calls : at[c] \notin Writing
      BY <3>1, <2>2, <2>3
    <3>2. CASE \E c \in Calls : at[c] \in Writing
      <4>1. PICK c \in Calls : at[c] \in Writing
        BY <3>2
      <4>2. at[c] = "arming" /\ ClientOf[c] = k
        BY <4>1, <2>1, <2>3
      <4> QED BY <4>1, <4>2, <2>2, <2>3
    <3> QED BY <3>1, <3>2
  <2>9. Ends'
    <3>1. CASE \E c \in Calls : ClientOf[c] = k /\ at[c] = "arming"
      BY <3>1
    <3>2. CASE ~\E c \in Calls : ClientOf[c] = k /\ at[c] = "arming"
      <4>1. since' = since /\ file' = file /\ (sound' => sound)
        BY <3>2
      <4>2. (\A c \in Calls : at'[c] # "arming") => \A c \in Calls : at[c] # "arming"
        BY <3>2, <2>1
      <4> QED BY <4>1, <4>2, <2>2
    <3> QED BY <3>1, <3>2
  <2> QED BY <2>4, <2>5, <2>6, <2>7, <2>8, <2>9
<1>16. CASE Tick
  BY <1>16 DEF Tick
<1>17. CASE UNCHANGED vars
  BY <1>17 DEF vars
<1> QED
  BY <1>1, <1>2, <1>3, <1>4, <1>5, <1>6, <1>7, <1>8, <1>9, <1>10, <1>11, <1>12, <1>13,
    <1>14, <1>15, <1>16, <1>17
  DEF Next, Progress

(* The invariant of every reachable state.                                  *)
LEMMA Inductive == Spec => []IInv
BY IInit, IStep, PTL DEF Spec

-----------------------------------------------------------------------------
(***************************************************************************)
(* Nobody dials inside a deadline of its own client, whatever fails; nor   *)
(* inside one of another process, as long as the locks work.               *)
(***************************************************************************)
THEOREM Quiet == Spec => []QuietKept
BY Inductive, PTL DEF IInv

(***************************************************************************)
(* Deadlines are shared: when nobody holds the lock, the file knows all    *)
(* that any client knows, unless a lock or a write failed.                 *)
(***************************************************************************)
THEOREM DeadlinesShared == Spec => []Shared
<1>1. IInv => Shared
  <2> SUFFICES ASSUME IInv, sound, lock = NoCall
               PROVE  \A k \in Clients : mem[k] <= Later(file, clock)
    BY DEF Shared
  <2>1. \A c \in Calls : at[c] \notin Writing
    BY CallsKnown DEF IInv, LockHeld, Locked
  <2> QED BY <2>1 DEF IInv, Known
<1> QED BY Inductive, <1>1, PTL

(***************************************************************************)
(* Whatever the file held, the quiet ends a cap after Google last declined *)
(* a call, or after the deadline of the file was first learnt, for every   *)
(* client, unless a lock or a write failed or a process died before it     *)
(* stored the bound.                                                       *)
(***************************************************************************)
THEOREM QuietOver == Spec => []QuietEnds
<1>1. IInv => QuietEnds
  <2> SUFFICES ASSUME IInv, sound, since # Never
               PROVE  /\ \A k \in Clients : mem[k] <= since + Cap
                      /\ lock = NoCall => file <= since + Cap
    BY DEF QuietEnds
  <2>1. lock = NoCall => \A c \in Calls : at[c] # "arming"
    BY CallsKnown DEF IInv, LockHeld, Locked, Writing
  <2> QED BY <2>1 DEF IInv, Ends
<1> QED BY Inductive, <1>1, PTL
=============================================================================
