----------------------------- MODULE WatchLedger -----------------------------
(***************************************************************************)
(* What the watch store promises to the processes that share a ~/.trvl     *)
(* directory: there is one book of watches, and every operation takes      *)
(* effect on it at one instant between its call and its return, or not at  *)
(* all.  Nothing here knows of files, locks, migrations or crashes' debris.*)
(***************************************************************************)
CONSTANTS
  Procs,        \* processes, each with one Store
  Requests,     \* the operations a process may ask for, Loading among them
  Loading,      \* the request of a plain Load
  Effect(_, _), \* [verdict, gen, out] of a mutation on a generation
  Canonical(_), \* a generation with its currency texts canonicalised
  Compact(_)    \* a generation with its history tidied

VARIABLES
  book,      \* the committed generation
  converted, \* the book has left the legacy files for the database
  phase,     \* phase[p]: "idle", "called" or "replied"
  request,   \* request[p]: what p asked for
  reply      \* reply[p]: what p was told

ledgerVars == <<book, converted, phase, request, reply>>

Errored == [status |-> "error"]
Loaded(g) == [status |-> "loaded", gen |-> g]
Done(out) == [status |-> "done", out |-> out]

LedgerInit ==
  /\ phase = [p \in Procs |-> "idle"]
  /\ request = [p \in Procs |-> Loading]
  /\ reply = [p \in Procs |-> Errored]

Call(p, r) ==
  /\ phase[p] = "idle"
  /\ phase' = [phase EXCEPT ![p] = "called"]
  /\ request' = [request EXCEPT ![p] = r]
  /\ UNCHANGED <<book, converted, reply>>

Answer(p, a) ==
  /\ phase[p] = "called"
  /\ phase' = [phase EXCEPT ![p] = "replied"]
  /\ reply' = [reply EXCEPT ![p] = a]
  /\ UNCHANGED request

\* A load reports the book as it stands.
Read(p) ==
  /\ request[p] = Loading
  /\ Answer(p, Loaded(Canonical(book)))
  /\ UNCHANGED <<book, converted>>

\* A mutation applies to the book as it stands, whole.  The one that converts
\* an old book may also tidy its history.
Apply(p) == \E g \in {book, Canonical(book)} :
  LET e == Effect(g, request[p])
  IN /\ request[p] # Loading
     /\ e.verdict # "error"
     /\ Answer(p, Done(e.out))
     /\ IF e.verdict = "save"
        THEN /\ book' \in IF converted THEN {e.gen} ELSE {e.gen, Compact(e.gen)}
             /\ converted' = TRUE
        ELSE UNCHANGED <<book, converted>>

\* Any operation may fail, and then leaves the book alone.
Refuse(p) == Answer(p, Errored) /\ UNCHANGED <<book, converted>>

\* The call is over and forgotten.
Forget(p) ==
  /\ phase' = [phase EXCEPT ![p] = "idle"]
  /\ request' = [request EXCEPT ![p] = Loading]
  /\ reply' = [reply EXCEPT ![p] = Errored]
  /\ UNCHANGED <<book, converted>>

Return(p) == phase[p] = "replied" /\ Forget(p)

\* A process may die at any time; what it had committed stays.
Die(p) == phase[p] # "idle" /\ Forget(p)

\* An old book is converted once, by an operation that has yet to apply.
Convert ==
  /\ ~converted /\ converted' = TRUE
  /\ book' \in {Canonical(book), Compact(Canonical(book))}
  /\ UNCHANGED <<phase, request, reply>>

LedgerNext ==
  \/ \E p \in Procs : \/ \E r \in Requests : Call(p, r)
                      \/ Read(p) \/ Apply(p) \/ Refuse(p)
                      \/ Return(p) \/ Die(p)
  \/ Convert

LedgerSpec == LedgerInit /\ [][LedgerNext]_ledgerVars
=============================================================================
