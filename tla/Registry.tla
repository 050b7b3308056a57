------------------------------ MODULE Registry ------------------------------
(***************************************************************************)
(* What the thread registry promises, whatever locks, wrappers and scans   *)
(* it is made of: every lock call of a thread is counted once under its    *)
(* id, every report of a thread is recorded once, each in one step between *)
(* the moment it is asked for and the moment it is over.                   *)
(***************************************************************************)
EXTENDS Naturals

CONSTANTS Threads, Ops

Nobody == 0   \* no thread has this id

VARIABLES
  calling,    \* thread -> the operation it waits to see counted, or "none"
  counted,    \* thread -> operation -> number of calls
  reporting,  \* reporter -> the thread it reports, or Nobody
  reported    \* thread -> number of reports

rvars == <<calling, counted, reporting, reported>>

RegistryInit ==
  /\ calling = [t \in Threads |-> "none"]
  /\ counted = [t \in Threads |-> [op \in Ops |-> 0]]
  /\ reporting = [t \in Threads |-> Nobody]
  /\ reported \in [Threads -> {0, 1}]

Call(t, op) ==
  /\ calling[t] = "none"
  /\ calling' = [calling EXCEPT ![t] = op]
  /\ UNCHANGED <<counted, reporting, reported>>

Count(t) ==
  /\ calling[t] # "none"
  /\ counted' = [counted EXCEPT ![t][calling[t]] = @ + 1]
  /\ calling' = [calling EXCEPT ![t] = "none"]
  /\ UNCHANGED <<reporting, reported>>

\* Whoever reports takes the lock: the call and the report begin together.
BeginReport(r, t, op) ==
  /\ reporting[r] = Nobody /\ calling[r] = "none"
  /\ reporting' = [reporting EXCEPT ![r] = t]
  /\ calling' = [calling EXCEPT ![r] = op]
  /\ UNCHANGED <<counted, reported>>

EndReport(r) ==
  /\ reporting[r] # Nobody /\ calling[r] = "none"
  /\ reported' = [reported EXCEPT ![reporting[r]] = @ + 1]
  /\ reporting' = [reporting EXCEPT ![r] = Nobody]
  /\ UNCHANGED <<calling, counted>>

RegistryNext ==
  \E t \in Threads :
    \/ \E op \in Ops : Call(t, op)
    \/ Count(t)
    \/ \E u \in Threads, op \in Ops : BeginReport(t, u, op)
    \/ EndReport(t)

RegistrySpec == RegistryInit /\ [][RegistryNext]_rvars
=============================================================================
