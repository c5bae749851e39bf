---------------------------- MODULE CardContract ----------------------------
(***************************************************************************)
(* What include/vitrolinha/card.h promises to the rest of the firmware,    *)
(* without threads, mutex, disk or mount list: a state that moves along    *)
(* the transition table of card_refresh, and a volume on loan to at most   *)
(* one thread, while which the state does not move.                        *)
(***************************************************************************)
EXTENDS Integers

CONSTANT Threads

VARIABLES
  state,      \* what card_get_state answers
  loans       \* loans[t]: how many times t has the volume borrowed

contractVars == <<state, loans>>

NoLoans == \A t \in Threads : loans[t] = 0

ContractInit ==
  /\ state = "ABSENT"
  /\ loans = [t \in Threads |-> 0]

\* The table of card_refresh: out of ABSENT only by a mount that worked or
\* failed, and back to it only by a removal.  No row leads from UNREADABLE to
\* READY or back.
Successors(s) ==
  CASE s = "ABSENT"     -> {"READY", "UNREADABLE"}
    [] s = "READY"      -> {"ABSENT"}
    [] s = "UNREADABLE" -> {"ABSENT"}

Evaluate ==
  /\ NoLoans
  /\ state' \in Successors(state)
  /\ UNCHANGED loans

\* card_acquire that returns 0.
Lend(t) ==
  /\ state = "READY"
  /\ \A u \in Threads \ {t} : loans[u] = 0
  /\ loans' = [loans EXCEPT ![t] = @ + 1]
  /\ UNCHANGED state

\* card_release.
GiveBack(t) ==
  /\ loans[t] > 0
  /\ loans' = [loans EXCEPT ![t] = @ - 1]
  /\ UNCHANGED state

ContractNext ==
  \/ Evaluate
  \/ \E t \in Threads : Lend(t) \/ GiveBack(t)

ContractSpec == ContractInit /\ [][ContractNext]_contractVars
=============================================================================
