--------------------------- MODULE EvictableLock ---------------------------
(***************************************************************************)
(* What the pid-gate promises to the daemons of one scope: a lock with one *)
(* owner, from which an owner can be displaced without being told.  A      *)
(* displaced process goes on believing it holds the lock until it leaves,  *)
(* and no second process ever becomes owner while the first one still is.  *)
(***************************************************************************)
CONSTANTS Proc, None

VARIABLES
  owner,      \* whose lock it is, or None
  displaced   \* processes that still believe they own it

lvars == <<owner, displaced>>

LTypeOK ==
  /\ owner \in Proc \cup {None}
  /\ displaced \subseteq Proc

LInit == owner \in Proc \cup {None} /\ displaced = {}

Acquire(p) ==
  /\ owner = None /\ p \notin displaced
  /\ owner' = p
  /\ UNCHANGED displaced

\* The owner gives the lock up, or dies.
Leave ==
  /\ owner # None
  /\ owner' = None
  /\ UNCHANGED displaced

\* Another process takes the owner for dead.
Displace ==
  /\ owner # None
  /\ owner' = None
  /\ displaced' = displaced \cup {owner}

\* A displaced process is done; a careless one takes the present owner along.
Depart(p) ==
  /\ p \in displaced
  /\ \/ owner' = owner /\ displaced' = displaced \ {p}
     \/ /\ owner # None
        /\ owner' = None
        /\ displaced' = (displaced \cup {owner}) \ {p}

LNext == (\E p \in Proc : Acquire(p) \/ Depart(p)) \/ Leave \/ Displace

LSpec == LInit /\ [][LNext]_lvars
=============================================================================
