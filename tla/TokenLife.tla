------------------------------ MODULE TokenLife ------------------------------
(***************************************************************************)
(* What the gateway promises of a worker token, to those who know nothing  *)
(* of the files it is kept in: it may start to open the gateway, once; it  *)
(* stops only when it is revoked, and for good; and it is handed to a      *)
(* worker at most once, after it has started to work.                      *)
(***************************************************************************)
CONSTANT Tokens

VARIABLES
  working,  \* tokens the gateway accepts
  handed,   \* tokens an approved poll has answered
  ended     \* tokens that will never be accepted again

lifeVars == <<working, handed, ended>>

LifeInit ==
  /\ working = {}
  /\ handed = {}
  /\ ended = {}

Start(t) ==
  /\ t \notin working \cup ended
  /\ working' = working \cup {t}
  /\ UNCHANGED <<handed, ended>>

\* The worker may have been rotated or deleted before it asks.
HandOver(t) ==
  /\ t \in (working \cup ended) \ handed
  /\ handed' = handed \cup {t}
  /\ UNCHANGED <<working, ended>>

\* A token whose approval was interrupted ends without having worked.
Revoke(t) ==
  /\ t \notin ended
  /\ working' = working \ {t}
  /\ ended' = ended \cup {t}
  /\ UNCHANGED handed

LifeNext == \E t \in Tokens : Start(t) \/ HandOver(t) \/ Revoke(t)

LifeSpec == LifeInit /\ [][LifeNext]_lifeVars
=============================================================================
