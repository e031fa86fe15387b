------------------------------ MODULE Database ------------------------------
(***************************************************************************)
(* What a SingleDatabase promises its users: a server whose administrator  *)
(* password follows the Secret, and is changed only while the server is    *)
(* down.  Passwords are numbered in the order the Secret had them; one     *)
(* that is set back gets a new number.                                     *)
(***************************************************************************)
EXTENDS Naturals

VARIABLES
  last,   \* the last password the Secret has had, 0 before the first
  admin,  \* the administrators' password, 0 before initdb
  up      \* the server accepts connections

dbVars == <<last, admin, up>>

Init ==
  /\ last \in Nat
  /\ \/ admin = 0 /\ up = FALSE
     \/ admin = last /\ last > 0 /\ up = TRUE

\* The Secret has a new password.
Rotate ==
  /\ last' = last + 1
  /\ UNCHANGED <<admin, up>>

Stop ==
  /\ up
  /\ up' = FALSE
  /\ UNCHANGED <<last, admin>>

\* The password is brought into a database that is down.
Sync ==
  /\ ~up /\ admin > 0
  /\ admin' = last
  /\ UNCHANGED <<last, up>>

\* A new database is initialised with the password of the moment.
Start ==
  /\ ~up /\ last > 0
  /\ admin' \in {admin, last} \ {0}
  /\ up' = TRUE
  /\ UNCHANGED last

Next == Rotate \/ Stop \/ Sync \/ Start

Spec == Init /\ [][Next]_dbVars
=============================================================================
