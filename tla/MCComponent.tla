----------------------------- MODULE MCComponent ----------------------------
EXTENDS Component

CONSTANTS auth, envoy, rest, rest2, storage, an1, an2, p1, p2, db

MCKindOf ==
  [o \in Objs |-> CASE o = auth -> "Auth" [] o = envoy -> "Envoy"
                    [] o \in {rest, rest2} -> "Rest" [] o = storage -> "Storage"
                    [] OTHER -> "Analytics"]

MCProjectOf == [o \in Objs |-> IF o = an2 THEN p2 ELSE p1]

\* Routes come and go, a kind is claimed twice, a database is claimed twice; and
\* one disturbance of any kind.
MCWorlds ==
  {[first |-> {auth, envoy}, objs |-> {auth},
    faults |-> {"create", "delete"}, max |-> 1],
   [first |-> {envoy}, objs |-> {auth, envoy},
    faults |-> {"create", "delete"}, max |-> 1],
   [first |-> {rest, storage}, objs |-> {rest, storage},
    faults |-> Faults, max |-> 1],
   [first |-> {rest}, objs |-> {rest, rest2},
    faults |-> {"create", "delete", "restart"}, max |-> 2],
   [first |-> {rest, storage}, objs |-> {rest, rest2, storage},
    faults |-> {"create", "delete"}, max |-> 1],
   [first |-> {an1}, objs |-> {an1, an2},
    faults |-> {"create", "delete", "project"}, max |-> 2]}

\* The routes of one Envoy change, and change back.
MCFlapping ==
  {[first |-> {envoy}, objs |-> {auth}, faults |-> {"create", "delete"}, max |-> 2]}

MCDatabaseOf == [p \in {p1, p2} |-> db]
=============================================================================
