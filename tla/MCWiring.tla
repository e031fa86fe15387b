------------------------------- MODULE MCWiring ------------------------------
EXTENDS Wiring

\* All are called alike, so that only what the builders add tells names apart.
MCNames == [owner \in Kinds \cup {"SingleDatabase", "Project", "Vector"} |-> <<"p">>]

\* Every kind that has a Secret of its own or a dependency, undisturbed at first or
\* from nothing; and the whole Project, for how its parts fit together.
MCWorlds ==
  {[kinds |-> {"Auth"}, fresh |-> FALSE, faults |-> Faults, max |-> 1],
   [kinds |-> {"Realtime"}, fresh |-> FALSE,
    faults |-> {"rotate", "object", "pods", "restart"}, max |-> 2],
   [kinds |-> {"Supavisor"}, fresh |-> FALSE, faults |-> {"rotate", "object"}, max |-> 2],
   [kinds |-> {"Supavisor"}, fresh |-> TRUE, faults |-> {"api", "restart"}, max |-> 1],
   [kinds |-> {"Analytics"}, fresh |-> FALSE, faults |-> Faults, max |-> 1],
   [kinds |-> {"Analytics"}, fresh |-> TRUE, faults |-> {"api", "restart"}, max |-> 1],
   [kinds |-> {"Rest", "Storage"}, fresh |-> FALSE, faults |-> Faults, max |-> 1],
   [kinds |-> {"Envoy", "EdgeRuntime"}, fresh |-> FALSE, faults |-> Faults, max |-> 1],
   [kinds |-> Kinds, fresh |-> FALSE, faults |-> {"pods"}, max |-> 1]}
=============================================================================
