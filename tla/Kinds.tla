-------------------------------- MODULE Kinds -------------------------------
(***************************************************************************)
(* What distinguishes the controllers of the component kinds, which share  *)
(* one framework:                                                          *)
(*   requires   the kinds that RequireDependency must find in the Project  *)
(*   optional   the kinds that ListOptional may find                       *)
(*   related    SetupOptions.Related: the kinds whose events enqueue the   *)
(*              components of the same Project                             *)
(*   namespace  SetupOptions.NamespaceRelated: those of the namespace      *)
(*   children   what Reconcile writes, in its order; a failure ends it     *)
(***************************************************************************)

Auth     == [requires |-> {}, optional |-> {}, related |-> {}, namespace |-> {},
             children |-> <<"Service", "Workload">>]
Rest     == Auth
Meta     == Auth
Realtime == Auth

Supavisor ==
  [Auth EXCEPT !.children = <<"Secret", "ConfigMap", "Service", "Workload">>]

Storage ==
  [requires |-> {"Rest"}, optional |-> {}, related |-> {"Rest"}, namespace |-> {},
   children |-> <<"Secret", "Claim", "Service", "Workload">>]

\* An Analytics that is being deleted is left out.
Studio ==
  [requires |-> {"Meta", "Envoy"}, optional |-> {"Analytics"},
   related |-> {"Analytics", "Meta", "Envoy"}, namespace |-> {},
   children |-> <<"Claim", "Service", "Workload">>]

EdgeRuntime ==
  [requires |-> {"Envoy"}, optional |-> {}, related |-> {"Envoy"}, namespace |-> {},
   children |-> <<"ConfigMap", "Service", "Workload">>]

Routed == {"Auth", "Rest", "Meta", "Realtime", "Storage", "Studio", "EdgeRuntime"}

Envoy ==
  [requires |-> {}, optional |-> Routed, related |-> Routed, namespace |-> {},
   children |-> <<"Secret", "ConfigMap", "Service", "Workload">>]

Analytics ==
  [Auth EXCEPT !.namespace = {"Analytics"},
               !.children = <<"Secret", "Service", "Workload">>]

Kind ==
  [Auth |-> Auth, Rest |-> Rest, Meta |-> Meta, Realtime |-> Realtime,
   Supavisor |-> Supavisor, Storage |-> Storage, Studio |-> Studio,
   EdgeRuntime |-> EdgeRuntime, Envoy |-> Envoy, Analytics |-> Analytics]

Kinds == DOMAIN Kind
=============================================================================
