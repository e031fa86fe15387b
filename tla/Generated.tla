------------------------------ MODULE Generated -----------------------------
(***************************************************************************)
(* What the builders of internal/defaults put into the resources of each   *)
(* component, as far as the resources of one Project must fit together:    *)
(* the labels of its Pods, the ports they listen on, the keys of Secrets   *)
(* and the ConfigMaps they cannot start without, the Services they call,   *)
(* the selector and the target ports of its own Service, and the keys of   *)
(* its own Secret.  Images, resources, probes, volumes of the Pod's own,   *)
(* plain environment variables and the texts in the ConfigMaps are left    *)
(* out: nothing outside the Pod depends on them.                           *)
(*                                                                         *)
(* A Secret or ConfigMap is a pair of the object it belongs to and what it *)
(* is to it.  A name is the sequence of the words that hyphens join.       *)
(***************************************************************************)
EXTENDS Integers, Sequences, Kinds

CONSTANT Names \* the names of the components of the Project, of its database, of itself

\* Names that need no shortening: no dots, no leading digit, at most 63 characters.
ResourceName(name, suffix) == name \o suffix

SelectorLabels(key, suffix, name, component) ==
  {<<"name", name>>, <<"component", component>>,
   <<"instance", ResourceName(Names[key], suffix)>>}

ComponentLabels(key, suffix, name, component) ==
  SelectorLabels(key, suffix, name, component) \cup {<<"managed-by", "supabase-operator">>}

-----------------------------------------------------------------------------
(***************************************************************************)
(* Secrets and ConfigMaps.                                                 *)
(***************************************************************************)

PasswordSecret    == <<"SingleDatabase", "Secret">>
JWTSecret         == <<"Project", "JWTSecret">>
KeysSecret        == <<"Project", "KeysSecret">>
SecretOf(kind)    == <<kind, "Secret">>
ConfigMapOf(kind) == <<kind, "ConfigMap">>

JWTSecretKeys ==
  {"jwt-secret", "anon-key", "service-key", "jwt-keys", "jwt-jwks", "anon-key-asymmetric",
   "service-key-asymmetric", "publishable-key", "secret-key"}

KeysSecretKeys == {"secret-key-base", "crypto-key", "vault-enc-key", "realtime-db-enc-key"}

StorageSecretKeys   == {"accessKeyId", "accessKeySecret"}
EnvoySecretKeys     == {"username", "password"}
SupavisorSecretKeys == {"database-url"}
AnalyticsSecretKeys == {"public-access-token", "private-access-token", "url"}

\* The keys of an object; of one that is not a Secret, its contents as one.
KeysOf(object) ==
  CASE object = PasswordSecret        -> {"password"}
    [] object = JWTSecret             -> JWTSecretKeys
    [] object = KeysSecret            -> KeysSecretKeys
    [] object = SecretOf("Storage")   -> StorageSecretKeys
    [] object = SecretOf("Envoy")     -> EnvoySecretKeys
    [] object = SecretOf("Supavisor") -> SupavisorSecretKeys
    [] object = SecretOf("Analytics") -> AnalyticsSecretKeys
    [] OTHER                          -> {"contents"}

\* Connection strings, made of the database password.
Derived(object) ==
  CASE object = SecretOf("Supavisor") -> {"database-url"}
    [] object = SecretOf("Analytics") -> {"url"}
    [] OTHER                          -> {}

Password     == {<<PasswordSecret, "password">>}
Jwt(keys)    == {JWTSecret} \X keys
Keys(keys)   == {KeysSecret} \X keys
Own(kind)    == {SecretOf(kind)} \X KeysOf(SecretOf(kind))
Config(kind) == {<<ConfigMapOf(kind), "contents">>}
Database     == {<<"SingleDatabase", 5432>>}

-----------------------------------------------------------------------------
(***************************************************************************)
(* Pods: reads are pairs of an object and a key of it, without which the   *)
(* Pod does not start; calls are pairs of a kind and a port of its Service.*)
(***************************************************************************)

AuthPod ==
  [labels |-> ComponentLabels("Auth", <<"auth">>, "auth", "auth"),
   ports |-> {9999}, calls |-> Database,
   reads |-> Password \cup Jwt({"jwt-secret", "jwt-keys"})]

RestPod ==
  [labels |-> ComponentLabels("Rest", <<"rest">>, "rest", "rest"),
   ports |-> {3000}, calls |-> Database,
   reads |-> Password \cup Jwt({"jwt-jwks"})]

MetaPod ==
  [labels |-> ComponentLabels("Meta", <<"meta">>, "meta", "meta"),
   ports |-> {8080}, calls |-> Database,
   reads |-> Password \cup Keys({"crypto-key"})]

RealtimePod ==
  [labels |-> ComponentLabels("Realtime", <<"realtime">>, "realtime", "realtime"),
   ports |-> {4000}, calls |-> Database,
   reads |-> Password \cup Keys({"realtime-db-enc-key", "secret-key-base"})
                      \cup Jwt({"jwt-secret", "jwt-jwks", "anon-key"})]

SupavisorPod ==
  [labels |-> ComponentLabels("Supavisor", <<"supavisor">>, "supavisor", "supavisor"),
   ports |-> {4000, 5432, 6543}, calls |-> Database,
   reads |-> Password \cup Own("Supavisor") \cup Keys({"secret-key-base", "vault-enc-key"})
                      \cup Jwt({"jwt-secret"}) \cup Config("Supavisor")]

StoragePod ==
  [labels |-> ComponentLabels("Storage", <<"storage">>, "storage", "storage"),
   ports |-> {5000, 5001}, calls |-> Database \cup {<<"Rest", 3000>>},
   reads |-> Password \cup Own("Storage")
                      \cup Jwt({"anon-key", "service-key", "jwt-secret", "jwt-jwks"})]

\* found: the optional dependencies that the Project has.
StudioPod(found) ==
  [labels |-> ComponentLabels("Studio", <<"studio">>, "studio", "studio"),
   ports |-> {3000},
   calls |-> Database \cup {<<"Meta", 8080>>, <<"Envoy", 8000>>}
                      \cup {<<kind, 4000>> : kind \in found},
   reads |-> Password \cup Keys({"crypto-key"})
                      \cup Jwt({"anon-key", "service-key", "jwt-secret", "publishable-key",
                                "secret-key"})
                      \cup {<<SecretOf(kind), "private-access-token">> : kind \in found}]

EdgeRuntimePod ==
  [labels |-> ComponentLabels("EdgeRuntime", <<"edge", "runtime">>, "functions", "functions"),
   ports |-> {9000}, calls |-> Database \cup {<<"Envoy", 8000>>},
   reads |-> Password \cup Config("EdgeRuntime")
                      \cup Jwt({"jwt-secret", "jwt-jwks", "anon-key", "service-key",
                                "publishable-key", "secret-key"})]

\* The port at which the gateway calls each kind it routes to.
RoutedPort ==
  [Auth |-> 9999, Rest |-> 3000, Meta |-> 8080, Realtime |-> 4000, Storage |-> 5000,
   Studio |-> 3000, EdgeRuntime |-> 9000]

EnvoyClusters(found) == {<<kind, RoutedPort[kind]>> : kind \in found}

EnvoyPod(found) ==
  [labels |-> ComponentLabels("Envoy", <<"envoy">>, "envoy", "gateway"),
   ports |-> {8000}, calls |-> EnvoyClusters(found),
   reads |-> Own("Envoy") \cup Config("Envoy")
             \cup Jwt({"anon-key", "service-key", "publishable-key", "secret-key",
                       "anon-key-asymmetric", "service-key-asymmetric"})]

AnalyticsPod ==
  [labels |-> ComponentLabels("Analytics", <<"analytics">>, "analytics", "analytics"),
   ports |-> {4000}, calls |-> Database,
   reads |-> Password \cup Own("Analytics")]

PostgresPod ==
  [labels |-> ComponentLabels("SingleDatabase", <<>>, "postgres", "database"),
   ports |-> {5432}, calls |-> {}, reads |-> Password]

VectorPod ==
  [labels |-> ComponentLabels("Vector", <<"vector">>, "vector", "vector"),
   ports |-> {9001}, calls |-> {<<"Analytics", 4000>>},
   reads |-> Config("Vector") \cup {<<SecretOf("Analytics"), "public-access-token">>}]

Pod(kind, found) ==
  CASE kind = "Auth"           -> AuthPod
    [] kind = "Rest"           -> RestPod
    [] kind = "Meta"           -> MetaPod
    [] kind = "Realtime"       -> RealtimePod
    [] kind = "Supavisor"      -> SupavisorPod
    [] kind = "Storage"        -> StoragePod
    [] kind = "Studio"         -> StudioPod(found)
    [] kind = "EdgeRuntime"    -> EdgeRuntimePod
    [] kind = "Envoy"          -> EnvoyPod(found)
    [] kind = "Analytics"      -> AnalyticsPod
    [] kind = "SingleDatabase" -> PostgresPod
    [] kind = "Vector"         -> VectorPod

-----------------------------------------------------------------------------
(***************************************************************************)
(* Services: which port of the Pods a port of the Service leads to.        *)
(***************************************************************************)

AuthService ==
  [selector |-> SelectorLabels("Auth", <<"auth">>, "auth", "auth"),
   targets |-> {<<9999, 9999>>}]

RestService ==
  [selector |-> SelectorLabels("Rest", <<"rest">>, "rest", "rest"),
   targets |-> {<<3000, 3000>>}]

MetaService ==
  [selector |-> SelectorLabels("Meta", <<"meta">>, "meta", "meta"),
   targets |-> {<<8080, 8080>>}]

RealtimeService ==
  [selector |-> SelectorLabels("Realtime", <<"realtime">>, "realtime", "realtime"),
   targets |-> {<<4000, 4000>>}]

SupavisorService ==
  [selector |-> SelectorLabels("Supavisor", <<"supavisor">>, "supavisor", "supavisor"),
   targets |-> {<<5432, 5432>>, <<6543, 6543>>}]

StorageService ==
  [selector |-> SelectorLabels("Storage", <<"storage">>, "storage", "storage"),
   targets |-> {<<5000, 5000>>}]

StudioService ==
  [selector |-> SelectorLabels("Studio", <<"studio">>, "studio", "studio"),
   targets |-> {<<3000, 3000>>}]

FunctionsService ==
  [selector |-> SelectorLabels("EdgeRuntime", <<"edge", "runtime">>, "functions", "functions"),
   targets |-> {<<9000, 9000>>}]

\* Faulty variant: the labels that the pattern of the other components would give.
EnvoyServicePatterned ==
  [selector |-> SelectorLabels("Envoy", <<"envoy">>, "envoy", "envoy"),
   targets |-> {<<8000, 8000>>}]

EnvoyService ==
  [selector |-> SelectorLabels("Envoy", <<"envoy">>, "envoy", "gateway"),
   targets |-> {<<8000, 8000>>}]

AnalyticsService ==
  [selector |-> SelectorLabels("Analytics", <<"analytics">>, "analytics", "analytics"),
   targets |-> {<<4000, 4000>>}]

PostgresService ==
  [selector |-> SelectorLabels("SingleDatabase", <<>>, "postgres", "database"),
   targets |-> {<<5432, 5432>>}]

Service(kind) ==
  CASE kind = "Auth"           -> AuthService
    [] kind = "Rest"           -> RestService
    [] kind = "Meta"           -> MetaService
    [] kind = "Realtime"       -> RealtimeService
    [] kind = "Supavisor"      -> SupavisorService
    [] kind = "Storage"        -> StorageService
    [] kind = "Studio"         -> StudioService
    [] kind = "EdgeRuntime"    -> FunctionsService
    [] kind = "Envoy"          -> EnvoyService
    [] kind = "Analytics"      -> AnalyticsService
    [] kind = "SingleDatabase" -> PostgresService

Selects(selector, kind, found) == selector \subseteq Pod(kind, found).labels

\* The labels by which Vector finds the Pods of which it collects the logs.
TargetLabels(kind) ==
  LET Labels(suffix, label, component) ==
        SelectorLabels(kind, suffix, label, component)
          \cup {<<"managed-by", "supabase-operator">>}
  IN  CASE kind = "Auth"        -> Labels(<<"auth">>, "auth", "auth")
        [] kind = "Rest"        -> Labels(<<"rest">>, "rest", "rest")
        [] kind = "Realtime"    -> Labels(<<"realtime">>, "realtime", "realtime")
        [] kind = "Storage"     -> Labels(<<"storage">>, "storage", "storage")
        [] kind = "EdgeRuntime" -> Labels(<<"edge", "runtime">>, "functions", "functions")
        [] kind = "Envoy"       -> Labels(<<"envoy">>, "envoy", "gateway")
        [] kind = "SingleDatabase" -> Labels(<<>>, "postgres", "database")

Targets(kinds) ==
  {"SingleDatabase"}
    \cup (kinds \cap {"Auth", "Rest", "Realtime", "Storage", "EdgeRuntime", "Envoy"})
=============================================================================
