--------------------------- MODULE StartupConfig ----------------------------
(***************************************************************************)
(* What bhtune-server reads from bhtune.toml before it opens its database: *)
(* the server mode, the Demo policy, the address it binds, the origin and  *)
(* the trusted proxy of a public Demo, and the template catalog.           *)
(*                                                                         *)
(* A site is a record of the settings the configuration page never edits:  *)
(*   mode       None, "full", "demo"                                       *)
(*   demo       the [demo] table, a function on the keys it declares       *)
(*   bind       None, "loopback", "public", "bad" (not an address)         *)
(*   origin     None, "https", "loopback" (http), "plain" (http), "bad"    *)
(*   proxy      None, "valid", "invalid"                                   *)
(*   templates  None, "valid", "malformed", "missing": the file it names   *)
(* Environment variables come in a record of the same kind, None where a   *)
(* variable is not set.                                                    *)
(***************************************************************************)
EXTENDS TuningConfig

\* DemoPolicy::default
DemoPolicy ==
    [session_ttl_secs |-> 86400, poll_interval_ms |-> 200, run_timeout_secs |-> 30,
     max_active_runs_global |-> 8, max_active_runs_per_visitor |-> 1,
     accepted_starts_per_token |-> 6, accepted_starts_per_client_ip |-> 6,
     accepted_start_window_secs |-> 600,
     retained_runs_per_visitor |-> 10, max_runs_per_session |-> 10,
     max_tune_run_rows_global |-> 5000, max_json_body_bytes |-> 32768,
     max_sse_per_visitor |-> 2, max_sse_global |-> 32, sse_lifetime_secs |-> 45,
     ordinary_request_concurrency |-> 64, ordinary_request_timeout_secs |-> 10,
     cleanup_interval_secs |-> 300]

\* DemoPolicyConfig denies unknown keys: such a table does not parse.
DemoTableParses(demo) == DOMAIN demo \subseteq DOMAIN DemoPolicy

\* Absent keys receive the fixed value ...
ResolveDemoPolicy(demo) ==
    [k \in DOMAIN DemoPolicy |-> IF k \in DOMAIN demo THEN demo[k] ELSE DemoPolicy[k]]

\* ... and every value must be the fixed one.
DemoPolicyIsValid(policy) == \A k \in DOMAIN DemoPolicy : policy[k] = DemoPolicy[k]

\* The environment before the file before the default.
OrElse(env, toml, default) ==
    IF env # None THEN env ELSE IF toml # None THEN toml ELSE default

ResolveServerMode(env, site) == OrElse(env.mode, site.mode, "full")

ResolveBindAddr(env, site) == OrElse(env.bind, site.bind, "loopback")

\* A Demo without a configured origin is served from its bind address.
ResolveOrigin(env, site) ==
    OrElse(env.origin, site.origin,
           IF ResolveServerMode(env, site) # "demo" THEN None
           ELSE IF ResolveBindAddr(env, site) = "loopback" THEN "loopback" ELSE "plain")

\* HTTPS, or HTTP on a loopback host.
DemoOriginIsValid(origin) == origin \in {"https", "loopback"}

DemoTrustedProxyIsValid(proxy) == proxy \in {None, "valid"}

\* load_user_templates: only a discovered file may be missing.
UserTemplatesLoad(env, site) == OrElse(env.templates, site.templates, "valid") = "valid"

\* The steps of build_server that a configuration can fail.
StartupAccepts(env, site) ==
    /\ ResolveServerMode(env, site) \in {"full", "demo"}
    /\ ResolveBindAddr(env, site) # "bad"
    /\ ResolveServerMode(env, site) = "demo" =>
          /\ DemoPolicyIsValid(ResolveDemoPolicy(site.demo))
          /\ DemoOriginIsValid(ResolveOrigin(env, site))
          /\ DemoTrustedProxyIsValid(site.proxy)
    /\ UserTemplatesLoad(env, site)
=============================================================================
