----------------------------- MODULE BootConfig -----------------------------
(***************************************************************************)
(* What a pod refuses to boot with: the settings of the in-flight cap and  *)
(* of token issuance (settings.py), litellm's own file (litellm_config.py) *)
(* and the outcomes of the boot's look at Postgres (pg_session.py).        *)
(* A setting that does not parse is <<>>, one that does is <<n>>.          *)
(***************************************************************************)
EXTENDS Integers, Sequences

Unparsed == <<>>

MAX_INFLIGHT_CEILING == 10000
CANCEL_GRACE_CEILING_S == 60
BODY_READ_CEILING_S == 300
DRAINING_PER_SLOT == 4
MAX_DRAINING_CEILING == DRAINING_PER_SLOT * MAX_INFLIGHT_CEILING
\* In MiB.  The floor is the cap on one request's body.
MAX_DRAINING_BYTES_FLOOR == 25
MAX_DRAINING_BYTES_CEILING == 16 * 1024

\* A whole number within its bounds.
InBounds(raw, lowest, highest) == raw # Unparsed /\ raw[1] \in lowest..highest

MaxInflight(v) == IF v.inflight = Unparsed THEN 0 ELSE v.inflight[1]

\* CORP_LLM_MAX_DRAINING: four seats a slot when it is not set.
MaxDraining(v) == IF v.drainingSet THEN v.draining[1] ELSE DRAINING_PER_SLOT * MaxInflight(v)

CapacityProblem(v, prod) ==
    \/ ~InBounds(v.inflight, 0, MAX_INFLIGHT_CEILING)
    \/ MaxInflight(v) = 0 /\ prod
    \/ ~InBounds(v.grace, 1, CANCEL_GRACE_CEILING_S)
    \/ ~InBounds(v.bodyRead, 1, BODY_READ_CEILING_S)
    \/ /\ v.drainingSet
       /\ \/ ~InBounds(v.draining, 0, MAX_DRAINING_CEILING)
          \/ MaxDraining(v) < MaxInflight(v)
    \/ ~InBounds(v.bytes, MAX_DRAINING_BYTES_FLOOR, MAX_DRAINING_BYTES_CEILING)

------------------------------------------------------------------------------
(* Issuance: its settings, then what it needs of the machine.               *)

UrlProblem(url, prod) == url = "not absolute" \/ (prod /\ url = "http")

IssuanceProblem(i, prod) ==
    \/ "" \in {i.audience, i.client}
    \/ i.audience # "" /\ i.audience = i.operatorAudience
    \/ UrlProblem(i.issuer, prod) \/ UrlProblem(i.jwks, prod)
    \/ i.teams = {} \/ "" \in i.teams
    \/ ~i.bounded           \* one of _ISSUANCE_BOUNDS is missed
    \/ ~i.dsn

IssuanceRuntimeProblem(i) == ~i.extras \/ i.ca = "unusable"

\* BOOT_PROBE_OUTCOMES: what may heal warns, everything else refuses, and so
\* does a server without the TLS that the DSN demands.
BootProbeOutcome(failure, strictTls) ==
    IF failure = "no TLS" /\ strictTls THEN "refuse"
    ELSE IF failure \in {"no TLS", "unreachable", "dropped", "shutting down", "too many connections"}
    THEN "warn" ELSE "refuse"

------------------------------------------------------------------------------
(* litellm's config file.                                                   *)

PathProblem(f) == f \in {"missing", "not a file", "not named YAML"}

ContentProblem(f) == f \in {"unreadable", "not YAML", "empty", "not a mapping",
                            "general_settings not a mapping", "pass-through endpoints",
                            "database url"}

LitellmProblem(f) == PathProblem(f) \/ ContentProblem(f)

=============================================================================
