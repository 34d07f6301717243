--------------------------- MODULE Configuration ---------------------------
(***************************************************************************)
(* loadConfig: every key of the file has a default, a rule that says which  *)
(* values are taken, and a range validate() forces it into.  Percentages    *)
(* and prices are whole numbers here; texts, targets and booleans are not   *)
(* modelled but for the lengths of the target lists.                        *)
(***************************************************************************)
EXTENDS Integers, FiniteSetsExt

CONSTANTS
    Raw,         \* what toInt() makes of a value in the file (0 when it is no number)
    MaxKeys      \* bound on the keys a file sets

VARIABLES file, config      \* key -> raw value; key -> value, <<>> before it is loaded

vars == <<file, config>>

\* How a value of the file is taken: always, or only above (from) zero.
Taken(rule, raw) ==
    CASE rule = "any" -> TRUE [] rule = "positive" -> raw > 0 [] rule = "natural" -> raw >= 0

Key(default, rule, low, high) ==
    [default |-> default, rule |-> rule, low |-> low, high |-> high]

Hour == 3600000

\* The two percentages are taken whenever they are numbers.
HealthKeys ==
    [cpu_warn_percent  |-> Key(70, "any", 0, 100),
     cpu_high_percent  |-> Key(90, "any", 0, 100),
     sustained_samples |-> Key(3, "positive", 1, 100)]

DockerKeys ==
    [healthy_ms       |-> Key(20000, "positive", 1000, Hour),
     issue_ms         |-> Key(8000, "positive", 1000, Hour),
     backoff_start_ms |-> Key(15000, "positive", 1000, Hour),
     backoff_cap_ms   |-> Key(240000, "positive", 1000, Hour),
     absent_ms        |-> Key(300000, "positive", 1000, Hour),
     timeout_ms       |-> Key(3000, "positive", 100, 600000)]

\* The same but for three defaults, under names of its own.
KubeKeys ==
    [kube_healthy_ms       |-> Key(30000, "positive", 1000, Hour),
     kube_issue_ms         |-> Key(10000, "positive", 1000, Hour),
     kube_backoff_start_ms |-> Key(15000, "positive", 1000, Hour),
     kube_backoff_cap_ms   |-> Key(240000, "positive", 1000, Hour),
     kube_absent_ms        |-> Key(300000, "positive", 1000, Hour),
     kube_timeout_ms       |-> Key(5000, "positive", 100, 600000)]

OverlayKeys ==
    [focus_cache_ttl_ms |-> Key(1500, "natural", 0, 600000),
     sample_interval_ms |-> Key(1000, "positive", 100, 600000)]

\* A list of targets by its length.
SyntheticKeys ==
    [synthetic_targets     |-> Key(0, "natural", 0, 32),
     synthetic_interval_ms |-> Key(30000, "positive", 5000, Hour),
     synthetic_timeout_ms  |-> Key(5000, "positive", 500, 60000)]

TraceKeys == [traces_port |-> Key(4318, "positive", 1, 65535)]

PathKeys ==
    [path_targets     |-> Key(0, "natural", 0, 16),
     path_interval_ms |-> Key(60000, "positive", 10000, Hour),
     path_cycles      |-> Key(10, "positive", 1, 100)]

StatsdKeys == [dogstatsd_port |-> Key(8125, "positive", 1, 65535)]

DatabaseKeys ==
    [database_port        |-> Key(5432, "positive", 1, 65535),
     database_interval_ms |-> Key(5000, "positive", 1000, 300000)]

TlsKeys ==
    [tls_targets     |-> Key(0, "natural", 0, 32),
     tls_interval_ms |-> Key(300000, "positive", 10000, 86400000)]

Tables ==
    <<HealthKeys, DockerKeys, KubeKeys, OverlayKeys, SyntheticKeys, TraceKeys, PathKeys,
      StatsdKeys, DatabaseKeys, TlsKeys>>

Keys ==
    LET tables == Tables
        TableOf(k) == CHOOSE i \in DOMAIN tables : k \in DOMAIN tables[i]
    IN  [k \in UNION {DOMAIN tables[i] : i \in DOMAIN tables} |-> tables[TableOf(k)][k]]

\* The values loadConfig leaves before validate().
Loaded(contents) ==
    LET keys == Keys
    IN  [k \in DOMAIN keys |->
            IF k \in DOMAIN contents /\ Taken(keys[k].rule, contents[k])
            THEN contents[k] ELSE keys[k].default]

Clamp(value, low, high) == IF value < low THEN low ELSE IF value > high THEN high ELSE value

\* The pairs of which the second may not be below the first.
Ordered ==
    {<<"cpu_warn_percent", "cpu_high_percent">>, <<"backoff_start_ms", "backoff_cap_ms">>,
     <<"kube_backoff_start_ms", "kube_backoff_cap_ms">>}

Forced(values) ==
    LET keys == Keys IN [k \in DOMAIN values |-> Clamp(values[k], keys[k].low, keys[k].high)]

\* A mutant: the pairs are ordered before they are forced into their ranges.
ValidatedFirst(values) ==
    LET Raised(k) == {values[p[1]] : p \in {q \in Ordered : q[2] = k}}
        forced == Forced(values)
    IN  [k \in DOMAIN values |-> Max(Raised(k) \cup {forced[k]})]

\* validate: the ranges, then the order of the pairs.
Validated(values) ==
    LET forced == Forced(values)
        Raised(k) == {forced[p[1]] : p \in {q \in Ordered : q[2] = k}}
    IN  [k \in DOMAIN values |-> Max(Raised(k) \cup {forced[k]})]

Init == file = <<>> /\ config = <<>>

\* The user writes a key.
Edit ==
    /\ config = <<>> /\ Cardinality(DOMAIN file) < MaxKeys
    /\ \E k \in DOMAIN Keys \ DOMAIN file, raw \in Raw :
           file' = [key \in DOMAIN file \cup {k} |-> IF key = k THEN raw ELSE file[key]]
    /\ UNCHANGED config

\* A file that is missing or cannot be parsed leaves the defaults as they are.
Load ==
    /\ config = <<>>
    /\ \/ config' = Validated(Loaded(file))
       \/ config' = Loaded(<<>>)
    /\ UNCHANGED file

Next == Edit \/ Load

(***************************************************************************)
(* Whatever the file says, the configuration is one the sources can run on: *)
(* all keys are in their ranges, no cap is below its start and no alarm     *)
(* below its warning, validating again changes nothing, and a key the file  *)
(* leaves alone has its default (or was raised to its partner's value).     *)
(***************************************************************************)
ConfigIsUsable ==
    config # <<>> =>
        LET keys == Keys
        IN  /\ \A k \in DOMAIN keys : config[k] \in keys[k].low..keys[k].high
            /\ \A p \in Ordered : config[p[1]] <= config[p[2]]
            /\ Validated(config) = config
            /\ \A k \in DOMAIN keys \ DOMAIN file :
                   \/ config[k] = keys[k].default
                   \/ \E p \in Ordered : p[2] = k /\ config[k] = config[p[1]]

Spec == Init /\ [][Next]_vars
=============================================================================
