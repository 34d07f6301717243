--------------------------- MODULE JournalAnalysis ---------------------------
(***************************************************************************)
(* What the dashboard reads out of the messages of a journal snapshot: the  *)
(* facets of the log pipeline, the secrets, and the threats, found by a     *)
(* leaky bucket for every source of failed logins.  A message is what the   *)
(* patterns find in it, a time is in seconds.                               *)
(***************************************************************************)
EXTENDS Integers, Sequences, FiniteSetsExt, Functions

CONSTANTS
    Messages,      \* records [parses, secrets, cards, auth], see below
    Lower,         \* toLower of the values of severity fields
    Times,         \* the times of entries
    MaxEntries,    \* bound on a snapshot
    Capacity,      \* s.capacity, 5 in the code
    LeakSeconds,   \* s.leakspeedSeconds, 10 in the code
    Limit          \* the longest list of counts, 8 in the code

VARIABLES
    entries,       \* snapshot.entries, each [time, message]
    facets,        \* the card of the log pipeline
    secrets,       \* the card of the secrets
    threats        \* the card of the threats

vars == <<entries, facets, secrets, threats>>

-----------------------------------------------------------------------------
\* The first name of a list that is in a set.
First(names, set) == names[Min({n \in DOMAIN names : names[n] \in set})]

\* The n elements of a set with the greatest weights, the greatest first; ties
\* are in any order.
Foremost(all, n, weight) ==
    CHOOSE sorted \in [1..n -> all] :
        /\ \A i, j \in 1..n : i < j => /\ sorted[i] # sorted[j]
                                       /\ weight[sorted[i]] >= weight[sorted[j]]
        /\ \A left \in all \ Range(sorted) : \A i \in 1..n : weight[sorted[i]] >= weight[left]

-----------------------------------------------------------------------------
(* The log pipeline.  parses: format -> [text: field -> value, nums:        *)
(* latency field -> number], for the formats whose pattern the message has. *)

Parsers ==
    <<"json", "logfmt", "docker", "docker-daemon", "syslog-rfc5424", "syslog-rfc3164", "cri",
      "nginx", "apache2", "apache", "apache_error", "envoy", "mongodb", "kube-custom">>

\* parseLogLineAuto: the first format in this order, and the fields it finds.
ParserOf(message) == First(Parsers, DOMAIN message.parses)
FieldsOf(message) == message.parses[ParserOf(message)]

\* The first of the keys with a value that is not among the void ones.
FirstField(text, keys, void) ==
    LET usable == {k \in Range(keys) \cap DOMAIN text : text[k] \notin void}
    IN  IF usable = {} THEN "" ELSE text[First(keys, usable)]

Severity(text) ==
    LET value == FirstField(text, <<"level", "severity">>, {})
    IN  IF value \in DOMAIN Lower THEN Lower[value] ELSE value

Code(text) == FirstField(text, <<"code", "response_code", "status", "upstream_status">>, {"", "-"})
Path(text) == FirstField(text, <<"path", "uri", "url">>, {""})

\* Milliseconds, of the first field that is a number; up to 1000 are seconds.
Latency(nums) ==
    LET value == nums[First(<<"duration", "request_time", "response_time",
                              "upstream_response_time", "total_time", "ms", "latency">>, DOMAIN nums)]
    IN  IF value > 1000 THEN value ELSE value * 1000

\* A mutant: the rarest come first.
SortedCountsUpwards(values) ==
    LET all == {[value |-> v, count |-> Cardinality({i \in DOMAIN values : values[i] = v})]
                : v \in Range(values) \ {""}}
    IN  Foremost(all, Min({Cardinality(all), Limit}), [c \in all |-> -c.count])

\* bump and sortedCounts: how often each value but "" comes, most often first,
\* here in any order where it is by name in the code.
SortedCounts(values) ==
    LET all == {[value |-> v, count |-> Cardinality({i \in DOMAIN values : values[i] = v})]
                : v \in Range(values) \ {""}}
    IN  Foremost(all, Min({Cardinality(all), Limit}), [c \in all |-> c.count])

\* facets.format: the first one in the order of a hash table.
MostFrequent(parsers) ==
    LET often(p) == Cardinality({i \in DOMAIN parsers : parsers[i] = p})
        used == Range(parsers)
    IN  IF used = {} THEN {""} ELSE {p \in used : \A q \in used : often(p) >= often(q)}

Facets(messages) ==
    LET parsed == {i \in DOMAIN messages : DOMAIN messages[i].parses # {}}
        timed == {i \in parsed : DOMAIN FieldsOf(messages[i]).nums # {}}
    IN  {[format |-> format, total |-> Len(messages), parsed |-> Cardinality(parsed),
          levels |-> SortedCounts([i \in parsed |-> Severity(FieldsOf(messages[i]).text)]),
          codes |-> SortedCounts([i \in parsed |-> Code(FieldsOf(messages[i]).text)]),
          paths |-> SortedCounts([i \in parsed |-> Path(FieldsOf(messages[i]).text)]),
          latencyCount |-> Cardinality(timed),
          latencySum |-> SumFunction([i \in timed |-> Latency(FieldsOf(messages[i]).nums)])]
         : format \in MostFrequent([i \in parsed |-> ParserOf(messages[i])])}

-----------------------------------------------------------------------------
(* The secrets.  secrets: the <<rule, sample>> the patterns find, those of  *)
(* one rule in the order of the line; cards: [sample, digits] of what is    *)
(* grouped like one.                                                        *)

SensitiveRules ==
    {"aws-access-token", "github-pat", "github-oauth", "github-refresh-token", "private-key", "jwt",
     "stripe-access-token", "slack-webhook-url", "generic-api-key", "email"}

LuhnValid(digits) ==
    LET doubled(n) == IF n * 2 > 9 THEN n * 2 - 9 ELSE n * 2
        added == [i \in DOMAIN digits |-> IF (Len(digits) - i) % 2 = 1 THEN doubled(digits[i])
                                                                       ELSE digits[i]]
    IN  Len(digits) \in 13..19 /\ SumFunction(added) % 10 = 0

\* scanSensitiveLine: the findings of a rule, as their places in the message.
ScanLine(message, rule) ==
    IF rule = "credit-card"
    THEN {n \in DOMAIN message.cards : LuhnValid(message.cards[n].digits)}
    ELSE {n \in DOMAIN message.secrets : message.secrets[n][1] = rule}

SampleAt(message, rule, n) ==
    IF rule = "credit-card" THEN message.cards[n].sample ELSE message.secrets[n][2]

\* What is found in all lines, each as <<line, rule, place in the line>>.
Found(messages) ==
    UNION {{<<i, rule, n>> : n \in ScanLine(messages[i], rule)}
           : i \in DOMAIN messages, rule \in SensitiveRules \cup {"credit-card"}}

\* scanSensitiveLines: the number of findings of a rule and its first sample.
ScanLines(messages) ==
    LET of(rule) == {f \in Found(messages) : f[2] = rule}
        line(rule) == Min({f[1] : f \in of(rule)})
        sample(rule) == SampleAt(messages[line(rule)], rule, Min(ScanLine(messages[line(rule)], rule)))
    IN  [scanned |-> Len(messages), findings |-> Cardinality(Found(messages)),
         byRule |-> [rule \in {f[2] : f \in Found(messages)} |->
                        [count |-> Cardinality(of(rule)), sample |-> sample(rule)]]]

-----------------------------------------------------------------------------
(* The threats.  auth: pattern -> [user, ip], for the patterns of           *)
(* parseAuthEvent the message has.                                          *)

AuthPatterns == <<"failed_password", "invalid_user", "accepted", "pam">>

\* parseAuthEvent: the first pattern that is found.
AuthEvent(entry) ==
    LET type == First(AuthPatterns, DOMAIN entry.message.auth)
    IN  [type |-> type, at |-> entry.time,
         user |-> entry.message.auth[type].user, ip |-> entry.message.auth[type].ip]

\* The places of the security events.
Events(list) == {i \in DOMAIN list : DOMAIN list[i].message.auth # {}}

Scenario(name, types, distinctUser) == [name |-> name, types |-> types, distinctUser |-> distinctUser]

ThreatScenarios ==
    {Scenario("ssh-bf", {"failed_password"}, FALSE),
     Scenario("ssh-bf_user-enum", {"failed_password", "invalid_user"}, TRUE),
     Scenario("pam-bf", {"pam"}, FALSE)}

Key(scenario, event) ==
    [scenario |-> scenario.name, ip |-> event.ip,
     user |-> IF scenario.distinctUser THEN event.user ELSE ""]

\* The places of the events a scenario is about, and those of one of its keys.
About(scenario, list) ==
    {i \in Events(list) : AuthEvent(list[i]).type \in scenario.types /\ AuthEvent(list[i]).ip # ""}
Keys(scenario, list) == {Key(scenario, AuthEvent(list[i])) : i \in About(scenario, list)}
Own(scenario, key, list) ==
    {i \in About(scenario, list) : Key(scenario, AuthEvent(list[i])) = key}

\* The events of a bucket in the order of their times.
Group(scenario, key, list) ==
    LET own == Own(scenario, key, list)
        order == Foremost(own, Cardinality(own), [i \in own |-> -list[i].time])
    IN  [n \in 1..Cardinality(own) |-> AuthEvent(list[order[n]])]

Empty(group) == [level |-> 0, last |-> group[1].at, over |-> {}]

\* A mutant: the time of the last event is never moved on.
PourFromFirst(bucket, event) ==
    LET leaked == bucket.level - (event.at - bucket.last) * Capacity
        level == (IF leaked > 0 THEN leaked ELSE 0) + LeakSeconds
    IN  IF bucket.over # {} THEN bucket
        ELSE [bucket EXCEPT !.level = level,
                            !.over = {[count |-> level \div LeakSeconds, at |-> event.at]
                                      : n \in {Capacity} \cap 0..(level \div LeakSeconds)}]

\* One event of a group, in units of an event / LeakSeconds.
Pour(bucket, event) ==
    LET leaked == bucket.level - (event.at - bucket.last) * Capacity
        level == (IF leaked > 0 THEN leaked ELSE 0) + LeakSeconds
    IN  IF bucket.over # {} THEN bucket
        ELSE [level |-> level, last |-> event.at,
              over |-> {[count |-> level \div LeakSeconds, at |-> event.at]
                        : n \in {Capacity} \cap 0..(level \div LeakSeconds)}]

\* The loop over a group: it ends with the first event that fills the bucket.
Poured(group) ==
    LET after[n \in 0..Len(group)] == IF n = 0 THEN Empty(group) ELSE Pour(after[n - 1], group[n])
    IN  after[Len(group)]

\* A scenario with one of the keys it groups by.
Groups(list) ==
    UNION {{[scenario |-> s, key |-> k] : k \in Keys(s, list)} : s \in ThreatScenarios}

Finding(list, g) ==
    {[key |-> g.key, count |-> o.count, at |-> o.at]
     : o \in Poured(Group(g.scenario, g.key, list)).over}

\* evaluateThreats: what is found, with the bucket it was found in.
EvaluateThreats(list) ==
    [events |-> Cardinality(Events(list)),
     findings |-> UNION {Finding(list, g) : g \in Groups(list)}]

-----------------------------------------------------------------------------
Cards(list) ==
    LET messages == [i \in DOMAIN list |-> list[i].message]
    IN  /\ facets' \in Facets(messages)
        /\ secrets' = ScanLines(messages)
        /\ threats' = EvaluateThreats(list)

Init ==
    /\ entries = <<>>
    /\ facets \in Facets(<<>>) /\ secrets = ScanLines(<<>>) /\ threats = EvaluateThreats(<<>>)

\* DashboardPanel::setJournalSnapshot; a failure comes with no entries.
SetJournalSnapshot ==
    \E n \in 0..MaxEntries :
        \E list \in [1..n -> [time : Times, message : Messages]] :
            entries' = list /\ Cards(list)

Next == entries = <<>> /\ SetJournalSnapshot

-----------------------------------------------------------------------------
(***************************************************************************)
(* The three cards tell the messages they were computed from.  A source is  *)
(* reported exactly when at one of its failures, counted back to some       *)
(* earlier one, there were more than had leaked in that time: the first     *)
(* such failure, with their number, wherever the bucket was empty in        *)
(* between.  Every finding of a secret belongs to a rule, whose sample is   *)
(* its first.  A list of facets leaves out nothing more frequent than what  *)
(* it shows, and a message counts for one format at most.                   *)
(***************************************************************************)
Filled(group, i) ==
    Max({(i - j + 1) * LeakSeconds - (group[i].at - group[j].at) * Capacity : j \in 1..i})

ThreatsAreBursts ==
    \A s \in ThreatScenarios : \A key \in Keys(s, entries) :
        LET group == Group(s, key, entries)
            full == {i \in DOMAIN group : Filled(group, i) >= Capacity * LeakSeconds}
        IN  {f \in threats.findings : f.key = key}
                = {[key |-> key, count |-> Filled(group, i) \div LeakSeconds, at |-> group[i].at]
                   : i \in {j \in full : \A k \in full : j <= k}}

SecretsAddUp ==
    /\ secrets.findings = SumFunction([r \in DOMAIN secrets.byRule |-> secrets.byRule[r].count])
    /\ \A r \in DOMAIN secrets.byRule :
           \E i \in DOMAIN entries :
               /\ \E n \in ScanLine(entries[i].message, r) :
                      secrets.byRule[r].sample = SampleAt(entries[i].message, r, n)
               /\ \A j \in 1..(i - 1) : ScanLine(entries[j].message, r) = {}

FacetsAddUp ==
    LET level(i) == Severity(FieldsOf(entries[i].message).text)
        known == {i \in DOMAIN entries : DOMAIN entries[i].message.parses # {}}
        count(v) == Cardinality({i \in known : level(i) = v})
        listed == {f.value : f \in Range(facets.levels)}
    IN  /\ facets.parsed = Cardinality(known) /\ facets.parsed <= facets.total
        /\ \A f \in Range(facets.levels) : f.count = count(f.value) /\ f.value # ""
        /\ \A i \in known : level(i) \notin listed \cup {""} =>
               /\ Len(facets.levels) = Limit
               /\ \A f \in Range(facets.levels) : f.count >= count(level(i))

CardsTellMessages == ThreatsAreBursts /\ SecretsAddUp /\ FacetsAddUp

Spec == Init /\ [][Next]_vars
=============================================================================
