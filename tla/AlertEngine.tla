---------------------------- MODULE AlertEngine ----------------------------
(***************************************************************************)
(* cpp/src/AlertEngine.cpp: one pass of the alert rules over the latest    *)
(* observed values.  What metricFor and the threshold make of a value is   *)
(* one of three readings; a value is never compared again after that.      *)
(***************************************************************************)
EXTENDS Naturals

CONSTANTS
    Rules,         \* the rules, numbered in the order of the table m_rules
    Sustained      \* AlertRule::sustained of each rule

ASSUME RulesAssumption ==
    /\ Rules \subseteq Nat
    /\ Sustained \in [Rules -> Nat \ {0}]

Readings == {"invalid", "normal", "breach"}

\* Mutant: a value is compared even when metricFor calls it invalid.
BreachingUnlessNormal(input) == {r \in Rules : input[r] # "normal"}

\* The rules whose value is valid and beyond the threshold.
Breaching(input) == {r \in Rules : input[r] = "breach"}

\* State::streak of every rule after a pass.  The code counts on; only whether
\* the count has reached Sustained is ever looked at, so this one stops there.
StreakAfter(streak, input) ==
    [r \in Rules |->
        IF r \notin Breaching(input) THEN 0
        ELSE IF streak[r] < Sustained[r] THEN streak[r] + 1 ELSE Sustained[r]]

\* The rules that fire in a pass that left the given streaks.
Firing(streak, input) == {r \in Breaching(input) : streak[r] >= Sustained[r]}
=============================================================================
