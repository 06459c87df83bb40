------------------------------- MODULE Rules -------------------------------
(***************************************************************************)
(* services/auth/internal/rules: the decision a list of rules makes about  *)
(* a query of a subject.  Names are strings, "" and "*" match any; a       *)
(* constraint is the sequence of the filters it joins with AND (Filters    *)
(* has the join of their texts).                                           *)
(***************************************************************************)
EXTENDS Integers, SequencesExt

CONSTANT Folded     \* [name -> the name in lower case]

\* A row of geofence_rules.
GeofenceRule ==
    [priority : Int, username : STRING, rolename : STRING, service : STRING, request : STRING,
     workspace : STRING, layer : STRING, access : {"ALLOW", "DENY", "LIMIT"},
     read : Seq(STRING), write : Seq(STRING)]

Wild == {"", "*"}
SameFolded(a, b) == Folded[a] = Folded[b]

FieldMatch(ruleVal, queryVal) == ruleVal \in Wild \/ SameFolded(ruleVal, queryVal)

RoleMatch(ruleRole, roles) ==
    ruleRole \in Wild \/ \E role \in roles : SameFolded(ruleRole, role)

Matches(rule, sub, q) ==
    /\ FieldMatch(rule.username, sub.user)
    /\ RoleMatch(rule.rolename, sub.roles)
    /\ \A f \in {"service", "request", "workspace", "layer"} : FieldMatch(rule[f], q[f])

Denied == [allow |-> FALSE, read |-> <<>>, write |-> <<>>]
Undecided == [decided |-> FALSE, d |-> Denied]

\* The switch on the access of a matching rule.
Apply(acc, rule) ==
    CASE rule.access = "LIMIT" ->
           [acc EXCEPT !.d.read = @ \o rule.read, !.d.write = @ \o rule.write]
      [] rule.access = "ALLOW" -> [decided |-> TRUE, d |-> [acc.d EXCEPT !.allow = TRUE]]
      [] rule.access = "DENY"  -> [decided |-> TRUE, d |-> Denied]

\* Slip: a decision does not leave the loop
ConsiderAll(acc, rule, sub, q) == IF ~Matches(rule, sub, q) THEN acc ELSE Apply(acc, rule)

\* One round of the loop; a decided one is left.
Consider(acc, rule, sub, q) ==
    IF acc.decided \/ ~Matches(rule, sub, q) THEN acc ELSE Apply(acc, rule)

Rounds(rs, sub, q) ==
    LET acc[i \in 0..Len(rs)] ==
          IF i = 0 THEN Undecided ELSE Consider(acc[i - 1], rs[i], sub, q)
    IN acc

Evaluate(rs, sub, q, defaultAllow) ==
    LET acc == Rounds(rs, sub, q)[Len(rs)]
    IN IF acc.decided THEN acc.d
       ELSE IF defaultAllow THEN [acc.d EXCEPT !.allow = TRUE] ELSE Denied
=============================================================================
