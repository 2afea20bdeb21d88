------------------------------ MODULE SigmaRules ------------------------------
(***************************************************************************)
(* The Sigma rules engine (src/src/sigma_engine.rs): a rule has a category *)
(* and a condition, a tree of And, Or and FieldMatch; a field of the event *)
(* is compared without regard to case.                                     *)
(***************************************************************************)
EXTENDS Naturals, Sequences

CONSTANTS
    Condition,  \* the conditions of the rules, and the conditions they are made of
    Depth,      \* condition -> how deep its parts are nested: none is part of itself
    Event,      \* the fields of an event, by their names
    Lower(_)    \* a text without its case

FieldMatch(f, v) == [type |-> "FieldMatch", field |-> f, value |-> v]
And(nodes) == [type |-> "And", nodes |-> nodes]
Or(nodes) == [type |-> "Or", nodes |-> nodes]

(* An event that has not the field does not match.                         *)
Matches(node, fields) ==
    node.field \in DOMAIN fields /\ Lower(fields[node.field]) = Lower(node.value)

ASSUME ConditionAssumption ==
    /\ Depth \in [Condition -> Nat]
    /\ \A n \in Condition :
          \/ n.type = "FieldMatch"
          \/ /\ n.type \in {"And", "Or"}
             /\ \A i \in DOMAIN n.nodes : n.nodes[i] \in Condition /\ Depth[n.nodes[i]] < Depth[n]

EvaluateNode[node \in Condition] ==
    [fields \in Event |->
        \/ node.type = "FieldMatch" /\ Matches(node, fields)
        \/ node.type = "And" /\ \A i \in DOMAIN node.nodes : EvaluateNode[node.nodes[i]][fields]
        \/ node.type = "Or" /\ \E i \in DOMAIN node.nodes : EvaluateNode[node.nodes[i]][fields]]

(* evaluate: the first of the hits, 0 if there is none.                    *)
First(hits) == IF hits = {} THEN 0 ELSE CHOOSE i \in hits : \A j \in hits : i <= j

(* The rules of every category are tried.                                  *)
FaultyEvaluate(rules, category, fields) ==
    First({i \in DOMAIN rules : EvaluateNode[rules[i].condition][fields]})

Evaluate(rules, category, fields) ==
    First({i \in DOMAIN rules : /\ rules[i].category = category
                                /\ EvaluateNode[rules[i].condition][fields]})

-----------------------------------------------------------------------------
(* Reference: a condition as the set of its alternatives, each a set of    *)
(* comparisons that have to hold together.                                 *)
Comparisons == {n \in Condition : n.type = "FieldMatch"}

Alternatives[n \in Condition] ==
    {s \in CASE n.type = "FieldMatch" -> {{n}}
             [] n.type = "And" -> SUBSET Comparisons
             [] n.type = "Or" -> UNION {Alternatives[n.nodes[i]] : i \in DOMAIN n.nodes} :
        n.type = "And" =>
            \A i \in DOMAIN n.nodes : \E a \in Alternatives[n.nodes[i]] : a \subseteq s}

Satisfied(rule, category, fields) ==
    rule.category = category
    /\ \E a \in Alternatives[rule.condition] : \A m \in a : Matches(m, fields)
=============================================================================
