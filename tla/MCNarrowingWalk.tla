-------------------------- MODULE MCNarrowingWalk --------------------------
(***************************************************************************)
(* Instance of NarrowingWalk: two concrete segments (a wildcard and a      *)
(* concrete segment are told apart by a request only if there are two),    *)
(* resources of one and two segments, one malformed pattern, numeric       *)
(* bounds 1 and 2 against amounts 0 to 3, and one equality constraint.     *)
(***************************************************************************)
EXTENDS NarrowingWalk, FiniteSets

CONSTANTS a, b, prod, dev

MCAmounts == 0 .. 3
MCOthers == {prod, dev}
MCKeys == {"maxAmount", "minAmount", "env", "amount"}
None == <<>>            \* the function with no key

Limits ==
  { None,
    [maxAmount |-> 2], [maxAmount |-> 1], [minAmount |-> 1],
    [maxAmount |-> 2, minAmount |-> 1],
    [env |-> prod], [env |-> prod, maxAmount |-> 1],
    [maxAmount |-> prod], [amount |-> 1] }

Resources == {<<a, b>>, <<a, Wildcard>>, <<Wildcard, Wildcard>>, <<Wildcard>>, <<a, Malformed>>}

Capabilities ==
  {[action |-> act, resource |-> res, constraints |-> lim] :
     act \in {<<a>>, <<Wildcard>>}, res \in Resources, lim \in Limits}

(* Any single capability, and pairs that differ in action or constraints.  *)
Grants ==
  {{cap} : cap \in Capabilities}
  \cup {{[action |-> <<act>>, resource |-> <<Wildcard, b>>, constraints |-> lim],
         [action |-> <<b>>, resource |-> res, constraints |-> None]} :
          act \in {a, Wildcard}, res \in {<<a, b>>, <<a, Wildcard>>},
          lim \in {None, [env |-> dev]}}

Auds == {{<<a, Wildcard>>}, {<<Wildcard, b>>, <<a, a>>}, {<<Wildcard, Wildcard>>, <<Wildcard>>},
         {<<a, b>>}, {<<a, Malformed>>}, {}}

(* Every audience with one grant, every grant with one audience.           *)
MCOffers ==
  {[capabilities |-> g, aud |-> {<<Wildcard, Wildcard>>, <<Wildcard>>}] : g \in Grants}
  \cup {[capabilities |-> {[action |-> <<Wildcard>>, resource |-> <<Wildcard, Wildcard>>,
                            constraints |-> None]}, aud |-> d] : d \in Auds}

MCAskedRequests ==
  [action : {<<a>>, <<b>>},
   resource : {<<a>>, <<b>>, <<a, a>>, <<a, b>>, <<b, a>>, <<b, b>>},
   context : {None, [env |-> prod], [env |-> dev, amount |-> 0], [amount |-> dev]}
             \cup {[amount |-> n, env |-> prod] : n \in MCAmounts}]
=============================================================================
