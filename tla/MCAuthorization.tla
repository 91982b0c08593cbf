-------------------------- MODULE MCAuthorization --------------------------
(***************************************************************************)
(* Instance of Authorization: a three-hop chain and a two-hop chain that   *)
(* share their root, whose hops expire one after the other, and requests   *)
(* that reach every branch of the decision.                                *)
(***************************************************************************)
EXTENDS Authorization

CONSTANTS a, b, root, middle, last, other, c1

Cap(pattern, limits) ==
  [action |-> <<Wildcard>>, resource |-> <<pattern>>, constraints |-> limits]
Hop(jti, exp, pattern, aud, limits) ==
  [jti |-> jti, exp |-> exp, aud |-> {<<aud>>}, capabilities |-> {Cap(pattern, limits)}]

Root == Hop(root, 3, Wildcard, Wildcard, <<>>)
Middle == Hop(middle, 2, Wildcard, Wildcard, [maxAmount |-> 1])
Last == Hop(last, 1, a, Wildcard, [maxAmount |-> 1])
Other == [jti |-> other, exp |-> 3, aud |-> {<<b>>},
          capabilities |-> {Cap(Wildcard, <<>>), Cap(b, [maxAmount |-> 1])}]

MCChains == {<<Root, Middle, Last>>, <<Root, Other>>}

Ask(resource, context) == [action |-> <<a>>, resource |-> <<resource>>, context |-> context]
MCRequests == { Ask(a, [amount |-> 1]), Ask(b, <<>>), Ask(a, [amount |-> 2]),
                Ask(Wildcard, <<>>) }
MCKeys == {"maxAmount", "amount"}
=============================================================================
