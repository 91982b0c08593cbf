---------------------------- MODULE MCToolServer ----------------------------
(***************************************************************************)
(* Instances of ToolServer.  A issues a wide hop to B twice, and B         *)
(* delegates a narrower one, that expires first, from the former.          *)
(***************************************************************************)
EXTENDS ToolServer, TLC

CONSTANTS a, b, A1, B1, kA, kB, c1, c2, p1, p2

Cap(pattern) == [action |-> <<Wildcard>>, resource |-> <<pattern>>, constraints |-> <<>>]
Token(kid, iss, sub, pattern, exp, parentHopHash) ==
  [kid |-> kid, claims |-> [iss |-> iss, sub |-> sub, capabilities |-> {Cap(pattern)},
                            aud |-> {<<Wildcard>>}, exp |-> exp,
                            parentHopHash |-> parentHopHash]]

MCTokens == << Token(kA, A1, B1, Wildcard, 2, NoParent),
               Token(kA, A1, B1, Wildcard, 2, NoParent),
               Token(kB, B1, A1, a, 1, 1) >>
MCPairs == {<<A1, kA>>, <<B1, kB>>}

Ask(resource) == [action |-> <<a>>, resource |-> <<resource>>, context |-> <<>>]

(* The delegated hop after its parent, after its parent's twin, alone; and *)
(* more hops than are allowed.                                             *)
GuardPresented == {<<1, 3>>, <<2, 3>>, <<3>>, <<1, 3, 3>>}
OneRotated == {<<A1, kA>>}
GuardRequests == {Ask(a), Ask(b), Ask(Wildcard)}

OneToken == SubSeq(MCTokens, 1, 1)
OnePair == {<<A1, kA>>}
OnePresented == {<<>>, <<1>>}
OneAsked == {Ask(a)}

(* Neither clients nor processes are told apart.                           *)
Alike == Permutations({c1, c2}) \cup Permutations({p1, p2})
=============================================================================
