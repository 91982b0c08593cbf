---------------------------- MODULE MCDelegation ----------------------------
(***************************************************************************)
(* Instances of Delegation.  The patterns are of one segment: module       *)
(* NarrowingWalk explores the language, what is explored here is who       *)
(* signs, presents and verifies what, and when.                            *)
(***************************************************************************)
EXTENDS Delegation, TLC

CONSTANTS a, b, A, B, kA

Cap(pattern) == [action |-> <<pattern>>, resource |-> <<pattern>>, constraints |-> <<>>]
Wide == {Cap(Wildcard)}
Narrow == {Cap(a)}
AnyAud == {<<Wildcard>>}
AAud == {<<a>>}
BAud == {<<b>>}

Offer(iss, sub, capabilities, aud, exp) ==
  [iss |-> iss, sub |-> sub, capabilities |-> capabilities, aud |-> aud, exp |-> exp]

NoHandmade == {}
AllPairs == Identities \X Kids
KeyOfB == {<<B, kA>>}
NoPairs == {}
NoAuds == {}

(* Hops of the one identity trusted to sign, in which audience and expiry  *)
(* vary.  delegate() is asked for narrow hops, to either identity, that    *)
(* expire at 2.                                                            *)
LineageHandmade ==
  { Offer(B, B, Wide, AnyAud, 2), Offer(B, B, Wide, AnyAud, 1), Offer(B, B, Wide, BAud, 1) }

(* Expiries at 1 and 3 under a clock that reaches 2, where minting gives 2 *)
(* and more, and one hop whose audience is empty.                          *)
ClockHandmade ==
  { Offer(B, A, Wide, AnyAud, 3), Offer(B, B, Narrow, AnyAud, 1), Offer(B, A, Narrow, {}, 2) }

MintGrants == {Wide, Narrow}
MintAuds == {AnyAud}
DelegatedGrants == {Narrow}
LimitGrants == {Wide, Narrow \cup {Cap(b)}}
LimitAuds == {AnyAud, AAud \cup BAud, {}}

MCAskedRequests == {[action |-> <<s>>, resource |-> <<s>>, context |-> <<>>] : s \in {a, b}}
=============================================================================
