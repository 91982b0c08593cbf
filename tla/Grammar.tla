------------------------------ MODULE Grammar ------------------------------
(***************************************************************************)
(* The identifier grammar of src/src/authorization/grammar.ts: colon       *)
(* separated names, and patterns in which a segment may be the wildcard.   *)
(*                                                                         *)
(* A string is represented by its split at ":", the sequence of its        *)
(* segments, and the empty string by <<>>.  What the code asks of a single *)
(* segment is which of three kinds it is, so a segment is a concrete one   *)
(* (it matches CONCRETE_SEGMENT and is at most MAX_SEGMENT_LENGTH long),   *)
(* the wildcard, or Malformed, which stands for everything else: empty,    *)
(* too long, or with a character outside the grammar.                      *)
(***************************************************************************)
EXTENDS Integers, Sequences

CONSTANTS ConcreteSegments,   \* the segments a request may be made of
          Wildcard,           \* the segment "*"
          Malformed,          \* any segment that is neither
          MAX_SEGMENTS

ASSUME SegmentsAssumption ==
  /\ Wildcard \notin ConcreteSegments
  /\ Malformed \notin ConcreteSegments \cup {Wildcard}

ASSUME MaxSegmentsAssumption == MAX_SEGMENTS \in Nat \ {0}

Segments == ConcreteSegments \cup {Wildcard, Malformed}

isConcreteSegment(segment) == segment \in ConcreteSegments
isPatternSegment(segment) == segment \in ConcreteSegments \cup {Wildcard}

(* assertConcrete does not throw. *)
assertConcrete(value) ==
  /\ Len(value) \in 1 .. MAX_SEGMENTS
  /\ \A i \in DOMAIN value : isConcreteSegment(value[i])

(* parsePatternSegments does not return null. *)
parsePatternSegments(value) ==
  /\ Len(value) \in 1 .. MAX_SEGMENTS
  /\ \A i \in DOMAIN value : isPatternSegment(value[i])

matchPattern(pattern, concrete) ==
  /\ parsePatternSegments(pattern)
  /\ Len(pattern) = Len(concrete)
  /\ \A i \in DOMAIN pattern : pattern[i] \in {Wildcard, concrete[i]}

matchAnyPattern(patterns, concrete) ==
  \E pattern \in patterns : matchPattern(pattern, concrete)

(* A slip in the next definition: a wildcard in the child taken to be a    *)
(* subset of anything.                                                     *)
SlipWildcardChild(child, parent) ==
  /\ parsePatternSegments(child)
  /\ parsePatternSegments(parent)
  /\ Len(child) = Len(parent)
  /\ \A i \in DOMAIN child : Wildcard \in {parent[i], child[i]} \/ parent[i] = child[i]

patternIsSubsetOf(child, parent) ==
  /\ parsePatternSegments(child)
  /\ parsePatternSegments(parent)
  /\ Len(child) = Len(parent)
  /\ \A i \in DOMAIN child : parent[i] \in {Wildcard, child[i]}
=============================================================================
