--------------------------- MODULE ConsumerImpact ---------------------------
(* Which capabilities a change affects, and how far they are from it: the    *)
(* breadth-first traversal _consumer_impact (candidate_ops/diff.py), one     *)
(* action per round of its loop.  Tests to run, evidence to require and the  *)
(* report to the approver all follow from its result.                        *)
(* Capability paths are numbers, so that sorted() has a meaning.             *)
EXTENDS Naturals, Sequences, FiniteSets

CONSTANTS Capabilities,      \* paths of the catalogue's entries
          Changed,           \* the changed capability
          MaxDependencies    \* bound: edges of the whole dependency graph

ASSUME ImpactAssumption == /\ Capabilities \subseteq Nat /\ IsFiniteSet(Capabilities)
                           /\ Changed \in Capabilities

VARIABLES dependencies,    \* metadata.dependencies of each entry
          queue,           \* the deque of (path, depth, via)
          visited,
          impacted         \* the result list

vars == <<dependencies, queue, visited, impacted>>

Impact == [path : Capabilities, distance : Nat, via : Capabilities]

TypeOK ==
  /\ dependencies \in [Capabilities -> SUBSET Capabilities]
  /\ queue \in Seq(Impact)
  /\ visited \subseteq Capabilities
  /\ impacted \in Seq(Impact)

Consumers(p) == {c \in Capabilities : p \in dependencies[c]}

\* The sorted list of a set, each element as a queue entry.
Entries(set, distance, via) ==
  {s \in [1..Cardinality(set) -> [path : set, distance : {distance}, via : {via}]] :
     \A i, k \in 1..Cardinality(set) : i < k => s[i].path < s[k].path}

Edges(d) == Cardinality({e \in Capabilities \X Capabilities : e[2] \in d[e[1]]})

\* No entry may name itself among its dependencies; longer cycles are accepted.
Init ==
  /\ dependencies \in {d \in [Capabilities -> SUBSET Capabilities] :
                         /\ \A c \in Capabilities : c \notin d[c]
                         /\ Edges(d) <= MaxDependencies}
  /\ queue \in Entries(Consumers(Changed), 1, Changed)
  /\ visited = {Changed}
  /\ impacted = <<>>

Peeked == queue                                                       \* mutant
Rest == Tail(queue)

\* A path that was reached already is dropped.
Skip ==
  /\ queue # <<>>
  /\ Head(queue).path \in visited
  /\ queue' = Rest
  /\ UNCHANGED <<dependencies, visited, impacted>>

NextDepth(n) == n + 1

LastInFirstOut(new, rest) == new \o rest                              \* mutant
Enqueue(new, rest) == rest \o new

\* A new path is reported, and its consumers queue up behind everything found before.
Visit ==
  LET p == Head(queue).path IN
  /\ queue # <<>>
  /\ p \notin visited
  /\ visited' = visited \union {p}
  /\ impacted' = Append(impacted, Head(queue))
  /\ \E new \in Entries(Consumers(p) \ visited', NextDepth(Head(queue).distance), p) :
       queue' = Enqueue(new, Rest)
  /\ UNCHANGED dependencies

Next == Skip \/ Visit
Spec == Init /\ [][Next]_vars

Done == queue = <<>>
Consumer == {impacted[i].path : i \in 1..Len(impacted)}

-----------------------------------------------------------------------------
(* Properties.                                                             *)

\* The entries the change reaches: the least set that holds the changed capability and
\* whatever depends on a member.
DependOn(S) == {c \in Capabilities : dependencies[c] \intersect S # {}}
Closed == {S \in SUBSET Capabilities : Changed \in S /\ DependOn(S) \subseteq S}
Affected == {c \in Capabilities : \A S \in Closed : c \in S}

\* The chains of n > 0 dependencies from c down to the changed capability, read upwards.
Chains(c, n) ==
  {p \in {[i \in 0..n |-> IF i = 0 THEN Changed ELSE IF i = n THEN c ELSE between[i]] :
            between \in [1..(n - 1) -> Capabilities]} :
     \A i \in 1..n : p[i - 1] \in dependencies[p[i]]}

\* In the end exactly the capabilities that depend on the changed one, directly or not,
\* are reported, each once, with its distance along the shortest chain of dependencies
\* and the capability before it on such a chain, whatever cycles and branches the
\* catalogue has (analyse_consumer_impact).
ImpactIsExact ==
  /\ Done => {Changed} \union Consumer = Affected
  /\ \A i \in 1..Len(impacted) :
       LET e == impacted[i] IN
       /\ e.path # Changed
       /\ \A k \in 1..Len(impacted) : impacted[k].path = e.path => k = i
       /\ \E p \in Chains(e.path, e.distance) : p[e.distance - 1] = e.via
       /\ \A n \in 1..(e.distance - 1) : Chains(e.path, n) = {}
=============================================================================
