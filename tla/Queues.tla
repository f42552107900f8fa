------------------------------- MODULE Queues -------------------------------
(* Vocabulary for the packet queues (std::deque, std::list) of the models. *)
EXTENDS Naturals, Sequences

Elements(s) == {s[i] : i \in DOMAIN s}

Distinct(s) == \A i, j \in DOMAIN s : s[i] = s[j] => i = j

\* The elements of s that are in U are without duplicates.
DistinctIn(s, U) == \A i, j \in DOMAIN s : s[i] \in U /\ s[i] = s[j] => i = j

\* The sequences ss, one after the other.
Joined(ss) == LET upTo[i \in 0..Len(ss)] == IF i = 0 THEN <<>> ELSE upTo[i - 1] \o ss[i]
              IN  upTo[Len(ss)]
=============================================================================
