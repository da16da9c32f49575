------------------------------ MODULE Ranking ------------------------------
(***************************************************************************)
(* What the leaderboard makes of the rows of run_scores: the best attempt  *)
(* of each team, grouped by tier, with a composite score that compares the *)
(* members of a tier with each other.                                      *)
(*                                                                         *)
(* A row is a record with the fields team, language, correctness (in units *)
(* of 1/Full), capacity, p99, composite (the API server's score) and       *)
(* critical.  Fractions are compared by their cross products: the rounding *)
(* of floating point is not modelled.                                      *)
(***************************************************************************)
EXTENDS Integers, Sequences, FiniteSets

\* A correctness of 1.
Full == 100

Tiers == {"systems", "gc", "interpreted"}

tierFor(language) ==
  CASE language \in {"cpp", "rust", "zig"} -> "systems"
    [] language = "python" -> "interpreted"
    [] OTHER -> "gc"

\* The loops for maxCapTPS and maxP99 start from zero.
MaxFrom0(S) == CHOOSE x \in S \cup {0} : \A y \in S \cup {0} : y <= x

maxCapTPS(members) == MaxFrom0({m.capacity : m \in members})
maxP99(members) == MaxFrom0({m.p99 : m \in members})

AtLeast1(x) == IF x > 0 THEN x ELSE 1

Composite_Slowest(m, members) ==
  LET C == AtLeast1(maxCapTPS(members))
      P == AtLeast1(maxP99(members))
  IN 2 * m.correctness * C * P + 2 * m.capacity * Full * P + m.p99 * Full * C

\* 0.4 correctness + 0.4 capacity / maxCapTPS + 0.2 (1 - p99 / maxP99), times
\* 5 Full maxCapTPS maxP99; a maximum of zero takes its term out.
Composite(m, members) ==
  LET C == AtLeast1(maxCapTPS(members))
      P == AtLeast1(maxP99(members))
  IN 2 * m.correctness * C * P + 2 * m.capacity * Full * P + (maxP99(members) - m.p99) * Full * C

\* The comparison of the sort: flagged entries come after the others.
less(a, b, composite) ==
  IF a.critical # b.critical THEN ~a.critical ELSE composite[a] > composite[b]

\* Lists the sort may return: it is not stable, so equal entries come in any
\* order.  An entry's rank is its place.
Rankings(members) ==
  LET composite == [m \in members |-> Composite(m, members)]
  IN {r \in [1..Cardinality(members) -> members] :
        /\ \A i, j \in DOMAIN r : i # j => r[i] # r[j]
        /\ \A i, j \in DOMAIN r : i < j => ~less(r[j], r[i], composite)}

ByTier(rows) == [t \in Tiers |-> {m \in rows : tierFor(m.language) = t}]

\* buildTiers: a ranking of every tier.
Boards(rows) ==
  LET members == ByTier(rows)
  IN {[systems |-> s, gc |-> g, interpreted |-> i] : s \in Rankings(members["systems"]),
        g \in Rankings(members["gc"]), i \in Rankings(members["interpreted"])}

BestPerTeam_Latest(rows) ==
  {picked \in SUBSET rows :
     \A m \in rows : \E p \in picked :
       /\ {q \in picked : q.team = m.team} = {p}
       /\ p.team = m.team /\ p.attempt >= m.attempt}

\* queryBestPerTeam: one row of every team, of the greatest composite_score;
\* which one of equals is up to the database.
BestPerTeam(rows) ==
  {picked \in SUBSET rows :
     \A m \in rows : \E p \in picked :
       /\ {q \in picked : q.team = m.team} = {p}
       /\ p.team = m.team /\ p.composite >= m.composite}

\* a is nowhere worse than b, and somewhere better.
Dominates(a, b) ==
  /\ a.correctness >= b.correctness /\ a.capacity >= b.capacity /\ a.p99 <= b.p99
  /\ a.correctness > b.correctness \/ a.capacity > b.capacity \/ a.p99 < b.p99
=============================================================================
