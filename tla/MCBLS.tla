------------------------------- MODULE MCBLS -------------------------------
(* BLS for TLC.                                                             *)
EXTENDS BLS, ToyCurve

\* The key 0, which rand.Int may return, and another one.
MCKeys == {0, 5}

\* Every element of the field: those with a point two to a message, from both
\* ends, the others as the first and as the second one of a message; then one
\* element twice, and two that are mapped to opposite points.
MCExpanded ==
    LET parts(t, u) == <<t \div 2, t - t \div 2, u, 0>>
        mapped(B) == SelectSeq([t \in 1 .. P |-> t - 1],
                               LAMBDA t : mapToG1(B, t).ends = "returns")
        messages(good, n) ==
            {parts(good[i], good[n + 1 - i]) : i \in 1 .. (n + 1) \div 2}
              \cup UNION {{parts(t, good[1]), parts(good[1], t)} :
                           t \in (0 .. P - 1) \ ToSet(good)}
              \cup {parts(good[1], good[1]), parts(good[1], P - good[1])}
        from(good) == messages(good, Len(good))
    IN  from(mapped(Package))
=============================================================================
