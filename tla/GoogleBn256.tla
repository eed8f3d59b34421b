---------------------------- MODULE GoogleBn256 ----------------------------
(***************************************************************************)
(* bn256/google: the optimal Ate pairing and the operations of G1, G2 and  *)
(* GT, which are laid out as in CloudflareBn256.                           *)
(*                                                                         *)
(* ..._Faulty... definitions are plausible bugs that test the properties.  *)
(***************************************************************************)
EXTENDS GoogleCurve

CONSTANT Nil

----------------------------------------------------------------------------
(* optate.go.                                                               *)

\* The line through the multiple r and p, taken at q, and their sum.
lineFunctionAdd(F, r, p, q, rsq) ==
    LET dbl(v) == F.add[v][v]
        D == F.mult[F.sub[F.sub[F.sqr[F.add[p.y][r.z]]][rsq]][r.t]][r.t]
        H == F.sub[F.mult[p.x][r.t]][r.x]
        I == F.sqr[H]
        E == dbl(dbl(I))
        J == F.mult[H][E]
        L1 == F.sub[F.sub[D][r.y]][r.y]
        V == F.mult[r.x][E]
        x == F.sub[F.sub[F.sub[F.sqr[L1]][J]][V]][V]
        z == F.sub[F.sub[F.sqr[F.add[r.z][H]]][r.t]][I]
        y == F.sub[F.mult[F.sub[V][x]][L1]][dbl(F.mult[r.y][J])]
        t == F.sqr[z]
        e == F.sub[F.sub[F.sqr[F.add[p.y][z]]][rsq]][t]
    IN  [a |-> F.sub[dbl(F.mult[L1][p.x])][e],
         b |-> dbl(F.scale[F.neg[L1]][q.x]),
         c |-> dbl(F.scale[z][q.y]),
         r |-> [x |-> x, y |-> y, z |-> z, t |-> t]]

\* The tangent in r.
lineFunctionDouble(F, r, q) ==
    LET dbl(v) == F.add[v][v]
        A == F.sqr[r.x]
        B == F.sqr[r.y]
        C == F.sqr[B]
        D == dbl(F.sub[F.sub[F.sqr[F.add[r.x][B]]][A]][C])
        E == F.add[dbl(A)][A]
        G == F.sqr[E]
        x == F.sub[F.sub[G][D]][D]
        z == F.sub[F.sub[F.sqr[F.add[r.y][r.z]]][B]][r.t]
        y == F.sub[F.mult[F.sub[D][x]][E]][dbl(dbl(dbl(C)))]
    IN  [a |-> F.sub[F.sub[F.sub[F.sqr[F.add[r.x][E]]][A]][G]][dbl(dbl(B))],
         b |-> F.scale[F.neg[dbl(F.mult[E][r.t])]][q.x],
         c |-> F.scale[dbl(F.mult[z][r.t])][q.y],
         r |-> [x |-> x, y |-> y, z |-> z, t |-> F.sqr[z]]]

\* F is the field of the coefficients of ret.
mulLine(F, ret, line) ==
    LET sparse(z) == [x |-> Zero2, y |-> line.a, z |-> z]
        into(a2, t3, xy) == [x |-> F.sub[F.sub[xy][a2]][t3], y |-> F.add[t3][F.mulTau[a2]]]
    IN  into(F.mult[sparse(line.b)][ret.x], F.scale[ret.y][line.c],
             F.mult[F.add[ret.x][ret.y]][sparse(F.base.add[line.b][line.c])])

sixuPlus2NAF == SixUPlus2NAF

\* The multiple of q, r, starts from the affine q, t included.  F is GFp12.
loopOf(F, aAffine, minusA, rsq, bAffine) ==
    LET along(s, line) == [ret |-> mulLine(F.base, s.ret, line), r |-> line.r]
        doubled(s) == along([s EXCEPT !.ret = F.sqr[@]],
                            lineFunctionDouble(F.base.base, s.r, bAffine))
        added(s, point, pointSq) ==
            along(s, lineFunctionAdd(F.base.base, s.r, point, bAffine, pointSq))
        digits(s, digit) ==
            IF digit = 0 THEN s ELSE added(s, IF digit = 1 THEN aAffine ELSE minusA, rsq)
        step(s, digit) == digits(doubled(s), digit)
        ends(s, point) == added(s, point, F.base.base.sqr[point.y])
        q1 == [x |-> Mul2(Conj2(aAffine.x), xiToPMinus1Over3),
               y |-> Mul2(Conj2(aAffine.y), xiToPMinus1Over2), z |-> One2, t |-> One2]
        minusQ2 == [x |-> MulScalar2(aAffine.x, xiToPSquaredMinus1Over3),
                    y |-> aAffine.y, z |-> One2, t |-> One2]
    IN  FoldLeft(ends, FoldLeft(step, [ret |-> One12, r |-> aAffine],
                                Tail(Reverse(sixuPlus2NAF))), <<q1, minusQ2>>).ret

miller(F, q, p) ==
    LET from(aAffine, bAffine) ==
            loopOf(F, aAffine, TwistNeg(aAffine), Square2(aAffine.y), bAffine)
    IN  from(TwistAffine(q), CurveAffine(p))

\* in^((p^6 - 1) (p^2 + 1)).
easyPart(F, in) ==
    LET by(inv) == F.mult[inv][F.frobeniusP2[inv]] IN by(F.mult[F.conj[in]][F.inv[in]])

\* t1, fu, fu2 and fu3: each is the one before to the u.
powersOfU(F, t1) ==
    FoldLeft(LAMBDA f, i : Append(f, Exp12(F, Last(f), U)), <<t1>>, <<1, 2, 3>>)

\* t1^((p^4 - p^2 + 1) / Order).
hardPart(F, f) ==
    LET fp == F.frobenius[f[1]]
        fp2 == F.frobeniusP2[f[1]]
        y0 == F.mult[F.mult[fp][fp2]][F.frobenius[fp2]]
        y1 == F.conj[f[1]]
        y2 == F.frobeniusP2[f[3]]
        y3 == F.conj[F.frobenius[f[2]]]
        y4 == F.conj[F.mult[f[2]][F.frobenius[f[3]]]]
        y5 == F.conj[f[3]]
        y6 == F.conj[F.mult[f[4]][F.frobenius[f[4]]]]
        y456 == F.mult[F.mult[F.sqr[y6]][y4]][y5]
        y2456 == F.mult[y456][y2]
        t == F.sqr[F.mult[F.sqr[F.mult[F.mult[y3][y5]][y456]]][y2456]]
    IN  F.mult[F.sqr[F.mult[t][y1]]][F.mult[t][y0]]

\* in^((p^12 - 1) / Order).
finalExponentiation(F, in) == hardPart(F, powersOfU(F, easyPart(F, in)))

IsInfinity1(p) == p.z = 0
IsInfinity2(p) == IsZero2(p.z)

optimalAte(F, a, b) ==
    IF IsInfinity2(a) \/ IsInfinity1(b) THEN One12
    ELSE finalExponentiation(F, miller(F, a, b))

PairingCheck(F, a, b) ==
    LET pairs == {i \in DOMAIN a : ~IsInfinity1(a[i]) /\ ~IsInfinity2(b[i])}
        acc == FoldSet(LAMBDA i, f : F.mult[f][miller(F, b[i], a[i])], One12, pairs)
    IN  IsOne12(finalExponentiation(F, acc))

Pair(F, g1, g2) == optimalAte(F, g2, g1)

----------------------------------------------------------------------------
(* bn256.go: the methods of the three groups, by name.  G2 has no Neg and   *)
(* no Set, G1 and GT have no Set, and there is no Miller without Finalize.  *)

methods == {"ScalarBaseMult", "ScalarMult", "Add", "Neg"}

\* "same" is said of the receiver and the operand a.
G1Method(name, e, a, b, k, same) ==
    CASE name = "ScalarBaseMult" -> CurveMul(curveGen, k)
      [] name = "ScalarMult"     -> CurveMul(a, k)
      [] name = "Add"            -> CurveAdd(IF e = Nil THEN ZeroCurve ELSE e, a, b, same)
      [] name = "Neg"            -> CurveNeg(a)

G2Method(name, e, a, b, k, same) ==
    CASE name = "ScalarBaseMult" -> TwistMul(twistGen, k, ZeroTwist)
      [] name = "ScalarMult"     -> TwistMul(a, k, ZeroTwist)
      [] name = "Add"            -> TwistAdd(IF e = Nil THEN ZeroTwist ELSE e, a, b, same)

GTMethod(F, name, e, a, b, k) ==
    CASE name = "ScalarMult" -> Exp12(F, a, k)
      [] name = "Add"        -> F.mult[a][b]
      [] name = "Neg"        -> F.inv[a]

\* Infinity is all zeros, and stays as it is.
G1Marshal(e) ==
    LET p == CurveAffine(e)
    IN  IF IsInfinity1(e) THEN [p |-> e, m |-> Wire(<<0, 0>>)]
        ELSE [p |-> p, m |-> Wire(<<p.x % P, p.y % P>>)]

G2Marshal(e) ==
    LET p == TwistAffine(e)
    IN  IF IsInfinity2(e) THEN [p |-> e, m |-> Wire(<<0, 0, 0, 0>>)]
        ELSE [p |-> p, m |-> Wire(Coords2(Minimal2(p.x)) \o Coords2(Minimal2(p.y)))]

GTMarshal(e) == LET p == Minimal12(e) IN [p |-> p, m |-> Wire(Coords12(p))]

\* A failure leaves in the receiver the coordinates read so far.
G1Unmarshal(e, m) ==
    LET read == Read(m, 2)
        old == IF e = Nil THEN ZeroCurve ELSE e
        raw == Overwrite(read.coords, <<old.x, old.y>>)
        p == IF raw = <<0, 0>> THEN [ZeroCurve EXCEPT !.y = 1]
             ELSE AffineCurve(raw[1], raw[2])
    IN  IF Len(m) # 2 * CoordBytes THEN [ok |-> FALSE, p |-> e]
        ELSE IF ~read.ok THEN [ok |-> FALSE, p |-> [old EXCEPT !.x = raw[1], !.y = raw[2]]]
        ELSE [ok |-> raw = <<0, 0>> \/ IsOnCurve(p), p |-> p]

G2Unmarshal(e, m) ==
    LET read == Read(m, 4)
        old == IF e = Nil THEN ZeroTwist ELSE e
        raw == Overwrite(read.coords, Coords2(old.x) \o Coords2(old.y))
        zero == raw = <<0, 0, 0, 0>>
        p == IF zero THEN [ZeroTwist EXCEPT !.y = One2]
             ELSE AffineTwist(From2(raw, 0), From2(raw, 2))
    IN  IF Len(m) # 4 * CoordBytes THEN [ok |-> FALSE, p |-> e]
        ELSE IF ~read.ok
             THEN [ok |-> FALSE, p |-> [old EXCEPT !.x = From2(raw, 0), !.y = From2(raw, 2)]]
        ELSE [ok |-> zero \/ IsOnTwist(p), p |-> p]

\* The receiver is cleared before the length is looked at.
GTUnmarshal_FaultyCleared(e, m) ==
    IF Len(m) # 12 * CoordBytes THEN [ok |-> FALSE, p |-> Nil]
    ELSE [ok |-> TRUE, p |-> From12([i \in 1 .. 12 |-> Coordinate(m, i - 1)])]

\* Any twelve numbers are taken, those that exceed the modulus too.
GTUnmarshal(e, m) ==
    IF Len(m) # 12 * CoordBytes THEN [ok |-> FALSE, p |-> e]
    ELSE [ok |-> TRUE, p |-> From12([i \in 1 .. 12 |-> Coordinate(m, i - 1)])]
----------------------------------------------------------------------------
(* What the package exports, as a value: by group and method.              *)

CallsOn(E) ==
    [e : E \cup {Nil}, a : E \cup {Nil}, b : E \cup {Nil}, k : Nat, same : BOOLEAN]

Package ==
    LET groupOf(E, Method(_, _, _, _, _, _), MarshalOf(_), UnmarshalOf(_, _)) ==
            [method    |-> [name \in methods |-> [c \in CallsOn(E) |->
                                Method(name, c.e, c.a, c.b, c.k, c.same)]],
             marshal   |-> [e \in E \cup {Nil} |-> MarshalOf(e)],
             unmarshal |-> [e \in E \cup {Nil} |-> [m \in Seq(Nat) |-> UnmarshalOf(e, m)]]]
        over(F) ==
            [name     |-> "google",
             G1       |-> groupOf(curvePoint, G1Method,
                                  G1Marshal, G1Unmarshal),
             G2       |-> groupOf(twistPoint, G2Method,
                                  G2Marshal, G2Unmarshal),
             GT       |-> groupOf(gfP12,
                                  LAMBDA name, e, a, b, k, same : GTMethod(F, name, e, a, b, k),
                                  GTMarshal, GTUnmarshal),
             pair     |-> [p \in curvePoint |-> [q \in twistPoint |-> Pair(F, p, q)]],
             check    |-> [a \in Seq(curvePoint) |-> [b \in Seq(twistPoint) |->
                               PairingCheck(F, a, b)]]]
    IN  over(GFp12)
=============================================================================
