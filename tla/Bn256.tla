------------------------------- MODULE Bn256 -------------------------------
(***************************************************************************)
(* crypto/bn256: a program that works on elements of one of the three      *)
(* groups with one of the two implementations, which the architecture      *)
(* selects at build time (bn256_fast.go, bn256_slow.go).                   *)
(*                                                                         *)
(* The elements are those of the implementation, point for point and       *)
(* coordinate for coordinate: what one method leaves behind is what the    *)
(* next one finds.  A register may be receiver and operand of one call.    *)
(***************************************************************************)
EXTENDS BNParams

CONSTANTS
    Registers,
    Scalars,   \* the scalars of calls
    Stray,     \* an affine point of the twist outside the subgroup
    MaxCalls,  \* bound on the number of calls
    Negated,   \* whether points of G2 are paired that Neg has left without t
    Nil,
    Unset, Spoilt  \* instead of a logarithm

C == INSTANCE CloudflareBn256
G == INSTANCE GoogleBn256

ASSUME CallsAssumption ==
    /\ Nil \notin Registers
    /\ Scalars \subseteq 0 .. Order
    /\ Stray \in [x : 0 .. P - 1, y : 0 .. P - 1] \X [x : 0 .. P - 1, y : 0 .. P - 1]
    /\ Negated \in BOOLEAN
    /\ MaxCalls \in Nat

VARIABLES
    impl,    \* "cloudflare" or "google"
    group,   \* "G1", "G2" or "GT"
    reg,     \* the p of an element, or Nil
    log,     \* the logarithm of each element, read off it after every call
    stage,   \* "unset", "raw" (Miller without Finalize), "ready", or "spoilt"
    wire,    \* the last marshalled element, its bytes and its logarithm, or Nil
    answer,  \* of the last call, if that was an Unmarshal or a PairingCheck:
             \* what it was asked and whether it said yes; otherwise Nil
    calls

vars == <<impl, group, reg, log, stage, wire, answer, calls>>

Init ==
    /\ impl \in {"cloudflare", "google"}
    /\ group \in {"G1", "G2", "GT"}
    /\ reg = [r \in Registers |-> Nil]
    /\ log = [r \in Registers |-> Unset]
    /\ stage = [r \in Registers |-> "unset"]
    /\ wire = Nil
    /\ answer = Nil
    /\ calls = 0

----------------------------------------------------------------------------
(* The elements by definition: what is sent for the multiples of the        *)
(* generator, by the chord-and-tangent law, from 0 to Order - 1, and for    *)
(* the powers of the pairing of the generators; and the logarithm of bytes. *)

Multiples(n, generator, Encoding(_)) ==
    <<Wire([i \in 1 .. n |-> 0])>>
        \o [k \in 1 .. Order - 1 |-> Wire(Encoding(PointMul(k, generator)))]

GTWires ==
    LET power(F, base, k) == C!GTMarshal(C!Exp12(F, base, k)).m
        powers(F, base) ==
            <<power(F, base, 0)>> \o [k \in 1 .. Order - 1 |-> power(F, base, k)]
    IN  powers(C!GFp12, C!Pair(C!GFp12, C!curveGen, C!twistGen))

Wires ==
    [G1 |-> Multiples(2, <<Scalar(CurveGen[1]), Scalar(CurveGen[2])>>,
                      LAMBDA p : <<p[1].y, p[2].y>>),
     G2 |-> Multiples(4, TwistGen, LAMBDA p : Coords2(p[1]) \o Coords2(p[2])),
     GT |-> GTWires]

NoLog == Order
Log(wires, m) ==
    IF m \in Range(wires) THEN (CHOOSE k \in 1 .. Order : wires[k] = m) - 1 ELSE NoLog

----------------------------------------------------------------------------
(* The two builds: the package that bn256 is, and the elements by           *)
(* definition to read logarithms off.  An action has its build as first     *)
(* parameter.                                                               *)

Fast == [p |-> C!Package, wires |-> Wires]
Slow == [p |-> G!Package, wires |-> Wires]

isFast(B) == B.p.name = "cloudflare"

\* One method, selected by the type of the receiver.
Method(B, name, e, a, b, k) ==
    LET p(r) == IF r = Nil THEN Nil ELSE reg[r]
    IN  B.p[group].method[name]
           [[e |-> p(e), a |-> p(a), b |-> p(b), k |-> k, same |-> e = a]]

MarshalOf(B, p) == B.p[group].marshal[p]
UnmarshalOf(B, p, m) == B.p[group].unmarshal[p][m]

\* Multiples of the generators of the two groups that are paired.
Base(k) == [e |-> Nil, a |-> Nil, b |-> Nil, k |-> k, same |-> FALSE]
G1Times(B, k) == B.p.G1.method["ScalarBaseMult"][Base(k)]
G2Times(B, k) == B.p.G2.method["ScalarBaseMult"][Base(k)]

LogOf(B, p, s) ==
    CASE s = "unset"  -> Unset
      [] s = "spoilt" -> Spoilt
      [] s = "raw"    -> Log(B.wires[group], MarshalOf(B, B.p.finalize[p]).m)
      [] s = "ready"  -> Log(B.wires[group], MarshalOf(B, p).m)

----------------------------------------------------------------------------
(* Calls.  An operand has been set, and its last Unmarshal did not fail.    *)

MayCall(B) == B.p.name = impl /\ calls < MaxCalls
Usable(r) == stage[r] \in {"raw", "ready"}

Call(result) ==
    /\ calls' = calls + 1
    /\ answer' = result
    /\ UNCHANGED <<impl, group>>

Becomes(B, e, p, s) ==
    /\ reg' = [reg EXCEPT ![e] = p]
    /\ stage' = [stage EXCEPT ![e] = s]
    /\ log' = [log EXCEPT ![e] = LogOf(B, p, s)]

Sets(B, e, p, s) == Becomes(B, e, p, s) /\ UNCHANGED wire /\ Call(Nil)

ScalarBaseMult(B, e, k) ==
    /\ MayCall(B) /\ group # "GT"
    /\ Sets(B, e, Method(B, "ScalarBaseMult", e, Nil, Nil, k), "ready")

\* rand.Int below the order, until it is not zero.
randomK == Scalars \ {0, Order}
Random(B, e) == stage[e] = "unset" /\ \E k \in randomK : ScalarBaseMult(B, e, k)

ScalarMult(B, e, a, k) ==
    /\ MayCall(B) /\ Usable(a)
    /\ Sets(B, e, Method(B, "ScalarMult", e, a, Nil, k), stage[a])

\* bn256/google: "this function is not complete: a==b fails" (bn256.go:88):
\* it does when a is the receiver as well.
Add(B, e, a, b) ==
    /\ MayCall(B) /\ Usable(a)
    /\ stage[b] = stage[a]
    /\ ~isFast(B) /\ group # "GT" /\ e = a => log[a] # log[b]
    /\ Sets(B, e, Method(B, "Add", e, a, b, 0), stage[a])

Neg(B, e, a) ==
    /\ MayCall(B) /\ Usable(a)
    /\ isFast(B) \/ group # "G2"
    /\ Sets(B, e, Method(B, "Neg", e, a, Nil, 0), stage[a])

Set(B, e, a) ==
    /\ MayCall(B) /\ isFast(B) /\ Usable(a)
    /\ Sets(B, e, Method(B, "Set", e, a, Nil, 0), stage[a])

\* Pair and Miller return new elements.  The loop of a point with infinity is
\* not made an element by Finalize: Pair looks for infinity before it.
Pair(B, e, i, j) ==
    /\ MayCall(B) /\ group = "GT" /\ stage[e] = "unset"
    /\ Sets(B, e, B.p.pair[G1Times(B, i)][G2Times(B, j)], "ready")

Miller(B, e, i, j) ==
    /\ MayCall(B) /\ group = "GT" /\ isFast(B) /\ stage[e] = "unset"
    /\ 0 \notin {i % Order, j % Order}
    /\ Sets(B, e, B.p.miller[G1Times(B, i)][G2Times(B, j)], "raw")

Finalize(B, e) ==
    /\ MayCall(B) /\ isFast(B) /\ stage[e] = "raw"
    /\ Sets(B, e, B.p.finalize[reg[e]], "ready")

Marshal(B, e) ==
    LET sends(result) ==
            /\ Becomes(B, e, result.p, "ready")
            /\ wire' = [m |-> result.m, log |-> Log(B.wires[group], result.m)]
    IN  /\ MayCall(B) /\ stage[e] = "ready"
        /\ sends(MarshalOf(B, reg[e]))
        /\ Call(Nil)

Reads(B, e, m) ==
    LET is(result) ==
            /\ Becomes(B, e, result.p, IF result.ok THEN "ready"
                                       ELSE IF result.p = reg[e] THEN stage[e] ELSE "spoilt")
            /\ Call([of |-> m, ok |-> result.ok])
    IN  /\ MayCall(B)
        /\ is(UnmarshalOf(B, reg[e], m))
        /\ UNCHANGED wire

\* What a peer may send for the marshalled bytes: infinity, too little, too
\* much, a coordinate that is too large by p, another last coordinate, or
\* a point outside the subgroup.
Forged ==
    LET sent == wire.m
        first == Coordinate(sent, 0)
        last == Coordinate(sent, Len(sent) \div CoordBytes - 1)
        keep(n) == SubSeq(sent, 1, Len(sent) - n)
        large == FixedBytes(first + P) \o SubSeq(sent, CoordBytes + 1, Len(sent))
    IN  {Front(sent), large}
        \cup (IF group = "GT" THEN {}
              ELSE {sent \o <<0>>, [i \in DOMAIN sent |-> 0],
                    keep(CoordBytes) \o FixedBytes((last + 1) % P),
                    keep(CoordBytes) \o FixedBytes(P)})
        \cup (IF group = "G2" THEN {Wire(Coords2(Stray[1]) \o Coords2(Stray[2]))} ELSE {})

Unmarshal(B, e) == wire # Nil /\ Reads(B, e, wire.m)
UnmarshalForged(B, e) == wire # Nil /\ \E m \in Forged : Reads(B, e, m)

\* The Miller loop reads t of an affine point of the twist.
FreshT(p) == p.z = C!One2 => p.t = C!One2

\* PairingCheck of a against the negative of b: with the generator of G2 and
\* its negative, or of G1.
Same(B, a, b) ==
    /\ MayCall(B) /\ group # "GT"
    /\ Usable(a) /\ Usable(b) /\ a # b
    /\ group = "G2" /\ isFast(B) /\ ~Negated => FreshT(reg[a]) /\ FreshT(reg[b])
    /\ UNCHANGED <<reg, log, stage, wire>>
    /\ Call([of |-> <<a, b>>,
             ok |-> IF group = "G1"
                    THEN B.p.check[<<reg[a], reg[b]>>]
                                  [<<G2Times(B, 1), G2Times(B, Order - 1)>>]
                    ELSE B.p.check[<<G1Times(B, 1), G1Times(B, Order - 1)>>]
                                  [<<reg[a], reg[b]>>]])

Calls(B) ==
    \/ \E e \in Registers :
        \/ \E k \in Scalars : ScalarBaseMult(B, e, k)
        \/ Random(B, e)
        \/ \E a \in Registers, k \in Scalars : ScalarMult(B, e, a, k)
        \/ \E a, b \in Registers : Add(B, e, a, b)
        \/ \E a \in Registers : Neg(B, e, a) \/ Set(B, e, a)
        \/ \E i, j \in Scalars : Pair(B, e, i, j) \/ Miller(B, e, i, j)
        \/ Finalize(B, e)
        \/ Marshal(B, e) \/ Unmarshal(B, e) \/ UnmarshalForged(B, e)
    \/ \E a, b \in Registers : Same(B, a, b)

Next == Calls(Fast) \/ Calls(Slow)

Spec == Init /\ [][Next]_vars

----------------------------------------------------------------------------
(* Properties.                                                              *)

fast == impl = "cloudflare"

Elements ==
    CASE group = "G1" -> IF fast THEN C!curvePoint ELSE G!curvePoint
      [] group = "G2" -> IF fast THEN C!twistPoint ELSE G!twistPoint
      [] group = "GT" -> IF fast THEN C!gfP12 ELSE G!gfP12

\* What is set is an element of the chosen implementation, in numbers that fit
\* its words, and no call takes an element away.
TypeOK ==
    /\ impl \in {"cloudflare", "google"}
    /\ group \in {"G1", "G2", "GT"}
    /\ \A r \in Registers :
        /\ stage[r] \in {"unset", "raw", "ready", "spoilt"}
        /\ reg[r] = Nil \/ reg[r] \in Elements
        /\ stage[r] # "unset" => reg[r] # Nil
    /\ calls \in 0 .. MaxCalls

\* Whatever the calls and their order, receivers that are operands included,
\* each register holds the element that the algebra says it holds; both
\* implementations send the same canonical bytes for it, and read them; and
\* a pairing check tells equal elements from different ones.
Group == INSTANCE BilinearGroup WITH
    N <- Order, val <- log,
    wire <- IF wire = Nil THEN Unset ELSE wire.log,
    answer <- IF answer = Nil THEN Unset ELSE answer.ok
AbsSpec == Group!Spec

\* Unmarshal takes the encodings of the elements of the group and no other
\* bytes: no coordinate beyond the modulus, no point beside the curve or
\* outside the subgroup.  Only bn256/cloudflare takes more bytes than that.
AcceptsExactly ==
    answer # Nil /\ group # "GT" /\ answer.of \notin Registers \X Registers =>
        LET size == (IF group = "G1" THEN 2 ELSE 4) * CoordBytes
        IN  answer.ok <=> /\ Len(answer.of) = size \/ (fast /\ Len(answer.of) > size)
                          /\ SubSeq(answer.of, 1, size) \in Range(Wires[group])

\* The fields, and a point with coordinates in S, in reduced numbers.
Fp == 0 .. P - 1
Fp2 == [x : Fp, y : Fp]
Fp6 == [x : Fp2, y : Fp2, z : Fp2]
Fp12 == [x : Fp6, y : Fp6]
Point(S) == [x : S, y : S, z : S, t : S]

\* bn256/cloudflare compares elements word by word: the coordinates of a
\* usable element are reduced.
Reduced ==
    \A r \in Registers : fast /\ Usable(r) =>
        CASE group = "G1" -> reg[r] \in Point(Fp)
          [] group = "G2" -> reg[r] \in Point(Fp2)
          [] group = "GT" -> reg[r] \in Fp12

\* "PairingCheck calculates the Optimal Ate pairing for a set of points"
\* (bn256.go:321): it tells whether the two elements are the same, however
\* they were made.
CheckExact ==
    answer # Nil /\ answer.of \in Registers \X Registers =>
        (answer.ok <=> log[answer.of[1]] = log[answer.of[2]])

\* The digits of a scalar in bn256/cloudflare add up to it, for every scalar:
\* bit 1 of a digit counts lambda times, the factor that the endomorphism of
\* CurveMul multiplies points with.
DigitsExact ==
    calls = 0 =>
        LET phi(p) == <<Scalar((p[1].y * XiPower((2 * P * P - 2) \div 3).y) % P), p[2]>>
            base == <<Scalar(CurveGen[1]), Scalar(CurveGen[2])>>
            lambda == CHOOSE n \in 1 .. Order : PointMul(n, base) = phi(base)
            value(digits) ==
                FoldLeft(LAMBDA n, d : 2 * n + (d % 2) + lambda * (d \div 2), 0, digits)
        IN  \A k \in 0 .. Order : (value(C!Multi(C!curveLattice, k)) - k) % Order = 0
=============================================================================
