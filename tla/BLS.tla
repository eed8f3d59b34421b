-------------------------------- MODULE BLS --------------------------------
(***************************************************************************)
(* The BLS signatures of crypto/ (private.go, public.go, signature.go) and *)
(* their implementation in crypto/bn256 (bls_impl.go, mtp.go), over        *)
(* bn256/cloudflare: keys are generated and published, messages hashed to  *)
(* G1 and signed, signatures verified.                                     *)
(*                                                                         *)
(* Much of it is unfinished: a method that panics with "implement me" ends *)
(* the program, as a nil dereference does.                                 *)
(*                                                                         *)
(* ..._Faulty... definitions are plausible bugs that test the properties.  *)
(***************************************************************************)
EXTENDS CloudflareBn256

CONSTANTS
    Signers,
    Messages,
    Keys,     \* the private keys that are drawn
    Expanded, \* what ExpandMsgSHA256XMD may make of a message: 4 numbers
    Z0        \* a square root of -3 in GF(p)

ASSUME KeysAssumption == Keys \subseteq 0 .. Order - 1
ASSUME Z0Assumption == Z0 \in 0 .. P - 1 /\ (Z0 * Z0 + 3) % P = 0

\* 24 of the 32 bytes of a coordinate: sums are below the modulus.
ASSUME ExpandedAssumption ==
    \A e \in Expanded : /\ e \in Seq(Nat) /\ Len(e) = 4
                        /\ e[1] + e[2] < P /\ e[3] + e[4] < P

VARIABLES
    expanded, \* the bytes that the hash expands each message to
    sk,       \* PrivateKey.p of each signer, or Nil
    pk,       \* PublicKey.p: Nil, or a G2Impl [g2] whose g2 may be Nil
    sig,      \* Signature.p: Nil, or a point
    signed,   \* history: the key and the message of each signature, or Nil
    last      \* history: how the last call ended, in detail if that was
              \* Verify or a Sign that made no signature

vars == <<expanded, sk, pk, sig, signed, last>>

Other == [call |-> "other", ends |-> "returns", of |-> Nil, key |-> Nil, says |-> FALSE]

Init ==
    /\ expanded \in [Messages -> Expanded]
    /\ sk = [s \in Signers |-> Nil]
    /\ pk = [s \in Signers |-> Nil]
    /\ sig = [s \in Signers |-> Nil]
    /\ signed = [s \in Signers |-> Nil]
    /\ last = Other

----------------------------------------------------------------------------
(* mtp.go: a number becomes a point of the curve.  The constants 4 and 3 of *)
(* the code are 1 + b and b.                                                *)

Z1 == ((Z0 - 1) * ModInverse(2)) % P

mulmod(x, y) == (x * y) % P
addmod(x, y) == (x + y) % P

\* Nil if there is none.
inversemod(x) == IF x % P = 0 THEN Nil ELSE ModInverse(x)

\* The exponent that belongs to an inverse root.
sqrt_FaultyInverse(xx) ==
    LET x == PowMod(xx, (P - 3) \div 4)
    IN  [x |-> x, hasRoot |-> mulmod(x, x) = xx]

\* p is 3 modulo 4.
sqrt(xx) ==
    LET x == PowMod(xx, (P + 1) \div 4)
    IN  [x |-> x, hasRoot |-> mulmod(x, x) = xx]

Panic == [ends |-> "panic", p |-> Nil]
Returns(p) == [ends |-> "returns", p |-> p]

\* One of three candidates is the x of a point; whether t is a square decides
\* between its two roots.  Arithmetic on a missing inverse panics, as does the
\* lack of a root, which "should not happen".
MapToPoint(t) ==
    LET a0 == addmod(mulmod(t, t), 1 + CurveB)
        a1 == mulmod(t, Z0)
        a2 == inversemod(mulmod(a1, a0))
        x1 == addmod(Z1, P - mulmod(t, mulmod(mulmod(a1, a1), a2)))
        a02 == mulmod(a0, a0)
        x3 == addmod(mulmod(mulmod(mulmod(a02, a02), a2), a2), 1)
        xs == <<x1, P - addmod(x1, 1), x3>>
        root(x) == sqrt(addmod(mulmod(mulmod(x, x), x), CurveB))
        found == {i \in DOMAIN xs : root(xs[i]).hasRoot}
        y == root(xs[Min(found)]).x
    IN  IF a2 = Nil \/ found = {} THEN Panic
        ELSE Returns(<<xs[Min(found)], IF sqrt(t).hasRoot THEN y ELSE P - y>>)

----------------------------------------------------------------------------
(* bls_impl.go.  A result says how the call ends, and holds what it returns;*)
(* B is bn256/cloudflare as a value.                                        *)

\* Coordinates are padded to their full length.
mapToG1_FaultyPadded(B, t) ==
    LET unmarshalled(g1) ==
            IF g1.ok THEN Returns(g1.p) ELSE [ends |-> "error", p |-> Nil]
        marshalled(point) ==
            IF point.ends = "panic" THEN Panic
            ELSE unmarshalled(B.G1.unmarshal[Nil][FixedBytes(point.p[1]) \o FixedBytes(point.p[2])])
    IN  marshalled(MapToPoint(t))

\* The coordinates are sent to Unmarshal without their leading zeros.
mapToG1(B, t) ==
    LET unmarshalled(g1) ==
            IF g1.ok THEN Returns(g1.p) ELSE [ends |-> "error", p |-> Nil]
        marshalled(point) ==
            IF point.ends = "panic" THEN Panic
            ELSE unmarshalled(B.G1.unmarshal[Nil][Bytes(point.p[1]) \o Bytes(point.p[2])])
    IN  marshalled(MapToPoint(t))

\* The method of that name, on the operand a.
Multiple(group, name, a, k) ==
    group.method[name][[e |-> Nil, a |-> a, b |-> Nil, k |-> k, same |-> FALSE]]

genG2(B) == Multiple(B.G2, "ScalarBaseMult", Nil, 1)
MulG1(B, g, k) == Multiple(B.G1, "ScalarMult", g, k)
MulG2(B, g, k) == Multiple(B.G2, "ScalarMult", g, k)

\* Adds to the first point, in place.
AddG1(B, p0, p1) ==
    B.G1.method["Add"][[e |-> p0, a |-> p0, b |-> p1, k |-> 0, same |-> TRUE]]

from48Bytes(a0, a1) == a0 + a1
hashToFp(bytes) == <<from48Bytes(bytes[1], bytes[2]), from48Bytes(bytes[3], bytes[4])>>

\* The first point is added to itself.
HashToG1_FaultyTwice(B, message) ==
    LET els == hashToFp(expanded[message])
        sum(p0, p1) == IF p0.ends # "returns" THEN p0
                       ELSE IF p1.ends # "returns" THEN p1
                       ELSE Returns(AddG1(B, p0.p, p0.p))
    IN  sum(mapToG1(B, els[1]), mapToG1(B, els[2]))

HashToG1(B, message) ==
    LET els == hashToFp(expanded[message])
        sum(p0, p1) == IF p0.ends # "returns" THEN p0
                       ELSE IF p1.ends # "returns" THEN p1
                       ELSE Returns(AddG1(B, p0.p, p1.p))
    IN  sum(mapToG1(B, els[1]), mapToG1(B, els[2]))

\* The check multiplies the pairings of the message with the generator and of
\* the signature with the key.  A missing point is dereferenced unless the
\* one it would be paired with is infinity.
VerifyOpt(B, key, mp, signature) ==
    LET noKey == key.g2 = Nil
    IN  IF signature = Nil \/ key = Nil THEN Panic
        ELSE IF noKey /\ ~IsInfinity1(signature) THEN Panic
        ELSE Returns(B.check[<<mp>> \o IF noKey THEN <<>> ELSE <<signature>>]
                            [<<genG2(B)>> \o IF noKey THEN <<>> ELSE <<key.g2>>])

----------------------------------------------------------------------------
(* Calls.                                                                   *)

Running == last.ends # "panic"

Ends(how) == last' = [Other EXCEPT !.ends = how]

\* rand.Int below the order: also 0, and again for a signer who has a key.
GenerateBlsKey(s) ==
    /\ Running
    /\ \E k \in Keys : sk' = [sk EXCEPT ![s] = k]
    /\ Ends("returns")
    /\ UNCHANGED <<expanded, pk, sig, signed>>

PublicKey(B, s) == [g2 |-> MulG2(B, genG2(B), sk[s])]

CollectPublicKeys(B, keys) ==
    /\ Running
    /\ \A s \in keys : sk[s] # Nil
    /\ pk' = [s \in Signers |-> IF s \in keys THEN PublicKey(B, s) ELSE pk[s]]
    /\ Ends("returns")
    /\ UNCHANGED <<expanded, sk, sig, signed>>

\* G2Impl.Add is not implemented: only keys that are not set can be added.
AggregatePublicKeys(pubs) ==
    IF \A s \in pubs : pk[s] = Nil THEN Returns([g2 |-> Nil]) ELSE Panic

\* PublicKey.Aggregate does the same for two keys.
Aggregate(s, pubs) ==
    LET sum == AggregatePublicKeys(pubs)
    IN  /\ Running
        /\ pk[s] = Nil
        /\ pk' = IF sum.ends = "returns" THEN [pk EXCEPT ![s] = sum.p] ELSE pk
        /\ Ends(sum.ends)
        /\ UNCHANGED <<expanded, sk, sig, signed>>

\* A message that cannot be hashed gets an empty signature.
Sign_FaultyEmpty(B, s, message) ==
    LET signs(mp) ==
            /\ sig' = [sig EXCEPT ![s] = IF mp.ends = "returns" THEN MulG1(B, mp.p, sk[s]) ELSE Nil]
            /\ signed' = [signed EXCEPT ![s] = [key |-> sk[s], of |-> message]]
            /\ Ends(mp.ends)
    IN  /\ Running
        /\ sk[s] # Nil
        /\ signs(HashToG1(B, message))
        /\ UNCHANGED <<expanded, sk, pk>>

Sign(B, s, message) ==
    LET signs(mp) ==
            IF mp.ends = "returns"
            THEN /\ sig' = [sig EXCEPT ![s] = MulG1(B, mp.p, sk[s])]
                 /\ signed' = [signed EXCEPT ![s] = [key |-> sk[s], of |-> message]]
                 /\ Ends("returns")
            ELSE /\ last' = [Other EXCEPT !.call = "Sign", !.ends = mp.ends, !.of = message]
                 /\ UNCHANGED <<sig, signed>>
    IN  /\ Running
        /\ sk[s] # Nil
        /\ signs(HashToG1(B, message))
        /\ UNCHANGED <<expanded, sk, pk>>

\* The keys are aggregated before the call, the message is hashed before the
\* signature and the key are looked at; no hash, no signature.
VerifyWith(B, s, key, message) ==
    LET check(mp) == IF mp.ends = "error" THEN Returns(FALSE)
                     ELSE IF mp.ends = "panic" THEN Panic
                     ELSE VerifyOpt(B, key.p, mp.p, sig[s])
        ends(result) ==
            last' = [call |-> "Verify", ends |-> result.ends, of |-> <<s, message>>,
                     key |-> key.p, says |-> result.ends = "returns" /\ result.p]
    IN  /\ Running
        /\ ends(IF key.ends = "panic" THEN Panic ELSE check(HashToG1(B, message)))
        /\ UNCHANGED <<expanded, sk, pk, sig, signed>>

Verify(B, s, t, message) == VerifyWith(B, s, Returns(pk[t]), message)

VerifyAggregated(B, s, pubs, message) ==
    VerifyWith(B, s, AggregatePublicKeys(pubs), message)

\* Marshal makes the point affine; without a point, it dereferences nil.
MarshalPublicKey(B, s) ==
    /\ Running
    /\ pk' = IF pk[s] = Nil \/ pk[s] = [g2 |-> Nil] THEN pk
             ELSE [pk EXCEPT ![s].g2 = B.G2.marshal[@].p]
    /\ Ends(IF pk[s] = [g2 |-> Nil] THEN "panic" ELSE "returns")
    /\ UNCHANGED <<expanded, sk, sig, signed>>

\* Serialize, Deserialize, NewG1 and NewSK are not implemented: neither are
\* keys read, nor signatures read, written or added.  (What is not set is
\* refused by MarshalJSON and Marshal, and changes nothing.)
Unfinished ==
    /\ Running
    /\ Ends("panic")
    /\ UNCHANGED <<expanded, sk, pk, sig, signed>>

Calls(B) ==
    \/ \E s \in Signers : GenerateBlsKey(s) \/ MarshalPublicKey(B, s)
    \/ \E s \in Signers, pubs \in SUBSET Signers : Aggregate(s, pubs)
    \/ \E keys \in SUBSET Signers \ {{}} : CollectPublicKeys(B, keys)
    \/ \E s \in Signers, m \in Messages :
        \/ Sign(B, s, m)
        \/ \E t \in Signers : Verify(B, s, t, m)
        \/ \E pubs \in SUBSET Signers : VerifyAggregated(B, s, pubs, m)
    \/ Unfinished

Next == Calls(Package)

Spec == Init /\ [][Next]_vars

----------------------------------------------------------------------------
(* Properties.                                                              *)

\* The elements of G1 and G2 by definition; the logarithm of an encoding.
Multiples(n, generator, Encoding(_)) ==
    <<Wire([i \in 1 .. n |-> 0])>>
        \o [k \in 1 .. Order - 1 |-> Wire(Encoding(PointMul(k, generator)))]
Wires1 == Multiples(2, <<Scalar(CurveGen[1]), Scalar(CurveGen[2])>>,
                    LAMBDA p : <<p[1].y, p[2].y>>)
Wires2 == Multiples(4, TwistGen, LAMBDA p : Coords2(p[1]) \o Coords2(p[2]))
LogIn(wires, m) == (CHOOSE k \in DOMAIN wires : wires[k] = m) - 1
Log1(g1) == LET m == G1Marshal(g1).m IN LogIn(Wires1, m)
Log2(g2) == LET m == G2Marshal(g2).m IN LogIn(Wires2, m)

\* A signature is held exactly if one was made, and keys have a point or none.
TypeOK ==
    /\ expanded \in [Messages -> Seq(Nat)]
    /\ sk \in [Signers -> Keys \cup {Nil}]
    /\ \A s \in Signers : pk[s] # Nil =>
          DOMAIN pk[s] = {"g2"} /\ (pk[s].g2 = Nil \/ pk[s].g2 \in twistPoint)
    /\ \A s \in Signers : IF signed[s] = Nil THEN sig[s] = Nil ELSE sig[s] \in curvePoint
    /\ last.ends \in {"returns", "error", "panic"}

\* The map of Shallue and van de Woestijne by definition: w = sqrt(-3) t /
\* (1 + b + t^2), and the first of its three abscissas that is on the curve
\* with the ordinate that is a square exactly if t is one.
MapOf(t) ==
    LET square(v) == \E r \in 0 .. P - 1 : (r * r - v) % P = 0
        w == CHOOSE v \in 0 .. P - 1 : (v * (1 + CurveB + t * t) - Z0 * t) % P = 0
        mid == CHOOSE v \in 0 .. P - 1 : (2 * v - Z0 + 1) % P = 0
        inv == CHOOSE v \in 0 .. P - 1 : (v * w * w) % P = 1
        xs == <<(mid - t * w) % P, (t * w - mid - 1) % P, (1 + inv) % P>>
        x == xs[CHOOSE i \in 1 .. 3 : /\ square(xs[i] * xs[i] * xs[i] + CurveB)
                                      /\ \A j \in 1 .. i - 1 : ~square(xs[j] * xs[j] * xs[j] + CurveB)]
    IN  <<x, CHOOSE y \in 0 .. P - 1 : /\ (y * y - x * x * x - CurveB) % P = 0
                                       /\ square(y) <=> square(t)>>

MapTable == <<>> \o [t \in 1 .. P - 1 |-> MapOf(t)]
MapLogs == <<>> \o [t \in 1 .. P - 1 |-> LET m == Wire(MapTable[t]) IN LogIn(Wires1, m)]

\* The logarithm of the sum of the two points.
HashLog(m) ==
    LET els == hashToFp(expanded[m]) IN (MapLogs[els[1]] + MapLogs[els[2]]) % Order

\* A signature is the point that the message is hashed to, by definition of the
\* map, times the private key it was made with.
SignatureExact ==
    \A s \in Signers : signed[s] # Nil =>
        Log1(sig[s]) = (signed[s].key * HashLog(signed[s].of)) % Order

\* One of the two points has a coordinate with a leading zero byte.
Short(m) == \E t \in ToSet(hashToFp(expanded[m])) : \E i \in {1, 2} :
                MapTable[t][i] < Power(ByteBase)[CoordBytes - 1]

\* Sign refuses a message exactly if one of the two points it is mapped to has
\* a coordinate with a leading zero byte, however often it is tried.
SignFailsExactly ==
    /\ last.call = "Sign" /\ last.ends = "error" => Short(last.of)
    /\ \A s \in Signers : signed[s] # Nil => ~Short(signed[s].of)

\* "Verify checks the BLS signature of the message against the public key of
\* its signer" (signature.go:13): it passes exactly the point that the message
\* is hashed to times the private key behind the public one.
VerifyTellsSigner ==
    last.call = "Verify" /\ last.ends = "returns" /\ sig[last.of[1]] # Nil
                         /\ last.key # Nil /\ last.key # [g2 |-> Nil] =>
        LET m == last.of[2]
            key == Log2(last.key.g2)
        IN  last.says <=>
                /\ ~Short(m)
                /\ Log1(sig[last.of[1]]) = (key * HashLog(m)) % Order

\* Signing, and verifying with a signature and a key that are set, does not
\* panic, except for a message that is mapped from 0.
NoPanic ==
    last.ends = "panic" =>
        CASE last.call = "Sign" -> 0 \in ToSet(hashToFp(expanded[last.of]))
          [] last.call = "Verify" ->
                \/ sig[last.of[1]] = Nil
                \/ last.key \in {Nil, [g2 |-> Nil]}
                \/ 0 \in ToSet(hashToFp(expanded[last.of[2]]))
          [] OTHER -> TRUE
=============================================================================
