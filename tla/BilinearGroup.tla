--------------------------- MODULE BilinearGroup ---------------------------
(***************************************************************************)
(* What bn256 promises: registers that hold elements of one of three       *)
(* cyclic groups of order N, known by their discrete logarithms, and a     *)
(* bilinear map from G1 and G2 to GT.                                      *)
(***************************************************************************)
EXTENDS Integers

CONSTANTS
    N,         \* the order of the groups
    Registers,
    Scalars,
    Unset,     \* of a register without an element
    Spoilt     \* of one whose last Unmarshal failed, and that must be set anew

VARIABLES
    group,     \* "G1", "G2" or "GT"
    val,       \* the logarithm of the element in each register
    wire,      \* the logarithm of the last marshalled element, or Unset
    answer     \* what the last call returned, if that is a truth value

vars == <<group, val, wire, answer>>

Logs == 0 .. N - 1

TypeOK ==
    /\ group \in {"G1", "G2", "GT"}
    /\ val \in [Registers -> Logs \cup {Unset, Spoilt}]
    /\ wire \in Logs \cup {Unset}
    /\ answer \in BOOLEAN \cup {Unset}

Init ==
    /\ group \in {"G1", "G2", "GT"}
    /\ val = [r \in Registers |-> Unset]
    /\ wire = Unset
    /\ answer = Unset

Holds(r) == val[r] \in Logs

Sets(e, log) ==
    /\ val' = [val EXCEPT ![e] = log]
    /\ UNCHANGED <<group, wire>>

ScalarBaseMult(e, k) == group # "GT" /\ Sets(e, k % N) /\ answer' = Unset
Pair(e, i, j) == group = "GT" /\ Sets(e, (i * j) % N) /\ answer' = Unset
ScalarMult(e, a, k) == Holds(a) /\ Sets(e, (val[a] * k) % N) /\ answer' = Unset
Add(e, a, b) ==
    Holds(a) /\ Holds(b) /\ Sets(e, (val[a] + val[b]) % N) /\ answer' = Unset
Neg(e, a) == Holds(a) /\ Sets(e, (-val[a]) % N) /\ answer' = Unset
Copy(e, a) == Holds(a) /\ Sets(e, val[a]) /\ answer' = Unset

Marshal(e) ==
    /\ Holds(e)
    /\ wire' = val[e]
    /\ answer' = Unset
    /\ UNCHANGED <<group, val>>

\* What was marshalled can be read; anything else is an element, or refused.
Unmarshal(e) == wire # Unset /\ Sets(e, wire) /\ answer' = TRUE
UnmarshalOther(e) == \E log \in Logs : Sets(e, log) /\ answer' = TRUE
Refuse(e) == Sets(e, Spoilt) /\ answer' = FALSE
RefuseShort == answer' = FALSE /\ UNCHANGED <<group, val, wire>>

\* A pairing check answers whether two elements are the same.
Same(a, b) ==
    /\ Holds(a)
    /\ Holds(b)
    /\ answer' = (val[a] = val[b])
    /\ UNCHANGED <<group, val, wire>>

Next ==
    \/ \E e \in Registers :
        \/ \E k \in Scalars : ScalarBaseMult(e, k)
        \/ \E i, j \in Scalars : Pair(e, i, j)
        \/ \E a \in Registers, k \in Scalars : ScalarMult(e, a, k)
        \/ \E a, b \in Registers : Add(e, a, b)
        \/ \E a \in Registers : Neg(e, a) \/ Copy(e, a)
        \/ Marshal(e) \/ Unmarshal(e) \/ UnmarshalOther(e) \/ Refuse(e)
    \/ RefuseShort
    \/ \E a, b \in Registers : Same(a, b)

Spec == Init /\ [][Next]_vars
=============================================================================
