-------------------------- MODULE BlockQueryProofs --------------------------
(***************************************************************************)
(* For any number of calls, any chain and any channel capacity: a call has *)
(* the block it was asked for, keeps its subscription while it waits and   *)
(* leaves none behind before its deadline; and its votes are exact.        *)
(***************************************************************************)
EXTENDS BlockQuery, TLAPS

\* A call that is past its wait has a block or an error.
Resolved ==
    \A c \in Callers :
        pc[c] \in {"unsubscribe", "votes", "done"} => result[c] # NoResult

\* A subscription is that of a call that waits or is about to give it back, or
\* one that could not be given back.
SubscriptionsPlaced ==
    \A c \in subs :
        \/ pc[c] \in {"wait", "unsubscribe", "panic"}
        \/ pc[c] = "done" /\ expired[c]

Inv ==
    TypeOK /\ RightBlock /\ SubscriptionKept /\ Resolved /\ SubscriptionsPlaced

----------------------------------------------------------------------------
\* The block a call wants has a positive height.
LEMMA WantedPositive ==
    ASSUME TypeOK, NEW c \in Callers
    PROVE  Wanted(c) \in Nat \ {0}
  BY DEF TypeOK, Wanted, Heights

\* After its query a call joins the votes or is done.
LEMMA ReturnLabel ==
    ASSUME NEW c \in Callers PROVE Return(c) \in {"votes", "done"}
  BY DEF Return

\* No call has begun.
LEMMA InitInv == Init => Inv
<1> SUFFICES ASSUME Init PROVE Inv
  OBVIOUS
<1>1. TypeOK
  BY MaxHeightAssumption DEF Init, TypeOK, Heights
<1>2. RightBlock /\ SubscriptionKept /\ Resolved /\ SubscriptionsPlaced
  BY DEF Init, RightBlock, SubscriptionKept, Resolved, SubscriptionsPlaced
<1> QED
  BY <1>1, <1>2 DEF Inv

----------------------------------------------------------------------------

\* The step of a call c that leaves the others where they are, and what it
\* must show: SubscriptionKept, Resolved and SubscriptionsPlaced only have to
\* be looked at for c itself.
LEMMA OwnStep ==
    ASSUME Inv, NEW c \in Callers, TypeOK', RightBlock',
           UNCHANGED <<function, height, expired>>,
           \A d \in Callers \ {c} :
               /\ pc'[d] = pc[d] /\ result'[d] = result[d]
               /\ d \in subs' <=> d \in subs,
           pc[c] \notin {"votes", "done"},
           pc'[c] \in {"unsubscribe", "votes", "done"} => result'[c] # NoResult,
           pc'[c] = "wait" => pc[c] = "wait" \/ c \in subs',
           c \in subs' =>
              \/ pc'[c] \in {"wait", "unsubscribe", "panic"}
              \/ pc'[c] = "done" /\ expired[c],
           c \in subs => c \in subs'
    PROVE  Inv'
<1>1. Resolved'
  BY DEF Inv, Resolved
<1>2. SubscriptionsPlaced'
  BY DEF Inv, TypeOK, SubscriptionsPlaced
<1>3. SubscriptionKept'
  <2> SUFFICES ASSUME NEW d \in Callers, pc'[d] = "wait", d \notin subs'
               PROVE  \E e \in Callers \ {d} :
                         Wanted(e)' = Wanted(d)' /\ pc'[e] \in {"votes", "done"}
    BY DEF SubscriptionKept
  <2>1. pc[d] = "wait" /\ d \notin subs
    OBVIOUS
  <2>2. PICK e \in Callers \ {d} :
           Wanted(e) = Wanted(d) /\ pc[e] \in {"votes", "done"}
    BY <2>1 DEF Inv, SubscriptionKept
  <2>3. e # c
    BY <2>2
  <2>4. pc'[e] \in {"votes", "done"}
    BY <2>2, <2>3
  <2>5. Wanted(e)' = Wanted(d)'
    BY <2>2 DEF Wanted
  <2> QED
    BY <2>4, <2>5
<1> QED
  BY <1>1, <1>2, <1>3 DEF Inv

\* A new block leaves every call where it is.
LEMMA CommitInv ==
    ASSUME Inv, Commit PROVE Inv'
<1>1. TypeOK'
  <2>1. tip' \in Heights /\ tip + 1 \in Heights
    BY MaxHeightAssumption DEF Inv, TypeOK, Commit, Heights
  <2>2. channel' \in [Callers -> Seq(Heights \cup {Closed})]
    BY <2>1 DEF Inv, TypeOK, Commit
  <2> QED
    BY <2>1, <2>2 DEF Inv, TypeOK, Commit
<1>2. RightBlock' /\ SubscriptionKept' /\ Resolved' /\ SubscriptionsPlaced'
  BY DEF Inv, Commit, RightBlock, SubscriptionKept, Resolved,
         SubscriptionsPlaced, Wanted
<1> QED
  BY <1>1, <1>2 DEF Inv

\* A deadline moves no call.
LEMMA DeadlineInv ==
    ASSUME Inv, NEW c \in Callers, Deadline(c) PROVE Inv'
<1>1. TypeOK'
  BY DEF Inv, TypeOK, Deadline
<1>2. RightBlock' /\ SubscriptionKept' /\ Resolved'
  BY DEF Inv, Deadline, RightBlock, SubscriptionKept, Resolved, Wanted
<1>3. SubscriptionsPlaced'
  BY DEF Inv, TypeOK, Deadline, SubscriptionsPlaced
<1> QED
  BY <1>1, <1>2, <1>3 DEF Inv

\* The direct query: a block or an error, or on to the subscription.
LEMMA QueryInv ==
    ASSUME Inv, NEW c \in Callers, Query(c) PROVE Inv'
<1> USE DEF Query, At, Finish, Go
<1>1. Return(c) \in {"votes", "done"} /\ Wanted(c) \in Nat \ {0}
  BY ReturnLabel, WantedPositive DEF Inv
<1>2. CASE Wanted(c) <= tip /\ Finish(c, Return(c), Wanted(c))
  <2>1. Wanted(c) \in Heights
    BY <1>1, <1>2, MaxHeightAssumption DEF Inv, TypeOK, Heights
  <2>2. TypeOK'
    BY <1>1, <1>2, <2>1, OutcomesAssumption DEF Inv, TypeOK
  <2>3. RightBlock'
    BY <1>2 DEF Inv, TypeOK, RightBlock, Wanted
  <2>4. c \notin subs
    BY DEF Inv, SubscriptionsPlaced
  <2>5. Wanted(c) # NoResult
    BY <2>1, OutcomesAssumption
  <2> QED
    BY <1>1, <1>2, <2>2, <2>3, <2>4, <2>5, OwnStep DEF Inv, TypeOK
<1>3. CASE Go(c, "subscribe") /\ UNCHANGED result
  <2>1. TypeOK' /\ RightBlock'
    BY <1>3 DEF Inv, TypeOK, RightBlock, Wanted
  <2>2. c \notin subs
    BY DEF Inv, SubscriptionsPlaced
  <2> QED
    BY <1>3, <2>1, <2>2, OwnStep DEF Inv, TypeOK
<1> QED
  BY <1>2, <1>3

\* The subscription is made, or refused.
LEMMA SubscribeInv ==
    ASSUME Inv, NEW c \in Callers, Subscribe(c) PROVE Inv'
<1> USE DEF Subscribe, At, Finish, Go
<1>1. Return(c) \in {"votes", "done"}
  BY ReturnLabel
<1>2. CASE subs' = subs \cup {c} /\ Go(c, "wait") /\ UNCHANGED result
  <2>1. TypeOK' /\ RightBlock'
    BY <1>2 DEF Inv, TypeOK, RightBlock, Wanted
  <2> QED
    BY <1>2, <2>1, OwnStep DEF Inv, TypeOK
<1>3. CASE Finish(c, Return(c), Error) /\ UNCHANGED subs
  <2>1. TypeOK' /\ RightBlock'
    BY <1>1, <1>3, OutcomesAssumption DEF Inv, TypeOK, RightBlock, Wanted
  <2>2. c \notin subs
    BY DEF Inv, SubscriptionsPlaced
  <2> QED
    BY <1>1, <1>3, <2>1, <2>2, OutcomesAssumption, OwnStep DEF Inv, TypeOK
<1> QED
  BY <1>2, <1>3

\* An event is taken from the channel.
LEMMA ReceiveInv ==
    ASSUME Inv, NEW c \in Callers, Receive(c) PROVE Inv'
<1> USE DEF Receive, At, Finish, Go
<1>1. Wanted(c) \in Nat \ {0}
  BY WantedPositive DEF Inv
<1>2. /\ Head(channel[c]) \in Heights \cup {Closed}
      /\ channel' \in [Callers -> Seq(Heights \cup {Closed})]
  BY DEF Inv, TypeOK
<1>3. CASE Head(channel[c]) = Wanted(c) /\ Finish(c, "unsubscribe", Wanted(c))
  <2>1. Wanted(c) \in Heights
    BY <1>1, <1>2, <1>3 DEF Closed
  <2>2. TypeOK' /\ RightBlock'
    BY <1>2, <1>3, <2>1 DEF Inv, TypeOK, RightBlock, Wanted
  <2> QED
    BY <1>3, <2>1, <2>2, OutcomesAssumption, OwnStep DEF Inv, TypeOK
<1>4. CASE Finish(c, "unsubscribe", Error)
  <2>1. TypeOK' /\ RightBlock'
    BY <1>2, <1>4 DEF Inv, TypeOK, RightBlock, Wanted
  <2> QED
    BY <1>4, <2>1, OutcomesAssumption, OwnStep DEF Inv, TypeOK
<1>5. CASE UNCHANGED <<pc, result>>
  <2>1. TypeOK' /\ RightBlock'
    BY <1>2, <1>5 DEF Inv, TypeOK, RightBlock, Wanted
  <2> QED
    BY <1>5, <2>1, OwnStep DEF Inv, SubscriptionsPlaced
<1> QED
  BY <1>3, <1>4, <1>5

\* The wait ends with the deadline.
LEMMA GiveUpInv ==
    ASSUME Inv, NEW c \in Callers, GiveUp(c) PROVE Inv'
<1> USE DEF GiveUp, At, Finish, Go
<1>1. TypeOK' /\ RightBlock'
  BY DEF Inv, TypeOK, RightBlock, Wanted
<1> QED
  BY <1>1, OutcomesAssumption, OwnStep DEF Inv, TypeOK

\* The subscriptions given back are c's own and those of calls for the same
\* height, for which c is now the call that took them.
LEMMA UnsubscribeInv ==
    ASSUME Inv, NEW c \in Callers, Unsubscribe(c) PROVE Inv'
<1> USE DEF Unsubscribe, At, Go
<1>1. Return(c) \in {"votes", "done"}
  BY ReturnLabel
<1>2. RightBlock' /\ result[c] # NoResult
  BY DEF Inv, Resolved, RightBlock, Wanted
<1>3. CASE Unsubscribed(c) /\ Go(c, Return(c))
  <2> DEFINE named == {d \in subs : SameName(c, d)}
  <2>1. /\ subs' = subs \ named
        /\ pc' = [pc EXCEPT ![c] = Return(c)]
    BY <1>3 DEF Unsubscribed
  <2>2. channel' \in [Callers -> Seq(Heights \cup {Closed})]
    <3>1. PICK closed \in SUBSET (named \ {c}) :
             channel' = [d \in Callers |->
                IF d \in closed THEN Append(channel[d], Closed) ELSE channel[d]]
      BY <1>3 DEF Unsubscribed
    <3> QED
      BY <3>1 DEF Inv, TypeOK
  <2>3. TypeOK'
    BY <1>1, <1>2, <2>1, <2>2 DEF Inv, TypeOK
  <2>4. Resolved'
    BY <1>2, <2>1 DEF Inv, TypeOK, Resolved
  <2>5. c \notin subs'
    BY <2>1 DEF SameName
  <2>6. SubscriptionsPlaced'
    BY <2>1, <2>5 DEF Inv, TypeOK, SubscriptionsPlaced
  <2>7. SubscriptionKept'
    <3> SUFFICES ASSUME NEW d \in Callers, pc'[d] = "wait", d \notin subs'
                 PROVE  \E e \in Callers \ {d} :
                           Wanted(e)' = Wanted(d)' /\ pc'[e] \in {"votes", "done"}
      BY DEF SubscriptionKept
    <3>1. d # c /\ pc[d] = "wait" /\ pc'[c] \in {"votes", "done"}
      BY <1>1, <2>1 DEF Inv, TypeOK
    <3>2. \A e \in Callers : Wanted(e)' = Wanted(e)
      BY DEF Wanted
    <3>3. CASE d \in subs
      <4>1. Wanted(c) = Wanted(d)
        BY <2>1, <3>3 DEF SameName
      <4> QED
        BY <3>1, <3>2, <4>1
    <3>4. CASE d \notin subs
      <4>1. PICK e \in Callers \ {d} :
               Wanted(e) = Wanted(d) /\ pc[e] \in {"votes", "done"}
        BY <3>1, <3>4 DEF Inv, SubscriptionKept
      <4>2. pc'[e] \in {"votes", "done"}
        BY <2>1, <4>1 DEF Inv, TypeOK
      <4> QED
        BY <3>2, <4>1, <4>2
    <3> QED
      BY <3>3, <3>4
  <2> QED
    BY <1>2, <2>3, <2>4, <2>6, <2>7 DEF Inv
<1>4. CASE UnsubscribeFails(c)
  <2>1. /\ expired[c] /\ UNCHANGED <<subs, channel>>
        /\ \E label \in {"done", "panic"} : pc' = [pc EXCEPT ![c] = label]
    BY <1>4 DEF UnsubscribeFails
  <2>2. TypeOK'
    BY <1>2, <2>1 DEF Inv, TypeOK
  <2> QED
    BY <1>2, <2>1, <2>2, OwnStep DEF Inv, TypeOK
<1> QED
  BY <1>3, <1>4

\* The votes of the block are joined.
LEMMA VotesInv ==
    ASSUME Inv, NEW c \in Callers, Votes(c) PROVE Inv'
<1> USE DEF Votes, At, Go
<1>1. TypeOK'
  BY DEF Inv, TypeOK, Resolved
<1>2. RightBlock' /\ Resolved'
  BY DEF Inv, TypeOK, RightBlock, Resolved, Wanted
<1>3. SubscriptionsPlaced'
  BY DEF Inv, TypeOK, SubscriptionsPlaced
<1>4. SubscriptionKept'
  <2> SUFFICES ASSUME NEW d \in Callers, pc'[d] = "wait", d \notin subs'
               PROVE  \E e \in Callers \ {d} :
                         Wanted(e)' = Wanted(d)' /\ pc'[e] \in {"votes", "done"}
    BY DEF SubscriptionKept
  <2>1. pc[d] = "wait" /\ d \notin subs
    BY DEF Inv, TypeOK
  <2>2. PICK e \in Callers \ {d} :
           Wanted(e) = Wanted(d) /\ pc[e] \in {"votes", "done"}
    BY <2>1 DEF Inv, SubscriptionKept
  <2>3. Wanted(e)' = Wanted(d)'
    BY <2>2 DEF Wanted
  <2>4. pc'[e] \in {"votes", "done"}
    BY <2>2 DEF Inv, TypeOK
  <2> QED
    BY <2>3, <2>4
<1> QED
  BY <1>1, <1>2, <1>3, <1>4 DEF Inv

\* getRootHash returns at once, with a root or an error.
LEMMA GetRootHashInv ==
    ASSUME Inv, NEW c \in Callers, getRootHash(c) PROVE Inv'
<1> USE DEF getRootHash, At, Finish, Go
<1>1. /\ pc' = [pc EXCEPT ![c] = "done"]
      /\ \E value \in {Error, height[c]} : result' = [result EXCEPT ![c] = value]
  OBVIOUS
<1>2. TypeOK'
  BY <1>1, OutcomesAssumption DEF Inv, TypeOK
<1>3. RightBlock'
  BY <1>1 DEF Inv, TypeOK, RightBlock, Wanted
<1>4. c \notin subs
  BY DEF Inv, SubscriptionsPlaced
<1>5. result'[c] # NoResult
  BY <1>1, OutcomesAssumption DEF Inv, TypeOK
<1> QED
  BY <1>1, <1>2, <1>3, <1>4, <1>5, OwnStep DEF Inv, TypeOK

\* Every step keeps the invariant.
LEMMA NextInv == ASSUME Inv, [Next]_vars PROVE Inv'
<1>1. CASE UNCHANGED vars
  BY <1>1 DEF vars, Inv, TypeOK, RightBlock, SubscriptionKept, Resolved,
              SubscriptionsPlaced, Wanted
<1>2. ASSUME NEW c \in Callers, Step(c) PROVE Inv'
  BY <1>2, QueryInv, SubscribeInv, ReceiveInv, GiveUpInv, UnsubscribeInv,
     VotesInv, GetRootHashInv DEF Step
<1> QED
  BY <1>1, <1>2, CommitInv, DeadlineInv DEF Next

\* The inductive invariant holds in every state.
LEMMA Invariance == Spec => []Inv
<1>1. Inv /\ [Next]_vars => Inv'
  BY NextInv
<1> QED
  BY <1>1, InitInv, PTL DEF Spec

----------------------------------------------------------------------------
\* The types of BlockQuery, and that a call that has returned has a result.
THEOREM Typing == Spec => []TypeOK
<1>1. Inv => TypeOK
  BY DEF Inv
<1> QED
  BY <1>1, Invariance, PTL

\* GetBlockWithClient, GetBeginBlockEvents and FetchVotes never take another
\* block for the one asked for.
THEOREM AlwaysRightBlock == Spec => []RightBlock
<1>1. Inv => RightBlock
  BY DEF Inv
<1> QED
  BY <1>1, Invariance, PTL

\* Only a call for the same height can take the subscription of one that waits.
THEOREM SubscriptionsAreKept == Spec => []SubscriptionKept
<1>1. Inv => SubscriptionKept
  BY DEF Inv
<1> QED
  BY <1>1, Invariance, PTL

\* A call that returns before its deadline has given its subscription back.
THEOREM NoEarlyLeak == Spec => []LeakOnlyAfterDeadline
<1>1. Inv => LeakOnlyAfterDeadline
  BY DEF Inv, SubscriptionsPlaced, LeakOnlyAfterDeadline
<1> QED
  BY <1>1, Invariance, PTL

----------------------------------------------------------------------------
(* The votes.                                                               *)

\* What FetchVotes has to return of some votes for the block of height h.
SigsOf(votes, h, sigs) ==
    /\ ToSet(sigs) = (ToSet(votes) \ {NoVote}) \X {h}
    /\ \A i, j \in DOMAIN sigs : i < j => sigs[i][1] < sigs[j][1]

\* GetVoteSigs leaves out what is nil, and nothing else, and sorts the rest.
LEMMA GetVoteSigsExact ==
    ASSUME NEW votes, votes \in Seq(Nat \cup {NoVote}), NoVote \notin Nat,
           \A i, j \in DOMAIN votes :
              i # j => votes[i] = NoVote \/ votes[i] # votes[j],
           NEW h
    PROVE  SigsOf(votes, h, GetVoteSigs(votes, h))
<1> DEFINE D == {i \in DOMAIN votes : votes[i] # NoVote}
           Less(i, j) == votes[i] < votes[j]
           R == {pair \in D \X D : ~Less(pair[2], pair[1])}
           order == InOrder(D, Less)
           sigs == GetVoteSigs(votes, h)
<1>1. /\ DOMAIN votes = 1 .. Len(votes) /\ Len(votes) \in Nat
      /\ \A i \in DOMAIN votes : votes[i] \in Nat \cup {NoVote}
  OBVIOUS
<1>2. \A i \in D : i \in DOMAIN votes /\ votes[i] \in Nat
  BY <1>1
<1>3. IsFiniteSet(D)
  <2>1. IsFiniteSet(1 .. Len(votes)) /\ D \subseteq 1 .. Len(votes)
    BY <1>1, FS_Interval
  <2> HIDE DEF D
  <2> QED
    BY <2>1, FS_Subset
<1>4. \A i, j \in D : i # j => votes[i] # votes[j]
  BY <1>2
<1>5. \A i \in DOMAIN votes : votes[i] # NoVote <=> i \in D
  OBVIOUS
<1> HIDE DEF D
<1>6. \A i, j \in D : <<i, j>> \in R \/ <<j, i>> \in R
  BY <1>2
<1>7. \A i, j, k \in D : <<i, j>> \in R /\ <<j, k>> \in R => <<i, k>> \in R
  BY <1>2
<1> HIDE DEF R
<1>8. PICK o \in SetToSeqs(D) : \A i, j \in DOMAIN o : i < j => <<o[i], o[j]>> \in R
  BY <1>3, <1>6, <1>7, OrderExists
<1>9. \A i, j \in DOMAIN o : i < j => ~Less(o[j], o[i])
  BY <1>8 DEF R
<1> HIDE DEF Less
<1>10. /\ order \in SetToSeqs(D)
       /\ \A i, j \in DOMAIN order : i < j => ~Less(order[j], order[i])
  BY <1>8, <1>9 DEF InOrder
<1>11. sigs = [k \in DOMAIN order |-> <<votes[order[k]], h>>]
  BY DEF GetVoteSigs, D, Less
<1> HIDE DEF order, sigs
<1>12. /\ IsInjective(order) /\ ToSet(order) = D /\ DOMAIN order \subseteq Nat
       /\ \A k \in DOMAIN order : order[k] \in D
  <2>1. order \in Seq(D) /\ IsInjective(order) /\ ToSet(order) = D
    BY <1>3, <1>10, SeqsOfSet
  <2> QED
    BY <2>1
<1>13. /\ DOMAIN sigs = DOMAIN order
       /\ \A k \in DOMAIN order : sigs[k] = <<votes[order[k]], h>>
  BY <1>11
<1>14. ToSet(sigs) = (ToSet(votes) \ {NoVote}) \X {h}
  <2>1. ASSUME NEW k \in DOMAIN sigs
        PROVE  sigs[k] \in (ToSet(votes) \ {NoVote}) \X {h}
    <3>1. order[k] \in DOMAIN votes /\ votes[order[k]] # NoVote
      BY <1>2, <1>5, <1>12, <1>13
    <3>2. votes[order[k]] \in ToSet(votes)
      BY <3>1 DEF ToSet
    <3> DEFINE v == votes[order[k]]
    <3>3. sigs[k] = <<v, h>> /\ v \in ToSet(votes) \ {NoVote}
      BY <1>13, <3>1, <3>2
    <3> HIDE DEF v
    <3> QED
      BY <3>3
  <2>2. ASSUME NEW v \in ToSet(votes) \ {NoVote} PROVE <<v, h>> \in ToSet(sigs)
    <3>1. PICK i \in DOMAIN votes : votes[i] = v
      BY DEF ToSet
    <3>2. i \in ToSet(order)
      BY <1>5, <1>12, <3>1
    <3>3. PICK k \in DOMAIN order : order[k] = i
      BY <3>2 DEF ToSet
    <3> QED
      BY <1>13, <3>1, <3>3 DEF ToSet
  <2>3. ToSet(sigs) \subseteq (ToSet(votes) \ {NoVote}) \X {h}
    BY <2>1 DEF ToSet
  <2>4. ASSUME NEW x \in (ToSet(votes) \ {NoVote}) \X {h} PROVE x \in ToSet(sigs)
    <3>1. x = <<x[1], h>> /\ x[1] \in ToSet(votes) \ {NoVote}
      OBVIOUS
    <3> QED
      BY <2>2, <3>1
  <2> QED
    BY <2>3, <2>4
<1>15. ASSUME NEW i \in DOMAIN sigs, NEW j \in DOMAIN sigs, i < j
       PROVE  sigs[i][1] < sigs[j][1]
  <2>1. order[i] # order[j]
    BY <1>12, <1>13, <1>15 DEF IsInjective
  <2>2. /\ votes[order[i]] \in Nat /\ votes[order[j]] \in Nat
        /\ votes[order[i]] # votes[order[j]]
    BY <1>2, <1>4, <1>12, <1>13, <2>1
  <2>3. ~(votes[order[j]] < votes[order[i]])
    BY <1>10, <1>13, <1>15 DEF Less
  <2>4. votes[order[i]] < votes[order[j]]
    BY <2>2, <2>3
  <2> QED
    BY <1>13, <2>4
<1> QED
  BY <1>14, <1>15 DEF SigsOf, sigs

\* What a call makes of its blocks has a place for each call.
Voted == DOMAIN data = Callers /\ VotesExact

\* VotesExact, by the operator of the lemma above.
LEMMA VotesExactIs ==
    VotesExact <=>
        \A c \in Callers :
            function[c] = "FetchVotes" /\ pc[c] = "done" /\ result[c] # Error =>
                SigsOf(Precommits(height[c]), height[c], data[c])
  BY DEF VotesExact, SigsOf

\* A call that is done, or that is not FetchVotes, leaves VotesExact alone.
LEMMA VotedKept ==
    ASSUME Inv, Voted, NEW c \in Callers, UNCHANGED <<function, height>>,
           DOMAIN data' = Callers,
           \A d \in Callers \ {c} :
               /\ pc'[d] = pc[d] /\ result'[d] = result[d] /\ data'[d] = data[d],
           function[c] = "FetchVotes" /\ pc'[c] = "done" /\ result'[c] # Error =>
               SigsOf(Precommits(height[c]), height[c], data'[c])
    PROVE  Voted'
<1>1. ASSUME NEW d \in Callers, function'[d] = "FetchVotes", pc'[d] = "done",
             result'[d] # Error
      PROVE  SigsOf(Precommits(height'[d]), height'[d], data'[d])
  <2>1. CASE d = c
    BY <1>1, <2>1
  <2>2. CASE d # c
    BY <1>1, <2>2, VotesExactIs DEF Voted
  <2> QED
    BY <2>1, <2>2
<1>2. VotesExact' <=>
        \A d \in Callers :
            function'[d] = "FetchVotes" /\ pc'[d] = "done" /\ result'[d] # Error =>
                SigsOf(Precommits(height'[d]), height'[d], data'[d])
  BY DEF VotesExact, SigsOf
<1> QED
  BY <1>1, <1>2 DEF Voted

\* FetchVotes takes the votes for the block it was asked about from the next.
LEMMA VotesVoted ==
    ASSUME Inv, Voted, NEW c \in Callers, Votes(c) PROVE Voted'
<1> DEFINE h == result[c] - 1
<1>1. /\ pc[c] = "votes" /\ pc' = [pc EXCEPT ![c] = "done"]
      /\ UNCHANGED <<function, height, result>>
  BY DEF Votes, At, Go
<1>2. result[c] # NoResult /\ height[c] \in Heights
  BY <1>1 DEF Inv, Resolved, TypeOK
<1>3. data' = IF result[c] = Error THEN data
              ELSE [data EXCEPT ![c] = GetVoteSigs(Precommits(h), h)]
  BY DEF Votes
<1>4. ASSUME function[c] = "FetchVotes", result[c] # Error
      PROVE  SigsOf(Precommits(height[c]), height[c], data'[c])
  <2>1. result[c] = height[c] + 1
    BY <1>2, <1>4 DEF Inv, RightBlock, Wanted
  <2>2. h = height[c]
    BY <1>2, <2>1 DEF Heights
  <2>3. data'[c] = GetVoteSigs(Precommits(height[c]), height[c])
    BY <1>3, <1>4, <2>2 DEF Voted
  <2> QED
    BY <1>2, <2>3, PrecommitsAssumption, GetVoteSigsExact
<1>5. DOMAIN data' = Callers /\ \A d \in Callers \ {c} : data'[d] = data[d]
  BY <1>3 DEF Voted
<1>6. \A d \in Callers \ {c} : pc'[d] = pc[d]
  BY <1>1 DEF Inv, TypeOK
<1> QED
  BY <1>1, <1>4, <1>5, <1>6, VotedKept

\* The other steps of a call are not ones by which FetchVotes returns a block.
LEMMA OtherVoted ==
    ASSUME Inv, Voted, NEW c \in Callers,
           Query(c) \/ Subscribe(c) \/ Receive(c) \/ GiveUp(c) \/ Unsubscribe(c)
             \/ getRootHash(c)
    PROVE  Voted'
<1> USE DEF At, Go, Finish
<1>1. UNCHANGED <<function, height>>
  BY DEF Query, Subscribe, Receive, GiveUp, Unsubscribe, getRootHash
<1>2. \A d \in Callers \ {c} : pc'[d] = pc[d] /\ result'[d] = result[d]
  <2>1. CASE Query(c) \/ Subscribe(c) \/ GiveUp(c) \/ getRootHash(c)
    BY <2>1 DEF Inv, TypeOK, Query, Subscribe, GiveUp, getRootHash
  <2>2. CASE Receive(c)
    BY <2>2 DEF Inv, TypeOK, Receive
  <2>3. CASE Unsubscribe(c)
    BY <2>3 DEF Inv, TypeOK, Unsubscribe, UnsubscribeFails
  <2> QED
    BY <2>1, <2>2, <2>3
<1>3. DOMAIN data' = Callers /\ \A d \in Callers \ {c} : data'[d] = data[d]
  <2>1. CASE getRootHash(c)
    BY <2>1 DEF getRootHash, Voted
  <2>2. CASE data' = data
    BY <2>2 DEF Voted
  <2> QED
    BY <2>1, <2>2 DEF Query, Subscribe, Receive, GiveUp, Unsubscribe
<1>4. function[c] = "FetchVotes" => pc'[c] # "done"
  <2> SUFFICES ASSUME function[c] = "FetchVotes" PROVE pc'[c] # "done"
    OBVIOUS
  <2>1. Return(c) = "votes" /\ pc[c] # "done"
    BY DEF Return, Query, Subscribe, Receive, GiveUp, Unsubscribe, getRootHash
  <2>2. CASE Query(c) \/ Subscribe(c) \/ GiveUp(c) \/ getRootHash(c)
    BY <2>1, <2>2 DEF Inv, TypeOK, Query, Subscribe, GiveUp, getRootHash
  <2>3. CASE Receive(c)
    BY <2>1, <2>3 DEF Inv, TypeOK, Receive
  <2>4. CASE Unsubscribe(c)
    BY <2>1, <2>4 DEF Inv, TypeOK, Unsubscribe, UnsubscribeFails
  <2> QED
    BY <2>2, <2>3, <2>4
<1> QED
  BY <1>1, <1>2, <1>3, <1>4, VotedKept

\* The signatures that FetchVotes returns are those of all votes for the block
\* of its height and of no others, by rising address.
THEOREM VotesAlwaysExact == Spec => []VotesExact
<1>1. Init => Voted
  BY DEF Init, Voted, VotesExact
<1>2. Inv /\ Voted /\ [Next]_vars => Voted'
  <2> SUFFICES ASSUME Inv, Voted, [Next]_vars PROVE Voted'
    OBVIOUS
  <2>1. CASE UNCHANGED <<function, height, pc, result, data>>
    BY <2>1 DEF Voted, VotesExact
  <2>2. ASSUME NEW c \in Callers, Step(c) PROVE Voted'
    BY <2>2, VotesVoted, OtherVoted DEF Step
  <2>3. Commit \/ (\E c \in Callers : Deadline(c)) \/ UNCHANGED vars
          => UNCHANGED <<function, height, pc, result, data>>
    BY DEF Commit, Deadline, vars
  <2> QED
    BY <2>1, <2>2, <2>3 DEF Next
<1>3. Voted => VotesExact
  BY DEF Voted
<1> QED
  BY <1>1, <1>2, <1>3, Invariance, PTL DEF Spec

----------------------------------------------------------------------------
(* The checkpoint.                                                          *)

SmearStep(p, k, word) == Or(word, Shr(word)[k])
SmearLoop == INSTANCE NatRecursion WITH Step <- SmearStep

\* Each digit of word tells whether n has one among the d that begin there.
Spread(word, n, d) ==
    /\ word \in Nat
    /\ \A k \in Nat : BitSet(word, k) <=> \E j \in 0 .. d - 1 : BitSet(n, k + j)

\* n |= n >> d doubles the digits that each digit stands for.
LEMMA SpreadDoubles ==
    ASSUME NEW n \in Nat, NEW d \in Nat, NEW word, Spread(word, n, d)
    PROVE  Spread(Or(word, Shr(word)[d]), n, 2 * d)
<1> DEFINE high == Shr(word)[d]
           next == Or(word, high)
<1>1. word \in Nat /\ high \in Nat
  BY ShrUnfolds DEF Spread
<1>2. \A k \in Nat : BitSet(high, k) <=> BitSet(word, d + k)
  <2>1. \A k \in Nat : Shr(high)[k] = Shr(word)[d + k]
    BY <1>1, ShrTwice
  <2> QED
    BY <2>1 DEF BitSet
<1>3. next \in Nat /\ \A k \in Nat : BitSet(next, k) <=> BitSet(word, k) \/ BitSet(high, k)
  <2> HIDE DEF high
  <2> QED
    BY <1>1, OrDigits
<1> HIDE DEF high, next
<1>4. ASSUME NEW k \in Nat
      PROVE  BitSet(next, k) <=> \E j \in 0 .. 2 * d - 1 : BitSet(n, k + j)
  <2>1. BitSet(next, k) <=> BitSet(word, k) \/ BitSet(word, d + k)
    BY <1>2, <1>3
  <2>2. BitSet(word, k) <=> \E j \in 0 .. d - 1 : BitSet(n, k + j)
    BY DEF Spread
  <2>3. BitSet(word, d + k) <=> \E j \in 0 .. d - 1 : BitSet(n, (d + k) + j)
    <3>1. d + k \in Nat
      OBVIOUS
    <3> QED
      BY <3>1 DEF Spread
  <2>4. (\E j \in 0 .. d - 1 : BitSet(n, (d + k) + j))
          <=> \E j \in d .. 2 * d - 1 : BitSet(n, k + j)
    <3>1. ASSUME NEW j \in 0 .. d - 1, BitSet(n, (d + k) + j)
          PROVE  \E i \in d .. 2 * d - 1 : BitSet(n, k + i)
      <4>1. d + j \in d .. 2 * d - 1 /\ k + (d + j) = (d + k) + j
        OBVIOUS
      <4> QED
        BY <3>1, <4>1
    <3>2. ASSUME NEW j \in d .. 2 * d - 1, BitSet(n, k + j)
          PROVE  \E i \in 0 .. d - 1 : BitSet(n, (d + k) + i)
      <4>1. j - d \in 0 .. d - 1 /\ (d + k) + (j - d) = k + j
        OBVIOUS
      <4> QED
        BY <3>2, <4>1
    <3> QED
      BY <3>1, <3>2
  <2>5. 0 .. 2 * d - 1 = (0 .. d - 1) \cup (d .. 2 * d - 1)
    OBVIOUS
  <2> QED
    BY <2>1, <2>2, <2>3, <2>4, <2>5
<1> QED
  BY <1>3, <1>4 DEF Spread, next, high

\* After all shifts a digit stands for itself and the 63 above it.
LEMMA SmearSpreads == ASSUME NEW n \in Nat PROVE Spread(Smear(n), n, 64)
<1> DEFINE F == SmearLoop!FoldValues(0, n, Shifts)
           word(k) == F[1 .. k]
<1>1. Smear(n) = F[DOMAIN Shifts]
  BY DEF Smear, FoldLeft, MapThenFoldSet, Max, SmearLoop!FoldValues, SmearStep
<1>2. DOMAIN Shifts = 1 .. 6
  BY DEF Shifts
<1>3. /\ word(0) = n
      /\ \A k \in 0 .. 6 - 1 : word(k + 1) = SmearStep(0, Shifts[k + 1], word(k))
  <2>1. PICK m \in Nat : m = 6
    OBVIOUS
  <2>2. DOMAIN Shifts = 1 .. m
    BY <1>2, <2>1
  <2>3. /\ F[1 .. 0] = n
        /\ \A k \in 0 .. m - 1 : F[1 .. k + 1] = SmearStep(0, Shifts[k + 1], F[1 .. k])
    <3>1. \A seq : DOMAIN seq = 1 .. m =>
             /\ SmearLoop!FoldValues(0, n, seq)[1 .. 0] = n
             /\ \A k \in 0 .. m - 1 : SmearLoop!FoldValues(0, n, seq)[1 .. k + 1]
                   = SmearStep(0, seq[k + 1], SmearLoop!FoldValues(0, n, seq)[1 .. k])
      BY SmearLoop!FoldUnfolds
    <3> QED
      BY <2>2, <3>1
  <2> HIDE DEF F
  <2> QED
    BY <2>1, <2>3
<1> HIDE DEF word, F
<1>4. /\ word(1) = Or(word(0), Shr(word(0))[1])
      /\ word(2) = Or(word(1), Shr(word(1))[2])
      /\ word(3) = Or(word(2), Shr(word(2))[4])
      /\ word(4) = Or(word(3), Shr(word(3))[8])
      /\ word(5) = Or(word(4), Shr(word(4))[16])
      /\ word(6) = Or(word(5), Shr(word(5))[32])
  BY <1>3 DEF SmearStep, Shifts
<1>5. Spread(n, n, 1)
  <2>1. 0 .. 1 - 1 = {0} /\ \A k \in Nat : k + 0 = k
    OBVIOUS
  <2> QED
    BY <2>1 DEF Spread
<1>6. ASSUME NEW w, NEW d \in Nat, NEW e, e = 2 * d, Spread(w, n, d)
      PROVE  Spread(Or(w, Shr(w)[d]), n, e)
  BY <1>6, SpreadDoubles
<1>7. Spread(word(1), n, 2)
  BY <1>3, <1>4, <1>5, <1>6
<1>8. Spread(word(2), n, 4)
  BY <1>4, <1>6, <1>7
<1>9. Spread(word(3), n, 8)
  BY <1>4, <1>6, <1>8
<1>10. Spread(word(4), n, 16)
  BY <1>4, <1>6, <1>9
<1>11. Spread(word(5), n, 32)
  BY <1>4, <1>6, <1>10
<1>12. Spread(word(6), n, 64)
  BY <1>4, <1>6, <1>11
<1> QED
  BY <1>1, <1>2, <1>12 DEF word

\* A number that is not 0 has a digit.
LEMMA DigitExists ==
    ASSUME NEW n \in Nat, NEW l \in Nat, Shr(n)[l] = 0
    PROVE  \A k \in Nat : Shr(n)[k] # 0 => \E j \in k .. l - 1 : BitSet(n, j)
<1> DEFINE S == {d \in Nat : d <= l /\ Shr(n)[l - d] # 0
                                => \E j \in l - d .. l - 1 : BitSet(n, j)}
<1>1. 0 \in S
  OBVIOUS
<1>2. ASSUME NEW d \in Nat, d \in S PROVE d + 1 \in S
  <2>1. SUFFICES ASSUME d + 1 <= l, Shr(n)[l - (d + 1)] # 0
                 PROVE  \E j \in l - (d + 1) .. l - 1 : BitSet(n, j)
    OBVIOUS
  <2> DEFINE k == l - (d + 1)
  <2>2. k \in Nat /\ k + 1 = l - d /\ k \in k .. l - 1 /\ l - d .. l - 1 \subseteq k .. l - 1
    BY <2>1
  <2>3. CASE BitSet(n, k)
    BY <2>2, <2>3
  <2>4. CASE ~BitSet(n, k)
    <3>1. Shr(n)[k + 1] # 0
      <4> HIDE DEF k
      <4>1. Shr(n)[k] # 0
        BY <2>1 DEF k
      <4> QED
        BY <2>2, <2>4, <4>1, ShrDigit
    <3>2. \E j \in l - d .. l - 1 : BitSet(n, j)
      BY <1>2, <2>1, <2>2, <3>1
    <3> QED
      BY <2>2, <3>2
  <2> QED
    BY <2>3, <2>4
<1> HIDE DEF S
<1>3. \A d \in Nat : d \in S
  BY <1>1, <1>2, NatInduct
<1> SUFFICES ASSUME NEW k \in Nat, Shr(n)[k] # 0
             PROVE  \E j \in k .. l - 1 : BitSet(n, j)
  OBVIOUS
<1>4. k < l
  BY ShrStaysZero
<1>5. l - k \in S /\ l - k <= l /\ l - (l - k) = k
  BY <1>3, <1>4
<1> QED
  BY <1>5 DEF S

\* Below 2 to the 63, all digits of a number are set up to its highest: one
\* more is the power of two above it.
LEMMA SmearFills ==
    ASSUME NEW n \in Nat, Shr(n)[63] = 0
    PROVE  Smear(n) + 1 = Power(2)[BitLen(n)]
<1> DEFINE word == Smear(n)
           l == BitLen(n)
<1>1. Spread(word, n, 64)
  BY SmearSpreads
<1>2. l \in Nat /\ Shr(n)[l] = 0 /\ (l # 0 => Shr(n)[l - 1] # 0)
  BY BitLenIs
<1>3. l <= 63
  <2>1. l # 0 /\ 63 <= l - 1 => Shr(n)[l - 1] = 0
    BY <1>2, ShrStaysZero
  <2> QED
    BY <1>2, <2>1
<1> HIDE DEF word, l
<1>4. ASSUME NEW k \in Nat PROVE BitSet(word, k) <=> k < l
  <2>1. CASE k < l
    <3>1. Shr(n)[k] # 0
      <4>1. Shr(n)[k] = 0 /\ l - 1 >= k => Shr(n)[l - 1] = 0
        BY <1>2, <2>1, ShrStaysZero
      <4> QED
        BY <1>2, <2>1, <4>1
    <3>2. PICK j \in k .. l - 1 : BitSet(n, j)
      BY <1>2, <3>1, DigitExists
    <3>3. j - k \in 0 .. 64 - 1 /\ k + (j - k) = j
      BY <1>2, <1>3, <3>2
    <3> QED
      BY <1>1, <2>1, <3>2, <3>3 DEF Spread
  <2>2. CASE k >= l
    <3>1. ASSUME NEW j \in 0 .. 64 - 1 PROVE ~BitSet(n, k + j)
      <4>1. k + j \in Nat /\ k + j >= l
        BY <1>2, <2>2
      <4>2. Shr(n)[k + j] = 0
        BY <1>2, <4>1, ShrStaysZero
      <4> QED
        BY <4>2 DEF BitSet
    <3> QED
      BY <1>1, <1>2, <2>2, <3>1 DEF Spread
  <2> QED
    BY <1>2, <2>1, <2>2
<1>5. word \in Nat
  BY <1>1 DEF Spread
<1>6. Shr(word)[l] = 0
  <2>1. ASSUME Shr(word)[l] # 0 PROVE FALSE
    <3>1. Shr(word)[word] = 0
      BY <1>5, ShrVanishes
    <3>2. PICK j \in l .. word - 1 : BitSet(word, j)
      BY <1>2, <1>5, <2>1, <3>1, DigitExists
    <3> QED
      BY <1>2, <1>4, <1>5, <3>2
  <2> QED
    BY <2>1
<1>7. \A h \in Nat : h <= l => Shr(word + 1)[h] = Shr(word)[h] + 1
  <2> DEFINE S == {h \in Nat : h <= l => Shr(word + 1)[h] = Shr(word)[h] + 1}
  <2>1. 0 \in S
    BY <1>5, ShrUnfolds
  <2>2. ASSUME NEW h \in Nat, h \in S PROVE h + 1 \in S
    <3> SUFFICES ASSUME h + 1 <= l PROVE Shr(word + 1)[h + 1] = Shr(word)[h + 1] + 1
      OBVIOUS
    <3>1. BitSet(word, h) /\ Shr(word + 1)[h] = Shr(word)[h] + 1
      BY <1>2, <1>4, <2>2
    <3>2. Shr(word)[h] = 2 * Shr(word)[h + 1] + 1 /\ Shr(word)[h + 1] \in Nat
      BY <1>5, <3>1, ShrDigit
    <3>3. Shr(word + 1)[h + 1] = Shr(word + 1)[h] \div 2
      BY <1>5, ShrUnfolds
    <3> QED
      BY <3>1, <3>2, <3>3
  <2> HIDE DEF S
  <2>3. \A h \in Nat : h \in S
    BY <2>1, <2>2, NatInduct
  <2> QED
    BY <2>3 DEF S
<1>8. ASSUME NEW k \in 0 .. l - 1 PROVE ~BitSet(word + 1, k)
  <2>1. k \in Nat /\ k < l /\ Shr(word + 1)[k] = Shr(word)[k] + 1 /\ BitSet(word, k)
    BY <1>2, <1>4, <1>7
  <2>2. Shr(word)[k] = 2 * Shr(word)[k + 1] + 1 /\ Shr(word)[k + 1] \in Nat
    BY <1>5, <2>1, ShrDigit
  <2>3. \A x \in Nat : ((2 * x + 1) + 1) % 2 # 1
    OBVIOUS
  <2> QED
    BY <2>1, <2>2, <2>3 DEF BitSet
<1>9. Shr(word + 1)[l] = 1
  BY <1>2, <1>6, <1>7
<1>10. word + 1 = Shr(word + 1)[l] * Power(2)[l]
  BY <1>2, <1>5, <1>8, ShrOfMultiple
<1>11. Power(2)[l] \in Nat
  BY <1>2, PowerUnfolds
<1> QED
  BY <1>9, <1>10, <1>11 DEF word, l

\* Powers of 2 grow with their exponents.
LEMMA PowerMonotone ==
    ASSUME NEW a \in Nat
    PROVE  \A b \in Nat : a <= b => Power(2)[a] <= Power(2)[b]
<1> DEFINE S == {b \in Nat : a <= b => Power(2)[a] <= Power(2)[b]}
<1>1. 0 \in S
  BY PowerUnfolds
<1>2. ASSUME NEW b \in Nat, b \in S PROVE b + 1 \in S
  <2>1. Power(2)[b + 1] = 2 * Power(2)[b] /\ Power(2)[b] \in Nat
    BY PowerUnfolds
  <2>2. CASE a <= b
    BY <1>2, <2>1, <2>2, PowerUnfolds
  <2>3. CASE a > b
    <3>1. a <= b + 1 => a = b + 1
      BY <2>3
    <3> QED
      BY <2>1, <3>1
  <2> QED
    BY <2>2, <2>3
<1> HIDE DEF S
<1>3. \A b \in Nat : b \in S
  BY <1>1, <1>2, NatInduct
<1> QED
  BY <1>3 DEF S

\* There is one height for a number of leaves.
LEMMA HeightForIs ==
    ASSUME NEW n \in Nat, NEW h \in Nat, Power(2)[h] >= n,
           h = 0 \/ Power(2)[h - 1] < n
    PROVE  HeightFor(n) = h
<1> DEFINE Is(k) == Power(2)[k] >= n /\ (k = 0 \/ Power(2)[k - 1] < n)
<1>1. \A k \in Nat : Power(2)[k] \in Nat
  BY PowerUnfolds
<1>2. h \in 0 .. n
  <2>1. CASE h = 0
    BY <2>1
  <2>2. CASE h # 0
    <3>1. h - 1 \in Nat
      BY <2>2
    <3>2. Power(2)[h - 1] > h - 1
      BY <3>1, PowerGrows
    <3> QED
      BY <1>1, <2>2, <3>1, <3>2
  <2> QED
    BY <2>1, <2>2
<1>3. ASSUME NEW j \in Nat, NEW k \in Nat, Is(j), Is(k), j < k PROVE FALSE
  <2>1. k - 1 \in Nat /\ j <= k - 1
    BY <1>3
  <2>2. Power(2)[j] <= Power(2)[k - 1]
    BY <2>1, PowerMonotone
  <2> QED
    BY <1>1, <1>3, <2>1, <2>2
<1>4. HeightFor(n) = CHOOSE k \in 0 .. n : Is(k)
  BY DEF HeightFor
<1>5. HeightFor(n) \in 0 .. n /\ Is(HeightFor(n))
  <2>1. Is(h)
    OBVIOUS
  <2> HIDE DEF Is
  <2> QED
    BY <1>2, <1>4, <2>1
<1>6. HeightFor(n) \in Nat /\ Is(h)
  BY <1>5
<1> HIDE DEF Is
<1>7. ~(HeightFor(n) < h) /\ ~(h < HeightFor(n))
  BY <1>3, <1>5, <1>6
<1> QED
  BY <1>6, <1>7

\* nextPowerOfTwo is what its name says, for every int that is not negative.
LEMMA NextPower ==
    ASSUME NEW n \in Nat, Shr(n)[63] = 0
    PROVE  HeightFor(n) \in Nat /\ nextPowerOfTwo(n) = Power(2)[HeightFor(n)]
<1>1. CASE n = 0
  <2>1. Power(2)[0] = 1
    BY PowerUnfolds
  <2>2. HeightFor(n) = 0
    BY <1>1, <2>1, HeightForIs
  <2> QED
    BY <1>1, <2>1, <2>2 DEF nextPowerOfTwo
<1>2. CASE n # 0
  <2> DEFINE m == n - 1
             l == BitLen(m)
  <2>1. m \in Nat /\ m <= n
    BY <1>2
  <2>2. Shr(m)[63] = 0
    <3>1. Shr(m)[63] \in Nat /\ Shr(m)[63] <= Shr(n)[63]
      BY <2>1, ShrUnfolds, ShrMonotone
    <3> QED
      BY <3>1
  <2>3. nextPowerOfTwo(n) = Power(2)[l]
    BY <1>2, <2>1, <2>2, SmearFills DEF nextPowerOfTwo
  <2>4. l \in Nat /\ Shr(m)[l] = 0 /\ (l # 0 => Shr(m)[l - 1] # 0)
    BY <2>1, BitLenIs
  <2> HIDE DEF l
  <2>5. m < Power(2)[l] /\ (l # 0 => ~(m < Power(2)[l - 1]))
    <3>1. l # 0 => l - 1 \in Nat
      BY <2>4
    <3> HIDE DEF m
    <3> QED
      BY <2>1, <2>4, <3>1, ShrIsZero
  <2>6. Power(2)[l] \in Nat /\ (l # 0 => Power(2)[l - 1] \in Nat)
    BY <2>4, PowerUnfolds
  <2>7. Power(2)[l] >= n /\ (l = 0 \/ Power(2)[l - 1] < n)
    BY <2>5, <2>6
  <2>8. HeightFor(n) = l
    BY <2>4, <2>7, HeightForIs
  <2> QED
    BY <2>3, <2>4, <2>8
<1> QED
  BY <1>1, <1>2

LevelStep(p, h, x) == [i \in 1 .. Len(x) \div 2 |-> Keccak(<<x[2 * i - 1], x[2 * i]>>)]
LevelLoop == INSTANCE NatRecursion WITH Step <- LevelStep

TreeStep(p, h, x) ==
    [lo \in Nat \ {0} |-> Keccak(<<x[lo], x[lo + Power(2)[h]]>>)]
TreeLoop == INSTANCE NatRecursion WITH Step <- TreeStep

\* What is at the position lo of the tree over some blocks.
LeafAt(blocks) ==
    [lo \in Nat \ {0} |->
        IF lo <= Len(blocks) THEN Keccak(<<blocks[lo]>>) ELSE NoHash]

\* The levels that go-merkle builds, and the subtrees of the definition.
LevelOf(leaves) == LevelLoop!Loop(0, leaves)
TreeOf(blocks) == TreeLoop!Loop(0, LeafAt(blocks))
RootLevel(leaves) == CHOOSE h \in 0 .. Len(leaves) : Len(LevelOf(leaves)[h]) = 1

\* Each level is made of pairs of the one below.
LEMMA LevelUnfolds ==
    ASSUME NEW leaves
    PROVE  /\ LevelOf(leaves)[0] = leaves
           /\ \A h \in Nat : LevelOf(leaves)[h + 1] = LevelStep(0, h, LevelOf(leaves)[h])
           /\ Generate(leaves) = LevelOf(leaves)[RootLevel(leaves)][1]
<1>1. /\ LevelOf(leaves)[0] = leaves
      /\ \A h \in Nat : LevelOf(leaves)[h + 1] = LevelStep(0, h, LevelOf(leaves)[h])
  BY LevelLoop!LoopUnfolds DEF LevelOf
<1>2. Generate(leaves) = LevelOf(leaves)[RootLevel(leaves)][1]
  BY DEF Generate, RootLevel, LevelOf, LevelLoop!Loop, LevelStep
<1> QED
  BY <1>1, <1>2

\* A subtree is made of the two below it.
LEMMA TreeUnfolds ==
    ASSUME NEW blocks
    PROVE  /\ TreeOf(blocks)[0] = LeafAt(blocks)
           /\ \A h \in Nat : TreeOf(blocks)[h + 1] = TreeStep(0, h, TreeOf(blocks)[h])
           /\ \A top : TreeOver(blocks, top) = TreeOf(blocks)[top][1]
<1>1. /\ TreeOf(blocks)[0] = LeafAt(blocks)
      /\ \A h \in Nat : TreeOf(blocks)[h + 1] = TreeStep(0, h, TreeOf(blocks)[h])
  BY TreeLoop!LoopUnfolds DEF TreeOf
<1>2. \A top : TreeOver(blocks, top) = TreeOf(blocks)[top][1]
  BY DEF TreeOver, TreeOf, TreeLoop!Loop, TreeStep, LeafAt
<1> QED
  BY <1>1, <1>2

\* The leaves of the tree of a height over some blocks.
AreLeaves(leaves, blocks, top) ==
    /\ DOMAIN leaves = 1 .. Power(2)[top]
    /\ \A i \in DOMAIN leaves : leaves[i] = LeafAt(blocks)[i]

\* The nodes of the level h below a root of height top.
AreSubtrees(nodes, blocks, top, h) ==
    /\ DOMAIN nodes = 1 .. Power(2)[top - h]
    /\ \A i \in 1 .. Power(2)[top - h] :
          nodes[i] = TreeOf(blocks)[h][(i - 1) * Power(2)[h] + 1]

\* Over 2 to the power of top leaves, the node number i of the level h is the
\* root of the subtree of height h over the leaves from (i - 1) * 2^h + 1 on.
LEMMA LevelsAreSubtrees ==
    ASSUME NEW blocks, NEW top \in Nat, NEW leaves,
           AreLeaves(leaves, blocks, top)
    PROVE  \A h \in Nat : h <= top =>
              AreSubtrees(LevelOf(leaves)[h], blocks, top, h)
<1> DEFINE level(h) == LevelOf(leaves)[h]
           tree(h) == TreeOf(blocks)[h]
           q(h) == Power(2)[h]
           Is(h) == /\ DOMAIN level(h) = 1 .. q(top - h)
                    /\ \A i \in 1 .. q(top - h) : level(h)[i] = tree(h)[(i - 1) * q(h) + 1]
           S == {h \in Nat : h <= top => Is(h)}
<1>1. /\ level(0) = leaves
      /\ \A h \in Nat : level(h + 1) = LevelStep(0, h, level(h))
  BY LevelUnfolds
<1>2. /\ tree(0) = LeafAt(blocks)
      /\ \A h \in Nat : tree(h + 1) = TreeStep(0, h, tree(h))
  BY TreeUnfolds
<1>3. q(0) = 1 /\ \A h \in Nat : q(h) \in Nat /\ q(h + 1) = 2 * q(h)
  BY PowerUnfolds
<1> HIDE DEF level, tree, q
<1>4. /\ DOMAIN leaves = 1 .. q(top)
      /\ \A i \in 1 .. q(top) : leaves[i] = LeafAt(blocks)[i]
  BY DEF q, AreLeaves
<1>5. 0 \in S
  <2>1. top - 0 = top /\ q(top) \in Nat
    BY <1>3
  <2>2. \A i \in 1 .. q(top) : (i - 1) * q(0) + 1 = i
    BY <1>3, <2>1
  <2>3. DOMAIN level(0) = 1 .. q(top - 0)
    BY <1>1, <1>4, <2>1
  <2>4. ASSUME NEW i \in 1 .. q(top - 0)
        PROVE  level(0)[i] = tree(0)[(i - 1) * q(0) + 1]
    <3>1. i \in 1 .. q(top)
      BY <2>1
    <3>2. (i - 1) * q(0) + 1 = i
      BY <2>2, <3>1
    <3>3. level(0)[i] = tree(0)[i]
      BY <1>1, <1>2, <1>4, <3>1
    <3> QED
      BY <3>2, <3>3
  <2> QED
    BY <2>3, <2>4
<1>6. ASSUME NEW h \in Nat, h \in S PROVE h + 1 \in S
  <2>1. SUFFICES ASSUME h + 1 <= top PROVE Is(h + 1)
    OBVIOUS
  <2> DEFINE k == top - (h + 1)
  <2>2. k \in Nat /\ k + 1 = top - h
    BY <2>1
  <2> HIDE DEF k
  <2>3. /\ DOMAIN level(h) = 1 .. q(k + 1)
        /\ \A i \in 1 .. q(k + 1) : level(h)[i] = tree(h)[(i - 1) * q(h) + 1]
    BY <1>6, <2>1, <2>2
  <2>4. /\ q(k) \in Nat /\ q(k + 1) = 2 * q(k) /\ q(k + 1) \in Nat
        /\ q(h) \in Nat /\ q(h + 1) = 2 * q(h)
    <3>1. q(k) \in Nat /\ q(k + 1) = 2 * q(k)
      BY <1>3, <2>2
    <3>2. q(h) \in Nat /\ q(h + 1) = 2 * q(h)
      BY <1>3
    <3> QED
      BY <3>1, <3>2
  <2>5. Len(level(h)) = q(k + 1) /\ q(k + 1) \div 2 = q(k)
    <3>1. \A x \in Nat : (2 * x) \div 2 = x
      OBVIOUS
    <3> QED
      BY <2>3, <2>4, <3>1
  <2>6. level(h + 1) = [i \in 1 .. q(k) |-> Keccak(<<level(h)[2 * i - 1], level(h)[2 * i]>>)]
    BY <1>1, <2>5 DEF LevelStep
  <2>7. ASSUME NEW i \in 1 .. q(k)
        PROVE  level(h + 1)[i] = tree(h + 1)[(i - 1) * q(h + 1) + 1]
    <3> DEFINE lo == (i - 1) * q(h + 1) + 1
    <3>1. 2 * i - 1 \in 1 .. q(k + 1) /\ 2 * i \in 1 .. q(k + 1)
      BY <2>4
    <3>2. /\ ((2 * i - 1) - 1) * q(h) + 1 = lo
          /\ (2 * i - 1) * q(h) + 1 = lo + q(h)
          /\ lo \in Nat \ {0}
      <4> DEFINE j == i - 1
      <4>1. j \in Nat /\ i = j + 1
        BY <2>4
      <4>2. \A x, y \in Nat : /\ (2 * x) * y = x * (2 * y)
                              /\ (2 * x + 1) * y = x * (2 * y) + y
                              /\ x * (2 * y) \in Nat
        OBVIOUS
      <4>3. lo = j * (2 * q(h)) + 1
        BY <2>4
      <4> HIDE DEF lo
      <4>4. /\ (2 * j) * q(h) = j * (2 * q(h))
            /\ (2 * j + 1) * q(h) = j * (2 * q(h)) + q(h)
            /\ j * (2 * q(h)) \in Nat
        <5> HIDE DEF j
        <5> QED
          BY <2>4, <4>1, <4>2
      <4>5. /\ (2 * j) * q(h) + 1 = lo
            /\ (2 * j + 1) * q(h) + 1 = lo + q(h)
            /\ lo \in Nat \ {0}
        <5> HIDE DEF j
        <5> QED
          BY <2>4, <4>3, <4>4
      <4>6. (2 * i - 1) - 1 = 2 * j /\ 2 * i - 1 = 2 * j + 1
        BY <4>1
      <4> HIDE DEF j
      <4> QED
        BY <4>5, <4>6, Zenon
    <3> HIDE DEF lo
    <3>3. level(h)[2 * i - 1] = tree(h)[lo]
      BY <2>3, <3>1, <3>2
    <3>4. level(h)[2 * i] = tree(h)[lo + q(h)]
      BY <2>3, <3>1, <3>2
    <3>5. tree(h + 1)[lo] = Keccak(<<tree(h)[lo], tree(h)[lo + q(h)]>>)
      BY <1>2, <3>2 DEF TreeStep, q
    <3>6. level(h + 1)[i] = Keccak(<<level(h)[2 * i - 1], level(h)[2 * i]>>)
      BY <2>6
    <3> QED
      BY <3>3, <3>4, <3>5, <3>6 DEF lo
  <2>8. DOMAIN level(h + 1) = 1 .. q(k)
    BY <2>6
  <2> QED
    BY <2>7, <2>8 DEF k
<1> HIDE DEF S
<1>7. \A h \in Nat : h \in S
  BY <1>5, <1>6, NatInduct
<1> QED
  BY <1>7 DEF S, level, tree, q, AreSubtrees

\* Above the root there is no level with a hash.
LEMMA NothingAboveRoot ==
    ASSUME NEW leaves, NEW top \in Nat, DOMAIN LevelOf(leaves)[top] = 1 .. 1
    PROVE  \A h \in Nat : h > top => Len(LevelOf(leaves)[h]) = 0
<1> DEFINE level(h) == LevelOf(leaves)[h]
           S == {h \in Nat : /\ h > top => Len(level(h)) = 0
                             /\ h = top => Len(level(h)) = 1}
<1>1. \A h \in Nat : level(h + 1) = LevelStep(0, h, level(h))
  BY LevelUnfolds
<1>2. Len(level(top)) = 1
  OBVIOUS
<1> HIDE DEF level
<1>3. 0 \in S
  BY <1>2
<1>4. ASSUME NEW h \in Nat, h \in S PROVE h + 1 \in S
  <2>1. CASE h >= top
    <3>1. Len(level(h)) \in {0, 1}
      BY <1>4, <2>1
    <3>2. Len(level(h)) \div 2 = 0
      <4>1. \A x \in {0, 1} : x \div 2 = 0
        OBVIOUS
      <4> QED
        BY <3>1, <4>1
    <3>3. DOMAIN level(h + 1) = 1 .. 0
      BY <1>1, <3>2 DEF LevelStep
    <3>4. Len(level(h + 1)) = 0
      BY <3>3
    <3> QED
      BY <2>1, <3>4
  <2>2. CASE h < top
    BY <1>2, <2>2
  <2> QED
    BY <2>1, <2>2
<1> HIDE DEF S
<1>5. \A h \in Nat : h \in S
  BY <1>3, <1>4, NatInduct
<1> QED
  BY <1>5 DEF S, level

\* The root of a checkpoint is that of the tree over its blocks, whose number
\* is an int.
THEOREM RootIsTree ==
    ASSUME NEW n \in Nat, Shr(n)[63] = 0, NEW blocks, DOMAIN blocks = 1 .. n
    PROVE  IsRootOver(RootHash(blocks), blocks)
<1> DEFINE top == HeightFor(n)
           leaves == calcCheckpointFromBlocks(blocks)
           level(h) == LevelOf(leaves)[h]
<1>1. Len(blocks) = n
  OBVIOUS
<1>2. top \in Nat /\ nextPowerOfTwo(n) = Power(2)[top]
  BY NextPower
<1>3. AreLeaves(leaves, blocks, top)
  <2>1. leaves = [i \in 1 .. Power(2)[top] |->
                    IF i \in DOMAIN blocks THEN Keccak(<<blocks[i]>>) ELSE NoHash]
    BY <1>1, <1>2 DEF calcCheckpointFromBlocks, calcHeaderHash
  <2>2. Power(2)[top] \in Nat
    BY <1>2, PowerUnfolds
  <2>3. \A i \in 1 .. Power(2)[top] :
           i \in Nat \ {0} /\ (i \in DOMAIN blocks <=> i <= Len(blocks))
    BY <1>1, <2>2
  <2> HIDE DEF top, leaves
  <2> QED
    BY <2>1, <2>3 DEF LeafAt, AreLeaves
<1>4. Generate(leaves) = level(RootLevel(leaves))[1]
  BY LevelUnfolds
<1> HIDE DEF top, leaves
<1>5. \A h \in Nat : h <= top => AreSubtrees(level(h), blocks, top, h)
  BY <1>2, <1>3, LevelsAreSubtrees
<1>6. Power(2)[0] = 1 /\ \A h \in Nat : Power(2)[h] \in Nat /\ Power(2)[h] > h
  BY PowerUnfolds, PowerGrows
<1> HIDE DEF level
<1>7. DOMAIN level(top) = 1 .. 1 /\ Len(level(top)) = 1
  <2>1. DOMAIN level(top) = 1 .. Power(2)[top - top] /\ top - top = 0
    BY <1>2, <1>5 DEF AreSubtrees
  <2>2. DOMAIN level(top) = 1 .. 1
    BY <1>6, <2>1
  <2> QED
    BY <2>2
<1>8. ASSUME NEW h \in Nat, h # top PROVE Len(level(h)) # 1
  <2>1. CASE h < top
    <3> DEFINE k == top - h
    <3>1. k \in Nat /\ k >= 1 /\ h <= top
      BY <1>2, <2>1
    <3>2. DOMAIN level(h) = 1 .. Power(2)[k]
      BY <1>5, <3>1 DEF AreSubtrees
    <3> HIDE DEF k
    <3>3. Power(2)[k] \in Nat /\ Power(2)[k] > 1
      BY <1>6, <3>1
    <3>4. Len(level(h)) = Power(2)[k]
      BY <3>2, <3>3
    <3> QED
      BY <3>3, <3>4
  <2>2. CASE h > top
    <3>1. Len(level(h)) = 0
      BY <1>2, <1>7, <2>2, NothingAboveRoot DEF level
    <3> QED
      BY <3>1
  <2>3. h < top \/ h > top
    BY <1>2, <1>8
  <2> QED
    BY <2>1, <2>2, <2>3
<1>9. Len(leaves) \in Nat /\ top \in 0 .. Len(leaves)
  <2>1. Power(2)[top] \in Nat /\ Power(2)[top] > top
    BY <1>2, <1>6
  <2>2. Len(leaves) = Power(2)[top]
    BY <1>3, <2>1 DEF AreLeaves
  <2> QED
    BY <1>2, <2>1, <2>2
<1>10. RootLevel(leaves) = top
  <2>1. RootLevel(leaves) = CHOOSE h \in 0 .. Len(leaves) : Len(level(h)) = 1
    BY DEF RootLevel, level
  <2>2. \A h \in 0 .. Len(leaves) : Len(level(h)) = 1 => h = top
    BY <1>8, <1>9
  <2> QED
    BY <1>7, <1>9, <2>1, <2>2
<1>11. Generate(leaves) = level(top)[1]
  BY <1>4, <1>10
<1>12. level(top)[1] = TreeOf(blocks)[top][1]
  <2>1. /\ top <= top /\ top - top = 0 /\ 1 \in 1 .. Power(2)[top - top]
        /\ (1 - 1) * Power(2)[top] + 1 = 1
    BY <1>2, <1>6
  <2> QED
    BY <1>2, <1>5, <2>1 DEF AreSubtrees
<1>13. TreeOver(blocks, top) = TreeOf(blocks)[top][1]
  BY TreeUnfolds
<1> QED
  BY <1>1, <1>11, <1>12, <1>13 DEF IsRootOver, RootHash, leaves, top

\* getRootHash returns at once; what it returns has a place for each call.
Rooted ==
    /\ DOMAIN data = Callers
    /\ RootExact
    /\ \A c \in Callers : function[c] = "getRootHash" => pc[c] \in {"query", "done"}

\* The steps of another call leave the root of a checkpoint alone.
LEMMA RootedKept ==
    ASSUME Inv, Rooted, NEW c \in Callers, UNCHANGED <<function, height>>,
           DOMAIN data' = Callers,
           \A d \in Callers \ {c} :
               /\ pc'[d] = pc[d] /\ result'[d] = result[d] /\ data'[d] = data[d],
           function[c] = "getRootHash" =>
               /\ pc'[c] = "done"
               /\ result'[c] # Error => IsRootOver(data'[c].root, data'[c].over)
    PROVE  Rooted'
<1>1. ASSUME NEW d \in Callers, function'[d] = "getRootHash", pc'[d] = "done",
             result'[d] # Error
      PROVE  IsRootOver(data'[d].root, data'[d].over)
  <2>1. CASE d = c
    BY <1>1, <2>1
  <2>2. CASE d # c
    BY <1>1, <2>2 DEF Rooted, RootExact
  <2> QED
    BY <2>1, <2>2
<1>2. RootExact'
  BY <1>1 DEF RootExact
<1>3. \A d \in Callers : function'[d] = "getRootHash" => pc'[d] \in {"query", "done"}
  BY DEF Rooted
<1> QED
  BY <1>2, <1>3 DEF Rooted

\* What getRootHash makes of the blocks it is given.
LEMMA GetRootHashRooted ==
    ASSUME Inv, Rooted, NEW c \in Callers, getRootHash(c) PROVE Rooted'
<1> USE DEF At, Go, Finish
<1>1. /\ UNCHANGED <<function, height>>
      /\ pc' = [pc EXCEPT ![c] = "done"]
      /\ \A d \in Callers \ {c} : result'[d] = result[d]
  BY DEF getRootHash, Inv, TypeOK
<1>2. /\ DOMAIN data' = Callers /\ \A d \in Callers \ {c} : data'[d] = data[d]
      /\ result'[c] # Error => \E blocks \in Ranges(height[c]) :
            data'[c] = [over |-> blocks, root |-> RootHash(blocks)]
  BY DEF getRootHash, Inv, TypeOK, Rooted
<1>3. ASSUME result'[c] # Error PROVE IsRootOver(data'[c].root, data'[c].over)
  <2>1. PICK blocks \in Ranges(height[c]) :
           data'[c] = [over |-> blocks, root |-> RootHash(blocks)]
    BY <1>2, <1>3
  <2>2. PICK n \in 0 .. MaxRange : blocks = [i \in 1 .. n |-> height[c] + i - 1]
    BY DEF Ranges
  <2>3. n \in Nat /\ n <= MaxRange /\ MaxRange \in Nat /\ DOMAIN blocks = 1 .. n
    BY <2>2, MaxRangeAssumption
  <2>4. Shr(n)[63] = 0
    <3>1. Shr(n)[63] \in Nat /\ Shr(n)[63] <= Shr(MaxRange)[63]
      BY <2>3, ShrUnfolds, ShrMonotone
    <3> QED
      BY <3>1, MaxRangeAssumption
  <2>5. IsRootOver(RootHash(blocks), blocks)
    BY <2>3, <2>4, RootIsTree
  <2> QED
    BY <2>1, <2>5
<1> QED
  BY <1>1, <1>2, <1>3, RootedKept DEF Inv, TypeOK

\* The other steps are not of a call of getRootHash.
LEMMA OtherRooted ==
    ASSUME Inv, Rooted, NEW c \in Callers,
           Query(c) \/ Subscribe(c) \/ Receive(c) \/ GiveUp(c) \/ Unsubscribe(c)
             \/ Votes(c)
    PROVE  Rooted'
<1> USE DEF At, Go, Finish
<1>1. UNCHANGED <<function, height>>
  BY DEF Query, Subscribe, Receive, GiveUp, Unsubscribe, Votes
<1>2. \A d \in Callers \ {c} : pc'[d] = pc[d] /\ result'[d] = result[d]
  <2>1. CASE Query(c) \/ Subscribe(c) \/ GiveUp(c) \/ Votes(c)
    BY <2>1 DEF Inv, TypeOK, Query, Subscribe, GiveUp, Votes
  <2>2. CASE Receive(c)
    BY <2>2 DEF Inv, TypeOK, Receive
  <2>3. CASE Unsubscribe(c)
    BY <2>3 DEF Inv, TypeOK, Unsubscribe, UnsubscribeFails
  <2> QED
    BY <2>1, <2>2, <2>3
<1>3. DOMAIN data' = Callers /\ \A d \in Callers \ {c} : data'[d] = data[d]
  <2>1. CASE Votes(c)
    BY <2>1 DEF Votes, Rooted
  <2>2. CASE data' = data
    BY <2>2 DEF Rooted
  <2> QED
    BY <2>1, <2>2 DEF Query, Subscribe, Receive, GiveUp, Unsubscribe
<1>4. function[c] # "getRootHash"
  <2>1. CASE Query(c)
    BY <2>1 DEF Query
  <2>2. CASE ~Query(c)
    <3>1. pc[c] \notin {"query", "done"}
      BY <2>2 DEF Subscribe, Receive, GiveUp, Unsubscribe, Votes
    <3> QED
      BY <3>1 DEF Rooted
  <2> QED
    BY <2>1, <2>2
<1> QED
  BY <1>1, <1>2, <1>3, <1>4, RootedKept

\* The root that getRootHash returns is that of the smallest tree with a place
\* for the headers of its blocks, each in its place.
THEOREM RootAlwaysExact == Spec => []RootExact
<1>1. Init => Rooted
  BY DEF Init, Rooted, RootExact
<1>2. Inv /\ Rooted /\ [Next]_vars => Rooted'
  <2> SUFFICES ASSUME Inv, Rooted, [Next]_vars PROVE Rooted'
    OBVIOUS
  <2>1. CASE UNCHANGED <<function, height, pc, result, data>>
    BY <2>1 DEF Rooted, RootExact
  <2>2. ASSUME NEW c \in Callers, Step(c) PROVE Rooted'
    BY <2>2, GetRootHashRooted, OtherRooted DEF Step
  <2>3. Commit \/ (\E c \in Callers : Deadline(c)) \/ UNCHANGED vars
          => UNCHANGED <<function, height, pc, result, data>>
    BY DEF Commit, Deadline, vars
  <2> QED
    BY <2>1, <2>2, <2>3 DEF Next
<1>3. Rooted => RootExact
  BY DEF Rooted
<1> QED
  BY <1>1, <1>2, <1>3, Invariance, PTL DEF Spec
=============================================================================
