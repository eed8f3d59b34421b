----------------------------- MODULE BlockQuery -----------------------------
(***************************************************************************)
(* The calls of the package heimdall, made by several goroutines:          *)
(* GetBlockWithClient and GetBeginBlockEvents (query.go) ask the node for  *)
(* a block and, if that fails, subscribe to new blocks and wait for it     *)
(* under a deadline; FetchVotes takes the votes for a block from the next  *)
(* one; getRootHash (checkpoint.go) has its blocks from a callback.        *)
(*                                                                         *)
(* The node and its client library are external.  The node commits blocks  *)
(* while the calls run; a subscription is known to it by its name, which   *)
(* the calls derive from the height alone, and delivers the blocks         *)
(* committed from then on through a bounded channel, dropping those that   *)
(* do not fit.  Unsubscribing under a context that is done may fail.       *)
(*                                                                         *)
(* ..._Faulty... definitions are plausible bugs that test the properties.  *)
(***************************************************************************)
EXTENDS Checkpoint

CONSTANTS
    Callers,   \* goroutines that make one call each
    MaxHeight, \* bound: the blocks the node commits
    ChanCap,   \* capacity of an event channel
    MaxRange,  \* bound: the blocks of a checkpoint
    Precommits(_), \* the votes for the block of a height, in the order of the
                   \* validator set: addresses, or NoVote
    NoVote,
    NoResult,  \* the call has not come to its return statement
    Error      \* a non-nil error

ASSUME MaxHeightAssumption == MaxHeight \in Nat \ {0}
ASSUME ChanCapAssumption == ChanCap \in Nat \ {0}
\* Go's len is an int of 64 bits.
ASSUME MaxRangeAssumption == MaxRange \in Nat /\ Shr(MaxRange)[63] = 0

Heights == 1 .. MaxHeight

\* A vote that is not nil is known by its validator's address, and a validator
\* set has no address twice.
ASSUME PrecommitsAssumption ==
    /\ NoVote \notin Nat
    /\ \A h \in Heights :
          /\ Precommits(h) \in Seq(Nat \cup {NoVote})
          /\ \A i, j \in DOMAIN Precommits(h) :
                i # j => Precommits(h)[i] = NoVote
                         \/ Precommits(h)[i] # Precommits(h)[j]

ASSUME OutcomesAssumption ==
    NoResult # Error /\ NoResult \notin Heights /\ Error \notin Heights

VARIABLES
    tip,       \* height of the last block committed
    subs,      \* the calls whose subscription the node serves
    channel,   \* eventCh of each call: heights, or Closed
    function,  \* the function called
    height,    \* its argument
    pc,        \* where the call is
    expired,   \* c.Done() is closed
    result,    \* the block the call has, by its height, or an error
    data       \* what FetchVotes and getRootHash make of their blocks

vars == <<tip, subs, channel, function, height, pc, expired, result, data>>

Functions == {"GetBlockWithClient", "GetBeginBlockEvents", "FetchVotes", "getRootHash"}

Closed == 0

Init ==
    /\ tip = 1
    /\ subs = {}
    /\ channel = [c \in Callers |-> <<>>]
    /\ function \in [Callers -> Functions]
    /\ height \in [Callers -> Heights]
    /\ pc = [c \in Callers |-> "query"]
    /\ expired = [c \in Callers |-> FALSE]
    /\ result = [c \in Callers |-> NoResult]
    /\ data = [c \in Callers |-> <<>>]

\* An unrecovered panic ends the program.
Running == \A c \in Callers : pc[c] # "panic"

At(c, label) == Running /\ pc[c] = label

Go(c, label) == pc' = [pc EXCEPT ![c] = label]

Finish(c, label, value) ==
    Go(c, label) /\ result' = [result EXCEPT ![c] = value]

\* The votes for a block are asked for at its own height.
Wanted_FaultySame(c) == height[c]

\* The block asked for: the votes for a block are in the next one.
Wanted(c) == IF function[c] = "FetchVotes" THEN height[c] + 1 ELSE height[c]

\* Where GetBlockWithClient returns to, if FetchVotes has called it.
Return(c) == IF function[c] = "FetchVotes" THEN "votes" ELSE "done"

\* All calls use the same name.
SameName_FaultyConstant(c, d) == TRUE

\* All calls for one height use the name new-block-<height>.
SameName(c, d) == Wanted(c) = Wanted(d)

----------------------------------------------------------------------------
\* The node commits a block and publishes it.
Commit ==
    /\ tip < MaxHeight
    /\ tip' = tip + 1
    /\ channel' = [c \in Callers |->
                     IF c \in subs /\ Len(channel[c]) < ChanCap
                     THEN Append(channel[c], tip + 1) ELSE channel[c]]
    /\ UNCHANGED <<subs, function, height, pc, expired, result, data>>

\* CommitTimeout has passed since GetBlockWithClient or GetBeginBlockEvents
\* began.
Deadline(c) ==
    /\ Running
    /\ function[c] # "getRootHash"
    /\ pc[c] \notin {"votes", "done"}
    /\ ~expired[c]
    /\ expired' = [expired EXCEPT ![c] = TRUE]
    /\ UNCHANGED <<tip, subs, channel, function, height, pc, result, data>>

\* The direct query; it does not run under the deadline.
Query(c) ==
    /\ At(c, "query")
    /\ function[c] # "getRootHash"
    /\ \/ Wanted(c) <= tip /\ Finish(c, Return(c), Wanted(c))
       \/ Go(c, "subscribe") /\ UNCHANGED result
    /\ UNCHANGED <<tip, subs, channel, function, height, expired, data>>

\* A call whose subscription fails returns without an error.
Subscribe_FaultyNoError(c) ==
    /\ At(c, "subscribe")
    /\ \/ subs' = subs \cup {c} /\ Go(c, "wait")
       \/ UNCHANGED subs /\ Go(c, Return(c))
    /\ UNCHANGED <<tip, channel, function, height, expired, result, data>>

\* The subscription, under the deadline; the node may refuse it.
Subscribe(c) ==
    /\ At(c, "subscribe")
    /\ \/ subs' = subs \cup {c} /\ Go(c, "wait") /\ UNCHANGED result
       \/ Finish(c, Return(c), Error) /\ UNCHANGED subs
    /\ UNCHANGED <<tip, channel, function, height, expired, data>>

\* The first block that arrives is returned.
Receive_FaultyAnyBlock(c) ==
    /\ At(c, "wait")
    /\ channel[c] # <<>>
    /\ channel' = [channel EXCEPT ![c] = Tail(@)]
    /\ Finish(c, "unsubscribe", Head(channel[c]))
    /\ UNCHANGED <<tip, subs, function, height, expired, data>>

\* An event arrives: the block asked for, another block, or the empty event of
\* a closed channel, which is not an EventDataNewBlock.
Receive(c) ==
    /\ At(c, "wait")
    /\ channel[c] # <<>>
    /\ channel' = [channel EXCEPT ![c] = Tail(@)]
    /\ \/ Head(channel[c]) = Wanted(c) /\ Finish(c, "unsubscribe", Wanted(c))
       \/ Head(channel[c]) = Closed /\ Finish(c, "unsubscribe", Error)
       \/ Head(channel[c]) \notin {Wanted(c), Closed} /\ UNCHANGED <<pc, result>>
    /\ UNCHANGED <<tip, subs, function, height, expired, data>>

\* The wait is only given up while the block is still missing.
GiveUp_FaultyMissing(c) ==
    /\ At(c, "wait")
    /\ expired[c]
    /\ Wanted(c) > tip
    /\ Finish(c, "unsubscribe", Error)
    /\ UNCHANGED <<tip, subs, channel, function, height, expired, data>>

\* c.Done() is chosen by the select; it may be while an event is waiting too.
GiveUp(c) ==
    /\ At(c, "wait")
    /\ expired[c]
    /\ Finish(c, "unsubscribe", Error)
    /\ UNCHANGED <<tip, subs, channel, function, height, expired, data>>

\* Subscriptions are given back by name.  What a call that loses its own
\* this way notices is up to the library: nothing, or a closed channel.
Unsubscribed(c) ==
    LET named == {d \in subs : SameName(c, d)}
    IN  /\ subs' = subs \ named
        /\ \E closed \in SUBSET (named \ {c}) :
              channel' = [d \in Callers |->
                 IF d \in closed THEN Append(channel[d], Closed) ELSE channel[d]]

\* A failure to give the subscription back: GetBlockWithClient logs it to the
\* package's Logger, which nothing sets; GetBeginBlockEvents ignores it.
UnsubscribeFails(c) ==
    /\ expired[c]
    /\ Go(c, IF function[c] = "GetBeginBlockEvents" THEN "done" ELSE "panic")
    /\ UNCHANGED <<subs, channel>>

\* Only a call that failed gives the subscription back.
Unsubscribe_FaultyOnSuccess(c) ==
    /\ At(c, "unsubscribe")
    /\ Go(c, Return(c))
    /\ IF result[c] = Error THEN Unsubscribed(c) ELSE UNCHANGED <<subs, channel>>
    /\ UNCHANGED <<tip, function, height, expired, result, data>>

\* The deferred Unsubscribe.
Unsubscribe(c) ==
    /\ At(c, "unsubscribe")
    /\ \/ Unsubscribed(c) /\ Go(c, Return(c))
       \/ UnsubscribeFails(c)
    /\ UNCHANGED <<tip, function, height, expired, result, data>>

\* The signatures are left in the order of the validator set.
GetVoteSigs_FaultyUnsorted(votes, h) ==
    LET cast == SelectSeq(votes, LAMBDA v : v # NoVote)
    IN  [i \in DOMAIN cast |-> <<cast[i], h>>]

\* The signatures of the votes that are not nil, by address; that of v for the
\* block of height h is the pair of them.
GetVoteSigs(votes, h) ==
    LET order == InOrder({i \in DOMAIN votes : votes[i] # NoVote},
                         LAMBDA i, j : votes[i] < votes[j])
    IN  [k \in DOMAIN order |-> <<votes[order[k]], h>>]

\* FetchVotes has the block, or passes the error on.
Votes(c) ==
    /\ At(c, "votes")
    /\ Go(c, "done")
    /\ data' = IF result[c] = Error THEN data
               ELSE LET h == result[c] - 1
                    IN  [data EXCEPT ![c] = GetVoteSigs(Precommits(h), h)]
    /\ UNCHANGED <<tip, subs, channel, function, height, expired, result>>

\* What getBlockRange may return.
Ranges(first) == {[i \in 1 .. n |-> first + i - 1] : n \in 0 .. MaxRange}

\* The callback returns an error, or blocks from the given height on.
getRootHash(c) ==
    /\ At(c, "query")
    /\ function[c] = "getRootHash"
    /\ \/ Finish(c, "done", Error) /\ UNCHANGED data
       \/ \E blocks \in Ranges(height[c]) :
             /\ Finish(c, "done", height[c])
             /\ data' = [data EXCEPT ![c] = [over |-> blocks, root |-> RootHash(blocks)]]
    /\ UNCHANGED <<tip, subs, channel, function, height, expired>>

Step(c) ==
    \/ Query(c) \/ Subscribe(c) \/ Receive(c) \/ GiveUp(c) \/ Unsubscribe(c)
    \/ Votes(c) \/ getRootHash(c)

Next ==
    \/ Commit
    \/ \E c \in Callers : Step(c) \/ Deadline(c)

\* Goroutines are scheduled, timers fire, and the node answers every request,
\* but it need not commit another block.  Go's select picks at random among
\* the cases that are ready: it does not overlook c.Done() for ever.
Fairness ==
    \A c \in Callers :
        WF_vars(Step(c)) /\ WF_vars(Deadline(c)) /\ WF_vars(GiveUp(c))

Spec == Init /\ [][Next]_vars /\ Fairness

----------------------------------------------------------------------------
(* Properties.                                                              *)

TypeOK ==
    /\ tip \in Heights
    /\ subs \subseteq Callers
    /\ channel \in [Callers -> Seq(Heights \cup {Closed})]
    /\ function \in [Callers -> Functions]
    /\ height \in [Callers -> Heights]
    /\ pc \in [Callers -> {"query", "subscribe", "wait", "unsubscribe", "votes",
                           "done", "panic"}]
    /\ expired \in [Callers -> BOOLEAN]
    /\ result \in [Callers -> Heights \cup {NoResult, Error}]
    /\ \A c \in Callers : pc[c] = "done" => result[c] # NoResult

\* A call that returns a block returns the one it was asked for, whatever
\* blocks were committed and delivered while it waited.
RightBlock ==
    \A c \in Callers : result[c] \in {NoResult, Error, Wanted(c)}

\* A call keeps its subscription while it waits, unless a call for the same
\* height gave it back.
SubscriptionKept ==
    \A c \in Callers : pc[c] = "wait" /\ c \notin subs =>
        \E d \in Callers \ {c} : Wanted(d) = Wanted(c) /\ pc[d] \in {"votes", "done"}

\* A call that has returned left a subscription behind only if its deadline
\* passed first.
LeakOnlyAfterDeadline ==
    \A c \in Callers : pc[c] = "done" /\ c \in subs => expired[c]

\* FetchVotes that returns without an error has the signatures of all votes
\* for the block of its height and of no others, by rising address.
VotesExact ==
    \A c \in Callers :
        function[c] = "FetchVotes" /\ pc[c] = "done" /\ result[c] # Error =>
            LET voters == ToSet(Precommits(height[c])) \ {NoVote}
            IN  /\ ToSet(data[c]) = voters \X {height[c]}
                /\ \A i, j \in DOMAIN data[c] : i < j => data[c][i][1] < data[c][j][1]

\* The root that getRootHash returns is that of the smallest tree that has room
\* for the blocks, each header in its place, whether or not their number is a
\* power of two.
RootExact ==
    \A c \in Callers :
        function[c] = "getRootHash" /\ pc[c] = "done" /\ result[c] # Error =>
            IsRootOver(data[c].root, data[c].over)

\* A call that times out returns an error.
TimeoutIsAnError == \A c \in Callers : pc[c] # "panic"

\* Every call returns, even when its block was committed between the failed
\* query and the subscription and will not be delivered.
EveryCallReturns ==
    \A c \in Callers : pc[c] = "query" ~> (pc[c] = "done" \/ ~Running)
=============================================================================
