----------------------------- MODULE GaugeVotes -----------------------------
(***************************************************************************)
(* The gauge vote of a period (tasks/snapshot): a task lists the gauges,   *)
(* another turns the list into choices, a third opens a proposal with the  *)
(* choices' labels on Snapshot, and when voting is over the last one turns *)
(* the scores into the weights that the vote delegate sends to             *)
(* Booster.voteGaugeWeight, in the order it prints them.  The tasks share  *)
(* two files, which may be written again at any time, and find each        *)
(* other's gauges by label; gauges may be killed in between.               *)
(***************************************************************************)
EXTENDS Integers, Sequences, FiniteSets, Functions, Sums, Lists

CONSTANTS Gauges,       \* those of the gauge controller, in its order
          Name,         \* gauge -> name of its LP token, "MISSING" where it has none
          Symbols,      \* gauge -> symbols of its pool's tokens
          Kind,         \* gauge -> "weth" or "n/a" where sortGaugeList knows what to do, else "other"
          Removed,      \* removedGauges
          PriorityGauges,
          Scores,       \* bound: what a choice may score
          Mortal,       \* bound: the gauges that may be killed
          MaxEpochs     \* bound: proposals

\* what a label that is in no choice is looked up to
Unknown == "undefined"
ASSUME GaugesAssumption ==
    \* the controller lists a gauge once, and so does priorityGaugesAddresses
    /\ Gauges \in Seq(Range(Gauges)) /\ IsInjective(Gauges) /\ Unknown \notin Range(Gauges)
    /\ PriorityGauges \in Seq(Range(PriorityGauges)) /\ IsInjective(PriorityGauges)
    /\ \A f \in {Name, Symbols, Kind} : DOMAIN f = Range(Gauges)
    /\ Scores \subseteq Nat /\ MaxEpochs \in Nat

VARIABLES
    killed,
    snapshot,     \* gauge_snapshot_bunni.json: gauges
    choices,      \* gauge_choices.json: [address, label]
    proposal,     \* labels and scores, or NoProposal
    votes,        \* what snapshot:result printed: [gauge, voteDelta, voteWeight], or <<>>
    source,       \* the gauges and the choices in the files when it did, or NoSource
    power,        \* gauge -> vote_user_slopes of the VoterProxy
    epoch

voteVars == <<killed, snapshot, choices, proposal, votes, source, power, epoch>>

NoProposal == [choices |-> <<>>, scores |-> <<>>]
NoSource == [gauges |-> <<>>, choices |-> <<>>]
totalVotes == 10000
Alive(gauges) == Filtered(gauges, {i \in DOMAIN gauges : gauges[i] \notin killed})
Total(seq) == SumTo(seq, Len(seq))

(***************************************************************************)
(* The files.  gauges:snapshot:print writes the list; gauges:choices:print *)
(* prints choices that are copied into the file, as the one checked in     *)
(* was; snapshot:generate writes them itself, unless sortGaugeList meets a *)
(* pool it returns nothing for, where it throws.                           *)
(***************************************************************************)
WriteSnapshot ==
    /\ snapshot' = Alive(Gauges)
    /\ UNCHANGED <<killed, choices, proposal, votes, source, power, epoch>>

Choice(g, label) == [address |-> g, label |-> label]
PrintChoices ==
    /\ choices' = LET gauges == Alive(Gauges) IN [i \in 1..Len(gauges) |-> Choice(gauges[i], Name[gauges[i]])]
    /\ UNCHANGED <<killed, snapshot, proposal, votes, source, power, epoch>>

\* a priority gauge that is not in the list is dropped by the catch that follows
sortGaugeList(gauges) ==
    Filtered(PriorityGauges, {i \in DOMAIN PriorityGauges : PriorityGauges[i] \in Range(gauges)})
    \o Filtered(gauges, {i \in DOMAIN gauges : gauges[i] \notin Range(PriorityGauges)})
Generate ==
    LET alive == Alive(sortGaugeList(snapshot))
        cleaned == Filtered(alive, {i \in DOMAIN alive : alive[i] \notin Removed})
    IN  /\ \A g \in Range(snapshot) : Kind[g] # "other"
        /\ choices' = [i \in 1..Len(cleaned) |-> Choice(cleaned[i], Symbols[cleaned[i]])]
        /\ UNCHANGED <<killed, snapshot, proposal, votes, source, power, epoch>>

(***************************************************************************)
(* The proposal.  Labels that occur twice are reported but not refused.    *)
(***************************************************************************)
Create ==
    /\ proposal = NoProposal /\ votes = <<>> /\ choices # <<>> /\ epoch < MaxEpochs
    /\ \E scores \in [1..Len(choices) -> Scores] :
           proposal' = [choices |-> [i \in 1..Len(choices) |-> choices[i].label], scores |-> scores]
    /\ epoch' = epoch + 1
    /\ UNCHANGED <<killed, snapshot, choices, votes, source, power>>

(***************************************************************************)
(* snapshot:result.                                                        *)
(***************************************************************************)
AddressOf(label) ==
    LET found == {i \in DOMAIN choices : choices[i].label = label}
    IN  IF found = {} THEN Unknown ELSE choices[First(found)].address

\* the choices with more than 0.2% of all votes, most voted first
Successful ==
    LET passed == {i \in DOMAIN proposal.scores : proposal.scores[i] * 500 > Total(proposal.scores)}
    IN  Ordered(passed, [i \in passed |-> -proposal.scores[i]])
Won == At(proposal.scores, Successful)
Addresses == [k \in 1..Len(Successful) |-> AddressOf(proposal.choices[Successful[k]])]

\* slip: what rounding leaves is lost
SlipWeights(scores) == [k \in 1..Len(scores) |-> (totalVotes * scores[k]) \div Total(scores)]
\* what rounding leaves goes to the first
Weights(scores) ==
    LET floors == [k \in 1..Len(scores) |-> (totalVotes * scores[k]) \div Total(scores)]
    IN  [floors EXCEPT ![1] = @ + (totalVotes - Total(floors))]

Changes(vs) == [i \in DOMAIN vs |-> vs[i].voteDelta]
\* slip: in order of the change alone, as if a reset lowered its change
SlipInOrder(vs) == SortedBy(vs, Changes(vs))
\* The second sort puts the resets first and keeps the rest, by ascending change, as it is
\* (its comparison looks at one vote only; up to 63 votes the engine inserts one by one).
InOrder(vs) ==
    LET sorted == SortedBy(vs, Changes(vs))
        resets == Filtered(sorted, {i \in DOMAIN sorted : sorted[i].voteWeight = 0})
    IN  [k \in 1..Len(resets) |-> resets[Len(resets) + 1 - k]]
        \o Filtered(sorted, {i \in DOMAIN sorted : sorted[i].voteWeight # 0})

\* slip: the weights are taken to be in the order of the list
SlipWeightOf(addresses, weights, g) ==
    LET i == CHOOSE i \in DOMAIN snapshot : snapshot[i] = g IN IF i \in DOMAIN weights THEN weights[i] ELSE 0
\* the weight of the first choice with the gauge's address, 0 where there is none
WeightOf(addresses, weights, g) ==
    LET found == {k \in DOMAIN addresses : addresses[k] = g}
    IN  IF found = {} THEN 0 ELSE weights[First(found)]

\* the gauges of the snapshot that have won votes now, and those that had some before
Votes ==
    LET weights == Weights(Won)
        VoteFor(g) ==
            LET weight == WeightOf(Addresses, weights, g)
            IN  [gauge |-> g, voteWeight |-> weight,
                 voteDelta |-> IF g \in Range(Addresses) THEN weight - power[g] ELSE power[g]]
        voted == Filtered(snapshot, {i \in DOMAIN snapshot : snapshot[i] \in Range(Addresses) \/ power[snapshot[i]] > 0})
    IN  InOrder([k \in 1..Len(voted) |-> VoteFor(voted[k])])

\* with no successful gauge the total is not a number and the task exits
Result ==
    /\ proposal # NoProposal /\ votes = <<>>
    /\ Len(Successful) > 0
    /\ votes' = Votes /\ source' = [gauges |-> snapshot, choices |-> choices]
    /\ UNCHANGED <<killed, snapshot, choices, proposal, power, epoch>>

(***************************************************************************)
(* The vote delegate sends the printed arrays to Booster.voteGaugeWeight,  *)
(* one vote_for_gauge_weights after the other in one transaction.  The     *)
(* controller refuses a vote with which more than 10000 would be in use.   *)
(***************************************************************************)
\* what the first n votes make of it; no gauge has two
PowerAfter(n) ==
    [g \in DOMAIN power |->
        LET cast == {i \in 1..n : votes[i].gauge = g}
        IN  IF cast = {} THEN power[g] ELSE votes[First(cast)].voteWeight]
UsedAfter(n) == Total([k \in 1..Len(Gauges) |-> PowerAfter(n)[Gauges[k]]])
Accepted == \A n \in 1..Len(votes) : UsedAfter(n) <= totalVotes

\* a proposal whose votes are refused, or lead to none, is given up
Submit ==
    /\ votes # <<>>
    /\ power' = IF Accepted THEN PowerAfter(Len(votes)) ELSE power
    /\ votes' = <<>> /\ source' = NoSource /\ proposal' = NoProposal
    /\ UNCHANGED <<killed, snapshot, choices, epoch>>
Abandon ==
    /\ proposal # NoProposal /\ votes = <<>> /\ (Len(Successful) = 0 \/ Votes = <<>>)
    /\ proposal' = NoProposal
    /\ UNCHANGED <<killed, snapshot, choices, votes, source, power, epoch>>

Kill(g) ==
    /\ g \notin killed
    /\ killed' = killed \cup {g}
    /\ UNCHANGED <<snapshot, choices, proposal, votes, source, power, epoch>>

\* the files checked in list all gauges
VotesInit ==
    /\ killed = {} /\ snapshot = Gauges
    /\ choices = [i \in 1..Len(Gauges) |-> Choice(Gauges[i], Name[Gauges[i]])]
    /\ proposal = NoProposal /\ votes = <<>> /\ source = NoSource
    /\ power = [g \in Range(Gauges) |-> 0] /\ epoch = 0

VotesNext ==
    \/ WriteSnapshot \/ PrintChoices \/ Generate
    \/ Create \/ Result \/ Submit \/ Abandon
    \/ \E g \in Mortal : Kill(g)
VotesSpec == VotesInit /\ [][VotesNext]_voteVars

(***************************************************************************)
(* Properties.                                                             *)
(***************************************************************************)
Powered == {g \in DOMAIN power : power[g] > 0}

\* Sent in the order in which they are printed, the votes never have more than the whole
\* power in use, whatever was voted before, as long as the list of gauges the result was
\* computed from has every gauge with power on it.
VotesAccepted == Powered \subseteq Range(source.gauges) => Accepted

\* A vote gives a gauge only what voters gave a choice with a label that was this gauge's
\* at some time: its share of the successful votes, rounded down, and for one of them
\* the rest, which is less than one per choice.
SharesFollowLabels ==
    \A v \in Range(votes) : v.voteWeight > 0 =>
        \E i \in DOMAIN proposal.choices :
            /\ proposal.choices[i] \in {Name[v.gauge], Symbols[v.gauge]}
            /\ v.voteWeight * Total(Won) <= (proposal.scores[i] * totalVotes) + (Len(proposal.choices) * Total(Won))

\* The printed weights use the whole power, unless a successful choice shares its label
\* with another, or one of the files had been rewritten so that the label's first choice
\* is gone or has a gauge that is not listed.
WholePowerUsed ==
    LET Found(label) == \E k \in DOMAIN source.choices :
                            /\ source.choices[k].label = label /\ source.choices[k].address \in Range(source.gauges)
                            /\ \A j \in 1..(k - 1) : source.choices[j].label # label
    IN  votes # <<>> =>
        \/ Total([i \in 1..Len(votes) |-> votes[i].voteWeight]) = totalVotes
        \/ \E i \in Range(Successful) :
               \/ ~Found(proposal.choices[i])
               \/ \E j \in DOMAIN proposal.choices \ {i} : proposal.choices[j] = proposal.choices[i]
=============================================================================
