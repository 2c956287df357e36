------------------------ MODULE ValidatorSelection ------------------------
(***************************************************************************)
(* How the proof-of-stake module chooses the validators of a round and     *)
(* their BFT weights from a snapshot of stake weights                      *)
(* (framework/src/modules/pos/module.ts and utils.ts).  A snapshot and a   *)
(* list of validators are sequences of [address, weight]; a snapshot is in *)
(* descending order.  The random seeds leave every choice of a standby     *)
(* validator and every order of the list open.                             *)
(***************************************************************************)
EXTENDS Integers, Sequences, SequencesExt, FiniteSets, FiniteSetsExt

CONSTANTS
    NumActive, NumStandby,  \* numberActiveValidators, numberStandbyValidators
    InitRounds,             \* rounds of the initial validators
    MaxCap, WeightCap,      \* MAX_CAP and maxBFTWeightCap
    Percent,                \* 100, the square root of MAX_CAP
    ScaleFactor             \* weightScaleFactor

ASSUME SelectionAssumption ==
    /\ NumActive \in Nat \ {0} /\ NumStandby \in 0 .. 2 /\ InitRounds \in Nat
    /\ Percent \in Nat \ {0} /\ MaxCap = Percent * Percent /\ WeightCap \in 1 .. MaxCap
    /\ ScaleFactor \in Nat \ {0}

RoundLength == NumActive + NumStandby

Ceiling(x, y) == (x + y - 1) \div y

TotalWeight(s) == SumFunction([i \in DOMAIN s |-> s[i].weight])

Addresses(s) == {s[i].address : i \in DOMAIN s}

Validator(a, w) == [address |-> a, weight |-> w]

Scaled(s) == [i \in DOMAIN s |-> Validator(s[i].address, Ceiling(s[i].weight, ScaleFactor))]

Take(s, n) == SubSeq(s, 1, Min({n, Len(s)}))

\* The elements of S in the order R, a strict total order on them.
Sorted(S, R) ==
    CHOOSE o \in SetToSeqs(S) : \A i, j \in DOMAIN o : i < j => <<o[i], o[j]>> \in R

\* What is left of the list l without the addresses in taken.
Without(l, taken) ==
    LET left  == {i \in DOMAIN l : l[i] \notin taken}
        order == Sorted(left, {p \in left \X left : p[1] < p[2]})
    IN  [k \in DOMAIN order |-> l[order[k]]]

\* At most this many validators can reach the cap.
MaxCappedElements == Ceiling(MaxCap, WeightCap) - 1

\* The weight of each of the first i validators if these are capped.
CappedWeight(s, i) ==
    ((WeightCap * TotalWeight(SubSeq(s, i + 1, Len(s)))) \div Percent)
        \div (Percent - (WeightCap * i) \div Percent)

\* The largest number of validators for which the cap is below the weight of the
\* last of them is capped.
capWeightIfNeeded(s) ==
    LET binding == {i \in 1 .. MaxCappedElements : CappedWeight(s, i) < s[i].weight}
    IN  IF Len(s) <= MaxCappedElements \/ binding = {} THEN s
        ELSE [i \in DOMAIN s |->
                 IF i <= Max(binding)
                 THEN Validator(s[i].address, CappedWeight(s, Max(binding))) ELSE s[i]]

\* After the first rounds one elected validator more replaces an initial one
\* in every round; an initial validator gets the average weight.
getActiveValidators(snapshot, round, initValidators) ==
    LET numInit    == InitRounds + NumActive - round
        elected    == Scaled(Take(snapshot, NumActive - numInit))
        average    == TotalWeight(elected) \div Len(elected)
        others     == Without(initValidators, Addresses(elected))
        initial(l, w) == [i \in DOMAIN l |-> Validator(l[i], w)]
    IN  IF round >= InitRounds + NumActive
        THEN capWeightIfNeeded(Scaled(Take(snapshot, NumActive)))
        ELSE IF elected = <<>> THEN initial(Take(initValidators, numInit), 1)
        ELSE capWeightIfNeeded(elected \o initial(Take(others, numInit), average))

\* The choices of standby validators, which get no weight.
selectStandbyValidators(candidates) ==
    {{Validator(a, 0) : a \in chosen} :
        chosen \in kSubset(Min({NumStandby, Cardinality(candidates)}), candidates)}

\* The lists of validators that a round may get: <<>> if there is none to choose.
NextValidators(snapshot, round, initValidators) ==
    LET active  == ToSet(getActiveValidators(snapshot, round, initValidators))
        waiting == Addresses(snapshot) \ {v.address : v \in active}
        standby == IF round >= InitRounds + NumActive THEN selectStandbyValidators(waiting)
                                                      ELSE {{}}
    IN  UNION {SetToSeqs(active \cup s) : s \in standby}

Threshold(list) == (2 * TotalWeight(list)) \div 3 + 1
============================================================================
