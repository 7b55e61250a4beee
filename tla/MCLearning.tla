----------------------------- MODULE MCLearning -----------------------------
(***************************************************************************)
(* Rewards and EXPLAIN ANALYZE runs for Learning.                          *)
(***************************************************************************)
EXTENDS LearningText

Symmetry == Permutations(Coordinators)
MCStrategies == {<<>>, <<"shuffle">>}
MCRewards == {-1, -3}
MCRuns == {<< <<"SeqScan", 1, 2>> >>, << <<"Filter", 3, 2>>, <<"SeqScan", 2, 1>> >>}

---------------------------------------------------------------------------
(* Models whose texts are written and read again before a run, whatever    *)
(* the run reaches: LearningProofs rests on what is evaluated here.        *)

MapsOf(keys, vals) == UNION {[S -> vals] : S \in SUBSET keys}
MCBandits == MapsOf({"orders:users", "items:orders"},
               MapsOf(ArmSet, {NewArm, [count |-> 3, average_reward |-> <<-5, 3>>]}))
MCFits == MapsOf({"SeqScan", "Filter"},
            {NewFit, [n |-> 2, sum_x |-> 3, sum_y |-> -1, sum_xx |-> 5, sum_xy |-> -2]})
ModelsOf(program) == IF program = "bandit" THEN MCBandits ELSE MCFits
Rests(program) == {<<>>} \union {Tail(Text(program, m)) : m \in ModelsOf(program)}

ASSUME TextsReadAssumption ==
    \A program \in {"bandit", "calibration"} :
      /\ Loads(program, <<>>) = NoModel
      /\ \A m \in ModelsOf(program) :
           ReadsBack(program, m, Rests(program), 1 .. Len(Text(program, m)))
=============================================================================
