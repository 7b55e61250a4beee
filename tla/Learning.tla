------------------------------ MODULE Learning ------------------------------
(***************************************************************************)
(* What the processes learn from the queries they run, and the files that  *)
(* keep it: the coordinator's epsilon-greedy bandit (adaptive/bandit.cpp,  *)
(* cmd/coordinator/main.cpp, run_distributed_query) and the CLI's          *)
(* calibration of cost to milliseconds (adaptive/calibration.cpp,          *)
(* run_explain_analyze of cmd/cli/main.cpp).                               *)
(*                                                                         *)
(* Both follow one scheme: the model is loaded when the process starts, is *)
(* changed by a query, and is saved after it by truncating the file and    *)
(* writing it again.  A process may crash at any point, several processes  *)
(* of a program share its file, and a write may come out short: the stream *)
(* is not looked at after the write.  What the text of a model is, and     *)
(* what a text is read as, are parameters (LearningText gives them).       *)
(* Averages are exact fractions <<numerator, denominator>>; the rounding   *)
(* of doubles is left out.                                                 *)
(***************************************************************************)
EXTENDS Integers, Sequences, FiniteSetsExt

CONSTANTS
    Coordinators,   \* coordinator processes, sharing the bandit's file
    CLIs,           \* CLI processes, sharing the calibration's file
    Contexts,       \* the bandit's contexts: pairs of tables that are joined
    Strategies,     \* values of SQLOPT_FORCE_STRATEGY: <<>> unset, or <<an arm>>
    Rewards,        \* rewards of a query: latencies, negated
    Runs,           \* EXPLAIN ANALYZE runs: per node its kind, cost and time
    Cuts,           \* by how many elements of the text a short write may fall short
    MaxQueries,     \* bounds: queries, crashes and exits, short writes
    MaxCrashes,
    MaxShort,
    Text(_, _),     \* the text that a program writes for a model
    Loads(_, _)     \* the model that a program makes of a text

ASSUME LearningAssumption ==
    /\ Coordinators \intersect CLIs = {}
    /\ Rewards \subseteq Int /\ Cuts \subseteq Nat \ {0}
    /\ Runs \subseteq Seq(STRING \X Int \X Int)
    /\ MaxQueries \in Nat /\ MaxCrashes \in Nat /\ MaxShort \in Nat

Processes == Coordinators \union CLIs
Arms      == <<"broadcast", "shuffle">>
ArmSet    == {Arms[i] : i \in DOMAIN Arms}
kMinSamples == 3

VARIABLES
    pc,       \* per process: "down", "idle", "open" (about to save), "write"
    model,    \* per process: the bandit's stats_, or the calibration's fits_
    seen,     \* per process: the observations that its model stands for
    forced,   \* per process: SQLOPT_FORCE_STRATEGY, at most one arm
    choice,   \* per process: the arm just exploited and what was known then
    file,     \* per program: the text of its file (a missing file is empty)
    kept,     \* per program: the observations of the model that the file holds
    queries, crashes, shorts

vars == <<pc, model, seen, forced, choice, file, kept, queries, crashes, shorts>>

\* operator[] of a map, followed by an assignment.
Assigned(map, key, val) == [k \in DOMAIN map \union {key} |-> IF k = key THEN val ELSE map[k]]

ProgramOf(p) == IF p \in Coordinators THEN "bandit" ELSE "calibration"

---------------------------------------------------------------------------
(* The bandit.  stats_ maps a context to its arms that have an entry.      *)

NewArm == [count |-> 0, average_reward |-> <<0, 1>>]

Greater(x, y) == x[1] * y[2] > y[1] * x[2]

\* Mutant: an arm without observations counts with its initial average of 0.
BestUntried(stats, c) ==
    LET Of(i) == IF c \in DOMAIN stats /\ Arms[i] \in DOMAIN stats[c] THEN stats[c][Arms[i]] ELSE NewArm
    IN  {i \in DOMAIN Arms : /\ c \in DOMAIN stats
                             /\ \A j \in DOMAIN Arms :
                                  ~Greater(Of(j).average_reward, Of(i).average_reward)}

\* choose, exploiting: the first arm with the greatest average among those
\* with an observation; none if there is no observation.
Best(stats, c) ==
    {i \in DOMAIN Arms :
       /\ c \in DOMAIN stats /\ Arms[i] \in DOMAIN stats[c] /\ stats[c][Arms[i]].count > 0
       /\ \A j \in DOMAIN Arms :
            (Arms[j] \in DOMAIN stats[c] /\ stats[c][Arms[j]].count > 0) =>
              /\ ~Greater(stats[c][Arms[j]].average_reward, stats[c][Arms[i]].average_reward)
              /\ j < i => Greater(stats[c][Arms[i]].average_reward, stats[c][Arms[j]].average_reward)}

\* choose makes an entry for its context.
Touched(stats, c) == IF c \in DOMAIN stats THEN stats ELSE Assigned(stats, c, <<>>)

\* Mutant: the new reward weighs as much as all the earlier ones.
update_halves(stats, c, arm, reward) ==
    LET arms == Touched(stats, c)[c]
        s    == IF arm \in DOMAIN arms THEN arms[arm] ELSE NewArm
        avg  == s.average_reward
        new  == [count |-> s.count + 1,
                 average_reward |-> IF s.count = 0 THEN <<reward, 1>>
                                    ELSE <<avg[1] + reward * avg[2], avg[2] * 2>>]
    IN  Assigned(stats, c, Assigned(arms, arm, new))

\* Mutant: the entry is looked up with context and arm swapped.
update_swapped(stats, c, arm, reward) ==
    LET arms == Touched(stats, arm)[arm]
        s    == IF c \in DOMAIN arms THEN arms[c] ELSE NewArm
        avg  == s.average_reward
        new  == [count |-> s.count + 1,
                 average_reward |-> << avg[1] * s.count + reward * avg[2], avg[2] * (s.count + 1) >>]
    IN  Assigned(stats, arm, Assigned(arms, c, new))

\* update: the running average of the arm.
update(stats, c, arm, reward) ==
    LET arms == Touched(stats, c)[c]
        s    == IF arm \in DOMAIN arms THEN arms[arm] ELSE NewArm
        avg  == s.average_reward
        new  == [count |-> s.count + 1,
                 average_reward |-> << avg[1] * s.count + reward * avg[2], avg[2] * (s.count + 1) >>]
    IN  Assigned(stats, c, Assigned(arms, arm, new))

---------------------------------------------------------------------------
(* The calibration.  fits_ maps an operator kind to its running sums.      *)

NewFit == [n |-> 0, sum_x |-> 0, sum_y |-> 0, sum_xx |-> 0, sum_xy |-> 0]

record_observation(fits, kind, x, y) ==
    LET f == IF kind \in DOMAIN fits THEN fits[kind] ELSE NewFit
    IN  Assigned(fits, kind,
                 [n |-> f.n + 1, sum_x |-> f.sum_x + x, sum_y |-> f.sum_y + y,
                  sum_xx |-> f.sum_xx + x * x, sum_xy |-> f.sum_xy + x * y])

\* record_plan_observations: one observation per node, in the order of walk.
record_plan_observations(fits, run) ==
    LET upTo[i \in 0 .. Len(run)] ==
          IF i = 0 THEN fits ELSE record_observation(upTo[i - 1], run[i][1], run[i][2], run[i][3])
    IN  upTo[Len(run)]

\* Mutant: the slope of a line through the origin.
scale_origin(f) == IF f.n < kMinSamples THEN <<1, 1>> ELSE <<f.sum_xy, f.sum_xx>>

\* Fit::scale and Fit::bias.
scale(f) ==
    LET denom == f.n * f.sum_xx - f.sum_x * f.sum_x
    IN  CASE f.n < kMinSamples -> <<1, 1>>
          [] f.n >= kMinSamples /\ denom = 0 -> <<0, 1>>
          [] OTHER -> <<f.n * f.sum_xy - f.sum_x * f.sum_y, denom>>
bias(f) ==
    LET denom == f.n * f.sum_xx - f.sum_x * f.sum_x
        s     == scale(f)
    IN  CASE f.n < kMinSamples -> <<0, 1>>
          [] f.n >= kMinSamples /\ denom = 0 -> <<f.sum_y, f.n>>
          [] OTHER -> <<f.sum_y * s[2] - s[1] * f.sum_x, f.n * s[2]>>

---------------------------------------------------------------------------
(* The processes.                                                          *)

NoModel == <<>>

Init ==
    /\ pc = [p \in Processes |-> "down"]
    /\ model = [p \in Processes |-> NoModel]
    /\ seen = [p \in Processes |-> <<>>]
    /\ forced = [p \in Processes |-> <<>>]
    /\ choice = [p \in Processes |-> <<>>]
    /\ file = [program \in {"bandit", "calibration"} |-> <<>>]
    /\ kept = [program \in {"bandit", "calibration"} |-> <<>>]
    /\ queries = 0 /\ crashes = 0 /\ shorts = 0

Start(p, env) ==
    /\ pc[p] = "down"
    /\ pc' = [pc EXCEPT ![p] = "idle"]
    /\ model' = [model EXCEPT ![p] = Loads(ProgramOf(p), file[ProgramOf(p)])]
    /\ seen' = [seen EXCEPT ![p] = kept[ProgramOf(p)]]
    /\ forced' = [forced EXCEPT ![p] = env]
    /\ UNCHANGED <<choice, file, kept, queries, crashes, shorts>>

Query(p) ==
    /\ pc[p] = "idle" /\ queries < MaxQueries
    /\ queries' = queries + 1
    /\ UNCHANGED <<forced, file, kept, crashes, shorts>>

\* A distributed join of the tables of context c answered with this reward.
\* When a side may be broadcast the arm is chosen (choose runs even if the
\* strategy is forced), otherwise it is shuffle.  A forced choice is not
\* learned from.  The model is saved after any answer.
RunJoin(p, c, eligible, explore, reward) ==
    LET best   == Best(model[p], c)
        random == explore \/ best = {}
        picks  == CASE ~eligible         -> {"shuffle"}
                    [] eligible /\ random -> ArmSet
                    [] OTHER              -> {Arms[i] : i \in best}
        after  == IF eligible THEN Touched(model[p], c) ELSE model[p]
    IN  \E pick \in picks :
          LET learns == ~eligible \/ forced[p] = <<>>
          IN  /\ Query(p)
              /\ model' = [model EXCEPT ![p] = IF learns THEN update(after, c, pick, reward) ELSE after]
              /\ seen' = [seen EXCEPT ![p] = IF learns THEN Append(@, <<c, pick, reward>>) ELSE @]
              /\ choice' = [choice EXCEPT ![p] = IF eligible /\ ~random /\ learns
                                                    THEN << [context |-> c, arm |-> pick, known |-> seen[p]] >>
                                                    ELSE <<>>]
              /\ pc' = [pc EXCEPT ![p] = "open"]

\* A query that is no two-way join: nothing to learn, but saved as well.
RunOther(p) ==
    /\ Query(p)
    /\ pc' = [pc EXCEPT ![p] = "open"]
    /\ UNCHANGED <<model, seen, choice>>

\* A query that throws after the arm was chosen: nothing is learned or saved.
\* One that throws before that changes nothing.
RunThrows(p, c) ==
    /\ Query(p)
    /\ model' = [model EXCEPT ![p] = Touched(@, c)]
    /\ UNCHANGED <<pc, seen, choice>>

\* EXPLAIN ANALYZE in a CLI.
RunAnalyze(p, run) ==
    /\ Query(p)
    /\ model' = [model EXCEPT ![p] = record_plan_observations(@, run)]
    /\ seen' = [seen EXCEPT ![p] = @ \o run]
    /\ pc' = [pc EXCEPT ![p] = "open"]
    /\ UNCHANGED choice

\* save_bandit and save_calibration: opening the file truncates it ...
OpenFile(p) ==
    /\ pc[p] = "open"
    /\ pc' = [pc EXCEPT ![p] = "write"]
    /\ file' = [file EXCEPT ![ProgramOf(p)] = <<>>]
    /\ kept' = [kept EXCEPT ![ProgramOf(p)] = <<>>]
    /\ choice' = [choice EXCEPT ![p] = <<>>]
    /\ UNCHANGED <<model, seen, forced, queries, crashes, shorts>>

\* ... or fails, which is reported and forgotten.
OpenFails(p) ==
    /\ pc[p] = "open"
    /\ pc' = [pc EXCEPT ![p] = "idle"]
    /\ choice' = [choice EXCEPT ![p] = <<>>]
    /\ UNCHANGED <<model, seen, forced, file, kept, queries, crashes, shorts>>

\* The text is written from the start of the file; what another process
\* wrote since the file was opened stays behind it if that was longer.
WriteFile(p) ==
    LET text == Text(ProgramOf(p), model[p])
        old  == file[ProgramOf(p)]
    IN  /\ pc[p] = "write"
        /\ pc' = [pc EXCEPT ![p] = "idle"]
        /\ file' = [file EXCEPT ![ProgramOf(p)] = text \o SubSeq(old, Len(text) + 1, Len(old))]
        /\ kept' = [kept EXCEPT ![ProgramOf(p)] = seen[p]]
        /\ UNCHANGED <<model, seen, forced, choice, queries, crashes, shorts>>

\* The disk fills up during the write into a file nobody else has written
\* since: a part of the text stays, which holds nothing, and nothing is
\* reported.
WriteShort(p, cut) ==
    /\ pc[p] = "write" /\ shorts < MaxShort /\ file[ProgramOf(p)] = <<>>
    /\ pc' = [pc EXCEPT ![p] = "idle"]
    /\ LET text == Text(ProgramOf(p), model[p])
       IN  file' = [file EXCEPT ![ProgramOf(p)] = SubSeq(text, 1, Len(text) - cut)]
    /\ kept' = [kept EXCEPT ![ProgramOf(p)] = <<>>]
    /\ shorts' = shorts + 1
    /\ UNCHANGED <<model, seen, forced, choice, queries, crashes>>

\* EXIT or a crash, which may come between truncating and writing.
Stop(p) ==
    /\ pc[p] # "down" /\ crashes < MaxCrashes
    /\ pc' = [pc EXCEPT ![p] = "down"]
    /\ model' = [model EXCEPT ![p] = NoModel]
    /\ seen' = [seen EXCEPT ![p] = <<>>]
    /\ forced' = [forced EXCEPT ![p] = <<>>]
    /\ choice' = [choice EXCEPT ![p] = <<>>]
    /\ crashes' = crashes + 1
    /\ UNCHANGED <<file, kept, queries, shorts>>

Next ==
    \/ \E p \in Coordinators, env \in Strategies : Start(p, env)
    \/ \E p \in CLIs : Start(p, <<>>)
    \/ \E p \in Coordinators, c \in Contexts, eligible, explore \in BOOLEAN, reward \in Rewards :
         RunJoin(p, c, eligible, explore, reward)
    \/ \E p \in Coordinators : RunOther(p)
    \/ \E p \in Coordinators, c \in Contexts : RunThrows(p, c)
    \/ \E p \in CLIs, run \in Runs : RunAnalyze(p, run)
    \/ \E p \in Processes : OpenFile(p) \/ OpenFails(p) \/ WriteFile(p) \/ Stop(p)
    \/ \E p \in Processes, cut \in Cuts : WriteShort(p, cut)

Spec == Init /\ [][Next]_vars

---------------------------------------------------------------------------
TypeOK ==
    /\ pc \in [Processes -> {"down", "idle", "open", "write"}]
    /\ \A p \in Coordinators : \A c \in DOMAIN model[p] :
         c \in Contexts /\ \A arm \in DOMAIN model[p][c] : arm \in ArmSet /\ model[p][c][arm].count \in Nat
    /\ \A p \in CLIs : \A kind \in DOMAIN model[p] : DOMAIN model[p][kind] = DOMAIN NewFit
    /\ queries \in 0 .. MaxQueries /\ crashes \in 0 .. MaxCrashes /\ shorts \in 0 .. MaxShort

\* Observations by their positions: those of an arm, those of an operator kind,
\* and the sum of a value of each.
OfArm(obs, c, arm) == {k \in DOMAIN obs : obs[k][1] = c /\ obs[k][2] = arm}
OfKind(obs, kind)  == {k \in DOMAIN obs : obs[k][1] = kind}
Sum(value, S)      == MapThenSumSet(LAMBDA k : value[k], S)
Rewarded(obs)      == [k \in DOMAIN obs |-> obs[k][3]]

\* The bandit's entry of an arm is the number and the mean of the rewards
\* observed for it (bandit.cpp:43-47), since the first query of the line of
\* processes that handed the model on through the file: saving, loading, a
\* crash at any point, a short write and another process's text never leave
\* a model that mixes or repeats observations.
AverageIsMean ==
    \A p \in Coordinators : \A c \in Contexts, arm \in ArmSet :
      LET of  == OfArm(seen[p], c, arm)
          n   == Cardinality(of)
          has == c \in DOMAIN model[p] /\ arm \in DOMAIN model[p][c]
          s   == model[p][c][arm]
      IN  /\ has <=> n > 0
          /\ has => /\ s.count = n
                    /\ s.average_reward[1] * n = Sum(Rewarded(seen[p]), of) * s.average_reward[2]

\* An exploited arm has the best mean reward of what had been observed when
\* it was chosen (bandit.cpp:20-36), and an arm without observations loses.
ExploitsBestMean ==
    \A p \in Coordinators : choice[p] # <<>> =>
      LET ch     == choice[p][1]
          N(arm) == Cardinality(OfArm(ch.known, ch.context, arm))
          T(arm) == Sum(Rewarded(ch.known), OfArm(ch.known, ch.context, arm))
      IN  /\ N(ch.arm) > 0
          /\ \A arm \in ArmSet : T(arm) * N(ch.arm) <= T(ch.arm) * N(arm)

\* The error of the line of a fit for each observation, times the denominators.
Errors(f, obs) ==
    LET s == scale(f)
        b == bias(f)
    IN  [k \in DOMAIN obs |->
           obs[k][3] * s[2] * b[2] - s[1] * obs[k][2] * b[2] - b[1] * s[2]]

\* The calibrated line is the least-squares fit of every observation of the
\* kind (calibration.cpp:56-81), restarts and torn files included: its errors
\* add up to zero, and so do its errors weighted by the predicted cost.  With
\* fewer than kMinSamples observations the estimate is the cost itself.
CalibrationFitsAll ==
    \A p \in CLIs : \A kind \in DOMAIN model[p] :
      LET f   == model[p][kind]
          of  == OfKind(seen[p], kind)
          err == Errors(f, seen[p])
      IN  IF Cardinality(of) < kMinSamples THEN scale(f) = <<1, 1>> /\ bias(f) = <<0, 1>>
          ELSE /\ Sum(err, of) = 0
               /\ Sum([k \in DOMAIN err |-> seen[p][k][2] * err[k]], of) = 0

\* A model that was saved and loaded: contexts without arms get no entry.
Restored(program, m) ==
    IF program = "bandit" THEN [c \in {k \in DOMAIN m : DOMAIN m[k] # {}} |-> m[c]] ELSE m

\* The text of a model is read as that model with any of these rests behind
\* it, which a longer text of another process may leave, and without as many
\* elements as any of these cuts, which a short write may leave, as a new one
\* (bandit.cpp:49-94, calibration.cpp:94-138, parse_json at json.cpp:275).
ReadsBack(program, m, rests, cuts) ==
    LET text == Text(program, m)
    IN  /\ \A rest \in rests : Loads(program, text \o rest) = Restored(program, m)
        /\ \A cut \in cuts : Loads(program, SubSeq(text, 1, Len(text) - cut)) = NoModel

\* Once a save has put observations into the file, there are some in it
\* whenever no process is saving.  Opening truncates the file before the new
\* text is written (bandit.cpp:91, calibration.cpp:135) and the last of two
\* writers wins, so this does not hold: a crash in between, or the save of a
\* process that has learned nothing, loses them.
LearningSurvives ==
    \A program \in {"bandit", "calibration"} :
      [](kept[program] # <<>> =>
           []((\A p \in Processes : pc[p] # "write") => kept[program] # <<>>))
=============================================================================
