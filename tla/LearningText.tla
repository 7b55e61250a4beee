---------------------------- MODULE LearningText ----------------------------
(***************************************************************************)
(* The texts of the learning files (save_bandit and load_bandit of         *)
(* adaptive/bandit.cpp, save_calibration and load_calibration of           *)
(* adaptive/calibration.cpp), for Learning's parameters Text and Loads.    *)
(***************************************************************************)
EXTENDS Learning, JsonText

Listed(S) == CHOOSE seq \in [1 .. Cardinality(S) -> S] : \A x \in S : \E i \in DOMAIN seq : seq[i] = x

\* An object with an entry per key of a map.
MapToJson(map, ValueToJson(_)) ==
    LET keys == Listed(DOMAIN map)
    IN  make_object([i \in DOMAIN keys |-> << <<keys[i]>>, ValueToJson(map[keys[i]]) >>])

\* The map of the entries of an object whose values Keep selects.
MapFromJson(j, Keep(_), ValueFromJson(_)) ==
    LET entries == IF KindOf(j) = "Object" THEN {e \in {j[2][i] : i \in DOMAIN j[2]} : Keep(e[2])} ELSE {}
    IN  [key \in {e[1][1] : e \in entries} |->
           ValueFromJson((CHOOSE e \in entries : e[1][1] = key)[2])]

\* An object with these numbers, and a number of an object or its default.
NumbersToJson(names, rec) ==
    make_object([i \in DOMAIN names |-> << <<names[i]>>, make_number(rec[names[i]]) >>])
NumberAt(j, name, default) ==
    LET at == Find(j, <<name>>) IN IF at = <<>> THEN default ELSE as_number(at[1], default)

BanditText(stats) ==
    to_json(MapToJson(stats, LAMBDA arms :
      MapToJson(arms, LAMBDA s : NumbersToJson(<<"count", "average_reward">>, s))))

\* load_bandit, from the parsed file.  A context without arms gets no entry.
BanditFromJson(root) ==
    LET all == MapFromJson(root, LAMBDA j : KindOf(j) = "Object", LAMBDA arms :
                 MapFromJson(arms, LAMBDA j : TRUE, LAMBDA s :
                   [count |-> NumberAt(s, "count", 0),
                    average_reward |-> NumberAt(s, "average_reward", <<0, 1>>)]))
    IN  [c \in {k \in DOMAIN all : DOMAIN all[k] # {}} |-> all[c]]

Sums == <<"n", "sum_x", "sum_y", "sum_xx", "sum_xy">>

CalibrationText(fits) == to_json(MapToJson(fits, LAMBDA f : NumbersToJson(Sums, f)))

\* load_calibration, from the parsed file.
CalibrationFromJson(root) ==
    MapFromJson(root, LAMBDA j : TRUE, LAMBDA f : [s \in DOMAIN NewFit |-> NumberAt(f, s, 0)])

ModelText(program, m) == IF program = "bandit" THEN BanditText(m) ELSE CalibrationText(m)

\* A file that does not parse, an empty one included, gives a new model.
ModelLoads(program, text) ==
    LET r == parse_json(text)
    IN  IF ~r.ok THEN NoModel
        ELSE IF program = "bandit" THEN BanditFromJson(r.val) ELSE CalibrationFromJson(r.val)
=============================================================================
