------------------------------- MODULE MCDesk -------------------------------
(* Small instances of the parts of Desk for TLC. *)
EXTENDS Desk, TLC

Hours(from, to) == [from |-> from, to |-> to]

\* Days of four minutes, weeks of three days: one with a gap, one with two intervals, one off.
Week == [week |-> << <<Hours(1, 3)>>, <<Hours(0, 1), Hours(2, 4)>>, <<>> >>, holidays |-> {4}, workdays |-> {2}]

MCCalendars == {Week}
MCTargets   == [low |-> [response |-> 2, resolution |-> 4], none |-> [response |-> 0, resolution |-> 0]]
MCChunks    == <<"chunk-0">>
MCMaxTurns  == [sla |-> 3, routing |-> 2, incidents |-> 3, workflows |-> 2, files |-> 1]

\* The tickets of an incident are alike.
Symmetry == Permutations(Affected)

\* The parts that do not move begin in one way.
MCInit ==
    /\ Init
    /\ part # "sla" => enabled /\ timed.class = "low"
    /\ part # "workflows" => asked.ai = "pending"

MCSpec == MCInit /\ [][Next]_vars

\* Incidents alone, for longer: two runs overlap, and the incident is opened again.
IncidentsSpec   == MCInit /\ part = "incidents" /\ [][Next]_vars
MCIncidentTurns == [MCMaxTurns EXCEPT !["incidents"] = 5]
=============================================================================
