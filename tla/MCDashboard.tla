----------------------------- MODULE MCDashboard -----------------------------
(* Values of the constants for TLC.                                         *)
EXTENDS Dashboard

\* The empty text matches every name, the other one name only.
MCHits == [text \in Filters |-> IF text = NoFilter THEN Labels ELSE {"cpu"}]

\* An empty answer, two items of one name, one item of each of two names.
MCAnswers == {[labels |-> {}, size |-> 0], [labels |-> {"cpu"}, size |-> 2],
              [labels |-> {"cpu", "mem"}, size |-> 2]}

\* In one chart, the name that the filter hides.
MCClickable == {[kind |-> "computed", label |-> "mem"]}
==============================================================================
