----------------------------- MODULE MCAgentRuns -----------------------------
(* Two issues, and two lists of jobs. *)
EXTENDS AgentRuns

CONSTANTS i1, i2

ByPriority == [i \in Issues |-> IF i = i1 THEN 1 ELSE 2]
Request(name, skill) == [name |-> name, skill |-> skill, keepOpen |-> FALSE, retries |-> {}]

KeptOpen(request) == [request EXCEPT !.keepOpen = TRUE]

\* Two skills with one slug: the generator tells them apart.
OneFile ==
  <<GenerateJobs(<<Request(Unnamed, <<"code", "a">>),
                   KeptOpen(Request(Unnamed, <<"code", "b">>))>>)>>

\* The second file has a job with a name of the first.
TwoWorkflows ==
  <<GenerateJobs(<<Request(<<"a">>, NoSkill), Request(<<"b">>, NoSkill)>>),
    GenerateJobs(<<Request(<<"a">>, NoSkill)>>)>>
Skills == {<<"code", "a">>, <<"code", "b">>}
=============================================================================
