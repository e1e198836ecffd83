------------------------------- MODULE JobFiles -------------------------------
(***************************************************************************)
(* The lists of jobs the dispatcher runs: the generator that makes a list  *)
(* out of requests (generate_jobs.py) and the loader that merges and       *)
(* checks lists (run_jobs.py).  A name, or the name of a skill, is the     *)
(* sequence of its parts.                                                  *)
(***************************************************************************)
EXTENDS Naturals, Sequences, TLC

LOCAL INSTANCE SequencesExt

CONSTANTS
  SlugLength,     \* parts a slug keeps of the name of a skill
  DefaultRetries, \* retries of a request that says nothing
  KnownSkills     \* skills found in the skill directories

ASSUME JobFilesAssumption == SlugLength \in Nat \ {0} /\ DefaultRetries \in Nat

Unnamed == <<>>
NoSkill == <<>>   \* the job is a prompt

Slugify(skill) == SubSeq(skill, 1, IF Len(skill) < SlugLength THEN Len(skill) ELSE SlugLength)

\* The name of a job nobody named; positions count from 0.
NameAt(position) == <<"job", ToString(position - 1)>>

\* A request has a name or Unnamed, a skill or NoSkill, keepOpen, and in the
\* set retries its own number of retries, if any.
BuildJob(request, position) ==
  [name |-> IF request.name # Unnamed THEN request.name
            ELSE IF request.skill # NoSkill THEN Slugify(request.skill)
            ELSE NameAt(position),
   skill |-> request.skill,
   keepOpen |-> request.keepOpen,
   retries |-> IF request.retries = {} THEN DefaultRetries ELSE CHOOSE n \in request.retries : TRUE]

\* Mutant: jobs keep the names of their requests.
DedupedNot(name, seen) == name

\* A name already seen is given the first counter that makes it new.
Deduped(name, seen) ==
  LET numbered(n) == Append(name, ToString(n))
      free == {n \in 2..(Len(seen) + 2) : ~Contains(seen, numbered(n))}
  IN  IF ~Contains(seen, name) THEN name
      ELSE numbered(CHOOSE n \in free : \A m \in free : n <= m)

GenerateJobs(requests) ==
  LET jobs[n \in 0..Len(requests)] ==
        IF n = 0 THEN <<>>
        ELSE LET seen == [k \in 1..(n - 1) |-> jobs[n - 1][k].name]
                 job == BuildJob(requests[n], n)
             IN  Append(jobs[n - 1], [job EXCEPT !.name = Deduped(@, seen)])
  IN  jobs[Len(requests)]

\* The files of several workflows, one after the other; a job without a name
\* is named after its place in the merged list.
LoadJobs(files) ==
  LET merged == FlattenSeq(files)
  IN  [n \in 1..Len(merged) |->
         IF merged[n].name # Unnamed THEN merged[n] ELSE [merged[n] EXCEPT !.name = NameAt(n)]]

\* A directory is known by its own name, however its dashes are doubled, and by
\* the last part of it.
IsDiscovered(skill) ==
  \E known \in KnownSkills : skill \in {known, <<Last(known)>>}

\* A list is run as a whole or not at all.
ValidateSkillsExist(jobs) ==
  \A n \in 1..Len(jobs) : jobs[n].skill # NoSkill => IsDiscovered(jobs[n].skill)
=============================================================================
