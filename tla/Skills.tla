-------------------------------- MODULE Skills --------------------------------
(***************************************************************************)
(* The skills of a tenant and who has them: creation and renaming under a  *)
(* check of the name that ignores case, beside a unique constraint that    *)
(* does not; assignment, levels and removal; and the technicians that are  *)
(* recommended for a skill.                                                *)
(***************************************************************************)
EXTENDS Handlers, Naturals, FiniteSets

CONSTANTS
  Technicians,
  Names,       \* the ways the names of skills are written
  SameName,    \* SameName[n]: the names equal to n, the case of letters ignored
  Absent,      \* no row, or a field that the body does not have
  MaxSkills,   \* bound: Skill rows ever inserted
  Levels       \* ExperienceLevel, from 1

VARIABLES
  skills,      \* the Skill row of each id
  level,       \* the TechnicianSkill row of a technician and a skill, 0 for none
  techActive,  \* Technician.isActive
  granted      \* history: who was given a skill and not stripped of it since

rowVars == <<skills, level, techActive, granted>>
vars == <<skills, level, techActive, granted, req, orderly>>

Ids == 1..MaxSkills

Skill == [name : Names, isActive : BOOLEAN]

Existing == {i \in Ids : skills[i] # Absent}

\* No row has the very same name: the unique constraint.
NameFree(n, except) == \A i \in Existing \ except : skills[i].name # n

\* No row has the same name, the case of letters ignored: the handlers' check.
NameUnlike(n, except) == \A i \in Existing \ except : skills[i].name \notin SameName[n]

InFlight ==
  [op : {"createSkill", "updateSkill", "assignSkill", "updateTechnicianSkill",
         "removeSkill"},
   step : {"create", "readConflict", "update", "readExisting", "delete"},
   id : Ids \cup {0}, name : Names \cup {Absent}, isActive : BOOLEAN \cup {Absent},
   tech : Technicians \cup {Absent}, level : Levels \cup {0}]

\* A request that creates or changes a skill, or the skill of a technician.
StartSkill(r, op, step, i, n, on) ==
  /\ Begin(r, [op |-> op, step |-> step, id |-> i, name |-> n, isActive |-> on,
               tech |-> Absent, level |-> 0])
  /\ UNCHANGED rowVars

StartAssignment(r, op, step, i, e, l) ==
  /\ Begin(r, [op |-> op, step |-> step, id |-> i, name |-> Absent,
               isActive |-> TRUE, tech |-> e, level |-> l])
  /\ UNCHANGED rowVars

-----------------------------------------------------------------------------
(* Skills *)

CreateSkill(r, n) ==
  /\ NameUnlike(n, {})
  /\ StartSkill(r, "createSkill", "create", 0, n, TRUE)

CreateSkillCommit(r) ==
  LET n == req[r].name IN
  /\ At(r, "createSkill", "create")
  /\ \/ /\ NameFree(n, {})
        /\ \E i \in Ids :
             /\ Existing = 1..(i - 1)
             /\ skills' = [skills EXCEPT ![i] = [name |-> n, isActive |-> TRUE]]
     \/ ~NameFree(n, {}) /\ UNCHANGED skills
  /\ Finish(r)
  /\ UNCHANGED <<level, techActive, granted>>

\* A name that is not the one just read is checked first.
UpdateSkill(r, i, n, on) ==
  /\ i \in Existing
  /\ StartSkill(r, "updateSkill",
                IF n \notin {Absent, skills[i].name} THEN "readConflict" ELSE "update",
                i, n, on)

UpdateSkillReadConflict(r) ==
  /\ At(r, "updateSkill", "readConflict")
  /\ ContinueIf(r, NameUnlike(req[r].name, {req[r].id}), "update")
  /\ UNCHANGED rowVars

Given(value, old) == IF value = Absent THEN old ELSE value

\* An update that writes the fields that the body does not have, too.
UpdateSkillWholeBody(r) ==
  LET q == req[r] IN
  /\ At(r, "updateSkill", "update")
  /\ skills' = [skills EXCEPT ![q.id] = [name |-> q.name, isActive |-> q.isActive]]
  /\ Finish(r)
  /\ UNCHANGED <<level, techActive, granted>>

UpdateSkillCommit(r) ==
  LET q == req[r] IN
  /\ At(r, "updateSkill", "update")
  /\ \/ /\ NameFree(q.name, {q.id})
        /\ skills' = [skills EXCEPT ![q.id] =
             [name |-> Given(q.name, @.name), isActive |-> Given(q.isActive, @.isActive)]]
     \/ ~NameFree(q.name, {q.id}) /\ UNCHANGED skills
  /\ Finish(r)
  /\ UNCHANGED <<level, techActive, granted>>

-----------------------------------------------------------------------------
(* Skills of technicians *)

\* The technician is looked up whether active or not.
AssignSkill(r, e, i, l) ==
  /\ i \in Existing
  /\ skills[i].isActive
  /\ StartAssignment(r, "assignSkill", "readExisting", i, e, l)

AssignSkillReadExisting(r) ==
  /\ At(r, "assignSkill", "readExisting")
  /\ ContinueIf(r, level[<<req[r].tech, req[r].id>>] = 0, "create")
  /\ UNCHANGED rowVars

\* (technicianId, skillId) is unique.
AssignSkillCommit(r) ==
  LET q == req[r] IN
  /\ At(r, "assignSkill", "create")
  /\ \/ /\ level[<<q.tech, q.id>>] = 0
        /\ level' = [level EXCEPT ![<<q.tech, q.id>>] = q.level]
        /\ granted' = granted \cup {<<q.tech, q.id>>}
     \/ level[<<q.tech, q.id>>] # 0 /\ UNCHANGED <<level, granted>>
  /\ Finish(r)
  /\ UNCHANGED <<skills, techActive>>

UpdateTechnicianSkill(r, e, i, l) ==
  /\ level[<<e, i>>] # 0
  /\ StartAssignment(r, "updateTechnicianSkill", "update", i, e, l)

\* updateTechnicianSkill that writes a row where there is none.
UpsertTechnicianSkill(r) ==
  LET q == req[r] IN
  /\ At(r, "updateTechnicianSkill", "update")
  /\ level' = [level EXCEPT ![<<q.tech, q.id>>] = q.level]
  /\ Finish(r)
  /\ UNCHANGED <<skills, techActive, granted>>

\* The update fails if the row was removed.
UpdateTechnicianSkillCommit(r) ==
  LET q == req[r] IN
  /\ At(r, "updateTechnicianSkill", "update")
  /\ level' = [level EXCEPT ![<<q.tech, q.id>>] = IF @ = 0 THEN 0 ELSE q.level]
  /\ Finish(r)
  /\ UNCHANGED <<skills, techActive, granted>>

RemoveSkill(r, e, i) ==
  /\ level[<<e, i>>] # 0
  /\ StartAssignment(r, "removeSkill", "delete", i, e, 0)

RemoveSkillCommit(r) ==
  LET q == req[r] IN
  /\ At(r, "removeSkill", "delete")
  /\ level' = [level EXCEPT ![<<q.tech, q.id>>] = 0]
  /\ granted' = granted \ {<<q.tech, q.id>>}
  /\ Finish(r)
  /\ UNCHANGED <<skills, techActive>>

\* updateTechnician and deleteTechnician, as far as recommendations see them.
SetTechnicianActive(r, e) ==
  /\ InOneStep(r)
  /\ techActive' = [techActive EXCEPT ![e] = ~@]
  /\ UNCHANGED <<skills, level, granted>>

-----------------------------------------------------------------------------
(* The service *)

Fail(r) == Abandon(r) /\ UNCHANGED rowVars

Init ==
  /\ skills = [i \in Ids |-> Absent]
  /\ level = [p \in Technicians \X Ids |-> 0]
  /\ techActive = [e \in Technicians |-> TRUE]
  /\ granted = {}
  /\ NoRequests
  /\ orderly = TRUE

Call(r) ==
  \/ \E n \in Names : CreateSkill(r, n)
  \/ \E i \in Ids, n \in Names \cup {Absent}, on \in BOOLEAN \cup {Absent} :
       UpdateSkill(r, i, n, on)
  \/ \E e \in Technicians, i \in Ids :
       \/ \E l \in Levels : AssignSkill(r, e, i, l) \/ UpdateTechnicianSkill(r, e, i, l)
       \/ RemoveSkill(r, e, i)
  \/ \E e \in Technicians : SetTechnicianActive(r, e)

Step(r) ==
  \/ CreateSkillCommit(r)
  \/ UpdateSkillReadConflict(r)
  \/ UpdateSkillCommit(r)
  \/ AssignSkillReadExisting(r)
  \/ AssignSkillCommit(r)
  \/ UpdateTechnicianSkillCommit(r)
  \/ RemoveSkillCommit(r)

Next == \E r \in Requests : Call(r) \/ Step(r) \/ Fail(r)

Spec == Init /\ [][Next]_vars

-----------------------------------------------------------------------------
(* What is shown *)

\* listSkills, all of them or by isActive.
ListSkills(on) == {i \in Existing : skills[i].isActive \in on}

\* getTechnicianSkills.
SkillsOf(e) == {i \in Ids : level[<<e, i>>] # 0}

\* getRecommendedTechnicians: whether the skill itself is active is not asked.
Recommended(i) == {e \in Technicians : techActive[e] /\ level[<<e, i>>] # 0}

-----------------------------------------------------------------------------
(* Properties *)

\* The rows and the requests in flight have their types.
TypeOK ==
  /\ skills \in [Ids -> Skill \cup {Absent}]
  /\ level \in [Technicians \X Ids -> Levels \cup {0}]
  /\ techActive \in [Technicians -> BOOLEAN]
  /\ granted \subseteq Technicians \X Ids
  /\ req \in [Requests -> InFlight \cup {Idle}]
  /\ orderly \in BOOLEAN

\* However requests interleave, no name is listed twice, and just the active
\* technicians who were given a skill and not stripped of it are recommended for
\* it: a change of level never brings a removed skill back.  While requests come
\* one at a time, names differ in more than the case of letters (createSkill,
\* updateSkill, updateTechnicianSkill, removeSkill).
SkillsSound ==
  /\ \A i, k \in ListSkills(BOOLEAN) :
       i # k =>
         /\ skills[i].name # skills[k].name
         /\ orderly => skills[i].name \notin SameName[skills[k].name]
  /\ \A i \in Ids : Recommended(i) = {e \in Technicians : techActive[e] /\ <<e, i>> \in granted}
  /\ \A e \in Technicians : SkillsOf(e) \subseteq Existing
=============================================================================
