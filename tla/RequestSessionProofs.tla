------------------------- MODULE RequestSessionProofs -------------------------
(***************************************************************************)
(* Type correctness of RequestSession, and: where every operation leaves   *)
(* the files to the callbacks of its session, every committed attachment   *)
(* has its file at every moment, whatever fails and whatever interleaves.  *)
(***************************************************************************)
EXTENDS RequestSession, TLAPS

LEMMA SessionType ==
  ASSUME NEW o \in AllOps \cup {"none"}, NEW p \in Parents \cup {None},
         NEW f \in Files \cup {None}, NEW n \in 0..MaxUploads
  PROVE  Session(o, p, f, n) \in Sessions
BY DEF Session, Sessions

LEMMA RolledBackType ==
  ASSUME NEW s \in Sessions
  PROVE  /\ RolledBack(s) \in Sessions
         /\ [RolledBack(s) EXCEPT !.answer = "conflict"] \in Sessions
         /\ [RolledBack(s) EXCEPT !.broken = TRUE] \in Sessions
         /\ [RolledBack(s) EXCEPT !.answer = "conflict", !.broken = TRUE] \in Sessions
BY DEF RolledBack, Sessions

LEMMA NoSessionType == NoSession \in Sessions
<1>1. 0 \in 0..MaxUploads
  BY SessionAssumption
<1> QED BY <1>1, SessionType DEF NoSession

\* A step that only changes one session keeps the types when the new session
\* has the type of a session and fits its phase.
LEMMA SessionStep ==
  ASSUME TypeOK, Phases, NEW r \in Requests, NEW s \in Sessions, NEW where \in PCs,
         InPhase(s, where),
         ses' = [ses EXCEPT ![r] = s], pc' = [pc EXCEPT ![r] = where],
         parents' \subseteq Parents, rows' \in [Files -> Parents \cup {None}],
         disk' \subseteq Files, jobs' \subseteq Parents
  PROVE  TypeOK' /\ Phases'
<1>1. TypeOK'
  BY DEF TypeOK
<1>2. ASSUME NEW q \in Requests PROVE InPhase(ses'[q], pc'[q])
  <2>1. CASE q = r
    BY <2>1 DEF TypeOK
  <2>2. CASE q # r
    <3>1. ses'[q] = ses[q] /\ pc'[q] = pc[q]
      BY <2>2 DEF TypeOK
    <3> QED BY <3>1 DEF Phases
  <2> QED BY <2>1, <2>2
<1> QED BY <1>1, <1>2 DEF Phases

LEMMA BeginStep ==
  ASSUME TypeOK, Phases, NEW r \in Requests, NEW where \in PCs, NEW s \in Sessions,
         InPhase(s, where), Begin(r, where, s), jobs' \subseteq Parents
  PROVE  TypeOK' /\ Phases'
<1>1. /\ ses' = [ses EXCEPT ![r] = s] /\ pc' = [pc EXCEPT ![r] = where]
      /\ UNCHANGED <<parents, rows, disk>>
  BY DEF Begin
<1>2. /\ parents' \subseteq Parents /\ rows' \in [Files -> Parents \cup {None}]
      /\ disk' \subseteq Files
  BY <1>1 DEF TypeOK
<1> QED BY <1>1, <1>2, SessionStep

LEMMA EndStep ==
  ASSUME TypeOK, Phases, NEW r \in Requests, End(r),
         UNCHANGED <<parents, rows, jobs>>, disk' \subseteq disk
  PROVE  TypeOK' /\ Phases'
<1>1. ses' = [ses EXCEPT ![r] = NoSession] /\ pc' = [pc EXCEPT ![r] = "idle"]
  BY DEF End
<1>2. "idle" \in PCs /\ InPhase(NoSession, "idle")
  BY DEF PCs, InPhase
<1>3. /\ parents' \subseteq Parents /\ rows' \in [Files -> Parents \cup {None}]
      /\ disk' \subseteq Files /\ jobs' \subseteq Parents
  BY DEF TypeOK
<1> QED BY <1>1, <1>2, <1>3, NoSessionType, SessionStep

-----------------------------------------------------------------------------
(* Types.                                                                  *)

LEMMA TypeBegin ==
  ASSUME TypeOK, Phases, NEW r \in Requests,
         \/ BeginUpload(r) \/ BeginCreate(r) \/ BeginDelete(r)
         \/ BeginDeleteFile(r) \/ BeginContract(r) \/ BeginLogo(r)
  PROVE  TypeOK' /\ Phases'
<1>1. parents \subseteq Parents /\ jobs \subseteq Parents
  BY DEF TypeOK
<1>2. {"write", "create", "list", "drop"} \subseteq PCs
  BY DEF PCs
<1>3. CASE BeginUpload(r)
  <2>1. PICK p \in parents \ {Company}, n \in 1..MaxUploads :
          Begin(r, "write", Session("upload", p, None, n))
    BY <1>3 DEF BeginUpload
  <2>2. Session("upload", p, None, n) \in Sessions
    BY <1>1, SessionType, SessionAssumption DEF AllOps
  <2>3. InPhase(Session("upload", p, None, n), "write")
    BY <1>1, SessionAssumption DEF InPhase, Session
  <2>4. jobs' = jobs
    BY <1>3 DEF BeginUpload
  <2> QED BY <1>1, <1>2, <2>1, <2>2, <2>3, <2>4, BeginStep
<1>4. CASE BeginCreate(r)
  <2>1. PICK o \in Creators, p \in Parents : Begin(r, "create", Session(o, p, None, 0))
    BY <1>4 DEF BeginCreate
  <2>2. Session(o, p, None, 0) \in Sessions
    BY SessionType, SessionAssumption DEF AllOps, Creators
  <2>3. InPhase(Session(o, p, None, 0), "create")
    BY DEF InPhase, Session
  <2>4. jobs' = jobs
    BY <1>4 DEF BeginCreate
  <2> QED BY <1>1, <1>2, <2>1, <2>2, <2>3, <2>4, BeginStep
<1>5. CASE BeginDelete(r)
  <2>1. PICK o \in Deleters, p \in parents \ {Company} :
          Begin(r, "list", Session(o, p, None, 0))
    BY <1>5 DEF BeginDelete
  <2>2. Session(o, p, None, 0) \in Sessions
    BY <1>1, SessionType, SessionAssumption DEF AllOps, Deleters
  <2>3. InPhase(Session(o, p, None, 0), "list")
    BY <1>1 DEF InPhase, Session, Deleters
  <2>4. jobs' = jobs
    BY <1>5 DEF BeginDelete
  <2> QED BY <1>1, <1>2, <2>1, <2>2, <2>3, <2>4, BeginStep
<1>6. CASE BeginDeleteFile(r)
  <2>1. PICK f \in Files :
          /\ rows[f] \notin {None, Company}
          /\ Begin(r, "drop", [Session("delete_file", rows[f], f, 0) EXCEPT !.listed = {f}])
    BY <1>6 DEF BeginDeleteFile
  <2> DEFINE t == [Session("delete_file", rows[f], f, 0) EXCEPT !.listed = {f}]
  <2>2. rows[f] \in Parents
    BY <2>1 DEF TypeOK
  <2>3. Session("delete_file", rows[f], f, 0) \in Sessions
    BY <2>2, SessionType, SessionAssumption DEF AllOps
  <2>4. t \in Sessions /\ t.parent = rows[f]
    BY <2>3 DEF Sessions, Session
  <2>5. InPhase(t, "drop")
    BY <2>2, <2>4 DEF InPhase
  <2>6. jobs' = jobs
    BY <1>6 DEF BeginDeleteFile
  <2> HIDE DEF t
  <2> QED BY <1>1, <1>2, <2>1, <2>4, <2>5, <2>6, BeginStep DEF t
<1>7. CASE BeginContract(r)
  <2>1. PICK p \in jobs : /\ jobs' = jobs \ {p}
                          /\ Begin(r, "write", Session("contract", p, None, 1))
    BY <1>7 DEF BeginContract
  <2>2. Session("contract", p, None, 1) \in Sessions
    BY <1>1, SessionType, SessionAssumption DEF AllOps
  <2>3. InPhase(Session("contract", p, None, 1), "write")
    BY <1>1 DEF InPhase, Session
  <2> QED BY <1>1, <1>2, <2>1, <2>2, <2>3, BeginStep
<1>8. CASE BeginLogo(r)
  <2>1. PICK o \in Logos : Begin(r, "list", Session(o, Company, None, 1))
    BY <1>8 DEF BeginLogo
  <2>2. Session(o, Company, None, 1) \in Sessions
    BY SessionType, SessionAssumption DEF AllOps, Logos
  <2>3. InPhase(Session(o, Company, None, 1), "list")
    BY SessionAssumption DEF InPhase, Session
  <2>4. jobs' = jobs
    BY <1>8 DEF BeginLogo
  <2> QED BY <1>1, <1>2, <2>1, <2>2, <2>3, <2>4, BeginStep
<1> QED BY <1>3, <1>4, <1>5, <1>6, <1>7, <1>8

LEMMA TypeHandle ==
  ASSUME TypeOK, Phases, NEW r \in Requests, Handle(r)
  PROVE  TypeOK' /\ Phases'
<1> DEFINE s == ses[r]
<1>1. s \in Sessions /\ pc[r] \in PCs /\ InPhase(s, pc[r])
  BY DEF TypeOK, Phases
<1>2. /\ parents \subseteq Parents /\ rows \in [Files -> Parents \cup {None}]
      /\ disk \subseteq Files /\ jobs \subseteq Parents
  BY DEF TypeOK
<1>3. CASE WriteFile(r)
  <2>1. PICK f \in Files :
          /\ pc[r] = "write"
          /\ disk' = disk \cup {f}
          /\ ses' = [ses EXCEPT ![r] = [s EXCEPT !.file = f, !.onRollback = @ \cup {f}]]
          /\ pc' = [pc EXCEPT ![r] = "insert"]
          /\ UNCHANGED <<parents, rows, jobs>>
    BY <1>3 DEF WriteFile
  <2> DEFINE t == [s EXCEPT !.file = f, !.onRollback = @ \cup {f}]
  <2>2. t \in Sessions /\ "insert" \in PCs
    BY <1>1 DEF Sessions, PCs
  <2>3. InPhase(t, "insert")
    BY <1>1, <2>1 DEF InPhase, Sessions
  <2> HIDE DEF t, s
  <2> QED BY <1>2, <2>1, <2>2, <2>3, SessionStep DEF t
<1>4. CASE InsertRow(r)
  <2> DEFINE t == [s EXCEPT !.added = @ \cup {s.file}, !.left = @ - 1]
             where == IF s.left > 1 THEN "write" ELSE "finish"
  <2>1. /\ pc[r] = "insert"
        /\ ses' = [ses EXCEPT ![r] = t]
        /\ pc' = [pc EXCEPT ![r] = where]
        /\ UNCHANGED <<parents, rows, disk, jobs>>
    BY <1>4 DEF InsertRow
  <2>2. s.left >= 1 /\ s.file \in Files /\ s.parent \in Parents
    BY <1>1, <2>1 DEF InPhase
  <2>3. t \in Sessions /\ where \in PCs
    <3>1. s.left - 1 \in 0..MaxUploads
      BY <1>1, <2>2, SessionAssumption DEF Sessions
    <3>2. t \in Sessions
      BY <1>1, <2>2, <3>1 DEF Sessions
    <3>3. where \in PCs
      BY DEF PCs
    <3> QED BY <3>2, <3>3
  <2>4. InPhase(t, where)
    BY <1>1, <2>2, SessionAssumption DEF InPhase, Sessions
  <2> HIDE DEF t, where, s
  <2> QED BY <1>2, <2>1, <2>3, <2>4, SessionStep
<1>5. CASE ListAttachments(r)
  <2> DEFINE t == [s EXCEPT !.listed = AttachmentsOf(s.parent)]
  <2>1. /\ pc[r] = "list"
        /\ ses' = [ses EXCEPT ![r] = t]
        /\ pc' = [pc EXCEPT ![r] = "delete"]
        /\ UNCHANGED <<parents, rows, jobs>>
        /\ disk' \subseteq disk
    BY <1>5 DEF ListAttachments
  <2>2. t \in Sessions /\ "delete" \in PCs
    BY <1>1 DEF Sessions, PCs, AttachmentsOf
  <2>3. InPhase(t, "delete")
    BY <1>1, <2>1 DEF InPhase, Sessions
  <2> HIDE DEF t, s
  <2> QED BY <1>2, <2>1, <2>2, <2>3, SessionStep
<1>6. CASE DeleteParent(r)
  <2> DEFINE t == [s EXCEPT !.wrote = TRUE, !.onCommit = s.listed]
  <2>1. /\ pc[r] = "delete"
        /\ ses' = [ses EXCEPT ![r] = t]
        /\ pc' = [pc EXCEPT ![r] = "after"]
        /\ UNCHANGED <<parents, rows, disk, jobs>>
    BY <1>6 DEF DeleteParent
  <2>2. t \in Sessions /\ "after" \in PCs
    BY <1>1 DEF Sessions, PCs
  <2>3. InPhase(t, "after")
    BY <1>1, <2>1 DEF InPhase, Sessions
  <2> HIDE DEF t, s
  <2> QED BY <1>2, <2>1, <2>2, <2>3, SessionStep
<1>7. CASE DropFile(r)
  <2> DEFINE t == [s EXCEPT !.wrote = TRUE, !.onCommit = s.listed]
  <2>1. /\ pc[r] = "drop"
        /\ ses' = [ses EXCEPT ![r] = t]
        /\ pc' = [pc EXCEPT ![r] = "finish"]
        /\ UNCHANGED <<parents, rows, jobs>>
        /\ disk' \subseteq disk
    BY <1>7 DEF DropFile
  <2>2. t \in Sessions /\ "finish" \in PCs
    BY <1>1 DEF Sessions, PCs
  <2>3. InPhase(t, "finish")
    BY <1>1, <2>1 DEF InPhase, Sessions
  <2> HIDE DEF t, s
  <2> QED BY <1>2, <2>1, <2>2, <2>3, SessionStep
<1>8. CASE CreateParent(r)
  <2> DEFINE t == [s EXCEPT !.wrote = TRUE,
                    !.onCommit = IF s.op = "new_sale" THEN {Contract} ELSE {}]
  <2>1. /\ pc[r] = "create"
        /\ ses' = [ses EXCEPT ![r] = t]
        /\ pc' = [pc EXCEPT ![r] = "finish"]
        /\ UNCHANGED <<parents, rows, disk, jobs>>
    BY <1>8 DEF CreateParent
  <2>2. t \in Sessions /\ "finish" \in PCs
    BY <1>1 DEF Sessions, PCs
  <2>3. InPhase(t, "finish")
    BY <1>1, <2>1 DEF InPhase, Sessions
  <2> HIDE DEF t, s
  <2> QED BY <1>2, <2>1, <2>2, <2>3, SessionStep
<1>9. CASE FlushFails(r)
  <2> DEFINE c == [RolledBack(s) EXCEPT !.answer = "conflict"]
             b == [RolledBack(s) EXCEPT !.answer = "conflict", !.broken = TRUE]
             e == [RolledBack(s) EXCEPT !.broken = TRUE]
  <2>a. /\ c \in Sessions /\ b \in Sessions /\ e \in Sessions
        /\ c.parent = s.parent /\ b.parent = s.parent /\ e.parent = s.parent
    BY <1>1, RolledBackType DEF RolledBack, Sessions
  <2>b. \/ ses' = [ses EXCEPT ![r] = c] /\ pc' = [pc EXCEPT ![r] = "finish"]
        \/ ses' = [ses EXCEPT ![r] = b] /\ pc' = [pc EXCEPT ![r] = "finish"]
        \/ ses' = [ses EXCEPT ![r] = e] /\ pc' = [pc EXCEPT ![r] = "raised"]
    BY <1>9 DEF FlushFails
  <2> HIDE DEF c, b, e
  <2>1. PICK t \in Sessions, where \in {"finish", "raised"} :
          /\ ses' = [ses EXCEPT ![r] = t]
          /\ pc' = [pc EXCEPT ![r] = where]
          /\ t.parent = s.parent
    BY <2>a, <2>b
  <2>2. pc[r] # "idle" /\ UNCHANGED <<parents, rows, jobs>> /\ disk' \subseteq disk
    BY <1>9 DEF FlushFails
  <2>3. InPhase(t, where) /\ where \in PCs
    BY <1>1, <2>1, <2>2 DEF InPhase, PCs
  <2> HIDE DEF s
  <2> QED BY <1>2, <2>1, <2>2, <2>3, SessionStep
<1>10. CASE AfterDelete(r) \/ HandlerRaises(r)
  <2>1. PICK where \in {"finish", "raised"} : pc' = [pc EXCEPT ![r] = where]
    BY <1>10 DEF AfterDelete, HandlerRaises
  <2>2. pc[r] # "idle" /\ UNCHANGED <<parents, rows, disk, jobs, ses>>
    BY <1>10 DEF AfterDelete, HandlerRaises
  <2>3. InPhase(s, where) /\ where \in PCs
    BY <1>1, <2>1, <2>2 DEF InPhase, PCs
  <2>4. ses' = [ses EXCEPT ![r] = s]
    BY <2>2 DEF TypeOK
  <2> HIDE DEF s
  <2> QED BY <1>1, <1>2, <2>1, <2>2, <2>3, <2>4, SessionStep
<1>11. CASE ReadLogo(r)
  <2> DEFINE t == [s EXCEPT !.listed = AttachmentsOf(Company)]
             where == IF s.op = "logo" THEN "write" ELSE "drop"
  <2>1. /\ pc[r] = "list" /\ s.op \in Logos
        /\ ses' = [ses EXCEPT ![r] = t]
        /\ pc' = [pc EXCEPT ![r] = where]
        /\ UNCHANGED <<parents, rows, disk, jobs>>
    BY <1>11 DEF ReadLogo
  <2>2. t \in Sessions /\ where \in PCs
    BY <1>1 DEF Sessions, PCs, AttachmentsOf
  <2>3. InPhase(t, where)
    BY <1>1, <2>1 DEF InPhase, Sessions
  <2> HIDE DEF t, where, s
  <2> QED BY <1>2, <2>1, <2>2, <2>3, SessionStep
<1>12. CASE SetLogo(r)
  <2> DEFINE t == [s EXCEPT !.added = @ \cup {s.file}, !.left = 0, !.onCommit = s.listed]
  <2>1. /\ pc[r] = "insert"
        /\ ses' = [ses EXCEPT ![r] = t]
        /\ pc' = [pc EXCEPT ![r] = "finish"]
        /\ UNCHANGED <<parents, rows, disk, jobs>>
    BY <1>12 DEF SetLogo
  <2>2. s.file \in Files /\ 0 \in 0..MaxUploads
    BY <1>1, <2>1, SessionAssumption DEF InPhase
  <2>3. t \in Sessions /\ "finish" \in PCs
    BY <1>1, <2>2 DEF Sessions, PCs
  <2>4. InPhase(t, "finish")
    BY <1>1, <2>1 DEF InPhase, Sessions
  <2> HIDE DEF t, s
  <2> QED BY <1>2, <2>1, <2>3, <2>4, SessionStep
<1>13. CASE DropLogo(r)
  <2> DEFINE t == [s EXCEPT !.wrote = s.listed # {}]
  <2>1. /\ pc[r] = "drop"
        /\ ses' = [ses EXCEPT ![r] = t]
        /\ pc' = [pc EXCEPT ![r] = "finish"]
        /\ UNCHANGED <<parents, rows, jobs>>
        /\ disk' \subseteq disk
    BY <1>13 DEF DropLogo
  <2>2. t \in Sessions /\ "finish" \in PCs
    BY <1>1 DEF Sessions, PCs
  <2>3. InPhase(t, "finish")
    BY <1>1, <2>1 DEF InPhase, Sessions
  <2> HIDE DEF t, s
  <2> QED BY <1>2, <2>1, <2>2, <2>3, SessionStep
<1> QED
  BY <1>3, <1>4, <1>5, <1>6, <1>7, <1>8, <1>9, <1>10, <1>11, <1>12, <1>13 DEF Handle

LEMMA TypeFinish ==
  ASSUME TypeOK, Phases, NEW r \in Requests, Finish(r)
  PROVE  TypeOK' /\ Phases'
<1> DEFINE s == ses[r]
<1>1. s \in Sessions /\ pc[r] \in PCs /\ InPhase(s, pc[r])
  BY DEF TypeOK, Phases
<1>2. /\ parents \subseteq Parents /\ rows \in [Files -> Parents \cup {None}]
      /\ disk \subseteq Files /\ jobs \subseteq Parents
  BY DEF TypeOK
<1>3. CASE Rollback(r)
  BY <1>3, EndStep DEF Rollback
<1>4. CASE Answer(r)
  BY <1>4, EndStep DEF Answer
<1>5. CASE Commit(r)
  <2> DEFINE t == [s EXCEPT !.added = {}, !.wrote = FALSE, !.onRollback = {}]
  <2>1. /\ pc[r] = "finish"
        /\ ses' = [ses EXCEPT ![r] = t]
        /\ pc' = [pc EXCEPT ![r] = "callbacks"]
        /\ rows' = RowsAfter(r)
        /\ UNCHANGED <<disk, jobs>>
    BY <1>5 DEF Commit
  <2>2. t \in Sessions /\ "callbacks" \in PCs
    BY <1>1 DEF Sessions, PCs
  <2>3. s.parent \in Parents
    BY <1>1, <2>1 DEF InPhase
  <2>4. InPhase(t, "callbacks")
    BY <1>1, <2>3 DEF InPhase, Sessions
  <2>5. rows' \in [Files -> Parents \cup {None}]
    BY <1>2, <2>1, <2>3 DEF RowsAfter
  <2>6. parents' \subseteq Parents
    BY <1>2, <1>5, <2>3 DEF Commit
  <2> HIDE DEF t, s
  <2> QED BY <1>2, <2>1, <2>2, <2>4, <2>5, <2>6, SessionStep
<1>6. CASE Callback(r)
  <2>1. PICK c \in s.onCommit :
          /\ pc[r] = "callbacks"
          /\ disk' = disk \ {c}
          /\ jobs' = IF c = Contract THEN jobs \cup {s.parent} ELSE jobs
          /\ ses' = [ses EXCEPT ![r] = [s EXCEPT !.onCommit = @ \ {c}]]
          /\ UNCHANGED <<parents, rows, pc>>
    BY <1>6 DEF Callback
  <2> DEFINE t == [s EXCEPT !.onCommit = @ \ {c}]
  <2>2. t \in Sessions
    BY <1>1 DEF Sessions
  <2>3. InPhase(t, "callbacks") /\ s.parent \in Parents
    BY <1>1, <2>1 DEF InPhase, Sessions
  <2>4. pc' = [pc EXCEPT ![r] = "callbacks"]
    BY <2>1 DEF TypeOK
  <2> HIDE DEF t, s
  <2> QED BY <1>1, <1>2, <2>1, <2>2, <2>3, <2>4, SessionStep DEF t
<1> QED BY <1>3, <1>4, <1>5, <1>6 DEF Finish

LEMMA TypeStep ==
  ASSUME TypeOK /\ Phases, [Next]_vars
  PROVE  (TypeOK /\ Phases)'
<1>1. CASE UNCHANGED vars
  BY <1>1 DEF vars, TypeOK, Phases
<1>2. CASE SkipContract
  BY <1>2 DEF SkipContract, TypeOK, Phases
<1>3. CASE Crash
  <2>1. TypeOK'
    BY <1>3, NoSessionType DEF Crash, TypeOK, PCs
  <2>2. Phases'
    BY <1>3 DEF Crash, Phases, InPhase
  <2> QED BY <2>1, <2>2
<1> QED BY <1>1, <1>2, <1>3, TypeBegin, TypeHandle, TypeFinish DEF Next

\* Every variable of RequestSession keeps its type, and every session fits
\* the phase of its request: a callback or a job never runs without its
\* parent, a row is never flushed without its file name.
THEOREM SessionTypes == Spec => [](TypeOK /\ Phases)
<1>1. Init => TypeOK /\ Phases
  <2>1. ASSUME Init PROVE TypeOK
    BY <2>1, NoSessionType, SessionAssumption DEF Init, TypeOK, PCs
  <2>2. ASSUME Init PROVE Phases
    BY <2>2 DEF Init, Phases, InPhase
  <2> QED BY <2>1, <2>2
<1> QED BY <1>1, TypeStep, PTL DEF Spec

-----------------------------------------------------------------------------
(* Files.                                                                  *)

Kept == TypeOK /\ Phases /\ FilesOwned

\* A step that changes the session of r to s: what it must show of s, of the
\* other sessions, and of the files of the committed rows.
LEMMA OwnedStep ==
  ASSUME TypeOK, FilesOwned, NEW r \in Requests, NEW s, NEW where,
         ses' = [ses EXCEPT ![r] = s], pc' = [pc EXCEPT ![r] = where],
         Owned(s, where, disk', rows'), Apart(s, s),
         \A q \in Requests \ {r} :
           /\ Apart(s, ses[q]) /\ Apart(ses[q], s)
           /\ s.onRollback \cap ses[q].onRollback = {}
           /\ \A f \in ses[q].onRollback : f \in disk' /\ rows'[f] = None
           /\ \A f \in ses[q].listed : rows'[f] \in {None, rows[f]}
           /\ Pending(ses[q], pc[q]) \cap disk' \subseteq disk
  PROVE  FilesOwned'
<1>1. ses'[r] = s /\ pc'[r] = where
  BY DEF TypeOK
<1>2. \A q \in Requests \ {r} : ses'[q] = ses[q] /\ pc'[q] = pc[q]
  BY DEF TypeOK
<1>3. ASSUME NEW q \in Requests PROVE Owned(ses'[q], pc'[q], disk', rows')
  <2>1. CASE q = r
    BY <1>1, <2>1
  <2>2. CASE q # r
    <3>1. Owned(ses[q], pc[q], disk, rows)
      BY DEF FilesOwned
    <3>2. Pending(ses[q], pc[q]) \cap disk' \subseteq ses[q].onRollback
      BY <2>2, <3>1 DEF Owned
    <3>3. Owned(ses[q], pc[q], disk', rows')
      BY <2>2, <3>1, <3>2 DEF Owned
    <3> QED BY <1>2, <2>2, <3>3
  <2> QED BY <2>1, <2>2
<1>4. ASSUME NEW p \in Requests, NEW q \in Requests
      PROVE  /\ Apart(ses[p], ses[q])'
             /\ p # q => ses'[p].onRollback \cap ses'[q].onRollback = {}
  <2>1. CASE p = r \/ q = r
    BY <1>1, <1>2, <2>1 DEF Apart
  <2>2. CASE p # r /\ q # r
    BY <1>2, <2>2 DEF FilesOwned
  <2> QED BY <2>1, <2>2
<1> QED BY <1>3, <1>4 DEF FilesOwned

\* The same where the step changes no row, adds no file, and removes none that
\* another session's rollback is to remove.
LEMMA QuietStep ==
  ASSUME TypeOK, FilesOwned, NEW r \in Requests, NEW s, NEW where,
         ses' = [ses EXCEPT ![r] = s], pc' = [pc EXCEPT ![r] = where],
         rows' = rows, disk' \subseteq disk,
         \A q \in Requests \ {r} : ses[q].onRollback \subseteq disk',
         s.onRollback \subseteq ses[r].onRollback,
         Owned(s, where, disk', rows'), Apart(s, s),
         \A q \in Requests \ {r} : Apart(ses[q], s)
  PROVE  FilesOwned'
<1>1. \A q \in Requests \ {r} :
        /\ Apart(ses[r], ses[q]) /\ ses[r].onRollback \cap ses[q].onRollback = {}
        /\ \A f \in ses[q].onRollback : rows[f] = None
  BY DEF FilesOwned, Owned
<1>2. \A q \in Requests \ {r} :
        /\ Apart(s, ses[q]) /\ s.onRollback \cap ses[q].onRollback = {}
  BY <1>1 DEF Apart
<1>3. \A q \in Requests \ {r} :
        /\ \A f \in ses[q].onRollback : f \in disk' /\ rows'[f] = None
        /\ \A f \in ses[q].listed : rows'[f] \in {None, rows[f]}
        /\ Pending(ses[q], pc[q]) \cap disk' \subseteq disk
  BY <1>1
<1> QED BY <1>2, <1>3, OwnedStep

\* A request that begins has written nothing, and has loaded at most the
\* attachment it is to delete.
LEMMA OwnedBegin ==
  ASSUME Kept, NEW r \in Requests,
         \/ BeginUpload(r) \/ BeginCreate(r) \/ BeginDelete(r)
         \/ BeginDeleteFile(r) \/ BeginContract(r) \/ BeginLogo(r)
  PROVE  FilesOwned'
<1>1. TypeOK /\ FilesOwned
  BY DEF Kept
<1>2. PICK s, where : /\ Begin(r, where, s)
                      /\ s.op \in Logos => s.parent = Company
                      /\ where \in {"list", "drop", "write", "create"}
                      /\ where = "list" => s.op \in Deleters \cup Logos
                      /\ where = "drop" => s.op = "delete_file"
                      /\ where = "create" => s.op \in Creators
                      /\ s.file # None => s.op = "delete_file"
                      /\ s.added = {} /\ s.onRollback = {} /\ s.onCommit = {}
                      /\ ~s.wrote
                      /\ \A f \in s.listed : f \in Files /\ rows[f] # None /\ rows[f] = s.parent
  <2>1. CASE BeginUpload(r)
    BY <2>1 DEF BeginUpload, Session, Logos
  <2>2. CASE BeginCreate(r)
    BY <2>2 DEF BeginCreate, Session, Logos, Creators
  <2>3. CASE BeginDelete(r)
    BY <2>3 DEF BeginDelete, Session, Logos, Deleters
  <2>4. CASE BeginDeleteFile(r)
    BY <2>4 DEF BeginDeleteFile, Session, Logos
  <2>5. CASE BeginContract(r)
    BY <2>5 DEF BeginContract, Session, Logos
  <2>6. CASE BeginLogo(r)
    BY <2>6 DEF BeginLogo, Session
  <2> QED BY <2>1, <2>2, <2>3, <2>4, <2>5, <2>6
<1>3. /\ ses' = [ses EXCEPT ![r] = s] /\ pc' = [pc EXCEPT ![r] = where]
      /\ UNCHANGED <<rows, disk>> /\ s.op \in Ops
  BY <1>2 DEF Begin
<1>4. Owned(s, where, disk', rows')
  <2>1. Pending(s, where) = {}
    BY <1>2 DEF Pending, Writers
  <2>2. s.op \in Writers => s.file = None
    BY <1>2 DEF Writers
  <2> QED BY <1>2, <1>3, <2>1, <2>2 DEF Owned
<1>5. Apart(s, s) /\ s.onRollback \subseteq ses[r].onRollback
  BY <1>2 DEF Apart
<1>6. \A q \in Requests \ {r} : ses[q].onRollback \subseteq disk' /\ Apart(ses[q], s)
  BY <1>1, <1>2, <1>3 DEF FilesOwned, Owned, Apart
<1> QED BY <1>1, <1>3, <1>4, <1>5, <1>6, QuietStep

-----------------------------------------------------------------------------
(* The handlers keep FilesOwned.                                           *)

\* What FilesOwned says of r and of the others.
LEMMA OwnedFacts ==
  ASSUME Kept, NEW r \in Requests
  PROVE  LET s == ses[r] IN
         /\ TypeOK /\ FilesOwned
         /\ s \in Sessions /\ InPhase(s, pc[r]) /\ Owned(s, pc[r], disk, rows) /\ Apart(s, s)
         /\ \A q \in Requests \ {r} :
              /\ Apart(s, ses[q]) /\ Apart(ses[q], s)
              /\ s.onRollback \cap ses[q].onRollback = {}
              /\ \A f \in ses[q].onRollback : f \in disk /\ rows[f] = None
              /\ ses[q] \in Sessions
BY DEF Kept, TypeOK, Phases, FilesOwned, Owned

LEMMA OwnedWriteFile ==
  ASSUME Kept, NEW r \in Requests, WriteFile(r)
  PROVE  FilesOwned'
<1> DEFINE s == ses[r]
<1>1. /\ TypeOK /\ FilesOwned
      /\ s \in Sessions /\ Owned(s, pc[r], disk, rows) /\ Apart(s, s)
      /\ \A q \in Requests \ {r} :
           /\ Apart(s, ses[q]) /\ Apart(ses[q], s)
           /\ s.onRollback \cap ses[q].onRollback = {}
           /\ \A f \in ses[q].onRollback : f \in disk /\ rows[f] = None
  BY OwnedFacts
<1>2. PICK f \in Files :
        /\ pc[r] = "write" /\ FreshFile(f)
        /\ disk' = disk \cup {f}
        /\ ses' = [ses EXCEPT ![r] = [s EXCEPT !.file = f, !.onRollback = @ \cup {f}]]
        /\ pc' = [pc EXCEPT ![r] = "insert"]
        /\ UNCHANGED <<parents, rows, jobs>>
  BY DEF WriteFile
<1> DEFINE t == [s EXCEPT !.file = f, !.onRollback = @ \cup {f}]
<1>3. /\ t.onRollback = s.onRollback \cup {f} /\ t.listed = s.listed
      /\ t.file = f /\ t.added = s.added /\ t.op = s.op /\ t.parent = s.parent
      /\ t.wrote = s.wrote /\ t.onCommit = s.onCommit /\ t.broken = s.broken
  BY <1>1 DEF Sessions
<1>4. ses' = [ses EXCEPT ![r] = t]
  BY <1>2
<1> HIDE DEF t
<1>5. \A q \in Requests : /\ f \notin ses[q].listed \cup ses[q].onRollback /\ f # ses[q].file
  BY <1>2 DEF FreshFile
<1>6. Owned(t, "insert", disk', rows')
  <2>1. \A g \in t.onRollback : g \in disk' /\ rows'[g] = None
    BY <1>1, <1>2, <1>3 DEF Owned, FreshFile
  <2>2. t.added \subseteq t.onRollback /\ t.file \in t.onRollback
    BY <1>1, <1>3 DEF Owned
  <2>3. Pending(t, "insert") \subseteq t.onRollback
    BY <2>2 DEF Pending
  <2> QED BY <1>1, <1>2, <1>3, <2>1, <2>2, <2>3 DEF Owned
<1>7. /\ Apart(t, t)
      /\ \A q \in Requests \ {r} : /\ Apart(t, ses[q]) /\ Apart(ses[q], t)
                                   /\ t.onRollback \cap ses[q].onRollback = {}
  BY <1>1, <1>3, <1>5 DEF Apart
<1>8. ASSUME NEW q \in Requests \ {r}
      PROVE  /\ \A g \in ses[q].onRollback : g \in disk' /\ rows'[g] = None
             /\ \A g \in ses[q].listed : rows'[g] \in {None, rows[g]}
             /\ Pending(ses[q], pc[q]) \cap disk' \subseteq disk
  <2>1. f \notin Pending(ses[q], pc[q])
    BY <1>1, <1>5 DEF Pending, FilesOwned, Owned
  <2> QED BY <1>1, <1>2, <2>1
<1> HIDE DEF s
<1> QED BY <1>1, <1>2, <1>4, <1>6, <1>7, <1>8, OwnedStep

\* A row is flushed: one of an upload, or the url of the logo.
LEMMA OwnedInsert ==
  ASSUME Kept, NEW r \in Requests, InsertRow(r) \/ SetLogo(r)
  PROVE  FilesOwned'
<1> DEFINE s == ses[r]
<1>1. /\ TypeOK /\ FilesOwned
      /\ s \in Sessions /\ Owned(s, pc[r], disk, rows) /\ Apart(s, s)
      /\ \A q \in Requests \ {r} :
           /\ Apart(ses[q], s) /\ \A f \in ses[q].onRollback : f \in disk
  BY OwnedFacts
<1>2. PICK t, where :
        /\ ses' = [ses EXCEPT ![r] = t] /\ pc' = [pc EXCEPT ![r] = where]
        /\ where \in {"write", "finish"}
        /\ t.onRollback = s.onRollback /\ t.listed = s.listed
        /\ t.added = s.added \cup {s.file} /\ t.file = s.file
        /\ t.op = s.op /\ t.parent = s.parent /\ t.wrote = s.wrote
        /\ t.onCommit = s.onCommit \/ (s.op = "logo" /\ t.onCommit = s.listed)
  <2>1. CASE InsertRow(r)
    <3> DEFINE u == [s EXCEPT !.added = @ \cup {s.file}, !.left = @ - 1]
    <3>1. /\ u.added = s.added \cup {s.file} /\ u.file = s.file /\ u.onCommit = s.onCommit /\ u.wrote = s.wrote
          /\ u.onRollback = s.onRollback /\ u.listed = s.listed /\ u.op = s.op /\ u.parent = s.parent
      BY <1>1 DEF Sessions
    <3>2. /\ ses' = [ses EXCEPT ![r] = u] /\ pc' = [pc EXCEPT ![r] = IF s.left > 1 THEN "write" ELSE "finish"]
          /\ s.op # "logo"
      BY <1>1, <2>1 DEF InsertRow
    <3> HIDE DEF u
    <3> QED BY <1>1, <3>1, <3>2
  <2>2. CASE SetLogo(r)
    <3> DEFINE u == [s EXCEPT !.added = @ \cup {s.file}, !.left = 0, !.onCommit = s.listed]
    <3>1. /\ u.added = s.added \cup {s.file} /\ u.onCommit = s.listed
          /\ u.file = s.file /\ u.wrote = s.wrote /\ u.onRollback = s.onRollback /\ u.listed = s.listed /\ u.op = s.op /\ u.parent = s.parent
      BY <1>1 DEF Sessions
    <3>2. /\ ses' = [ses EXCEPT ![r] = u] /\ pc' = [pc EXCEPT ![r] = "finish"]
          /\ s.op = "logo"
      BY <1>1, <2>2 DEF SetLogo
    <3> HIDE DEF u
    <3> QED BY <1>1, <3>1, <3>2
  <2> QED BY <2>1, <2>2
<1>3. pc[r] = "insert" /\ UNCHANGED <<disk, rows>>
  BY DEF InsertRow, SetLogo
<1>4. Owned(t, where, disk', rows')
  <2>1. t.added \subseteq t.onRollback /\ t.added # {} /\ t.file \in t.added
    BY <1>1, <1>2, <1>3 DEF Owned
  <2>2. Pending(t, where) \subseteq t.onRollback
    BY <2>1 DEF Pending
  <2>3. \A f \in t.onCommit \ {Contract} :
          /\ f \in t.listed
          /\ \/ t.wrote /\ t.op \in Deleters \cup {"delete_file"}
             \/ t.added # {} /\ t.op = "logo"
    BY <1>1, <1>2, <1>3, <2>1 DEF Owned
  <2> HIDE DEF s
  <2> QED BY <1>1, <1>2, <1>3, <2>1, <2>2, <2>3 DEF Owned
<1>5. Apart(t, t) /\ \A q \in Requests \ {r} : Apart(ses[q], t)
  BY <1>1, <1>2 DEF Apart
<1> HIDE DEF s
<1>6. t.onRollback \subseteq ses[r].onRollback
  BY <1>2 DEF s
<1> QED BY <1>1, <1>2, <1>3, <1>4, <1>5, <1>6, QuietStep

\* The attachments are loaded, and perhaps unlinked.
LEMMA OwnedList ==
  ASSUME Kept, NEW r \in Requests, ListAttachments(r) \/ ReadLogo(r)
  PROVE  FilesOwned'
<1> DEFINE s == ses[r]
           L == AttachmentsOf(s.parent)
<1>1. /\ TypeOK /\ FilesOwned
      /\ s \in Sessions /\ InPhase(s, pc[r]) /\ Owned(s, pc[r], disk, rows)
      /\ \A q \in Requests \ {r} :
           \A f \in ses[q].onRollback : f \in disk /\ rows[f] = None
  BY OwnedFacts
<1>2. /\ pc[r] = "list" /\ s.parent \in Parents
      /\ ReadLogo(r) => s.parent = Company
  BY <1>1 DEF ListAttachments, ReadLogo, InPhase, Owned
<1>3. PICK t, where :
        /\ ses' = [ses EXCEPT ![r] = t] /\ pc' = [pc EXCEPT ![r] = where]
        /\ \/ where = "delete" /\ s.op \in Deleters
           \/ where = "write" /\ s.op = "logo"
           \/ where = "drop" /\ s.op = "no_logo"
        /\ t.onRollback = s.onRollback /\ t.listed = L /\ t.added = s.added
        /\ t.file = s.file /\ t.op = s.op /\ t.parent = s.parent
        /\ t.wrote = s.wrote /\ t.onCommit = s.onCommit /\ t.broken = s.broken
  <2>1. CASE ListAttachments(r)
    <3> DEFINE u == [s EXCEPT !.listed = L]
    <3>1. /\ u.listed = L /\ u.added = s.added /\ u.file = s.file /\ u.broken = s.broken
          /\ u.onRollback = s.onRollback /\ u.op = s.op /\ u.parent = s.parent /\ u.wrote = s.wrote /\ u.onCommit = s.onCommit
      BY <1>1 DEF Sessions
    <3>2. /\ ses' = [ses EXCEPT ![r] = u] /\ pc' = [pc EXCEPT ![r] = "delete"]
          /\ s.op \in Deleters
      BY <1>1, <2>1 DEF ListAttachments
    <3> HIDE DEF u
    <3> QED BY <1>1, <3>1, <3>2
  <2>2. CASE ReadLogo(r)
    <3> DEFINE u == [s EXCEPT !.listed = L]
    <3>1. /\ u.listed = L /\ u.added = s.added /\ u.file = s.file /\ u.broken = s.broken
          /\ u.onRollback = s.onRollback /\ u.op = s.op /\ u.parent = s.parent /\ u.wrote = s.wrote /\ u.onCommit = s.onCommit
      BY <1>1 DEF Sessions
    <3>2. /\ ses' = [ses EXCEPT ![r] = u] /\ pc' = [pc EXCEPT ![r] = IF s.op = "logo" THEN "write" ELSE "drop"]
          /\ s.op \in {"logo", "no_logo"}
      BY <1>2, <2>2 DEF ReadLogo, Logos
    <3> HIDE DEF u
    <3> QED BY <1>1, <3>1, <3>2
  <2> QED BY <2>1, <2>2
<1>4. rows' = rows /\ disk' \subseteq disk /\ disk \ L \subseteq disk'
  BY DEF ListAttachments, ReadLogo
<1>5. L \subseteq Files /\ \A f \in L : rows[f] = s.parent /\ rows[f] # None
  BY <1>2, SessionAssumption DEF AttachmentsOf
<1> HIDE DEF L
<1>6. /\ s.onRollback \cap L = {} /\ s.onRollback \subseteq disk'
      /\ \A q \in Requests \ {r} : ses[q].onRollback \cap L = {}
      /\ \A q \in Requests \ {r} : ses[q].onRollback \subseteq disk'
  BY <1>1, <1>4, <1>5 DEF Owned
<1>7. Owned(t, where, disk', rows')
  <2>1. /\ s.op \in Ops \cup {"none"} /\ s.onCommit = {}
        /\ s.op \in Logos => s.parent = Company
        /\ s.added \subseteq s.onRollback
        /\ \A f \in s.onRollback : rows[f] = None
        /\ s.op \in Writers => s.file \in s.added \cup {None}
    BY <1>1, <1>2 DEF Owned
  <2>2. Pending(t, where) \cap disk' \subseteq t.onRollback
    <3>1. Pending(t, where) = Pending(s, "list")
      BY <1>3 DEF Pending
    <3> QED BY <1>1, <1>2, <1>3, <1>4, <3>1 DEF Owned
  <2> HIDE DEF s
  <2> QED BY <1>3, <1>4, <1>5, <1>6, <2>1, <2>2 DEF Owned, Deleters, Writers
<1>8. Apart(t, t) /\ \A q \in Requests \ {r} : Apart(ses[q], t)
  BY <1>3, <1>6 DEF Apart
<1>9. t.onRollback \subseteq ses[r].onRollback
  BY <1>3
<1> HIDE DEF s
<1> QED BY <1>1, <1>3, <1>4, <1>6, <1>7, <1>8, <1>9, QuietStep

\* A delete is flushed, and an unlinker takes the files it had loaded.
LEMMA OwnedRemove ==
  ASSUME Kept, NEW r \in Requests, DeleteParent(r) \/ DropFile(r) \/ DropLogo(r)
  PROVE  FilesOwned'
<1> DEFINE s == ses[r]
<1>1. /\ TypeOK /\ FilesOwned
      /\ s \in Sessions /\ Owned(s, pc[r], disk, rows) /\ Apart(s, s)
      /\ \A q \in Requests \ {r} :
           /\ Apart(ses[q], s) /\ \A f \in ses[q].onRollback : f \in disk
  BY OwnedFacts
<1>2. PICK t, where :
        /\ ses' = [ses EXCEPT ![r] = t] /\ pc' = [pc EXCEPT ![r] = where]
        /\ where = "after" => s.op \in Deleters
        /\ where \in {"after", "finish"} /\ s.op \in Deleters \cup {"delete_file", "no_logo"}
        /\ t.onRollback = s.onRollback /\ t.listed = s.listed /\ t.added = s.added
        /\ t.file = s.file /\ t.op = s.op /\ t.parent = s.parent
        /\ \/ t.onCommit = s.listed /\ t.wrote /\ s.op \in Deleters \cup {"delete_file"}
           \/ t.onCommit = {}
  <2>1. CASE DeleteParent(r)
    <3> DEFINE u == [s EXCEPT !.wrote = TRUE, !.onCommit = s.listed]
    <3>1. /\ u.wrote /\ u.onCommit = s.listed
          /\ u.onRollback = s.onRollback /\ u.listed = s.listed /\ u.added = s.added /\ u.file = s.file /\ u.op = s.op /\ u.parent = s.parent
      BY <1>1 DEF Sessions
    <3>2. /\ ses' = [ses EXCEPT ![r] = u] /\ pc' = [pc EXCEPT ![r] = "after"]
          /\ s.op \in Deleters
      BY <1>1, <2>1 DEF DeleteParent, Owned
    <3> HIDE DEF u
    <3> QED BY <1>1, <3>1, <3>2
  <2>2. CASE DropFile(r)
    <3> DEFINE u == [s EXCEPT !.wrote = TRUE, !.onCommit = s.listed]
    <3>1. /\ u.wrote /\ u.onCommit = s.listed
          /\ u.onRollback = s.onRollback /\ u.listed = s.listed /\ u.added = s.added /\ u.file = s.file /\ u.op = s.op /\ u.parent = s.parent
      BY <1>1 DEF Sessions
    <3>2. /\ ses' = [ses EXCEPT ![r] = u] /\ pc' = [pc EXCEPT ![r] = "finish"]
          /\ s.op = "delete_file"
      BY <1>1, <2>2 DEF DropFile
    <3> HIDE DEF u
    <3> QED BY <1>1, <3>1, <3>2
  <2>3. CASE DropLogo(r)
    <3> DEFINE u == [s EXCEPT !.wrote = s.listed # {}]
    <3>1. /\ u.onCommit = s.onCommit
          /\ u.onRollback = s.onRollback /\ u.listed = s.listed /\ u.added = s.added /\ u.file = s.file /\ u.op = s.op /\ u.parent = s.parent
      BY <1>1 DEF Sessions
    <3>2. /\ ses' = [ses EXCEPT ![r] = u] /\ pc' = [pc EXCEPT ![r] = "finish"]
          /\ s.op = "no_logo" /\ s.onCommit = {}
      BY <1>1, <2>3 DEF DropLogo, Owned
    <3> HIDE DEF u
    <3> QED BY <1>1, <3>1, <3>2
  <2> QED BY <2>1, <2>2, <2>3
<1>3. rows' = rows /\ disk' \subseteq disk /\ disk \ s.listed \subseteq disk'
  BY DEF DeleteParent, DropFile, DropLogo
<1>4. /\ s.onRollback \subseteq disk'
      /\ \A q \in Requests \ {r} : ses[q].onRollback \subseteq disk'
  BY <1>1, <1>3 DEF Apart, Owned
<1>5. Owned(t, where, disk', rows')
  <2>1. s.op \notin Writers /\ Pending(t, where) = {}
    BY <1>2 DEF Pending, Writers, Deleters
  <2> HIDE DEF s
  <2> QED BY <1>1, <1>2, <1>3, <1>4, <2>1 DEF Owned
<1>6. Apart(t, t) /\ \A q \in Requests \ {r} : Apart(ses[q], t)
  BY <1>1, <1>2 DEF Apart
<1>7. t.onRollback \subseteq ses[r].onRollback
  BY <1>2
<1> HIDE DEF s
<1> QED BY <1>1, <1>2, <1>3, <1>4, <1>5, <1>6, <1>7, QuietStep

\* A parent is created, a hook runs, or the handler raises.
LEMMA OwnedMove ==
  ASSUME Kept, NEW r \in Requests, CreateParent(r) \/ AfterDelete(r) \/ HandlerRaises(r)
  PROVE  FilesOwned'
<1> DEFINE s == ses[r]
<1>1. /\ TypeOK /\ FilesOwned
      /\ s \in Sessions /\ Owned(s, pc[r], disk, rows) /\ Apart(s, s)
      /\ \A q \in Requests \ {r} :
           /\ Apart(ses[q], s) /\ \A f \in ses[q].onRollback : f \in disk
  BY OwnedFacts
<1>2. PICK t, where :
        /\ ses' = [ses EXCEPT ![r] = t] /\ pc' = [pc EXCEPT ![r] = where]
        /\ \/ where = "finish" /\ pc[r] = "create"
           \/ where = "finish" /\ pc[r] = "after"
           \/ where = "raised"
        /\ t.onRollback = s.onRollback /\ t.listed = s.listed /\ t.added = s.added
        /\ t.file = s.file /\ t.op = s.op /\ t.parent = s.parent /\ t.broken = s.broken
        /\ \/ t.onCommit = s.onCommit /\ t.wrote = s.wrote
           \/ t.onCommit \subseteq {Contract}
  <2>1. CASE CreateParent(r)
    <3> DEFINE C == IF s.op = "new_sale" THEN {Contract} ELSE {}
               u == [s EXCEPT !.wrote = TRUE, !.onCommit = C]
    <3>1. /\ u.onCommit \subseteq {Contract} /\ u.onRollback = s.onRollback
          /\ u.listed = s.listed /\ u.added = s.added /\ u.file = s.file
          /\ u.op = s.op /\ u.parent = s.parent /\ u.broken = s.broken
      BY <1>1 DEF Sessions
    <3>2. /\ ses' = [ses EXCEPT ![r] = u] /\ pc' = [pc EXCEPT ![r] = "finish"]
          /\ pc[r] = "create"
      BY <2>1 DEF CreateParent
    <3> HIDE DEF u
    <3> QED BY <3>1, <3>2
  <2>2. CASE AfterDelete(r)
    BY <1>1, <2>2 DEF AfterDelete, TypeOK
  <2>3. CASE HandlerRaises(r)
    BY <1>1, <2>3 DEF HandlerRaises, TypeOK
  <2> QED BY <2>1, <2>2, <2>3
<1>3. UNCHANGED <<disk, rows>> /\ pc[r] \notin {"idle", "callbacks"}
  BY DEF CreateParent, AfterDelete, HandlerRaises
<1>4. where = "finish" => s.op \notin Writers
  BY <1>1, <1>2 DEF Owned, Writers, Deleters, Creators
<1>5. Owned(t, where, disk', rows')
  <2>1. Pending(t, where) = Pending(s, pc[r])
    BY <1>2, <1>3 DEF Pending
  <2> HIDE DEF s
  <2> QED BY <1>1, <1>2, <1>3, <1>4, <2>1 DEF Owned
<1>6. Apart(t, t) /\ \A q \in Requests \ {r} : Apart(ses[q], t)
  BY <1>1, <1>2 DEF Apart
<1>7. t.onRollback \subseteq ses[r].onRollback
  BY <1>2
<1> HIDE DEF s
<1> QED BY <1>1, <1>2, <1>3, <1>5, <1>6, <1>7, QuietStep

\* A session once the after_rollback listener has run on s.
Clean(t, s) ==
  /\ t.op = s.op /\ t.parent = s.parent /\ t.listed = s.listed /\ t.file = s.file
  /\ t.added = {} /\ t.onCommit = {} /\ t.onRollback = {}
  /\ t.wrote = FALSE

\* A failed flush: the rollback removes what the request wrote.
LEMMA OwnedFlushFails ==
  ASSUME Kept, NEW r \in Requests, FlushFails(r)
  PROVE  FilesOwned'
<1> DEFINE s == ses[r]
           c == [RolledBack(s) EXCEPT !.answer = "conflict"]
           b == [RolledBack(s) EXCEPT !.answer = "conflict", !.broken = TRUE]
           e == [RolledBack(s) EXCEPT !.broken = TRUE]
<1>1. /\ TypeOK /\ FilesOwned
      /\ s \in Sessions /\ Owned(s, pc[r], disk, rows)
      /\ \A q \in Requests \ {r} :
           /\ Apart(ses[q], s) /\ \A f \in ses[q].onRollback : f \in disk
           /\ s.onRollback \cap ses[q].onRollback = {}
  BY OwnedFacts
<1>2. Clean(c, s) /\ Clean(b, s) /\ Clean(e, s) /\ b.broken /\ e.broken
  BY <1>1 DEF RolledBack, Sessions, Clean
<1>3. \/ /\ ses' = [ses EXCEPT ![r] = c] /\ pc' = [pc EXCEPT ![r] = "finish"]
         /\ s.op \in {"delete_purchase", "new_sale"}
      \/ ses' = [ses EXCEPT ![r] = b] /\ pc' = [pc EXCEPT ![r] = "finish"]
      \/ ses' = [ses EXCEPT ![r] = e] /\ pc' = [pc EXCEPT ![r] = "raised"]
  BY DEF FlushFails
<1> HIDE DEF c, b, e
<1>4. PICK t, where : /\ ses' = [ses EXCEPT ![r] = t] /\ pc' = [pc EXCEPT ![r] = where]
                      /\ Clean(t, s) /\ where \in {"finish", "raised"}
                      /\ where = "finish" /\ s.op \in Writers => t.broken
  BY <1>2, <1>3 DEF Writers
<1>5. disk' = disk \ s.onRollback /\ rows' = rows /\ pc[r] \notin {"idle", "callbacks"}
  BY DEF FlushFails
<1>6. Owned(t, where, disk', rows')
  <2>1. Pending(t, where) \subseteq Pending(s, pc[r])
    BY <1>4, <1>5 DEF Pending, Clean
  <2>2. Pending(t, where) \cap disk' \subseteq t.onRollback
    BY <1>1, <1>5, <2>1 DEF Owned
  <2> HIDE DEF s
  <2> QED BY <1>1, <1>4, <1>5, <2>2 DEF Owned, Clean
<1>7. Apart(t, t) /\ \A q \in Requests \ {r} : Apart(ses[q], t)
  BY <1>1, <1>4 DEF Apart, Clean
<1>8. t.onRollback \subseteq ses[r].onRollback
  BY <1>4 DEF Clean
<1>9. \A q \in Requests \ {r} : ses[q].onRollback \subseteq disk'
  BY <1>1, <1>5
<1> HIDE DEF s
<1> QED BY <1>1, <1>4, <1>5, <1>6, <1>7, <1>8, <1>9, QuietStep

LEMMA OwnedHandle ==
  ASSUME Kept, NEW r \in Requests, Handle(r)
  PROVE  FilesOwned'
BY OwnedWriteFile, OwnedInsert, OwnedList, OwnedRemove, OwnedMove, OwnedFlushFails
   DEF Handle

-----------------------------------------------------------------------------
(* finish_request_session keeps FilesOwned.                                *)

\* A session that is given up, or has answered.
LEMMA OwnedNone == \A where, d, rs : where = "idle" => Owned(NoSession, where, d, rs)
BY DEF Owned, Pending, NoSession, Session, Logos, Writers

LEMMA OwnedEnd ==
  ASSUME Kept, NEW r \in Requests, End(r), rows' = rows,
         disk' = disk \/ disk' = disk \ ses[r].onRollback
  PROVE  FilesOwned'
<1>1. TypeOK /\ FilesOwned
  BY DEF Kept
<1>2. ses' = [ses EXCEPT ![r] = NoSession] /\ pc' = [pc EXCEPT ![r] = "idle"]
  BY DEF End
<1>3. Owned(NoSession, "idle", disk', rows')
  BY OwnedNone
<1>4. /\ Apart(NoSession, NoSession)
      /\ \A q \in Requests \ {r} : Apart(ses[q], NoSession)
      /\ NoSession.onRollback \subseteq ses[r].onRollback
  BY DEF Apart, NoSession, Session
<1>5. \A q \in Requests \ {r} : ses[q].onRollback \subseteq disk'
  BY <1>1 DEF FilesOwned, Owned
<1> QED BY <1>1, <1>2, <1>3, <1>4, <1>5, QuietStep

\* The rows once r commits.
LEMMA CommittedRows ==
  ASSUME Kept, NEW r \in Requests, Commit(r)
  PROVE  LET s == ses[r] IN
         /\ \A f \in Files : IF f \in s.added THEN rows'[f] = s.parent
                             ELSE rows'[f] \in {None, rows[f]}
         /\ \A f \in s.onCommit \ {Contract} : f \in s.listed /\ rows'[f] = None
<1> DEFINE s == ses[r]
<1>1. s \in Sessions /\ Owned(s, pc[r], disk, rows) /\ Apart(s, s) /\ pc[r] = "finish"
  BY OwnedFacts DEF Commit
<1>2. \A f \in Files :
        rows'[f] = IF f \in s.added THEN s.parent
                   ELSE IF \/ s.op = "delete_file" /\ s.wrote /\ f \in s.listed
                           \/ s.op \in Deleters /\ s.wrote /\ rows[f] = s.parent
                           \/ Relogoed(r) /\ rows[f] = Company
                     THEN None
                   ELSE rows[f]
  BY DEF Commit, RowsAfter
<1>3. ASSUME NEW f \in s.onCommit \ {Contract} PROVE f \in s.listed /\ rows'[f] = None
  <2>1. /\ f \in s.listed /\ f \in Files /\ rows[f] \in {None, s.parent}
        /\ f \notin s.added
    BY <1>1, <1>3 DEF Owned, Apart, Sessions
  <2>2. CASE s.wrote /\ s.op \in Deleters \cup {"delete_file"}
    BY <1>2, <2>1, <2>2
  <2>3. CASE s.added # {} /\ s.op = "logo"
    <3>1. Relogoed(r) /\ s.parent = Company
      BY <1>1, <2>3 DEF Relogoed, Logos, Owned
    <3> QED BY <1>2, <2>1, <3>1
  <2> QED BY <1>1, <1>3, <2>2, <2>3 DEF Owned
<1>4. \A f \in Files : IF f \in s.added THEN rows'[f] = s.parent
                        ELSE rows'[f] \in {None, rows[f]}
  BY <1>2
<1> QED BY <1>3, <1>4

LEMMA OwnedCommit ==
  ASSUME Kept, NEW r \in Requests, Commit(r)
  PROVE  FilesOwned'
<1> DEFINE s == ses[r]
           t == [s EXCEPT !.added = {}, !.wrote = FALSE, !.onRollback = {}]
<1>1. /\ TypeOK /\ FilesOwned
      /\ s \in Sessions /\ Owned(s, pc[r], disk, rows) /\ Apart(s, s)
      /\ \A q \in Requests \ {r} :
           /\ Apart(s, ses[q]) /\ Apart(ses[q], s)
           /\ s.onRollback \cap ses[q].onRollback = {}
           /\ \A f \in ses[q].onRollback : f \in disk /\ rows[f] = None
           /\ ses[q] \in Sessions
  BY OwnedFacts
<1>2. /\ ses' = [ses EXCEPT ![r] = t] /\ pc' = [pc EXCEPT ![r] = "callbacks"]
      /\ disk' = disk
  BY DEF Commit
<1>3. /\ t.onRollback = {} /\ t.added = {} /\ t.listed = s.listed /\ t.op = s.op
      /\ t.parent = s.parent /\ t.wrote = FALSE /\ t.onCommit = s.onCommit
  BY <1>1 DEF Sessions
<1> HIDE DEF t
<1>4. /\ \A f \in Files : IF f \in s.added THEN rows'[f] = s.parent
                          ELSE rows'[f] \in {None, rows[f]}
      /\ \A f \in s.onCommit \ {Contract} : f \in s.listed /\ rows'[f] = None
  BY CommittedRows
<1>5. /\ s.listed \subseteq Files /\ s.added \subseteq s.onRollback
      /\ \A q \in Requests \ {r} : /\ ses[q].listed \subseteq Files
                                   /\ ses[q].onRollback \subseteq Files
  BY <1>1 DEF Owned, Sessions
<1>6. Owned(t, "callbacks", disk', rows')
  <2>1. Pending(t, "callbacks") = {}
    BY DEF Pending
  <2>2. \A f \in s.listed : rows'[f] \in {None, s.parent}
    BY <1>1, <1>4, <1>5 DEF Owned
  <2>3. s.op \in Ops \cup {"none"} /\ (s.op \in Logos => s.parent = Company)
    BY <1>1 DEF Owned
  <2> HIDE DEF s
  <2> QED BY <1>3, <1>4, <2>1, <2>2, <2>3 DEF Owned
<1>7. /\ Apart(t, t)
      /\ \A q \in Requests \ {r} : /\ Apart(t, ses[q]) /\ Apart(ses[q], t)
                                   /\ t.onRollback \cap ses[q].onRollback = {}
  BY <1>1, <1>3 DEF Apart
<1>8. \A q \in Requests \ {r} :
        /\ \A f \in ses[q].onRollback : f \in disk' /\ rows'[f] = None
        /\ \A f \in ses[q].listed : rows'[f] \in {None, rows[f]}
        /\ Pending(ses[q], pc[q]) \cap disk' \subseteq disk
  BY <1>1, <1>2, <1>4, <1>5 DEF Apart
<1> HIDE DEF s
<1> QED BY <1>1, <1>2, <1>6, <1>7, <1>8, OwnedStep

\* A callback takes a file that no rollback is to remove.
LEMMA OwnedCallback ==
  ASSUME Kept, NEW r \in Requests, Callback(r)
  PROVE  FilesOwned'
<1> DEFINE s == ses[r]
<1>1. /\ TypeOK /\ FilesOwned
      /\ s \in Sessions /\ Owned(s, pc[r], disk, rows) /\ Apart(s, s)
      /\ \A q \in Requests \ {r} :
           /\ Apart(ses[q], s) /\ \A f \in ses[q].onRollback : f \in disk
           /\ ses[q] \in Sessions
  BY OwnedFacts
<1>2. PICK c \in s.onCommit :
        /\ pc[r] = "callbacks"
        /\ disk' = disk \ {c}
        /\ ses' = [ses EXCEPT ![r] = [s EXCEPT !.onCommit = @ \ {c}]]
        /\ UNCHANGED <<parents, rows, pc>>
  BY DEF Callback
<1> DEFINE t == [s EXCEPT !.onCommit = @ \ {c}]
<1>3. /\ t.onRollback = s.onRollback /\ t.added = s.added /\ t.listed = s.listed
      /\ t.op = s.op /\ t.parent = s.parent /\ t.wrote = s.wrote
      /\ t.onCommit = s.onCommit \ {c}
  BY <1>1 DEF Sessions
<1>4. ses' = [ses EXCEPT ![r] = t] /\ pc' = [pc EXCEPT ![r] = "callbacks"]
  BY <1>1, <1>2 DEF TypeOK
<1> HIDE DEF t
<1>5. c \notin s.onRollback /\ \A q \in Requests \ {r} : c \notin ses[q].onRollback
  BY <1>1, SessionAssumption DEF Owned, Apart, Sessions
<1>6. Owned(t, "callbacks", disk', rows')
  <2>1. Pending(t, "callbacks") = {}
    BY DEF Pending
  <2> HIDE DEF s
  <2> QED BY <1>1, <1>2, <1>3, <1>5, <2>1 DEF Owned
<1>7. Apart(t, t) /\ \A q \in Requests \ {r} : Apart(ses[q], t)
  BY <1>1, <1>3 DEF Apart
<1>8. /\ t.onRollback \subseteq ses[r].onRollback
      /\ \A q \in Requests \ {r} : ses[q].onRollback \subseteq disk'
  BY <1>1, <1>2, <1>3, <1>5
<1> HIDE DEF s
<1> QED BY <1>1, <1>2, <1>4, <1>6, <1>7, <1>8, QuietStep

LEMMA KeptStep ==
  ASSUME Kept, [Next]_vars
  PROVE  Kept'
<1>1. (TypeOK /\ Phases)'
  BY TypeStep DEF Kept
<1>2. CASE UNCHANGED vars
  BY <1>1, <1>2 DEF Kept, vars, FilesOwned
<1>3. CASE SkipContract
  <2>1. UNCHANGED <<rows, disk, pc, ses>>
    BY <1>3 DEF SkipContract
  <2> QED BY <1>1, <2>1 DEF Kept, FilesOwned
<1>4. CASE Crash
  <2>1. \A r \in Requests : ses'[r] = NoSession /\ pc'[r] = "idle"
    BY <1>4 DEF Crash
  <2>2. Owned(NoSession, "idle", disk', rows') /\ Apart(NoSession, NoSession)
    BY OwnedNone DEF Apart, NoSession, Session
  <2>3. NoSession.onRollback = {}
    BY DEF NoSession, Session
  <2> QED BY <1>1, <2>1, <2>2, <2>3 DEF Kept, FilesOwned
<1>5. ASSUME NEW r \in Requests, Finish(r) PROVE FilesOwned'
  <2>1. CASE Rollback(r) \/ Answer(r)
    BY <2>1, OwnedEnd DEF Rollback, Answer
  <2> QED BY <1>5, <2>1, OwnedCommit, OwnedCallback DEF Finish
<1> QED BY <1>1, <1>2, <1>3, <1>4, <1>5, OwnedBegin, OwnedHandle DEF Next, Kept

LEMMA KeptInit == Init => Kept
<1> SUFFICES ASSUME Init PROVE Kept
  OBVIOUS
<1>1. TypeOK /\ Phases
  BY NoSessionType, SessionAssumption DEF Init, TypeOK, PCs, Phases, InPhase
<1>2. \A r \in Requests : ses[r] = NoSession /\ pc[r] = "idle"
  BY DEF Init
<1>3. Owned(NoSession, "idle", disk, rows) /\ Apart(NoSession, NoSession)
  BY OwnedNone DEF Apart, NoSession, Session
<1>4. NoSession.onRollback = {}
  BY DEF NoSession, Session
<1> QED BY <1>1, <1>2, <1>3, <1>4 DEF Kept, FilesOwned

-----------------------------------------------------------------------------
(* What a step does to the files.                                          *)

\* No attachment becomes visible without its file, and only the routes that
\* unlink early take the file of one.
LEMMA RowKeepsFileStep ==
  ASSUME Kept, NEW f \in Files, rows'[f] # None, f \notin disk',
         rows[f] = None \/ f \in disk,
         [Next]_vars
  PROVE  \E r \in Requests : ses[r].op \in Unlinkers /\ f \in ses'[r].listed
<1>1. SUFFICES ASSUME rows' # rows \/ ~(disk \subseteq disk')
               PROVE  \E r \in Requests : ses[r].op \in Unlinkers /\ f \in ses'[r].listed
  OBVIOUS
<1>2. PICK r \in Requests :
        \/ ListAttachments(r) \/ DropFile(r) \/ DropLogo(r) \/ FlushFails(r)
        \/ Rollback(r) \/ Commit(r) \/ Callback(r)
  BY <1>1 DEF Next, vars, SkipContract, Crash, Handle, Finish, WriteFile, InsertRow,
     DeleteParent, AfterDelete, CreateParent, HandlerRaises, ReadLogo, SetLogo, Answer,
     BeginUpload, BeginCreate, BeginDelete, BeginDeleteFile, BeginContract, BeginLogo, Begin
<1> DEFINE s == ses[r]
<1>3. /\ TypeOK /\ s \in Sessions /\ Owned(s, pc[r], disk, rows)
  BY OwnedFacts
<1>4. CASE ListAttachments(r)
  <2>1. rows' = rows /\ f \in disk /\ s.op = "delete_purchase" /\ f \in AttachmentsOf(s.parent)
    BY <1>4 DEF ListAttachments
  <2>2. ses'[r].listed = AttachmentsOf(s.parent)
    BY <1>3, <1>4 DEF ListAttachments, TypeOK, Sessions
  <2> QED BY <2>1, <2>2 DEF Unlinkers
<1>5. CASE DropFile(r) \/ DropLogo(r)
  <2>1. rows' = rows /\ f \in disk /\ s.op \in {"delete_file", "no_logo"} /\ f \in s.listed
    BY <1>5 DEF DropFile, DropLogo
  <2>2. ses'[r].listed = s.listed
    BY <1>3, <1>5 DEF DropFile, DropLogo, TypeOK, Sessions
  <2> QED BY <2>1, <2>2 DEF Unlinkers
<1>6. CASE FlushFails(r) \/ Rollback(r)
  <2>1. rows' = rows /\ disk' = disk \ s.onRollback
    BY <1>6 DEF FlushFails, Rollback
  <2> QED BY <1>3, <2>1 DEF Owned
<1>7. CASE Commit(r)
  <2>1. disk' = disk /\ rows[f] = None
    BY <1>7 DEF Commit
  <2>2. f \in s.added
    BY <1>7, <2>1, CommittedRows
  <2> QED BY <1>3, <2>1, <2>2 DEF Owned
<1>8. CASE Callback(r)
  <2>1. PICK c \in s.onCommit : pc[r] = "callbacks" /\ disk' = disk \ {c} /\ rows' = rows
    BY <1>8 DEF Callback
  <2>2. c = f
    BY <2>1
  <2> QED BY <1>3, <2>1, <2>2, SessionAssumption DEF Owned
<1> QED BY <1>2, <1>4, <1>5, <1>6, <1>7, <1>8

\* A request stops answering for a file it wrote only when a row refers to the
\* file or the file is gone.
LEMMA LeavesNoOrphanStep ==
  ASSUME Kept, [Next]_vars, ~Crash, NEW r \in Requests,
         NEW f \in Pending(ses[r], pc[r]) \ Pending(ses'[r], pc'[r]), f \in disk'
  PROVE  rows'[f] # None
<1> DEFINE s == ses[r]
<1>1. /\ TypeOK /\ s \in Sessions /\ InPhase(s, pc[r]) /\ Owned(s, pc[r], disk, rows)
  BY OwnedFacts
<1>2. /\ s.op \in Writers /\ pc[r] \notin {"idle", "callbacks"}
      /\ f \in s.added \cup ({s.file} \ {None})
  BY DEF Pending
<1>3. ~(ses'[r] = ses[r] /\ pc'[r] = pc[r])
  OBVIOUS
<1>4. \/ WriteFile(r) \/ InsertRow(r) \/ SetLogo(r) \/ ListAttachments(r) \/ ReadLogo(r)
      \/ DeleteParent(r) \/ DropFile(r) \/ DropLogo(r) \/ CreateParent(r)
      \/ AfterDelete(r) \/ HandlerRaises(r) \/ FlushFails(r) \/ Rollback(r) \/ Commit(r)
  <2>1. PICK q \in Requests :
          \/ BeginUpload(q) \/ BeginCreate(q) \/ BeginDelete(q) \/ BeginDeleteFile(q)
          \/ BeginContract(q) \/ BeginLogo(q) \/ Handle(q) \/ Finish(q)
    BY <1>3 DEF Next, vars, SkipContract
  <2>2. q = r
    BY <1>1, <1>3, <2>1 DEF TypeOK, Handle, Finish, WriteFile, InsertRow, SetLogo,
       ListAttachments, ReadLogo, DeleteParent, DropFile, DropLogo, CreateParent, AfterDelete,
       HandlerRaises, FlushFails, Rollback, Commit, Callback, Answer, End, BeginUpload,
       BeginCreate, BeginDelete, BeginDeleteFile, BeginContract, BeginLogo, Begin
  <2> QED BY <1>2, <2>1, <2>2 DEF Handle, Finish, Callback, Answer, BeginUpload, BeginCreate,
             BeginDelete, BeginDeleteFile, BeginContract, BeginLogo, Begin
<1>5. CASE WriteFile(r)
  <2>1. f \in s.added
    BY <1>1, <1>2, <1>5 DEF WriteFile, Owned, Sessions
  <2>2. ses'[r].added = s.added /\ ses'[r].op = s.op /\ pc'[r] = "insert"
    BY <1>1, <1>5 DEF WriteFile, TypeOK, Sessions
  <2> QED BY <1>2, <2>1, <2>2 DEF Pending
<1>6. CASE \/ InsertRow(r) \/ SetLogo(r) \/ ListAttachments(r) \/ ReadLogo(r)
           \/ DeleteParent(r) \/ DropFile(r) \/ DropLogo(r) \/ CreateParent(r)
           \/ AfterDelete(r) \/ HandlerRaises(r)
  <2>1. s.added \subseteq ses'[r].added /\ ses'[r].file = s.file /\ ses'[r].op = s.op
    BY <1>1, <1>6 DEF TypeOK, Sessions, InsertRow, SetLogo, ListAttachments, ReadLogo,
       DeleteParent, DropFile, DropLogo, CreateParent, AfterDelete, HandlerRaises
  <2>2. pc'[r] \notin {"idle", "callbacks"}
    BY <1>1, <1>6 DEF TypeOK, InsertRow, SetLogo, ListAttachments, ReadLogo,
       DeleteParent, DropFile, DropLogo, CreateParent, AfterDelete, HandlerRaises
  <2> QED BY <1>2, <2>1, <2>2 DEF Pending
<1>7. CASE FlushFails(r)
  <2>1. disk' = disk \ s.onRollback
    BY <1>7 DEF FlushFails
  <2> QED BY <1>1, <2>1 DEF Owned
<1>8. CASE Rollback(r)
  <2>1. disk' = disk \ s.onRollback
    BY <1>8 DEF Rollback
  <2> QED BY <1>1, <2>1 DEF Owned
<1>9. CASE Commit(r)
  <2>1. pc[r] = "finish" /\ ~s.broken
    BY <1>9 DEF Commit
  <2>2. f \in s.added /\ f \in Files /\ s.parent \in Parents
    BY <1>1, <1>2, <2>1 DEF Owned, InPhase, Sessions
  <2> QED BY <1>9, <2>2, CommittedRows, SessionAssumption
<1> QED BY <1>4, <1>5, <1>6, <1>7, <1>8, <1>9

\* However requests and background jobs interleave and whatever fails, no
\* attachment becomes visible without its file, and only a route that unlinks
\* before its commit takes the file of a committed attachment.
THEOREM RowsKeepTheirFiles == Spec => RowKeepsFile
<1>1. Kept /\ [Next]_vars =>
        [\A f \in Files :
           /\ rows'[f] # None /\ f \notin disk'
           /\ rows[f] = None \/ f \in disk
           => \E r \in Requests : ses[r].op \in Unlinkers /\ f \in ses'[r].listed]_vars
  BY RowKeepsFileStep
<1>2. Kept /\ [Next]_vars => Kept'
  BY KeptStep
<1> QED BY <1>1, <1>2, KeptInit, PTL DEF Spec, RowKeepsFile

\* Failed uploads, flushes, commits and handlers remove every file they wrote
\* that no row refers to; only the death of the process leaves one.
THEOREM FailuresLeaveNoOrphan == Spec => LeavesNoOrphan
<1>1. Kept /\ [Next]_vars =>
        [\/ Crash
         \/ \A r \in Requests :
              \A f \in Pending(ses[r], pc[r]) \ Pending(ses'[r], pc'[r]) :
                f \in disk' => rows'[f] # None]_vars
  BY LeavesNoOrphanStep
<1>2. Kept /\ [Next]_vars => Kept'
  BY KeptStep
<1> QED BY <1>1, <1>2, KeptInit, PTL DEF Spec, LeavesNoOrphan

\* Where no operation unlinks before its commit, every committed attachment has
\* its file at every moment.
THEOREM FilesAreKept ==
  ASSUME Ops \cap Unlinkers = {}
  PROVE  Spec => []RowHasFile
<1>1. Kept /\ RowHasFile /\ [Next]_vars => RowHasFile'
  <2> SUFFICES ASSUME Kept, RowHasFile, [Next]_vars, NEW f \in Files,
                      rows'[f] # None, f \notin disk'
               PROVE  FALSE
    BY DEF RowHasFile
  <2>1. PICK r \in Requests : ses[r].op \in Unlinkers
    BY RowKeepsFileStep DEF RowHasFile
  <2>2. ses[r].op \in Ops \cup {"none"}
    BY DEF Kept, FilesOwned, Owned
  <2> QED BY <2>1, <2>2 DEF Unlinkers
<1>2. Init => RowHasFile
  BY DEF Init, RowHasFile
<1>3. Kept /\ [Next]_vars => Kept'
  BY KeptStep
<1> QED BY <1>1, <1>2, <1>3, KeptInit, PTL DEF Spec

-----------------------------------------------------------------------------
(* Answers.                                                                *)

\* What a session that is to answer 409 holds: nothing.
Conflicted(s, where) ==
  s.answer = "conflict" =>
    where \in {"finish", "raised", "callbacks"} /\ ~s.wrote /\ s.added = {}

Conflicts == \A r \in Requests : Conflicted(ses[r], pc[r])

LEMMA ConflictsStep ==
  ASSUME TypeOK, Conflicts, [Next]_vars
  PROVE  Conflicts'
<1>1. CASE UNCHANGED vars \/ SkipContract
  BY <1>1 DEF vars, SkipContract, Conflicts
<1>2. CASE Crash
  BY <1>2 DEF Crash, Conflicts, Conflicted, NoSession, Session
<1>3. ASSUME NEW r \in Requests, NEW s, NEW where,
             ses' = [ses EXCEPT ![r] = s], pc' = [pc EXCEPT ![r] = where],
             Conflicted(s, where)
      PROVE  Conflicts'
  BY <1>3 DEF TypeOK, Conflicts
<1>4. ASSUME NEW r \in Requests,
             \/ BeginUpload(r) \/ BeginCreate(r) \/ BeginDelete(r) \/ BeginDeleteFile(r)
             \/ BeginContract(r) \/ BeginLogo(r)
      PROVE  Conflicts'
  <2>1. PICK s, where : Begin(r, where, s) /\ s.answer = "ok"
    <3>1. \A o, p, f, n : Session(o, p, f, n).answer = "ok"
      BY DEF Session
    <3>2. CASE BeginDeleteFile(r)
      <4>1. PICK f \in Files : Begin(r, "drop",
              [Session("delete_file", rows[f], f, 0) EXCEPT !.listed = {f}])
        BY <3>2 DEF BeginDeleteFile
      <4>2. [Session("delete_file", rows[f], f, 0) EXCEPT !.listed = {f}].answer = "ok"
        BY DEF Session
      <4> QED BY <4>1, <4>2
    <3> QED BY <1>4, <3>1, <3>2 DEF BeginUpload, BeginCreate, BeginDelete, BeginContract,
               BeginLogo
  <2> QED BY <1>3, <2>1 DEF Begin, Conflicted
<1>5. ASSUME NEW r \in Requests,
             \/ WriteFile(r) \/ InsertRow(r) \/ ListAttachments(r) \/ DeleteParent(r)
             \/ AfterDelete(r) \/ DropFile(r) \/ CreateParent(r)
             \/ ReadLogo(r) \/ SetLogo(r) \/ DropLogo(r)
      PROVE  Conflicts'
  <2>1. pc[r] \notin {"finish", "raised", "callbacks"}
    BY <1>5 DEF WriteFile, InsertRow, ListAttachments, DeleteParent, AfterDelete, DropFile,
       CreateParent, ReadLogo, SetLogo, DropLogo
  <2>2. ses[r].answer = "ok"
    BY <2>1 DEF TypeOK, Sessions, Conflicts, Conflicted
  <2>3. \A q \in Requests \ {r} : ses'[q] = ses[q] /\ pc'[q] = pc[q]
    BY <1>5 DEF TypeOK, WriteFile, InsertRow, ListAttachments, DeleteParent,
       AfterDelete, DropFile, CreateParent, ReadLogo, SetLogo, DropLogo
  <2>4. ses'[r].answer = "ok"
    <3>1. CASE WriteFile(r)
      BY <2>2, <3>1 DEF TypeOK, Sessions, WriteFile
    <3>2. CASE InsertRow(r) \/ DeleteParent(r)
      BY <2>2, <3>2 DEF TypeOK, Sessions, InsertRow, DeleteParent
    <3>5. CASE ListAttachments(r)
      BY <2>2, <3>5 DEF TypeOK, Sessions, ListAttachments
    <3>6. CASE AfterDelete(r) \/ DropFile(r)
      BY <2>2, <3>6 DEF TypeOK, Sessions, AfterDelete, DropFile
    <3>4. CASE CreateParent(r)
      <4> DEFINE C == IF ses[r].op = "new_sale" THEN {Contract} ELSE {}
      <4>1. ses'[r] = [ses[r] EXCEPT !.wrote = TRUE, !.onCommit = C]
        BY <3>4 DEF TypeOK, CreateParent
      <4> HIDE DEF C
      <4> QED BY <2>2, <4>1 DEF TypeOK, Sessions
    <3>3. CASE ReadLogo(r) \/ SetLogo(r) \/ DropLogo(r)
      BY <2>2, <3>3 DEF TypeOK, Sessions, ReadLogo, SetLogo, DropLogo
    <3> QED BY <1>5, <3>1, <3>2, <3>3, <3>4, <3>5, <3>6
  <2> QED BY <2>3, <2>4 DEF Conflicts, Conflicted
<1>6. ASSUME NEW r \in Requests, FlushFails(r) PROVE Conflicts'
  <2> DEFINE s == ses[r]
             c == [RolledBack(s) EXCEPT !.answer = "conflict"]
             b == [RolledBack(s) EXCEPT !.answer = "conflict", !.broken = TRUE]
             e == [RolledBack(s) EXCEPT !.broken = TRUE]
  <2>1. s \in Sessions
    BY DEF TypeOK
  <2>2. /\ ~c.wrote /\ c.added = {} /\ ~b.wrote /\ b.added = {} /\ ~e.wrote /\ e.added = {}
    BY <2>1 DEF RolledBack, Sessions
  <2>3. \/ ses' = [ses EXCEPT ![r] = c] /\ pc' = [pc EXCEPT ![r] = "finish"]
        \/ ses' = [ses EXCEPT ![r] = b] /\ pc' = [pc EXCEPT ![r] = "finish"]
        \/ ses' = [ses EXCEPT ![r] = e] /\ pc' = [pc EXCEPT ![r] = "raised"]
    BY <1>6 DEF FlushFails
  <2> HIDE DEF c, b, e
  <2> QED BY <1>3, <2>2, <2>3 DEF Conflicted
<1>7. ASSUME NEW r \in Requests, HandlerRaises(r) PROVE Conflicts'
  <2>1. ses' = ses /\ pc' = [pc EXCEPT ![r] = "raised"]
    BY <1>7 DEF HandlerRaises
  <2> QED BY <2>1 DEF TypeOK, Conflicts, Conflicted
<1>8. ASSUME NEW r \in Requests, Rollback(r) \/ Answer(r) PROVE Conflicts'
  <2>1. ses' = [ses EXCEPT ![r] = NoSession] /\ pc' = [pc EXCEPT ![r] = "idle"]
    BY <1>8 DEF Rollback, Answer, End
  <2> QED BY <1>3, <2>1 DEF Conflicted, NoSession, Session
<1>9. ASSUME NEW r \in Requests, Commit(r) \/ Callback(r) PROVE Conflicts'
  <2>1. /\ ses'[r].added \subseteq ses[r].added /\ (ses'[r].wrote => ses[r].wrote)
        /\ ses'[r].answer = ses[r].answer /\ pc'[r] = "callbacks"
        /\ \A q \in Requests \ {r} : ses'[q] = ses[q] /\ pc'[q] = pc[q]
    BY <1>9 DEF TypeOK, Sessions, Commit, Callback
  <2> QED BY <2>1 DEF Conflicts, Conflicted
<1> QED BY <1>1, <1>2, <1>4, <1>5, <1>6, <1>7, <1>8, <1>9 DEF Next, Handle, Finish

\* A request that answers an error has published nothing: rows and parents
\* change only by the commit of a request whose handler succeeded.
THEOREM ErrorsPublishNothing == Spec => ErrorPublishesNothing
<1>1. ASSUME TypeOK, Conflicts, [Next]_vars, <<parents, rows>>' # <<parents, rows>>
      PROVE  \E r \in Requests :
               pc[r] = "finish" /\ pc'[r] = "callbacks" /\ ses[r].answer = "ok"
  <2>1. PICK r \in Requests : Commit(r)
    BY <1>1 DEF Next, vars, SkipContract, Crash, Handle, Finish, WriteFile, InsertRow,
       ListAttachments, DeleteParent, AfterDelete, DropFile, CreateParent, FlushFails,
       HandlerRaises, ReadLogo, SetLogo, DropLogo, Rollback, Callback, Answer, BeginUpload,
       BeginCreate, BeginDelete, BeginDeleteFile, BeginContract, BeginLogo, Begin
  <2>2. pc[r] = "finish" /\ pc'[r] = "callbacks"
    BY <1>1, <2>1 DEF Commit, TypeOK
  <2>3. CASE ses[r].answer = "conflict"
    <3>1. ~ses[r].wrote /\ ses[r].added = {}
      BY <1>1, <2>3 DEF Conflicts, Conflicted
    <3>2. parents' = parents /\ rows' = rows
      BY <1>1, <2>1, <3>1 DEF Commit, RowsAfter, Relogoed, TypeOK
    <3> QED BY <1>1, <3>2
  <2> QED BY <1>1, <2>2, <2>3 DEF TypeOK, Sessions
<1>2. TypeOK /\ Phases /\ [Next]_vars => (TypeOK /\ Phases)'
  BY TypeStep
<1>3. TypeOK /\ Conflicts /\ [Next]_vars => Conflicts'
  BY ConflictsStep
<1>4. Init => TypeOK /\ Phases /\ Conflicts
  BY KeptInit DEF Init, Kept, Conflicts, Conflicted, NoSession, Session
<1>5. TypeOK /\ Conflicts /\ [Next]_vars =>
        [<<parents, rows>>' # <<parents, rows>> =>
           \E r \in Requests :
             pc[r] = "finish" /\ pc'[r] = "callbacks" /\ ses[r].answer = "ok"]_vars
  BY <1>1
<1> QED BY <1>2, <1>3, <1>4, <1>5, PTL DEF Spec, ErrorPublishesNothing

=============================================================================
