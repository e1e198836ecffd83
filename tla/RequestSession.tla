---------------------------- MODULE RequestSession ----------------------------
(***************************************************************************)
(* The database session of a request, its post-commit and post-rollback    *)
(* callbacks, and the upload files those callbacks keep in step with the   *)
(* attachment rows: components/xtreme_system/database/core.py and          *)
(* upload_file/core.py, driven by the routes that use them.                *)
(*                                                                         *)
(* A parent is a row that owns attachments (a sale, a purchase, ...); a    *)
(* file stands for an attachment: its name on disk and the url of its row. *)
(* The row of the company settings is a parent too, and its logo its one   *)
(* attachment: the row of that file is the column logo_url.                *)
(* The handler, the middleware that finishes the session, the callbacks    *)
(* and the background contract job all fail and interleave.                *)
(***************************************************************************)
EXTENDS Naturals, FiniteSets

CONSTANTS
  Requests,    \* requests and background jobs that may be open at once
  Parents,     \* ids of parent rows
  Company,     \* the row of the company settings
  Files,       \* names given to files (uuid4)
  None,        \* no parent, no file
  Contract,    \* the callback that submits a contract job
  MaxUploads,  \* bound: files of one upload
  Ops,         \* operations the requests of an instance perform
  Faults       \* what may go wrong in an instance

\* delete_purchase is the HTML route; delete_json and new_json are JSON routes.
AllOps == {"upload", "contract", "delete_file", "delete_purchase", "delete_json",
           "new_sale", "new_json", "logo", "no_logo"}
AllFaults == {"flush", "raise", "commit", "crash"}

ASSUME SessionAssumption ==
  /\ None \notin Parents \cup Files
  /\ Company \in Parents
  /\ Contract \notin Files
  /\ MaxUploads \in Nat \ {0}
  /\ Ops \subseteq AllOps /\ Faults \subseteq AllFaults

Writers   == {"upload", "contract", "logo"}       \* write files and their rows
Logos     == {"logo", "no_logo"}                  \* set and remove the logo
Deleters  == {"delete_purchase", "delete_json"}   \* delete a parent
Creators  == {"new_sale", "new_json"}             \* insert a parent
Unlinkers == {"delete_file", "delete_purchase", "no_logo"}  \* unlink before the commit

VARIABLES
  parents,   \* committed parent rows
  rows,      \* committed attachment rows: the parent of every file, or None
  disk,      \* files under static/uploads
  jobs,      \* sales whose contract job waits in the executor
  pc,        \* where each request is
  ses        \* the session of each request

vars == <<parents, rows, disk, jobs, pc, ses>>

PCs == {"idle", "write", "insert", "list", "delete", "after", "drop", "create",
        "finish", "raised", "callbacks"}

\* file: the file being inserted or deleted; left: files still to upload;
\* listed, added: attachments loaded with the parent, rows flushed;
\* wrote: the change of the parent, or the delete, is flushed;
\* broken: a failed flush left the transaction inactive; answer: of the handler.
Sessions ==
  [op : AllOps \cup {"none"}, parent : Parents \cup {None}, file : Files \cup {None},
   left : 0..MaxUploads, listed : SUBSET Files, added : SUBSET Files,
   wrote : BOOLEAN, broken : BOOLEAN, answer : {"ok", "conflict"},
   onCommit : SUBSET (Files \cup {Contract}), onRollback : SUBSET Files]

Session(o, p, f, n) ==
  [op |-> o, parent |-> p, file |-> f, left |-> n, listed |-> {}, added |-> {},
   wrote |-> FALSE, broken |-> FALSE, answer |-> "ok",
   onCommit |-> {}, onRollback |-> {}]

NoSession == Session("none", None, None, 0)

Init ==
  /\ parents = {Company}
  /\ rows = [f \in Files |-> None]
  /\ disk = {}
  /\ jobs = {}
  /\ pc = [r \in Requests |-> "idle"]
  /\ ses = [r \in Requests |-> NoSession]

-----------------------------------------------------------------------------
AttachmentsOf(p) == {f \in Files : rows[f] = p}

\* uuid4: a name nothing refers to is as good as a new one.
FreshFile(f) ==
  /\ f \notin disk /\ rows[f] = None
  /\ \A q \in Requests :
       f # ses[q].file /\ f \notin ses[q].listed \cup ses[q].onCommit \cup ses[q].onRollback

FreshParent(p) ==
  p \notin parents \cup jobs /\ \A q \in Requests : ses[q].parent # p

\* Row locks: an uncommitted delete of p, and any uncommitted use of p or of
\* one of its attachments.
BeingDeleted(r, p) ==
  \E q \in Requests \ {r} :
    ses[q].op \in Deleters /\ ses[q].wrote /\ ses[q].parent = p

InUse(r, p) ==
  \E q \in Requests \ {r} :
    \/ ses[q].added # {} /\ ses[q].parent = p
    \/ ses[q].op = "delete_file" /\ ses[q].wrote /\ ses[q].parent = p

\* r has written the url of the logo.
Relogoed(r) == ses[r].op \in Logos /\ (ses[r].added # {} \/ ses[r].wrote)

\* An uncommitted UPDATE of the settings holds their row.
LogoIsLocked(r) == \E q \in Requests \ {r} : Relogoed(q)

-----------------------------------------------------------------------------
(* Beginning of a request: the middleware binds a session.                 *)

Begin(r, where, s) ==
  /\ pc[r] = "idle"
  /\ s.op \in Ops
  /\ pc' = [pc EXCEPT ![r] = where]
  /\ ses' = [ses EXCEPT ![r] = s]
  /\ UNCHANGED <<parents, rows, disk>>

BeginUpload(r) ==
  /\ \E p \in parents \ {Company}, n \in 1..MaxUploads :
       Begin(r, "write", Session("upload", p, None, n))
  /\ UNCHANGED jobs

BeginCreate(r) ==
  /\ \E o \in Creators, p \in Parents :
       FreshParent(p) /\ Begin(r, "create", Session(o, p, None, 0))
  /\ UNCHANGED jobs

BeginDelete(r) ==
  /\ \E o \in Deleters, p \in parents \ {Company} :
       Begin(r, "list", Session(o, p, None, 0))
  /\ UNCHANGED jobs

BeginDeleteFile(r) ==
  /\ \E f \in Files :
       /\ rows[f] \notin {None, Company}
       /\ Begin(r, "drop", [Session("delete_file", rows[f], f, 0) EXCEPT !.listed = {f}])
  /\ UNCHANGED jobs

BeginLogo(r) ==
  /\ \E o \in Logos : Begin(r, "list", Session(o, Company, None, 1))
  /\ UNCHANGED jobs

\* The executor runs a contract job, in a session of its own.
BeginContract(r) ==
  \E p \in jobs :
    /\ p \in parents
    /\ jobs' = jobs \ {p}
    /\ Begin(r, "write", Session("contract", p, None, 1))

\* The sale is gone when its job runs: a warning.
SkipContract ==
  \E p \in jobs \ parents :
    jobs' = jobs \ {p} /\ UNCHANGED <<parents, rows, disk, pc, ses>>

-----------------------------------------------------------------------------
(* The handlers, from flush to flush.                                      *)

\* Mutant: the file is written without a post-rollback callback.
WriteFileUnregistered(r) ==
  \E f \in Files :
    /\ pc[r] = "write" /\ FreshFile(f)
    /\ disk' = disk \cup {f}
    /\ ses' = [ses EXCEPT ![r].file = f]
    /\ pc' = [pc EXCEPT ![r] = "insert"]
    /\ UNCHANGED <<parents, rows, jobs>>

\* escrever_upload_atomico: the file appears whole, and is to go on rollback.
WriteFile(r) ==
  \E f \in Files :
    /\ pc[r] = "write" /\ FreshFile(f)
    /\ disk' = disk \cup {f}
    /\ ses' = [ses EXCEPT ![r].file = f, ![r].onRollback = @ \cup {f}]
    /\ pc' = [pc EXCEPT ![r] = "insert"]
    /\ UNCHANGED <<parents, rows, jobs>>

\* Mutant: one upload too many.
InsertRowOnceMore(r) ==
  /\ pc[r] = "insert" /\ ses[r].op # "logo"
  /\ ses[r].parent \in parents /\ ~BeingDeleted(r, ses[r].parent)
  /\ ses' = [ses EXCEPT ![r].added = @ \cup {ses[r].file}, ![r].left = @ - 1]
  /\ pc' = [pc EXCEPT ![r] = IF ses[r].left >= 1 THEN "write" ELSE "finish"]
  /\ UNCHANGED <<parents, rows, disk, jobs>>

\* The row of the file; its foreign key waits for a delete of the parent.
InsertRow(r) ==
  /\ pc[r] = "insert" /\ ses[r].op # "logo"
  /\ ses[r].parent \in parents /\ ~BeingDeleted(r, ses[r].parent)
  /\ ses' = [ses EXCEPT ![r].added = @ \cup {ses[r].file}, ![r].left = @ - 1]
  /\ pc' = [pc EXCEPT ![r] = IF ses[r].left > 1 THEN "write" ELSE "finish"]
  /\ UNCHANGED <<parents, rows, disk, jobs>>

\* definir_logo writes the url; the file of the logo that was read is to go
\* after the commit.
SetLogo(r) ==
  /\ pc[r] = "insert" /\ ses[r].op = "logo" /\ ~LogoIsLocked(r)
  /\ ses' = [ses EXCEPT ![r].added = @ \cup {ses[r].file}, ![r].left = 0,
                        ![r].onCommit = ses[r].listed]
  /\ pc' = [pc EXCEPT ![r] = "finish"]
  /\ UNCHANGED <<parents, rows, disk, jobs>>

\* get_config: the url of the current logo.
ReadLogo(r) ==
  /\ pc[r] = "list" /\ ses[r].op \in Logos
  /\ ses' = [ses EXCEPT ![r].listed = AttachmentsOf(Company)]
  /\ pc' = [pc EXCEPT ![r] = IF ses[r].op = "logo" THEN "write" ELSE "drop"]
  /\ UNCHANGED <<parents, rows, disk, jobs>>

\* remover_logo clears the url, unless the one it read was empty, and the file
\* goes at once.
DropLogo(r) ==
  /\ pc[r] = "drop" /\ ses[r].op = "no_logo"
  /\ ses[r].listed # {} => ~LogoIsLocked(r)
  /\ ses' = [ses EXCEPT ![r].wrote = ses[r].listed # {}]
  /\ disk' = disk \ ses[r].listed
  /\ pc' = [pc EXCEPT ![r] = "finish"]
  /\ UNCHANGED <<parents, rows, jobs>>

\* before_delete and the cascade load the attachments of the parent; the
\* route of the purchases unlinks their files here.
ListAttachments(r) ==
  /\ pc[r] = "list" /\ ses[r].op \in Deleters
  /\ ses' = [ses EXCEPT ![r].listed = AttachmentsOf(ses[r].parent)]
  /\ disk' = IF ses[r].op = "delete_purchase"
               THEN disk \ AttachmentsOf(ses[r].parent) ELSE disk
  /\ pc' = [pc EXCEPT ![r] = "delete"]
  /\ UNCHANGED <<parents, rows, jobs>>

\* Mutant: the after_delete listener unlinks instead of scheduling.
DeleteParentUnlinks(r) ==
  /\ pc[r] = "delete"
  /\ ~BeingDeleted(r, ses[r].parent) /\ ~InUse(r, ses[r].parent)
  /\ ses' = [ses EXCEPT ![r].wrote = TRUE]
  /\ disk' = disk \ ses[r].listed
  /\ pc' = [pc EXCEPT ![r] = "after"]
  /\ UNCHANGED <<parents, rows, jobs>>

\* The flush of the delete: after_delete schedules the loaded files only.
DeleteParent(r) ==
  /\ pc[r] = "delete"
  /\ ~BeingDeleted(r, ses[r].parent) /\ ~InUse(r, ses[r].parent)
  /\ ses' = [ses EXCEPT ![r].wrote = TRUE, ![r].onCommit = ses[r].listed]
  /\ pc' = [pc EXCEPT ![r] = "after"]
  /\ UNCHANGED <<parents, rows, disk, jobs>>

\* The after_delete hook: the HTML route of the purchases deletes the vehicle,
\* the JSON one updates the cash entry of the vehicle.
AfterDelete(r) ==
  /\ pc[r] = "after"
  /\ pc' = [pc EXCEPT ![r] = "finish"]
  /\ UNCHANGED <<parents, rows, disk, jobs, ses>>

\* excluir_anexo_entidade: the row goes in the transaction, the file at once.
DropFile(r) ==
  /\ pc[r] = "drop" /\ ses[r].op = "delete_file"
  /\ \A q \in Requests \ {r} : ~(ses[q].op = "delete_file" /\ ses[q].wrote
                                  /\ ses[q].file = ses[r].file)
  /\ ~BeingDeleted(r, ses[r].parent)
  /\ ses' = [ses EXCEPT ![r].wrote = TRUE, ![r].onCommit = ses[r].listed]
  /\ disk' = disk \ ses[r].listed
  /\ pc' = [pc EXCEPT ![r] = "finish"]
  /\ UNCHANGED <<parents, rows, jobs>>

CreateParent(r) ==
  /\ pc[r] = "create"
  /\ ses' = [ses EXCEPT ![r].wrote = TRUE,
       ![r].onCommit = IF ses[r].op = "new_sale" THEN {Contract} ELSE {}]
  /\ pc' = [pc EXCEPT ![r] = "finish"]
  /\ UNCHANGED <<parents, rows, disk, jobs>>

-----------------------------------------------------------------------------
(* Failures of the handlers.                                               *)

\* The session as the after_rollback listener leaves it: nothing flushed, the
\* post-commit callbacks dropped, the post-rollback ones run.
RolledBack(s) ==
  [s EXCEPT !.added = {}, !.wrote = FALSE, !.onCommit = {}, !.onRollback = {}]

\* Mutant: the failed statement alone is undone (a savepoint), and the
\* handler answers 409.
FlushFailsAlone(r) ==
  /\ pc[r] \in {"insert", "delete", "after", "drop", "create"}
  /\ "flush" \in Faults
  /\ ses' = [ses EXCEPT ![r].answer = "conflict"]
  /\ pc' = [pc EXCEPT ![r] = "finish"]
  /\ UNCHANGED <<parents, rows, disk, jobs>>

\* An IntegrityError.  An HTML route rolls back and answers 409; a JSON route
\* raises HTTPException(409) and leaves the transaction inactive; elsewhere
\* nothing catches it.
FlushFails(r) ==
  /\ pc[r] \in {"insert", "delete", "after", "drop", "create"}
  /\ \/ "flush" \in Faults
     \/ pc[r] = "insert" /\ ses[r].parent \notin parents
  /\ disk' = disk \ ses[r].onRollback
  /\ IF ses[r].op \in {"delete_purchase", "new_sale"}
       THEN /\ ses' = [ses EXCEPT ![r] = [RolledBack(ses[r]) EXCEPT !.answer = "conflict"]]
            /\ pc' = [pc EXCEPT ![r] = "finish"]
     ELSE IF ses[r].op \in {"delete_json", "new_json"}
       THEN /\ ses' = [ses EXCEPT ![r] =
                         [RolledBack(ses[r]) EXCEPT !.answer = "conflict", !.broken = TRUE]]
            /\ pc' = [pc EXCEPT ![r] = "finish"]
     ELSE   /\ ses' = [ses EXCEPT ![r] = [RolledBack(ses[r]) EXCEPT !.broken = TRUE]]
            /\ pc' = [pc EXCEPT ![r] = "raised"]
  /\ UNCHANGED <<parents, rows, jobs>>

\* Any other exception, the rendering of the answer included.
HandlerRaises(r) ==
  /\ "raise" \in Faults
  /\ pc[r] \notin {"idle", "raised", "callbacks"} /\ ~ses[r].broken
  /\ pc' = [pc EXCEPT ![r] = "raised"]
  /\ UNCHANGED <<parents, rows, disk, jobs, ses>>

-----------------------------------------------------------------------------
(* finish_request_session.                                                 *)

End(r) == pc' = [pc EXCEPT ![r] = "idle"] /\ ses' = [ses EXCEPT ![r] = NoSession]

\* An error, a failed commit, or the commit of an inactive transaction.
Rollback(r) ==
  /\ \/ pc[r] = "raised"
     \/ pc[r] = "finish" /\ (ses[r].broken \/ "commit" \in Faults)
  /\ disk' = disk \ ses[r].onRollback
  /\ End(r)
  /\ UNCHANGED <<parents, rows, jobs>>

\* The attachment rows once r commits; ON DELETE CASCADE takes those of a parent.
RowsAfter(r) ==
  LET s == ses[r] IN
  [f \in Files |->
     IF f \in s.added THEN s.parent
     ELSE IF \/ s.op = "delete_file" /\ s.wrote /\ f \in s.listed
             \/ s.op \in Deleters /\ s.wrote /\ rows[f] = s.parent
             \/ Relogoed(r) /\ rows[f] = Company
       THEN None
     ELSE rows[f]]

Commit(r) ==
  /\ pc[r] = "finish" /\ ~ses[r].broken
  /\ rows' = RowsAfter(r)
  /\ parents' = IF ~ses[r].wrote THEN parents
                ELSE IF ses[r].op \in Deleters THEN parents \ {ses[r].parent}
                ELSE IF ses[r].op \in Creators THEN parents \cup {ses[r].parent}
                ELSE parents
  /\ ses' = [ses EXCEPT ![r].added = {}, ![r].wrote = FALSE, ![r].onRollback = {}]
  /\ pc' = [pc EXCEPT ![r] = "callbacks"]
  /\ UNCHANGED <<disk, jobs>>

\* invoke_post_commit, one callback at a time.
Callback(r) ==
  \E c \in ses[r].onCommit :
    /\ pc[r] = "callbacks"
    /\ disk' = disk \ {c}
    /\ jobs' = IF c = Contract THEN jobs \cup {ses[r].parent} ELSE jobs
    /\ ses' = [ses EXCEPT ![r].onCommit = @ \ {c}]
    /\ UNCHANGED <<parents, rows, pc>>

Answer(r) ==
  /\ pc[r] = "callbacks" /\ ses[r].onCommit = {}
  /\ End(r)
  /\ UNCHANGED <<parents, rows, disk, jobs>>

\* The process dies: sessions, callbacks and jobs are in its memory only.
Crash ==
  /\ "crash" \in Faults
  /\ pc' = [r \in Requests |-> "idle"]
  /\ ses' = [r \in Requests |-> NoSession]
  /\ jobs' = {}
  /\ UNCHANGED <<parents, rows, disk>>

-----------------------------------------------------------------------------
Handle(r) ==
  \/ WriteFile(r) \/ InsertRow(r) \/ ListAttachments(r) \/ DeleteParent(r)
  \/ AfterDelete(r) \/ DropFile(r) \/ CreateParent(r)
  \/ ReadLogo(r) \/ SetLogo(r) \/ DropLogo(r)
  \/ FlushFails(r) \/ HandlerRaises(r)

Finish(r) == Rollback(r) \/ Commit(r) \/ Callback(r) \/ Answer(r)

Next ==
  \/ \E r \in Requests :
       \/ BeginUpload(r) \/ BeginCreate(r) \/ BeginDelete(r) \/ BeginDeleteFile(r)
       \/ BeginContract(r) \/ BeginLogo(r) \/ Handle(r) \/ Finish(r)
  \/ SkipContract
  \/ Crash

Spec == Init /\ [][Next]_vars

-----------------------------------------------------------------------------
(* Properties.                                                             *)

TypeOK ==
  /\ parents \subseteq Parents
  /\ rows \in [Files -> Parents \cup {None}]
  /\ disk \subseteq Files
  /\ jobs \subseteq Parents
  /\ pc \in [Requests -> PCs]
  /\ ses \in [Requests -> Sessions]

\* Every committed attachment has its file, at every moment, whatever fails:
\* the promise of the callbacks for the routes that leave the files to them.
RowHasFile == \A f \in Files : rows[f] # None => f \in disk

AllIdle == \A r \in Requests : pc[r] = "idle"

\* The files a request wrote and still answers for.
Pending(s, where) ==
  IF s.op \in Writers /\ where \notin {"idle", "callbacks"}
    THEN s.added \cup ({s.file} \ {None}) ELSE {}

\* No step of a request but the death of the process leaves behind a file the
\* request wrote and no row refers to: failed batches, flushes, commits and
\* handlers clean up what they wrote (upload_file/core.py, database/core.py).
LeavesNoOrphan ==
  [][\/ Crash
     \/ \A r \in Requests :
          \A f \in Pending(ses[r], pc[r]) \ Pending(ses'[r], pc'[r]) :
            f \in disk' => rows'[f] # None]_vars

\* No attachment becomes visible without its file, and none loses its file but
\* to a route that unlinks before its commit, and that had loaded it
\* (upload_file/core.py, uploads.py:117, compras.py, configuracoes.py).
RowKeepsFile ==
  [][\A f \in Files :
       /\ rows'[f] # None /\ f \notin disk'
       /\ rows[f] = None \/ f \in disk
       => \E r \in Requests : ses[r].op \in Unlinkers /\ f \in ses'[r].listed]_vars

\* A request whose answer is an error has published nothing.
ErrorPublishesNothing ==
  [][<<parents, rows>>' # <<parents, rows>> =>
       \E r \in Requests : pc[r] = "finish" /\ pc'[r] = "callbacks" /\ ses[r].answer = "ok"]_vars

\* A delete of a parent that did not happen leaves the files of its rows.
RollbackKeepsFiles == AllIdle => RowHasFile

\* A conflict the handler answers with 409 reaches the client as 409.
ConflictIsAnswered ==
  [][\A r \in Requests :
       pc[r] = "finish" /\ ses[r].answer = "conflict" /\ pc'[r] # "finish"
         => pc'[r] = "callbacks"]_vars

-----------------------------------------------------------------------------
(* What a session carries in each phase of its request.                    *)

InPhase(s, where) ==
  /\ where # "idle" => s.parent \in Parents
  /\ where \in {"write", "insert"} => s.left >= 1
  /\ where = "list" /\ s.op = "logo" => s.left >= 1
  /\ where = "insert" => s.file \in Files

Phases == \A r \in Requests : InPhase(ses[r], pc[r])

-----------------------------------------------------------------------------
(* What makes the properties of the files inductive: a file that a rollback
   removes has no row, one that a commit removes had its row deleted by that
   commit, no file is in both, and a file a request wrote and still answers for
   is removed by its rollback, if it is there.                              *)

Owned(s, where, d, rs) ==
  /\ s.op \in Ops \cup {"none"}
  /\ s.op \in Logos => s.parent = Company
  /\ where = "list" => s.op \in Deleters \cup Logos /\ s.onCommit = {}
  /\ where = "drop" => s.op \in {"delete_file", "no_logo"} /\ s.onCommit = {}
  /\ where \in {"delete", "after"} => s.op \in Deleters
  /\ where = "create" => s.op \in Creators
  /\ where = "insert" => s.file \in s.onRollback
  /\ s.op \in Writers /\ (where \in {"list", "write"} \/ (where = "finish" /\ ~s.broken))
       => s.file \in s.added \cup {None}
  /\ s.added \subseteq s.onRollback
  /\ Pending(s, where) \cap d \subseteq s.onRollback
  /\ \A f \in s.onRollback : f \in d /\ rs[f] = None
  /\ \A f \in s.listed : rs[f] \in {None, s.parent}
  /\ s.wrote => where # "callbacks"
  /\ \A f \in s.onCommit \ {Contract} :
       /\ f \in s.listed
       /\ where = "callbacks" => rs[f] = None
       /\ where # "callbacks" =>
            \/ s.wrote /\ s.op \in Deleters \cup {"delete_file"}
            \/ s.added # {} /\ s.op = "logo"

Apart(s, t) == s.onRollback \cap t.listed = {}

FilesOwned ==
  /\ \A r \in Requests : Owned(ses[r], pc[r], disk, rows)
  /\ \A r, q \in Requests : Apart(ses[r], ses[q])
  /\ \A r, q \in Requests : r # q => ses[r].onRollback \cap ses[q].onRollback = {}

=============================================================================
