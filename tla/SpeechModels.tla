---------------------------- MODULE SpeechModels ----------------------------
(***************************************************************************)
(* The managed speech model (SpeechModelManager): download with resume,    *)
(* checksum, extraction, replacement by two renames with a backup, and the *)
(* link the recognizer opens.  `speech install|remove` and the download    *)
(* thread of the server (SpeechModelDownloadManager) work on the same      *)
(* directory, at the same time if the user wants it, without a lock.       *)
(*                                                                         *)
(* Contents are abstracted to what tells them apart: the archive part may  *)
(* be short or whole, and have wrong bytes in it ("tainted" when short,    *)
(* "bad" when whole); a model directory is "good", "bad" (extracted from   *)
(* wrong bytes), or "half" (its removal was cut off).                      *)
(***************************************************************************)
EXTENDS Integers

CONSTANTS
  Workers,    \* processes that install or remove
  Service,    \* the worker that is the server's download thread
  MaxJobs     \* bound on the installs and removals

SpeechModelConstants == Service \in Workers /\ MaxJobs \in Nat

VARIABLES
  part,       \* the .part file of the archive
  model,      \* the model directory
  link,       \* the link: "none", "managed", "custom" (elsewhere), "dir" (no link)
  job,        \* worker -> [pc, ext, backup, alone]
  status,     \* SpeechModelDownloadStatus.state of the server
  jobs,
  installed,  \* an install has succeeded and nothing has removed the model since
  torn,       \* a worker was killed between the two renames, or in a removal
  raced       \* two installs have overlapped

modelVars == <<part, model, link, job, status, jobs, installed, torn, raced>>

Parts == {"none", "partial", "tainted", "good", "bad"}
Models == {"none", "good", "bad", "half"}
NoJob == [pc |-> "idle", ext |-> "none", backup |-> "none", alone |-> FALSE]

TypeOK ==
  /\ part \in Parts /\ model \in Models
  /\ link \in {"none", "managed", "custom", "dir"}
  /\ job \in [Workers -> [pc : {"idle", "download", "transfer", "verify", "extract", "rename",
                                "replace", "activate", "finish", "rmtree", "rmpart"},
                          ext : Models, backup : Models, alone : BOOLEAN]]
  /\ status \in {"idle", "downloading", "ready", "error"}
  /\ jobs \in 0 .. MaxJobs
  /\ installed \in BOOLEAN /\ torn \in BOOLEAN /\ raced \in BOOLEAN
  /\ status = "downloading" <=> job[Service].pc # "idle"

Init ==
  /\ part = "none" /\ model = "none" /\ link \in {"none", "custom", "dir"}
  /\ job = [w \in Workers |-> NoJob]
  /\ status = "idle" /\ jobs = 0
  /\ installed = FALSE /\ torn = FALSE /\ raced = FALSE

\* _is_valid_model looks at the names of the files only.
Valid(m) == m \in {"good", "bad"}
Usable == Valid(model) /\ link = "managed"

Goto(w, pc) == job' = [job EXCEPT ![w].pc = pc] /\ UNCHANGED status
Report(w, s) == status' = IF w = Service THEN s ELSE status
\* A mutant: the download thread of the server ends without a word.
FailSilently(w) == job' = [job EXCEPT ![w] = NoJob] /\ UNCHANGED status
Fail(w) == job' = [job EXCEPT ![w] = NoJob] /\ Report(w, "error")

(***************************************************************************)
(* install: a valid model is only activated again, unless forced.          *)
(***************************************************************************)
Install(w, force) ==
  /\ job[w].pc = "idle" /\ jobs < MaxJobs
  /\ w = Service => ~force /\ ~Usable
  /\ jobs' = jobs + 1
  /\ job' = [job EXCEPT ![w] =
       [NoJob EXCEPT !.pc = IF Valid(model) /\ ~force THEN "activate" ELSE "download",
                     !.alone = \A v \in Workers : job[v].pc \notin {"rmtree", "rmpart"}]]
  /\ Report(w, "downloading")
  /\ raced' = (raced \/ \E v \in Workers \ {w} : job[v].pc # "idle")
  /\ UNCHANGED <<part, model, link, installed, torn>>

\* SpeechModelDownloadManager.start: nothing to do for an active model.
AlreadyReady ==
  /\ job[Service].pc = "idle" /\ Usable
  /\ status' = "ready"
  /\ UNCHANGED <<part, model, link, job, jobs, installed, torn, raced>>

(***************************************************************************)
(* _download asks for the bytes after the ones it has: 206 continues, 416  *)
(* says there are no more, and 200 starts from the beginning.              *)
(***************************************************************************)
Request(w) ==
  /\ job[w].pc = "download"
  /\ \/ part \in {"good", "bad"} /\ Goto(w, "verify") /\ UNCHANGED part        \* 416
     \/ part \in {"partial", "tainted"} /\ Goto(w, "transfer") /\ UNCHANGED part \* 206
     \/ part' = "partial" /\ Goto(w, "transfer")                               \* 200
     \/ Fail(w) /\ UNCHANGED part
  /\ UNCHANGED <<model, link, jobs, installed, torn, raced>>

\* The transfer ends, whole or not; another worker may have written between.
Transfer(w) ==
  /\ job[w].pc = "transfer"
  /\ \/ /\ part' \in (CASE part = "partial" -> {"good", "bad"}
                        [] part = "none" -> {"none"}
                        [] OTHER -> {"bad"})
        /\ Goto(w, "verify")
     \/ /\ part' \in (IF part = "partial" THEN {"partial", "tainted"} ELSE {part})
        /\ Fail(w)
  /\ UNCHANGED <<model, link, jobs, installed, torn, raced>>

\* A mutant: an archive the server has no more bytes of is taken for whole.
VerifyWhole(w) ==
  /\ job[w].pc = "verify"
  /\ IF part \in {"good", "bad"} THEN Goto(w, "extract") /\ UNCHANGED part
                                 ELSE part' = "none" /\ Fail(w)
  /\ UNCHANGED <<model, link, jobs, installed, torn, raced>>

\* _verify_archive: wrong bytes are deleted, so that a retry starts afresh.
Verify(w) ==
  /\ job[w].pc = "verify"
  /\ IF part = "good" THEN Goto(w, "extract") /\ UNCHANGED part
                      ELSE part' = "none" /\ Fail(w)
  /\ UNCHANGED <<model, link, jobs, installed, torn, raced>>

\* _extract and _require_valid_model, into a directory of this install's own.
Extract(w) ==
  /\ job[w].pc = "extract"
  /\ \/ /\ part \in {"good", "bad"}
        /\ job' = [job EXCEPT ![w].pc = "rename", ![w].ext = part]
        /\ UNCHANGED status
     \/ Fail(w)
  /\ UNCHANGED <<part, model, link, jobs, installed, torn, raced>>

(***************************************************************************)
(* _replace_model: the old directory is renamed away, the new one renamed  *)
(* into its place; when that fails the old one comes back, by a rename     *)
(* that is taken to succeed.  A rename onto a directory that is there      *)
(* fails.                                                                  *)
(***************************************************************************)
Rename(w) ==
  /\ job[w].pc = "rename"
  /\ \/ /\ job' = [job EXCEPT ![w].pc = "replace", ![w].backup = model]
        /\ model' = "none" /\ UNCHANGED status
     \/ model # "none" /\ Fail(w) /\ UNCHANGED model
  /\ UNCHANGED <<part, link, jobs, installed, torn, raced>>

\* Nothing is torn any more, but for the remains another install may put back.
PutInPlace(w) ==
  /\ model = "none" /\ model' = job[w].ext
  /\ torn' = \E v \in Workers \ {w} : job[v].pc = "replace" /\ job[v].backup = "half"

\* A mutant: the old model stays in its backup when the second rename fails.
ReplaceNoRestore(w) ==
  /\ job[w].pc = "replace"
  /\ \/ PutInPlace(w) /\ Goto(w, "activate")
     \/ Fail(w) /\ UNCHANGED <<model, torn>>
  /\ UNCHANGED <<part, link, jobs, installed, raced>>

Replace(w) ==
  /\ job[w].pc = "replace"
  /\ \/ PutInPlace(w) /\ Goto(w, "activate")
     \/ /\ model' = IF model = "none" THEN job[w].backup ELSE model
        /\ Fail(w) /\ UNCHANGED torn
  /\ UNCHANGED <<part, link, jobs, installed, raced>>

\* _activate_model renames a new link over the old one, never over a directory.
Activate(w) ==
  /\ job[w].pc = "activate"
  /\ IF link = "dir" THEN Fail(w) /\ UNCHANGED link
                     ELSE link' = "managed" /\ Goto(w, "finish")
  /\ UNCHANGED <<part, model, jobs, installed, torn, raced>>

\* The archive goes last, but not where the model was only activated again; an
\* install during which nothing was removed counts.
Finish(w) ==
  /\ job[w].pc = "finish"
  /\ part' = IF job[w].ext = "none" THEN part ELSE "none"
  /\ job' = [job EXCEPT ![w] = NoJob]
  /\ Report(w, "ready")
  /\ installed' = (installed \/ job[w].alone)
  /\ UNCHANGED <<model, link, jobs, torn, raced>>

(***************************************************************************)
(* remove: the link, unless it is the user's own, the directory, the       *)
(* archive.                                                                *)
(***************************************************************************)
Remove(w) ==
  /\ job[w].pc = "idle" /\ w # Service /\ jobs < MaxJobs
  /\ jobs' = jobs + 1
  /\ IF link \in {"custom", "dir"}
     THEN UNCHANGED <<link, job, installed>>
     ELSE /\ link' = "none" /\ installed' = FALSE
          /\ job' = [v \in Workers |-> IF v = w THEN [NoJob EXCEPT !.pc = "rmtree"]
                                       ELSE [job[v] EXCEPT !.alone = FALSE]]
  /\ UNCHANGED <<part, model, status, torn, raced>>

RemoveTree(w) ==
  /\ job[w].pc = "rmtree"
  /\ model' = "none" /\ Goto(w, "rmpart")
  /\ UNCHANGED <<part, link, jobs, installed, torn, raced>>

RemovePart(w) ==
  /\ job[w].pc = "rmpart"
  /\ part' = "none" /\ job' = [job EXCEPT ![w] = NoJob]
  /\ UNCHANGED <<model, link, status, jobs, installed, torn, raced>>

(***************************************************************************)
(* The process is killed.  A killed server starts again with no status.    *)
(***************************************************************************)
Kill(w) ==
  /\ job[w].pc # "idle"
  /\ job' = [job EXCEPT ![w] = NoJob]
  /\ Report(w, "idle")
  /\ model' = IF job[w].pc = "rmtree" /\ model # "none" THEN "half" ELSE model
  /\ torn' = (torn \/ job[w].pc = "replace" \/ model' = "half")
  /\ UNCHANGED <<part, link, jobs, installed, raced>>

Next ==
  \/ AlreadyReady
  \/ \E w \in Workers :
       \/ \E force \in BOOLEAN : Install(w, force)
       \/ Request(w) \/ Transfer(w) \/ Verify(w) \/ Extract(w) \/ Rename(w) \/ Replace(w)
       \/ Activate(w) \/ Finish(w) \/ Remove(w) \/ RemoveTree(w) \/ RemovePart(w) \/ Kill(w)

Spec == Init /\ [][Next]_modelVars

(***************************************************************************)
(* Only bytes with the right checksum become the model, through resumed,   *)
(* restarted and corrupted transfers and kills, while installs do not      *)
(* overlap (the check is of the file, and the extraction reads it again).  *)
(***************************************************************************)
OnlyVerifiedInstalled == ~raced => model # "bad"

(***************************************************************************)
(* A model that has been installed stays usable, through forced installs   *)
(* that fail or are killed, and two of them at once: until it is removed,  *)
(* or a process is killed between the renames, the recognizer finds it at  *)
(* every moment but the one between the renames.  (What a killed removal   *)
(* has left may come back too, from the backup of an install that began    *)
(* before the model was whole and fails after it: torn says so.)           *)
(***************************************************************************)
StaysUsable ==
  installed /\ ~torn => Usable \/ \E w \in Workers : job[w].pc = "replace"
=============================================================================
