----------------------------- MODULE UploadPage -----------------------------
(***************************************************************************)
(* pages/UploadPage.tsx with components/common/FileUpload.tsx and             *)
(* components/ColumnMapper/ColumnMapper.tsx: a file is uploaded, its columns   *)
(* are guessed from a preview, corrected, and saved as the log's mapping.     *)
(* A log is an item, ProjectOf the file it was made of.                       *)
(***************************************************************************)
EXTENDS Spa

Needed == {"case_id", "activity", "timestamp"}

Fields == Needed \cup {"resource", "cost"}

\* Columns of a file by their place, 0 for none.
Places == 1..3

\* What the names of a file's columns and its sample rows suggest.
Sample == [named : [Fields -> SUBSET Places], held : [Needed -> Places \cup {0}]]

Telling(c, a, t, r) ==
  [f \in Fields |-> CASE f = "case_id" -> c [] f = "activity" -> a
                      [] f = "timestamp" -> t [] f = "resource" -> r [] OTHER -> {}]

Holding(c, a, t) ==
  [f \in Needed |-> CASE f = "case_id" -> c [] f = "activity" -> a [] OTHER -> t]

\* Names that tell, names that tell nothing, and a name that tells two things.
Samples ==
  {[named |-> Telling({1}, {2}, {3}, {}), held |-> Holding(1, 2, 3)],
   [named |-> Telling({}, {}, {}, {}), held |-> Holding(2, 0, 3)],
   [named |-> Telling({1, 2}, {1}, {}, {3}), held |-> Holding(2, 1, 0)]}

\* combineDetect of scoredNameDetect and contentInfer, what is used left out: the
\* name is trusted before the content.
DetectNeeded(sample, field, used) ==
  LET named == sample.named[field] \ used
      held == {sample.held[field]} \ (used \cup {0})
  IN  IF named # {} THEN Least(named) ELSE IF held # {} THEN Least(held) ELSE 0

DetectOptional(sample, field, used) ==
  LET named == sample.named[field] \ used IN IF named # {} THEN Least(named) ELSE 0

\* The effect that runs when the mapper is mounted.
Detected(sample) ==
  LET c == DetectNeeded(sample, "case_id", {})
      a == DetectNeeded(sample, "activity", {c})
      t == DetectNeeded(sample, "timestamp", {c, a})
      r == DetectOptional(sample, "resource", {c, a, t})
      k == DetectOptional(sample, "cost", {c, a, t, r})
  IN  [f \in Fields |-> CASE f = "case_id" -> c [] f = "activity" -> a
                          [] f = "timestamp" -> t [] f = "resource" -> r [] OTHER -> k]

Picks == [Fields -> Places \cup {0}]

Unpicked == [f \in Fields |-> 0]

Preview == [of : Projects, sample : Samples]

File == [of : Projects, type : {"standard", "ocel"}]

Mapping == [of : Projects, picks : Picks, additional : SUBSET Places]

UploadUi == [place : {"here", "project", "projects", "insights", "ocpm"},
             step : {"upload", "mapping", "done"}, file : File \cup {None},
             status : {"idle", "uploading", "error"}, rejected : BOOLEAN,
             log : Items \cup {None}, preview : Preview \cup {None},
             picks : Picks, additional : SUBSET Places, saving : BOOLEAN]

UploadInit(p) ==
  /\ page = "upload"
  /\ db = [log |-> {}, mapping |-> [i \in Items |-> None]]
  /\ ui = [place |-> "here", step |-> "upload", file |-> None, status |-> "idle",
           rejected |-> FALSE, log |-> None, preview |-> None, picks |-> Unpicked,
           additional |-> {}, saving |-> FALSE]
  /\ calls = {Request("getProject", p, None, {})}

Here == ui.place = "here"

\* Without its project the page leaves for the list of projects.
UploadProjectLoaded(c) ==
  /\ ui' = IF c.stage = "failed" /\ Here THEN [ui EXCEPT !.place = "projects"] ELSE ui
  /\ Done(c) /\ Handling

\* The drop zone is there until a file is chosen.
DropFile(file) ==
  /\ Here /\ ui.step = "upload" /\ ui.file = None
  /\ ui' = [ui EXCEPT !.file = file, !.status = "idle", !.rejected = FALSE] /\ Local

\* A file of another kind or too large.
RejectFile ==
  /\ Here /\ ui.step = "upload" /\ ui.file = None /\ ~ui.rejected
  /\ ui' = [ui EXCEPT !.rejected = TRUE] /\ Local

\* The cross gives way to a sign once the upload has failed.
RemoveFile ==
  /\ Here /\ ui.step = "upload" /\ ui.file # None /\ ui.status = "idle"
  /\ ui' = [ui EXCEPT !.file = None, !.rejected = FALSE] /\ Local

SendFile ==
  /\ Here /\ ui.step = "upload" /\ ui.file # None /\ ui.status = "idle"
  /\ ui' = [ui EXCEPT !.status = "uploading", !.rejected = FALSE]
  /\ Send("uploadLog", None, ui.file) /\ Calling

\* A mapper that is mounted guesses anew.
Mapped(u) ==
  [u EXCEPT !.picks = IF u.preview = None THEN Unpicked ELSE Detected(u.preview.sample),
            !.additional = {}]

\* The file's own state goes with the step that shows it.
NextStep(u, step) == [u EXCEPT !.step = step, !.file = None, !.status = "idle"]

\* An event log says its columns itself when it is object-centric.
LogUploaded(c) ==
  /\ IF c.stage = "failed"
     THEN ui' = [ui EXCEPT !.status = "error", !.rejected = TRUE] /\ Done(c)
     ELSE IF c.ans.type = "ocel"
     THEN ui' = NextStep([ui EXCEPT !.log = c.ans.log], "done") /\ Done(c)
     ELSE ui' = [ui EXCEPT !.log = c.ans.log]
          /\ Then(c, "previewLog", c.ans.log, ProjectOf[c.ans.log])
  /\ Handling

\* A preview that fails is passed over, and the one there was stays.
LogPreviewed(c) ==
  /\ \E sample \in Samples :
       LET shown == IF c.stage = "ok"
                    THEN [ui EXCEPT !.preview = [of |-> c.arg, sample |-> sample]]
                    ELSE ui
       IN  ui' = Mapped(NextStep(shown, "mapping"))
  /\ Done(c) /\ Handling

MapperShown == Here /\ ui.step = "mapping" /\ ~ui.saving

\* A required column is not offered to another required field.
ChooseColumn(field, n) ==
  /\ MapperShown /\ ui.preview # None /\ ui.picks[field] # n
  /\ n = 0 \/ field \notin Needed \/ \A f \in Needed : ui.picks[f] # n
  /\ ui' = [ui EXCEPT !.picks[field] = n] /\ Local

ToggleAdditionalColumn(n) ==
  /\ MapperShown /\ ui.preview # None /\ \A f \in Fields : ui.picks[f] # n
  /\ ui' = [ui EXCEPT !.additional = IF n \in @ THEN @ \ {n} ELSE @ \cup {n}] /\ Local

MappingValid ==
  /\ \A f \in Needed : ui.picks[f] # 0
  /\ \A f, g \in Needed : f # g => ui.picks[f] # ui.picks[g]

SubmitMapping ==
  /\ MapperShown /\ MappingValid
  /\ ui' = [ui EXCEPT !.saving = TRUE]
  /\ Send("setMapping", ui.log, [of |-> ui.preview.of, picks |-> ui.picks,
                                 additional |-> ui.additional])
  /\ Calling

\* The page goes on to the insights wherever the user is by then.  The mapper was
\* gone while it saved, so after a failure it guesses anew.
MappingSaved(c) ==
  /\ ui' = IF c.stage = "ok" THEN [ui EXCEPT !.place = "insights"]
           ELSE Mapped([ui EXCEPT !.saving = FALSE])
  /\ Done(c) /\ Handling

BackToUpload ==
  /\ MapperShown /\ ui' = NextStep(ui, "upload") /\ Local

LeaveUpload(place) ==
  /\ Here
  /\ place = "project" \/ ui.step = "done"
  /\ ui' = [ui EXCEPT !.place = place] /\ Local

----------------------------------------------------------------------------

\* set_column_mapping commits and ends without a return: nothing does not fit its
\* response model, so the request is answered with 500.
MappingStored(c) == Outcome([db EXCEPT !.mapping[c.on] = c.arg], None)

UploadServer(c) ==
  \/ /\ c.op = "getProject" /\ Serve(c, Outcome(db, Ok))
  \/ /\ c.op = "uploadLog"
     /\ \E i \in {j \in Items \ db.log : ProjectOf[j] = c.arg.of} :
          Serve(c, Outcome([db EXCEPT !.log = @ \cup {i}],
                           [log |-> i, type |-> c.arg.type]))
  \/ c.op = "setMapping" /\ Serve(c, MappingStored(c))

UploadClicks ==
  \/ \E file \in File : DropFile(file)
  \/ RejectFile \/ RemoveFile \/ SendFile \/ SubmitMapping \/ BackToUpload
  \/ \E field \in Fields, n \in Places \cup {0} : ChooseColumn(field, n)
  \/ \E n \in Places : ToggleAdditionalColumn(n)
  \/ \E place \in {"project", "ocpm"} : LeaveUpload(place)

UploadAnswers ==
  \/ \E c \in Settled("getProject") : UploadProjectLoaded(c)
  \/ \E c \in Settled("uploadLog") : LogUploaded(c)
  \/ \E c \in Settled("previewLog") : LogPreviewed(c)
  \/ \E c \in Settled("setMapping") : MappingSaved(c)

UploadNext ==
  page = "upload" /\ (UploadClicks \/ UploadAnswers \/ \E c \in calls : UploadServer(c))

\* Every mapping that is stored or shown is of the columns of its own log.
MappingsFit ==
  /\ \A i \in Items : db.mapping[i] # None =>
       /\ i \in db.log /\ db.mapping[i].of = ProjectOf[i]
       /\ \A f, g \in Needed : f # g => db.mapping[i].picks[f] # db.mapping[i].picks[g]
  /\ ui.step = "mapping" => ui.preview # None /\ ui.preview.of = ProjectOf[ui.log]

=============================================================================
