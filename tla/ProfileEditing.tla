--------------------------- MODULE ProfileEditing ---------------------------
(***************************************************************************)
(* The contents of one user's master profiles: full and sectional edits,   *)
(* deletion, and the import of a CV file (profiles/service.py, router.py,  *)
(* schemas.py, jev_parser.py, cv_parser.py, jev.py).                       *)
(*                                                                         *)
(* A request is one transaction.  It loads the whole profile_data, makes   *)
(* the new one in memory, and the flush writes all of it, if the session   *)
(* sees a difference; the row stays locked until the commit.  pc:          *)
(*                                                                         *)
(*   save     the flush and the refresh that follow the load               *)
(*   insert   the INSERT and the commit of create_profile                  *)
(*   created  the refresh after them                                       *)
(*   commit   the commit of get_session, then the reply                    *)
(*                                                                         *)
(* The default flag of these rows is the subject of ProfileDefault.        *)
(***************************************************************************)
EXTENDS CVDocument, Sequences

LOCAL INSTANCE SequencesExt

\* The sections PATCH knows: the sections of a CV and the texts at its top.
Names == (Sections \ {"top"}) \cup Parts("top")

CONSTANTS
  Profiles,    \* primary keys of master_profiles
  Requests,    \* the requests there will be, each served once
  Patches,     \* what PATCH requests carry: [section, doc]
  Contents,    \* what POST and PUT requests carry: documents
  Uploads,     \* the files of import requests: [kind, facts, lines]
  JevReplies,  \* Jev's answers about a CV: [publications, seniority]
  MaxRestarts, \* how often the API restarts
  None

ASSUME EditingAssumption ==
  /\ None \notin Requests \cup Profiles
  /\ Patches \subseteq [section : Names, doc : [Fields -> Values]]
  /\ Contents \subseteq [Fields -> Values]
  /\ MaxRestarts \in Nat

VARIABLES
  rows,        \* rows[p]: profile_data of p, or None
  locked,      \* locked[p]: the request whose transaction wrote row p
  req,         \* req[r]: where request r is and what it holds
  jobs,        \* _parse_jobs: the import jobs this API process remembers
  restarts

vars == <<rows, locked, req, jobs, restarts>>

-----------------------------------------------------------------------------
(* The data model (schemas.py).                                            *)

SectionOf(f) == IF f[1] = "top" THEN f[2] ELSE f[1]

\* A CV has relevance notes, a profile has none.
ProfileFields == Fields \ Of("experience", {"relevance_note"})

Nullable ==
  Of("contact", Parts("contact") \ {"full_name", "location"}) \cup
  Of("education", {"location", "thesis"}) \cup Of("experience", {"location"}) \cup
  Of("publications", {"year", "doi", "link"}) \cup
  Of("certifications", {"year"}) \cup Of("projects", {"link"})

Default(f) == IF f \in Nullable THEN "null" ELSE "blank"

\* MasterProfileData accepts it: every field has a default, few may be null.
Accepts(doc) ==
  \A f \in ProfileFields :
    doc[f] \in {"absent", "blank", "text", "now"} \/ (f \in Nullable /\ doc[f] = "null")

\* model_validate and model_dump: every part of an entry is there, and what a
\* profile has no field for is ignored.
Validated(doc) ==
  [f \in Fields |->
     IF f \notin ProfileFields THEN "absent"
     ELSE IF doc[f] = "absent" /\ Has(doc, f[1]) THEN Default(f) ELSE doc[f]]

\* The contents, and who wrote each section: two texts differ if their authors do.
Authors == [Names -> Requests \cup {None}]

Data == [doc : [Fields -> Values], by : Authors]

\* Mutant: fields the client left out are left out of the row.
WrittenAsSent(r, doc) == [doc |-> doc, by |-> [s \in Names |-> r]]

\* profile_data_to_dict: all fields are written, with their defaults.
Written(r, doc) == [doc |-> Validated(doc), by |-> [s \in Names |-> r]]

-----------------------------------------------------------------------------
(* Reading a CV file (cv_parser.py, jev_parser.py).                        *)

Headings == {"summary", "skills", "experience", "education", "publications",
             "languages", "references", "projects"}

\* extract_sections: lines before the first heading are lost, and a heading
\* that comes again starts its section afresh.
SectionsOf(lines) ==
  LET Read(acc, line) ==
        IF line \in Headings
        THEN [at |-> line, text |-> [acc.text EXCEPT ![line] = {}]]
        ELSE IF acc.at = "none" THEN acc
        ELSE [acc EXCEPT !.text[acc.at] = @ \cup {line}]
  IN FoldLeft(Read, [at |-> "none", text |-> [h \in Headings |-> {}]], lines).text

\* validate_cv_upload: a PDF or DOCX, not too large, without macros.
Uploadable(upload) == upload.kind \in {"pdf", "docx", "scan"}

\* What the expressions of _parse_* find in the lines of a section.
Found(upload) ==
  LET text == SectionsOf(upload.lines)
      Some(h) == text[h] # {}
      In(h, line) == line \in text[h]
  IN {f \in Fields :
        CASE f = <<"top", "summary">> -> Some("summary")
          [] f = <<"top", "additional_info">> -> Some("references")
          [] f \in Of("experience", {"role", "company"}) ->
               In("experience", "post") \/ In("experience", "post with place")
          [] f = <<"experience", "location">> -> In("experience", "post with place")
          [] f = <<"education", "degree">> -> In("education", "school") \/ In("education", "degree")
          [] f = <<"education", "institution">> -> In("education", "school")
          [] f = <<"skills", "tools">> -> In("skills", "tool")
          [] f = <<"skills", "domain">> -> In("skills", "field")
          [] f = <<"publications", "citation">> -> Some("publications")
          [] f \in Of("languages", Parts("languages")) -> In("languages", "tongue")
          [] f = <<"projects", "name">> -> Some("projects")
          [] f = <<"certifications", "name">> -> "certificate" \in upload.facts
          [] f[1] = "contact" -> f[2] \in upload.facts
          [] OTHER -> FALSE}

\* What _parse_experience and _parse_education leave empty, though null would do.
LeftEmpty == Of("experience", {"location"}) \cup Of("education", {"location", "thesis"})

\* parse_cv_with_jev before Jev has its say.  _extract_contact gives None for
\* what it does not find, also for the location, which ContactInfo rejects.
Parsed(upload) ==
  LET found == Found(upload)
      Entry(f) == \E part \in Parts(f[1]) : <<f[1], part>> \in found
  IN [f \in Fields |->
        IF f \in found THEN "text"
        ELSE IF f = <<"contact", "location">> THEN "null"
        ELSE IF ~(f \in ProfileFields /\ (f[1] \in Standing \/ Entry(f))) THEN "absent"
        ELSE IF f \in LeftEmpty THEN "blank" ELSE Default(f)]

\* Does the summary still fit when something is appended to it?
Tight(upload) == "long" \in SectionsOf(upload.lines)["summary"]

\* Mutant: a section that Jev sees replaces what was read of it.
Overruled(upload, jev, doc) ==
  [f \in Fields |->
     IF jev # None /\ jev.publications = "likely" /\ f[1] = "publications"
     THEN IF f[2] = "citation" THEN "text" ELSE "null"
     ELSE IF jev # None /\ jev.publications = "likely" /\ f[1] = "education" THEN "absent"
     ELSE doc[f]]

\* _apply_jev_validation: a placeholder for publications that were not found,
\* and the seniority at the end of a summary there is.
JevValidated(upload, jev, doc) ==
  [f \in Fields |->
     IF jev # None /\ jev.publications = "likely" /\ ~Has(doc, "publications") /\ f[1] = "publications"
     THEN IF f[2] = "citation" THEN "text" ELSE "null"
     ELSE IF /\ f = <<"top", "summary">> /\ doc[f] = "text"
             /\ jev # None /\ jev.seniority = "scored" /\ Tight(upload)
     THEN "unfit"
     ELSE doc[f]]

\* _parse_cv_response: an answer that is missing or empty is None; one that is
\* no object fails the call.  A value of another type ("word") goes through.
JevProfile(reply) ==
  [publications |-> IF reply.publications = "missing" THEN "none" ELSE reply.publications,
   seniority |-> IF reply.seniority \in {"missing", "zero"} THEN "none" ELSE reply.seniority]

\* What analyze_cv returns; None when the call failed.
Analyses == {JevProfile(reply) : reply \in JevReplies} \cup {None}

\* _apply_jev_validation compares a probability with 0.7 and makes an int of a score.
Applies(jev) == jev # None => jev.publications # "word" /\ jev.seniority # "word"

\* import_cv cuts the name at a | or a middle dot: nothing is left of one that
\* begins with it.
Cleaned(upload, doc) ==
  [doc EXCEPT ![<<"contact", "full_name">>] = IF "mark first" \in upload.facts THEN "blank" ELSE @]

\* What an import makes of a file.
Imported(upload, jev) == Cleaned(upload, JevValidated(upload, jev, Parsed(upload)))

Importable(upload, jev) ==
  /\ upload.kind # "scan"
  /\ Accepts(Parsed(upload)) /\ Applies(jev) /\ Accepts(Imported(upload, jev))

-----------------------------------------------------------------------------
NoData == [doc |-> [f \in Fields |-> "absent"], by |-> [s \in Names |-> None]]

\* empty_profile_data
EmptyProfile == [NoData EXCEPT !.doc = Validated(@)]

Idle == [pc |-> "new", op |-> "none", target |-> None, section |-> "none",
         held |-> NoData.by, new |-> NoData, dirty |-> FALSE,
         reply |-> "none", upload |-> None]

\* A user with one empty profile.
Init ==
  /\ rows \in {[p \in Profiles |-> IF p = q THEN EmptyProfile ELSE None] : q \in Profiles}
  /\ locked = [p \in Profiles |-> None]
  /\ req = [r \in Requests |-> Idle]
  /\ jobs = [r \in Requests |-> "not_found"]
  /\ restarts = 0

Set(r, call) == req' = [req EXCEPT ![r] = call]

\* Mutant: the end of a request leaves the row locked.
KeepLocked(r) == locked

Unlock(r) == [p \in Profiles |-> IF locked[p] = r THEN None ELSE locked[p]]

\* The request is over; an import has a reply of its own kind and a job.
Finish(r, reply) ==
  /\ Set(r, [req[r] EXCEPT !.pc = "done", !.reply = reply, !.held = NoData.by])
  /\ locked' = Unlock(r)
  /\ jobs' = IF req[r].op = "import" THEN [jobs EXCEPT ![r] = reply] ELSE jobs
  /\ UNCHANGED restarts

Error(r) == IF req[r].op = "import" THEN "failed" ELSE "500"

\* _get_owned_profile finds the row.
Load(r, p) == req[r].pc = "new" /\ rows[p] # None /\ UNCHANGED <<rows, locked, jobs, restarts>>

\* update_profile with profile_data, which the API has validated: the session
\* compares it with what it loaded.
Update(r, p, doc) ==
  /\ Load(r, p) /\ Accepts(doc)
  /\ Set(r, [req[r] EXCEPT !.pc = "save", !.op = "update", !.target = p, !.section = "all",
             !.held = rows[p].by, !.new = Written(r, doc), !.dirty = Written(r, doc) # rows[p]])

\* Is there a value for the section once None is left out of the body?
Given(patch) == ~ \E f \in Of("top", Parts("top")) : SectionOf(f) = patch.section /\ patch.doc[f] = "null"

\* Mutant: the profile is rebuilt from the section alone.
SectionOnly(r, data, patch) ==
  [doc |-> [f \in Fields |-> IF SectionOf(f) = patch.section THEN patch.doc[f] ELSE "absent"],
   by |-> [s \in Names |-> r]]

\* current[section_name] = the section as it was sent, None left out.
Current(r, data, patch) ==
  IF ~Given(patch) THEN data
  ELSE [doc |-> [f \in Fields |->
                   IF SectionOf(f) # patch.section THEN data.doc[f]
                   ELSE IF patch.doc[f] = "null" THEN "absent" ELSE patch.doc[f]],
        by |-> [data.by EXCEPT ![patch.section] = r]]

Revalidated(data) == [data EXCEPT !.doc = Validated(@)]

\* patch_section.  `current` is the dict the session loaded, changed in place:
\* what the flush compares with the validated copy has the patch already.
PatchSection(r, p, patch) ==
  /\ Load(r, p)
  /\ LET current == Current(r, rows[p], patch) IN
     IF Accepts(current.doc)
     THEN Set(r, [req[r] EXCEPT !.pc = "save", !.op = "patch", !.target = p,
                  !.section = IF Given(patch) THEN patch.section ELSE "none",
                  !.held = rows[p].by, !.new = Revalidated(current),
                  !.dirty = Revalidated(current) # current])
     ELSE Set(r, [req[r] EXCEPT !.pc = "done", !.op = "patch", !.target = p, !.reply = "404"])

Delete(r, p) ==
  /\ Load(r, p)
  /\ Set(r, [req[r] EXCEPT !.pc = "save", !.op = "delete", !.target = p, !.dirty = TRUE])

\* A fresh uuid4.
Fresh(p) == rows[p] = None /\ \A r \in Requests : req[r].target # p

Create(r, p, doc) ==
  /\ req[r].pc = "new" /\ Fresh(p) /\ Accepts(doc)
  /\ Set(r, [req[r] EXCEPT !.pc = "insert", !.op = "create", !.target = p, !.section = "all",
             !.new = Written(r, doc)])
  /\ UNCHANGED <<rows, locked, jobs, restarts>>

\* import_cv up to create_profile: Jev may fail, then the text alone counts.
Import(r, p, upload, jev) ==
  /\ req[r].pc = "new" /\ Fresh(p)
  /\ \/ /\ ~Uploadable(upload)
        /\ Set(r, [req[r] EXCEPT !.pc = "done", !.op = "import", !.reply = "422"])
        /\ UNCHANGED jobs
     \/ /\ Uploadable(upload)
        /\ IF Importable(upload, jev)
           THEN /\ Set(r, [req[r] EXCEPT !.pc = "insert", !.op = "import", !.target = p, !.section = "all",
                           !.new = Written(r, Imported(upload, jev)), !.upload = upload])
                /\ UNCHANGED jobs
           ELSE /\ Set(r, [req[r] EXCEPT !.pc = "done", !.op = "import", !.reply = "failed"])
                /\ jobs' = [jobs EXCEPT ![r] = "failed"]
  /\ UNCHANGED <<rows, locked, restarts>>

-----------------------------------------------------------------------------
\* Mutant: a row that is gone is written again.
SaveAnyway(r) ==
  LET p == req[r].target IN
  /\ req[r].pc = "save" /\ locked[p] = None
  /\ locked' = [locked EXCEPT ![p] = r]
  /\ Set(r, [req[r] EXCEPT !.pc = "commit"])
  /\ UNCHANGED <<rows, jobs, restarts>>

\* The flush waits for a lock; the UPDATE or the refresh of a row that is gone
\* raises, a DELETE of it only warns.
Save(r) ==
  LET p == req[r].target IN
  /\ req[r].pc = "save"
  /\ req[r].dirty => locked[p] = None
  /\ IF rows[p] = None /\ req[r].op # "delete"
     THEN Finish(r, "500") /\ UNCHANGED rows
     ELSE /\ locked' = IF req[r].dirty THEN [locked EXCEPT ![p] = r] ELSE locked
          /\ Set(r, [req[r] EXCEPT !.pc = "commit", !.new = IF req[r].dirty THEN @ ELSE rows[p]])
          /\ UNCHANGED <<rows, jobs, restarts>>

Commit(r) ==
  LET p == req[r].target IN
  /\ req[r].pc = "commit"
  /\ rows' = IF req[r].op = "delete" THEN [rows EXCEPT ![p] = None]
             ELSE IF req[r].dirty THEN [rows EXCEPT ![p] = req[r].new] ELSE rows
  /\ Finish(r, "200")

\* create_profile commits before it refreshes.
Insert(r) ==
  /\ req[r].pc = "insert"
  /\ rows' = [rows EXCEPT ![req[r].target] = req[r].new]
  /\ Set(r, [req[r] EXCEPT !.pc = "created"])
  /\ UNCHANGED <<locked, jobs, restarts>>

Created(r) ==
  /\ req[r].pc = "created"
  /\ Finish(r, IF rows[req[r].target] = None THEN Error(r)
               ELSE IF req[r].op = "import" THEN "completed" ELSE "201")
  /\ UNCHANGED rows

\* A statement fails: the transaction is rolled back, what was committed stays.
StatementFails(r) ==
  /\ req[r].pc \in {"save", "insert", "created", "commit"}
  /\ Finish(r, Error(r))
  /\ UNCHANGED rows

\* The requests of the process end without a reply, and it forgets the jobs.
ApiRestarts ==
  /\ restarts < MaxRestarts
  /\ restarts' = restarts + 1
  /\ req' = [r \in Requests |-> IF req[r].pc \in {"new", "done"} THEN req[r]
                                ELSE [req[r] EXCEPT !.pc = "done", !.held = NoData.by]]
  /\ locked' = [p \in Profiles |-> None]
  /\ jobs' = [r \in Requests |-> "not_found"]
  /\ UNCHANGED rows

Next ==
  \/ \E r \in Requests :
       \/ Save(r) \/ Commit(r) \/ Insert(r) \/ Created(r) \/ StatementFails(r)
       \/ \E p \in Profiles :
            \/ Delete(r, p)
            \/ \E patch \in Patches : PatchSection(r, p, patch)
            \/ \E doc \in Contents : Update(r, p, doc) \/ Create(r, p, doc)
            \/ \E upload \in Uploads, jev \in Analyses : Import(r, p, upload, jev)
  \/ ApiRestarts

Spec == Init /\ [][Next]_vars

-----------------------------------------------------------------------------
(* Properties.                                                             *)

Calls == [pc : {"new", "save", "insert", "created", "commit", "done"},
          op : {"none", "update", "patch", "delete", "create", "import"},
          target : Profiles \cup {None},
          section : Names \cup {"none", "all"},
          held : Authors, new : Data, dirty : BOOLEAN,
          reply : {"none", "200", "201", "404", "422", "500", "failed", "completed"},
          upload : Uploads \cup {None}]

\* Every variable has its type, a row is written by one transaction at a time,
\* and that one is about to commit.
TypeOK ==
  /\ rows \in [Profiles -> Data \cup {None}]
  /\ locked \in [Profiles -> Requests \cup {None}]
  /\ req \in [Requests -> Calls]
  /\ jobs \in [Requests -> {"not_found", "failed", "completed"}]
  /\ restarts \in 0 .. MaxRestarts
  /\ \A p \in Profiles : locked[p] # None =>
       req[locked[p]].pc = "commit" /\ req[locked[p]].target = p

\* "validated on every write" (schemas.py:101): whatever requests write, and
\* whatever they had loaded, a stored profile is complete and valid, so that the
\* list of profiles, which validates them all, can always be shown.
StoredIsValid ==
  \A p \in Profiles : rows[p] # None =>
    Accepts(rows[p].doc) /\ Validated(rows[p].doc) = rows[p].doc

\* Edits are lost to concurrent ones only: a section changes hands to a request
\* that is about it, or goes back to what a request had loaded before the edit
\* that is lost was committed (patch_section and update_profile write everything).
LostOnlyToConcurrent ==
  [][\A p \in Profiles, s \in Names :
       (rows[p] # None /\ rows'[p] # None /\ rows'[p].by[s] # rows[p].by[s]) =>
         \E r \in Requests :
           /\ req[r].pc = "commit" /\ req[r].target = p
           /\ \/ req[r].section \in {s, "all"} /\ rows'[p].by[s] = r
              \/ /\ rows'[p].by[s] = req[r].held[s]
                 /\ rows[p].by[s] # req[r].held[s]]_vars

\* A profile whose deletion was answered never comes back, not even by a request
\* that had loaded it before and saves it after.
DeletedStaysDeleted ==
  \A r \in Requests :
    req[r].op = "delete" /\ req[r].reply = "200" => rows[req[r].target] = None

\* The document has every text an import without Jev would give it.
KeepsText(upload, doc) ==
  \A f \in ProfileFields : Imported(upload, None)[f] = "text" => doc[f] = "text"

\* What Jev says only adds to what the file itself gave: an import that Jev took
\* part in, with whatever it answered, stores all an import without Jev would.
JevOnlyAdds ==
  \A r \in Requests : req[r].op = "import" /\ req[r].reply = "completed" =>
    KeepsText(req[r].upload, req[r].new.doc)

\* Everything a renderer would print of a stored profile is in the prompt that
\* asks for a CV from it: assemble_prompt leaves no part out.
PromptShowsProfile ==
  \A p \in Profiles : rows[p] # None =>
    \A t \in Templates : Docx(rows[p].doc, t) \subseteq Prompt(rows[p].doc)

-----------------------------------------------------------------------------
(* What the repository says and the code does not do.                      *)

\* docs/SPRINTS.md:390: "live section patching (all 10 valid sections)": a patch
\* that is answered 200 has changed its section.
PatchTakesEffect ==
  \A r \in Requests :
    req[r].op = "patch" /\ req[r].reply = "200" /\ req[r].section # "none" =>
      req[r].new.by[req[r].section] = r
=============================================================================
