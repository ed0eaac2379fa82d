------------------------ MODULE ProfileEditingProofs ------------------------
(***************************************************************************)
(* What edits, deletions and imports do to the profiles, for any number of *)
(* them: whatever is about to be written is valid, since its validation    *)
(* leaves nothing that a second one would change; the row lock and the     *)
(* fresh keys keep writers of one row apart, so a deleted profile stays    *)
(* deleted and an edit is lost to a concurrent one only.                   *)
(***************************************************************************)
EXTENDS ProfileEditing, TLAPS

USE EditingAssumption

-----------------------------------------------------------------------------
(* Documents.                                                              *)

Documents == [Fields -> Values]

\* Every field is a part of a section.
LEMMA FieldParts ==
  ASSUME NEW f \in Fields
  PROVE  f[1] \in Sections /\ f[2] \in Parts(f[1]) /\ f = <<f[1], f[2]>>
BY DEF Fields, Of

LEMMA PartFields ==
  ASSUME NEW s \in Sections, NEW part \in Parts(s)
  PROVE  <<s, part>> \in Fields /\ <<s, part>>[1] = s
BY DEF Fields, Of

LEMMA DefaultType == \A f \in Fields : Default(f) \in {"null", "blank"}
BY DEF Default

LEMMA ValidatedType ==
  ASSUME NEW doc \in Documents
  PROVE  Validated(doc) \in Documents
BY DefaultType DEF Validated, Documents, Values

\* A document that validation has completed is not changed by another one.
LEMMA ValidatedTwice ==
  ASSUME NEW doc \in Documents
  PROVE  Validated(Validated(doc)) = Validated(doc)
<1> DEFINE once == Validated(doc)
<1>1. ASSUME NEW f \in Fields, f \in ProfileFields, once[f] = "absent", Has(once, f[1])
      PROVE  FALSE
  <2>1. ~Has(doc, f[1]) /\ doc[f] = "absent"
    BY <1>1, DefaultType DEF Validated
  <2>2. f[1] \notin Standing
    BY <2>1 DEF Has
  <2>3. PICK part \in Parts(f[1]) : once[<<f[1], part>>] # "absent"
    BY <1>1, <2>2 DEF Has
  <2>4. <<f[1], part>> \in Fields /\ <<f[1], part>>[1] = f[1]
    BY FieldParts, PartFields
  <2>5. once[<<f[1], part>>] \in {doc[<<f[1], part>>], "absent"}
    BY <2>1, <2>4 DEF Validated
  <2> QED
    BY <2>1, <2>3, <2>5 DEF Has
<1>2. \A f \in Fields : Validated(once)[f] = once[f]
  BY <1>1 DEF Validated
<1>3. once \in [Fields -> Values] /\ Validated(once) \in [Fields -> Values]
  BY ValidatedType DEF Documents
<1> QED
  BY <1>2, <1>3

\* Validation accepts what it has completed.
LEMMA ValidatedAccepted ==
  ASSUME NEW doc \in Documents, Accepts(doc)
  PROVE  Accepts(Validated(doc))
<1> SUFFICES ASSUME NEW f \in ProfileFields
             PROVE  \/ Validated(doc)[f] \in {"absent", "blank", "text", "now"}
                    \/ f \in Nullable /\ Validated(doc)[f] = "null"
  BY DEF Accepts
<1>1. f \in Fields
  BY DEF ProfileFields
<1>2. CASE Validated(doc)[f] = doc[f]
  BY <1>2 DEF Accepts
<1>3. CASE Validated(doc)[f] = Default(f)
  BY <1>3 DEF Default
<1> QED
  BY <1>1, <1>2, <1>3 DEF Validated

\* What may stand in a row.
Valid(data) == Accepts(data.doc) /\ Validated(data.doc) = data.doc

LEMMA RevalidatedValid ==
  ASSUME NEW data \in Data, Accepts(data.doc)
  PROVE  Revalidated(data) \in Data /\ Valid(Revalidated(data))
<1>1. data.doc \in Documents
  BY DEF Data, Documents
<1>2. Revalidated(data).doc = Validated(data.doc) /\ Revalidated(data) \in Data
  BY <1>1, ValidatedType DEF Revalidated, Data, Documents
<1> QED
  BY <1>1, <1>2, ValidatedTwice, ValidatedAccepted DEF Valid

LEMMA WrittenValid ==
  ASSUME NEW r \in Requests, NEW doc \in Documents
  PROVE  /\ Written(r, doc) \in Data
         /\ Accepts(doc) => Valid(Written(r, doc))
         /\ \A s \in Names : Written(r, doc).by[s] = r
<1>1. Written(r, doc) \in Data
  BY ValidatedType DEF Written, Data, Documents, Authors
<1> QED
  BY <1>1, ValidatedTwice, ValidatedAccepted DEF Written, Valid

LEMMA CurrentType ==
  ASSUME NEW r \in Requests, NEW data \in Data, NEW patch \in Patches
  PROVE  /\ Current(r, data, patch) \in Data
         /\ \A s \in Names : \/ Given(patch) /\ s = patch.section
                                /\ Current(r, data, patch).by[s] = r
                             \/ Current(r, data, patch).by[s] = data.by[s]
<1>1. patch.section \in Names /\ patch.doc \in [Fields -> Values]
  OBVIOUS
<1>2. data.doc \in [Fields -> Values] /\ data.by \in Authors
  BY DEF Data
<1>3. CASE ~Given(patch)
  BY <1>3 DEF Current
<1>4. CASE Given(patch)
  <2>1. Current(r, data, patch).doc \in [Fields -> Values]
    BY <1>1, <1>2, <1>4 DEF Current, Values
  <2>2. Current(r, data, patch).by = [data.by EXCEPT ![patch.section] = r]
    BY <1>4 DEF Current
  <2>3. Current(r, data, patch) = [doc |-> Current(r, data, patch).doc,
                                   by |-> Current(r, data, patch).by]
    BY <1>4 DEF Current
  <2>4. Current(r, data, patch).by \in Authors
    BY <1>1, <1>2, <2>2 DEF Authors
  <2>5. \A s \in Names : Current(r, data, patch).by[s] = IF s = patch.section THEN r ELSE data.by[s]
    BY <1>1, <1>2, <2>2 DEF Authors
  <2>6. Current(r, data, patch) \in Data
    BY <2>1, <2>3, <2>4 DEF Data
  <2> QED
    BY <1>4, <2>5, <2>6
<1> QED
  BY <1>3, <1>4

LEMMA ImportedType ==
  ASSUME NEW upload, NEW jev
  PROVE  Parsed(upload) \in Documents /\ Imported(upload, jev) \in Documents
<1>1. Parsed(upload) \in Documents
  BY DefaultType DEF Parsed, Documents, Values
<1> QED
  BY <1>1 DEF Imported, Cleaned, JevValidated, Documents, Values

\* Jev adds publications where there are none, and to a summary; what makes the
\* summary too long is not imported.
LEMMA ImportAdds ==
  ASSUME NEW r, NEW upload, NEW jev, Importable(upload, jev)
  PROVE  KeepsText(upload, Written(r, Imported(upload, jev)).doc)
<1> DEFINE doc == Imported(upload, jev)
           name == <<"contact", "full_name">>
<1> SUFFICES ASSUME NEW f \in ProfileFields, Imported(upload, None)[f] = "text"
             PROVE  Validated(doc)[f] = "text"
  BY DEF KeepsText, Written
<1>1. f \in Fields /\ f[2] \in Parts(f[1]) /\ f = <<f[1], f[2]>>
  BY FieldParts DEF ProfileFields
<1>2. Parsed(upload) \in Documents /\ doc \in Documents
  BY ImportedType
<1>3. /\ \A g \in Fields : JevValidated(upload, None, Parsed(upload))[g] = Parsed(upload)[g]
      /\ JevValidated(upload, None, Parsed(upload)) \in Documents
  BY <1>2 DEF JevValidated, Documents
<1>4. /\ Parsed(upload)[f] = "text"
      /\ f = name => "mark first" \notin upload.facts
  BY <1>1, <1>3 DEF Imported, Cleaned, Documents
<1>5. f[1] = "publications" => Has(Parsed(upload), "publications")
  BY <1>1, <1>4 DEF Has
<1>6. LET d == JevValidated(upload, jev, Parsed(upload)) IN
      /\ d[f] = "text" \/ (f = <<"top", "summary">> /\ d[f] = "unfit")
      /\ DOMAIN d = Fields
  BY <1>1, <1>4, <1>5 DEF JevValidated
<1>7. doc[f] = "text" \/ (f = <<"top", "summary">> /\ doc[f] = "unfit")
  BY <1>1, <1>4, <1>6 DEF Imported, Cleaned
<1>8. doc[f] \in {"absent", "blank", "text", "now", "null"}
  BY DEF Importable, Accepts
<1>9. doc[f] = "text"
  BY <1>7, <1>8
<1> HIDE DEF doc
<1> QED
  BY <1>1, <1>9 DEF Validated

LEMMA EmptyValid == EmptyProfile \in Data /\ Valid(EmptyProfile) /\ NoData \in Data
<1>1. NoData \in Data
  BY DEF NoData, Data, Authors, Values
<1>2. Accepts(NoData.doc)
  BY DEF NoData, Accepts, ProfileFields
<1>3. EmptyProfile = Revalidated(NoData)
  BY DEF EmptyProfile, Revalidated
<1> QED
  BY <1>1, <1>2, <1>3, RevalidatedValid

-----------------------------------------------------------------------------
(* Requests.                                                               *)

Writing(r) == req[r].pc \in {"save", "commit"} /\ req[r].dirty /\ req[r].op # "delete"

\* What is about to be written is valid and keeps to the section it is about.
Prepared(r) ==
  /\ req[r].pc = "insert" \/ Writing(r) => Valid(req[r].new)
  /\ Writing(r) =>
       \A s \in Names : \/ req[r].section \in {s, "all"} /\ req[r].new.by[s] = r
                        \/ req[r].new.by[s] = req[r].held[s]

\* Whoever writes a row has it for itself: an insert has a key of its own, and an
\* update or a deletion has the lock of a row there is.
Apart(r) ==
  /\ req[r].pc = "new" => req[r].target = None /\ req[r].op = "none"
  /\ req[r].reply # "none" => req[r].pc = "done"
  /\ req[r].pc \in {"insert", "save", "commit"} => req[r].target \in Profiles
  /\ req[r].pc = "insert" =>
       /\ rows[req[r].target] = None
       /\ \A q \in Requests : req[q].target = req[r].target => q = r
  /\ req[r].pc \in {"save", "commit"} => req[r].op \in {"update", "patch", "delete"}
  /\ req[r].pc \in {"save", "commit"} /\ req[r].op = "delete" => req[r].dirty
  /\ req[r].pc = "commit" /\ req[r].dirty => locked[req[r].target] = r
  /\ req[r].pc = "commit" /\ req[r].op # "delete" /\ req[r].dirty => rows[req[r].target] # None

\* An import that got as far as its insert holds all the file itself gave.
Imports(r) ==
  req[r].op = "import" /\ (req[r].pc \in {"insert", "created"} \/ req[r].reply = "completed") =>
    KeepsText(req[r].upload, req[r].new.doc)

Discipline ==
  /\ StoredIsValid /\ DeletedStaysDeleted
  /\ \A r \in Requests : Prepared(r) /\ Apart(r) /\ Imports(r)

LEMMA EditingInit == Init => TypeOK /\ Discipline
<1> SUFFICES ASSUME Init PROVE TypeOK /\ Discipline
  OBVIOUS
<1>1. Idle \in Calls
  <2>1. NoData.by \in Authors /\ None \in Analyses
    BY EmptyValid DEF Data, Analyses
  <2> QED
    BY <2>1, EmptyValid DEF Idle, Calls
<1>2. \A r \in Requests : req[r] = Idle
  BY DEF Init
<1>3. \A p \in Profiles : rows[p] \in {EmptyProfile, None}
  BY DEF Init
<1>4. rows \in [Profiles -> Data \cup {None}]
  BY EmptyValid DEF Init
<1>5. TypeOK
  <2>1. req \in [Requests -> Calls]
    BY <1>1 DEF Init
  <2>2. \A p \in Profiles : locked[p] = None
    BY DEF Init
  <2> QED
    BY <1>4, <2>1, <2>2 DEF Init, TypeOK
<1>6. StoredIsValid
  BY <1>3, EmptyValid DEF StoredIsValid, Valid
<1>7. \A r \in Requests : Prepared(r) /\ Apart(r) /\ Imports(r)
  BY <1>2 DEF Idle, Prepared, Apart, Imports, Writing
<1>8. DeletedStaysDeleted
  BY <1>2 DEF Idle, DeletedStaysDeleted
<1> QED
  BY <1>5, <1>6, <1>7, <1>8 DEF Discipline

\* A request that writes nothing changes nothing for the others.
LEMMA OthersKeep ==
  ASSUME TypeOK, Discipline, NEW r \in Requests, NEW call, Set(r, call),
         rows' = rows,
         \A q \in Requests \ {r} : req[q].pc = "insert" => call.target # req[q].target,
         \A q \in Requests \ {r}, p \in Profiles : locked[p] = q => locked'[p] = q
  PROVE  \A q \in Requests \ {r} : Prepared(q)' /\ Apart(q)' /\ Imports(q)'
<1> SUFFICES ASSUME NEW q \in Requests \ {r} PROVE Prepared(q)' /\ Apart(q)' /\ Imports(q)'
  OBVIOUS
<1>1. req'[q] = req[q] /\ req'[r] = call /\ \A k \in Requests \ {r} : req'[k] = req[k]
  BY DEF Set, TypeOK
<1>2. Prepared(q) /\ Apart(q) /\ Imports(q)
  BY DEF Discipline
<1>3. Prepared(q)' /\ Imports(q)'
  BY <1>1, <1>2 DEF Prepared, Imports, Writing
<1>4. Apart(q)'
  BY <1>1, <1>2 DEF Apart
<1> QED
  BY <1>3, <1>4

\* A request that loads its row, or draws a fresh key, meets no insert.
LEMMA BeginKeeps ==
  ASSUME TypeOK, Discipline, NEW r \in Requests, req[r].pc = "new", NEW call \in Calls,
         Set(r, call), UNCHANGED <<rows, locked, restarts>>,
         jobs' \in [Requests -> {"not_found", "failed", "completed"}],
         \/ call.target = None
         \/ call.target \in Profiles /\ rows[call.target] # None
         \/ call.target \in Profiles /\ Fresh(call.target),
         call.reply # "200", call.pc # "commit",
         Prepared(r)', Apart(r)', Imports(r)'
  PROVE  TypeOK' /\ Discipline'
<1>1. \A q \in Requests \ {r} : req'[q] = req[q]
  BY DEF Set, TypeOK
<1>2. TypeOK'
  <2>1. req' \in [Requests -> Calls]
    BY DEF TypeOK, Set
  <2>2. \A p \in Profiles : locked[p] # None => locked[p] # r /\ locked[p] \in Requests
    BY DEF TypeOK
  <2>3. \A p \in Profiles : locked'[p] # None =>
          req'[locked'[p]].pc = "commit" /\ req'[locked'[p]].target = p
    BY <1>1, <2>2 DEF TypeOK
  <2> QED
    BY <2>1, <2>3 DEF TypeOK
<1>3. \A q \in Requests \ {r} : req[q].pc = "insert" => call.target # req[q].target
  BY DEF Discipline, Apart, Fresh
<1>4. \A q \in Requests \ {r} : Prepared(q)' /\ Apart(q)' /\ Imports(q)'
  BY <1>3, OthersKeep
<1>5. StoredIsValid'
  BY DEF Discipline, StoredIsValid
<1>6. DeletedStaysDeleted'
  BY <1>1 DEF Discipline, DeletedStaysDeleted, Set, TypeOK
<1> QED
  BY <1>2, <1>4, <1>5, <1>6 DEF Discipline

\* What a request keeps of the row it has loaded and the value it means to write.
LEMMA LoadedCall ==
  ASSUME NEW call \in Calls, NEW p \in Profiles, NEW section \in Names \cup {"none", "all"},
         NEW held \in Authors, NEW op \in {"update", "patch"}, NEW new \in Data, NEW dirty \in BOOLEAN
  PROVE  [call EXCEPT !.pc = "save", !.op = op, !.target = p, !.section = section,
                      !.held = held, !.new = new, !.dirty = dirty] \in Calls
BY DEF Calls

LEMMA UpdateKeeps ==
  ASSUME TypeOK, Discipline, NEW r \in Requests, NEW p \in Profiles, NEW doc \in Contents,
         Update(r, p, doc)
  PROVE  TypeOK' /\ Discipline'
<1> DEFINE call == [req[r] EXCEPT !.pc = "save", !.op = "update", !.target = p, !.section = "all",
                     !.held = rows[p].by, !.new = Written(r, doc), !.dirty = Written(r, doc) # rows[p]]
<1>1. req[r].pc = "new" /\ rows[p] # None /\ Set(r, call) /\ Accepts(doc)
      /\ UNCHANGED <<rows, locked, jobs, restarts>>
  BY DEF Update, Load
<1>2. /\ Written(r, doc) \in Data /\ Valid(Written(r, doc))
      /\ \A s \in Names : Written(r, doc).by[s] = r
  BY <1>1, WrittenValid DEF Documents
<1>3. req[r] \in Calls /\ rows[p] \in Data /\ rows[p].by \in Authors
  BY <1>1 DEF TypeOK, Data
<1>4. call \in Calls
  <2> DEFINE dirty == Written(r, doc) # rows[p]
  <2>1. dirty \in BOOLEAN
    OBVIOUS
  <2> HIDE DEF dirty
  <2>2. [req[r] EXCEPT !.pc = "save", !.op = "update", !.target = p, !.section = "all",
           !.held = rows[p].by, !.new = Written(r, doc), !.dirty = dirty] \in Calls
    BY <1>2, <1>3, <2>1, LoadedCall
  <2> QED
    BY <2>2 DEF dirty
<1>5. req'[r] = call
  BY <1>1 DEF Set, TypeOK
<1>6. req[r].reply = "none"
  BY <1>1 DEF Discipline, Apart
<1>7. /\ call.pc = "save" /\ call.op = "update" /\ call.target = p /\ call.section = "all"
      /\ call.new = Written(r, doc) /\ call.reply = "none"
  BY <1>3, <1>6 DEF Calls
<1> HIDE DEF call
<1>8. Prepared(r)' /\ Apart(r)' /\ Imports(r)'
  BY <1>2, <1>5, <1>7 DEF Prepared, Apart, Imports, Writing
<1> QED
  BY <1>1, <1>4, <1>7, <1>8, BeginKeeps DEF TypeOK

LEMMA PatchKeeps ==
  ASSUME TypeOK, Discipline, NEW r \in Requests, NEW p \in Profiles, NEW patch \in Patches,
         PatchSection(r, p, patch)
  PROVE  TypeOK' /\ Discipline'
<1> DEFINE current == Current(r, rows[p], patch)
           saves == [req[r] EXCEPT !.pc = "save", !.op = "patch", !.target = p,
                      !.section = IF Given(patch) THEN patch.section ELSE "none",
                      !.held = rows[p].by, !.new = Revalidated(current),
                      !.dirty = Revalidated(current) # current]
           refused == [req[r] EXCEPT !.pc = "done", !.op = "patch", !.target = p, !.reply = "404"]
<1>1. /\ req[r].pc = "new" /\ rows[p] # None /\ UNCHANGED <<rows, locked, jobs, restarts>>
      /\ \/ Accepts(current.doc) /\ Set(r, saves)
         \/ Set(r, refused)
  BY DEF PatchSection, Load
<1>2. req[r] \in Calls /\ rows[p] \in Data /\ rows[p].by \in Authors
  BY <1>1 DEF TypeOK, Data
<1>3. req[r].reply = "none"
  BY <1>1 DEF Discipline, Apart
<1>4. CASE Accepts(current.doc) /\ Set(r, saves)
  <2>1. /\ current \in Data
        /\ \A s \in Names : \/ Given(patch) /\ s = patch.section /\ current.by[s] = r
                            \/ current.by[s] = rows[p].by[s]
    BY <1>2, CurrentType
  <2> HIDE DEF current
  <2>2. Revalidated(current) \in Data /\ Valid(Revalidated(current))
        /\ Revalidated(current).by = current.by
    BY <1>4, <2>1, RevalidatedValid DEF Revalidated, Data
  <2>3. saves \in Calls
    <3> DEFINE section == IF Given(patch) THEN patch.section ELSE "none"
               dirty == Revalidated(current) # current
    <3>1. section \in Names \cup {"none", "all"} /\ dirty \in BOOLEAN
      OBVIOUS
    <3> HIDE DEF section, dirty
    <3>2. [req[r] EXCEPT !.pc = "save", !.op = "patch", !.target = p, !.section = section,
             !.held = rows[p].by, !.new = Revalidated(current), !.dirty = dirty] \in Calls
      BY <1>2, <2>2, <3>1, LoadedCall
    <3> QED
      BY <3>2 DEF section, dirty
  <2>4. /\ saves.pc = "save" /\ saves.op = "patch" /\ saves.target = p
        /\ saves.section = (IF Given(patch) THEN patch.section ELSE "none")
        /\ saves.new = Revalidated(current) /\ saves.held = rows[p].by /\ saves.reply = "none"
    BY <1>2, <1>3 DEF Calls
  <2>5. req'[r] = saves
    BY <1>4 DEF Set, TypeOK
  <2> HIDE DEF saves
  <2>6. Prepared(r)' /\ Apart(r)' /\ Imports(r)'
    BY <2>1, <2>2, <2>4, <2>5 DEF Prepared, Apart, Imports, Writing
  <2> QED
    BY <1>1, <1>4, <2>3, <2>4, <2>6, BeginKeeps DEF TypeOK
<1>5. CASE Set(r, refused)
  <2>1. refused \in Calls
    BY <1>2 DEF Calls
  <2>2. refused.pc = "done" /\ refused.op = "patch" /\ refused.target = p /\ refused.reply = "404"
    BY <1>2 DEF Calls
  <2>3. req'[r] = refused
    BY <1>5 DEF Set, TypeOK
  <2> HIDE DEF refused
  <2>4. Prepared(r)' /\ Apart(r)' /\ Imports(r)'
    BY <2>2, <2>3 DEF Prepared, Apart, Imports, Writing
  <2> QED
    BY <1>1, <1>5, <2>1, <2>2, <2>4, BeginKeeps DEF TypeOK
<1> QED
  BY <1>1, <1>4, <1>5

LEMMA DeleteKeeps ==
  ASSUME TypeOK, Discipline, NEW r \in Requests, NEW p \in Profiles, Delete(r, p)
  PROVE  TypeOK' /\ Discipline'
<1> DEFINE call == [req[r] EXCEPT !.pc = "save", !.op = "delete", !.target = p, !.dirty = TRUE]
<1>1. req[r].pc = "new" /\ rows[p] # None /\ Set(r, call)
      /\ UNCHANGED <<rows, locked, jobs, restarts>>
  BY DEF Delete, Load
<1>2. req[r] \in Calls /\ req[r].reply = "none"
  BY <1>1 DEF TypeOK, Discipline, Apart
<1>3. call \in Calls
  BY <1>2 DEF Calls
<1>4. /\ call.pc = "save" /\ call.op = "delete" /\ call.target = p /\ call.dirty
      /\ call.reply = "none"
  BY <1>2 DEF Calls
<1>5. req'[r] = call
  BY <1>1 DEF Set, TypeOK
<1> HIDE DEF call
<1>6. Prepared(r)' /\ Apart(r)' /\ Imports(r)'
  BY <1>4, <1>5 DEF Prepared, Apart, Imports, Writing
<1> QED
  BY <1>1, <1>3, <1>4, <1>6, BeginKeeps DEF TypeOK

LEMMA CreateKeeps ==
  ASSUME TypeOK, Discipline, NEW r \in Requests, NEW p \in Profiles, NEW doc \in Contents,
         Create(r, p, doc)
  PROVE  TypeOK' /\ Discipline'
<1> DEFINE call == [req[r] EXCEPT !.pc = "insert", !.op = "create", !.target = p, !.section = "all",
                     !.new = Written(r, doc)]
<1>1. req[r].pc = "new" /\ Fresh(p) /\ Set(r, call) /\ Accepts(doc)
      /\ UNCHANGED <<rows, locked, jobs, restarts>>
  BY DEF Create
<1>2. Written(r, doc) \in Data /\ Valid(Written(r, doc))
  BY <1>1, WrittenValid DEF Documents
<1>3. req[r] \in Calls /\ req[r].reply = "none"
  BY <1>1 DEF TypeOK, Discipline, Apart
<1>4. call \in Calls
  BY <1>2, <1>3 DEF Calls
<1>5. /\ call.pc = "insert" /\ call.op = "create" /\ call.target = p
      /\ call.new = Written(r, doc) /\ call.reply = "none"
  BY <1>3 DEF Calls
<1>6. req'[r] = call /\ \A q \in Requests \ {r} : req'[q] = req[q]
  BY <1>1 DEF Set, TypeOK
<1> HIDE DEF call
<1>7. Prepared(r)' /\ Apart(r)' /\ Imports(r)'
  BY <1>1, <1>2, <1>5, <1>6 DEF Prepared, Apart, Imports, Writing, Fresh
<1> QED
  BY <1>1, <1>4, <1>5, <1>7, BeginKeeps DEF TypeOK

LEMMA ImportKeeps ==
  ASSUME TypeOK, Discipline, NEW r \in Requests, NEW p \in Profiles, NEW upload \in Uploads,
         NEW jev \in Analyses,
         Import(r, p, upload, jev)
  PROVE  TypeOK' /\ Discipline'
<1> DEFINE unread == [req[r] EXCEPT !.pc = "done", !.op = "import", !.reply = "422"]
           failed == [req[r] EXCEPT !.pc = "done", !.op = "import", !.reply = "failed"]
           call == [req[r] EXCEPT !.pc = "insert", !.op = "import", !.target = p, !.section = "all",
                     !.new = Written(r, Imported(upload, jev)), !.upload = upload]
<1>1. /\ req[r].pc = "new" /\ Fresh(p) /\ UNCHANGED <<rows, locked, restarts>>
      /\ jobs' \in [Requests -> {"not_found", "failed", "completed"}]
      /\ \/ Set(r, unread) \/ Set(r, failed)
         \/ Set(r, call) /\ Importable(upload, jev)
  BY DEF Import, TypeOK
<1>2. req[r] \in Calls /\ req[r].reply = "none" /\ req[r].target = None
  BY <1>1 DEF TypeOK, Discipline, Apart
<1>3. ASSUME NEW ended \in {unread, failed}, Set(r, ended) PROVE TypeOK' /\ Discipline'
  <2>1. ended \in Calls
    <3>1. unread \in Calls
      BY <1>2 DEF Calls
    <3>2. failed \in Calls
      BY <1>2 DEF Calls
    <3> QED
      BY <3>1, <3>2
  <2>2. /\ ended.pc = "done" /\ ended.op = "import" /\ ended.target = None
        /\ ended.reply \in {"422", "failed"}
    BY <1>2 DEF Calls
  <2>3. req'[r] = ended
    BY <1>3 DEF Set, TypeOK
  <2>4. Prepared(r)' /\ Apart(r)' /\ Imports(r)'
    BY <2>2, <2>3 DEF Prepared, Apart, Imports, Writing
  <2> QED
    BY <1>1, <1>3, <2>1, <2>2, <2>4, BeginKeeps
<1>4. CASE Set(r, call) /\ Importable(upload, jev)
  <2>1. /\ Written(r, Imported(upload, jev)) \in Data
        /\ Valid(Written(r, Imported(upload, jev)))
    BY <1>4, WrittenValid, ImportedType DEF Importable
  <2>2. call \in Calls
    BY <1>2, <2>1 DEF Calls
  <2>3. /\ call.pc = "insert" /\ call.op = "import" /\ call.target = p
        /\ call.new = Written(r, Imported(upload, jev)) /\ call.reply = "none"
        /\ call.upload = upload
    BY <1>2 DEF Calls
  <2>4. req'[r] = call /\ \A q \in Requests \ {r} : req'[q] = req[q]
    BY <1>4 DEF Set, TypeOK
  <2> HIDE DEF call
  <2>5. Prepared(r)' /\ Apart(r)' /\ Imports(r)'
    BY <1>1, <1>4, <2>1, <2>3, <2>4, ImportAdds DEF Prepared, Apart, Imports, Writing, Fresh
  <2> QED
    BY <1>1, <1>4, <2>2, <2>3, <2>5, BeginKeeps
<1> QED
  BY <1>1, <1>3, <1>4

-----------------------------------------------------------------------------
(* Statements and commits.                                                 *)

LEMMA FinishType ==
  ASSUME TypeOK, NEW r \in Requests, NEW reply, Finish(r, reply),
         reply \in {"200", "201", "500", "failed", "completed"},
         req[r].op = "import" => reply \in {"failed", "completed"},
         rows' \in [Profiles -> Data \cup {None}]
  PROVE  /\ TypeOK'
         /\ req'[r] \in Calls /\ req'[r].pc = "done" /\ req'[r].reply = reply
         /\ req'[r].op = req[r].op /\ req'[r].target = req[r].target
         /\ req'[r].upload = req[r].upload /\ req'[r].new = req[r].new
         /\ req' = [req EXCEPT ![r] = req'[r]]
<1> DEFINE call == [req[r] EXCEPT !.pc = "done", !.reply = reply, !.held = NoData.by]
<1>1. req[r] \in Calls /\ NoData.by \in Authors
  BY EmptyValid DEF TypeOK, Data
<1>2. call \in Calls
  BY <1>1 DEF Calls
<1>3. /\ call.pc = "done" /\ call.reply = reply /\ call.op = req[r].op
      /\ call.target = req[r].target /\ call.upload = req[r].upload /\ call.new = req[r].new
  BY <1>1 DEF Calls
<1>4. req' = [req EXCEPT ![r] = call]
  BY DEF Finish, Set
<1> HIDE DEF call
<1>5. req' \in [Requests -> Calls] /\ req'[r] = call /\ \A q \in Requests \ {r} : req'[q] = req[q]
  BY <1>2, <1>4 DEF TypeOK
<1>6. locked' \in [Profiles -> Requests \cup {None}]
  BY DEF Finish, Unlock, TypeOK
<1>7. \A p \in Profiles : locked'[p] # None =>
        req'[locked'[p]].pc = "commit" /\ req'[locked'[p]].target = p
  <2> SUFFICES ASSUME NEW p \in Profiles, locked'[p] # None
               PROVE  req'[locked'[p]].pc = "commit" /\ req'[locked'[p]].target = p
    OBVIOUS
  <2>1. locked'[p] = locked[p] /\ locked[p] \in Requests \ {r}
    BY DEF Finish, Unlock, TypeOK
  <2> QED
    BY <1>5, <2>1 DEF TypeOK
<1>8. jobs' \in [Requests -> {"not_found", "failed", "completed"}] /\ restarts' = restarts
  BY DEF Finish, TypeOK
<1> QED
  BY <1>2, <1>3, <1>4, <1>5, <1>6, <1>7, <1>8 DEF TypeOK

\* What the request that has finished holds is of no account any more.
LEMMA DoneKeeps ==
  ASSUME NEW r \in Requests, req'[r].pc = "done", req[r].op = req'[r].op,
         req[r].upload = req'[r].upload, req[r].new = req'[r].new,
         req'[r].op = "import" /\ req'[r].reply = "completed" =>
           KeepsText(req[r].upload, req[r].new.doc)
  PROVE  Prepared(r)' /\ Apart(r)' /\ Imports(r)'
BY DEF Prepared, Apart, Imports, Writing

\* A request ends without having written a row.
LEMMA FinishKeeps ==
  ASSUME TypeOK, Discipline, NEW r \in Requests, NEW reply, Finish(r, reply), rows' = rows,
         reply \in {"200", "201", "500", "failed", "completed"},
         req[r].op = "import" =>
           \/ reply = "failed"
           \/ reply = "completed" /\ KeepsText(req[r].upload, req[r].new.doc),
         req[r].op = "delete" => reply # "200"
  PROVE  TypeOK' /\ Discipline'
<1>1. /\ TypeOK'
      /\ req'[r].pc = "done" /\ req'[r].reply = reply /\ req'[r].op = req[r].op
      /\ req'[r].target = req[r].target /\ req'[r].upload = req[r].upload
      /\ req'[r].new = req[r].new /\ req' = [req EXCEPT ![r] = req'[r]]
  BY FinishType DEF TypeOK
<1>2. Prepared(r)' /\ Apart(r)' /\ Imports(r)'
  BY <1>1, DoneKeeps
<1>3. \A q \in Requests \ {r} : req[q].pc = "insert" => req'[r].target # req[q].target
  BY <1>1 DEF Discipline, Apart
<1>4. \A q \in Requests \ {r}, p \in Profiles : locked[p] = q => locked'[p] = q
  BY DEF Finish, Unlock, TypeOK
<1>5. \A q \in Requests \ {r} : Prepared(q)' /\ Apart(q)' /\ Imports(q)'
  BY <1>1, <1>3, <1>4, OthersKeep DEF Set
<1>6. StoredIsValid'
  BY DEF Discipline, StoredIsValid
<1>7. DeletedStaysDeleted'
  BY <1>1 DEF Discipline, DeletedStaysDeleted, TypeOK
<1> QED
  BY <1>1, <1>2, <1>5, <1>6, <1>7 DEF Discipline

LEMMA SaveKeeps ==
  ASSUME TypeOK, Discipline, NEW r \in Requests, Save(r)
  PROVE  TypeOK' /\ Discipline'
<1> DEFINE p == req[r].target
           new == IF req[r].dirty THEN req[r].new ELSE rows[p]
           call == [req[r] EXCEPT !.pc = "commit", !.new = new]
<1>1. /\ req[r].pc = "save" /\ p \in Profiles /\ req[r].op \in {"update", "patch", "delete"}
      /\ req[r].reply = "none"
      /\ req[r].op = "delete" => req[r].dirty
  BY DEF Save, Discipline, Apart
<1>2. CASE rows[p] = None /\ req[r].op # "delete"
  BY <1>1, <1>2, FinishKeeps DEF Save
<1>3. CASE ~ (rows[p] = None /\ req[r].op # "delete")
  <2>1. /\ locked' = (IF req[r].dirty THEN [locked EXCEPT ![p] = r] ELSE locked)
        /\ Set(r, call) /\ UNCHANGED <<rows, jobs, restarts>>
        /\ req[r].dirty => locked[p] = None
    BY <1>3 DEF Save
  <2>2. req[r] \in Calls /\ new \in Data
    <3>1. req[r] \in Calls /\ req[r].new \in Data /\ rows[p] \in Data \cup {None}
      BY <1>1 DEF TypeOK, Calls
    <3>2. ~req[r].dirty => rows[p] # None
      BY <1>1, <1>3
    <3> QED
      BY <3>1, <3>2
  <2> HIDE DEF new
  <2>3. call \in Calls
    BY <2>2 DEF Calls
  <2>4. /\ call.pc = "commit" /\ call.target = p /\ call.new = new /\ call.op = req[r].op
        /\ call.reply = "none" /\ call.dirty = req[r].dirty /\ call.held = req[r].held
        /\ call.section = req[r].section
    <3>1. call.pc = "commit" /\ call.new = new
      BY <2>2 DEF Calls
    <3>2. call.target = p /\ call.op = req[r].op /\ call.reply = req[r].reply
      BY <2>2 DEF Calls
    <3>3. call.dirty = req[r].dirty /\ call.held = req[r].held /\ call.section = req[r].section
      BY <2>2 DEF Calls
    <3> QED
      BY <1>1, <3>1, <3>2, <3>3
  <2> HIDE DEF call
  <2>5. req'[r] = call /\ \A q \in Requests \ {r} : req'[q] = req[q]
    BY <2>1 DEF Set, TypeOK
  <2>6. TypeOK'
    <3>1. req' \in [Requests -> Calls]
      BY <2>1, <2>3 DEF Set, TypeOK
    <3>2. locked' \in [Profiles -> Requests \cup {None}]
      BY <2>1 DEF TypeOK
    <3>3. ASSUME NEW x \in Profiles, locked'[x] # None
          PROVE  req'[locked'[x]].pc = "commit" /\ req'[locked'[x]].target = x
      <4>1. CASE locked'[x] = r
        <5>1. locked[x] # r
          BY <1>1 DEF TypeOK
        <5>2. x = p
          BY <2>1, <4>1, <5>1 DEF TypeOK
        <5> QED
          BY <2>4, <2>5, <4>1, <5>2
      <4>2. CASE locked'[x] # r
        <5>1. locked'[x] = locked[x] /\ locked[x] \in Requests \ {r}
          BY <2>1, <3>3, <4>2 DEF TypeOK
        <5> QED
          BY <2>5, <5>1 DEF TypeOK
      <4> QED
        BY <4>1, <4>2
    <3> QED
      BY <2>1, <3>1, <3>2, <3>3 DEF TypeOK
  <2>7. Prepared(r)'
    <3>1. Writing(r)' => Writing(r) /\ new = req[r].new
      BY <1>1, <2>4, <2>5 DEF Writing, new
    <3> QED
      BY <2>4, <2>5, <3>1 DEF Discipline, Prepared
  <2>8. Apart(r)' /\ Imports(r)'
    <3>1. req[r].dirty => locked'[p] = r
      BY <1>1, <2>1 DEF TypeOK
    <3> QED
      BY <1>1, <1>3, <2>1, <2>4, <2>5, <3>1 DEF Apart, Imports
  <2>9. \A q \in Requests \ {r} : Prepared(q)' /\ Apart(q)' /\ Imports(q)'
    <3>1. \A q \in Requests \ {r} : req[q].pc = "insert" => call.target # req[q].target
      BY <2>4 DEF Discipline, Apart
    <3>2. \A q \in Requests \ {r}, x \in Profiles : locked[x] = q => locked'[x] = q
      BY <1>1, <2>1 DEF TypeOK
    <3> QED
      BY <2>1, <3>1, <3>2, OthersKeep
  <2>10. StoredIsValid'
    BY <2>1 DEF Discipline, StoredIsValid
  <2>11. DeletedStaysDeleted'
    BY <2>1, <2>4, <2>5 DEF Discipline, DeletedStaysDeleted
  <2> QED
    BY <2>6, <2>7, <2>8, <2>9, <2>10, <2>11 DEF Discipline
<1> QED
  BY <1>2, <1>3

\* The row of a commit that writes is locked, so nobody else is about to write it.
LEMMA CommitKeeps ==
  ASSUME TypeOK, Discipline, NEW r \in Requests, Commit(r)
  PROVE  TypeOK' /\ Discipline'
<1> DEFINE p == req[r].target
<1>1. /\ req[r].pc = "commit" /\ p \in Profiles /\ req[r].op \in {"update", "patch", "delete"}
      /\ req[r].op = "delete" => req[r].dirty
      /\ Finish(r, "200")
  BY DEF Commit, Discipline, Apart
<1>2. CASE ~req[r].dirty
  BY <1>1, <1>2, FinishKeeps DEF Commit
<1>3. CASE req[r].dirty
  <2>1. /\ locked[p] = r /\ req[r].new \in Data
        /\ req[r].op # "delete" => rows[p] # None /\ Valid(req[r].new)
    BY <1>1, <1>3 DEF Discipline, Apart, Prepared, Writing, TypeOK, Calls
  <2>2. /\ rows' = [rows EXCEPT ![p] = IF req[r].op = "delete" THEN None ELSE req[r].new]
        /\ rows' \in [Profiles -> Data \cup {None}]
    BY <1>1, <1>3, <2>1 DEF Commit, TypeOK
  <2>3. /\ TypeOK'
        /\ req'[r].pc = "done" /\ req'[r].reply = "200" /\ req'[r].op = req[r].op
        /\ req'[r].target = p /\ req'[r].upload = req[r].upload
        /\ req'[r].new = req[r].new /\ req' = [req EXCEPT ![r] = req'[r]]
    BY <1>1, <2>2, FinishType
  <2>4. \A q \in Requests \ {r} : req'[q] = req[q]
    BY <2>3 DEF TypeOK
  <2>5. \A x \in Profiles \ {p} : rows'[x] = rows[x]
    BY <2>2 DEF TypeOK
  <2>6. \A q \in Requests \ {r}, x \in Profiles : locked[x] = q => locked'[x] = q
    BY <1>1 DEF Finish, Unlock, TypeOK
  <2>7. ASSUME NEW q \in Requests \ {r} PROVE Prepared(q)' /\ Apart(q)' /\ Imports(q)'
    <3>1. Prepared(q) /\ Apart(q) /\ Imports(q)
      BY DEF Discipline
    <3>2. Prepared(q)' /\ Imports(q)'
      BY <2>4, <3>1 DEF Prepared, Imports, Writing
    <3>3. req[q].pc = "insert" \/ (req[q].pc = "commit" /\ req[q].dirty) => req[q].target # p
      BY <2>1, <3>1 DEF Apart
    <3>4. Apart(q)'
      BY <2>3, <2>4, <2>5, <2>6, <3>1, <3>3 DEF Apart
    <3> QED
      BY <3>2, <3>4
  <2>8. Prepared(r)' /\ Apart(r)' /\ Imports(r)'
    BY <2>3, DoneKeeps
  <2>9. StoredIsValid'
    BY <1>1, <2>1, <2>2, <2>5 DEF Discipline, StoredIsValid, Valid, TypeOK
  <2>10. DeletedStaysDeleted'
    <3> SUFFICES ASSUME NEW q \in Requests, req'[q].op = "delete", req'[q].reply = "200"
                 PROVE  rows'[req'[q].target] = None
      BY DEF DeletedStaysDeleted
    <3>1. CASE q = r
      BY <1>1, <2>2, <2>3, <3>1 DEF TypeOK
    <3>2. CASE q # r
      <4>1. rows[req[q].target] = None /\ req'[q].target = req[q].target
        BY <2>4, <3>2 DEF Discipline, DeletedStaysDeleted
      <4>2. CASE req[q].target = p
        BY <1>1, <2>1, <2>2, <4>1, <4>2 DEF TypeOK
      <4>3. CASE req[q].target # p
        BY <2>2, <4>1, <4>3 DEF TypeOK
      <4> QED
        BY <4>2, <4>3
    <3> QED
      BY <3>1, <3>2
  <2> QED
    BY <2>3, <2>7, <2>8, <2>9, <2>10 DEF Discipline
<1> QED
  BY <1>2, <1>3

LEMMA InsertKeeps ==
  ASSUME TypeOK, Discipline, NEW r \in Requests, Insert(r)
  PROVE  TypeOK' /\ Discipline'
<1> DEFINE p == req[r].target
           call == [req[r] EXCEPT !.pc = "created"]
<1>1. /\ req[r].pc = "insert" /\ p \in Profiles /\ Valid(req[r].new) /\ req[r].reply = "none"
      /\ req[r].new \in Data /\ req[r] \in Calls
      /\ \A q \in Requests : req[q].target = p => q = r
  BY DEF Insert, Discipline, Apart, Prepared, TypeOK, Calls
<1>2. /\ rows' = [rows EXCEPT ![p] = req[r].new] /\ Set(r, call)
      /\ UNCHANGED <<locked, jobs, restarts>>
  BY DEF Insert
<1>3. call \in Calls
  BY <1>1 DEF Calls
<1>4. /\ call.pc = "created" /\ call.target = p /\ call.op = req[r].op /\ call.reply = "none"
      /\ call.upload = req[r].upload /\ call.new = req[r].new
  BY <1>1 DEF Calls
<1> HIDE DEF call
<1>5. req'[r] = call /\ \A q \in Requests \ {r} : req'[q] = req[q]
  BY <1>2 DEF Set, TypeOK
<1>6. \A x \in Profiles \ {p} : rows'[x] = rows[x]
  BY <1>2 DEF TypeOK
<1>7. TypeOK'
  <2>1. rows' \in [Profiles -> Data \cup {None}] /\ req' \in [Requests -> Calls]
    BY <1>1, <1>2, <1>3 DEF TypeOK, Set
  <2>2. \A x \in Profiles : locked[x] # None => locked[x] \in Requests \ {r}
    BY <1>1 DEF TypeOK
  <2> QED
    BY <1>2, <1>5, <2>1, <2>2 DEF TypeOK
<1>8. ASSUME NEW q \in Requests \ {r} PROVE Prepared(q)' /\ Apart(q)' /\ Imports(q)'
  <2>1. Prepared(q) /\ Apart(q) /\ Imports(q) /\ req[q].target # p
    BY <1>1 DEF Discipline
  <2>2. Prepared(q)' /\ Imports(q)'
    BY <1>5, <2>1 DEF Prepared, Imports, Writing
  <2>3. Apart(q)'
    BY <1>2, <1>4, <1>5, <1>6, <2>1 DEF Apart
  <2> QED
    BY <2>2, <2>3
<1>9. Prepared(r)' /\ Apart(r)' /\ Imports(r)'
  <2>1. Imports(r)
    BY DEF Discipline
  <2> QED
    BY <1>1, <1>4, <1>5, <2>1 DEF Prepared, Apart, Imports, Writing
<1>10. StoredIsValid'
  BY <1>1, <1>2, <1>6 DEF Discipline, StoredIsValid, Valid, TypeOK
<1>11. DeletedStaysDeleted'
  BY <1>1, <1>2, <1>4, <1>5 DEF Discipline, DeletedStaysDeleted, TypeOK
<1> QED
  BY <1>7, <1>8, <1>9, <1>10, <1>11 DEF Discipline

LEMMA RestartCounted ==
  ASSUME TypeOK, ApiRestarts
  PROVE  restarts' \in 0 .. MaxRestarts
<1>1. restarts \in 0 .. MaxRestarts
  BY DEF TypeOK
<1>2. restarts < MaxRestarts /\ restarts' = restarts + 1
  BY DEF ApiRestarts
<1>3. MaxRestarts \in Nat
  OBVIOUS
<1> QED
  BY <1>1, <1>2, <1>3

LEMMA RestartKeeps ==
  ASSUME TypeOK, Discipline, ApiRestarts
  PROVE  TypeOK' /\ Discipline'
<1> USE DEF ApiRestarts
<1>1. ASSUME NEW r \in Requests
      PROVE  /\ req'[r] \in Calls /\ req'[r].pc \in {"new", "done"}
             /\ req'[r].pc = "new" => req'[r] = req[r]
             /\ req'[r].op = req[r].op /\ req'[r].reply = req[r].reply
             /\ req'[r].target = req[r].target /\ req'[r].upload = req[r].upload
             /\ req'[r].new = req[r].new
  <2>1. req[r] \in Calls /\ NoData.by \in Authors
    BY EmptyValid DEF TypeOK, Data
  <2>2. CASE req[r].pc \in {"new", "done"}
    BY <2>1, <2>2
  <2>3. CASE req[r].pc \notin {"new", "done"}
    <3>1. req'[r] = [req[r] EXCEPT !.pc = "done", !.held = NoData.by]
      BY <2>3
    <3> QED
      BY <2>1, <3>1 DEF Calls
  <2> QED
    BY <2>2, <2>3
<1>2. TypeOK'
  <2>1. req' \in [Requests -> Calls]
    BY <1>1
  <2>2. \A p \in Profiles : locked'[p] = None
    OBVIOUS
  <2>3. locked' \in [Profiles -> Requests \cup {None}] /\ restarts' \in 0 .. MaxRestarts
    BY RestartCounted
  <2>4. jobs' \in [Requests -> {"not_found", "failed", "completed"}] /\ rows' = rows
    OBVIOUS
  <2> QED
    BY <2>1, <2>2, <2>3, <2>4 DEF TypeOK
<1>3. \A r \in Requests : Prepared(r)' /\ Apart(r)' /\ Imports(r)'
  <2> SUFFICES ASSUME NEW r \in Requests PROVE Prepared(r)' /\ Apart(r)' /\ Imports(r)'
    OBVIOUS
  <2>1. Apart(r) /\ Imports(r)
    BY DEF Discipline
  <2> QED
    BY <1>1, <2>1 DEF Prepared, Apart, Imports, Writing
<1>4. StoredIsValid' /\ DeletedStaysDeleted'
  <2>1. rows' = rows
    OBVIOUS
  <2>2. StoredIsValid'
    BY <2>1 DEF Discipline, StoredIsValid
  <2>3. DeletedStaysDeleted'
    <3> SUFFICES ASSUME NEW r \in Requests, req'[r].op = "delete", req'[r].reply = "200"
                 PROVE  rows[req'[r].target] = None
      BY <2>1 DEF DeletedStaysDeleted
    <3> HIDE DEF ApiRestarts
    <3> QED
      BY <1>1 DEF Discipline, DeletedStaysDeleted
  <2> QED
    BY <2>2, <2>3
<1> QED
  BY <1>2, <1>3, <1>4 DEF Discipline

LEMMA EditingNext == TypeOK /\ Discipline /\ [Next]_vars => TypeOK' /\ Discipline'
<1> SUFFICES ASSUME TypeOK, Discipline, [Next]_vars PROVE TypeOK' /\ Discipline'
  OBVIOUS
<1>1. ASSUME NEW r \in Requests, Created(r) PROVE TypeOK' /\ Discipline'
  <2> DEFINE reply == IF rows[req[r].target] = None THEN Error(r)
                      ELSE IF req[r].op = "import" THEN "completed" ELSE "201"
  <2>1. req[r].pc = "created" /\ Finish(r, reply) /\ rows' = rows
    BY <1>1 DEF Created
  <2>2. /\ reply \in {"201", "500", "failed", "completed"}
        /\ req[r].op = "import" => reply \in {"failed", "completed"}
    BY DEF Error
  <2>3. req[r].op = "import" => KeepsText(req[r].upload, req[r].new.doc)
    BY <2>1 DEF Discipline, Imports
  <2> HIDE DEF reply
  <2> QED
    BY <2>1, <2>2, <2>3, FinishKeeps
<1>2. ASSUME NEW r \in Requests, StatementFails(r) PROVE TypeOK' /\ Discipline'
  <2>1. Error(r) \in {"500", "failed"} /\ (req[r].op = "import" => Error(r) = "failed")
    BY DEF Error
  <2> QED
    BY <1>2, <2>1, FinishKeeps DEF StatementFails
<1>3. CASE UNCHANGED vars
  BY <1>3 DEF vars, TypeOK, Discipline, StoredIsValid, DeletedStaysDeleted,
     Prepared, Apart, Imports, Writing
<1> QED
  BY <1>1, <1>2, <1>3, SaveKeeps, CommitKeeps, InsertKeeps, DeleteKeeps, PatchKeeps,
     UpdateKeeps, CreateKeeps, ImportKeeps, RestartKeeps DEF Next

\* The variables of the profiles and their requests keep their types.
THEOREM EditingTypeCorrect == Spec => []TypeOK
BY EditingInit, EditingNext, PTL DEF Spec

\* Whatever is written, by whichever route and after whatever was loaded: every
\* stored profile is complete and valid.
THEOREM StoredStaysValid == Spec => []StoredIsValid
<1>1. Discipline => StoredIsValid
  BY DEF Discipline
<1> QED
  BY <1>1, EditingInit, EditingNext, PTL DEF Spec

\* No late write brings a deleted profile back.
THEOREM DeletedForGood == Spec => []DeletedStaysDeleted
<1>1. Discipline => DeletedStaysDeleted
  BY DEF Discipline
<1> QED
  BY <1>1, EditingInit, EditingNext, PTL DEF Spec

\* Nothing that was read from a file is missing from the imported profile.
THEOREM ImportsKeepText == Spec => []JevOnlyAdds
<1>1. Discipline => JevOnlyAdds
  BY DEF Discipline, Imports, JevOnlyAdds
<1> QED
  BY <1>1, EditingInit, EditingNext, PTL DEF Spec

-----------------------------------------------------------------------------
(* Lost edits.                                                             *)

\* The body of LostOnlyToConcurrent.
LossExplained ==
  \A p \in Profiles, s \in Names :
    (rows[p] # None /\ rows'[p] # None /\ rows'[p].by[s] # rows[p].by[s]) =>
      \E r \in Requests :
        /\ req[r].pc = "commit" /\ req[r].target = p
        /\ \/ req[r].section \in {s, "all"} /\ rows'[p].by[s] = r
           \/ /\ rows'[p].by[s] = req[r].held[s]
              /\ rows[p].by[s] # req[r].held[s]

LEMMA StepExplained == TypeOK /\ Discipline /\ [Next]_vars => LossExplained
<1> SUFFICES ASSUME TypeOK, Discipline, [Next]_vars,
                    NEW p \in Profiles, NEW s \in Names,
                    rows[p] # None, rows'[p] # None, rows'[p].by[s] # rows[p].by[s]
             PROVE  \E r \in Requests :
                      /\ req[r].pc = "commit" /\ req[r].target = p
                      /\ \/ req[r].section \in {s, "all"} /\ rows'[p].by[s] = r
                         \/ /\ rows'[p].by[s] = req[r].held[s]
                            /\ rows[p].by[s] # req[r].held[s]
  BY DEF LossExplained
<1>1. PICK r \in Requests : Commit(r) \/ Insert(r)
  <2>1. rows' # rows
    OBVIOUS
  <2>2. \A r \in Requests : ~Save(r) /\ ~Created(r) /\ ~StatementFails(r)
    BY <2>1 DEF Save, Created, StatementFails
  <2>3. \A r \in Requests, q \in Profiles : ~Delete(r, q)
    BY <2>1 DEF Delete, Load
  <2>4. \A r \in Requests, q \in Profiles, patch \in Patches : ~PatchSection(r, q, patch)
    BY <2>1 DEF PatchSection, Load
  <2>5. \A r \in Requests, q \in Profiles, doc \in Contents : ~Update(r, q, doc) /\ ~Create(r, q, doc)
    BY <2>1 DEF Update, Create, Load
  <2>6. \A r \in Requests, q \in Profiles, upload \in Uploads, jev \in Analyses :
          ~Import(r, q, upload, jev)
    BY <2>1 DEF Import
  <2>7. ~ApiRestarts /\ vars' # vars
    BY <2>1 DEF ApiRestarts, vars
  <2> QED
    BY <2>2, <2>3, <2>4, <2>5, <2>6, <2>7 DEF Next
<1>2. CASE Commit(r)
  <2>1. /\ req[r].pc = "commit" /\ req[r].dirty /\ req[r].op # "delete" /\ req[r].target = p
        /\ rows'[p] = req[r].new
    BY <1>2 DEF Commit, TypeOK
  <2>2. \/ req[r].section \in {s, "all"} /\ req[r].new.by[s] = r
        \/ req[r].new.by[s] = req[r].held[s]
    BY <2>1 DEF Discipline, Prepared, Writing
  <2> QED
    BY <2>1, <2>2
<1>3. CASE Insert(r)
  <2>1. rows[req[r].target] = None
    BY <1>3 DEF Insert, Discipline, Apart
  <2> QED
    BY <1>3, <2>1 DEF Insert, TypeOK
<1> QED
  BY <1>1, <1>2, <1>3

\* A section changes hands to a request that is about it, or goes back to what a
\* concurrent request had loaded.
THEOREM LossesExplained == Spec => LostOnlyToConcurrent
<1>1. TypeOK /\ Discipline /\ [Next]_vars => [LossExplained]_vars
  BY StepExplained
<1> QED
  BY <1>1, EditingInit, EditingNext, PTL DEF Spec, LostOnlyToConcurrent, LossExplained
-----------------------------------------------------------------------------
(* What a renderer prints, and the prompt.                                 *)

\* A text is in the prompt if its field belongs to a section the prompt walks.
LEMMA WalkedInPrompt ==
  ASSUME NEW doc, NEW s \in {"experience", "education", "projects", "publications",
                             "certifications", "languages"}
  PROVE  Texts(doc, s, Parts(s) \ {"start_date", "end_date", "relevance_note"}) \subseteq Prompt(doc)
BY DEF Prompt

\* The end of a period is printed only after a start, and then the prompt has it.
LEMMA DatesInPrompt ==
  ASSUME NEW doc
  PROVE  Dates(doc, "experience") \cup Dates(doc, "education") \subseteq Prompt(doc)
<1>1. Dates(doc, "experience") \subseteq Period(doc)
  BY DEF Period
<1>2. Dates(doc, "education") \subseteq Period(doc)
  BY DEF Dates, Period, Texts, Of, Says
<1>3. Period(doc) \subseteq Prompt(doc)
  BY DEF Prompt
<1> QED
  BY <1>1, <1>2, <1>3

\* For every document without a relevance note, which profiles do not have.
LEMMA DocxInPrompt ==
  ASSUME NEW doc, doc[<<"experience", "relevance_note">>] = "absent", NEW t \in Templates
  PROVE  Docx(doc, t) \subseteq Prompt(doc)
<1>1. Header(doc, t) \subseteq Prompt(doc)
  <2>1. Header(doc, t) \subseteq Texts(doc, "contact", Parts("contact"))
    BY DEF Header, Says, Texts, Of, Parts
  <2> QED
    BY <2>1 DEF Prompt
<1>2. Summary(doc) \cup AdditionalInfo(doc) \subseteq Prompt(doc)
  BY DEF Summary, AdditionalInfo, Texts, Of, Parts, Prompt
<1>3. Skills(doc) \subseteq Prompt(doc)
  BY DEF Prompt
<1>4. Experience(doc) \subseteq Prompt(doc)
  <2>1. Texts(doc, "experience", {"role", "company", "location", "relevance_note", "bullets"})
          \subseteq Texts(doc, "experience",
                          Parts("experience") \ {"start_date", "end_date", "relevance_note"})
    BY DEF Texts, Of, Parts
  <2> QED
    BY <2>1, WalkedInPrompt, DatesInPrompt DEF Experience
<1>5. Education(doc) \subseteq Prompt(doc)
  <2>1. Texts(doc, "education", {"degree", "institution", "location", "thesis", "details"})
          \subseteq Texts(doc, "education",
                          Parts("education") \ {"start_date", "end_date", "relevance_note"})
    BY DEF Texts, Of, Parts
  <2> QED
    BY <2>1, WalkedInPrompt, DatesInPrompt DEF Education
<1>6. Projects(doc) \subseteq Prompt(doc)
  <2>1. Parts("projects") = Parts("projects") \ {"start_date", "end_date", "relevance_note"}
    BY DEF Parts
  <2> QED
    BY <2>1, WalkedInPrompt DEF Projects
<1>7. Publications(doc) \subseteq Prompt(doc)
  <2>1. Texts(doc, "publications", {"citation"})
          \subseteq Texts(doc, "publications",
                          Parts("publications") \ {"start_date", "end_date", "relevance_note"})
    BY DEF Texts, Of, Parts
  <2> QED
    BY <2>1, WalkedInPrompt DEF Publications
<1>8. Certifications(doc) \subseteq Prompt(doc)
  <2>1. Parts("certifications") = Parts("certifications") \ {"start_date", "end_date", "relevance_note"}
    BY DEF Parts
  <2> QED
    BY <2>1, WalkedInPrompt DEF Certifications
<1>9. Languages(doc) \subseteq Prompt(doc)
  <2>1. Parts("languages") = Parts("languages") \ {"start_date", "end_date", "relevance_note"}
    BY DEF Parts
  <2> QED
    BY <2>1, WalkedInPrompt DEF Languages
<1> QED
  BY <1>1, <1>2, <1>3, <1>4, <1>5, <1>6, <1>7, <1>8, <1>9 DEF Docx

\* For every profile that is ever stored and every template: the prompt that
\* asks for a CV has all of the profile that a renderer would print.
THEOREM PromptIsComplete == Spec => []PromptShowsProfile
<1>1. TypeOK /\ StoredIsValid => PromptShowsProfile
  <2> SUFFICES ASSUME TypeOK, StoredIsValid, NEW p \in Profiles, rows[p] # None, NEW t \in Templates
               PROVE  Docx(rows[p].doc, t) \subseteq Prompt(rows[p].doc)
    BY DEF PromptShowsProfile
  <2>1. <<"experience", "relevance_note">> \in Fields \ ProfileFields
    <3>1. "experience" \in Sections /\ "relevance_note" \in Parts("experience")
      BY DEF Sections, Parts
    <3>2. <<"experience", "relevance_note">> \in Fields
      BY <3>1, PartFields
    <3> QED
      BY <3>2 DEF ProfileFields, Of
  <2>2. Validated(rows[p].doc) = rows[p].doc
    BY DEF StoredIsValid
  <2>3. rows[p].doc[<<"experience", "relevance_note">>] = "absent"
    BY <2>1, <2>2 DEF Validated
  <2> QED
    BY <2>3, DocxInPrompt
<1> QED
  BY <1>1, EditingTypeCorrect, StoredStaysValid, PTL

=============================================================================
