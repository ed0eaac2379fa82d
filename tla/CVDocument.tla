----------------------------- MODULE CVDocument -----------------------------
(***************************************************************************)
(* The CV and the cover letter as data: what the validator of the LLM's    *)
(* answers accepts (llm/output_models.py), what the DOCX and the markdown  *)
(* show of an accepted CV (llm/docx_renderer.py, llm/service.py), what the *)
(* prompt shows of a profile (llm/prompts.py), and which words the keyword *)
(* score reads (api/routes/generate.py).                                   *)
(*                                                                         *)
(* A document is a function from fields to what stands in them; every      *)
(* field that has a text holds a word of its own, so a set of fields is    *)
(* also the set of the words in them.  A list section has at most one      *)
(* entry: the code treats the entries of a list one by one, independently. *)
(***************************************************************************)
EXTENDS Naturals, FiniteSets

\* "blank" is "", [] or 0, "bad" a value of another JSON type, "unfit" a string
\* of another kind than the field takes: longer than its max_length or, for a
\* year, without a number in it; the "text" of a year is a number or its digits.
\* "now" (of an end_date) is one of the words _format_dates takes for "until today".
Values == {"absent", "null", "blank", "text", "now", "unfit", "bad"}

Parts(section) ==
    CASE section = "contact" ->
           {"full_name", "location", "phone", "email", "linkedin", "website_portfolio"}
      [] section = "skills" -> {"technical", "domain", "tools", "soft"}
      [] section = "experience" ->
           {"role", "company", "location", "start_date", "end_date",
            "relevance_note", "bullets"}
      [] section = "education" ->
           {"degree", "institution", "location", "start_date", "end_date",
            "thesis", "details"}
      [] section = "projects" -> {"name", "description", "tech_stack", "link"}
      [] section = "publications" -> {"citation", "year", "doi", "link"}
      [] section = "certifications" -> {"name", "issuer", "year"}
      [] section = "languages" -> {"language", "proficiency"}
      [] section = "top" -> {"summary", "additional_info"}

Sections == {"contact", "skills", "experience", "education", "projects",
             "publications", "certifications", "languages", "top"}

Of(section, parts) == {section} \X parts

Fields == UNION {Of(s, Parts(s)) : s \in Sections}

\* The fields CVOutput and its parts declare with Field(...).
Required ==
    Of("contact", {"full_name", "location"}) \cup
    Of("experience", {"role", "company"}) \cup
    Of("education", {"degree", "institution"}) \cup
    Of("projects", {"name", "description"}) \cup
    Of("publications", {"citation"}) \cup Of("certifications", {"name"}) \cup
    Of("languages", {"language", "proficiency"}) \cup Of("top", {"summary"})

\* The fields of type list[str]: null is not a list, and no length is too long.
Lists ==
    Of("skills", Parts("skills")) \cup Of("experience", {"bullets"}) \cup
    Of("education", {"details"}) \cup Of("projects", {"tech_stack"})

\* Mutant: a list may be null as well.
FitsLoosely(f, value) == value \in {"blank", "text", "now", "null"} \/ (f \notin Required /\ value = "absent")

\* CVOutput must have a contact and a summary; the other sections may be absent.
Standing == {"contact", "skills", "top"}

Has(cv, section) ==
    section \in Standing \/ \E part \in Parts(section) : cv[<<section, part>>] # "absent"

Fits(f, value) ==
    \/ value \in {"blank", "text", "now"}
    \/ f \notin Required /\ value = "absent"
    \/ f \notin Required \cup Lists /\ value = "null"

\* cv_output_from_dict: the entries a CV has are complete and well typed.
CVOutput(cv) ==
    \A s \in Sections : Has(cv, s) => \A f \in Of(s, Parts(s)) : Fits(f, cv[f])

LetterFields == {"header", "salutation", "opening", "body_paragraphs",
                 "call_to_action", "closing", "signature"}

\* cover_letter_output_from_dict: only body_paragraphs has a default.
CoverLetterOutput(cl) ==
    \A f \in LetterFields :
        cl[f] \in {"blank", "text"} \/ (f = "body_paragraphs" /\ cl[f] = "absent")

NoCV == [f \in Fields |-> "absent"]

NoLetter == [f \in LetterFields |-> "absent"]

-----------------------------------------------------------------------------
Texts(cv, section, parts) == {f \in Of(section, parts) : cv[f] \in {"text", "now"}}

Says(cv, section, part) == cv[<<section, part>>] \in {"text", "now"}

Templates == {"modern", "classic", "minimal", "executive"}

DefaultTemplate == "modern"

HeaderStyle(template) ==
    CASE template = "modern" -> "centered"
      [] template = "executive" -> "split"
      [] OTHER -> "left"

\* Without a name there is no header at all; the centered header stops there.
Header(cv, template) ==
    IF ~Says(cv, "contact", "full_name") THEN {}
    ELSE Of("contact", {"full_name"}) \cup
         (IF HeaderStyle(template) = "centered" THEN {}
          ELSE Texts(cv, "contact", Parts("contact")))

\* The end of a period whose start is known: as a word of its own, or "Present".
Dates(cv, section) ==
    IF Says(cv, section, "start_date") /\ cv[<<section, "end_date">>] = "text"
    THEN Of(section, {"end_date"}) ELSE {}

Skills(cv) == Texts(cv, "skills", Parts("skills"))

Experience(cv) ==
    IF Says(cv, "experience", "role") \/ Says(cv, "experience", "company")
    THEN Dates(cv, "experience") \cup
         Texts(cv, "experience", {"role", "company", "location", "relevance_note", "bullets"})
    ELSE {}

Education(cv) ==
    IF Says(cv, "education", "degree") \/ Says(cv, "education", "institution")
    THEN Dates(cv, "education") \cup
         Texts(cv, "education", {"degree", "institution", "location", "thesis", "details"})
    ELSE {}

\* Mutant: a project is shown by its name only.
ShortProjects(cv) == Texts(cv, "projects", {"name"})

Projects(cv) ==
    IF Says(cv, "projects", "name") THEN Texts(cv, "projects", Parts("projects")) ELSE {}

Publications(cv) == Texts(cv, "publications", {"citation"})

Certifications(cv) ==
    IF Says(cv, "certifications", "name")
    THEN Texts(cv, "certifications", Parts("certifications")) ELSE {}

Languages(cv) ==
    IF Says(cv, "languages", "language")
    THEN Texts(cv, "languages", Parts("languages")) ELSE {}

AdditionalInfo(cv) == Texts(cv, "top", {"additional_info"})

Summary(cv) == Texts(cv, "top", {"summary"})

\* DocxRenderer.render: the words on the page.
Docx(cv, template) ==
    Header(cv, template) \cup Summary(cv) \cup Skills(cv) \cup Experience(cv) \cup
    Education(cv) \cup Projects(cv) \cup Publications(cv) \cup
    Certifications(cv) \cup Languages(cv) \cup AdditionalInfo(cv)

\* What stops DocxRenderer.render: a list it walks that is none, or one that
\* holds something ", ".join or add_run cannot take.
DocxStops(cv) ==
    \/ \E f \in Of("experience", {"bullets"}) \cup Of("education", {"details"}) :
           cv[f] = "null" /\ (Experience(cv) \cup Education(cv)) \cap Of(f[1], Parts(f[1])) # {}
    \/ \E f \in Lists : cv[f] = "bad"

\* CoverLetterDocxRenderer.render: every part that has a text, in order.
LetterDocx(cl) == {f \in LetterFields : cl[f] = "text"}

\* The markdown and the prompt show a start; for a school any end after it.
Period(cv) ==
    Texts(cv, "experience", {"start_date"}) \cup Dates(cv, "experience") \cup
    (IF Says(cv, "education", "start_date")
     THEN Texts(cv, "education", {"start_date", "end_date"}) ELSE {})

\* render_cv_markdown: name and place of the contact, no details of a school,
\* and every period that has a start.
Markdown(cv) ==
    Texts(cv, "contact", {"full_name", "location"}) \cup
    Texts(cv, "top", Parts("top")) \cup Skills(cv) \cup
    Texts(cv, "experience", {"role", "company", "location", "relevance_note", "bullets"}) \cup
    Texts(cv, "education", {"degree", "institution", "location", "thesis"}) \cup
    Period(cv) \cup
    UNION {Texts(cv, s, Parts(s)) :
              s \in {"projects", "publications", "certifications", "languages"}}

\* What stops it: a key it indexes that is absent, a list it walks or joins.
MarkdownStops(cv) ==
    \/ \E f \in Required \ Of("contact", Parts("contact")) :
           /\ f \notin Of("top", {"summary"}) \cup Of("projects", {"description"})
           /\ Has(cv, f[1]) /\ cv[f] = "absent"
    \/ cv[<<"experience", "bullets">>] = "null"
    \/ \E f \in Of("skills", Parts("skills")) \cup Of("top", Parts("top")) \cup
             Of("projects", {"description", "tech_stack"}) : cv[f] = "bad"

\* render_cover_letter_markdown shows the same parts as the DOCX.
LetterMarkdown(cl) == {f \in LetterFields : cl[f] = "text"}

-----------------------------------------------------------------------------
\* The fields _compute_at_score reads.
Scored ==
    Of("top", Parts("top")) \cup Of("contact", {"full_name"}) \cup
    Of("experience", {"role", "company", "bullets"}) \cup
    Of("education", {"degree", "institution"}) \cup Of("skills", Parts("skills")) \cup
    Of("projects", {"name", "description"}) \cup Of("publications", {"citation"}) \cup
    Of("certifications", {"name"}) \cup Of("languages", {"language"})

Words(cv) == {f \in Scored : cv[f] \in {"text", "now"}}

AtScore(cv, jd) ==
    IF jd = {} THEN 50
    ELSE (Cardinality(jd \cap Words(cv)) * 100) \div Cardinality(jd)

\* missing[:10]: as many of the missing words as are listed, the first of them.
MissingKeywords(cv, jd, most) ==
    LET missing == jd \ Words(cv) IN
    {list \in SUBSET missing :
        Cardinality(list) = IF Cardinality(missing) < most THEN Cardinality(missing) ELSE most}

\* " ".join over the parts: a null or a number among them raises TypeError.
ScoreStops(cv, jd) ==
    /\ jd # {}
    /\ \/ \E f \in Scored : cv[f] = "bad"
       \/ \E f \in Scored : cv[f] = "null"

-----------------------------------------------------------------------------
\* Mutant: periods are left out.
TimelessPrompt(profile) ==
    Texts(profile, "contact", Parts("contact")) \cup
    Texts(profile, "top", Parts("top")) \cup Skills(profile) \cup
    UNION {Texts(profile, s, Parts(s) \ {"start_date", "end_date"}) :
              s \in Sections \ {"contact", "top", "skills"}}

\* The text of a profile in the prompt (assemble_prompt).  A profile has no
\* relevance notes; a date is shown only after the start of its period.
Prompt(profile) ==
    Texts(profile, "contact", Parts("contact")) \cup
    Texts(profile, "top", Parts("top")) \cup Skills(profile) \cup
    Period(profile) \cup
    UNION {Texts(profile, s, Parts(s) \ {"start_date", "end_date", "relevance_note"}) :
              s \in {"experience", "education", "projects", "publications",
                     "certifications", "languages"}}
=============================================================================
