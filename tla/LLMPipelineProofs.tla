------------------------- MODULE LLMPipelineProofs -------------------------
(***************************************************************************)
(* What LLMPipeline checks on a few documents holds for every CV and every *)
(* cover letter: the lemmas about the operators of CVDocument go from the  *)
(* fields one of them reads to what the validator says of those fields.    *)
(***************************************************************************)
EXTENDS LLMPipeline, FiniteSetTheorems, TLAPS

USE FaultsAssumption, DocumentsAssumption, JevRepliesAssumption,
    JobWordsAssumption, MaxMissingAssumption, MaxRetriesAssumption

-----------------------------------------------------------------------------
(* Fields and the validator.                                               *)

\* A field of an accepted CV either belongs to an entry that is absent, or fits.
LEMMA FieldFits ==
  ASSUME NEW cv \in [Fields -> Values], CVOutput(cv),
         NEW s \in Sections, NEW f \in Of(s, Parts(s))
  PROVE  /\ f \in Fields /\ f[1] = s
         /\ ~Has(cv, s) => cv[f] = "absent"
         /\ cv[f] # "absent" => Fits(f, cv[f])
<1>1. f[1] = s /\ f[2] \in Parts(s) /\ f = <<s, f[2]>>
  BY DEF Of
<1>2. Has(cv, s) \/ cv[f] = "absent"
  BY <1>1 DEF Has
<1>3. f \in Fields
  BY DEF Fields
<1>4. cv[f] # "absent" => Fits(f, cv[f])
  BY <1>2 DEF CVOutput
<1> QED
  BY <1>1, <1>2, <1>3, <1>4

LEMMA RequiredSection ==
  \A f \in Required : \E s \in Sections : f \in Of(s, Parts(s))
BY SMTT(60) DEF Required, Of, Parts, Sections

LEMMA ListSection ==
  \A f \in Lists : \E s \in Sections : f \in Of(s, Parts(s))
BY SMTT(60) DEF Lists, Of, Parts, Sections

LEMMA ScoredSection ==
  \A f \in Scored :
    /\ \E s \in Sections : f \in Of(s, Parts(s))
    /\ f \in Required \cup Lists \cup {<<"top", "additional_info">>}
BY SMTT(60) DEF Scored, Of, Parts, Sections, Required, Lists

\* No list of an accepted CV is null or ill typed.
LEMMA ListsFit ==
  ASSUME NEW cv \in [Fields -> Values], CVOutput(cv), NEW f \in Lists
  PROVE  f \in Fields /\ cv[f] # "bad" /\ cv[f] # "null"
<1>1. PICK s \in Sections : f \in Of(s, Parts(s))
  BY ListSection
<1> QED
  BY <1>1, FieldFits DEF Fits

\* No word that is scored is ill typed, and one field of them may be null.
LEMMA ScoredFit ==
  ASSUME NEW cv \in [Fields -> Values], CVOutput(cv), NEW f \in Scored
  PROVE  /\ f \in Fields /\ cv[f] # "bad"
         /\ cv[f] = "null" => f = <<"top", "additional_info">>
<1>1. PICK s \in Sections : f \in Of(s, Parts(s))
  BY ScoredSection
<1> QED
  BY <1>1, FieldFits, ScoredSection DEF Fits

\* An entry that is there has its required fields.
LEMMA RequiredThere ==
  ASSUME NEW cv \in [Fields -> Values], CVOutput(cv), NEW f \in Required, Has(cv, f[1])
  PROVE  cv[f] # "absent"
<1>1. PICK s \in Sections : f \in Of(s, Parts(s))
  BY RequiredSection
<1>2. f[1] = s
  BY <1>1 DEF Of
<1>3. Fits(f, cv[f])
  BY <1>1, <1>2 DEF CVOutput
<1> QED
  BY <1>3 DEF Fits

-----------------------------------------------------------------------------
(* The renderers.                                                          *)

LEMMA DocxGoesOn ==
  ASSUME NEW cv \in [Fields -> Values], CVOutput(cv)
  PROVE  ~DocxStops(cv)
<1>1. Of("experience", {"bullets"}) \cup Of("education", {"details"}) \subseteq Lists
  BY DEF Lists
<1> QED
  BY <1>1, ListsFit DEF DocxStops

LEMMA MarkdownGoesOn ==
  ASSUME NEW cv \in [Fields -> Values], CVOutput(cv)
  PROVE  ~MarkdownStops(cv)
<1>1. \A f \in Required : Has(cv, f[1]) => cv[f] # "absent"
  BY RequiredThere
<1>2. <<"experience", "bullets">> \in Lists
  BY DEF Lists, Of
<1>3. \A f \in Of("skills", Parts("skills")) \cup Of("top", Parts("top")) \cup
               Of("projects", {"description", "tech_stack"}) : f \in Lists \cup Scored
  BY SMTT(60) DEF Lists, Scored, Of, Parts
<1> QED
  BY <1>1, <1>2, <1>3, ListsFit, ScoredFit DEF MarkdownStops

LEMMA ScoreStopsOnOne ==
  ASSUME NEW cv \in [Fields -> Values], CVOutput(cv), NEW words, ScoreStops(cv, words)
  PROVE  cv[<<"top", "additional_info">>] = "null"
BY ScoredFit DEF ScoreStops

LEMMA LetterComplete ==
  ASSUME NEW cl \in [LetterFields -> Values], CoverLetterOutput(cl)
  PROVE  /\ LetterMarkdown(cl) = LetterDocx(cl)
         /\ \A f \in LetterFields \ {"body_paragraphs"} : cl[f] # "absent"
BY DEF CoverLetterOutput, LetterMarkdown, LetterDocx

\* Each word that is scored is printed, or its entry has no headline.
LEMMA ScoredPrinted ==
  ASSUME NEW cv \in [Fields -> Values], NEW template \in Templates
  PROVE  Words(cv) \subseteq Docx(cv, template) \cup Untitled(cv)
<1> SUFFICES ASSUME NEW f \in Words(cv) PROVE f \in Docx(cv, template) \cup Untitled(cv)
  OBVIOUS
<1>0. f \in Scored /\ cv[f] \in {"text", "now"}
  BY DEF Words
<1>1. CASE f = <<"contact", "full_name">>
  <2>1. f \in Header(cv, template)
    BY <1>0, <1>1 DEF Header, Says, Of
  <2> QED
    BY <2>1 DEF Docx
<1>2. CASE f \in Of("top", Parts("top"))
  BY <1>0, <1>2 DEF Of, Parts, Summary, AdditionalInfo, Texts, Docx
<1>3. CASE f \in Of("experience", {"role", "company"})
  <2>1. f \in Experience(cv)
    BY <1>0, <1>3 DEF Of, Experience, Says, Texts
  <2> QED
    BY <2>1 DEF Docx
<1>4. CASE f \in Of("experience", {"bullets"})
  <2>1. f \in Experience(cv) \/ Experience(cv) = {}
    BY <1>0, <1>4 DEF Of, Experience, Texts
  <2> QED
    BY <1>4, <2>1 DEF Docx, Untitled
<1>5. CASE f \in Of("education", {"degree", "institution"})
  <2>1. f \in Education(cv)
    BY <1>0, <1>5 DEF Of, Education, Says, Texts
  <2> QED
    BY <2>1 DEF Docx
<1>6. CASE f \in Of("skills", Parts("skills"))
  BY <1>0, <1>6 DEF Skills, Texts, Docx
<1>7. CASE f \in Of("projects", {"name"})
  <2>1. f \in Projects(cv)
    BY <1>0, <1>7 DEF Of, Parts, Projects, Says, Texts
  <2> QED
    BY <2>1 DEF Docx
<1>8. CASE f \in Of("projects", {"description"})
  <2>1. f \in Projects(cv) \/ Projects(cv) = {}
    BY <1>0, <1>8 DEF Of, Parts, Projects, Texts
  <2> QED
    BY <1>8, <2>1 DEF Docx, Untitled
<1>9. CASE f \in Of("publications", {"citation"})
  BY <1>0, <1>9 DEF Publications, Texts, Docx
<1>10. CASE f \in Of("certifications", {"name"})
  <2>1. f \in Certifications(cv)
    BY <1>0, <1>10 DEF Of, Parts, Certifications, Says, Texts
  <2> QED
    BY <2>1 DEF Docx
<1>11. CASE f \in Of("languages", {"language"})
  <2>1. f \in Languages(cv)
    BY <1>0, <1>11 DEF Of, Parts, Languages, Says, Texts
  <2> QED
    BY <2>1 DEF Docx
<1> QED
  BY <1>0, <1>1, <1>2, <1>3, <1>4, <1>5, <1>6, <1>7, <1>8, <1>9, <1>10, <1>11
  DEF Scored, Of

-----------------------------------------------------------------------------
(* The score.                                                              *)

LEMMA SevenFinite ==
  \A a, b, c, d, e, f, g : IsFiniteSet({a, b, c, d, e, f, g})
<1> SUFFICES ASSUME NEW a, NEW b, NEW c, NEW d, NEW e, NEW f, NEW g
             PROVE  IsFiniteSet({a, b, c, d, e, f, g})
  OBVIOUS
<1>1. IsFiniteSet({a})
  BY FS_Singleton
<1>2. IsFiniteSet({a} \cup {b})
  BY <1>1, FS_AddElement
<1>3. IsFiniteSet({a} \cup {b} \cup {c})
  BY <1>2, FS_AddElement
<1>4. IsFiniteSet({a} \cup {b} \cup {c} \cup {d})
  BY <1>3, FS_AddElement
<1>5. IsFiniteSet({a} \cup {b} \cup {c} \cup {d} \cup {e})
  BY <1>4, FS_AddElement
<1>6. IsFiniteSet({a} \cup {b} \cup {c} \cup {d} \cup {e} \cup {f})
  BY <1>5, FS_AddElement
<1>7. IsFiniteSet({a} \cup {b} \cup {c} \cup {d} \cup {e} \cup {f} \cup {g})
  BY <1>6, FS_AddElement
<1>8. {a} \cup {b} \cup {c} \cup {d} \cup {e} \cup {f} \cup {g} = {a, b, c, d, e, f, g}
  OBVIOUS
<1> QED
  BY <1>7, <1>8

LEMMA PartsFinite == \A s \in Sections : IsFiniteSet(Parts(s))
<1>1. \A a, b, c, d, e, f, g : \A S \in SUBSET {a, b, c, d, e, f, g} : IsFiniteSet(S)
  BY SevenFinite, FS_Subset
<1>2. Parts("contact") \subseteq {"full_name", "location", "phone", "email", "linkedin", "website_portfolio", "x"}
  BY DEF Parts
<1>3. Parts("skills") \subseteq {"technical", "domain", "tools", "soft", "x", "y", "z"}
  BY DEF Parts
<1>4. Parts("experience") \subseteq
        {"role", "company", "location", "start_date", "end_date", "relevance_note", "bullets"}
  BY DEF Parts
<1>5. Parts("education") \subseteq
        {"degree", "institution", "location", "start_date", "end_date", "thesis", "details"}
  BY DEF Parts
<1>6. Parts("projects") \cup Parts("languages") \subseteq
        {"name", "description", "tech_stack", "link", "language", "proficiency", "x"}
  BY DEF Parts
<1>7. Parts("publications") \subseteq {"citation", "year", "doi", "link", "x", "y", "z"}
  BY DEF Parts
<1>8. Parts("certifications") \cup Parts("top") \subseteq
        {"name", "issuer", "year", "summary", "additional_info", "x", "y"}
  BY DEF Parts
<1>9. /\ IsFiniteSet(Parts("contact")) /\ IsFiniteSet(Parts("skills"))
      /\ IsFiniteSet(Parts("experience")) /\ IsFiniteSet(Parts("education"))
  BY <1>1, <1>2, <1>3, <1>4, <1>5
<1>10. IsFiniteSet(Parts("projects")) /\ IsFiniteSet(Parts("languages"))
  BY <1>6, SevenFinite, FS_Subset
<1>11. IsFiniteSet(Parts("certifications")) /\ IsFiniteSet(Parts("top"))
  BY <1>8, SevenFinite, FS_Subset
<1>12. IsFiniteSet(Parts("publications"))
  BY <1>1, <1>7
<1> QED
  BY <1>9, <1>10, <1>11, <1>12 DEF Sections

LEMMA FieldsFinite == IsFiniteSet(Fields)
<1> DEFINE Half == Parts("contact") \cup Parts("skills") \cup Parts("experience") \cup
                   Parts("education") \cup Parts("projects")
           All == Half \cup Parts("publications") \cup Parts("certifications") \cup
                  Parts("languages") \cup Parts("top")
<1>1. IsFiniteSet(Sections)
  <2>1. IsFiniteSet({"contact", "skills", "experience", "education", "projects",
                     "publications", "certifications"})
    BY SevenFinite
  <2>2. IsFiniteSet({"contact", "skills", "experience", "education", "projects",
                     "publications", "certifications"} \cup {"languages"})
    BY <2>1, FS_AddElement
  <2>3. Sections = {"contact", "skills", "experience", "education", "projects",
                    "publications", "certifications"} \cup {"languages"} \cup {"top"}
    BY DEF Sections
  <2> QED
    BY <2>2, <2>3, FS_AddElement
<1>2. IsFiniteSet(Half)
  <2>1. IsFiniteSet(Parts("contact") \cup Parts("skills") \cup Parts("experience"))
    BY PartsFinite, FS_Union DEF Sections
  <2> QED
    BY <2>1, PartsFinite, FS_Union DEF Sections
<1>3. IsFiniteSet(All)
  <2> HIDE DEF Half
  <2>1. IsFiniteSet(Half \cup Parts("publications") \cup Parts("certifications"))
    BY <1>2, PartsFinite, FS_Union DEF Sections
  <2> QED
    BY <2>1, PartsFinite, FS_Union DEF Sections
<1>4. \A s \in Sections : Parts(s) \subseteq All
  BY DEF Sections
<1> HIDE DEF Half, All
<1>5. IsFiniteSet(Sections \X All)
  BY <1>1, <1>3, FS_Product
<1>6. Fields \subseteq Sections \X All
  BY <1>4 DEF Fields, Of
<1> QED
  BY <1>5, <1>6, FS_Subset

LEMMA Percentage ==
  ASSUME NEW k \in Nat, NEW n \in Nat, k <= n, n # 0
  PROVE  (k * 100) \div n \in 0 .. 100
<1>1. k * 100 <= n * 100 /\ 0 <= k * 100
  OBVIOUS
<1> DEFINE q == (k * 100) \div n
<1>2. q \in Int /\ q * n <= k * 100 /\ k * 100 < q * n + n
  OBVIOUS
<1>3. q >= 0
  BY <1>1, <1>2
<1>4. q <= 100
  <2>1. SUFFICES ASSUME q >= 101 PROVE FALSE
    BY <1>2
  <2>2. q * n >= 101 * n
    BY <2>1, <1>2
  <2> QED
    BY <1>1, <1>2, <2>2
<1> QED
  BY <1>2, <1>3, <1>4

\* The score is a percentage.
LEMMA AtScoreBounded ==
  ASSUME NEW words \in SUBSET Fields, NEW cv
  PROVE  AtScore(cv, words) \in 0 .. 100
<1>1. IsFiniteSet(words)
  BY FieldsFinite, FS_Subset
<1>2. /\ Cardinality(words) \in Nat /\ Cardinality(words \cap Words(cv)) \in Nat
      /\ Cardinality(words \cap Words(cv)) <= Cardinality(words)
      /\ words # {} => Cardinality(words) # 0
  BY <1>1, FS_Intersection, FS_CardinalityType, FS_EmptySet
<1> QED
  BY <1>2, Percentage DEF AtScore

\* A list of missing words that is not full has all of them.
LEMMA MissingComplete ==
  ASSUME NEW words \in SUBSET Fields, NEW cv, NEW most \in Nat,
         NEW list \in MissingKeywords(cv, words, most)
  PROVE  /\ list \subseteq words
         /\ Cardinality(list) < most => words \ list \subseteq Words(cv)
<1> DEFINE missing == words \ Words(cv)
<1>1. IsFiniteSet(missing) /\ Cardinality(missing) \in Nat
  BY FieldsFinite, FS_Subset, FS_CardinalityType
<1>2. list \subseteq missing
      /\ Cardinality(list) = IF Cardinality(missing) < most THEN Cardinality(missing) ELSE most
  BY DEF MissingKeywords
<1>3. Cardinality(list) < most => list = missing
  BY <1>1, <1>2, FS_Subset
<1> QED
  BY <1>2, <1>3

-----------------------------------------------------------------------------
(* The invariant of the pipeline.                                          *)

Writes == caller \in {"generation", "stream"}

AttemptsBounded == pc = "ask" => attempt \in 1 .. Attempts

\* What comes out of the loop of attempts has passed the validator, and a
\* completed reply was scored against the job description it was read with.
Validity ==
  /\ Writes /\ (pc = "produce" \/ outcome = "completed") => result \in FittingDocuments
  /\ outcome = "completed" =>
       /\ pc = "done" /\ Writes /\ jd \in JobWords
       /\ score.missing \in MissingKeywords(result.cv, jd, MaxMissing)
  /\ outcome # "completed" => score.missing = {}

ContextAnswered == context = {q \in Questions : jev[q] = "given"}

IndInv == TypeOK /\ AttemptsBounded /\ Validity /\ ContextAnswered

LEMMA PipelineInit == Init => IndInv
<1> SUFFICES ASSUME Init PROVE IndInv
  OBVIOUS
<1>1. TypeOK
  BY DEF Init, TypeOK, Callers, Requested, Configurable, Questions, Nouls, Scores,
         JevAnswers, AnswersFor, NoResult
<1>2. AttemptsBounded /\ Validity /\ ContextAnswered
  BY DEF Init, AttemptsBounded, Validity, ContextAnswered
<1> QED
  BY <1>1, <1>2 DEF IndInv

\* A step after which only the reply is new.
LEMMA OnlyReplies ==
  ASSUME IndInv, pc # "done", pc' = "done", outcome' # "completed",
         outcome' \in {"200", "422", "500", "502", "stream error", "test passed", "test failed"},
         UNCHANGED <<Request, adapter, context, jev, attempt, result, score, jd>>
  PROVE  IndInv'
<1>1. TypeOK'
  BY DEF IndInv, TypeOK, AnswersFor, Request
<1>2. AttemptsBounded' /\ Validity' /\ ContextAnswered'
  BY DEF IndInv, AttemptsBounded, Validity, ContextAnswered, Request
<1> QED
  BY <1>1, <1>2 DEF IndInv

LEMMA ResolveKeeps == IndInv /\ Resolve => IndInv'
<1> SUFFICES ASSUME IndInv, Resolve PROVE IndInv'
  OBVIOUS
<1>0. /\ pc = "resolve"
      /\ UNCHANGED <<Request, context, jev, result, score, jd>>
  BY DEF Resolve
<1>1. CASE pc' = "done"
  <2>1. outcome' \in {"422", "500", "502", "stream error", "test failed"}
        /\ UNCHANGED <<adapter, attempt>>
    BY <1>1 DEF Resolve, Reply, UnknownProvider
  <2> QED
    BY <1>0, <1>1, <2>1, OnlyReplies
<1>2. CASE pc' # "done"
  <2>1. adapter' \in Registered /\ attempt' = 1 /\ pc' = "ask" /\ UNCHANGED outcome
    BY <1>2 DEF Resolve, Reply
  <2>2. TypeOK'
    <3>1. result' \in AnswersFor(caller') \cup {NoResult}
      BY <1>0 DEF IndInv, TypeOK, Request
    <3>2. attempt' \in 0 .. MaxRetries
      BY <2>1
    <3> QED
      BY <1>0, <2>1, <3>1, <3>2 DEF IndInv, TypeOK, Request
  <2>3. AttemptsBounded'
    BY <2>1 DEF AttemptsBounded, Attempts, Request
  <2>4. Validity' /\ ContextAnswered'
    BY <1>0, <2>1 DEF IndInv, Validity, ContextAnswered, Request
  <2> QED
    BY <2>2, <2>3, <2>4 DEF IndInv
<1> QED
  BY <1>1, <1>2

\* The defaults of the parser never become a line of the prompt.
LEMMA OnlyGivenLines ==
  ASSUME NEW answers \in JevAnswers
  PROVE  PromptSection(ContextDict(Analysis(answers))) = {q \in Questions : answers[q] = "given"}
<1>1. \A q \in Questions : Analysis(answers)[q] = "given" <=> answers[q] = "given"
  BY DEF Analysis, JevAnswers
<1>2. \A q \in Questions : Analysis(answers)[q] = "given" =>
        q \in DOMAIN ContextDict(Analysis(answers)) /\ ContextDict(Analysis(answers))[q] = "given"
  BY DEF ContextDict
<1>3. \A q \in DOMAIN ContextDict(Analysis(answers)) :
        q \in Questions /\ ContextDict(Analysis(answers))[q] = Analysis(answers)[q]
  BY DEF ContextDict
<1> QED
  BY <1>1, <1>2, <1>3 DEF PromptSection

LEMMA JevKeeps == IndInv /\ (JevAnswersIt \/ JevFails \/ JevGarbled \/ JevUnreadable) => IndInv'
<1> SUFFICES ASSUME IndInv, JevAnswersIt \/ JevFails \/ JevGarbled \/ JevUnreadable PROVE IndInv'
  OBVIOUS
<1>1. CASE pc' = "done"
  <2>1. pc = "jev" /\ outcome' \in {"500", "502"}
        /\ UNCHANGED <<Request, adapter, context, jev, attempt, result, score, jd>>
    BY <1>1 DEF JevAnswersIt, JevFails, JevGarbled, JevUnreadable, Reply
  <2> QED
    BY <1>1, <2>1, OnlyReplies
<1>2. CASE pc' # "done"
  <2>1. /\ pc = "jev" /\ pc' = "resolve"
        /\ UNCHANGED <<Request, adapter, attempt, result, outcome, score, jd>>
    BY <1>2 DEF JevAnswersIt, JevFails, JevGarbled, JevUnreadable, Reply
  <2>2. jev' \in JevAnswers /\ ContextAnswered'
    BY <1>2, OnlyGivenLines DEF JevAnswersIt, JevFails, JevGarbled, JevUnreadable, Reply, ContextAnswered,
       IndInv, TypeOK
  <2>3. TypeOK'
    BY <2>1, <2>2 DEF IndInv, TypeOK, AnswersFor, Request, ContextAnswered
  <2>4. AttemptsBounded' /\ Validity'
    BY <2>1 DEF IndInv, AttemptsBounded, Validity, Request
  <2> QED
    BY <2>2, <2>3, <2>4 DEF IndInv
<1> QED
  BY <1>1, <1>2

LEMMA AskKeeps == IndInv /\ Ask => IndInv'
<1> SUFFICES ASSUME IndInv, Ask PROVE IndInv'
  OBVIOUS
<1>1. PICK a \in AnswersFor(caller) : Answered(a) \/ Retry(a) \/ Exhausted(a) \/ Escapes(a)
  BY DEF Ask
<1>2. pc = "ask" /\ UNCHANGED <<Request, adapter, context, jev, score, jd>>
  BY DEF Ask
<1>3. outcome # "completed"
  BY <1>2 DEF IndInv, Validity
<1>4. CASE Exhausted(a) \/ Escapes(a)
  <2>1. /\ pc' = "done" /\ UNCHANGED <<attempt, result>>
        /\ outcome' \in {"stream error", "test failed", "500", "502"}
    BY <1>4 DEF Exhausted, Escapes, Reply
  <2> QED
    BY <1>2, <2>1, OnlyReplies
<1>5. CASE Answered(a)
  <2>1. pc' = "produce" /\ result' = a /\ UNCHANGED <<attempt, outcome>>
    BY <1>5 DEF Answered
  <2>2. Writes => a \in FittingDocuments
    BY <1>5 DEF Answered, Accepts, Writes
  <2>3. TypeOK'
    <3>1. result' \in AnswersFor(caller')
      BY <1>2, <2>1 DEF Request
    <3> QED
      BY <1>2, <2>1, <3>1 DEF IndInv, TypeOK, Request
  <2>4. AttemptsBounded' /\ ContextAnswered'
    BY <1>2, <2>1 DEF IndInv, AttemptsBounded, ContextAnswered, Request
  <2>5. Validity'
    BY <1>2, <1>3, <2>1, <2>2 DEF IndInv, Validity, Writes, Request
  <2> QED
    BY <2>3, <2>4, <2>5 DEF IndInv
<1>6. CASE Retry(a)
  <2>1. attempt < Attempts /\ attempt' = attempt + 1 /\ UNCHANGED <<pc, result, outcome>>
    BY <1>6 DEF Retry
  <2>2. attempt \in 1 .. Attempts /\ Attempts \in Nat /\ Attempts <= MaxRetries
        /\ Attempts' = Attempts
    BY <1>2 DEF IndInv, AttemptsBounded, Attempts, Request
  <2>3. attempt' \in 1 .. Attempts' /\ attempt' \in 0 .. MaxRetries
    BY <2>1, <2>2
  <2>4. TypeOK'
    <3>1. result' \in AnswersFor(caller') \cup {NoResult}
      BY <1>2, <2>1 DEF IndInv, TypeOK, Request
    <3> QED
      BY <1>2, <2>1, <2>3, <3>1 DEF IndInv, TypeOK, Request
  <2>5. Validity' /\ ContextAnswered'
    BY <1>2, <1>3, <2>1 DEF IndInv, Validity, ContextAnswered, Request
  <2> QED
    BY <2>3, <2>4, <2>5 DEF IndInv, AttemptsBounded
<1> QED
  BY <1>1, <1>4, <1>5, <1>6

LEMMA ProduceKeeps == IndInv /\ Produce => IndInv'
<1> SUFFICES ASSUME IndInv, Produce PROVE IndInv'
  OBVIOUS
<1>1. /\ pc = "produce" /\ Writes /\ jd' \in JobWords /\ pc' = "done"
      /\ UNCHANGED <<Request, adapter, context, jev, attempt, result>>
  BY DEF Produce, Writes, Reply
<1>2. result \in FittingDocuments /\ result' = result /\ outcome # "completed"
  BY <1>1 DEF IndInv, Validity
<1>3. \/ /\ outcome' = "completed"
         /\ \E missing \in MissingKeywords(result.cv, jd', MaxMissing) :
              score' = [value |-> AtScore(result.cv, jd'), missing |-> missing]
      \/ outcome' \in {"500", "stream error"} /\ UNCHANGED score
  BY DEF Produce, Reply
<1>4. jd' \subseteq Fields
  BY <1>1
<1>5. result' \in AnswersFor(caller') \cup {NoResult}
  BY <1>1 DEF IndInv, TypeOK, Request
<1>6. AttemptsBounded' /\ ContextAnswered'
  BY <1>1 DEF IndInv, AttemptsBounded, ContextAnswered, Request
<1>7. CASE outcome' = "completed"
  <2>1. PICK missing \in MissingKeywords(result.cv, jd', MaxMissing) :
          score' = [value |-> AtScore(result.cv, jd'), missing |-> missing]
    BY <1>3, <1>7
  <2>2. score'.value \in 0 .. 100 /\ score'.missing \subseteq jd'
    BY <1>4, <2>1, AtScoreBounded, MissingComplete
  <2>3. TypeOK'
    BY <1>1, <1>5, <1>7, <2>2 DEF IndInv, TypeOK, Request
  <2>4. Validity'
    BY <1>1, <1>2, <1>7, <2>1 DEF Validity, Writes, Request
  <2> QED
    BY <1>6, <2>3, <2>4 DEF IndInv
<1>8. CASE outcome' # "completed"
  <2>1. outcome' \in {"500", "stream error"} /\ UNCHANGED score
    BY <1>3, <1>8
  <2>2. score'.missing = {} /\ Validity'
    BY <1>1, <1>2, <1>8, <2>1 DEF IndInv, Validity
  <2>3. TypeOK'
    BY <1>1, <1>5, <2>1, <2>2 DEF IndInv, TypeOK, Request
  <2> QED
    BY <1>6, <2>2, <2>3 DEF IndInv
<1> QED
  BY <1>7, <1>8

LEMMA RepliesKeep == IndInv /\ (ReplyAnalysis \/ ReplyJevAnalysis \/ ReplyTest \/ ResolveFails) => IndInv'
<1> SUFFICES ASSUME IndInv, ReplyAnalysis \/ ReplyJevAnalysis \/ ReplyTest \/ ResolveFails
             PROVE  IndInv'
  OBVIOUS
<1>1. /\ pc # "done" /\ pc' = "done" /\ outcome' \in {"200", "500", "stream error", "test passed"}
      /\ UNCHANGED <<Request, adapter, context, jev, attempt, result, score, jd>>
  BY DEF ReplyAnalysis, ReplyJevAnalysis, ReplyTest, ResolveFails, Reply
<1> QED
  BY <1>1, OnlyReplies

LEMMA PipelineNext == IndInv /\ [Next]_vars => IndInv'
<1> SUFFICES ASSUME IndInv, [Next]_vars PROVE IndInv'
  OBVIOUS
<1>1. CASE UNCHANGED vars
  <2>1. TypeOK'
    BY <1>1 DEF vars, IndInv, TypeOK, AnswersFor
  <2>2. AttemptsBounded' /\ Validity' /\ ContextAnswered'
    BY <1>1 DEF vars, IndInv, AttemptsBounded, Attempts, Validity, Writes, ContextAnswered
  <2> QED
    BY <2>1, <2>2 DEF IndInv
<1> QED
  BY <1>1, ResolveKeeps, JevKeeps, AskKeeps, ProduceKeeps, RepliesKeep DEF Next

LEMMA PipelineKept == Spec => []IndInv
BY PipelineInit, PipelineNext, PTL DEF Spec

-----------------------------------------------------------------------------
(* Theorems.                                                               *)

\* Every variable of a request to the LLM has its type, whatever the provider
\* answers and however often it is asked.
THEOREM PipelineTypeCorrect == Spec => []TypeOK
<1>1. IndInv => TypeOK
  BY DEF IndInv
<1> QED
  BY <1>1, PipelineKept, PTL

\* For every CV and letter: what has passed the validator can be rendered.
THEOREM AcceptedAlwaysRenders == Spec => []AcceptedRenders
<1>1. IndInv => AcceptedRenders
  <2> SUFFICES ASSUME IndInv, pc = "produce", Writes PROVE AcceptedRenders
    BY DEF AcceptedRenders, Writes
  <2>1. /\ result.cv \in [Fields -> Values] /\ CVOutput(result.cv)
        /\ result.letter \in [LetterFields -> Values] /\ CoverLetterOutput(result.letter)
    BY DEF IndInv, Validity, FittingDocuments, DocumentAnswers
  <2> QED
    BY <2>1, DocxGoesOn, MarkdownGoesOn, ScoreStopsOnOne, LetterComplete DEF AcceptedRenders
<1> QED
  BY <1>1, PipelineKept, PTL

\* For every CV and job description: as long as the list of missing words is not
\* full, a word of the job description that is not on it is printed, unless it is
\* the text of an entry without a headline.
THEOREM ScoredAlwaysShown == Spec => []ScoredIsShown
<1>1. IndInv => ScoredIsShown
  <2> SUFFICES ASSUME IndInv, outcome = "completed", Cardinality(score.missing) < MaxMissing,
                      NEW template \in Templates
               PROVE  jd \ score.missing \subseteq Docx(result.cv, template) \cup Untitled(result.cv)
    BY DEF ScoredIsShown
  <2>1. result.cv \in [Fields -> Values] /\ jd \subseteq Fields
        /\ score.missing \in MissingKeywords(result.cv, jd, MaxMissing)
    BY DEF IndInv, Validity, FittingDocuments, DocumentAnswers
  <2>2. jd \ score.missing \subseteq Words(result.cv)
    BY <2>1, MissingComplete
  <2> QED
    BY <2>1, <2>2, ScoredPrinted
<1> QED
  BY <1>1, PipelineKept, PTL

\* Whatever Jev leaves out of its reply, the prompt says what it did answer.
THEOREM PromptSaysAnswers == Spec => []PromptOnlyAnswered
<1>1. IndInv => PromptOnlyAnswered
  BY DEF IndInv, ContextAnswered, PromptOnlyAnswered
<1> QED
  BY <1>1, PipelineKept, PTL
=============================================================================
