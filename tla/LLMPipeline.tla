---------------------------- MODULE LLMPipeline ----------------------------
(***************************************************************************)
(* One request that needs the LLM, from its arrival to its reply: the      *)
(* choice of the provider, the classification by Jev, the                  *)
(* adapter's loop of attempts, the validation of the answer, and what is   *)
(* made of an accepted answer.  The callers are                            *)
(*   "generation"  run_generation and what follows it (llm/service.py,     *)
(*                 api/routes/generate.py)                                 *)
(*   "stream"      stream_generation, which resolves the provider in       *)
(*                 another function (llm/router.py)                        *)
(*   "test"        the test of a stored configuration (llm_config.py)      *)
(*   "analyzer", "jev_analyzer"  the two job analyzers                     *)
(* The provider is the environment: every attempt may be answered by any   *)
(* member of AnswersFor(caller).  The key and the URL a provider is asked  *)
(* with are left out.                                                      *)
(***************************************************************************)
EXTENDS CVDocument

CONSTANTS Documents,    \* the CVs with cover letters the LLM may answer with
          Faults,       \* the other answers the provider may give
          JobWords,     \* the job descriptions: sets of words
          JevReplies,   \* what Jev may answer
          MaxMissing,   \* the length of the list of missing keywords (10)
          MaxRetries    \* the attempts a caller other than "test" allows

Callers == {"generation", "stream", "test", "analyzer", "jev_analyzer"}

\* The adapters of llm/adapters.py, under the slugs they register.
Registered == {"openai", "nous", "litellm", "ollama"}

\* The providers a configuration may name.
Configurable == {"openai", "anthropic", "ollama", "custom", "litellm"}

\* What LLM_PROVIDER in the environment may name, a slug of no adapter included.
Defaults == Registered \cup {"other"}

Requested == {"none", "openai", "anthropic", "ollama", "custom"}

Questions == {"skill_category", "tech_stack", "seniority_level",
              "salary_bracket", "has_red_flags", "remote_ok"}

\* The questions whose answer is a probability, and the one whose answer is a score.
Nouls == {"has_red_flags", "remote_ok"}

Scores == {"seniority_level"}

\* An answer of Jev to a question: none, zero (score 0, probability 0), or more;
\* a word where a number should be; or no JSON object at all.
JevAnswers ==
    {answers \in [Questions -> {"absent", "zero", "given", "word", "bad"}] :
        \A q \in Questions \ (Nouls \cup Scores) : answers[q] # "word"}

NoResult == [json |-> "none"]

\* How an answer may be wrapped: in code fences, in other text, in a list.
Wraps == {"plain", "fenced", "chatty"}

\* A key "cv" or "cover_letter" that is missing is as good as an empty object.
DocumentAnswers == [wrap : Wraps, json : {"object", "array"},
                    cv : [Fields -> Values], letter : [LetterFields -> Values]]

\* No answer (a transport error), an empty one, one that is not JSON, a JSON
\* number, null or Boolean.
OtherAnswers == [wrap : {"plain"}, json : {"transport", "empty", "broken", "scalar"}] \cup
                [wrap : {"chatty"}, json : {"scalar"}]

ASSUME FaultsAssumption == Faults \subseteq OtherAnswers
ASSUME DocumentsAssumption == Documents \subseteq DocumentAnswers
ASSUME JevRepliesAssumption == JevReplies \subseteq JevAnswers
ASSUME JobWordsAssumption == JobWords \subseteq SUBSET Fields
ASSUME MaxMissingAssumption == MaxMissing \in Nat \ {0}
ASSUME MaxRetriesAssumption == MaxRetries \in Nat \ {0}

AnalysisAnswers ==
    [wrap : Wraps, json : {"object", "array"},
     skills : {"list", "dict", "other", "absent"},
     salary : {"absent", "dict", "text"}, research : {"absent", "dict", "text"}]

AnswersFor(caller) ==
    Faults \cup (IF caller \in {"generation", "stream"} THEN Documents
                       ELSE AnalysisAnswers)

VARIABLES
    caller,     \* who asks
    requested,  \* the provider named in the request, "none" if it names none
    configs,    \* the providers of the user's active configurations
    pc,         \* "resolve", "jev", "ask", "produce", "done"
    adapter,    \* the provider whose adapter was built
    context,    \* the questions whose answers stand in the prompt
    jev,        \* what Jev answered
    attempt,    \* the number of the current attempt
    result,     \* the accepted answer
    outcome,    \* the reply: an HTTP status, or why there is none
    jd,         \* the words of the job description, chosen when they are first read
    score       \* the keyword score of the documents and the words it misses

vars == <<caller, requested, configs, pc, adapter, context, jev, attempt,
          result, outcome, jd, score>>

Init ==
    /\ caller \in Callers
    /\ requested \in IF caller = "generation" THEN Requested ELSE {"none"}
    \* A second active configuration is what LLMConfigActivation lets happen.
    /\ configs \in CASE caller = "test" -> {{p} : p \in Configurable}
                     [] caller \in {"generation", "stream"} ->
                          {{p} : p \in Configurable} \cup {{}, {"openai", "ollama"}}
                     [] OTHER -> {{}}
    /\ pc = IF caller = "jev_analyzer" THEN "jev" ELSE "resolve"
    /\ adapter = "none"
    /\ context = {}
    /\ jev = [q \in Questions |-> "absent"]
    /\ attempt = 0
    /\ result = NoResult
    /\ outcome = "none"
    /\ jd = {}
    /\ score = [value |-> 0, missing |-> {}]

Request == <<caller, requested, configs>>

Reply(status) ==
    /\ outcome' = status
    /\ pc' = "done"

-----------------------------------------------------------------------------
(* The provider. *)

TheConfig == CHOOSE p \in configs : TRUE

\* run_generation: the provider asked for, if one is, else that of the active
\* configuration.
ForGeneration(default) ==
    CASE requested # "none" -> requested
      [] requested = "none" /\ configs # {} -> TheConfig
      [] OTHER -> default

\* build_adapter_from_config, as stream_generation calls it (no provider named).
ForStream(default) == IF configs # {} THEN TheConfig ELSE default

\* get_user_active_config raises when two configurations are active.
Ambiguous == caller \in {"generation", "stream"} /\ Cardinality(configs) > 1

Chosen(default) ==
    CASE caller = "generation" -> ForGeneration(default)
      [] caller = "stream" -> ForStream(default)
      [] caller = "test" -> TheConfig
      [] OTHER -> default

\* build_adapter raises ValueError for a provider that no adapter registered.
UnknownProvider ==
    CASE caller = "generation" -> "422"
      [] caller = "stream" -> "stream error"
      [] caller = "test" -> "test failed"
      [] OTHER -> "502"

\* _build_jev_enrichment_prompt compares a probability with 0.5.
EnrichmentStops == \E q \in Nouls : jev[q] = "word"

\* The adapter is built, then the prompt of the Jev analyzer.
Resolve ==
    /\ pc = "resolve"
    /\ ~Ambiguous
    /\ \E default \in Defaults :
         \/ /\ Chosen(default) \notin Registered
            /\ Reply(UnknownProvider)
            /\ UNCHANGED <<adapter, attempt>>
         \/ /\ Chosen(default) \in Registered
            /\ EnrichmentStops
            /\ Reply("500")
            /\ UNCHANGED <<adapter, attempt>>
         \/ /\ Chosen(default) \in Registered
            /\ ~EnrichmentStops
            /\ adapter' = Chosen(default)
            /\ attempt' = 1
            /\ pc' = "ask"
            /\ UNCHANGED outcome
    /\ UNCHANGED <<Request, context, jev, result, score, jd>>

ResolveFails ==
    /\ pc = "resolve"
    /\ Ambiguous
    /\ Reply(IF caller = "generation" THEN "500" ELSE "stream error")
    /\ UNCHANGED <<Request, adapter, context, jev, attempt, result, score, jd>>

-----------------------------------------------------------------------------
(* The classification by Jev. *)

\* _parse_response: a score of 0 counts as none, a probability defaults to 0.
Analysis(answers) ==
    [q \in Questions |->
        IF q \in Nouls
        THEN (IF answers[q] = "absent" THEN "zero" ELSE answers[q])
        ELSE (IF answers[q] = "given" THEN "given" ELSE "absent")]

\* to_context_dict: what the analysis has an object for, probability 0 included.
ContextDict(analysis) == [q \in {r \in Questions : analysis[r] # "absent"} |-> analysis[q]]

\* Mutant: a line for every entry.
EveryEntry(dict) == DOMAIN dict

\* _build_jev_enrichment_prompt: a line for every entry that is not 0 or empty.
PromptSection(dict) == {q \in DOMAIN dict : dict[q] = "given"}

\* _parse_response takes every answer for an object, to_context_dict a score for
\* a number.
Readable(answers) ==
    /\ \A q \in Questions : answers[q] # "bad"
    /\ \A q \in Scores : answers[q] # "word"

JevAnswersIt ==
    /\ pc = "jev"
    /\ jev' \in {answers \in JevReplies : Readable(answers)}
    /\ context' = PromptSection(ContextDict(Analysis(jev')))
    /\ pc' = "resolve"
    /\ UNCHANGED <<Request, adapter, attempt, result, outcome, score, jd>>

\* An answer that is no object is an AttributeError, a score that is a word a
\* ValueError: the fallback catches neither, the route only the second.
JevUnreadable ==
    /\ pc = "jev"
    /\ \E answers \in JevReplies :
           /\ ~Readable(answers)
           /\ Reply(IF \E q \in Questions : answers[q] = "bad" THEN "500" ELSE "502")
    /\ UNCHANGED <<Request, adapter, context, jev, attempt, result, score, jd>>

\* A transport error or a "detail": RuntimeError, which use_llm_fallback forgives.
JevFails ==
    /\ pc = "jev"
    /\ \E use_llm_fallback \in BOOLEAN :
           IF use_llm_fallback THEN pc' = "resolve" /\ UNCHANGED outcome ELSE Reply("502")
    /\ UNCHANGED <<Request, adapter, context, jev, attempt, result, score, jd>>

\* A reply of Jev that is not JSON: ValueError, which the fallback does not catch.
JevGarbled ==
    /\ pc = "jev"
    /\ Reply("502")
    /\ UNCHANGED <<Request, adapter, context, jev, attempt, result, score, jd>>

-----------------------------------------------------------------------------
(* The adapters: how they read an answer. *)

\* OpenAIAdapter.generate cuts out what stands between the first { and the last }.
OpenAIReads(a) ==
    CASE a.json \in {"object", "array"} -> "parsed"
      [] a.json \in {"empty", "broken"} -> "rejected"
      [] a.json = "scalar" /\ a.wrap = "chatty" -> "rejected"
      [] OTHER -> "escapes"

\* LiteLLMAdapter.generate parses the content as it is.
LiteLLMReads(a) ==
    CASE a.json = "object" /\ a.wrap = "plain" -> "parsed"
      [] a.json = "transport" \/ (a.json = "scalar" /\ a.wrap = "plain") -> "escapes"
      [] OTHER -> "rejected"

\* OllamaAdapter.generate takes fences away and also retries on HTTP errors.
OllamaReads(a) ==
    CASE a.json = "object" /\ a.wrap # "chatty" -> "parsed"
      [] a.json = "scalar" /\ a.wrap = "plain" -> "escapes"
      [] OTHER -> "rejected"

Reads(a) ==
    CASE adapter \in {"openai", "nous"} -> OpenAIReads(a)
      [] adapter = "litellm" -> LiteLLMReads(a)
      [] adapter = "ollama" -> OllamaReads(a)

\* _validate_against_schema on the combined schema, then on its two parts.  An
\* answer without a letter gets {} for one, which the check of the letter rejects.
FittingDocuments == {a \in Documents : CVOutput(a.cv) /\ CoverLetterOutput(a.letter)}

\* The analyzers' schema is of no known type: only required keys are checked.
AnalysisFits(a) == a.skills # "absent"

Accepts(a) ==
    /\ Reads(a) = "parsed"
    /\ IF caller \in {"generation", "stream"} THEN a \in FittingDocuments
       ELSE AnalysisFits(a)

Attempts == IF caller = "test" THEN 1 ELSE MaxRetries

Answered(a) ==
    /\ Accepts(a)
    /\ result' = a
    /\ pc' = "produce"
    /\ UNCHANGED <<attempt, outcome>>

\* Mutant: the loop has one attempt too many.
RetryOnceMore(a) ==
    /\ ~Accepts(a)
    /\ Reads(a) # "escapes"
    /\ attempt <= Attempts
    /\ attempt' = attempt + 1
    /\ UNCHANGED <<pc, result, outcome>>

\* Mutant: a failed last attempt starts the attempts again.
RetryForever(a) ==
    /\ ~Accepts(a)
    /\ Reads(a) # "escapes"
    /\ attempt' = IF attempt < Attempts THEN attempt + 1 ELSE 0
    /\ UNCHANGED <<pc, result, outcome>>

\* The error goes into the prompt of the next attempt.
Retry(a) ==
    /\ ~Accepts(a)
    /\ Reads(a) # "escapes"
    /\ attempt < Attempts
    /\ attempt' = attempt + 1
    /\ UNCHANGED <<pc, result, outcome>>

\* GenerationError, as each caller turns it into a reply.
Exhausted(a) ==
    /\ ~Accepts(a)
    /\ Reads(a) # "escapes"
    /\ attempt = Attempts
    /\ Reply(CASE caller = "stream" -> "stream error"
               [] caller = "test" -> "test failed"
               [] OTHER -> "502")
    /\ UNCHANGED <<attempt, result>>

\* An exception that the loop does not catch (openai.APIError, TypeError).
Escapes(a) ==
    /\ Reads(a) = "escapes"
    /\ Reply(CASE caller = "stream" -> "stream error"
               [] caller = "test" -> "test failed"
               [] OTHER -> "500")
    /\ UNCHANGED <<attempt, result>>

Ask ==
    /\ pc = "ask"
    /\ \E a \in AnswersFor(caller) : Answered(a) \/ Retry(a) \/ Exhausted(a) \/ Escapes(a)
    /\ UNCHANGED <<Request, adapter, context, jev, score, jd>>

-----------------------------------------------------------------------------
(* What is made of an accepted answer. *)

Stops(words) ==
    DocxStops(result.cv) \/ MarkdownStops(result.cv) \/ ScoreStops(result.cv, words)

\* convert_docx_to_pdf leaves a PDF, or raises: no LibreOffice, a failed
\* process, no file where it should be.
Conversions == {"pdf", "raises"}

\* The DOCX, the markdown, the PDF and the score.  The stream does not forgive
\* a failed conversion to PDF; a TypeError of any step ends either caller.
Produce ==
    /\ pc = "produce"
    /\ caller \in {"generation", "stream"}
    /\ jd' \in JobWords
    /\ \E conversion \in Conversions :
           IF ~Stops(jd') /\ (conversion = "pdf" \/ caller = "generation")
           THEN /\ \E missing \in MissingKeywords(result.cv, jd', MaxMissing) :
                      score' = [value |-> AtScore(result.cv, jd'), missing |-> missing]
                /\ Reply("completed")
           ELSE /\ Reply(IF caller = "generation" THEN "500" ELSE "stream error")
                /\ UNCHANGED score
    /\ UNCHANGED <<Request, adapter, context, jev, attempt, result>>

\* _run_analyzer, whose reply must fit AnalyzerResponse.
ReplyAnalysis ==
    /\ pc = "produce"
    /\ caller = "analyzer"
    /\ Reply(IF "text" \in {result.salary, result.research} THEN "500" ELSE "200")
    /\ UNCHANGED <<Request, adapter, context, jev, attempt, result, score, jd>>

\* _run_jev_analyzer, whose reply has no company_research.
ReplyJevAnalysis ==
    /\ pc = "produce"
    /\ caller = "jev_analyzer"
    /\ Reply(IF result.salary = "text" THEN "500" ELSE "200")
    /\ UNCHANGED <<Request, adapter, context, jev, attempt, result, score, jd>>

ReplyTest ==
    /\ pc = "produce"
    /\ caller = "test"
    /\ Reply("test passed")
    /\ UNCHANGED <<Request, adapter, context, jev, attempt, result, score, jd>>

Next == \/ Resolve \/ ResolveFails \/ JevAnswersIt \/ JevFails \/ JevGarbled \/ JevUnreadable \/ Ask
        \/ Produce \/ ReplyAnalysis \/ ReplyJevAnalysis \/ ReplyTest

Spec == Init /\ [][Next]_vars

\* Every call has a timeout (60 s, 120 s, 30 s; LiteLLM's own): it ends.
FairSpec == Spec /\ WF_vars(Next)

-----------------------------------------------------------------------------
(* Properties. *)

TypeOK ==
    /\ caller \in Callers
    /\ requested \in Requested
    /\ configs \subseteq Configurable
    /\ pc \in {"jev", "resolve", "ask", "produce", "done"}
    /\ adapter \in Registered \cup {"none"}
    /\ context \subseteq Questions
    /\ jev \in JevAnswers
    /\ attempt \in 0 .. MaxRetries
    /\ result \in AnswersFor(caller) \cup {NoResult}
    /\ outcome \in {"none", "completed", "200", "422", "500", "502",
                    "stream error", "test passed", "test failed"}
    /\ score.value \in 0 .. 100
    /\ score.missing \subseteq jd

\* An answer that passed the validator can be rendered: neither the DOCX nor the
\* markdown meets a value it cannot take, whichever adapter read the answer, and
\* the letter has all its parts.  The score fails on one field only.
AcceptedRenders ==
    pc = "produce" /\ caller \in {"generation", "stream"} =>
        /\ ~DocxStops(result.cv)
        /\ ~MarkdownStops(result.cv)
        /\ \A words \in JobWords : ScoreStops(result.cv, words) => result.cv[<<"top", "additional_info">>] = "null"
        /\ LetterMarkdown(result.letter) = LetterDocx(result.letter)
        /\ \A f \in LetterFields \ {"body_paragraphs"} : result.letter[f] # "absent"

\* The words of an entry without a headline are scored but not on the page.
Untitled(cv) ==
    {f \in Of("experience", {"bullets"}) : Experience(cv) = {}} \cup
    {f \in Of("projects", {"description"}) : Projects(cv) = {}}

\* A keyword of the job description that the reply does not list as missing
\* stands on the page, in every template, or in an entry without a headline
\* (unless the list is full): what is scored and what is printed are two
\* separate walks over the CV.
ScoredIsShown ==
    outcome = "completed" /\ Cardinality(score.missing) < MaxMissing =>
        \A template \in Templates :
            jd \ score.missing \subseteq Docx(result.cv, template) \cup Untitled(result.cv)

\* What the prompt says of Jev's analysis is what Jev answered: the defaults that
\* the parser fills in for questions without an answer never reach the prompt.
PromptOnlyAnswered ==
    pc # "jev" => context = {q \in Questions : jev[q] = "given"}

\* Every request is answered, however the provider behaves.
PipelineEnds == <>(pc = "done")

=============================================================================
