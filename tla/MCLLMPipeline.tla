--------------------------- MODULE MCLLMPipeline ---------------------------
(* Small sets of documents for TLC: a CV that has everything and one that has
   the least, each with one field changed in every way, and CVs with two blank
   fields in one section. *)
EXTENDS LLMPipeline

FullCV == [f \in Fields |-> "text"]

LeastCV == [f \in Fields |->
    IF f \in Required /\ f[1] \in Standing \cup {"experience"} THEN "text" ELSE "absent"]

OneChanged ==
    {[cv EXCEPT ![f] = v] : cv \in {FullCV, LeastCV}, f \in Fields, v \in Values \ {"now"}}

Untils == {[FullCV EXCEPT ![<<s, "end_date">>] = "now"] : s \in {"experience", "education"}}

TwoBlank ==
    {[FullCV EXCEPT ![<<s, "role">>] = "blank", ![<<s, "company">>] = "blank"] :
        s \in {"experience"}} \cup
    {[FullCV EXCEPT ![<<s, "degree">>] = "blank", ![<<s, "institution">>] = "blank"] :
        s \in {"education"}}

SmallCVs == OneChanged \cup Untils \cup TwoBlank

FullLetter == [f \in LetterFields |-> "text"]

SmallLetters ==
    {FullLetter, [FullLetter EXCEPT !["body_paragraphs"] = "absent"],
     [FullLetter EXCEPT !["call_to_action"] = "absent"],
     [FullLetter EXCEPT !["closing"] = "null"], [FullLetter EXCEPT !["closing"] = "unfit"]}

Answer(wrap, json, cv, letter) == [wrap |-> wrap, json |-> json, cv |-> cv, letter |-> letter]

SmallDocuments ==
    {Answer("plain", "object", cv, FullLetter) : cv \in SmallCVs \cup {NoCV}} \cup
    {Answer("plain", "object", FullCV, letter) : letter \in SmallLetters \cup {NoLetter}} \cup
    {Answer(wrap, json, cv, FullLetter) :
        wrap \in Wraps, json \in {"object", "array"}, cv \in {FullCV, NoCV}}

\* All questions are answered, or all but one; none is, or each with zero.
SmallJevReplies ==
    ({[q \in Questions |-> IF q = odd THEN v ELSE "given"] :
        odd \in Questions, v \in {"absent", "zero", "given", "word", "bad"}} \cap JevAnswers)
    \cup {[q \in Questions |-> w] : w \in {"absent", "zero"}}

SmallJobWords ==
    {{}, Of("experience", {"role", "bullets", "start_date"}),
     Of("projects", {"name", "description", "tech_stack"}) \cup
     Of("top", {"additional_info", "summary"}) \cup Of("contact", {"full_name"})}
=============================================================================
