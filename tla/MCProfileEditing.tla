-------------------------- MODULE MCProfileEditing --------------------------
EXTENDS ProfileEditing, TLC

\* Requests and profiles are alike: Init takes any of them for the first profile.
Symmetry == Permutations(Requests) \cup Permutations(Profiles)

\* A section whose parts have the given values.
Section(section, parts) ==
  [section |-> section,
   doc |-> [f \in Fields |-> IF SectionOf(f) # section THEN "absent"
                             ELSE IF f[2] \in DOMAIN parts THEN parts[f[2]] ELSE "absent"]]

\* A complete section, a null, a text that is too long, an incomplete section.
SomePatches ==
  { Section("summary", [summary |-> "text"]),
    Section("summary", [summary |-> "null"]),
    Section("summary", [summary |-> "unfit"]),
    Section("experience", [role |-> "text", company |-> "text", start_date |-> "text"]) }

OnePatch == {Section("summary", [summary |-> "text"])}

\* Everything but a phone number.
Full == [f \in Fields |->
           IF f \in ProfileFields \ {<<"contact", "phone">>} THEN "text" ELSE "absent"]

FullOnly == {Full}

Person == {"full_name", "location", "email", "certificate"}

SomeUploads ==
  { [kind |-> "pdf", facts |-> Person \ {"location"}, lines |-> <<"experience", "post">>],
    [kind |-> "docx", facts |-> Person \cup {"mark first"},
     lines |-> <<"summary", "long", "experience", "post with place">>],
    [kind |-> "docx", facts |-> Person,
     lines |-> <<"skills", "tool", "publications", "words", "skills", "field",
                 "education", "degree">>],
    [kind |-> "scan", facts |-> {}, lines |-> <<>>],
    [kind |-> "macro", facts |-> {}, lines |-> <<>>] }

\* A full reply, a partial one, and one with a word for the score.
SomeReplies ==
  { [publications |-> "likely", seniority |-> "scored"],
    [publications |-> "likely", seniority |-> "zero"],
    [publications |-> "likely", seniority |-> "word"] }
=============================================================================
