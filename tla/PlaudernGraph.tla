---------------------------- MODULE PlaudernGraph ----------------------------
(***************************************************************************)
(* The graph the extractors of this repository declare, one definition per *)
(* extractor.  The model-checking modules take the part of it that spans   *)
(* the kinds enabled for the account and applying to the item.             *)
(***************************************************************************)
EXTENDS Integers, Sequences

And(of, kind, req) == [of |-> of, kind |-> kind, requires |-> req, group |-> "none"]

\* A source text is a transcript or the text OCR read: one succeeds, the
\* group is satisfied.
SourceText(of) ==
    {[of |-> of, kind |-> k, requires |-> "succeeded", group |-> "sourceText"] :
        k \in {"transcription", "ocr"}}

TranscriptionDeps == {}
DiarizationDeps == {}
OcrDeps == {}

SummaryDeps == {And("summary", "transcription", "succeeded"),
                And("summary", "diarization", "settled")}

SentinelDeps == {And("sentinel", "transcription", "settled"),
                 And("sentinel", "ocr", "settled")}

EmbeddingDeps == SourceText("embedding") \cup {And("embedding", "summary", "settled")}

EntitiesDeps == SourceText("entities")

RelationsDeps == {And("relations", "entities", "succeeded")}

TopicsDeps == SourceText("topics") \cup {And("topics", "summary", "settled")}

TasksDeps == {And("tasks", "transcription", "succeeded"), And("tasks", "summary", "settled")}

CommitmentsDeps == {And("commitments", "transcription", "succeeded")} \cup
    {And("commitments", k, "settled") : k \in {"diarization", "summary", "tasks"}}

QuestionsDeps == {And("questions", "transcription", "succeeded")} \cup
    {And("questions", k, "settled") : k \in {"diarization", "summary"}}

DecisionsDeps == {And("decisions", "transcription", "succeeded")} \cup
    {And("decisions", k, "settled") : k \in {"diarization", "summary"}}

FactsDeps == {And("facts", "transcription", "succeeded"), And("facts", "summary", "settled")}

RemindersDeps == {And("reminders", "transcription", "succeeded")}

DocmetaDeps == {And("docmeta", "ocr", "succeeded")}

AllDeps ==
    UNION {TranscriptionDeps, DiarizationDeps, OcrDeps, SummaryDeps, SentinelDeps,
           EmbeddingDeps, EntitiesDeps, RelationsDeps, TopicsDeps, TasksDeps,
           CommitmentsDeps, QuestionsDeps, DecisionsDeps, FactsDeps, RemindersDeps,
           DocmetaDeps}

\* The edges between the given kinds: an extractor that is disabled or does
\* not apply contributes neither rows nor waiting.
DepsAmong(kinds) == {e \in AllDeps : e.of \in kinds /\ e.kind \in kinds}

\* EXTERNAL_LLM_KINDS: the kinds the routing guard holds back.
ExternalLlmKinds ==
    {"summary", "embedding", "entities", "topics", "relations", "commitments", "tasks",
     "facts", "questions", "decisions", "reminders", "docmeta"}

\* OcrProcessor bridges recognised text into a transcription row.
OcrBridge == {<<"ocr", "transcription">>}
=============================================================================
