------------------------------ MODULE MCPipeline ------------------------------
(***************************************************************************)
(* Instances of ExtractionPipeline for TLC: the part of the repository's   *)
(* graph that spans the kinds one item can have, and how often each        *)
(* outside event may happen.                                               *)
(***************************************************************************)
EXTENDS ExtractionPipeline
LOCAL INSTANCE PlaudernGraph

\* Every outside event at most once in a behaviour, and only some together.
OnceEach == [e \in OutsideEvents |-> 1]

\* A recording; transcription, diarization and summaries are configured.
AudioKinds == {"transcription", "diarization", "summary", "sentinel"}
AudioDeps == DepsAmong(AudioKinds)
AudioRoots == <<"transcription", "diarization">>
AudioGated == ExternalLlmKinds \cap AudioKinds
AudioMixes == {{"fail", "queueDown"}, {"crash"}, {"override"}}
Failures == {{"fail"}}

\* A recording of an account with transcription as its only provider; the
\* sentinel is always enabled.  Audio is what a transcription is retried on.
VoiceKinds == {"transcription", "sentinel"}
VoiceDeps == DepsAmong(VoiceKinds)
VoiceRoots == <<"transcription">>
VoiceMixes == {{"retry", "reprocess"}, {"crash", "reprocess"}, {"queueDown", "retry"}}

\* A scanned document: OCR bridges its text into a transcription row, the
\* source-text group has two members and one of them does not apply.
DocumentKinds == {"transcription", "ocr", "sentinel", "entities"}
DocumentRelevant == DocumentKinds \ {"transcription"}
DocumentDeps == DepsAmong(DocumentKinds)
DocumentRoots == <<"transcription", "ocr">>
DocumentGated == ExternalLlmKinds \cap DocumentKinds
DocumentLocal == {"entities"}
DocumentBridge == OcrBridge
=============================================================================
