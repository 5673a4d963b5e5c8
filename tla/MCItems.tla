------------------------------- MODULE MCItems -------------------------------
(***************************************************************************)
(* What becomes of an item beside its extractions: how it gets in and out, *)
(* what it is merged into, linked to and filed under, the rows its         *)
(* extractions leave, and the row that says how sensitive it is.  These    *)
(* share no state in the models, so a behaviour runs one of them and       *)
(* leaves the others as they start.                                        *)
(***************************************************************************)
EXTENDS TopicDocuments, RecordingMerges, ItemImports, ExtractedRows, CalendarLinks,
        SensitivityRow

VARIABLE focus

itemVars == <<focus, topicVars, mergeVars, importVars, rowVars, calendarVars, sensitivityVars>>

ItemsInit ==
    /\ focus \in {"topics", "merges", "imports", "rows", "calendar", "sensitivity"}
    /\ TopicInit /\ MergeInit /\ RowInit /\ CalendarInit /\ SensitivityInit
    /\ ImportInit /\ (focus # "imports" => origin = "sync")

OnTopics ==
    /\ focus = "topics"
    /\ UNCHANGED <<focus, mergeVars, importVars, rowVars, calendarVars, sensitivityVars>>
OnMerges ==
    /\ focus = "merges"
    /\ UNCHANGED <<focus, topicVars, importVars, rowVars, calendarVars, sensitivityVars>>
OnImports ==
    /\ focus = "imports"
    /\ UNCHANGED <<focus, topicVars, mergeVars, rowVars, calendarVars, sensitivityVars>>
OnRows ==
    /\ focus = "rows"
    /\ UNCHANGED <<focus, topicVars, mergeVars, importVars, calendarVars, sensitivityVars>>
OnCalendar ==
    /\ focus = "calendar"
    /\ UNCHANGED <<focus, topicVars, mergeVars, importVars, rowVars, sensitivityVars>>
OnSensitivity ==
    /\ focus = "sensitivity"
    /\ UNCHANGED <<focus, topicVars, mergeVars, importVars, rowVars, calendarVars>>

ItemsNext ==
    \/ OnTopics /\ TopicNext
    \/ OnMerges /\ MergeNext
    \/ OnImports /\ ImportNext
    \/ OnRows /\ RowNext
    \/ OnCalendar /\ CalendarNext
    \/ OnSensitivity /\ SensitivityNext

ItemsSpec == ItemsInit /\ [][ItemsNext]_itemVars

(* Every variable of every module keeps to its type.                       *)
ItemsTypeOK ==
    /\ TopicTypeOK /\ MergeTypeOK /\ ImportTypeOK /\ RowTypeOK /\ CalendarTypeOK
    /\ SensitivityTypeOK
=============================================================================
