CONSTANTS
    c1 = c1
    c2 = c2
    ann = ann
    Calls = {c1, c2}
    Editors = {ann}
    EditorOf <- OneEditor
    Elsewhere = elsewhere
    Kind = "pipeline"
    Codes <- EditCodes
    MaxChanges = 4
SPECIFICATION Spec
CHECK_DEADLOCK FALSE
INVARIANTS NoLostUpdate AppliedOnce ConflictIsWithAnother
PROPERTIES KeepsPromise
