SPECIFICATION Spec
CONSTANTS
    Processes = {"node", "command"}
    Journals = {"strategy", "selector"}
    Faults = {"crash", "write_fails"}
    MaxEntries = 4
INVARIANTS JournalInv RecordsSurvive NoFalseAlarm IndexAgrees
\* The bound on entries ends every run.
CHECK_DEADLOCK FALSE
