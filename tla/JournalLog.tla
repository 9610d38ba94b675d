----------------------------- MODULE JournalLog -----------------------------
(***************************************************************************)
(* The journal: a JSONL file which several processes append to (a node     *)
(* with a Journal object per strategy, one for the selector and one for    *)
(* the command line, and other commands) and any process may read.         *)
(*                                                                         *)
(* An append opens the file, writes the entry and its newline with one     *)
(* call, and closes it; the system puts what one call writes at the end of *)
(* the file, whole, unless the process dies or the disk is full.           *)
(*                                                                         *)
(* Data abstractions.  The JSON text of an entry is the whole text or some *)
(* part of it; text that is followed by more text on its line is no JSON.  *)
(* Entries are shorter than Python's write buffer, so they are not split.  *)
(***************************************************************************)
EXTENDS Naturals, Sequences

CONSTANTS
    Processes,   \* a node, a command
    Journals,    \* the Journal objects of a process
    Faults,      \* what may go wrong: see FaultKinds
    MaxEntries   \* bound: entries made by all processes together

FaultKinds == { "crash",          \* a process dies, perhaps in an append
                "write_fails" }   \* a full disk: the append raises

ASSUME FaultsAssumption == Faults \subseteq FaultKinds
ASSUME EntriesAssumption == MaxEntries \in Nat

Writers == Processes \X Journals
Entries == 1..MaxEntries
Text == [entry : Entries, whole : BOOLEAN]

VARIABLES
    lines,      \* the file: its terminated lines, each a sequence of texts
    tail,       \* the file: the texts after the last newline
    index,      \* _entries of every Journal object
    issued,     \* observer: JournalEntry objects made so far
    returned,   \* observer: the entries whose record() returned, in that order
    failed,     \* observer: the entries whose record() raised
    cut         \* observer: some append left text without its newline

vars == <<lines, tail, index, issued, returned, failed, cut>>

TypeOK ==
    /\ lines \in Seq(Seq(Text)) /\ tail \in Seq(Text)
    /\ index \in [Writers -> Seq(Entries)]
    /\ issued \in 0..MaxEntries
    /\ returned \in Seq(Entries)
    /\ failed \subseteq Entries
    /\ cut \in BOOLEAN

Init ==
    /\ lines = <<>> /\ tail = <<>>
    /\ index = [w \in Writers |-> <<>>]
    /\ issued = 0 /\ returned = <<>> /\ failed = {} /\ cut = FALSE

-----------------------------------------------------------------------------
(***************************************************************************)
(* Journal.load, by a process that may catch a writer in an append.        *)
(***************************************************************************)
Parses(line) == Len(line) = 1 /\ line[1].whole

\* Mutant of Damaged: a line that does not parse is skipped.
DamagedNever == FALSE

\* A terminated line does not parse, and load raises.
Damaged == \E i \in DOMAIN lines : ~Parses(lines[i])

\* What load returns otherwise; the text after the last newline counts when it
\* parses and ends the reading when it does not.
Loaded(rest) ==
    [i \in DOMAIN lines |-> lines[i][1].entry]
        \o IF Parses(rest) THEN <<rest[1].entry>> ELSE <<>>

\* The ends of the file that a reader may see: some of the next entry as well.
Views == {tail} \cup {Append(tail, [entry |-> issued + 1, whole |-> b]) : b \in BOOLEAN}

-----------------------------------------------------------------------------
(***************************************************************************)
(* Journal.record.                                                         *)
(***************************************************************************)
MakeEntry == issued < MaxEntries /\ issued' = issued + 1

Indexed(w) == index' = [index EXCEPT ![w] = Append(@, issued')]

\* Mutant of AppendLine: the file is opened for writing, not for appending.
AppendLineTruncates ==
    /\ lines' = << <<[entry |-> issued', whole |-> TRUE]>> >>
    /\ tail' = <<>>

\* Mutant of AppendLine: the entry is dumped over several lines.
AppendLineIndented ==
    /\ lines' = lines \o << Append(tail, [entry |-> issued', whole |-> FALSE]),
                            <<[entry |-> issued', whole |-> FALSE]>> >>
    /\ tail' = <<>>

AppendLine ==
    /\ lines' = Append(lines, Append(tail, [entry |-> issued', whole |-> TRUE]))
    /\ tail' = <<>>

\* An append that was cut short: nothing of it, some or all of the text.
CutShort ==
    /\ UNCHANGED lines
    /\ \/ UNCHANGED <<tail, cut>>
       \/ /\ \E b \in BOOLEAN : tail' = Append(tail, [entry |-> issued', whole |-> b])
          /\ cut' = TRUE

Record(w) ==
    /\ MakeEntry
    /\ Indexed(w)
    /\ AppendLine
    /\ returned' = Append(returned, issued')
    /\ UNCHANGED <<failed, cut>>

WriteFails(w) ==  \* the exception ends the callback that records
    /\ "write_fails" \in Faults
    /\ MakeEntry
    /\ Indexed(w)
    /\ CutShort
    /\ failed' = failed \cup {issued'}
    /\ UNCHANGED returned

Crash(p) ==  \* and start again, with new Journal objects on the same path
    /\ "crash" \in Faults
    /\ MakeEntry
    /\ CutShort
    /\ index' = [w \in Writers |-> IF w[1] = p THEN <<>> ELSE index[w]]
    /\ UNCHANGED <<returned, failed>>

Next ==
    \/ \E w \in Writers : Record(w) \/ WriteFails(w)
    \/ \E p \in Processes : Crash(p)

Spec == Init /\ [][Next]_vars

-----------------------------------------------------------------------------
(***************************************************************************)
(* Properties that hold.                                                   *)
(***************************************************************************)

\* Until a line is damaged, the lines are the entries that were recorded, and
\* what follows them was made later.
Intact ==
    \/ Damaged
    \/ /\ lines = [i \in DOMAIN returned |-> <<[entry |-> returned[i], whole |-> TRUE]>>]
       /\ \A i \in DOMAIN returned : returned[i] <= issued
       /\ \A j \in DOMAIN tail :
             /\ tail[j].entry <= issued
             /\ \A i \in DOMAIN returned : returned[i] < tail[j].entry

Ascending(s) == \A i, j \in DOMAIN s : i < j => s[i] < s[j]

\* Entries are recorded, and listed in memory, in the order in which they were
\* made, and what a Journal object lists was recorded or its record() raised.
Numbered ==
    /\ Ascending(returned)
    /\ \A i \in DOMAIN returned : returned[i] <= issued
    /\ \A w \in Writers :
          /\ Ascending(index[w])
          /\ \A i \in DOMAIN index[w] :
                /\ index[w][i] <= issued
                /\ \/ index[w][i] \in failed
                   \/ \E k \in DOMAIN returned : returned[k] = index[w][i]

JournalInv == TypeOK /\ Intact /\ Numbered

\* load raises, or it returns every entry that was recorded, by whatever
\* process, in the order in which it was, and at most one more: the last
\* entry's text without its newline.  No crash, full disk or writer caught in
\* an append makes it drop an entry in silence.
RecordsSurvive ==
    Damaged \/ \A rest \in Views :
        \/ Loaded(rest) = returned
        \/ \E e \in 1..(issued + 1) :
              /\ Loaded(rest) = Append(returned, e)
              /\ \A i \in DOMAIN returned : returned[i] < e

\* load raises only after some append was cut short: several writers and
\* readers alone never make it.
NoFalseAlarm == ~cut => ~Damaged /\ tail = <<>>

\* The list in memory of a Journal object agrees with what load returns: the
\* entries it has, those whose append failed left out, are all there, each once
\* and in the same order, with other writers' entries in between.
IndexAgrees ==
    ~Damaged => \A w \in Writers :
        LET read == Loaded(tail)
            kept == {i \in DOMAIN index[w] : index[w][i] \notin failed}
        IN  /\ \A i \in kept : \E k \in DOMAIN read : read[k] = index[w][i]
            /\ \A i, j \in kept, k, l \in DOMAIN read :
                  read[k] = index[w][i] /\ read[l] = index[w][j] =>
                     (i < j <=> k < l)

=============================================================================
