-------------------------- MODULE JournalLogProofs --------------------------
(***************************************************************************)
(* What a reader gets from the journal, for any number of processes,       *)
(* Journal objects and entries, and any faults.                            *)
(***************************************************************************)
EXTENDS JournalLog, TLAPS

\* The lines of a journal in which these entries were recorded undisturbed.
LinesOf(s) == [i \in DOMAIN s |-> <<[entry |-> s[i], whole |-> TRUE]>>]

\* What Append does, stated once for the steps that apply it to variables.
LEMMA AppendAt ==
    ASSUME NEW S, NEW s \in Seq(S), NEW e \in S
    PROVE  /\ Append(s, e) \in Seq(S) /\ Len(Append(s, e)) = Len(s) + 1
           /\ DOMAIN Append(s, e) = 1..(Len(s) + 1) /\ DOMAIN s = 1..Len(s)
           /\ Len(s) \in Nat
           /\ Append(s, e)[Len(s) + 1] = e
           /\ \A i \in 1..Len(s) : Append(s, e)[i] = s[i]
  OBVIOUS

\* The record of one entry's whole text, on a line of its own.
LEMMA LinesType ==
    ASSUME NEW s \in Seq(Entries)
    PROVE  /\ LinesOf(s) \in Seq(Seq(Text)) /\ Len(LinesOf(s)) = Len(s)
           /\ \A i \in 1..Len(s) : LinesOf(s)[i] = <<[entry |-> s[i], whole |-> TRUE]>>
  <1>1. DOMAIN s = 1..Len(s) /\ Len(s) \in Nat
    OBVIOUS
  <1>2. \A i \in 1..Len(s) : s[i] \in Entries
    BY <1>1
  <1>3. \A i \in 1..Len(s) : [entry |-> s[i], whole |-> TRUE] \in Text
    BY <1>2 DEF Text
  <1>4. \A i \in 1..Len(s) : <<[entry |-> s[i], whole |-> TRUE]>> \in Seq(Text)
    BY <1>3
  <1>5. LinesOf(s) = [i \in 1..Len(s) |-> <<[entry |-> s[i], whole |-> TRUE]>>]
    BY <1>1 DEF LinesOf
  <1>6. LinesOf(s) \in [1..Len(s) -> Seq(Text)]
    BY <1>4, <1>5
  <1>7. LinesOf(s) \in Seq(Seq(Text)) /\ Len(LinesOf(s)) = Len(s)
    BY <1>1, <1>6
  <1> QED
    BY <1>5, <1>7

\* Appending a line of its own for one more entry keeps the lines undisturbed.
LEMMA LinesAppend ==
    ASSUME NEW s \in Seq(Entries), NEW e \in Entries
    PROVE  Append(LinesOf(s), <<[entry |-> e, whole |-> TRUE]>>) = LinesOf(Append(s, e))
  <1> DEFINE line == <<[entry |-> e, whole |-> TRUE]>>
             L == Append(LinesOf(s), line)
             R == LinesOf(Append(s, e))
  <1>1. line \in Seq(Text)
    BY DEF Text
  <1>2. /\ LinesOf(s) \in Seq(Seq(Text)) /\ Len(LinesOf(s)) = Len(s)
        /\ \A i \in 1..Len(s) : LinesOf(s)[i] = <<[entry |-> s[i], whole |-> TRUE]>>
    BY LinesType
  <1>3. /\ Append(s, e) \in Seq(Entries) /\ Len(Append(s, e)) = Len(s) + 1
        /\ Append(s, e)[Len(s) + 1] = e
        /\ \A i \in 1..Len(s) : Append(s, e)[i] = s[i]
    OBVIOUS
  <1>4. /\ R \in Seq(Seq(Text)) /\ Len(R) = Len(s) + 1
        /\ \A i \in 1..(Len(s) + 1) :
              R[i] = <<[entry |-> Append(s, e)[i], whole |-> TRUE]>>
    BY <1>3, LinesType
  <1> HIDE DEF line
  <1>5. /\ L \in Seq(Seq(Text)) /\ Len(L) = Len(s) + 1
        /\ L[Len(s) + 1] = line
        /\ \A i \in 1..Len(s) : L[i] = LinesOf(s)[i]
    <2>1. /\ L \in Seq(Seq(Text)) /\ Len(L) = Len(LinesOf(s)) + 1
          /\ L[Len(LinesOf(s)) + 1] = line
          /\ \A i \in 1..Len(LinesOf(s)) : L[i] = LinesOf(s)[i]
      BY <1>1, <1>2, AppendAt
    <2> QED
      BY <1>2, <2>1
  <1>6. Len(s) \in Nat
    OBVIOUS
  <1> HIDE DEF L, R
  <1>7. ASSUME NEW i \in 1..(Len(s) + 1)
        PROVE  L[i] = R[i]
    <2>1. CASE i \in 1..Len(s)
      BY <1>2, <1>3, <1>4, <1>5, <2>1
    <2>2. CASE i = Len(s) + 1
      BY <1>3, <1>4, <1>5, <2>2 DEF line
    <2> QED
      BY <1>6, <2>1, <2>2
  <1>8. L = R
    BY <1>4, <1>5, <1>6, <1>7
  <1> QED
    BY <1>8 DEF L, R, line

\* A damaged line is never repaired: lines are only ever added.
LEMMA DamageStays ==
    ASSUME TypeOK, Damaged, NEW line \in Seq(Text), lines' = Append(lines, line)
    PROVE  Damaged'
  <1>1. PICK i \in DOMAIN lines : ~Parses(lines[i])
    BY DEF Damaged
  <1>2. i \in DOMAIN lines' /\ lines'[i] = lines[i]
    BY DEF TypeOK
  <1> QED
    BY <1>1, <1>2 DEF Damaged, Parses

-----------------------------------------------------------------------------

FileInv == TypeOK /\ Intact

\* The state of the file: unless a line is damaged, its lines are the entries
\* that were recorded, in order, and any text after them is of later ones.
LEMMA FileInvariant == Spec => []FileInv
  <1> USE EntriesAssumption
  <1>1. Init => FileInv
    <2> SUFFICES ASSUME Init
                 PROVE  FileInv
      OBVIOUS
    <2>1. TypeOK
      <3>1. <<>> \in Seq(Entries) /\ <<>> \in Seq(Text) /\ <<>> \in Seq(Seq(Text))
        OBVIOUS
      <3>2. issued \in 0..MaxEntries
        BY DEF Init
      <3> QED
        BY <3>1, <3>2 DEF Init, TypeOK
    <2>2. lines = [i \in DOMAIN returned |-> <<[entry |-> returned[i], whole |-> TRUE]>>]
      BY DEF Init
    <2>3. DOMAIN returned = {} /\ DOMAIN tail = {}
      BY DEF Init
    <2> QED
      BY <2>1, <2>2, <2>3 DEF FileInv, Intact
  <1>2. FileInv /\ [Next]_vars => FileInv'
    <2> SUFFICES ASSUME FileInv, [Next]_vars
                 PROVE  FileInv'
      OBVIOUS
    <2>1. ASSUME NEW w \in Writers, Record(w)
          PROVE  FileInv'
      <3> DEFINE t == [entry |-> issued', whole |-> TRUE]
      <3>1. issued' \in Entries /\ issued' = issued + 1 /\ issued \in Nat
        BY <2>1 DEF Record, MakeEntry, FileInv, TypeOK, Entries
      <3>2. t \in Text
        BY <3>1 DEF Text
      <3>3. Append(tail, t) \in Seq(Text)
        BY <3>2 DEF FileInv, TypeOK
      <3>4. /\ lines' = Append(lines, Append(tail, t)) /\ tail' = <<>>
            /\ returned' = Append(returned, issued')
        BY <2>1 DEF Record, AppendLine
      <3>5. index' \in [Writers -> Seq(Entries)]
        BY <2>1, <3>1 DEF Record, Indexed, FileInv, TypeOK
      <3>6. TypeOK'
        BY <2>1, <3>1, <3>3, <3>4, <3>5 DEF Record, MakeEntry, FileInv, TypeOK, Entries
      <3>7. CASE Damaged
        BY <3>3, <3>4, <3>6, <3>7, DamageStays DEF FileInv, Intact
      <3>8. CASE ~Damaged /\ tail = <<>>
        <4>1. Append(tail, t) = <<t>>
          BY <3>2, <3>8
        <4>2. lines = LinesOf(returned) /\ returned \in Seq(Entries)
          BY <3>8 DEF FileInv, TypeOK, Intact, LinesOf
        <4>3. lines' = LinesOf(returned')
          BY <3>1, <3>4, <4>1, <4>2, LinesAppend
        <4>4. ASSUME NEW i \in DOMAIN returned'
              PROVE  returned'[i] <= issued'
          <5>1. \A k \in DOMAIN returned : returned[k] \in Nat /\ returned[k] <= issued
            BY <3>8, <4>2 DEF FileInv, Intact, Entries
          <5>2. returned'[i] = issued' \/ (i \in DOMAIN returned /\ returned'[i] = returned[i])
            BY <3>1, <3>4, <4>2, AppendAt
          <5> QED
            BY <3>1, <5>1, <5>2
        <4>5. DOMAIN tail' = {}
          BY <3>4
        <4> QED
          BY <3>6, <4>3, <4>4, <4>5 DEF FileInv, Intact, LinesOf
      <3>9. CASE tail # <<>>
        <4>1. Len(tail) > 0 /\ Len(Append(tail, t)) = Len(tail) + 1 /\ Len(tail) \in Nat
          BY <3>2, <3>9 DEF FileInv, TypeOK
        <4>2. ~Parses(Append(tail, t))
          BY <4>1 DEF Parses
        <4>3. Len(lines) + 1 \in DOMAIN lines' /\ lines'[Len(lines) + 1] = Append(tail, t)
          BY <3>3, <3>4 DEF FileInv, TypeOK
        <4>4. Damaged'
          BY <4>2, <4>3 DEF Damaged, Parses
        <4> QED
          BY <3>6, <4>4 DEF FileInv, Intact
      <3> QED
        BY <3>7, <3>8, <3>9
    <2>2. ASSUME MakeEntry, CutShort, UNCHANGED returned,
                 index' \in [Writers -> Seq(Entries)], failed' \subseteq Entries
          PROVE  FileInv'
      <3>1. issued' \in Entries /\ issued' = issued + 1 /\ issued \in Nat
        BY <2>2 DEF MakeEntry, FileInv, TypeOK, Entries
      <3>2. \/ tail' = tail
            \/ \E b \in BOOLEAN : tail' = Append(tail, [entry |-> issued', whole |-> b])
        BY <2>2 DEF CutShort
      <3>3. \A b \in BOOLEAN : [entry |-> issued', whole |-> b] \in Text
        BY <3>1 DEF Text
      <3>4. tail' \in Seq(Text)
        <4>1. tail \in Seq(Text)
          BY DEF FileInv, TypeOK
        <4>2. ASSUME NEW t \in Text
              PROVE  Append(tail, t) \in Seq(Text)
          BY <4>1, AppendAt
        <4> QED
          BY <3>2, <3>3, <4>1, <4>2
      <3>5. lines' = lines /\ cut' \in BOOLEAN
        BY <2>2 DEF CutShort, FileInv, TypeOK
      <3>6. TypeOK'
        BY <2>2, <3>1, <3>4, <3>5 DEF MakeEntry, FileInv, TypeOK, Entries
      <3>7. CASE Damaged
        BY <3>5, <3>6, <3>7 DEF FileInv, Intact, Damaged, Parses
      <3>8. CASE ~Damaged
        <4>1. \A i \in DOMAIN returned : returned[i] <= issued /\ returned[i] \in Nat
          BY SMTT(30), <3>8 DEF FileInv, TypeOK, Intact, Entries
        <4>2. \A j \in DOMAIN tail :
                 /\ tail[j].entry \in Nat /\ tail[j].entry <= issued
                 /\ \A i \in DOMAIN returned : returned[i] < tail[j].entry
          <5>1. \A j \in DOMAIN tail : tail[j] \in Text
            BY DEF FileInv, TypeOK
          <5>2. \A t \in Text : t.entry \in Nat
            BY DEF Text, Entries
          <5> QED
            BY <3>8, <5>1, <5>2 DEF FileInv, Intact
        <4>3. ASSUME NEW j \in DOMAIN tail'
              PROVE  /\ tail'[j].entry <= issued'
                     /\ \A i \in DOMAIN returned : returned[i] < tail'[j].entry
          <5>1. CASE tail' = tail
            BY <3>1, <4>2, <5>1
          <5>2. ASSUME NEW t \in Text, t.entry = issued', tail' = Append(tail, t)
                PROVE  /\ tail'[j].entry <= issued'
                       /\ \A i \in DOMAIN returned : returned[i] < tail'[j].entry
            <6>1. tail \in Seq(Text)
              BY DEF FileInv, TypeOK
            <6>2. tail'[j] = t \/ (j \in DOMAIN tail /\ tail'[j] = tail[j])
              BY <5>2, <6>1, AppendAt
            <6> QED
              BY <3>1, <4>1, <4>2, <5>2, <6>2
          <5> QED
            BY <3>2, <3>3, <5>1, <5>2
        <4> QED
          BY <2>2, <3>1, <3>5, <3>6, <3>8, <4>1, <4>3 DEF FileInv, Intact
      <3> QED
        BY <3>7, <3>8
    <2>3. ASSUME NEW w \in Writers, WriteFails(w)
          PROVE  FileInv'
      <3>1. issued' \in Entries
        BY <2>3 DEF WriteFails, MakeEntry, FileInv, TypeOK, Entries
      <3>2. index' \in [Writers -> Seq(Entries)] /\ failed' \subseteq Entries
        BY <2>3, <3>1 DEF WriteFails, Indexed, FileInv, TypeOK
      <3> QED
        BY <2>2, <2>3, <3>2 DEF WriteFails
    <2>4. ASSUME NEW p \in Processes, Crash(p)
          PROVE  FileInv'
      <3>1. index' \in [Writers -> Seq(Entries)] /\ failed' \subseteq Entries
        BY <2>4 DEF Crash, FileInv, TypeOK
      <3> QED
        BY <2>2, <2>4, <3>1 DEF Crash
    <2>5. CASE UNCHANGED vars
      BY <2>5 DEF vars, FileInv, TypeOK, Intact, Damaged, Parses
    <2> QED
      BY <2>1, <2>3, <2>4, <2>5 DEF Next
  <1> QED
    BY <1>1, <1>2, PTL DEF Spec

\* Appending a later entry keeps a list ascending.
LEMMA AscendingAppend ==
    ASSUME NEW s \in Seq(Entries), NEW e \in Entries, Ascending(s),
           \A i \in DOMAIN s : s[i] < e
    PROVE  Ascending(Append(s, e))
  <1>1. /\ DOMAIN Append(s, e) = 1..(Len(s) + 1) /\ DOMAIN s = 1..Len(s)
        /\ Len(s) \in Nat
        /\ Append(s, e)[Len(s) + 1] = e
        /\ \A i \in 1..Len(s) : Append(s, e)[i] = s[i]
    BY AppendAt
  <1> QED
    BY <1>1 DEF Ascending

\* The numbers of the entries give the order of the file and of the lists.
LEMMA NumberedStep == FileInv /\ Numbered /\ [Next]_vars => Numbered'
  <1> SUFFICES ASSUME FileInv, Numbered, [Next]_vars
               PROVE  Numbered'
    OBVIOUS
  <1> USE EntriesAssumption
  <1> DEFINE Known(s, n) == \A i \in DOMAIN s : s[i] <= n
             Settled(s, f, r) ==
                 \A i \in DOMAIN s : s[i] \in f \/ \E k \in DOMAIN r : r[k] = s[i]
  <1>1. /\ returned \in Seq(Entries) /\ Ascending(returned) /\ Known(returned, issued)
        /\ \A w \in Writers :
              /\ index[w] \in Seq(Entries) /\ Ascending(index[w])
              /\ Known(index[w], issued) /\ Settled(index[w], failed, returned)
    BY DEF FileInv, TypeOK, Numbered
  <1>2. Numbered' <=>
          /\ Ascending(returned') /\ Known(returned', issued')
          /\ \A w \in Writers :
                /\ Ascending(index'[w]) /\ Known(index'[w], issued')
                /\ Settled(index'[w], failed', returned')
    BY DEF Numbered, Ascending
  <1>3. ASSUME NEW s \in Seq(Entries), Known(s, issued), Ascending(s), MakeEntry
        PROVE  /\ Known(s, issued')
               /\ Ascending(Append(s, issued')) /\ Known(Append(s, issued'), issued')
    <2>1. issued' \in Entries /\ issued' = issued + 1 /\ issued \in Nat
      BY <1>3 DEF MakeEntry, FileInv, TypeOK, Entries
    <2>2. DOMAIN s = 1..Len(s) /\ \A i \in DOMAIN s : s[i] \in Nat /\ s[i] <= issued
      BY <1>3 DEF Entries
    <2>3. \A i \in DOMAIN s : s[i] < issued'
      BY <2>1, <2>2
    <2>4. Ascending(Append(s, issued'))
      BY <1>3, <2>1, <2>3, AscendingAppend
    <2>5. /\ DOMAIN Append(s, issued') = 1..(Len(s) + 1) /\ Len(s) \in Nat
          /\ Append(s, issued')[Len(s) + 1] = issued'
          /\ \A i \in 1..Len(s) : Append(s, issued')[i] = s[i]
      BY <2>1, AppendAt
    <2>6. \A i \in DOMAIN Append(s, issued') : Append(s, issued')[i] <= issued'
      BY <2>1, <2>2, <2>3, <2>5
    <2> QED
      BY <2>1, <2>2, <2>4, <2>6
  <1>4. ASSUME NEW s \in Seq(Entries), NEW e \in Entries, NEW f, NEW r,
               Settled(s, f, r), e \in f \/ \E k \in DOMAIN r : r[k] = e
        PROVE  Settled(Append(s, e), f, r)
    BY <1>4, AppendAt
  <1>5. ASSUME NEW s \in Seq(Entries), NEW e \in Entries, NEW f, NEW x, Settled(x, f, s)
        PROVE  /\ Settled(x, f, Append(s, e))
               /\ \E k \in DOMAIN Append(s, e) : Append(s, e)[k] = e
    <2>1. /\ DOMAIN Append(s, e) = 1..(Len(s) + 1) /\ DOMAIN s = 1..Len(s) /\ Len(s) \in Nat
          /\ Append(s, e)[Len(s) + 1] = e
          /\ \A i \in 1..Len(s) : Append(s, e)[i] = s[i]
      BY AppendAt
    <2>2. \A k \in DOMAIN s : k \in DOMAIN Append(s, e) /\ Append(s, e)[k] = s[k]
      BY <2>1
    <2>3. Len(s) + 1 \in DOMAIN Append(s, e)
      BY <2>1
    <2> QED
      BY <1>5, <2>1, <2>2, <2>3
  <1> HIDE DEF Known, Settled
  <1>6. MakeEntry => issued' \in Entries
    BY DEF MakeEntry, FileInv, TypeOK, Entries
  <1>7. ASSUME NEW w \in Writers, Indexed(w), NEW v \in Writers
        PROVE  index'[v] = IF v = w THEN Append(index[w], issued') ELSE index[v]
    BY <1>7 DEF Indexed, FileInv, TypeOK
  <1>8. ASSUME NEW w \in Writers, Record(w) PROVE Numbered'
    <2>1. /\ MakeEntry /\ Indexed(w) /\ returned' = Append(returned, issued')
          /\ failed' = failed /\ issued' \in Entries
      BY <1>6, <1>8 DEF Record
    <2>2. Ascending(returned') /\ Known(returned', issued')
      BY <1>1, <1>3, <2>1
    <2>3. ASSUME NEW v \in Writers
          PROVE  /\ Ascending(index'[v]) /\ Known(index'[v], issued')
                 /\ Settled(index'[v], failed', returned')
      <3>1. /\ Settled(index[v], failed', returned')
            /\ \E k \in DOMAIN returned' : returned'[k] = issued'
        BY <1>1, <1>5, <2>1
      <3>2. /\ Ascending(index[v]) /\ Known(index[v], issued')
            /\ Ascending(Append(index[v], issued'))
            /\ Known(Append(index[v], issued'), issued')
        BY <1>1, <1>3, <2>1
      <3>3. Settled(Append(index[v], issued'), failed', returned')
        BY <1>1, <1>4, <2>1, <3>1
      <3> QED
        BY <1>7, <2>1, <3>1, <3>2, <3>3
    <2> QED
      BY <1>2, <2>2, <2>3
  <1>9. ASSUME NEW s, NEW e, Settled(s, failed, returned)
        PROVE  Settled(s, failed \cup {e}, returned)
    BY <1>9 DEF Settled
  <1>10. ASSUME NEW w \in Writers, WriteFails(w) PROVE Numbered'
    <2>1. /\ MakeEntry /\ Indexed(w) /\ returned' = returned
          /\ failed' = failed \cup {issued'} /\ issued' \in Entries
      BY <1>6, <1>10 DEF WriteFails
    <2>2. Ascending(returned') /\ Known(returned', issued')
      BY <1>1, <1>3, <2>1
    <2>3. ASSUME NEW v \in Writers
          PROVE  /\ Ascending(index'[v]) /\ Known(index'[v], issued')
                 /\ Settled(index'[v], failed', returned')
      <3>1. Settled(index[v], failed', returned')
        BY <1>1, <1>9, <2>1
      <3>2. /\ Ascending(index[v]) /\ Known(index[v], issued')
            /\ Ascending(Append(index[v], issued'))
            /\ Known(Append(index[v], issued'), issued')
        BY <1>1, <1>3, <2>1
      <3>3. Settled(Append(index[v], issued'), failed', returned')
        BY <1>1, <1>4, <2>1, <3>1
      <3> QED
        BY <1>7, <2>1, <3>1, <3>2, <3>3
    <2> QED
      BY <1>2, <2>2, <2>3
  <1>11. ASSUME NEW p \in Processes, Crash(p) PROVE Numbered'
    <2>1. /\ MakeEntry /\ returned' = returned /\ failed' = failed
          /\ \A v \in Writers : index'[v] = <<>> \/ index'[v] = index[v]
      BY <1>11 DEF Crash
    <2>2. Ascending(returned') /\ Known(returned', issued')
      BY <1>1, <1>3, <2>1
    <2>3. Ascending(<<>>) /\ Known(<<>>, issued') /\ Settled(<<>>, failed', returned')
      BY DEF Ascending, Known, Settled
    <2>4. ASSUME NEW v \in Writers
          PROVE  /\ Ascending(index'[v]) /\ Known(index'[v], issued')
                 /\ Settled(index'[v], failed', returned')
      <3>1. CASE index'[v] = <<>>
        BY <2>3, <3>1
      <3>2. CASE index'[v] = index[v]
        BY <1>1, <1>3, <2>1, <3>2
      <3> QED
        BY <2>1, <3>1, <3>2
    <2> QED
      BY <1>2, <2>2, <2>4
  <1>12. CASE UNCHANGED vars
    BY <1>1, <1>2, <1>12 DEF vars
  <1> QED
    BY <1>8, <1>10, <1>11, <1>12 DEF Next

\* The file and the lists together: until a line is damaged the lines of the
\* file are the entries that were recorded, in the order in which they were
\* made, and every list in memory is in that order too.
THEOREM JournalInvariant == Spec => []JournalInv
  <1>1. Init => Numbered
    BY DEF Init, Numbered, Ascending
  <1>2. JournalInv <=> FileInv /\ Numbered
    BY DEF JournalInv, FileInv
  <1> QED
    BY <1>1, <1>2, FileInvariant, NumberedStep, PTL DEF Spec

-----------------------------------------------------------------------------

\* A load that does not raise returns everything that was recorded, in order,
\* and at most one entry more, whoever writes and whatever goes wrong.
THEOREM NothingDroppedSilently == Spec => []RecordsSurvive
  <1>1. JournalInv => RecordsSurvive
    <2> SUFFICES ASSUME JournalInv, ~Damaged, NEW rest \in Views
                 PROVE  \/ Loaded(rest) = returned
                        \/ \E e \in 1..(issued + 1) :
                              /\ Loaded(rest) = Append(returned, e)
                              /\ \A i \in DOMAIN returned : returned[i] < e
      BY DEF RecordsSurvive
    <2> DEFINE read == [i \in DOMAIN lines |-> lines[i][1].entry]
    <2>1. lines = LinesOf(returned) /\ returned \in Seq(Entries)
      BY DEF JournalInv, TypeOK, Intact, LinesOf
    <2>2. read = returned
      BY <2>1 DEF LinesOf
    <2>3. CASE ~Parses(rest)
      BY <2>1, <2>2, <2>3 DEF Loaded
    <2>4. CASE Parses(rest)
      <3>1. Loaded(rest) = returned \o <<rest[1].entry>>
        BY <2>2, <2>4 DEF Loaded
      <3>2. /\ rest[1].entry \in 1..(issued + 1)
            /\ \A i \in DOMAIN returned : returned[i] < rest[1].entry
        <4>1. /\ tail \in Seq(Text) /\ issued \in Nat
              /\ \A i \in DOMAIN returned : returned[i] \in Nat /\ returned[i] <= issued
              /\ \A j \in DOMAIN tail :
                    /\ tail[j].entry \in 1..issued
                    /\ \A i \in DOMAIN returned : returned[i] < tail[j].entry
          <5>1. tail \in Seq(Text) /\ issued \in Nat
            BY DEF JournalInv, TypeOK
          <5>2. \A j \in DOMAIN tail : tail[j] \in Text
            BY <5>1
          <5>3. \A t \in Text : t.entry \in Nat /\ t.entry >= 1
            BY DEF Text, Entries
          <5>4. \A i \in DOMAIN returned : returned[i] \in Nat
            <6>1. \A i \in DOMAIN returned : returned[i] \in Entries
              BY <2>1
            <6> QED
              BY <6>1 DEF Entries
          <5> QED
            BY <5>1, <5>2, <5>3, <5>4 DEF JournalInv, Intact
        <4>2. CASE rest = tail
          <5>1. 1 \in DOMAIN tail
            BY <2>4, <4>1, <4>2 DEF Parses
          <5> QED
            BY <4>1, <4>2, <5>1
        <4>3. ASSUME NEW t \in [entry : {issued + 1}, whole : BOOLEAN], rest = Append(tail, t)
              PROVE  rest[1].entry = issued + 1
          <5> DEFINE T == Text \cup {t}
          <5>1. tail \in Seq(T) /\ t \in T
            BY <4>1
          <5> HIDE DEF T
          <5>2. Len(tail) = 0 /\ rest[Len(tail) + 1] = t
            BY <2>4, <4>3, <5>1, AppendAt DEF Parses
          <5> QED
            BY <4>3, <5>2
        <4>4. \/ rest = tail
              \/ \E t \in [entry : {issued + 1}, whole : BOOLEAN] : rest = Append(tail, t)
          BY DEF Views
        <4>5. CASE rest[1].entry = issued + 1
          BY <4>1, <4>5
        <4> QED
          BY <4>2, <4>3, <4>4, <4>5
      <3>3. returned \o <<rest[1].entry>> = Append(returned, rest[1].entry)
        BY <2>1, <3>2
      <3> QED
        BY <3>1, <3>2, <3>3
    <2> QED
      BY <2>3, <2>4
  <1> QED
    BY <1>1, JournalInvariant, PTL

\* A list of entries is a list of numbers.
LEMMA EntriesAreNumbers == ASSUME NEW s \in Seq(Entries) PROVE s \in Seq(Nat)
  <1>1. \A e \in Entries : e \in Nat
    BY EntriesAssumption DEF Entries
  <1>2. s \in [1..Len(s) -> Nat] /\ Len(s) \in Nat
    BY <1>1
  <1> QED
    BY <1>2

\* What a load returns is in the order of the entries' numbers, and begins with
\* everything that was recorded.
LEMMA ReadInOrder ==
    ASSUME JournalInv, RecordsSurvive, ~Damaged
    PROVE  /\ Loaded(tail) \in Seq(Nat) /\ Ascending(Loaded(tail))
           /\ \A k \in DOMAIN returned :
                 k \in DOMAIN Loaded(tail) /\ Loaded(tail)[k] = returned[k]
  <1> DEFINE read == Loaded(tail)
  <1>1. returned \in Seq(Entries) /\ Ascending(returned) /\ issued \in Nat
    BY DEF JournalInv, TypeOK, Numbered
  <1>2. returned \in Seq(Nat)
    BY <1>1, EntriesAreNumbers
  <1>3. \/ read = returned
        \/ \E e \in 1..(issued + 1) :
              read = Append(returned, e) /\ \A i \in DOMAIN returned : returned[i] < e
    BY DEF RecordsSurvive, Views
  <1> HIDE DEF read
  <1>4. CASE read = returned
    BY <1>1, <1>2, <1>4 DEF read
  <1>5. ASSUME NEW e \in 1..(issued + 1), read = Append(returned, e),
               \A i \in DOMAIN returned : returned[i] < e
        PROVE  /\ read \in Seq(Nat) /\ Ascending(read)
               /\ \A k \in DOMAIN returned : k \in DOMAIN read /\ read[k] = returned[k]
    <2>1. e \in Nat
      BY <1>1, <1>5
    <2>2. /\ read \in Seq(Nat)
          /\ DOMAIN read = 1..(Len(returned) + 1) /\ DOMAIN returned = 1..Len(returned)
          /\ Len(returned) \in Nat
          /\ read[Len(returned) + 1] = e
          /\ \A k \in 1..Len(returned) : read[k] = returned[k]
      BY <1>2, <1>5, <2>1, AppendAt
    <2>3. ASSUME NEW i \in DOMAIN read, NEW j \in DOMAIN read, i < j
          PROVE  read[i] < read[j]
      <3>1. CASE j = Len(returned) + 1
        BY <1>5, <2>2, <2>3, <3>1
      <3>2. CASE j # Len(returned) + 1
        <4>1. i \in DOMAIN returned /\ j \in DOMAIN returned
          BY <2>2, <2>3, <3>2
        <4>2. read[i] = returned[i] /\ read[j] = returned[j]
          BY <2>2, <4>1
        <4>3. returned[i] < returned[j]
          BY <1>1, <2>3, <4>1 DEF Ascending
        <4> QED
          BY <4>2, <4>3
      <3> QED
        BY <3>1, <3>2
    <2> QED
      BY <2>2, <2>3 DEF Ascending
  <1> QED
    BY <1>3, <1>4, <1>5 DEF read

\* Two ascending lists have what is in both in the same order.
LEMMA SameOrder ==
    ASSUME NEW s \in Seq(Nat), NEW r \in Seq(Nat), Ascending(s), Ascending(r),
           NEW i \in DOMAIN s, NEW j \in DOMAIN s, NEW k \in DOMAIN r, NEW l \in DOMAIN r,
           r[k] = s[i], r[l] = s[j]
    PROVE  i < j <=> k < l
  <1>1. i \in Nat /\ j \in Nat /\ s[i] \in Nat /\ s[j] \in Nat
    <2>1. DOMAIN s = 1..Len(s) /\ Len(s) \in Nat
      OBVIOUS
    <2>2. i \in 1..Len(s) /\ j \in 1..Len(s)
      BY <2>1
    <2>3. s[i] \in Nat /\ s[j] \in Nat
      BY <2>2
    <2> QED
      BY <2>1, <2>2, <2>3
  <1>2. k \in Nat /\ l \in Nat
    <2>1. DOMAIN r = 1..Len(r) /\ Len(r) \in Nat
      OBVIOUS
    <2> QED
      BY <2>1
  <1>3. i < j => s[i] < s[j]
    BY DEF Ascending
  <1>4. j < i => s[j] < s[i]
    BY DEF Ascending
  <1>5. k < l => s[i] < s[j]
    <2>1. k < l => r[k] < r[l]
      BY DEF Ascending
    <2> QED
      BY <2>1
  <1>6. l < k => s[j] < s[i]
    <2>1. l < k => r[l] < r[k]
      BY DEF Ascending
    <2> QED
      BY <2>1
  <1>7. (i = j => s[i] = s[j]) /\ (k = l => s[i] = s[j])
    OBVIOUS
  <1> DEFINE a == s[i]
             b == s[j]
  <1>8. /\ a \in Nat /\ b \in Nat
        /\ (i < j => a < b) /\ (j < i => b < a) /\ (i = j => a = b)
        /\ (k < l => a < b) /\ (l < k => b < a) /\ (k = l => a = b)
    BY <1>1, <1>3, <1>4, <1>5, <1>6, <1>7
  <1> HIDE DEF a, b
  <1>9. i < j => k < l
    <2>1. ~(a < b /\ b < a) /\ ~(a < b /\ a = b)
      BY <1>8
    <2>2. i < j => ~(l < k) /\ k # l
      BY <1>8, <2>1
    <2> QED
      BY <1>2, <2>2
  <1>10. k < l => i < j
    <2>1. ~(a < b /\ b < a) /\ ~(a < b /\ a = b)
      BY <1>8
    <2>2. k < l => ~(j < i) /\ i # j
      BY <1>8, <2>1
    <2> QED
      BY <1>1, <2>2
  <1> QED
    BY <1>9, <1>10

\* Whatever the other writers do and whatever fails, the list in memory of a
\* Journal object and the file agree on what was recorded and in which order.
THEOREM ListsAgreeWithFile == Spec => []IndexAgrees
  <1>1. ASSUME JournalInv, RecordsSurvive, ~Damaged, NEW w \in Writers
        PROVE  LET read == Loaded(tail)
                   kept == {i \in DOMAIN index[w] : index[w][i] \notin failed}
               IN  /\ \A i \in kept : \E k \in DOMAIN read : read[k] = index[w][i]
                   /\ \A i, j \in kept, k, l \in DOMAIN read :
                         read[k] = index[w][i] /\ read[l] = index[w][j] =>
                            (i < j <=> k < l)
    <2> DEFINE own == index[w]
               kept == {i \in DOMAIN index[w] : index[w][i] \notin failed}
    <2>1. own \in Seq(Nat) /\ Ascending(own)
      <3>1. own \in Seq(Entries) /\ Ascending(own)
        BY <1>1 DEF JournalInv, TypeOK, Numbered
      <3> QED
        BY <3>1, EntriesAreNumbers
    <2>2. \A i \in kept : \E k \in DOMAIN returned : returned[k] = own[i]
      BY <1>1 DEF JournalInv, Numbered
    <2>3. /\ Loaded(tail) \in Seq(Nat) /\ Ascending(Loaded(tail))
          /\ \A k \in DOMAIN returned :
                k \in DOMAIN Loaded(tail) /\ Loaded(tail)[k] = returned[k]
      BY <1>1, ReadInOrder
    <2>4. \A i \in kept : \E k \in DOMAIN Loaded(tail) : Loaded(tail)[k] = own[i]
      BY <2>2, <2>3
    <2>5. \A i, j \in kept, k, l \in DOMAIN Loaded(tail) :
             Loaded(tail)[k] = own[i] /\ Loaded(tail)[l] = own[j] => (i < j <=> k < l)
      BY <2>1, <2>3, SameOrder
    <2> QED
      BY <2>4, <2>5
  <1>2. JournalInv /\ RecordsSurvive => IndexAgrees
    BY <1>1 DEF IndexAgrees
  <1> QED
    BY <1>2, JournalInvariant, NothingDroppedSilently, PTL

\* However many write and read at a time, a load raises only after some append
\* was cut short.
THEOREM OnlyCutsDamage == Spec => []NoFalseAlarm
  <1>1. Init => NoFalseAlarm
    BY DEF Init, NoFalseAlarm, Damaged
  <1>2. JournalInv /\ NoFalseAlarm /\ [Next]_vars => NoFalseAlarm'
    <2> SUFFICES ASSUME JournalInv, NoFalseAlarm, [Next]_vars, ~cut'
                 PROVE  ~Damaged' /\ tail' = <<>>
      BY DEF NoFalseAlarm
    <2>1. ASSUME NEW w \in Writers, Record(w)
          PROVE  ~Damaged' /\ tail' = <<>>
      <3> DEFINE t == [entry |-> issued', whole |-> TRUE]
      <3>1. ~Damaged /\ tail = <<>> /\ tail' = <<>>
        BY <2>1 DEF Record, AppendLine, NoFalseAlarm
      <3>2. issued' \in Entries
        BY <2>1, EntriesAssumption DEF Record, MakeEntry, JournalInv, TypeOK, Entries
      <3>3. <<t>> \in Seq(Text) /\ Append(tail, t) = <<t>> /\ lines \in Seq(Seq(Text))
        BY <3>1, <3>2 DEF Text, JournalInv, TypeOK
      <3>4. lines' = Append(lines, <<t>>)
        BY <2>1, <3>3 DEF Record, AppendLine
      <3>5. Parses(<<t>>)
        BY DEF Parses
      <3> HIDE DEF t
      <3>6. \A i \in DOMAIN lines' :
               lines'[i] = <<t>> \/ (i \in DOMAIN lines /\ lines'[i] = lines[i])
        BY <3>3, <3>4, AppendAt
      <3>7. \A i \in DOMAIN lines' : Parses(lines'[i])
        BY <3>1, <3>5, <3>6 DEF Damaged
      <3> QED
        BY <3>1, <3>7 DEF Damaged, Parses
    <2>2. ASSUME CutShort
          PROVE  ~Damaged' /\ tail' = <<>>
      BY <2>2 DEF CutShort, NoFalseAlarm, Damaged, Parses
    <2>3. CASE UNCHANGED vars
      BY <2>3 DEF vars, NoFalseAlarm, Damaged, Parses
    <2> QED
      BY <2>1, <2>2, <2>3 DEF Next, WriteFails, Crash
  <1> QED
    BY <1>1, <1>2, JournalInvariant, PTL DEF Spec

=============================================================================
