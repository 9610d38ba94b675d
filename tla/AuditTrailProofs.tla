-------------------------- MODULE AuditTrailProofs --------------------------
(***************************************************************************)
(* Proofs about the audit trail, for every combination of faults, any      *)
(* number of evaluations and any number of starts.                         *)
(***************************************************************************)
EXTENDS AuditTrail, SequenceTheorems, TLAPS

(***************************************************************************)
(* What a callback needs to know of its surroundings; it stays the same    *)
(* until the callback has ended.                                           *)
(***************************************************************************)
Here == [dry |-> mode = "dry",
         plain |-> starts = 1 /\ "partial_fill" \notin faults,
         priced |-> priced]

Shows(r, i) == r.event = "FSM_TRANSITION" /\ r.ref = i /\ r.to = "PENDING_ENTRY"

OfFill == {"FILL", "LEARNING_RECORD", "PNL"}
Faithful(g, r) ==
    r.event \in OfFill =>
        /\ r.ref = r.of
        /\ r.event = "LEARNING_RECORD" =>
              r.against = IF r.ref \in g.priced THEN "mid" ELSE "fill"

\* The mids that a strategy remembers are of priced intents which the journal
\* shows in PENDING_ENTRY; on a plain venue that of an open position is there.
GoodMemory(g, w, m) ==
    /\ m.mids \subseteq g.priced
    /\ \A i \in m.mids : \E r \in w : Shows(r, i)
    /\ g.plain /\ m.state \in {"IN_POSITION", "EXITING"} =>
          (m.active \in g.priced => m.active \in m.mids)
    /\ g.dry => m.state \in {"FLAT", "EVALUATING"}

\* What an order finds in the memory of the strategy when it is sent and, on a
\* plain venue, until it is answered.
Fits(g, m, o) ==
    o.side # "ask" =>
        /\ m.state = IF o.side = "entry" THEN "PENDING_ENTRY" ELSE "EXITING"
        /\ m.active = o.intent
        /\ o.intent \in g.priced => o.intent \in m.mids

\* One step x of a callback, with the records w written and the memory m left
\* by the steps before it.
GoodStep(g, w, m, x) ==
    /\ x \in Step
    /\ GoodMemory(g, w, x.mem)
    /\ \A o \in x.send : (g.plain => Fits(g, x.mem, o)) /\ \E r \in w : Announces(r, o)
    /\ g.dry => x.send = {}
    /\ IF x.send = {} /\ x.write.event \in Moves
       THEN x.write.from = m.state /\ x.write.to = x.mem.state
       ELSE x.mem.state = m.state
    /\ x.write.event # "STRATEGY_START"
    /\ g.plain => Faithful(g, x.write)

Seen(w, s, k) == w \cup {s[j].write : j \in {j \in 1..(k-1) : s[j].send = {}}}
Left(m, s, k) == IF k = 1 THEN m ELSE s[k-1].mem

\* The steps left of a callback; a request is the last of them.
Good(g, w, m, s) ==
    /\ s \in Seq(Step)
    /\ \A k \in 1..Len(s) :
          /\ GoodStep(g, Seen(w, s, k), Left(m, s, k), s[k])
          /\ s[k].send # {} => k = Len(s)

With(w, x) == IF x.send = {} THEN w \cup {x.write} ELSE w

\* The inductive invariant: on a plain venue an order works only while no
\* callback runs and the state waits for it.
AuditTrailInv ==
    /\ TypeOK /\ WriteAhead /\ JournalReplays
    /\ GoodMemory(Here, written, mem)
    /\ Good(Here, written, mem, todo)
    /\ Here.plain => \A r \in written : Faithful(Here, r)
    /\ Here.plain => \A o \in Requests :
          working[o] > 0 /\ o.side # "ask" => todo = <<>> /\ Fits(Here, mem, o)

-----------------------------------------------------------------------------
(***************************************************************************)
(* Sequences of steps.                                                     *)
(***************************************************************************)

\* Two, three and four steps in a row, taken one at a time.
LEMMA Two ==
    ASSUME NEW S, NEW a \in S, NEW b \in S
    PROVE  <<a, b>> = <<a>> \o <<b>>
<1>1. <<a>> \o <<b>> \in Seq(S) /\ <<a, b>> \in Seq(S)
  OBVIOUS
<1>2. Len(<<a>> \o <<b>>) = 2 /\ Len(<<a, b>>) = 2
  OBVIOUS
<1>3. \A k \in 1..2 : <<a, b>>[k] = (<<a>> \o <<b>>)[k]
  OBVIOUS
<1>4. QED
  BY <1>1, <1>2, <1>3, SeqEqual

LEMMA Three ==
    ASSUME NEW S, NEW a \in S, NEW b \in S, NEW c \in S
    PROVE  <<a, b, c>> = <<a>> \o <<b, c>>
<1>1. <<a>> \o <<b, c>> \in Seq(S) /\ <<a, b, c>> \in Seq(S)
  OBVIOUS
<1>2. Len(<<a>> \o <<b, c>>) = 3 /\ Len(<<a, b, c>>) = 3
  OBVIOUS
<1>3. \A k \in 1..3 : <<a, b, c>>[k] = (<<a>> \o <<b, c>>)[k]
  OBVIOUS
<1>4. QED
  BY <1>1, <1>2, <1>3, SeqEqual

LEMMA Four ==
    ASSUME NEW S, NEW a \in S, NEW b \in S, NEW c \in S, NEW d \in S
    PROVE  <<a, b, c, d>> = <<a>> \o <<b, c, d>>
<1>1. <<a>> \o <<b, c, d>> \in Seq(S) /\ <<a, b, c, d>> \in Seq(S)
  OBVIOUS
<1>2. Len(<<a>> \o <<b, c, d>>) = 4 /\ Len(<<a, b, c, d>>) = 4
  OBVIOUS
<1>3. \A k \in 1..4 : <<a, b, c, d>>[k] = (<<a>> \o <<b, c, d>>)[k]
  OBVIOUS
<1>4. QED
  BY <1>1, <1>2, <1>3, SeqEqual

\* More records in the journal never make a good memory or step bad.
LEMMA MoreWritten ==
    ASSUME NEW g, NEW w, NEW v, w \subseteq v, NEW m
    PROVE  /\ GoodMemory(g, w, m) => GoodMemory(g, v, m)
           /\ \A x : GoodStep(g, w, m, x) => GoodStep(g, v, m, x)
  BY DEF GoodMemory, GoodStep

LEMMA GoodNothing ==
    ASSUME NEW g, NEW w, NEW m
    PROVE  Good(g, w, m, <<>>)
  BY DEF Good

LEMMA GoodLast ==
    ASSUME NEW g, NEW w, NEW m, NEW x, GoodStep(g, w, m, x)
    PROVE  Good(g, w, m, <<x>>)
<1>1. x \in Step
  BY DEF GoodStep
<1>2. <<x>> \in Seq(Step) /\ Len(<<x>>) = 1 /\ <<x>>[1] = x
  BY <1>1
<1>3. w \subseteq Seen(w, <<x>>, 1) /\ Left(m, <<x>>, 1) = m
  BY DEF Seen, Left
<1>4. GoodStep(g, Seen(w, <<x>>, 1), Left(m, <<x>>, 1), <<x>>[1])
  BY <1>2, <1>3, MoreWritten
<1>5. QED
  BY <1>2, <1>4 DEF Good

\* A good step that writes, before a good rest.
LEMMA GoodFirst ==
    ASSUME NEW g, NEW w, NEW m, NEW x, NEW s,
           GoodStep(g, w, m, x), x.send = {}, Good(g, With(w, x), x.mem, s)
    PROVE  Good(g, w, m, <<x>> \o s)
<1> DEFINE t == <<x>> \o s
<1>1. x \in Step /\ s \in Seq(Step)
  BY DEF GoodStep, Good
<1>2. /\ t \in Seq(Step) /\ Len(t) = Len(s) + 1 /\ t[1] = x
      /\ \A k \in 2..(Len(s) + 1) : t[k] = s[k-1]
  BY <1>1
<1>3. Len(s) \in Nat
  BY <1>1
<1>4. ASSUME NEW k \in 1..Len(t)
      PROVE  /\ GoodStep(g, Seen(w, t, k), Left(m, t, k), t[k])
             /\ t[k].send # {} => k = Len(t)
  <2>1. CASE k = 1
    <3>1. w \subseteq Seen(w, t, k) /\ Left(m, t, k) = m
      BY <2>1 DEF Seen, Left
    <3>2. QED
      BY <1>2, <2>1, <3>1, MoreWritten
  <2>2. CASE k # 1
    <3>1. k \in 2..(Len(s) + 1) /\ k - 1 \in 1..Len(s)
      BY <1>2, <1>3, <2>2
    <3>2. t[k] = s[k-1]
      BY <1>2, <3>1
    <3>3. Left(m, t, k) = Left(x.mem, s, k-1)
      BY <1>2, <1>3, <3>1 DEF Left
    <3>4. Seen(With(w, x), s, k-1) \subseteq Seen(w, t, k)
      <4>1. \A j \in 1..(k-2) : j+1 \in 1..(k-1) /\ t[j+1] = s[j]
        BY <1>2, <1>3, <3>1
      <4>2. 1 \in 1..(k-1) /\ t[1] = x
        BY <1>2, <3>1
      <4>3. ASSUME NEW j \in 1..((k-1)-1), s[j].send = {}
            PROVE  s[j].write \in Seen(w, t, k)
        <5>1. j \in 1..(k-2)
          BY <3>1, <4>3
        <5>2. j+1 \in {n \in 1..(k-1) : t[n].send = {}} /\ t[j+1].write = s[j].write
          BY <4>1, <4>3, <5>1
        <5>3. QED
          BY <5>2 DEF Seen
      <4>4. With(w, x) \subseteq Seen(w, t, k)
        <5>1. 1 \in {n \in 1..(k-1) : t[n].send = {}}
          BY <4>2
        <5>2. x.write \in Seen(w, t, k)
          BY <4>2, <5>1 DEF Seen
        <5>3. QED
          BY <5>2 DEF Seen, With
      <4>5. QED
        BY <4>3, <4>4 DEF Seen
    <3>5. /\ GoodStep(g, Seen(With(w, x), s, k-1), Left(x.mem, s, k-1), s[k-1])
          /\ s[k-1].send # {} => k-1 = Len(s)
      BY <3>1 DEF Good
    <3>6. GoodStep(g, Seen(w, t, k), Left(m, t, k), t[k])
      BY <3>2, <3>3, <3>4, <3>5, MoreWritten
    <3>7. QED
      BY <1>2, <1>3, <3>1, <3>2, <3>5, <3>6
  <2>3. QED
    BY <2>1, <2>2
<1>5. QED
  BY <1>2, <1>4 DEF Good

\* What the head of a good sequence leaves behind.
LEMMA GoodRest ==
    ASSUME NEW g, NEW w, NEW m, NEW s, Good(g, w, m, s), s # <<>>
    PROVE  /\ GoodStep(g, w, m, Head(s))
           /\ Head(s).send = {} => Good(g, With(w, Head(s)), Head(s).mem, Tail(s))
           /\ Head(s).send # {} => Tail(s) = <<>>
<1> DEFINE x == Head(s)
           t == Tail(s)
<1>1. s \in Seq(Step) /\ Len(s) \in Nat \ {0} /\ x = s[1]
  BY DEF Good
<1>2. /\ t \in Seq(Step) /\ Len(t) = Len(s) - 1
      /\ \A k \in 1..Len(t) : t[k] = s[k+1]
  BY <1>1
<1>3. GoodStep(g, w, m, x)
  <2>1. GoodStep(g, Seen(w, s, 1), Left(m, s, 1), s[1])
    BY <1>1 DEF Good
  <2>2. Seen(w, s, 1) = w /\ Left(m, s, 1) = m
    BY DEF Seen, Left
  <2>3. QED
    BY <1>1, <2>1, <2>2
<1>4. ASSUME x.send = {} PROVE Good(g, With(w, x), x.mem, t)
  <2>1. ASSUME NEW k \in 1..Len(t)
        PROVE  /\ GoodStep(g, Seen(With(w, x), t, k), Left(x.mem, t, k), t[k])
               /\ t[k].send # {} => k = Len(t)
    <3>1. k+1 \in 1..Len(s) /\ t[k] = s[k+1]
      BY <1>1, <1>2
    <3>2. /\ GoodStep(g, Seen(w, s, k+1), Left(m, s, k+1), s[k+1])
          /\ s[k+1].send # {} => k+1 = Len(s)
      BY <3>1 DEF Good
    <3>3. Left(m, s, k+1) = Left(x.mem, t, k)
      BY <1>1, <1>2, <3>1 DEF Left
    <3>4. Seen(w, s, k+1) \subseteq Seen(With(w, x), t, k)
      <4>1. ASSUME NEW j \in 1..k, s[j].send = {}
            PROVE  s[j].write \in Seen(With(w, x), t, k)
        <5>1. CASE j = 1
          BY <1>1, <4>1, <5>1 DEF Seen, With
        <5>2. CASE j # 1
          <6>1. j-1 \in 1..(k-1) /\ t[j-1] = s[j]
            BY <1>1, <1>2, <3>1, <5>2
          <6>2. QED
            BY <4>1, <6>1 DEF Seen
        <5>3. QED
          BY <5>1, <5>2
      <4>2. w \subseteq Seen(With(w, x), t, k)
        BY DEF Seen, With
      <4>3. 1..((k+1)-1) = 1..k
        OBVIOUS
      <4>4. QED
        BY <4>1, <4>2, <4>3 DEF Seen
    <3>5. GoodStep(g, Seen(With(w, x), t, k), Left(x.mem, t, k), t[k])
      BY <3>1, <3>2, <3>3, <3>4, MoreWritten
    <3>6. t[k].send # {} => k = Len(t)
      <4>1. Len(t) = Len(s) - 1 /\ Len(s) \in Nat /\ k \in Nat
        BY <1>1, <1>2
      <4>2. t[k].send # {} => k+1 = Len(s)
        BY <3>1, <3>2
      <4> HIDE DEF t
      <4>3. k+1 = Len(s) => k = Len(t)
        BY <4>1
      <4>4. QED
        BY <4>2, <4>3
    <3>7. QED
      BY <3>5, <3>6
  <2>2. QED
    BY <1>2, <2>1 DEF Good
<1>5. ASSUME x.send # {} PROVE t = <<>>
  <2>1. 1 \in 1..Len(s)
    BY <1>1
  <2>2. s[1].send # {}
    BY <1>1, <1>5
  <2>3. 1 = Len(s)
    BY <2>1, <2>2 DEF Good
  <2>4. t \in Seq(Step) /\ Len(t) = 0
    <3>1. t \in Seq(Step) /\ Len(t) = Len(s) - 1 /\ Len(s) \in Nat
      BY <1>1, <1>2
    <3>2. QED
      BY <2>3, <3>1
  <2>5. QED
    BY <2>4, EmptySeq
<1>6. QED
  BY <1>3, <1>4, <1>5

-----------------------------------------------------------------------------
(***************************************************************************)
(* Single steps.                                                           *)
(***************************************************************************)

\* A memory in which nothing but the whereabouts of the intent has changed.
LEMMA SameMids ==
    ASSUME NEW g, NEW w, NEW m, NEW n, GoodMemory(g, w, m), n.mids = m.mids,
           n.state \notin {"IN_POSITION", "EXITING"},
           g.dry => n.state \in {"FLAT", "EVALUATING"}
    PROVE  GoodMemory(g, w, n)
  BY DEF GoodMemory

LEMMA EntryType ==
    ASSUME NEW m \in Memory, NEW event \in Events, NEW ref \in Refs
    PROVE  /\ Entry(m, event, ref) \in Record
           /\ Entry(m, event, ref).event = event
           /\ Entry(m, event, ref).ref = ref
  BY DEF Entry, Record, Memory, Refs

LEMMA WriteIsGood ==
    ASSUME NEW g, NEW w, NEW l, NEW m \in Memory, NEW r \in Record,
           GoodMemory(g, w, m), l.state = m.state,
           r.event \notin Moves \cup {"STRATEGY_START"},
           g.plain => Faithful(g, r)
    PROVE  GoodStep(g, w, l, Writes(m, r))
  BY DEF Writes, GoodStep, Step

\* A record that has to do with no fill.
LEMMA WriteFields ==
    ASSUME NEW m, NEW r
    PROVE  /\ Writes(m, r).send = {} /\ Writes(m, r).mem = m /\ Writes(m, r).write = r
           /\ \A w : With(w, Writes(m, r)) = w \cup {r}
  BY DEF Writes, With

\* A record that has to do with no fill.
LEMMA EntryIsGood ==
    ASSUME NEW g, NEW w, NEW l, NEW m \in Memory, NEW event \in Events, NEW ref \in Refs,
           GoodMemory(g, w, m), l.state = m.state,
           event \notin Moves \cup {"STRATEGY_START"}, event \notin OfFill
    PROVE  GoodStep(g, w, l, Writes(m, Entry(m, event, ref)))
<1> DEFINE r == Entry(m, event, ref)
<1>1. r \in Record /\ r.event = event
  BY EntryType
<1>2. Faithful(g, r)
  BY <1>1 DEF Faithful
<1> HIDE DEF r
<1>3. QED
  BY <1>1, <1>2, WriteIsGood DEF r

LEMMA TransitionFields ==
    ASSUME NEW m \in Memory, NEW s \in States
    PROVE  /\ Transition(m, s) \in Step
           /\ Transition(m, s).send = {}
           /\ Transition(m, s).mem \in Memory
           /\ Transition(m, s).mem.state = s
           /\ Transition(m, s).write.event = "FSM_TRANSITION"
           /\ Transition(m, s).write.ref = m.active
           /\ Transition(m, s).write.from = m.state
           /\ Transition(m, s).write.to = s
           /\ \A w : With(w, Transition(m, s)) = w \cup {Transition(m, s).write}
<1> DEFINE after == [m EXCEPT !.state = s]
           r == [Entry(after, "FSM_TRANSITION", m.active) EXCEPT !.from = m.state]
<1>1. after \in Memory /\ after.state = s /\ after.active = m.active
  BY DEF Memory
<1>2. m.active \in Refs /\ m.state \in States
  BY DEF Memory
<1>3. Entry(after, "FSM_TRANSITION", m.active) \in Record
  BY <1>1, <1>2, EntryType DEF Events
<1>4. /\ r \in Record /\ r.event = "FSM_TRANSITION" /\ r.ref = m.active
      /\ r.from = m.state /\ r.to = s
  BY <1>1, <1>2, <1>3 DEF Entry, Record
<1>5. Transition(m, s) = [mem |-> after, write |-> r, send |-> {}]
  BY DEF Transition, Writes
<1>6. Transition(m, s) \in Step
  BY <1>1, <1>4, <1>5 DEF Step
<1> HIDE DEF after, r
<1>7. Transition(m, s).send = {} /\ Transition(m, s).mem = after /\ Transition(m, s).write = r
  BY <1>5
<1>8. \A w : With(w, Transition(m, s)) = w \cup {Transition(m, s).write}
  BY <1>7 DEF With
<1>9. QED
  BY <1>1, <1>4, <1>6, <1>7, <1>8

LEMMA TransitionMemory ==
    ASSUME NEW m, NEW s
    PROVE  Transition(m, s).mem = [m EXCEPT !.state = s]
  BY DEF Transition, Writes

LEMMA TransitionIsGood ==
    ASSUME NEW g, NEW w, NEW l, NEW m \in Memory, NEW s \in States,
           GoodMemory(g, w, Transition(m, s).mem), l.state = m.state
    PROVE  GoodStep(g, w, l, Transition(m, s))
<1> DEFINE x == Transition(m, s)
<1>1. /\ x \in Step /\ x.send = {} /\ x.mem.state = s
      /\ x.write.event = "FSM_TRANSITION" /\ x.write.from = m.state /\ x.write.to = s
  BY TransitionFields
<1>2. Faithful(g, x.write)
  BY <1>1 DEF Faithful, OfFill
<1> HIDE DEF x
<1>3. GoodMemory(g, w, x.mem)
  BY DEF x
<1>4. GoodStep(g, w, l, x)
  BY <1>1, <1>2, <1>3 DEF GoodStep, Moves
<1>5. QED
  BY <1>4 DEF x

LEMMA SendIsGood ==
    ASSUME NEW g, NEW w, NEW l, NEW m \in Memory, NEW i \in Intents,
           NEW side \in {"ask", "entry", "exit"},
           GoodMemory(g, w, m), l.state = m.state, ~g.dry,
           g.plain => Fits(g, m, [intent |-> i, side |-> side]),
           \E r \in w : Announces(r, [intent |-> i, side |-> side])
    PROVE  GoodStep(g, w, l, Sends(m, i, side))
<1> DEFINE o == [intent |-> i, side |-> side]
           r == Entry(m, "ORDER_SUBMIT", i)
<1>1. r \in Record /\ r.event = "ORDER_SUBMIT"
  BY EntryType DEF Events, Refs
<1>2. Faithful(g, r)
  BY <1>1 DEF Faithful, OfFill
<1>3. o \in Requests
  BY DEF Requests
<1>4. Sends(m, i, side) = [mem |-> m, write |-> r, send |-> {o}]
  BY DEF Sends
<1>5. Sends(m, i, side) \in Step
  BY <1>1, <1>3, <1>4 DEF Step
<1> HIDE DEF r
<1>6. QED
  BY <1>1, <1>2, <1>4, <1>5 DEF GoodStep

\* A record that has to do with no fill, before a good rest.
LEMMA EntryThen ==
    ASSUME NEW g, NEW w, NEW l, NEW m \in Memory, NEW event \in Events, NEW ref \in Refs,
           GoodMemory(g, w, m), l.state = m.state,
           event \notin Moves \cup {"STRATEGY_START"}, event \notin OfFill,
           NEW s, Good(g, w \cup {Entry(m, event, ref)}, m, s)
    PROVE  Good(g, w, l, <<Writes(m, Entry(m, event, ref))>> \o s)
<1> DEFINE x == Writes(m, Entry(m, event, ref))
<1>1. GoodStep(g, w, l, x)
  BY EntryIsGood
<1>2. x.send = {} /\ With(w, x) = w \cup {Entry(m, event, ref)} /\ x.mem = m
  BY WriteFields
<1> HIDE DEF x
<1>3. Good(g, With(w, x), x.mem, s)
  BY <1>2
<1>4. Good(g, w, l, <<x>> \o s)
  BY <1>1, <1>2, <1>3, GoodFirst
<1>5. QED
  BY <1>4 DEF x

\* The way out of a callback that leaves the strategy without an order.
LEMMA TransitionLast ==
    ASSUME NEW g, NEW w, NEW l, NEW m \in Memory, NEW s \in States,
           GoodMemory(g, w, m), l.state = m.state,
           s \notin {"IN_POSITION", "EXITING"}, g.dry => s \in {"FLAT", "EVALUATING"}
    PROVE  /\ GoodStep(g, w, l, Transition(m, s))
           /\ Good(g, w, l, <<Transition(m, s)>>)
<1> DEFINE n == Transition(m, s).mem
<1>1. n.state = s
  BY TransitionFields
<1>2. n.mids = m.mids
  <2>1. n = [m EXCEPT !.state = s]
    BY TransitionMemory
  <2>2. QED
    BY <2>1 DEF Memory
<1> HIDE DEF n
<1>3. GoodMemory(g, w, n)
  BY <1>1, <1>2, SameMids
<1>4. GoodStep(g, w, l, Transition(m, s))
  BY <1>3, TransitionIsGood DEF n
<1>5. QED
  BY <1>4, GoodLast

-----------------------------------------------------------------------------
(***************************************************************************)
(* The callbacks consist of good steps.                                    *)
(***************************************************************************)

\* _submit_approved_intent: the transition shows the intent before its mid is
\* remembered, and ORDER_SUBMIT announces the order before it is sent.
LEMMA SubmitIsGood ==
    ASSUME NEW g, NEW w, NEW l, NEW m \in Memory, NEW i \in Intents,
           GoodMemory(g, w, m), l.state = m.state, ~g.dry, g.priced = priced,
           NEW steps \in SubmitSteps(m, i)
    PROVE  Good(g, w, l, steps)
<1> DEFINE a == [m EXCEPT !.active = i, !.pending = NoIntent]
           p == [a EXCEPT !.state = "PENDING_ENTRY"]
           r == RegisterEntry(p, i)
           f == [r EXCEPT !.state = "FLAT"]
           e1 == Transition(a, "PENDING_ENTRY")
           e2 == Writes(r, Entry(r, "ORDER_SUBMIT", i))
           e3 == Sends(r, i, "entry")
           e4 == Writes(r, Entry(r, "ORDER_ERROR", i))
           e5 == Transition(r, "FLAT")
           w1 == w \cup {e1.write}
           w2 == w1 \cup {Entry(r, "ORDER_SUBMIT", i)}
           w3 == w2 \cup {Entry(r, "ORDER_ERROR", i)}
<1>1. /\ a \in Memory /\ a.state = m.state /\ a.active = i /\ a.mids = m.mids
      /\ p \in Memory /\ p.state = "PENDING_ENTRY" /\ p.active = i /\ p.mids = m.mids
  BY DEF Memory, Refs, States, NoIntent
<1>2. /\ r \in Memory /\ r.state = "PENDING_ENTRY" /\ r.active = i
      /\ r.mids = IF i \in priced THEN m.mids \cup {i} ELSE m.mids
  BY <1>1 DEF RegisterEntry, Memory
<1>3. f \in Memory /\ f.state = "FLAT" /\ f.mids = r.mids
  BY <1>2 DEF Memory, States
<1>4. i \in Refs
  BY DEF Refs
<1>5. GoodMemory(g, w, p)
  BY <1>1, SameMids
<1> HIDE DEF a, p
<1>6. /\ GoodStep(g, w, l, e1) /\ e1.send = {} /\ e1.mem = p
      /\ With(w, e1) = w1 /\ Shows(e1.write, i)
  <2>1. "PENDING_ENTRY" \in States
    BY DEF States
  <2>2. e1.send = {} /\ e1.mem = p /\ With(w, e1) = w1 /\ Shows(e1.write, i)
    <3>1. e1.send = {} /\ e1.mem = p /\ With(w, e1) = w1
      BY <1>1, <2>1, TransitionFields, TransitionMemory DEF p
    <3>2. Shows(e1.write, i)
      <4>1. /\ e1.write.event = "FSM_TRANSITION" /\ e1.write.ref = a.active
            /\ e1.write.to = "PENDING_ENTRY"
        BY <1>1, <2>1, TransitionFields
      <4>2. QED
        BY <1>1, <4>1 DEF Shows
    <3>3. QED
      BY <3>1, <3>2
  <2>3. l.state = a.state
    BY <1>1
  <2>4. GoodStep(g, w, l, e1)
    BY <1>1, <1>5, <2>1, <2>2, <2>3, TransitionIsGood
  <2>5. QED
    BY <2>2, <2>4
<1>7. GoodMemory(g, w1, r)
  <2>1. e1.write \in w1 /\ w \subseteq w1
    OBVIOUS
  <2>2. ~g.dry /\ r.state \notin {"IN_POSITION", "EXITING"}
    BY <1>2
  <2>3. r.mids \subseteq g.priced
    BY <1>2 DEF GoodMemory
  <2>4. \A j \in r.mids : \E x \in w1 : Shows(x, j)
    BY <1>2, <1>6, <2>1 DEF GoodMemory
  <2>5. QED
    BY <2>2, <2>3, <2>4 DEF GoodMemory
<1> HIDE DEF r, e1
<1>8. /\ GoodStep(g, w1, p, e2) /\ e2.send = {} /\ e2.mem = r /\ With(w1, e2) = w2
  <2>1. "ORDER_SUBMIT" \in Events /\ "ORDER_SUBMIT" \notin Moves \cup {"STRATEGY_START"}
          /\ "ORDER_SUBMIT" \notin OfFill
    BY DEF Events, Moves, OfFill
  <2>2. p.state = r.state
    BY <1>1, <1>2
  <2>3. GoodStep(g, w1, p, e2)
    BY <1>2, <1>4, <1>7, <2>1, <2>2, EntryIsGood
  <2>4. QED
    BY <2>3, WriteFields
<1>9. GoodMemory(g, w2, r)
  BY <1>7, MoreWritten
<1>10. GoodStep(g, w2, r, e3)
  <2>1. Fits(g, r, [intent |-> i, side |-> "entry"])
    BY <1>2 DEF Fits
  <2>2. Announces(Entry(r, "ORDER_SUBMIT", i), [intent |-> i, side |-> "entry"])
    BY DEF Announces, Entry
  <2>3. QED
    BY <1>2, <1>9, <2>1, <2>2, SendIsGood
<1>11. /\ GoodStep(g, w2, r, e4) /\ e4.send = {} /\ e4.mem = r /\ With(w2, e4) = w3
  <2>1. "ORDER_ERROR" \in Events /\ "ORDER_ERROR" \notin Moves \cup {"STRATEGY_START"}
          /\ "ORDER_ERROR" \notin OfFill
    BY DEF Events, Moves, OfFill
  <2>2. GoodStep(g, w2, r, e4)
    BY <1>2, <1>4, <1>9, <2>1, EntryIsGood
  <2>3. QED
    BY <2>2, WriteFields
<1>12. GoodStep(g, w3, r, e5)
  <2>1. GoodMemory(g, w3, r)
    BY <1>9, MoreWritten
  <2>2. GoodMemory(g, w3, f)
    BY <1>3, <2>1, SameMids
  <2>3. "FLAT" \in States
    BY DEF States
  <2>4. e5.mem = f
    BY TransitionMemory
  <2>5. QED
    BY <1>2, <2>2, <2>3, <2>4, TransitionIsGood
<1>13. /\ e1 \in Step /\ e2 \in Step /\ e3 \in Step /\ e4 \in Step /\ e5 \in Step
  BY <1>6, <1>8, <1>10, <1>11, <1>12 DEF GoodStep
<1>14. steps \in {<<e1, e2, e3>>, <<e1, e2, e4, e5>>}
  BY DEF SubmitSteps, e1, r, a, p
<1> HIDE DEF e2, e3, e4, e5, w1, w2, w3
<1>15. Good(g, w, l, <<e1, e2, e3>>)
  <2>1. Good(g, w1, p, <<e2>> \o <<e3>>)
    BY <1>8, <1>10, GoodLast, GoodFirst
  <2>2. <<e2, e3>> = <<e2>> \o <<e3>> /\ <<e1, e2, e3>> = <<e1>> \o <<e2, e3>>
    BY <1>13, Two, Three
  <2>3. QED
    BY <1>6, <2>1, <2>2, GoodFirst
<1>16. Good(g, w, l, <<e1, e2, e4, e5>>)
  <2>1. Good(g, w2, r, <<e4>> \o <<e5>>)
    BY <1>11, <1>12, GoodLast, GoodFirst
  <2>2. <<e4, e5>> = <<e4>> \o <<e5>> /\ <<e2, e4, e5>> = <<e2>> \o <<e4, e5>>
    BY <1>13, Two, Three
  <2>3. Good(g, w1, p, <<e2>> \o <<e4, e5>>)
    BY <1>8, <2>1, <2>2, GoodFirst
  <2>4. <<e1, e2, e4, e5>> = <<e1>> \o <<e2, e4, e5>>
    BY <1>13, Four, SMTT(60)
  <2>5. QED
    BY <1>6, <2>2, <2>3, <2>4, GoodFirst
<1>17. QED
  BY <1>14, <1>15, <1>16

\* _run_gate_pipeline, in a memory that is in EVALUATING.
LEMMA GatesAreGood ==
    ASSUME NEW g, NEW w, NEW l, NEW m \in Memory, NEW i \in Intents,
           GoodMemory(g, w, m), l.state = "EVALUATING", m.state = "EVALUATING",
           g.dry <=> mode = "dry", g.priced = priced,
           NEW steps \in GateSteps(m, i)
    PROVE  Good(g, w, l, steps)
<1> DEFINE q == [m EXCEPT !.pending = i]
           e1 == Writes(m, Entry(m, "GREEK_PASSED", i))
           w1 == w \cup {Entry(m, "GREEK_PASSED", i)}
<1>1. i \in Refs
  BY DEF Refs
<1>2. /\ {"GATE_REJECT", "GREEK_PASSED", "DRY_RUN_INTENT"} \subseteq Events
      /\ \A e \in {"GATE_REJECT", "GREEK_PASSED", "DRY_RUN_INTENT"} :
            e \notin Moves \cup {"STRATEGY_START"} /\ e \notin OfFill
      /\ "FLAT" \in States
  BY DEF Events, Moves, OfFill, States
<1>3. \A v : w \subseteq v => GoodMemory(g, v, m)
  BY MoreWritten
<1>4. l.state = m.state
  OBVIOUS
<1>5. ASSUME NEW v, w \subseteq v
      PROVE  Transition(m, "FLAT") \in Step /\ Good(g, v, m, <<Transition(m, "FLAT")>>)
  BY <1>2, <1>3, <1>5, TransitionLast, TransitionFields
<1>6. ASSUME NEW s, Good(g, w1, m, s) PROVE Good(g, w, l, <<e1>> \o s)
  BY <1>1, <1>2, <1>4, <1>6, EntryThen
<1>7. \A e \in Events : Writes(m, Entry(m, e, i)) \in Step
  BY <1>1, EntryType DEF Writes, Step
<1>8. CASE steps = <<Writes(m, Entry(m, "GATE_REJECT", i)), Transition(m, "FLAT")>>
  <2>1. Good(g, w, l, <<Writes(m, Entry(m, "GATE_REJECT", i))>> \o <<Transition(m, "FLAT")>>)
    BY <1>1, <1>2, <1>4, <1>5, EntryThen
  <2>2. Writes(m, Entry(m, "GATE_REJECT", i)) \in Step /\ Transition(m, "FLAT") \in Step
    BY <1>2, <1>5, <1>7
  <2>3. QED
    BY <1>8, <2>1, <2>2, Two
<1>9. CASE steps = <<e1, Writes(m, Entry(m, "DRY_RUN_INTENT", i)), Transition(m, "FLAT")>>
  <2> DEFINE e2 == Writes(m, Entry(m, "DRY_RUN_INTENT", i))
             e3 == Transition(m, "FLAT")
  <2>1. e1 \in Step /\ e2 \in Step /\ e3 \in Step
    BY <1>2, <1>5, <1>7
  <2>2. Good(g, w1, m, <<e2>> \o <<e3>>)
    <3>1. GoodMemory(g, w1, m) /\ "DRY_RUN_INTENT" \in Events
      BY <1>2, <1>3
    <3>2. Good(g, w1 \cup {Entry(m, "DRY_RUN_INTENT", i)}, m, <<e3>>)
      BY <1>5
    <3>3. QED
      BY <1>1, <1>2, <3>1, <3>2, EntryThen
  <2> HIDE DEF e1, e2, e3, w1
  <2>3. Good(g, w, l, <<e1>> \o (<<e2>> \o <<e3>>))
    BY <1>6, <2>2
  <2>4. <<e2, e3>> = <<e2>> \o <<e3>> /\ <<e1, e2, e3>> = <<e1>> \o <<e2, e3>>
    BY <2>1, Two, Three
  <2>5. steps = <<e1, e2, e3>>
    BY <1>9 DEF e2, e3
  <2>6. QED
    BY <2>3, <2>4, <2>5
<1>10. CASE /\ steps = <<e1, Transition(q, "PENDING_APPROVAL"),
                         Sends([q EXCEPT !.state = "PENDING_APPROVAL"], i, "ask")>>
            /\ ~g.dry
  <2> DEFINE n == [q EXCEPT !.state = "PENDING_APPROVAL"]
             e2 == Transition(q, "PENDING_APPROVAL")
             e3 == Sends(n, i, "ask")
             w2 == w1 \cup {e2.write}
  <2>1. /\ q \in Memory /\ q.state = "EVALUATING" /\ q.mids = m.mids
        /\ n \in Memory /\ n.state = "PENDING_APPROVAL" /\ n.mids = m.mids
    BY <1>1 DEF Memory, States
  <2>2. GoodMemory(g, w1, q)
    <3>1. GoodMemory(g, w1, m)
      BY <1>3
    <3>2. QED
      BY <2>1, <3>1, SameMids
  <2>3. e2.mem = n
    BY TransitionMemory
  <2> HIDE DEF q, n
  <2>4. "PENDING_APPROVAL" \in States
    BY DEF States
  <2>5. e2 \in Step /\ e2.send = {} /\ With(w1, e2) = w2
    BY <2>1, <2>4, TransitionFields
  <2>6. GoodStep(g, w1, m, e2)
    <3>1. m.state = q.state
      BY <2>1
    <3>2. QED
      BY <1>10, <2>1, <2>2, <2>4, <3>1, TransitionLast
  <2>7. GoodStep(g, w2, n, e3)
    <3>1. GoodMemory(g, w2, n)
      <4>1. GoodMemory(g, w2, q)
        BY <2>2, MoreWritten
      <4>2. QED
        BY <1>10, <2>1, <4>1, SameMids
    <3>2. Fits(g, n, [intent |-> i, side |-> "ask"])
      BY DEF Fits
    <3>3. Announces(Entry(m, "GREEK_PASSED", i), [intent |-> i, side |-> "ask"])
      BY DEF Announces, Entry
    <3>4. Entry(m, "GREEK_PASSED", i) \in w2
      OBVIOUS
    <3>5. QED
      BY <1>10, <2>1, <3>1, <3>2, <3>3, <3>4, SendIsGood
  <2>8. e1 \in Step /\ e3 \in Step
    BY <1>2, <1>7, <2>7 DEF GoodStep
  <2>9. steps = <<e1, e2, e3>>
    BY <1>10 DEF n
  <2> HIDE DEF e1, e2, e3, w1, w2
  <2>10. Good(g, w1, m, <<e2>> \o <<e3>>)
    BY <2>3, <2>5, <2>6, <2>7, GoodLast, GoodFirst
  <2>11. <<e2, e3>> = <<e2>> \o <<e3>> /\ <<e1, e2, e3>> = <<e1>> \o <<e2, e3>>
    BY <2>5, <2>8, Two, Three
  <2>12. Good(g, w, l, <<e1>> \o (<<e2>> \o <<e3>>))
    BY <1>6, <2>10
  <2>13. QED
    BY <2>9, <2>11, <2>12
<1>11. ASSUME NEW s \in SubmitSteps(m, i), ~g.dry, steps = <<e1>> \o s
       PROVE  Good(g, w, l, steps)
  <2>1. GoodMemory(g, w1, m)
    BY <1>3
  <2>2. Good(g, w1, m, s)
    BY <1>11, <2>1, SubmitIsGood
  <2>3. QED
    BY <1>6, <1>11, <2>2
<1>12. QED
  BY <1>8, <1>9, <1>10, <1>11 DEF GateSteps

\* on_option_chain and on_quote_tick in FLAT.
LEMMA EvaluationIsGood ==
    ASSUME NEW g, NEW w, NEW i \in Intents, mem \in Memory,
           GoodMemory(g, w, mem), mem.state = "FLAT",
           g.dry <=> mode = "dry", g.priced = priced,
           NEW steps \in EvaluationSteps(i)
    PROVE  Good(g, w, mem, steps)
<1> DEFINE m == [mem EXCEPT !.state = "EVALUATING"]
           e == Transition(mem, "EVALUATING")
<1>1. m \in Memory /\ m.state = "EVALUATING" /\ m.mids = mem.mids
  BY DEF Memory, States
<1>2. "EVALUATING" \in States
  BY DEF States
<1>3. e.mem = m
  BY TransitionMemory
<1>4. e.send = {} /\ With(w, e) = w \cup {e.write}
  BY <1>2, TransitionFields
<1>5. GoodStep(g, w, mem, e)
  BY <1>2, TransitionLast
<1>6. PICK s \in GateSteps(m, i) : steps = <<e>> \o s
  BY DEF EvaluationSteps
<1> HIDE DEF m, e
<1>7. GoodMemory(g, With(w, e), m)
  <2>1. GoodMemory(g, With(w, e), mem)
    BY <1>4, MoreWritten
  <2>2. QED
    BY <1>1, <2>1, SameMids
<1>8. Good(g, With(w, e), m, s)
  BY <1>1, <1>6, <1>7, GatesAreGood
<1>9. QED
  BY <1>3, <1>4, <1>5, <1>6, <1>8, GoodFirst

\* _on_intent_rejected.
LEMMA RejectedIsGood ==
    ASSUME NEW g, NEW w, NEW m \in Memory, GoodMemory(g, w, m),
           m.state = "PENDING_APPROVAL"
    PROVE  Good(g, w, m, RejectedSteps(m))
<1> DEFINE n == [m EXCEPT !.pending = NoIntent]
           r == Entry(m, "SELECTOR_REJECTED", m.pending)
           e1 == Writes(m, r)
           e2 == Transition(n, "FLAT")
<1>1. n \in Memory /\ n.state = m.state /\ n.mids = m.mids
  BY DEF Memory, Refs
<1>2. /\ "SELECTOR_REJECTED" \in Events /\ "FLAT" \in States /\ m.pending \in Refs
      /\ "SELECTOR_REJECTED" \notin Moves \cup {"STRATEGY_START"}
      /\ "SELECTOR_REJECTED" \notin OfFill
  BY DEF Events, Moves, OfFill, States, Memory
<1>3. GoodMemory(g, w \cup {r}, n)
  <2>1. GoodMemory(g, w \cup {r}, m)
    BY MoreWritten
  <2>2. n.state \notin {"IN_POSITION", "EXITING"} /\ ~g.dry
    BY <1>1 DEF GoodMemory
  <2>3. QED
    BY <1>1, <2>1, <2>2, SameMids
<1> HIDE DEF n
<1>4. Good(g, w \cup {r}, m, <<e2>>)
  BY <1>1, <1>2, <1>3, TransitionLast
<1>5. Good(g, w, m, <<e1>> \o <<e2>>)
  BY <1>2, <1>4, EntryThen
<1>6. e1 \in Step /\ e2 \in Step
  <2>1. e2 \in Step
    BY <1>1, <1>2, TransitionFields
  <2>2. r \in Record
    BY <1>2, EntryType
  <2>3. QED
    BY <2>1, <2>2 DEF Writes, Step
<1>7. RejectedSteps(m) = <<e1, e2>>
  BY DEF RejectedSteps, n
<1> HIDE DEF e1, e2
<1>8. QED
  BY <1>5, <1>6, <1>7, Two

\* on_order_rejected and on_order_denied.
LEMMA RefusedIsGood ==
    ASSUME NEW g, NEW w, NEW m \in Memory, GoodMemory(g, w, m),
           m.state = "PENDING_ENTRY"
    PROVE  Good(g, w, m, RefusedSteps(m))
<1> DEFINE n == [m EXCEPT !.active = NoIntent]
           r == Entry(m, "ORDER_REJECTED", m.active)
           e1 == Writes(m, r)
           e2 == Transition(n, "FLAT")
<1>1. n \in Memory /\ n.state = m.state /\ n.mids = m.mids
  BY DEF Memory, Refs
<1>2. /\ "ORDER_REJECTED" \in Events /\ "FLAT" \in States /\ m.active \in Refs
      /\ "ORDER_REJECTED" \notin Moves \cup {"STRATEGY_START"}
      /\ "ORDER_REJECTED" \notin OfFill
  BY DEF Events, Moves, OfFill, States, Memory
<1>3. GoodMemory(g, w \cup {r}, n)
  <2>1. GoodMemory(g, w \cup {r}, m)
    BY MoreWritten
  <2>2. n.state \notin {"IN_POSITION", "EXITING"} /\ ~g.dry
    BY <1>1 DEF GoodMemory
  <2>3. QED
    BY <1>1, <2>1, <2>2, SameMids
<1> HIDE DEF n
<1>4. Good(g, w \cup {r}, m, <<e2>>)
  BY <1>1, <1>2, <1>3, TransitionLast
<1>5. Good(g, w, m, <<e1>> \o <<e2>>)
  BY <1>2, <1>4, EntryThen
<1>6. e1 \in Step /\ e2 \in Step
  <2>1. e2 \in Step
    BY <1>1, <1>2, TransitionFields
  <2>2. r \in Record
    BY <1>2, EntryType
  <2>3. QED
    BY <2>1, <2>2 DEF Writes, Step
<1>7. RefusedSteps(m) = <<e1, e2>>
  BY DEF RefusedSteps, n
<1> HIDE DEF e1, e2
<1>8. QED
  BY <1>5, <1>6, <1>7, Two

\* _check_exit_triggers: the transition announces the order.
LEMMA ExitIsGood ==
    ASSUME NEW g, NEW w, NEW m \in Memory, GoodMemory(g, w, m),
           m.state = "IN_POSITION", m.active \in Intents
    PROVE  Good(g, w, m, ExitSteps(m))
<1> DEFINE x == [m EXCEPT !.exitSubmitted = TRUE]
           n == [x EXCEPT !.state = "EXITING"]
           e1 == Transition(x, "EXITING")
           e2 == Sends(n, m.active, "exit")
           o == [intent |-> m.active, side |-> "exit"]
<1>1. /\ x \in Memory /\ x.state = m.state /\ x.active = m.active
      /\ n \in Memory /\ n.state = "EXITING" /\ n.active = m.active /\ n.mids = m.mids
  BY DEF Memory, States
<1>2. "EXITING" \in States
  BY DEF States
<1>3. ~g.dry
  BY DEF GoodMemory
<1>4. GoodMemory(g, w, n)
  BY <1>1, <1>3 DEF GoodMemory
<1>5. e1.mem = n
  BY TransitionMemory
<1>6. ExitSteps(m) = <<e1, e2>>
  BY DEF ExitSteps
<1> HIDE DEF x, n
<1>7. /\ e1 \in Step /\ e1.send = {} /\ With(w, e1) = w \cup {e1.write}
      /\ e1.write.event = "FSM_TRANSITION" /\ e1.write.to = "EXITING"
      /\ e1.write.ref = x.active
  BY <1>1, <1>2, TransitionFields
<1>8. GoodStep(g, w, m, e1)
  <2>1. m.state = x.state
    BY <1>1
  <2>2. QED
    BY <1>1, <1>2, <1>4, <1>5, <2>1, TransitionIsGood
<1>9. GoodStep(g, w \cup {e1.write}, n, e2)
  <2>1. GoodMemory(g, w \cup {e1.write}, n)
    BY <1>4, MoreWritten
  <2>2. g.plain => Fits(g, n, o)
    BY <1>1 DEF GoodMemory, Fits
  <2>3. Announces(e1.write, o)
    BY <1>1, <1>7 DEF Announces
  <2> HIDE DEF e1
  <2>4. \E r \in w \cup {e1.write} : Announces(r, o)
    BY <2>3
  <2>5. QED
    BY <1>1, <1>3, <2>1, <2>2, <2>4, SendIsGood
<1>10. e2 \in Step
  BY <1>9 DEF GoodStep
<1> HIDE DEF e1, e2
<1>11. Good(g, w, m, <<e1>> \o <<e2>>)
  BY <1>5, <1>7, <1>8, <1>9, GoodLast, GoodFirst
<1>12. QED
  BY <1>6, <1>7, <1>10, <1>11, Two

\* on_order_filled for an order of intent i.  On a plain venue the strategy's
\* attributes fit the order, so that what is written of the fill is faithful.
LEMMA FilledIsGood ==
    ASSUME NEW g, NEW w, NEW m \in Memory, NEW i \in Intents,
           NEW side \in {"entry", "exit"}, GoodMemory(g, w, m),
           g.plain => Fits(g, m, [intent |-> i, side |-> side])
    PROVE  Good(g, w, m, FilledSteps(m, i))
<1> DEFINE fill == [Entry(m, "FILL", m.active) EXCEPT !.of = i]
           learned == [Entry(m, "LEARNING_RECORD", m.active) EXCEPT
                         !.of = i,
                         !.against = IF m.active \in m.mids THEN "mid" ELSE "fill"]
           pnl == [Entry(m, "PNL", m.active) EXCEPT !.of = i]
<1>1. m.active \in Refs /\ i \in Refs
  BY DEF Memory, Refs
<1>2. g.plain => m.active = i /\ (i \in m.mids <=> i \in g.priced)
  BY DEF Fits, GoodMemory
<1>3. \A e \in {"FILL", "LEARNING_RECORD", "PNL"} :
         /\ Entry(m, e, m.active) \in Record
         /\ Entry(m, e, m.active).event = e /\ Entry(m, e, m.active).ref = m.active
  BY <1>1, EntryType DEF Events
<1>4. /\ fill \in Record /\ fill.event = "FILL" /\ fill.ref = m.active /\ fill.of = i
      /\ pnl \in Record /\ pnl.event = "PNL" /\ pnl.ref = m.active /\ pnl.of = i
  BY <1>1, <1>3 DEF Record
<1>5. /\ learned \in Record /\ learned.event = "LEARNING_RECORD"
      /\ learned.ref = m.active /\ learned.of = i
      /\ learned.against = IF m.active \in m.mids THEN "mid" ELSE "fill"
  BY <1>1, <1>3 DEF Record
<1> HIDE DEF fill, learned, pnl
<1>6. g.plain => Faithful(g, fill) /\ Faithful(g, learned) /\ Faithful(g, pnl)
  BY <1>2, <1>4, <1>5 DEF Faithful
<1>7. {"FILL", "LEARNING_RECORD", "PNL"} \cap (Moves \cup {"STRATEGY_START"}) = {}
  BY DEF Moves
<1>8. ASSUME NEW r \in {fill, learned, pnl}, NEW v, w \subseteq v, NEW s,
             Good(g, v \cup {r}, m, s)
      PROVE  Good(g, v, m, <<Writes(m, r)>> \o s)
  <2>1. GoodMemory(g, v, m)
    BY <1>8, MoreWritten
  <2>2. r \in Record /\ r.event \notin Moves \cup {"STRATEGY_START"}
    BY <1>4, <1>5, <1>7
  <2>3. g.plain => Faithful(g, r)
    BY <1>6
  <2>4. GoodStep(g, v, m, Writes(m, r))
    BY <2>1, <2>2, <2>3, WriteIsGood
  <2> DEFINE x == Writes(m, r)
  <2>5. x.send = {} /\ x.mem = m /\ With(v, x) = v \cup {r}
    BY WriteFields
  <2> HIDE DEF x
  <2>6. Good(g, With(v, x), x.mem, s)
    BY <1>8, <2>5
  <2>7. QED
    BY <2>4, <2>5, <2>6, GoodFirst DEF x
<1>9. ASSUME NEW v, w \subseteq v PROVE Good(g, v, m, AfterFill(m))
  <2>1. GoodMemory(g, v, m)
    BY <1>9, MoreWritten
  <2>2. CASE m.state = "PENDING_ENTRY"
    <3> DEFINE n == [m EXCEPT !.state = "IN_POSITION"]
    <3>1. n.active = m.active /\ n.mids = m.mids /\ n.state = "IN_POSITION"
      BY DEF Memory
    <3>2. ~g.dry
      BY <2>2 DEF GoodMemory
    <3>3. GoodMemory(g, v, n)
      BY <1>2, <2>1, <3>1, <3>2 DEF GoodMemory
    <3>4. "IN_POSITION" \in States
      BY DEF States
    <3>5. Transition(m, "IN_POSITION").mem = n
      BY TransitionMemory
    <3> HIDE DEF n
    <3>6. Good(g, v, m, <<Transition(m, "IN_POSITION")>>)
      BY <3>3, <3>4, <3>5, TransitionIsGood, GoodLast
    <3>7. QED
      BY <2>2, <3>6 DEF AfterFill
  <2>3. CASE m.state = "EXITING"
    <3> DEFINE n == [m EXCEPT !.active = NoIntent]
    <3>1. n \in Memory /\ n.state = m.state /\ n.mids = m.mids
      BY DEF Memory, Refs
    <3>2. ~g.dry
      BY <2>3 DEF GoodMemory
    <3> DEFINE k == Transition(n, "FLAT").mem
    <3>3. "FLAT" \in States
      BY DEF States
    <3>4. k.state = "FLAT" /\ k.mids = m.mids
      <4>1. k = [n EXCEPT !.state = "FLAT"]
        BY TransitionMemory
      <4> HIDE DEF k
      <4>2. QED
        BY <3>1, <4>1 DEF Memory
    <3> HIDE DEF k
    <3>5. GoodMemory(g, v, k)
      BY <2>1, <3>2, <3>4, SameMids
    <3> HIDE DEF n
    <3>6. GoodStep(g, v, m, Transition(n, "FLAT"))
      <4>1. m.state = n.state
        BY <3>1
      <4>2. QED
        BY <3>1, <3>3, <3>5, <4>1, TransitionIsGood DEF k
    <3>7. Good(g, v, m, <<Transition(n, "FLAT")>>)
      BY <3>6, GoodLast
    <3>8. AfterFill(m) = <<Transition(n, "FLAT")>>
      BY <2>3 DEF AfterFill, n
    <3>9. QED
      BY <3>7, <3>8
  <2>4. CASE m.state \notin {"PENDING_ENTRY", "EXITING"}
    <3>1. AfterFill(m) = <<>>
      BY <2>4 DEF AfterFill
    <3>2. QED
      BY <3>1, GoodNothing
  <2>5. QED
    BY <2>2, <2>3, <2>4
<1> DEFINE rest == <<Writes(m, pnl)>> \o AfterFill(m)
<1>10. ASSUME NEW v, w \subseteq v PROVE Good(g, v, m, rest)
  <2>1. Good(g, v \cup {pnl}, m, AfterFill(m))
    BY <1>9, <1>10
  <2>2. QED
    BY <1>8, <1>10, <2>1
<1>11. ASSUME NEW v, w \subseteq v PROVE Good(g, v, m, LearningSteps(m, i) \o rest)
  <2>1. CASE m.active = NoIntent
    <3>1. LearningSteps(m, i) = <<>>
      BY <2>1 DEF LearningSteps
    <3>2. rest \in Seq(Step)
      BY <1>10 DEF Good
    <3> HIDE DEF rest
    <3>3. <<>> \o rest = rest
      BY <3>2, ConcatEmptySeq
    <3>4. QED
      BY <1>10, <1>11, <3>1, <3>3
  <2>2. CASE m.active # NoIntent
    <3>1. LearningSteps(m, i) = <<Writes(m, learned)>>
      BY <2>2 DEF LearningSteps, learned
    <3>2. Good(g, v \cup {learned}, m, rest)
      BY <1>10, <1>11
    <3>3. Good(g, v, m, <<Writes(m, learned)>> \o rest)
      BY <1>8, <1>11, <3>2
    <3>4. QED
      BY <3>1, <3>3
  <2>3. QED
    BY <2>1, <2>2
<1>12. FilledSteps(m, i) = <<Writes(m, fill)>> \o (LearningSteps(m, i) \o rest)
  BY DEF FilledSteps, fill, pnl
<1>13. Good(g, w \cup {fill}, m, LearningSteps(m, i) \o rest)
  BY <1>11
<1> HIDE DEF rest
<1>14. QED
  BY <1>8, <1>12, <1>13

-----------------------------------------------------------------------------
(***************************************************************************)
(* The invariant.                                                          *)
(***************************************************************************)
LEMMA AuditTrailInit ==
    Init => AuditTrailInv
<1> SUFFICES ASSUME Init PROVE AuditTrailInv
  OBVIOUS
<1> USE DEF Init
<1>1. Fresh \in Memory
  BY DEF Fresh, Memory, Refs, States
<1>2. /\ Started \in Record /\ Started.event = "STRATEGY_START"
      /\ Started.to = "FLAT"
  BY <1>1, EntryType DEF Started, Entry, Events, Refs, Fresh
<1>3. TypeOK
  <2>1. replayed \in States
    BY <1>2 DEF States
  <2>2. todo \in Seq(Step) /\ written \subseteq Record /\ 0 \in 0..MaxIntents
    BY <1>2, BoundsAssumption
  <2>3. QED
    BY <1>1, <2>1, <2>2 DEF TypeOK
<1>4. WriteAhead
  BY DEF WriteAhead, Fresh
<1>5. JournalReplays
  BY <1>2 DEF JournalReplays, Fresh
<1>6. GoodMemory(Here, written, mem)
  BY DEF GoodMemory, Fresh
<1>7. Good(Here, written, mem, todo)
  BY GoodNothing
<1>8. \A r \in written : Faithful(Here, r)
  BY <1>2 DEF Faithful, OfFill
<1>9. QED
  BY <1>3, <1>4, <1>5, <1>6, <1>7, <1>8 DEF AuditTrailInv

\* A callback that starts, or an event that starts none: nothing is written or
\* assigned yet, and an order that goes on working fits as before.
LEMMA CallbackStarts ==
    ASSUME AuditTrailInv, UNCHANGED <<mode, faults, mem, journalVars, ordered, priced, starts>>,
           working' \in [Requests -> 0..2], issued' \in 0..MaxIntents,
           \A o \in Requests : working'[o] > 0 => working[o] > 0,
           Good(Here, written, mem, todo'),
           Here.plain => \A o \in Requests :
              working'[o] > 0 /\ o.side # "ask" => todo' = <<>> /\ Fits(Here, mem, o)
    PROVE  AuditTrailInv'
<1> USE DEF AuditTrailInv, journalVars
<1>1. Here' = Here
  BY DEF Here
<1>2. TypeOK'
  BY DEF TypeOK, Good
<1>3. WriteAhead'
  BY DEF WriteAhead
<1>4. JournalReplays'
  BY DEF JournalReplays
<1>5. GoodMemory(Here', written', mem') /\ Good(Here', written', mem', todo')
  BY <1>1
<1>6. QED
  BY <1>1, <1>2, <1>3, <1>4, <1>5

\* What a callback has reached may be given up at any point: after a failed
\* write the memory is that of the step, and the reader does not know.
LEMMA CallbackEnds ==
    ASSUME AuditTrailInv, todo # <<>>, WriteRaises
    PROVE  AuditTrailInv'
<1> USE DEF AuditTrailInv
<1>1. Now.send = {} /\ GoodStep(Here, written, mem, Now)
  BY GoodRest DEF Now, WriteRaises
<1>2. Here' = Here
  BY DEF Here, WriteRaises
<1>3. GoodMemory(Here, written, Now.mem) /\ Now \in Step
  BY <1>1 DEF GoodStep
<1>4. TypeOK'
  BY <1>3, EmptySeq DEF TypeOK, WriteRaises, Step, venueVars
<1>5. WriteAhead'
  BY <1>3 DEF WriteAhead, WriteRaises, venueVars, GoodMemory, Shows
<1>6. JournalReplays'
  BY DEF JournalReplays, WriteRaises
<1>7. GoodMemory(Here', written', mem') /\ Good(Here', written', mem', todo')
  BY <1>2, <1>3, GoodNothing DEF WriteRaises
<1>8. Here'.plain => \A r \in written' : Faithful(Here', r)
  BY <1>2 DEF WriteRaises
<1>9. Here'.plain => \A o \in Requests :
         working'[o] > 0 /\ o.side # "ask" => todo' = <<>> /\ Fits(Here', mem', o)
  BY <1>2 DEF WriteRaises, venueVars
<1>10. QED
  BY <1>4, <1>5, <1>6, <1>7, <1>8, <1>9

\* One more record: it starts from the state the reader believes in.
LEMMA WriteKeeps ==
    ASSUME AuditTrailInv, Write
    PROVE  AuditTrailInv'
<1> USE DEF AuditTrailInv
<1>1. /\ Now.send = {} /\ GoodStep(Here, written, mem, Now)
      /\ Good(Here, With(written, Now), Now.mem, Tail(todo))
  BY GoodRest DEF Now, Write, Idle
<1>2. Here' = Here
  BY DEF Here, Write
<1>3. Now \in Step /\ written' = With(written, Now) /\ written \subseteq written'
  BY <1>1 DEF GoodStep, Write, With
<1>4. Now.mem \in Memory /\ Now.write \in Record
  BY <1>3 DEF Step
<1>5. GoodMemory(Here, written', Now.mem)
  BY <1>1, <1>3, MoreWritten DEF GoodStep
<1>6. replayed' \in {Now.mem.state, "unknown"}
  BY <1>1 DEF Write, Replay, JournalReplays, GoodStep
<1>7. TypeOK'
  <2>1. Now.mem.state \in States
    BY <1>4 DEF Memory
  <2>2. todo' \in Seq(Step)
    BY <1>1 DEF Good, Write
  <2>3. written' \subseteq Record
    BY <1>4 DEF Write, TypeOK
  <2>4. QED
    BY <1>4, <1>6, <2>1, <2>2, <2>3 DEF TypeOK, Write, venueVars
<1>8. WriteAhead'
  BY <1>3, <1>5 DEF WriteAhead, Write, venueVars, GoodMemory, Shows
<1>9. JournalReplays'
  BY <1>6 DEF JournalReplays, Write
<1>10. GoodMemory(Here', written', mem') /\ Good(Here', written', mem', todo')
  BY <1>1, <1>2, <1>3, <1>5 DEF Write
<1>11. Here'.plain => \A r \in written' : Faithful(Here', r)
  BY <1>1, <1>2 DEF Write, GoodStep
<1>12. Here'.plain => \A o \in Requests :
          working'[o] > 0 /\ o.side # "ask" => todo' = <<>> /\ Fits(Here', mem', o)
  BY <1>2 DEF Write, venueVars, Idle
<1>13. QED
  BY <1>7, <1>8, <1>9, <1>10, <1>11, <1>12

\* A request is the last step of its callback, and was announced before.
LEMMA SendKeeps ==
    ASSUME AuditTrailInv, Send
    PROVE  AuditTrailInv'
<1> USE DEF AuditTrailInv
<1>1. /\ Now.send # {} /\ GoodStep(Here, written, mem, Now) /\ Tail(todo) = <<>>
  BY GoodRest DEF Now, Send, Idle
<1>2. Here' = Here
  BY DEF Here, Send
<1>3. Now \in Step /\ GoodMemory(Here, written, Now.mem) /\ Now.mem.state = mem.state
  BY <1>1 DEF GoodStep
<1>4. Now.mem \in Memory /\ Now.send \subseteq Requests
  BY <1>3 DEF Step
<1>5. \A o \in Requests : working'[o] = IF o \in Now.send THEN 2 ELSE working[o]
  BY DEF Send
<1>6. TypeOK'
  <2>1. working' \in [Requests -> 0..2]
    BY DEF Send, TypeOK
  <2>2. todo' \in Seq(Step)
    BY <1>1, EmptySeq DEF Send
  <2>3. QED
    BY <1>4, <2>1, <2>2 DEF TypeOK, Send, journalVars
<1>7. WriteAhead'
  <2>1. \A o \in Requests : working'[o] > 0 => o \in ordered'
    BY <1>5 DEF Send, WriteAhead
  <2>2. \A o \in ordered' : \E r \in written' : Announces(r, o)
    BY <1>1 DEF Send, WriteAhead, GoodStep, journalVars
  <2>3. mode' = "dry" => ordered' = {}
    BY <1>1 DEF Send, WriteAhead, GoodStep, Here
  <2>4. \A i \in mem'.mids : \E r \in written' :
           r.event = "FSM_TRANSITION" /\ r.ref = i /\ r.to = "PENDING_ENTRY"
    BY <1>3 DEF Send, journalVars, GoodMemory, Shows
  <2>5. QED
    BY <2>1, <2>2, <2>3, <2>4 DEF WriteAhead
<1>8. JournalReplays'
  BY <1>3 DEF JournalReplays, Send, journalVars
<1>9. GoodMemory(Here', written', mem') /\ Good(Here', written', mem', todo')
  BY <1>1, <1>2, <1>3, GoodNothing DEF Send, journalVars
<1>10. Here'.plain => \A r \in written' : Faithful(Here', r)
  BY <1>2 DEF Send, journalVars
<1>11. Here'.plain => \A o \in Requests :
          working'[o] > 0 /\ o.side # "ask" => todo' = <<>> /\ Fits(Here', mem', o)
  BY <1>1, <1>2, <1>5 DEF Send, GoodStep, Idle
<1>12. QED
  BY <1>6, <1>7, <1>8, <1>9, <1>10, <1>11

\* A new process: a clean memory, and nothing is promised of the orders that
\* the old one left at the venue.
LEMMA StartKeeps ==
    ASSUME AuditTrailInv, StartAnew, written \subseteq written',
           written' \subseteq Record
    PROVE  AuditTrailInv'
<1> USE DEF AuditTrailInv
<1>1. ~Here'.plain
  <2>1. starts \in Nat \ {0} /\ starts' = starts + 1
    BY DEF StartAnew, TypeOK
  <2>2. starts' # 1
    BY <2>1
  <2>3. QED
    BY <2>2 DEF Here
<1>2. /\ Fresh \in Memory /\ Fresh.state = "FLAT" /\ Fresh.mids = {}
      /\ Started.to = "FLAT"
  BY DEF Fresh, Memory, Refs, States, Started, Entry
<1>3. TypeOK'
  BY <1>2, EmptySeq DEF TypeOK, StartAnew, venueVars, States
<1>4. WriteAhead'
  BY <1>2 DEF WriteAhead, StartAnew, venueVars
<1>5. JournalReplays'
  BY <1>2 DEF JournalReplays, StartAnew
<1>6. GoodMemory(Here', written', mem') /\ Good(Here', written', mem', todo')
  BY <1>2, GoodNothing DEF StartAnew, GoodMemory
<1>7. QED
  BY <1>1, <1>3, <1>4, <1>5, <1>6

LEMMA AuditTrailStep ==
    AuditTrailInv /\ [Next]_vars => AuditTrailInv'
<1> SUFFICES ASSUME AuditTrailInv, [Next]_vars PROVE AuditTrailInv'
  OBVIOUS
<1> USE DEF AuditTrailInv
<1> DEFINE g == Here
<1>1. /\ mem \in Memory /\ working \in [Requests -> 0..2] /\ issued \in 0..MaxIntents
      /\ GoodMemory(g, written, mem) /\ (g.dry <=> mode = "dry") /\ g.priced = priced
  BY DEF TypeOK, Here
<1>2. ASSUME NEW i \in Intents, Evaluate(i) PROVE AuditTrailInv'
  <2>1. Good(g, written, mem, todo')
    <3> HIDE DEF g
    <3>1. QED
      BY <1>1, <1>2, EvaluationIsGood DEF Evaluate
  <2>2. g.plain => \A o \in Requests : working[o] > 0 => o.side = "ask"
    BY <1>2 DEF Evaluate, Fits
  <2>3. issued' \in 0..MaxIntents
    BY <1>2 DEF Evaluate, Intents
  <2>4. QED
    BY <1>1, <1>2, <2>1, <2>2, <2>3, CallbackStarts DEF Evaluate, venueVars
<1>3. ASSUME NEW i \in Intents, Verdict(i) PROVE AuditTrailInv'
  <2>1. working' \in [Requests -> 0..2] /\ \A o \in Requests : working'[o] > 0 => working[o] > 0
    <3>1. Ask(i) \in Requests
      BY DEF Ask, Requests
    <3>2. working' = [working EXCEPT ![Ask(i)] = 0]
      BY <1>3 DEF Verdict
    <3>3. QED
      BY <1>1, <3>1, <3>2
  <2>2. ~g.dry
    <3>1. Ask(i) \in Requests
      BY DEF Ask, Requests
    <3>2. Ask(i) \in ordered
      BY <1>3, <3>1 DEF Verdict, WriteAhead
    <3>3. QED
      BY <3>2 DEF WriteAhead, Here
  <2>3. CASE mem.state = "PENDING_APPROVAL" /\ mem.pending = i
    <3>1. todo' \in SubmitSteps(mem, i) \cup {RejectedSteps(mem)}
      BY <1>3, <2>3 DEF Verdict
    <3>2. Good(g, written, mem, todo')
      <4> HIDE DEF g
      <4>1. CASE todo' \in SubmitSteps(mem, i)
        BY <1>1, <2>2, <4>1, SubmitIsGood
      <4>2. CASE todo' = RejectedSteps(mem)
        BY <1>1, <2>3, <4>2, RejectedIsGood
      <4>3. QED
        BY <3>1, <4>1, <4>2
    <3>3. g.plain => \A o \in Requests : working[o] > 0 => o.side = "ask"
      BY <2>3 DEF Fits
    <3>4. QED
      BY <1>1, <1>3, <2>1, <3>2, <3>3, CallbackStarts DEF Verdict
  <2>4. CASE ~(mem.state = "PENDING_APPROVAL" /\ mem.pending = i)
    <3>1. todo' = todo
      BY <1>3, <2>4 DEF Verdict
    <3>2. QED
      BY <1>1, <1>3, <2>1, <3>1, CallbackStarts DEF Verdict
  <2>5. QED
    BY <2>3, <2>4
<1>4. ASSUME Exit PROVE AuditTrailInv'
  <2>1. mem.active \in Intents
    BY <1>1, <1>4 DEF Exit, Memory, Refs
  <2>2. Good(g, written, mem, todo')
    <3> HIDE DEF g
    <3>1. QED
      BY <1>1, <1>4, <2>1, ExitIsGood DEF Exit
  <2>3. g.plain => \A o \in Requests : working[o] > 0 => o.side = "ask"
    BY <1>4 DEF Exit, Fits
  <2>4. QED
    BY <1>1, <1>4, <2>2, <2>3, CallbackStarts DEF Exit, venueVars
<1>5. ASSUME NEW o \in Requests, Filled(o) PROVE AuditTrailInv'
  <2>1. PICK lots \in 1..working[o] :
           /\ "partial_fill" \notin faults => lots = working[o]
           /\ working' = [working EXCEPT ![o] = @ - lots]
    BY <1>5 DEF Filled
  <2>2. working[o] \in 0..2 /\ lots \in Nat
    BY <1>1, <2>1
  <2>3. working' \in [Requests -> 0..2] /\ \A p \in Requests : working'[p] > 0 => working[p] > 0
    BY <1>1, <2>1, <2>2
  <2>4. o = [intent |-> o.intent, side |-> o.side] /\ o.intent \in Intents
          /\ o.side \in {"entry", "exit"}
    BY <1>5 DEF Filled, Requests
  <2>5. g.plain => Fits(g, mem, o)
    BY <1>5 DEF Filled
  <2>6. Good(g, written, mem, todo')
    <3> HIDE DEF g
    <3>1. todo' = FilledSteps(mem, o.intent)
      BY <1>5 DEF Filled
    <3>2. QED
      BY <1>1, <2>4, <2>5, <3>1, FilledIsGood
  <2>7. ASSUME g.plain, NEW p \in Requests, working'[p] > 0 PROVE p.side = "ask"
    <3>1. "partial_fill" \notin faults
      BY <2>7 DEF Here
    <3>2. working'[o] = 0
      BY <1>1, <2>1, <2>2, <3>1
    <3>3. p # o /\ working[p] > 0
      BY <2>3, <2>7, <3>2
    <3>4. SUFFICES ASSUME p.side # "ask" PROVE FALSE
      OBVIOUS
    <3>5. Fits(g, mem, p) /\ Fits(g, mem, o)
      BY <2>5, <2>7, <3>3, <3>4
    <3>6. p = [intent |-> p.intent, side |-> p.side] /\ p.side \in {"entry", "exit"}
      BY <3>4 DEF Requests
    <3>7. p.intent = o.intent /\ p.side = o.side
      BY <2>4, <3>5, <3>6 DEF Fits
    <3>8. QED
      BY <2>4, <3>3, <3>6, <3>7
  <2>8. QED
    BY <1>1, <1>5, <2>3, <2>6, <2>7, CallbackStarts DEF Filled
<1>6. ASSUME NEW o \in Requests, Refused(o) PROVE AuditTrailInv'
  <2>1. working' = [working EXCEPT ![o] = 0]
    BY <1>6 DEF Refused
  <2>2. working' \in [Requests -> 0..2] /\ \A p \in Requests : working'[p] > 0 => working[p] > 0
    BY <1>1, <2>1
  <2>3. working[o] > 0 /\ o.side # "ask"
    BY <1>6 DEF Refused
  <2>4. Good(g, written, mem, todo')
    <3> HIDE DEF g
    <3>1. QED
      BY <1>1, <1>6, RefusedIsGood, GoodNothing DEF Refused
  <2>5. ASSUME g.plain, NEW p \in Requests, working'[p] > 0 PROVE p.side = "ask"
    <3>1. SUFFICES ASSUME p.side # "ask" PROVE FALSE
      OBVIOUS
    <3>2. p # o /\ working[p] > 0
      BY <1>1, <2>1, <2>2, <2>5
    <3>3. Fits(g, mem, p) /\ Fits(g, mem, o)
      BY <2>3, <2>5, <3>1, <3>2
    <3>4. /\ p = [intent |-> p.intent, side |-> p.side] /\ p.side \in {"entry", "exit"}
          /\ o = [intent |-> o.intent, side |-> o.side] /\ o.side \in {"entry", "exit"}
      BY <2>3, <3>1 DEF Requests
    <3>5. p.intent = o.intent /\ p.side = o.side
      BY <3>3, <3>4 DEF Fits
    <3>6. QED
      BY <3>2, <3>4, <3>5
  <2>6. QED
    BY <1>1, <1>6, <2>2, <2>4, <2>5, CallbackStarts DEF Refused
<1>7. ASSUME WriteRaises PROVE AuditTrailInv'
  BY <1>7, CallbackEnds DEF WriteRaises, Idle
<1>8. ASSUME Restart PROVE AuditTrailInv'
  BY <1>8, StartKeeps DEF Restart, TypeOK
<1>9. ASSUME Stop PROVE AuditTrailInv'
  <2>1. Entry(mem, "STRATEGY_STOP", NoIntent) \in Record
    BY <1>1, EntryType DEF Events, Refs
  <2>2. written \subseteq written' /\ written' \subseteq Record
    BY <1>9, <2>1 DEF Stop, TypeOK
  <2>3. QED
    BY <1>9, <2>2, StartKeeps DEF Stop
<1>10. ASSUME UNCHANGED vars PROVE AuditTrailInv'
  BY <1>1, <1>10, CallbackStarts DEF vars, journalVars
<1>11. QED
  BY <1>2, <1>3, <1>4, <1>5, <1>6, <1>7, <1>8, <1>9, <1>10, WriteKeeps, SendKeeps
     DEF Next

LEMMA AuditTrailHolds ==
    Spec => []AuditTrailInv
  BY AuditTrailInit, AuditTrailStep, PTL DEF Spec

-----------------------------------------------------------------------------
(***************************************************************************)
(* Theorems.                                                               *)
(***************************************************************************)

\* Whatever write raises and wherever the process dies, an intent is put to the
\* selector, an entry and an exit are sent only after the journal holds the
\* record that announces them.
THEOREM JournalIsAhead ==
    Spec => []AuditInv
<1>1. AuditTrailInv => AuditInv
  BY DEF AuditTrailInv, AuditInv
<1>2. QED
  BY <1>1, AuditTrailHolds, PTL

\* _transition records every change of state, from where it left.
THEOREM TransitionsReplay ==
    Spec => []JournalReplays
<1>1. AuditTrailInv => JournalReplays
  BY DEF AuditTrailInv
<1>2. QED
  BY <1>1, AuditTrailHolds, PTL

\* The active intent that on_order_filled and LearningModule write down is the
\* one whose order was filled.
THEOREM FillsAreAttributed ==
    Spec => []Attributed
<1>1. AuditTrailInv => Attributed
  BY DEF AuditTrailInv, Attributed, Here, Faithful, OfFill
<1>2. QED
  BY <1>1, AuditTrailHolds, PTL

=============================================================================
