------------------------ MODULE SessionSettingsProofs ------------------------
(***************************************************************************)
(* Theorems about SessionSettings for any tasks, changes and operations.   *)
(***************************************************************************)
EXTENDS SessionSettings, SequenceTheorems, TLAPS

-----------------------------------------------------------------------------
(* The inductive invariant *)

Items(q) == {q[i] : i \in DOMAIN q}
Messages == Items(ready) \cup Items(replies)

\* Messages that answer somebody, and who that is.
Replies(m)   == m.kind # "settings_updated"
ToUpdater(m) == Replies(m) /\ m.from # Session
ToSession(m) == Replies(m) /\ m.from = Session

\* Calls are numbered; what answers the session is never the answer to an operation.
NumberInv ==
  /\ \A t \in Updaters : call[t] <= changes
  /\ \A m \in Items(ready) : Replies(m)
  /\ \A m \in Messages : /\ ToUpdater(m) => m.id \in 1..changes
                         /\ ToSession(m) => ~m.plain
  /\ \A r \in Items(requests) : r.from # Session => r.id \in 1..changes

\* x is a call made before y: the session asks only when no task does, and is last.
Before(x, y) == x.from # Session /\ (y.from # Session => x.id < y.id)

\* Calls are taken, answered and resumed in the order they were made.
Answering == {m \in Incoming : Replies(m)}
Chain(q, A) == \A i, j \in DOMAIN q : i < j /\ q[i] \in A /\ q[j] \in A => Before(q[i], q[j])
Ord(a, b, c) ==
  /\ Chain(a, Answering) /\ Chain(b, Answering) /\ Chain(c, Outgoing)
  /\ \A x \in Items(a), y \in Items(b) : x \in Answering /\ y \in Answering => Before(x, y)
  /\ \A x \in Items(a), y \in Items(c) : x \in Answering => Before(x, y)
  /\ \A x \in Items(b), y \in Items(c) : x \in Answering => Before(x, y)
OrderInv == Ord(ready, replies, requests)

\* What the session asks for in each phase.
Asks ==
  \A r \in Items(requests) :
    /\ r.from # Session => r.method \in {"update", "operation"}
    /\ r.from = Session =>
         \/ phase \in Opening \cup {"fork"} /\ r.method = phase
         \/ phase \in {"load", "load_back"} /\ r.method = "load"
         \/ phase \in Restricting /\ r.method = "update" /\ r.change = Restriction(restrict)

\* No call of a task is under way; none of the session.
SessionOnly == (\A m \in Messages : ~ToUpdater(m)) /\ (\A r \in Items(requests) : r.from = Session)
TasksOnly   == (\A m \in Messages : ~ToSession(m)) /\ (\A r \in Items(requests) : r.from # Session)

PhaseInv ==
  /\ Asks
  /\ phase \notin Opening \cup Replacing => TasksOnly
  /\ phase \in {"lazy", "load", "load_back"} \cup Opening \cup Restricting => SessionOnly
  /\ phase \in Restricting => restrict # Null
  /\ phase = "resume" => restrict = Null

\* A task that waits for an operation wants no change; one that asked for a change and
\* has not given up still wants it.
WaitInv ==
  /\ \A r \in Items(requests) :
       r.from # Session /\ r.method = "operation" /\ r.id = call[r.from] => wants[r.from] \notin Changes
  /\ \A m \in Messages : ToUpdater(m) /\ m.plain /\ m.id = call[m.from] => wants[m.from] \notin Changes
  /\ "gave_up" \notin untrue =>
       /\ \A r \in Items(requests) : r.from # Session /\ r.method = "update" =>
            r.id = call[r.from] /\ r.change = wants[r.from] /\ r.change \in Changes
       /\ \A m \in Messages : ToUpdater(m) /\ ~m.plain =>
            m.id = call[m.from] /\ wants[m.from] \in Changes

\* The last message of q that is in A is in V; none is in A.
Latest(q, A, V) == \E i \in DOMAIN q : q[i] \in A \cap V /\ \A j \in DOMAIN q : i < j => q[j] \notin A
Silent(q, A)    == \A i \in DOMAIN q : q[i] \notin A

\* Handling a, then b, sets a value to y: messages in A set it, those in V to y; it is x now.
Settles(a, b, A, V, x, y) ==
  \/ Latest(b, A, V)
  \/ Silent(b, A) /\ (Latest(a, A, V) \/ (Silent(a, A) /\ x = y))

\* What handling a message does to a field of the copy.
Affects(m, f) ==
  \/ m.kind = "settings_updated" /\ f \in DOMAIN m.change
  \/ m.kind = "answer" /\ m.from # Session /\ ~m.plain /\ f \in DOMAIN wants[m.from]
  \/ /\ m.kind = "answer" /\ m.from = Session
     /\ \/ phase \in Opening \cup {"load", "load_back"}
        \/ phase \in Restricting /\ f = "restrict_tools"
Value(m, f) ==
  IF m.kind = "settings_updated" THEN m.change[f]
  ELSE IF m.from # Session THEN wants[m.from][f]
  ELSE IF phase \in Restricting THEN restrict ELSE m.now[f]
Setting(f) == {m \in Incoming : Affects(m, f)}
Right(f)   == {m \in Incoming : Value(m, f) = droid[f]}

Copy == IF phase \in Restricting THEN loaded ELSE settings

\* What is under way will leave the field as the process has it.
SettledAt(f) == Settles(ready, replies, Setting(f), Right(f), Copy[f], droid[f])

\* The session was answered and does not know it yet.
Told == \E m \in Messages : ToSession(m) /\ m.kind = "answer"

Showing == untrue = {} /\ (phase \in {"open", "fork"} \cup Restricting \/ Told)
SettledInv == Showing => \A f \in Fields \ {"system_prompt"} : SettledAt(f)

\* The same of the restriction that the session remembers.
Remembering == {m \in Incoming : /\ ToUpdater(m) /\ m.kind = "answer" /\ ~m.plain
                                 /\ "restrict_tools" \in DOMAIN wants[m.from]}
Remembered  == {m \in Incoming : wants[m.from]["restrict_tools"] = droid["restrict_tools"]}
Kept == Settles(ready, replies, Remembering, Remembered,
                IF restrict = Null THEN droid["restrict_tools"] ELSE restrict, droid["restrict_tools"])

Keeping ==
  "gave_up" \notin untrue
    /\ (phase \in {"open", "fork"} \/ (phase \in Opening \cup Restricting /\ Told))
KeptInv == Keeping => Kept

-----------------------------------------------------------------------------
(* Sequences of messages *)

LEMMA TailFacts ==
  ASSUME NEW S, NEW q \in Seq(S), q # <<>>
  PROVE  /\ Tail(q) \in Seq(S) /\ Head(q) \in S /\ Head(q) = q[1] /\ 1 \in DOMAIN q
         /\ \A i \in DOMAIN Tail(q) : i + 1 \in DOMAIN q /\ Tail(q)[i] = q[i + 1]
         /\ \A i \in DOMAIN q : i = 1 \/ (i - 1 \in DOMAIN Tail(q) /\ q[i] = Tail(q)[i - 1])
         /\ DOMAIN q \subseteq Nat \ {0} /\ DOMAIN Tail(q) \subseteq Nat \ {0}
         /\ Items(q) = {Head(q)} \cup Items(Tail(q))
<1>1. /\ Tail(q) \in Seq(S) /\ Head(q) \in S /\ Len(Tail(q)) = Len(q) - 1
      /\ \A i \in 1..Len(Tail(q)) : Tail(q)[i] = q[i + 1]
  BY HeadTailProperties
<1>2. /\ DOMAIN q = 1..Len(q) /\ Len(q) \in Nat \ {0}
      /\ DOMAIN Tail(q) = 1..Len(Tail(q)) /\ Len(Tail(q)) \in Nat
  BY <1>1, LenProperties, EmptySeq
<1>3. Head(q) = q[1]  OBVIOUS
<1>4. \A i \in DOMAIN Tail(q) : i + 1 \in DOMAIN q /\ Tail(q)[i] = q[i + 1]  BY <1>1, <1>2
<1>5. \A i \in DOMAIN q : i = 1 \/ (i - 1 \in DOMAIN Tail(q) /\ q[i] = Tail(q)[i - 1])
  <2> SUFFICES ASSUME NEW i \in DOMAIN q, i # 1
               PROVE  i - 1 \in DOMAIN Tail(q) /\ q[i] = Tail(q)[i - 1]  OBVIOUS
  <2>1. i \in Nat /\ i >= 2 /\ i - 1 \in 1..Len(Tail(q)) /\ (i - 1) + 1 = i  BY <1>1, <1>2
  <2> QED BY <2>1, <1>1, <1>2
<1>6. 1 \in DOMAIN q  BY <1>2
<1>7. Items(q) = {Head(q)} \cup Items(Tail(q))
  <2>1. \A x \in Items(q) : x \in {Head(q)} \cup Items(Tail(q))  BY <1>3, <1>5 DEF Items
  <2>2. \A x \in {Head(q)} \cup Items(Tail(q)) : x \in Items(q)  BY <1>3, <1>4, <1>6 DEF Items
  <2> QED BY <2>1, <2>2
<1> QED BY <1>1, <1>2, <1>3, <1>4, <1>5, <1>6, <1>7

LEMMA AppendFacts ==
  ASSUME NEW S, NEW q \in Seq(S), NEW x \in S
  PROVE  /\ Append(q, x) \in Seq(S) /\ DOMAIN q = 1..Len(q) /\ Len(q) \in Nat
         /\ DOMAIN Append(q, x) = 1..(Len(q) + 1) /\ Append(q, x)[Len(q) + 1] = x
         /\ \A i \in DOMAIN q : Append(q, x)[i] = q[i]
         /\ Items(Append(q, x)) = Items(q) \cup {x}
<1>1. /\ Append(q, x) \in Seq(S) /\ Len(Append(q, x)) = Len(q) + 1
      /\ \A i \in 1..Len(q) : Append(q, x)[i] = q[i]
      /\ Append(q, x)[Len(q) + 1] = x
  BY AppendProperties
<1>2. DOMAIN q = 1..Len(q) /\ Len(q) \in Nat /\ DOMAIN Append(q, x) = 1..(Len(q) + 1)
  BY <1>1, LenProperties
<1>3. \A y \in Items(Append(q, x)) : y \in Items(q) \cup {x}
  <2> SUFFICES ASSUME NEW i \in 1..(Len(q) + 1) PROVE Append(q, x)[i] \in Items(q) \cup {x}
    BY <1>2 DEF Items
  <2>1. i \in 1..Len(q) \/ i = Len(q) + 1  BY <1>2
  <2> QED BY <2>1, <1>1, <1>2 DEF Items
<1>4. \A y \in Items(q) \cup {x} : y \in Items(Append(q, x))
  <2>1. x \in Items(Append(q, x))  BY <1>1, <1>2 DEF Items
  <2>2. \A i \in 1..Len(q) : i \in 1..(Len(q) + 1)  BY <1>2
  <2> QED BY <2>1, <2>2, <1>1, <1>2 DEF Items
<1> QED BY <1>1, <1>2, <1>3, <1>4

LEMMA AppendTwo ==
  ASSUME NEW S, NEW q \in Seq(S), NEW x \in S, NEW y \in S
  PROVE  q \o <<x>> = Append(q, x) /\ q \o <<x, y>> = Append(Append(q, x), y)
<1>1. Append(q, x) \in Seq(S)  BY AppendProperties
<1>2. Append(q, x) = q \o <<x>> /\ Append(Append(q, x), y) = Append(q, x) \o <<y>>
  BY <1>1, AppendIsConcat
<1>3. <<x>> \in Seq(S) /\ <<y>> \in Seq(S)  OBVIOUS
<1>4. Append(<<x>>, y) = <<x, y>>
  <2>1. /\ <<x>> \in Seq(S) /\ Len(<<x>>) = 1 /\ <<x>>[1] = x
        /\ <<x, y>> \in Seq(S) /\ Len(<<x, y>>) = 2 /\ <<x, y>>[1] = x /\ <<x, y>>[2] = y
    OBVIOUS
  <2>2. /\ Append(<<x>>, y) \in Seq(S) /\ Len(Append(<<x>>, y)) = 2
        /\ Append(<<x>>, y)[1] = x /\ Append(<<x>>, y)[2] = y
    BY <2>1, AppendProperties
  <2>3. \A i \in 1..2 : i = 1 \/ i = 2  OBVIOUS
  <2> QED BY <2>1, <2>2, <2>3, SeqEqual
<1>5. <<x>> \o <<y>> = <<x, y>>  BY <1>3, <1>4, AppendIsConcat
<1> QED BY <1>2, <1>3, <1>5, ConcatAssociative

LEMMA EmptyFacts == Items(<<>>) = {} /\ \A A : Silent(<<>>, A)
BY DEF Items, Silent

LEMMA ItemTypes == ASSUME NEW S, NEW q \in Seq(S) PROVE Items(q) \subseteq S
BY LenProperties, ElementOfSeq DEF Items

LEMMA ChainTail ==
  ASSUME NEW S, NEW q \in Seq(S), q # <<>>, NEW A, Chain(q, A)
  PROVE  /\ Chain(Tail(q), A)
         /\ \A y \in Items(Tail(q)) : Head(q) \in A /\ y \in A => Before(Head(q), y)
<1> DEFINE t == Tail(q)
<1>1. /\ Head(q) = q[1] /\ 1 \in DOMAIN q /\ DOMAIN t \subseteq Nat \ {0}
      /\ \A i \in DOMAIN t : i + 1 \in DOMAIN q /\ t[i] = q[i + 1]
  BY TailFacts
<1> HIDE DEF t
<1>2. Chain(t, A)
  <2> SUFFICES ASSUME NEW i \in DOMAIN t, NEW j \in DOMAIN t, i < j, t[i] \in A, t[j] \in A
               PROVE  Before(t[i], t[j])  BY DEF Chain
  <2>1. i + 1 < j + 1  BY <1>1
  <2> QED BY <2>1, <1>1 DEF Chain
<1>3. \A i \in DOMAIN t : 1 < i + 1  BY <1>1
<1>4. \A y \in Items(t) : Head(q) \in A /\ y \in A => Before(Head(q), y)
  BY <1>1, <1>3 DEF Chain, Items
<1> QED BY <1>2, <1>4 DEF t

LEMMA ChainAppend ==
  ASSUME NEW S, NEW q \in Seq(S), NEW x \in S, NEW A, Chain(q, A),
         \A y \in Items(q) : y \in A /\ x \in A => Before(y, x)
  PROVE  Chain(Append(q, x), A)
<1> DEFINE p == Append(q, x)
<1>1. /\ DOMAIN q = 1..Len(q) /\ Len(q) \in Nat /\ DOMAIN p = 1..(Len(q) + 1)
      /\ p[Len(q) + 1] = x /\ \A i \in DOMAIN q : p[i] = q[i]
  BY AppendFacts
<1> HIDE DEF p
<1> SUFFICES ASSUME NEW i \in DOMAIN p, NEW j \in DOMAIN p, i < j, p[i] \in A, p[j] \in A
             PROVE  Before(p[i], p[j])  BY DEF Chain, p
<1>2. i \in DOMAIN q /\ (j \in DOMAIN q \/ j = Len(q) + 1)  BY <1>1
<1>3. CASE j \in DOMAIN q  BY <1>1, <1>2, <1>3 DEF Chain
<1>4. CASE j = Len(q) + 1  BY <1>1, <1>2, <1>4 DEF Items
<1> QED BY <1>2, <1>3, <1>4

\* A call is made; it is taken and answered; a change is announced.
LEMMA OrdCalled ==
  ASSUME NEW a \in Seq(Incoming), NEW b \in Seq(Incoming), NEW c \in Seq(Outgoing), Ord(a, b, c),
         NEW x \in Outgoing, \A m \in Items(a) \cup Items(b) : m \in Answering => Before(m, x),
         \A r \in Items(c) : Before(r, x)
  PROVE  Ord(a, b, Append(c, x))
<1>1. Items(Append(c, x)) = Items(c) \cup {x}  BY AppendFacts
<1>2. Chain(Append(c, x), Outgoing)  BY ChainAppend DEF Ord
<1> QED BY <1>1, <1>2 DEF Ord

LEMMA OrdTaken ==
  ASSUME NEW a \in Seq(Incoming), NEW b \in Seq(Incoming), NEW c \in Seq(Outgoing), Ord(a, b, c),
         c # <<>>, NEW x \in Incoming, x.from = Head(c).from, x.id = Head(c).id
  PROVE  Ord(a, Append(b, x), Tail(c))
<1>1. Items(Append(b, x)) = Items(b) \cup {x}  BY AppendFacts
<1>2. Items(c) = {Head(c)} \cup Items(Tail(c)) /\ Head(c) \in Outgoing  BY TailFacts
<1>3. Items(Tail(c)) \subseteq Outgoing  BY TailFacts, ItemTypes
<1>4. \A y : (Before(y, x) <=> Before(y, Head(c))) /\ (Before(x, y) <=> Before(Head(c), y))
  BY DEF Before
<1>5. Chain(Tail(c), Outgoing) /\ \A y \in Items(Tail(c)) : Before(Head(c), y)
  BY <1>2, <1>3, ChainTail DEF Ord
<1>6. Chain(Append(b, x), Answering)
  <2>1. \A y \in Items(b) : y \in Answering => Before(y, x)  BY <1>2, <1>4 DEF Ord
  <2> QED BY <2>1, ChainAppend DEF Ord
<1> QED BY <1>1, <1>2, <1>4, <1>5, <1>6 DEF Ord

LEMMA OrdTold ==
  ASSUME NEW a \in Seq(Incoming), NEW b \in Seq(Incoming), NEW c \in Seq(Outgoing), Ord(a, b, c),
         NEW x \in Incoming, ~Replies(x)
  PROVE  Ord(a, Append(b, x), c)
<1>1. Items(Append(b, x)) = Items(b) \cup {x}  BY AppendFacts
<1>2. x \notin Answering  BY DEF Answering
<1>3. Chain(Append(b, x), Answering)  BY <1>2, ChainAppend DEF Ord
<1> QED BY <1>1, <1>2, <1>3 DEF Ord

\* A message is read: the change is made, or the answer is kept for its caller.
LEMMA OrdDropped ==
  ASSUME NEW a \in Seq(Incoming), NEW b \in Seq(Incoming), NEW c \in Seq(Outgoing), Ord(a, b, c),
         b # <<>>
  PROVE  Ord(a, Tail(b), c)
<1>1. Items(Tail(b)) \subseteq Items(b)  BY TailFacts
<1>2. Chain(Tail(b), Answering)  BY ChainTail DEF Ord
<1> QED BY <1>1, <1>2 DEF Ord

LEMMA OrdRead ==
  ASSUME NEW a \in Seq(Incoming), NEW b \in Seq(Incoming), NEW c \in Seq(Outgoing), Ord(a, b, c),
         b # <<>>, Replies(Head(b))
  PROVE  Ord(Append(a, Head(b)), Tail(b), c)
<1>1. Items(b) = {Head(b)} \cup Items(Tail(b)) /\ Head(b) \in Incoming  BY TailFacts
<1>2. Items(Append(a, Head(b))) = Items(a) \cup {Head(b)}  BY <1>1, AppendFacts
<1>3. Head(b) \in Answering  BY <1>1 DEF Answering
<1>4. /\ Chain(Tail(b), Answering)
      /\ \A y \in Items(Tail(b)) : y \in Answering => Before(Head(b), y)
  BY <1>3, ChainTail DEF Ord
<1>5. Chain(Append(a, Head(b)), Answering)
  <2>1. \A y \in Items(a) : y \in Answering => Before(y, Head(b))  BY <1>1, <1>3 DEF Ord
  <2> QED BY <1>1, <2>1, ChainAppend DEF Ord
<1> QED BY <1>1, <1>2, <1>3, <1>4, <1>5 DEF Ord

\* The caller goes on: every other call that is under way was made after its own.
LEMMA OrdResumed ==
  ASSUME NEW a \in Seq(Incoming), NEW b \in Seq(Incoming), NEW c \in Seq(Outgoing), Ord(a, b, c),
         a # <<>>, Replies(Head(a))
  PROVE  /\ Ord(Tail(a), b, c)
         /\ \A y \in Items(Tail(a)) \cup Items(b) : y \in Answering => Before(Head(a), y)
         /\ \A y \in Items(c) : Before(Head(a), y)
<1>1. Items(a) = {Head(a)} \cup Items(Tail(a)) /\ Head(a) \in Incoming  BY TailFacts
<1>2. Head(a) \in Answering  BY <1>1 DEF Answering
<1>3. /\ Chain(Tail(a), Answering)
      /\ \A y \in Items(Tail(a)) : y \in Answering => Before(Head(a), y)
  BY <1>2, ChainTail DEF Ord
<1> QED BY <1>1, <1>2, <1>3 DEF Ord

-----------------------------------------------------------------------------
(* What is settled stays settled *)

LEMMA LatestTail ==
  ASSUME NEW S, NEW q \in Seq(S), q # <<>>, NEW A, NEW V
  PROVE  /\ Latest(q, A, V) => Latest(Tail(q), A, V) \/ (Silent(Tail(q), A) /\ Head(q) \in A \cap V)
         /\ Latest(q, A, V) /\ (\E y \in Items(Tail(q)) : y \in A) => Latest(Tail(q), A, V)
         /\ Silent(q, A) <=> Head(q) \notin A /\ Silent(Tail(q), A)
<1> DEFINE t == Tail(q)
<1>1. /\ Head(q) = q[1] /\ 1 \in DOMAIN q /\ DOMAIN t \subseteq Nat \ {0} /\ DOMAIN q \subseteq Nat \ {0}
      /\ \A i \in DOMAIN t : i + 1 \in DOMAIN q /\ t[i] = q[i + 1]
      /\ \A i \in DOMAIN q : i = 1 \/ (i - 1 \in DOMAIN t /\ q[i] = t[i - 1])
  BY TailFacts
<1> HIDE DEF t
<1>2. Latest(q, A, V) => Latest(t, A, V) \/ (Silent(t, A) /\ Head(q) \in A \cap V)
  <2> SUFFICES ASSUME NEW i \in DOMAIN q, q[i] \in A \cap V, \A j \in DOMAIN q : i < j => q[j] \notin A
               PROVE  Latest(t, A, V) \/ (Silent(t, A) /\ Head(q) \in A \cap V)  BY DEF Latest
  <2>1. CASE i = 1
    <3>1. \A j \in DOMAIN t : 1 < j + 1  BY <1>1
    <3> QED BY <1>1, <2>1, <3>1 DEF Silent
  <2>2. CASE i # 1
    <3>1. i - 1 \in DOMAIN t /\ t[i - 1] \in A \cap V  BY <1>1, <2>2
    <3>2. \A j \in DOMAIN t : i - 1 < j => t[j] \notin A
      <4> SUFFICES ASSUME NEW j \in DOMAIN t, i - 1 < j PROVE t[j] \notin A  OBVIOUS
      <4>1. i < j + 1  BY <1>1
      <4> QED BY <1>1, <4>1
    <3> QED BY <3>1, <3>2 DEF Latest
  <2> QED BY <2>1, <2>2
<1>3. (\E y \in Items(t) : y \in A) => ~Silent(t, A)  BY DEF Items, Silent
<1>4. Silent(q, A) <=> Head(q) \notin A /\ Silent(t, A)  BY <1>1 DEF Silent
<1> QED BY <1>2, <1>3, <1>4 DEF t

LEMMA LatestAppend ==
  ASSUME NEW S, NEW q \in Seq(S), NEW x \in S, NEW A, NEW V
  PROVE  /\ x \in A \cap V => Latest(Append(q, x), A, V)
         /\ x \notin A /\ Latest(q, A, V) => Latest(Append(q, x), A, V)
         /\ Silent(Append(q, x), A) <=> x \notin A /\ Silent(q, A)
<1> DEFINE p == Append(q, x)
<1>1. /\ DOMAIN q = 1..Len(q) /\ Len(q) \in Nat /\ DOMAIN p = 1..(Len(q) + 1)
      /\ p[Len(q) + 1] = x /\ \A i \in DOMAIN q : p[i] = q[i]
  BY AppendFacts
<1> HIDE DEF p
<1>2. Len(q) + 1 \in DOMAIN p /\ \A j \in DOMAIN p : j = Len(q) + 1 \/ j \in DOMAIN q  BY <1>1
<1>3. \A j \in DOMAIN q : j \in DOMAIN p  BY <1>1
<1>4. x \in A \cap V => Latest(p, A, V)
  <2>1. \A j \in DOMAIN p : ~(Len(q) + 1 < j)  BY <1>1
  <2> QED BY <1>1, <1>2, <2>1 DEF Latest
<1>5. x \notin A /\ Latest(q, A, V) => Latest(p, A, V)
  <2> SUFFICES ASSUME x \notin A, NEW i \in DOMAIN q, q[i] \in A \cap V,
                      \A j \in DOMAIN q : i < j => q[j] \notin A
               PROVE  Latest(p, A, V)  BY DEF Latest
  <2>1. i \in DOMAIN p /\ p[i] \in A \cap V  BY <1>1, <1>3
  <2>2. \A j \in DOMAIN p : i < j => p[j] \notin A  BY <1>1, <1>2
  <2> QED BY <2>1, <2>2 DEF Latest
<1>6. Silent(p, A) <=> x \notin A /\ Silent(q, A)  BY <1>1, <1>2, <1>3 DEF Silent
<1> QED BY <1>4, <1>5, <1>6 DEF p

\* A message comes in: it sets the value as it should be, or does not set it.
LEMMA SettlesRight ==
  ASSUME NEW S, NEW a, NEW b \in Seq(S), NEW m \in S, NEW A, NEW V, m \in A \cap V, NEW x, NEW y
  PROVE  Settles(a, Append(b, m), A, V, x, y)
BY LatestAppend DEF Settles

LEMMA SettlesOther ==
  ASSUME NEW S, NEW a, NEW b \in Seq(S), NEW m \in S, NEW A, NEW V, m \notin A, NEW x, NEW y,
         Settles(a, b, A, V, x, y)
  PROVE  Settles(a, Append(b, m), A, V, x, y)
BY LatestAppend DEF Settles

\* The first message is read: it is kept for its caller, or it does not count, or it is
\* followed by one that does, or it has set the value.
LEMMA SettlesMove ==
  ASSUME NEW S, NEW a \in Seq(S), NEW b \in Seq(S), b # <<>>, NEW A, NEW V, NEW x, NEW y,
         Settles(a, b, A, V, x, y)
  PROVE  Settles(Append(a, Head(b)), Tail(b), A, V, x, y)
<1>1. Head(b) \in S  BY TailFacts
<1> QED BY <1>1, LatestTail, LatestAppend DEF Settles

LEMMA SettlesDrop ==
  ASSUME NEW S, NEW a \in Seq(S), NEW b \in Seq(S), b # <<>>, NEW A, NEW V, NEW x, NEW y,
         Settles(a, b, A, V, x, y), Head(b) \notin A
  PROVE  Settles(a, Tail(b), A, V, x, y)
BY LatestTail DEF Settles

LEMMA SettlesLater ==
  ASSUME NEW S, NEW a \in Seq(S), NEW b \in Seq(S), b # <<>>, NEW A, NEW V, NEW x, NEW y, NEW z,
         Settles(a, b, A, V, x, y), NEW m \in Items(Tail(b)), m \in A
  PROVE  Settles(a, Tail(b), A, V, z, y)
<1>1. ~Silent(b, A)
  <2>1. ~Silent(Tail(b), A)  BY DEF Items, Silent
  <2> QED BY <2>1, LatestTail
<1>2. Latest(b, A, V)  BY <1>1 DEF Settles
<1> QED BY <1>2, LatestTail DEF Settles

LEMMA SettlesSet ==
  ASSUME NEW S, NEW a \in Seq(S), NEW b \in Seq(S), b # <<>>, NEW A, NEW V, NEW x, NEW y, NEW z,
         Settles(a, b, A, V, x, y), Head(b) \in A, Silent(a, A), Head(b) \in V => z = y
  PROVE  Settles(a, Tail(b), A, V, z, y)
<1>1. Latest(b, A, V)  BY LatestTail DEF Settles
<1> QED BY <1>1, LatestTail DEF Settles

\* The first caller is resumed: it does not set the value, or it does.
LEMMA SettlesResumed ==
  ASSUME NEW S, NEW a \in Seq(S), NEW b, a # <<>>, NEW A, NEW V, NEW x, NEW y, NEW z,
         Settles(a, b, A, V, x, y),
         IF Head(a) \in A THEN Head(a) \in V => z = y ELSE z = x
  PROVE  Settles(Tail(a), b, A, V, z, y)
BY LatestTail DEF Settles

\* What counts is told of the messages under way.
LEMMA SettlesSame ==
  ASSUME NEW a, NEW b, NEW A, NEW V, NEW B, NEW W, NEW x, NEW y, NEW u, NEW v,
         \A m \in Items(a) \cup Items(b) : /\ m \in A <=> m \in B
                                           /\ m \in A \cap V => m \in W,
         x = y => u = v,
         Settles(a, b, A, V, x, y)
  PROVE  Settles(a, b, B, W, u, v)
<1>1. \A q \in {a, b} : /\ Latest(q, A, V) => Latest(q, B, W)
                        /\ Silent(q, A) => Silent(q, B)
  <2> SUFFICES ASSUME NEW q \in {a, b}
               PROVE  (Latest(q, A, V) => Latest(q, B, W)) /\ (Silent(q, A) => Silent(q, B))
    OBVIOUS
  <2>1. \A i \in DOMAIN q : /\ q[i] \in A <=> q[i] \in B
                            /\ q[i] \in A \cap V => q[i] \in W
    BY DEF Items
  <2> QED BY <2>1 DEF Latest, Silent
<1> QED BY <1>1 DEF Settles

LEMMA SettledEmpty ==
  ASSUME NEW A, NEW V, NEW x, NEW y, Settles(<<>>, <<>>, A, V, x, y)
  PROVE  x = y
BY DEF Settles, Latest

-----------------------------------------------------------------------------
(* Types *)

LEMMA AskedFacts ==
  ASSUME NEW c \in Asked
  PROVE  /\ DOMAIN c \subseteq Fields \ {"system_prompt"}
         /\ \A f \in DOMAIN c : c[f] \in Values /\ (f \in Clearable \/ c[f] # Null)
<1>1. CASE c \in Changes  BY <1>1, SettingsAssumption
<1>2. CASE c = NoChange  BY <1>2 DEF NoChange
<1>3. CASE \E v \in Values \ {Null} : c = Restriction(v)
  BY <1>3 DEF Restriction, Fields
<1> QED BY <1>1, <1>2, <1>3 DEF Asked

LEMMA AskedSome ==
  /\ Changes \subseteq Asked /\ NoChange \in Asked
  /\ \A v \in Values \ {Null} : Restriction(v) \in Asked
  /\ \A op : Operation(op) \notin Changes
  /\ DOMAIN NoChange = {}
<1>1. \A op : Operation(op) \notin Changes
  <2> SUFFICES ASSUME NEW op, Operation(op) \in Changes PROVE FALSE  OBVIOUS
  <2>1. "operation" \in DOMAIN Operation(op)  BY DEF Operation
  <2>2. "operation" \in Fields  BY <2>1, SettingsAssumption
  <2> QED BY <2>2 DEF Fields
<1>2. DOMAIN NoChange = {}  BY DEF NoChange
<1> QED BY <1>1, <1>2 DEF Asked

\* A change that is asked for is applied alike by both sides.
LEMMA MergedFacts ==
  ASSUME NEW s \in Settings, NEW c \in Asked
  PROVE  /\ Merged(s, c) = Applied(s, c) /\ Merged(s, c) \in Settings
         /\ \A f \in Fields : Merged(s, c)[f] = IF f \in DOMAIN c THEN c[f] ELSE s[f]
BY AskedFacts DEF Merged, Applied, Settings

LEMMA MessageTypes ==
  ASSUME NEW r \in Outgoing, NEW s \in Settings, NEW c \in Asked
  PROVE  /\ Answer(r, s) \in Incoming /\ Refusal(r) \in Incoming /\ Update(c) \in Incoming
         /\ Unknown \in Settings
<1>1. Unknown \in Settings  BY DEF Unknown, Settings, Values
<1>2. 0 \in 0..MaxChanges  BY SettingsAssumption
<1>3. r.from \in Updaters \cup {Session} /\ r.id \in 0..MaxChanges  BY DEF Outgoing
<1>4. (r.method = "operation") \in BOOLEAN  OBVIOUS
<1>5. Update(c) \in Incoming  BY <1>1, <1>2 DEF Update, Incoming
<1>6. Answer(r, s) \in Incoming  BY <1>3, <1>4, AskedSome DEF Answer, Incoming
<1>7. Refusal(r) \in Incoming  BY <1>1, <1>3, <1>4, AskedSome DEF Refusal, Incoming
<1> QED BY <1>1, <1>5, <1>6, <1>7

\* What a process that takes a request sends.
LEMMA TakenFacts ==
  ASSUME SettingsTypeOK, DroidTakes
  PROVE  /\ requests # <<>> /\ Head(requests) \in Outgoing /\ requests' = Tail(requests)
         /\ UNCHANGED <<copyVars, callVars, chunk, ready, changes, untrue>>
         /\ droid' \in Settings
         /\ \/ /\ Head(requests).method = "update" /\ droid' = Applied(droid, Head(requests).change)
               /\ LET m == Answer(Head(requests), droid') u == Update(Head(requests).change) IN
                    /\ m \in Incoming /\ u \in Incoming
                    /\ replies' \in {Append(replies, m), Append(Append(replies, m), u),
                                     Append(Append(replies, u), m)}
            \/ /\ Head(requests).method # "update" /\ Answer(Head(requests), droid') \in Incoming
               /\ replies' = Append(replies, Answer(Head(requests), droid'))
               /\ \/ Head(requests).method = "operation" /\ droid' = droid
                  \/ DroidOpens(Head(requests))
            \/ /\ replies' = Append(replies, Refusal(Head(requests))) /\ droid' = droid
               /\ Refusal(Head(requests)) \in Incoming
<1> DEFINE r == Head(requests)
<1>1. /\ requests # <<>> /\ requests' = Tail(requests)
      /\ UNCHANGED <<copyVars, callVars, chunk, ready, changes, untrue>>
      /\ DroidUpdates(r) \/ DroidOperates(r) \/ DroidOpens(r) \/ DroidRefuses(r)
  BY DEF DroidTakes
<1>2. r \in Outgoing  BY <1>1, TailFacts DEF SettingsTypeOK
<1> HIDE DEF r
<1>3. r.change \in Asked  BY <1>2 DEF Outgoing
<1>4. replies \in Seq(Incoming) /\ droid \in Settings /\ restrict \in Values  BY DEF SettingsTypeOK
<1>5. CASE DroidUpdates(r)
  <2>1. r.method = "update" /\ droid' = Applied(droid, r.change)  BY <1>5 DEF DroidUpdates
  <2>2. droid' \in Settings  BY <2>1, <1>3, <1>4, MergedFacts
  <2> DEFINE m == Answer(r, droid')
             u == Update(r.change)
  <2>3. m \in Incoming /\ u \in Incoming  BY <2>2, <1>2, <1>3, MessageTypes
  <2>4. \/ replies' = replies \o <<m>> \/ replies' = replies \o <<m, u>>
        \/ replies' = replies \o <<u, m>>
    BY <1>5 DEF DroidUpdates
  <2> HIDE DEF m, u
  <2>5. replies' \in {Append(replies, m), Append(Append(replies, m), u), Append(Append(replies, u), m)}
    BY <2>3, <2>4, <1>4, AppendTwo
  <2> QED BY <2>1, <2>2, <2>3, <2>5, <1>1, <1>2 DEF m, u, r
<1>6. CASE DroidOperates(r)
  <2>1. r.method = "operation" /\ droid' = droid /\ replies' = Append(replies, Answer(r, droid'))
    BY <1>6 DEF DroidOperates
  <2> QED BY <2>1, <1>1, <1>2, <1>3, <1>4, MessageTypes DEF r
<1>7. CASE DroidOpens(r)
  <2>1. r.method \notin {"update", "operation"} /\ replies' = Append(replies, Answer(r, droid'))
    BY <1>7 DEF DroidOpens
  <2>2. droid' \in Settings
    <3>1. \E v \in Values : droid' \in {droid, [droid EXCEPT !["restrict_tools"] = v]}
      BY <1>4, <1>7 DEF DroidOpens, Values, Null
    <3> QED BY <3>1, <1>4 DEF Settings
  <2> QED BY <2>1, <2>2, <1>1, <1>2, <1>3, <1>7, MessageTypes DEF r
<1>8. CASE DroidRefuses(r)
  <2>1. replies' = Append(replies, Refusal(r)) /\ droid' = droid  BY <1>8 DEF DroidRefuses
  <2> QED BY <2>1, <1>1, <1>2, <1>3, <1>4, MessageTypes DEF r
<1> QED BY <1>1, <1>5, <1>6, <1>7, <1>8

\* A task calls; the session asks; a task is done with its call.
LEMMA CalledFacts ==
  ASSUME SettingsTypeOK, NEW t \in Updaters, NEW what \in Changes \cup {Operation(op) : op \in Ops},
         NEW method \in {"update", "operation"}, NEW c \in Asked,
         Called(t, what), Sends(t, method, c)
  PROVE  /\ phase = "open" /\ call[t] = 0 /\ changes' = changes + 1 /\ changes' \in 0..MaxChanges
         /\ wants' = [wants EXCEPT ![t] = what] /\ call' = [call EXCEPT ![t] = changes']
         /\ wants'[t] = what /\ call'[t] = changes'
         /\ \A u \in Updaters \ {t} : wants'[u] = wants[u] /\ call'[u] = call[u]
         /\ wants' \in [Updaters -> Changes \cup {Operation(op) : op \in Ops} \cup {NoChange}]
         /\ call' \in [Updaters -> 0..MaxChanges]
         /\ \E r \in Outgoing : /\ r.from = t /\ r.id = changes' /\ r.method = method /\ r.change = c
                                /\ requests' = Append(requests, r)
<1>1. /\ phase = "open" /\ call[t] = 0 /\ changes < MaxChanges /\ changes' = changes + 1
      /\ wants' = [wants EXCEPT ![t] = what] /\ call' = [call EXCEPT ![t] = changes']
  BY DEF Called
<1>2. changes \in Nat /\ MaxChanges \in Nat /\ changes' \in 0..MaxChanges
  BY <1>1, SettingsAssumption DEF SettingsTypeOK
<1>3. /\ wants \in [Updaters -> Changes \cup {Operation(op) : op \in Ops} \cup {NoChange}]
      /\ call \in [Updaters -> 0..MaxChanges]
  BY DEF SettingsTypeOK
<1> DEFINE r == [from |-> t, id |-> changes', method |-> method, change |-> c]
<1>4. r \in Outgoing  BY <1>2 DEF Outgoing
<1>5. t # Session  BY SettingsAssumption
<1>6. requests' = Append(requests, r)  BY <1>5 DEF Sends
<1>7. r.from = t /\ r.id = changes' /\ r.method = method /\ r.change = c  OBVIOUS
<1> HIDE DEF r
<1> QED BY <1>1, <1>2, <1>3, <1>4, <1>6, <1>7

LEMMA AskFacts ==
  ASSUME NEW method \in {"update", "fork", "load"} \cup Opening, NEW c \in Asked,
         Sends(Session, method, c)
  PROVE  \E r \in Outgoing : /\ r.from = Session /\ r.method = method /\ r.change = c
                             /\ requests' = Append(requests, r)
<1> DEFINE r == [from |-> Session, id |-> 0, method |-> method, change |-> c]
<1>1. r \in Outgoing  BY SettingsAssumption DEF Outgoing
<1>2. requests' = Append(requests, r)  BY DEF Sends
<1>3. r.from = Session /\ r.method = method /\ r.change = c  OBVIOUS
<1> QED BY <1>1, <1>2, <1>3

LEMMA EndsFacts ==
  ASSUME SettingsTypeOK, NEW t \in Updaters, Ends(t)
  PROVE  /\ wants'[t] = NoChange /\ call'[t] = 0
         /\ \A u \in Updaters \ {t} : wants'[u] = wants[u] /\ call'[u] = call[u]
         /\ wants' \in [Updaters -> Changes \cup {Operation(op) : op \in Ops} \cup {NoChange}]
         /\ call' \in [Updaters -> 0..MaxChanges]
<1>1. /\ wants \in [Updaters -> Changes \cup {Operation(op) : op \in Ops} \cup {NoChange}]
      /\ call \in [Updaters -> 0..MaxChanges]
  BY DEF SettingsTypeOK
<1>2. wants' = [wants EXCEPT ![t] = NoChange] /\ call' = [call EXCEPT ![t] = 0]  BY DEF Ends
<1>3. 0 \in 0..MaxChanges  BY SettingsAssumption
<1> QED BY <1>1, <1>2, <1>3

\* What the session, or a task that is answered, does.
LEMMA ResumeFacts ==
  ASSUME SettingsTypeOK, Resume
  PROVE  /\ ready # <<>> /\ Head(ready) \in Incoming /\ ready' = Tail(ready)
         /\ UNCHANGED <<droid, replies, chunk, changes>>
         /\ \/ ~Waited(Head(ready)) /\ UNCHANGED <<copyVars, callVars, requests, untrue>>
            \/ Head(ready).from = Session /\ SessionAnswered(Head(ready))
            \/ /\ Head(ready).from \in Updaters /\ call[Head(ready).from] = Head(ready).id
               /\ UpdateAnswered(Head(ready).from, Head(ready))
<1>1. /\ ready # <<>> /\ ready' = Tail(ready) /\ UNCHANGED <<droid, replies, chunk, changes>>
      /\ LET m == Head(ready) IN
         \/ ~Waited(m) /\ UNCHANGED <<copyVars, callVars, requests, untrue>>
         \/ m.from = Session /\ SessionAnswered(m)
         \/ m.from # Session /\ Waited(m) /\ UpdateAnswered(m.from, m)
  BY DEF Resume
<1>2. Head(ready) \in Incoming  BY <1>1, TailFacts DEF SettingsTypeOK
<1>3. Head(ready).from \in Updaters \cup {Session}  BY <1>2 DEF Incoming
<1> QED BY <1>1, <1>2, <1>3 DEF Waited

LEMMA ReadFacts ==
  ASSUME SettingsTypeOK, ReadSettings
  PROVE  /\ chunk > 0 /\ replies # <<>> /\ Head(replies) \in Incoming /\ replies' = Tail(replies)
         /\ chunk' = chunk - 1
         /\ UNCHANGED <<phase, restrict, loaded, callVars, droid, requests, changes>>
         /\ \/ ~Replies(Head(replies)) /\ Listened(Head(replies).change)
            \/ /\ Replies(Head(replies)) /\ UNCHANGED <<settings, untrue>>
               /\ IF Waited(Head(replies)) THEN ready' = Append(ready, Head(replies)) ELSE ready' = ready
<1>1. /\ chunk > 0 /\ replies' = Tail(replies) /\ chunk' = chunk - 1
      /\ UNCHANGED <<phase, restrict, loaded, callVars, droid, requests, changes>>
      /\ LET m == Head(replies) IN
           IF m.kind = "settings_updated" THEN Listened(m.change)
           ELSE /\ ready' = IF Waited(m) THEN Append(ready, m) ELSE ready
                /\ UNCHANGED <<settings, untrue>>
  BY DEF ReadSettings
<1>2. replies # <<>>
  <2>1. replies \in Seq(Incoming) /\ chunk \in 0..Len(replies)  BY DEF SettingsTypeOK
  <2>2. Len(replies) # 0  BY <2>1, <1>1, LenProperties
  <2> QED BY <2>2, EmptySeq
<1>3. Head(replies) \in Incoming  BY <1>2, TailFacts DEF SettingsTypeOK
<1> QED BY <1>1, <1>2, <1>3 DEF Replies

\* The session's own request, and what it does with the answer.
Asking(method, c) ==
  \E r \in Outgoing : /\ r.from = Session /\ r.method = method /\ r.change = c
                      /\ requests' = Append(requests, r)
SessionOutcome(m) ==
  \/ /\ m.kind = "error" /\ UNCHANGED <<settings, loaded, untrue>>
     /\ \/ phase' = "load_back" /\ Asking("load", NoChange)
        \/ phase = "fork" /\ phase' = "open" /\ UNCHANGED requests
        \/ phase' = "closed" /\ UNCHANGED requests
  \/ /\ m.kind = "answer" /\ UNCHANGED <<settings, loaded, untrue>>
     /\ phase' = "load" /\ Asking("load", NoChange)
  \/ /\ m.kind = "answer" /\ UNCHANGED <<loaded, untrue, requests>>
     /\ phase \in Opening \/ (phase \in {"load", "load_back"} /\ restrict = Null)
     /\ phase' = "open" /\ settings' = m.now
  \/ /\ m.kind = "answer" /\ UNCHANGED <<settings, untrue>>
     /\ phase \in {"load", "load_back"} /\ restrict # Null
     /\ phase' \in Restricting /\ loaded' = m.now /\ Asking("update", Restriction(restrict))
  \/ /\ m.kind = "answer" /\ UNCHANGED <<loaded, requests>>
     /\ phase \in Restricting /\ phase' = "open" /\ settings' = loaded
     /\ \/ loaded["restrict_tools"] = restrict /\ untrue' = untrue
        \/ untrue' = untrue \cup {"snapshot"}

LEMMA SessionFacts ==
  ASSUME SettingsTypeOK, NEW m \in Incoming, SessionAnswered(m)
  PROVE  UNCHANGED <<callVars, restrict>> /\ SessionOutcome(m)
<1>1. UNCHANGED callVars  BY DEF SessionAnswered
<1>2. CASE m.kind = "error" /\ SessionFails
  <2>1. UNCHANGED <<settings, restrict, loaded, untrue>>  BY <1>2 DEF SessionFails
  <2>2. CASE phase \in {"load", "restrict"}
    <3>1. phase' = "load_back" /\ Sends(Session, "load", NoChange)  BY <1>2, <2>2 DEF SessionFails
    <3>2. Asking("load", NoChange)  BY <3>1, AskFacts, AskedSome DEF Asking
    <3> QED BY <1>1, <1>2, <2>1, <3>1, <3>2 DEF SessionOutcome
  <2>3. CASE phase \notin {"load", "restrict"}
    <3>1. phase' = (IF phase = "fork" THEN "open" ELSE "closed") /\ UNCHANGED requests
      BY <1>2, <2>3 DEF SessionFails
    <3> QED BY <1>1, <1>2, <2>1, <3>1 DEF SessionOutcome
  <2> QED BY <2>2, <2>3
<1>3. CASE m.kind = "answer" /\ phase \in Opening /\ Shows(m.now) /\ UNCHANGED untrue
  BY <1>1, <1>3 DEF Shows, SessionOutcome
<1>4. CASE m.kind = "answer" /\ ForkMade
  <2>1. Asking("load", NoChange)  BY <1>4, AskFacts, AskedSome DEF Asking, ForkMade
  <2> QED BY <1>1, <1>4, <2>1 DEF ForkMade, SessionOutcome
<1>5. CASE m.kind = "answer" /\ Loads(m.now)
  <2>1. CASE restrict = Null  BY <1>1, <1>5, <2>1 DEF Loads, Shows, SessionOutcome
  <2>2. CASE restrict # Null
    <3>1. /\ phase' \in Restricting /\ loaded' = m.now /\ phase \in {"load", "load_back"}
          /\ Sends(Session, "update", Restriction(restrict))
          /\ UNCHANGED <<settings, restrict, untrue>>
      BY <1>5, <2>2 DEF Loads, Restricting
    <3>2. Restriction(restrict) \in Asked  BY <2>2, AskedSome DEF SettingsTypeOK
    <3>3. Asking("update", Restriction(restrict))  BY <3>1, <3>2, AskFacts DEF Asking
    <3> QED BY <1>1, <1>5, <2>2, <3>1, <3>3 DEF SessionOutcome
  <2> QED BY <2>1, <2>2
<1>6. CASE m.kind = "answer" /\ Restricted
  BY <1>1, <1>6 DEF Restricted, Shows, SessionOutcome
<1> QED BY <1>2, <1>3, <1>4, <1>5, <1>6 DEF SessionAnswered

\* What a task does with its answer.
LEMMA UpdateFacts ==
  ASSUME SettingsTypeOK, NEW t \in Updaters, NEW m \in Incoming, UpdateAnswered(t, m)
  PROVE  /\ Ends(t) /\ UNCHANGED <<phase, loaded, requests, untrue>>
         /\ settings' \in Settings /\ restrict' \in Values
         /\ \/ /\ m.kind = "answer" /\ wants[t] \in Changes
               /\ \A f \in Fields \ {"system_prompt"} :
                    settings'[f] = IF f \in DOMAIN wants[t] THEN wants[t][f] ELSE settings[f]
               /\ restrict' = IF "restrict_tools" \in DOMAIN wants[t]
                              THEN wants[t]["restrict_tools"] ELSE restrict
               /\ "restrict_tools" \in DOMAIN wants[t] => restrict' # Null
            \/ /\ ~(m.kind = "answer" /\ wants[t] \in Changes)
               /\ UNCHANGED <<settings, restrict>>
<1>1. settings \in Settings /\ restrict \in Values  BY DEF SettingsTypeOK
<1>2. CASE m.kind = "answer" /\ wants[t] \in Changes
  <2>1. UpdateReturns(t) /\ Ends(t)  BY <1>2 DEF UpdateAnswered
  <2>2. wants[t] \in Asked  BY <1>2, AskedSome
  <2>3. /\ Merged(settings, wants[t]) \in Settings
        /\ \A f \in Fields : Merged(settings, wants[t])[f] =
             IF f \in DOMAIN wants[t] THEN wants[t][f] ELSE settings[f]
    BY <1>1, <2>2, MergedFacts
  <2>4. settings' = [Merged(settings, wants[t]) EXCEPT !["system_prompt"] = Null]
    BY <2>1 DEF UpdateReturns
  <2>5. settings' \in Settings /\ \A f \in Fields \ {"system_prompt"} :
          settings'[f] = Merged(settings, wants[t])[f]
    BY <2>3, <2>4 DEF Settings, Values
  <2>6. restrict' = IF "restrict_tools" \in DOMAIN wants[t] THEN wants[t]["restrict_tools"] ELSE restrict
    BY <2>1 DEF UpdateReturns, Remembers
  <2>7. "restrict_tools" \in DOMAIN wants[t] => restrict' \in Values /\ restrict' # Null
    BY <2>2, <2>6, AskedFacts DEF Clearable
  <2> QED BY <1>1, <1>2, <2>1, <2>3, <2>5, <2>6, <2>7 DEF UpdateReturns
<1>3. CASE ~(m.kind = "answer" /\ wants[t] \in Changes)
  BY <1>1, <1>3 DEF UpdateAnswered, copyVars
<1> QED BY <1>2, <1>3

LEMMA SettingsTypeInit == SettingsInit => SettingsTypeOK
<1> SUFFICES ASSUME SettingsInit PROVE SettingsTypeOK  OBVIOUS
<1>1. Unknown \in Settings /\ droid \in Settings /\ restrict \in Values
  BY DEF SettingsInit, Unknown, Settings, Values
<1>2. 0 \in 0..MaxChanges  BY SettingsAssumption
<1>3. <<>> \in Seq(Incoming) /\ <<>> \in Seq(Outgoing) /\ 0 \in 0..Len(<<>>)  OBVIOUS
<1> QED BY <1>1, <1>2, <1>3 DEF SettingsInit, SettingsTypeOK

LEMMA SettingsTypeStep == SettingsTypeOK /\ [SettingsNext]_settingsVars => SettingsTypeOK'
<1> SUFFICES ASSUME SettingsTypeOK, [SettingsNext]_settingsVars PROVE SettingsTypeOK'  OBVIOUS
<1> DEFINE Wanted == [Updaters -> Changes \cup {Operation(op) : op \in Ops} \cup {NoChange}]
<1>1. /\ phase \in {"lazy", "open", "closed"} \cup Opening \cup Replacing
      /\ settings \in Settings /\ loaded \in Settings /\ droid \in Settings /\ restrict \in Values
      /\ wants \in Wanted /\ call \in [Updaters -> 0..MaxChanges]
      /\ requests \in Seq(Outgoing) /\ replies \in Seq(Incoming) /\ ready \in Seq(Incoming)
      /\ chunk \in 0..Len(replies) /\ changes \in 0..MaxChanges
      /\ untrue \subseteq {"gave_up", "overtaken", "missed", "snapshot"}
  BY DEF SettingsTypeOK
<1>2. Len(replies) \in Nat  BY <1>1, LenProperties
<1> USE DEF copyVars, callVars
<1>3. \A r \in Outgoing : Append(requests, r) \in Seq(Outgoing)  BY <1>1, AppendFacts
<1>4. \A m \in Incoming : /\ Append(replies, m) \in Seq(Incoming) /\ chunk \in 0..Len(Append(replies, m))
                          /\ Append(ready, m) \in Seq(Incoming)
  BY <1>1, <1>2, AppendProperties
<1> HIDE DEF Wanted
<1>5. ASSUME NEW t \in Updaters, NEW c \in Changes, UpdateBegins(t, c) PROVE SettingsTypeOK'
  <2>1. Called(t, c) /\ Sends(t, "update", c)
        /\ UNCHANGED <<copyVars, droid, replies, chunk, ready, untrue>>  BY <1>5 DEF UpdateBegins
  <2>2. c \in Asked /\ c \in Changes \cup {Operation(op) : op \in Ops}  BY AskedSome
  <2>3. /\ changes' \in 0..MaxChanges /\ wants' \in Wanted /\ call' \in [Updaters -> 0..MaxChanges]
        /\ \E r \in Outgoing : requests' = Append(requests, r)
    BY <2>1, <2>2, CalledFacts DEF Wanted
  <2>4. requests' \in Seq(Outgoing)  BY <2>3, <1>3
  <2> QED BY <1>1, <2>1, <2>3, <2>4 DEF SettingsTypeOK, Wanted
<1>6. ASSUME NEW t \in Updaters, NEW op \in Ops, OperationBegins(t, op) PROVE SettingsTypeOK'
  <2>1. Called(t, Operation(op)) /\ Sends(t, "operation", NoChange)
        /\ UNCHANGED <<copyVars, droid, replies, chunk, ready, untrue>>  BY <1>6 DEF OperationBegins
  <2>2. NoChange \in Asked /\ Operation(op) \in Changes \cup {Operation(o) : o \in Ops}  BY AskedSome
  <2> HIDE DEF Operation, NoChange
  <2>3. /\ changes' \in 0..MaxChanges /\ wants' \in Wanted /\ call' \in [Updaters -> 0..MaxChanges]
        /\ \E r \in Outgoing : requests' = Append(requests, r)
    <3> DEFINE what == Operation(op)
    <3>1. Called(t, what) /\ what \in Changes \cup {Operation(o) : o \in Ops}  BY <2>1, <2>2
    <3> HIDE DEF what
    <3> QED BY <2>1, <2>2, <3>1, CalledFacts DEF Wanted
  <2>4. requests' \in Seq(Outgoing)  BY <2>3, <1>3
  <2> QED BY <1>1, <2>1, <2>3, <2>4 DEF SettingsTypeOK, Wanted
<1>7. ASSUME NEW t \in Updaters, UpdateGivenUp(t) PROVE SettingsTypeOK'
  <2>1. Ends(t) /\ UNCHANGED <<copyVars, droid, requests, replies, chunk, ready, changes>>
        /\ untrue' \subseteq untrue \cup {"gave_up"}  BY <1>7 DEF UpdateGivenUp
  <2>2. wants' \in Wanted /\ call' \in [Updaters -> 0..MaxChanges]  BY <2>1, EndsFacts DEF Wanted
  <2> QED BY <1>1, <2>1, <2>2 DEF SettingsTypeOK, Wanted
<1>8. ASSUME NEW method \in Opening, OpenBegins(method) PROVE SettingsTypeOK'
  <2>1. /\ phase' = method /\ restrict' \in {Null, restrict} /\ Sends(Session, method, NoChange)
        /\ UNCHANGED <<settings, loaded, callVars, droid, replies, chunk, ready, changes, untrue>>
    BY <1>8 DEF OpenBegins
  <2>2. requests' \in Seq(Outgoing)
    <3>1. method \in {"update", "fork", "load"} \cup Opening /\ NoChange \in Asked  BY AskedSome
    <3>2. \E r \in Outgoing : requests' = Append(requests, r)  BY <2>1, <3>1, AskFacts
    <3> QED BY <3>2, <1>3
  <2>3. restrict' \in Values  BY <2>1, <1>1 DEF Values, Null
  <2> QED BY <1>1, <2>1, <2>2, <2>3 DEF SettingsTypeOK, Wanted
<1>9. CASE ReplaceBegins
  <2>1. /\ phase' = "fork" /\ Sends(Session, "fork", NoChange)
        /\ changes < MaxChanges /\ changes' = changes + 1
        /\ UNCHANGED <<settings, restrict, loaded, callVars, droid, replies, chunk, ready, untrue>>
    BY <1>9 DEF ReplaceBegins
  <2>2. requests' \in Seq(Outgoing)  BY <2>1, <1>3, AskFacts, AskedSome
  <2>3. changes' \in 0..MaxChanges  BY <2>1, <1>1, SettingsAssumption
  <2> QED BY <1>1, <2>1, <2>2, <2>3 DEF SettingsTypeOK, Wanted, Replacing
<1>10. CASE ReadChunk
  <2>1. chunk' \in 0..Len(replies)  BY <1>10, <1>2 DEF ReadChunk
  <2> QED BY <1>1, <2>1, <1>10 DEF SettingsTypeOK, Wanted, ReadChunk
<1>11. CASE ReadSettings
  <2>1. /\ chunk > 0 /\ replies # <<>> /\ Head(replies) \in Incoming /\ replies' = Tail(replies)
        /\ chunk' = chunk - 1
        /\ UNCHANGED <<phase, restrict, loaded, callVars, droid, requests, changes>>
        /\ \/ ~Replies(Head(replies)) /\ Listened(Head(replies).change)
           \/ UNCHANGED <<settings, untrue>> /\ ready' \in {Append(ready, Head(replies)), ready}
    BY <1>11, ReadFacts
  <2>2. replies' \in Seq(Incoming) /\ chunk' \in 0..Len(replies')
    BY <1>1, <1>2, <2>1, HeadTailProperties
  <2>3. CASE Listened(Head(replies).change)
    <3>1. Head(replies).change \in Asked  BY <2>1 DEF Incoming
    <3>2. settings' \in Settings  BY <1>1, <2>3, <3>1, MergedFacts DEF Listened
    <3>3. untrue' \subseteq {"gave_up", "overtaken", "missed", "snapshot"} /\ ready' = ready
      BY <1>1, <2>3 DEF Listened, Behind
    <3> QED BY <1>1, <2>1, <2>2, <3>2, <3>3 DEF SettingsTypeOK, Wanted
  <2>4. CASE UNCHANGED <<settings, untrue>> /\ ready' \in {Append(ready, Head(replies)), ready}
    <3>1. ready' \in Seq(Incoming)  BY <1>1, <1>4, <2>1, <2>4
    <3> QED BY <1>1, <2>1, <2>2, <2>4, <3>1 DEF SettingsTypeOK, Wanted
  <2> QED BY <2>1, <2>3, <2>4
<1>12. CASE Resume
  <2> DEFINE m == Head(ready)
  <2>1. /\ m \in Incoming /\ ready' \in Seq(Incoming) /\ UNCHANGED <<droid, replies, chunk, changes>>
        /\ \/ UNCHANGED <<copyVars, callVars, requests, untrue>>
           \/ SessionAnswered(m)
           \/ m.from \in Updaters /\ UpdateAnswered(m.from, m)
    <3>1. ready # <<>> /\ ready' = Tail(ready)  BY <1>12, ResumeFacts
    <3>2. ready' \in Seq(Incoming)  BY <1>1, <3>1, TailFacts
    <3> QED BY <1>12, <3>2, ResumeFacts
  <2>2. m.now \in Settings  BY <2>1 DEF Incoming
  <2> HIDE DEF m
  <2>3. CASE UNCHANGED <<copyVars, callVars, requests, untrue>>
    BY <1>1, <2>1, <2>3 DEF SettingsTypeOK, Wanted
  <2>4. CASE SessionAnswered(m)
    <3>1. UNCHANGED <<callVars, restrict>> /\ SessionOutcome(m)  BY <2>1, <2>4, SessionFacts
    <3>2. requests' \in Seq(Outgoing)  BY <1>1, <1>3, <3>1 DEF SessionOutcome, Asking
    <3>3. settings' \in Settings /\ loaded' \in Settings
      BY <1>1, <2>2, <3>1 DEF SessionOutcome
    <3>4. phase' \in {"open", "closed"} \cup Replacing  BY <3>1 DEF SessionOutcome, Replacing
    <3>5. untrue' \subseteq {"gave_up", "overtaken", "missed", "snapshot"}
      BY <1>1, <3>1 DEF SessionOutcome
    <3> QED BY <1>1, <2>1, <3>1, <3>2, <3>3, <3>4, <3>5 DEF SettingsTypeOK, Wanted
  <2>5. CASE m.from \in Updaters /\ UpdateAnswered(m.from, m)
    <3>1. /\ Ends(m.from) /\ UNCHANGED <<phase, loaded, requests, untrue>>
          /\ settings' \in Settings /\ restrict' \in Values
      BY <2>1, <2>5, UpdateFacts
    <3>2. wants' \in Wanted /\ call' \in [Updaters -> 0..MaxChanges]
      BY <2>5, <3>1, EndsFacts DEF Wanted
    <3> QED BY <1>1, <2>1, <3>1, <3>2 DEF SettingsTypeOK, Wanted
  <2> QED BY <2>1, <2>3, <2>4, <2>5
<1>13. CASE DroidTakes
  <2>1. /\ requests' \in Seq(Outgoing) /\ droid' \in Settings
        /\ UNCHANGED <<copyVars, callVars, chunk, ready, changes, untrue>>
    <3>1. requests # <<>> /\ requests' = Tail(requests)  BY <1>13, TakenFacts
    <3>2. requests' \in Seq(Outgoing)  BY <1>1, <3>1, TailFacts
    <3> QED BY <1>13, <3>2, TakenFacts
  <2>2. \E m, u \in Incoming : replies' \in {Append(replies, m), Append(Append(replies, m), u)}
    BY <1>13, TakenFacts
  <2>3. replies' \in Seq(Incoming) /\ chunk' \in 0..Len(replies')
    <3>1. PICK m \in Incoming, u \in Incoming :
            replies' \in {Append(replies, m), Append(Append(replies, m), u)}
      BY <2>2
    <3>2. Append(replies, m) \in Seq(Incoming) /\ Len(Append(replies, m)) = Len(replies) + 1
      BY <1>1, AppendProperties
    <3>3. /\ Append(Append(replies, m), u) \in Seq(Incoming)
          /\ Len(Append(Append(replies, m), u)) = Len(replies) + 2
      BY <1>2, <3>2, AppendProperties
    <3>4. /\ chunk' = chunk /\ chunk \in 0..(Len(replies) + 1) /\ chunk \in 0..(Len(replies) + 2)
      BY <1>1, <1>2, <2>1
    <3>5. CASE replies' = Append(replies, m)  BY <3>2, <3>4, <3>5
    <3>6. CASE replies' = Append(Append(replies, m), u)  BY <3>3, <3>4, <3>6
    <3> QED BY <3>1, <3>5, <3>6
  <2> QED BY <1>1, <2>1, <2>3 DEF SettingsTypeOK, Wanted
<1>14. ASSUME NEW c \in Changes, DroidChanges(c) PROVE SettingsTypeOK'
  <2>1. /\ changes < MaxChanges /\ changes' = changes + 1 /\ droid' = Applied(droid, c)
        /\ replies' = Append(replies, Update(c))
        /\ UNCHANGED <<copyVars, callVars, requests, chunk, ready, untrue>>
    BY <1>14 DEF DroidChanges
  <2>2. c \in Asked  BY AskedSome
  <2>3. droid' \in Settings  BY <1>1, <2>1, <2>2, MergedFacts
  <2>4. Update(c) \in Incoming
    <3>1. Unknown \in Settings /\ 0 \in 0..MaxChanges
      BY SettingsAssumption DEF Unknown, Settings, Values
    <3> QED BY <2>2, <3>1 DEF Update, Incoming
  <2>5. changes' \in 0..MaxChanges  BY <1>1, <2>1, SettingsAssumption
  <2> QED BY <1>1, <1>4, <2>1, <2>3, <2>4, <2>5 DEF SettingsTypeOK, Wanted
<1>15. CASE UNCHANGED settingsVars
  BY <1>1, <1>15 DEF SettingsTypeOK, Wanted, settingsVars
<1> QED BY <1>5, <1>6, <1>7, <1>8, <1>9, <1>10, <1>11, <1>12, <1>13, <1>14, <1>15 DEF SettingsNext

-----------------------------------------------------------------------------
(* The calls that are under way *)

CallsInv == NumberInv /\ OrderInv /\ PhaseInv /\ WaitInv

LEMMA MessageFacts ==
  ASSUME SettingsTypeOK
  PROVE  /\ Items(ready) \subseteq Incoming /\ Items(replies) \subseteq Incoming
         /\ Messages \subseteq Incoming /\ Items(requests) \subseteq Outgoing
         /\ \A m \in Messages : Replies(m) => m \in Answering
         /\ \A m \in Messages \cup Items(requests) : m.from \in Updaters \/ m.from = Session
         /\ changes \in Nat /\ \A t \in Updaters : call[t] \in Nat
         /\ Session \notin Updaters
<1>1. /\ Items(ready) \subseteq Incoming /\ Items(replies) \subseteq Incoming
      /\ Items(requests) \subseteq Outgoing
  BY ItemTypes DEF SettingsTypeOK
<1>2. Messages \subseteq Incoming  BY <1>1 DEF Messages
<1>3. \A m \in Messages \cup Items(requests) : m.from \in Updaters \/ m.from = Session
  BY <1>1, <1>2 DEF Incoming, Outgoing
<1>4. changes \in Nat /\ \A t \in Updaters : call[t] \in Nat  BY DEF SettingsTypeOK
<1> QED BY <1>1, <1>2, <1>3, <1>4, SettingsAssumption DEF Answering

LEMMA CallsInit == SettingsInit => CallsInv
<1> SUFFICES ASSUME SettingsInit PROVE CallsInv  OBVIOUS
<1>1. /\ phase = "lazy" /\ changes = 0 /\ \A t \in Updaters : call[t] = 0
      /\ requests = <<>> /\ replies = <<>> /\ ready = <<>>
  BY DEF SettingsInit
<1>2. Items(ready) = {} /\ Items(requests) = {} /\ Messages = {}  BY <1>1, EmptyFacts DEF Messages
<1>3. NumberInv  BY <1>1, <1>2 DEF NumberInv
<1>4. OrderInv  BY <1>1, EmptyFacts DEF OrderInv, Ord, Chain
<1>5. PhaseInv
  BY <1>1, <1>2 DEF PhaseInv, Asks, SessionOnly, TasksOnly, Opening, Replacing, Restricting
<1>6. WaitInv  BY <1>2 DEF WaitInv
<1> QED BY <1>3, <1>4, <1>5, <1>6 DEF CallsInv

\* A task calls.
LEMMA CallsCalled ==
  ASSUME SettingsTypeOK, CallsInv, NEW t \in Updaters,
         NEW what \in Changes \cup {Operation(op) : op \in Ops},
         NEW method \in {"update", "operation"}, NEW c \in Asked,
         Called(t, what), Sends(t, method, c),
         IF method = "update" THEN what = c /\ c \in Changes ELSE what \notin Changes,
         UNCHANGED <<phase, restrict, replies, ready, untrue>>
  PROVE  CallsInv'
<1>1. PICK r \in Outgoing : /\ r.from = t /\ r.id = changes' /\ r.method = method /\ r.change = c
                            /\ requests' = Append(requests, r)
  BY CalledFacts
<1>2. /\ phase = "open" /\ call[t] = 0 /\ changes' = changes + 1
      /\ wants'[t] = what /\ call'[t] = changes'
      /\ \A u \in Updaters \ {t} : wants'[u] = wants[u] /\ call'[u] = call[u]
  BY CalledFacts
<1>3. Items(requests') = Items(requests) \cup {r}  BY <1>1, AppendFacts DEF SettingsTypeOK
<1>4. Messages' = Messages /\ Items(ready') = Items(ready)  BY DEF Messages
<1>5. TasksOnly  BY <1>2 DEF CallsInv, PhaseInv, Opening, Replacing, Restricting
<1>6. /\ \A m \in Messages : Replies(m) => m.from # Session /\ m.from \in Updaters /\ m.id \in 1..changes
      /\ \A s \in Items(requests) : s.from # Session /\ s.from \in Updaters /\ s.id \in 1..changes
      /\ \A m \in Messages : ToUpdater(m) => m.from \in Updaters /\ m.id \in 1..changes
  BY <1>5, MessageFacts DEF CallsInv, NumberInv, TasksOnly, ToSession, ToUpdater
<1>7. changes \in Nat /\ (\A n \in 1..changes : n < changes' /\ n \in 1..changes' /\ n # 0 /\ n # changes')
      /\ changes' \in 1..changes'
  BY <1>2, MessageFacts
<1>8. NumberInv'
  <2>1. \A u \in Updaters : call'[u] <= changes'
    BY <1>2, MessageFacts DEF CallsInv, NumberInv
  <2> QED BY <2>1, <1>1, <1>3, <1>4, <1>6, <1>7 DEF CallsInv, NumberInv
<1>9. OrderInv'
  <2>1. \A m \in Items(ready) \cup Items(replies) : m \in Answering => Before(m, r)
    BY <1>1, <1>6, <1>7 DEF Answering, Before, Messages
  <2>2. \A s \in Items(requests) : Before(s, r)  BY <1>1, <1>6, <1>7 DEF Before
  <2>3. Ord(ready, replies, Append(requests, r))
    BY <2>1, <2>2, OrdCalled DEF SettingsTypeOK, CallsInv, OrderInv
  <2> QED BY <2>3, <1>1 DEF OrderInv
<1>10. PhaseInv'
  <2>1. r.from # Session  BY <1>1, MessageFacts
  <2>2. Asks'
    <3>1. \A s \in Items(requests) : s.method \in {"update", "operation"}
      BY <1>6 DEF CallsInv, PhaseInv, Asks
    <3> QED BY <2>1, <3>1, <1>1, <1>3, <1>6 DEF Asks
  <2>3. TasksOnly'  BY <2>1, <1>3, <1>4, <1>5 DEF TasksOnly
  <2> QED BY <2>2, <2>3, <1>2 DEF PhaseInv, Opening, Replacing, Restricting
<1>11. WaitInv'
  <2>1. ~(\E m \in Messages : ToUpdater(m) /\ m.id = call'[m.from] /\ m.from = t)
    BY <1>2, <1>6, <1>7
  <2>2. ~(\E s \in Items(requests) : s.id = call'[s.from] /\ s.from = t)
    BY <1>2, <1>6, <1>7
  <2>3. "gave_up" \notin untrue =>
          /\ ~(\E m \in Messages : ToUpdater(m) /\ ~m.plain /\ m.from = t)
          /\ ~(\E s \in Items(requests) : s.method = "update" /\ s.from = t)
    BY <1>2, <1>6, <1>7 DEF CallsInv, WaitInv
  <2>4. \A s \in Items(requests') : s.from # Session =>
          /\ s.method = "operation" /\ s.id = call'[s.from] => wants'[s.from] \notin Changes
          /\ "gave_up" \notin untrue /\ s.method = "update" =>
               s.id = call'[s.from] /\ s.change = wants'[s.from] /\ s.change \in Changes
    <3> SUFFICES ASSUME NEW s \in Items(requests) \cup {r}, s.from # Session
                 PROVE  /\ s.method = "operation" /\ s.id = call'[s.from] => wants'[s.from] \notin Changes
                        /\ "gave_up" \notin untrue /\ s.method = "update" =>
                             s.id = call'[s.from] /\ s.change = wants'[s.from] /\ s.change \in Changes
      BY <1>3
    <3>1. CASE s = r  BY <3>1, <1>1, <1>2
    <3>2. CASE s \in Items(requests) /\ s.from = t  BY <3>2, <2>2, <2>3
    <3>3. CASE s \in Items(requests) /\ s.from # t
      <4>1. wants'[s.from] = wants[s.from] /\ call'[s.from] = call[s.from]  BY <3>3, <1>2, <1>6
      <4> QED BY <4>1, <3>3 DEF CallsInv, WaitInv
    <3> QED BY <3>1, <3>2, <3>3
  <2>5. \A m \in Messages : ToUpdater(m) =>
          /\ m.plain /\ m.id = call'[m.from] => wants'[m.from] \notin Changes
          /\ "gave_up" \notin untrue /\ ~m.plain => m.id = call'[m.from] /\ wants'[m.from] \in Changes
    <3> SUFFICES ASSUME NEW m \in Messages, ToUpdater(m)
                 PROVE  /\ m.plain /\ m.id = call'[m.from] => wants'[m.from] \notin Changes
                        /\ "gave_up" \notin untrue /\ ~m.plain =>
                             m.id = call'[m.from] /\ wants'[m.from] \in Changes
      OBVIOUS
    <3>1. CASE m.from = t  BY <3>1, <2>1, <2>3
    <3>2. CASE m.from # t
      <4>1. wants'[m.from] = wants[m.from] /\ call'[m.from] = call[m.from]  BY <3>2, <1>2, <1>6
      <4> QED BY <4>1 DEF CallsInv, WaitInv
    <3> QED BY <3>1, <3>2
  <2> QED BY <2>4, <2>5, <1>4 DEF WaitInv
<1> QED BY <1>8, <1>9, <1>10, <1>11 DEF CallsInv

\* A task gives up.
LEMMA CallsGivenUp ==
  ASSUME SettingsTypeOK, CallsInv, NEW t \in Updaters, UpdateGivenUp(t)
  PROVE  CallsInv'
<1>1. /\ call[t] # 0 /\ Ends(t) /\ UNCHANGED <<phase, restrict, requests, replies, ready, changes>>
      /\ untrue' = IF wants[t] \in Changes THEN untrue \cup {"gave_up"} ELSE untrue
  BY DEF UpdateGivenUp, copyVars
<1>2. /\ wants'[t] = NoChange /\ call'[t] = 0
      /\ \A u \in Updaters \ {t} : wants'[u] = wants[u] /\ call'[u] = call[u]
  BY <1>1, EndsFacts
<1>3. /\ Messages' = Messages /\ Items(requests') = Items(requests) /\ Items(ready') = Items(ready)
  BY <1>1 DEF Messages
<1>4. NumberInv'
  <2>1. \A u \in Updaters : call'[u] <= changes'  BY <1>1, <1>2, MessageFacts DEF CallsInv, NumberInv
  <2> QED BY <2>1, <1>1, <1>3 DEF CallsInv, NumberInv
<1>5. OrderInv' /\ PhaseInv'
  BY <1>1, <1>3 DEF CallsInv, OrderInv, PhaseInv, Asks, SessionOnly, TasksOnly
<1>6. WaitInv'
  <2>1. \A n \in 1..changes : n # 0  OBVIOUS
  <2>2. "gave_up" \notin untrue' => wants[t] \notin Changes /\ "gave_up" \notin untrue  BY <1>1
  <2>3. \A m \in Messages : ToUpdater(m) =>
          /\ m.plain /\ m.id = call'[m.from] => wants'[m.from] \notin Changes
          /\ "gave_up" \notin untrue' /\ ~m.plain => m.id = call'[m.from] /\ wants'[m.from] \in Changes
    <3> SUFFICES ASSUME NEW m \in Messages, ToUpdater(m)
                 PROVE  /\ m.plain /\ m.id = call'[m.from] => wants'[m.from] \notin Changes
                        /\ "gave_up" \notin untrue' /\ ~m.plain =>
                             m.id = call'[m.from] /\ wants'[m.from] \in Changes
      OBVIOUS
    <3>1. m.from \in Updaters /\ m.id \in 1..changes
      BY MessageFacts DEF CallsInv, NumberInv, ToUpdater
    <3>2. CASE m.from = t  BY <3>1, <3>2, <1>2, <2>1, <2>2 DEF CallsInv, WaitInv
    <3>3. CASE m.from # t
      <4>1. wants'[m.from] = wants[m.from] /\ call'[m.from] = call[m.from]  BY <3>1, <3>3, <1>2
      <4> QED BY <4>1, <2>2 DEF CallsInv, WaitInv
    <3> QED BY <3>2, <3>3
  <2>4. \A r \in Items(requests) : r.from # Session =>
          /\ r.method = "operation" /\ r.id = call'[r.from] => wants'[r.from] \notin Changes
          /\ "gave_up" \notin untrue' /\ r.method = "update" =>
               r.id = call'[r.from] /\ r.change = wants'[r.from] /\ r.change \in Changes
    <3> SUFFICES ASSUME NEW r \in Items(requests), r.from # Session
                 PROVE  /\ r.method = "operation" /\ r.id = call'[r.from] => wants'[r.from] \notin Changes
                        /\ "gave_up" \notin untrue' /\ r.method = "update" =>
                             r.id = call'[r.from] /\ r.change = wants'[r.from] /\ r.change \in Changes
      OBVIOUS
    <3>1. r.from \in Updaters /\ r.id \in 1..changes  BY MessageFacts DEF CallsInv, NumberInv
    <3>2. CASE r.from = t  BY <3>1, <3>2, <1>2, <2>1, <2>2 DEF CallsInv, WaitInv
    <3>3. CASE r.from # t
      <4>1. wants'[r.from] = wants[r.from] /\ call'[r.from] = call[r.from]  BY <3>1, <3>3, <1>2
      <4> QED BY <4>1, <2>2 DEF CallsInv, WaitInv
    <3> QED BY <3>2, <3>3
  <2> QED BY <1>3, <2>3, <2>4 DEF WaitInv
<1> QED BY <1>4, <1>5, <1>6 DEF CallsInv

\* The session asks, when nothing of its own is under way.
LEMMA CallsAsked ==
  ASSUME SettingsTypeOK, CallsInv, NEW r \in Outgoing, r.from = Session,
         requests' = Append(requests, r), TasksOnly,
         changes' \in Nat, changes' >= changes,
         UNCHANGED <<callVars, replies, ready, untrue>>
  PROVE  /\ NumberInv' /\ OrderInv' /\ WaitInv'
         /\ Messages' = Messages /\ Items(requests') = Items(requests) \cup {r}
<1>1. Items(requests') = Items(requests) \cup {r}  BY AppendFacts DEF SettingsTypeOK
<1>2. Messages' = Messages /\ Items(ready') = Items(ready)  BY DEF Messages
<1>3. NumberInv'
  <2>1. \A u \in Updaters : call'[u] <= changes'
    BY MessageFacts DEF CallsInv, NumberInv, callVars
  <2>2. \A n \in 1..changes : n \in 1..changes'  BY MessageFacts
  <2> QED BY <2>1, <2>2, <1>1, <1>2 DEF CallsInv, NumberInv
<1>4. OrderInv'
  <2>1. \A m \in Items(ready) \cup Items(replies) : m \in Answering => Before(m, r)
    BY DEF TasksOnly, Answering, ToSession, Messages, Before
  <2>2. \A s \in Items(requests) : Before(s, r)  BY DEF TasksOnly, Before
  <2>3. Ord(ready, replies, Append(requests, r))
    BY <2>1, <2>2, OrdCalled DEF SettingsTypeOK, CallsInv, OrderInv
  <2> QED BY <2>3 DEF OrderInv
<1>5. WaitInv'  BY <1>1, <1>2 DEF CallsInv, WaitInv, callVars
<1> QED BY <1>1, <1>2, <1>3, <1>4, <1>5

LEMMA CallsOpen ==
  ASSUME SettingsTypeOK, CallsInv, NEW method \in Opening, OpenBegins(method)
  PROVE  CallsInv' /\ ~Told'
<1>1. /\ phase = "lazy" /\ phase' = method /\ Sends(Session, method, NoChange)
      /\ method = "resume" => restrict' = Null
      /\ UNCHANGED <<callVars, replies, ready, changes, untrue>>
  BY DEF OpenBegins
<1>2. PICK r \in Outgoing : r.from = Session /\ r.method = method /\ requests' = Append(requests, r)
  BY <1>1, AskFacts, AskedSome
<1>3. TasksOnly /\ SessionOnly
  BY <1>1 DEF CallsInv, PhaseInv, Opening, Replacing, Restricting
<1>4. Items(requests) = {}  BY <1>3 DEF TasksOnly, SessionOnly
<1>5. /\ NumberInv' /\ OrderInv' /\ WaitInv'
      /\ Messages' = Messages /\ Items(requests') = Items(requests) \cup {r}
  BY <1>1, <1>2, <1>3, MessageFacts, CallsAsked
<1>6. PhaseInv'
  <2>1. Asks'  BY <1>1, <1>2, <1>4, <1>5 DEF Asks
  <2>2. SessionOnly'  BY <1>2, <1>3, <1>4, <1>5 DEF SessionOnly
  <2> QED BY <2>1, <2>2, <1>1 DEF PhaseInv, Opening, Replacing, Restricting
<1>7. ~Told'  BY <1>3, <1>5 DEF Told, TasksOnly
<1> QED BY <1>5, <1>6, <1>7 DEF CallsInv

LEMMA CallsReplace ==
  ASSUME SettingsTypeOK, CallsInv, ReplaceBegins
  PROVE  CallsInv' /\ TasksOnly /\ Messages' = Messages
<1>1. /\ phase = "open" /\ phase' = "fork" /\ Sends(Session, "fork", NoChange)
      /\ changes' = changes + 1 /\ UNCHANGED <<callVars, replies, ready, untrue, restrict>>
  BY DEF ReplaceBegins
<1>2. PICK r \in Outgoing : r.from = Session /\ r.method = "fork" /\ requests' = Append(requests, r)
  BY <1>1, AskFacts, AskedSome
<1>3. TasksOnly  BY <1>1 DEF CallsInv, PhaseInv, Opening, Replacing, Restricting
<1>4. /\ NumberInv' /\ OrderInv' /\ WaitInv'
      /\ Messages' = Messages /\ Items(requests') = Items(requests) \cup {r}
  BY <1>1, <1>2, <1>3, MessageFacts, CallsAsked
<1>5. Asks'  BY <1>1, <1>2, <1>3, <1>4 DEF Asks, TasksOnly, CallsInv, PhaseInv
<1>6. PhaseInv'  BY <1>1, <1>5 DEF PhaseInv, Opening, Replacing, Restricting
<1> QED BY <1>3, <1>4, <1>6 DEF CallsInv

\* A message is read.
LEMMA CallsFewer ==
  ASSUME CallsInv, Messages' \subseteq Messages, \A m \in Items(ready') : Replies(m),
         UNCHANGED <<phase, restrict, callVars, requests, changes>>, untrue \subseteq untrue', OrderInv'
  PROVE  CallsInv' /\ (Told' => Told)
<1>1. NumberInv'  BY DEF CallsInv, NumberInv, callVars
<1>2. PhaseInv'  BY DEF CallsInv, PhaseInv, Asks, SessionOnly, TasksOnly
<1>3. WaitInv'  BY DEF CallsInv, WaitInv, callVars
<1>4. Told' => Told  BY DEF Told
<1> QED BY <1>1, <1>2, <1>3, <1>4 DEF CallsInv

LEMMA CallsRead ==
  ASSUME SettingsTypeOK, CallsInv, ReadSettings
  PROVE  CallsInv' /\ (Told' => Told) /\ Messages' \subseteq Messages
<1> DEFINE m == Head(replies)
<1>1. /\ replies # <<>> /\ m \in Incoming /\ replies' = Tail(replies)
      /\ UNCHANGED <<phase, restrict, callVars, requests, changes>>
      /\ \/ ~Replies(m) /\ Listened(m.change)
         \/ /\ Replies(m) /\ UNCHANGED untrue
            /\ ready' = Append(ready, m) \/ ready' = ready
  BY ReadFacts DEF callVars
<1>2. Items(replies) = {m} \cup Items(replies')  BY <1>1, TailFacts DEF SettingsTypeOK
<1>3. Ord(ready, replies', requests)  BY <1>1, OrdDropped DEF SettingsTypeOK, CallsInv, OrderInv
<1>4. Replies(m) => Ord(Append(ready, m), replies', requests)
  BY <1>1, OrdRead DEF SettingsTypeOK, CallsInv, OrderInv
<1>5. Items(Append(ready, m)) = Items(ready) \cup {m}  BY <1>1, AppendFacts DEF SettingsTypeOK
<1> HIDE DEF m
<1>6. /\ untrue \subseteq untrue' /\ OrderInv' /\ Messages' \subseteq Messages
      /\ \A n \in Items(ready') : Replies(n)
  <2>1. CASE Listened(m.change)
    <3>1. ready' = ready /\ untrue \subseteq untrue'  BY <2>1 DEF Listened
    <3> QED BY <3>1, <1>1, <1>2, <1>3 DEF OrderInv, Messages, CallsInv, NumberInv
  <2>2. CASE Replies(m) /\ UNCHANGED untrue /\ ready' = Append(ready, m)
    BY <2>2, <1>1, <1>2, <1>4, <1>5 DEF OrderInv, Messages, CallsInv, NumberInv
  <2>3. CASE Replies(m) /\ UNCHANGED untrue /\ ready' = ready
    BY <2>3, <1>1, <1>2, <1>3 DEF OrderInv, Messages, CallsInv, NumberInv
  <2> QED BY <1>1, <2>1, <2>2, <2>3
<1> QED BY <1>1, <1>6, CallsFewer

\* A caller is resumed: its call was the first one made of those under way.
LEMMA FirstFacts ==
  ASSUME SettingsTypeOK, CallsInv, ready # <<>>
  PROVE  LET m == Head(ready) IN
         /\ m \in Incoming /\ m \in Messages /\ Replies(m)
         /\ m.from \in Updaters \/ m.from = Session
         /\ Ord(Tail(ready), replies, requests)
         /\ Items(ready) = {m} \cup Items(Tail(ready))
         /\ \A y \in Items(Tail(ready)) \cup Items(replies) : Replies(y) => Before(m, y)
         /\ \A y \in Items(requests) : Before(m, y)
<1>1. /\ Head(ready) \in Incoming /\ Items(ready) = {Head(ready)} \cup Items(Tail(ready))
  BY TailFacts DEF SettingsTypeOK
<1>2. Head(ready) \in Items(ready)  BY <1>1
<1>3. Replies(Head(ready))  BY <1>2 DEF CallsInv, NumberInv
<1>4. Head(ready) \in Messages  BY <1>2 DEF Messages
<1>5. \A y \in Items(Tail(ready)) \cup Items(replies) : Replies(y) => y \in Answering
  BY <1>1, MessageFacts DEF Messages
<1> QED BY <1>1, <1>3, <1>4, <1>5, MessageFacts, OrdResumed DEF SettingsTypeOK, CallsInv, OrderInv

\* An answer that nobody waits for.
LEMMA StaleFacts ==
  ASSUME SettingsTypeOK, CallsInv, NEW m \in Messages, Replies(m), ~Waited(m)
  PROVE  /\ m.from # Session /\ m.from \in Updaters
         /\ "gave_up" \notin untrue => m.plain
<1>1. m.from # Session /\ call[m.from] # m.id  BY DEF Waited
<1>2. ToUpdater(m)  BY <1>1 DEF ToUpdater
<1> QED BY <1>1, <1>2, MessageFacts DEF CallsInv, WaitInv

LEMMA CallsStale ==
  ASSUME SettingsTypeOK, CallsInv, ready # <<>>, ready' = Tail(ready),
         UNCHANGED <<phase, restrict, callVars, requests, replies, changes, untrue>>
  PROVE  CallsInv' /\ (Told' => Told) /\ Messages' \subseteq Messages
<1>1. Ord(ready', replies', requests') /\ Items(ready') \subseteq Items(ready)  BY FirstFacts
<1>2. Messages' \subseteq Messages  BY <1>1 DEF Messages
<1>3. \A m \in Items(ready') : Replies(m)  BY <1>1 DEF CallsInv, NumberInv
<1> QED BY <1>1, <1>2, <1>3, CallsFewer DEF OrderInv

\* A task is resumed: no other answer to an update of its own is under way.
LEMMA CallsAnswered ==
  ASSUME SettingsTypeOK, CallsInv, ready # <<>>, ready' = Tail(ready),
         NEW t \in Updaters, t = Head(ready).from, call[t] = Head(ready).id,
         UpdateAnswered(t, Head(ready)), UNCHANGED <<replies, changes>>
  PROVE  /\ CallsInv' /\ (Told' => Told)
         /\ phase \notin {"lazy", "load", "load_back"} \cup Opening \cup Restricting
         /\ wants[t] \in Changes => ~Head(ready).plain
         /\ "gave_up" \notin untrue /\ wants[t] \notin Changes => Head(ready).plain
         /\ "gave_up" \notin untrue =>
              \A y \in Items(ready') \cup Items(replies) : ToUpdater(y) /\ ~y.plain => y.from # t
<1> DEFINE m == Head(ready)
<1>1. /\ m \in Incoming /\ m \in Messages /\ Replies(m) /\ Ord(ready', replies, requests)
      /\ Items(ready) = {m} \cup Items(ready')
      /\ \A y \in Items(ready') \cup Items(replies) : Replies(y) => Before(m, y)
      /\ \A y \in Items(requests) : Before(m, y)
  BY FirstFacts
<1>2. m.from = t /\ m.id = call[t] /\ t # Session /\ ToUpdater(m) /\ m.id \in 1..changes
  BY <1>1, MessageFacts DEF ToUpdater, CallsInv, NumberInv
<1>3. UpdateAnswered(t, m)  OBVIOUS
<1> HIDE DEF m
<1>4. Ends(t) /\ UNCHANGED <<phase, loaded, requests, untrue>>  BY <1>1, <1>3, UpdateFacts
<1>5. /\ wants'[t] = NoChange /\ call'[t] = 0
      /\ \A u \in Updaters \ {t} : wants'[u] = wants[u] /\ call'[u] = call[u]
  BY <1>4, EndsFacts
<1>6. phase \notin {"lazy", "load", "load_back"} \cup Opening \cup Restricting
  BY <1>1, <1>2 DEF CallsInv, PhaseInv, SessionOnly
<1>7. \A y \in Items(ready') \cup Items(replies) \cup Items(requests) :
        y \in Items(requests) \/ Replies(y) => (y.from = t => y.id # call[t])
  <2> SUFFICES ASSUME NEW y \in Items(ready') \cup Items(replies) \cup Items(requests),
                      y \in Items(requests) \/ Replies(y), y.from = t
               PROVE  y.id # call[t]
    OBVIOUS
  <2>1. m.id < y.id  BY <1>1, <1>2 DEF Before
  <2> QED BY <2>1, <1>2, MessageFacts
<1>8. Messages' = Items(ready') \cup Items(replies) /\ Messages' \subseteq Messages
      /\ Items(requests') = Items(requests)
  BY <1>1, <1>4 DEF Messages
<1>9. "gave_up" \notin untrue =>
        /\ \A y \in Messages' : ToUpdater(y) /\ ~y.plain => y.from # t
        /\ \A r \in Items(requests) : r.from # Session /\ r.method = "update" => r.from # t
  BY <1>7, <1>8 DEF CallsInv, WaitInv, ToUpdater
<1>10. NumberInv'
  <2>1. \A u \in Updaters : call'[u] <= changes'  BY <1>5, MessageFacts DEF CallsInv, NumberInv
  <2>2. \A y \in Items(ready') : Replies(y)  BY <1>1 DEF CallsInv, NumberInv
  <2> QED BY <2>1, <2>2, <1>8 DEF CallsInv, NumberInv
<1>11. OrderInv'  BY <1>1, <1>4 DEF OrderInv
<1>12. PhaseInv'
  BY <1>4, <1>6, <1>8 DEF CallsInv, PhaseInv, Asks, SessionOnly, TasksOnly, Opening, Restricting
<1>13. WaitInv'
  <2>1. \A n \in 1..changes : n # 0  OBVIOUS
  <2>2. \A y \in Messages' : ToUpdater(y) =>
          /\ y.plain /\ y.id = call'[y.from] => wants'[y.from] \notin Changes
          /\ "gave_up" \notin untrue /\ ~y.plain => y.id = call'[y.from] /\ wants'[y.from] \in Changes
    <3> SUFFICES ASSUME NEW y \in Messages', ToUpdater(y)
                 PROVE  /\ y.plain /\ y.id = call'[y.from] => wants'[y.from] \notin Changes
                        /\ "gave_up" \notin untrue /\ ~y.plain =>
                             y.id = call'[y.from] /\ wants'[y.from] \in Changes
      OBVIOUS
    <3>1. y \in Messages /\ y.from \in Updaters /\ y.id \in 1..changes
      BY <1>8, MessageFacts DEF CallsInv, NumberInv, ToUpdater
    <3>2. CASE y.from = t  BY <3>1, <3>2, <1>5, <1>9, <2>1
    <3>3. CASE y.from # t
      <4>1. wants'[y.from] = wants[y.from] /\ call'[y.from] = call[y.from]  BY <3>1, <3>3, <1>5
      <4> QED BY <4>1, <3>1 DEF CallsInv, WaitInv
    <3> QED BY <3>2, <3>3
  <2>3. \A r \in Items(requests) : r.from # Session =>
          /\ r.method = "operation" /\ r.id = call'[r.from] => wants'[r.from] \notin Changes
          /\ "gave_up" \notin untrue /\ r.method = "update" =>
               r.id = call'[r.from] /\ r.change = wants'[r.from] /\ r.change \in Changes
    <3> SUFFICES ASSUME NEW r \in Items(requests), r.from # Session
                 PROVE  /\ r.method = "operation" /\ r.id = call'[r.from] => wants'[r.from] \notin Changes
                        /\ "gave_up" \notin untrue /\ r.method = "update" =>
                             r.id = call'[r.from] /\ r.change = wants'[r.from] /\ r.change \in Changes
      OBVIOUS
    <3>1. r.from \in Updaters /\ r.id \in 1..changes  BY MessageFacts DEF CallsInv, NumberInv
    <3>2. CASE r.from = t  BY <3>1, <3>2, <1>5, <1>9, <2>1
    <3>3. CASE r.from # t
      <4>1. wants'[r.from] = wants[r.from] /\ call'[r.from] = call[r.from]  BY <3>1, <3>3, <1>5
      <4> QED BY <4>1 DEF CallsInv, WaitInv
    <3> QED BY <3>2, <3>3
  <2> QED BY <2>2, <2>3, <1>4, <1>8 DEF WaitInv
<1>14. /\ wants[t] \in Changes => ~m.plain
       /\ "gave_up" \notin untrue /\ wants[t] \notin Changes => m.plain
  BY <1>1, <1>2 DEF CallsInv, WaitInv
<1>15. Told' => Told  BY <1>8 DEF Told
<1> QED BY <1>6, <1>8, <1>9, <1>10, <1>11, <1>12, <1>13, <1>14, <1>15 DEF CallsInv, m

\* The session is resumed: nothing but changes that were announced is under way.
LEMMA CallsSession ==
  ASSUME SettingsTypeOK, CallsInv, ready # <<>>, ready' = Tail(ready),
         Head(ready).from = Session, SessionAnswered(Head(ready)), UNCHANGED <<replies, changes>>
  PROVE  /\ CallsInv' /\ ~Told'
         /\ phase \in Opening \cup Replacing
         /\ Items(ready') = {} /\ \A y \in Items(replies) : ~Replies(y)
<1> DEFINE m == Head(ready)
<1>1. /\ m \in Incoming /\ m \in Messages /\ Replies(m) /\ Ord(ready', replies, requests)
      /\ Items(ready) = {m} \cup Items(ready')
      /\ \A y \in Items(ready') \cup Items(replies) : Replies(y) => Before(m, y)
      /\ \A y \in Items(requests) : Before(m, y)
  BY FirstFacts
<1>2. m.from = Session /\ SessionAnswered(m)  OBVIOUS
<1> HIDE DEF m
<1>3. UNCHANGED <<callVars, restrict>> /\ SessionOutcome(m)  BY <1>1, <1>2, SessionFacts
<1>4. phase \in Opening \cup Replacing  BY <1>1, <1>2 DEF CallsInv, PhaseInv, TasksOnly, ToSession
<1>5. /\ \A y \in Items(ready') : Replies(y)
      /\ Items(ready') = {} /\ Items(requests) = {} /\ \A y \in Items(replies) : ~Replies(y)
  <2>1. \A y \in Items(ready') : Replies(y)  BY <1>1 DEF CallsInv, NumberInv
  <2>2. \A y : ~Before(m, y)  BY <1>2 DEF Before
  <2> QED BY <2>1, <2>2, <1>1
<1>6. \A y \in Messages' : ~Replies(y)  BY <1>5 DEF Messages
<1>7. ~Told'  BY <1>6 DEF Told, ToSession
<1>8. \/ requests' = requests /\ Items(requests') = {}
      \/ \E r \in Outgoing : /\ r.from = Session /\ requests' = Append(requests, r)
                             /\ Items(requests') = {r}
                             /\ \/ phase' \in {"load", "load_back"} /\ r.method = "load"
                                \/ /\ phase' \in Restricting /\ r.method = "update" /\ restrict # Null
                                   /\ r.change = Restriction(restrict)
  <2>1. \A r \in Outgoing : Items(Append(requests, r)) = {r}
    BY <1>5, AppendFacts DEF SettingsTypeOK
  <2>2. CASE requests' = requests  BY <2>2, <1>5
  <2>3. CASE phase' \in {"load", "load_back"} /\ Asking("load", NoChange)
    BY <2>1, <2>3 DEF Asking
  <2>4. CASE phase' \in Restricting /\ restrict # Null /\ Asking("update", Restriction(restrict))
    BY <2>1, <2>4 DEF Asking
  <2> QED BY <1>3, <2>2, <2>3, <2>4 DEF SessionOutcome
<1>9. phase' \in {"open", "closed", "load", "load_back"} \cup Restricting
      /\ (phase' \in Restricting => requests' # requests)
      /\ (requests' # requests => phase' \in {"load", "load_back"} \cup Restricting)
  <2>1. \A r \in Outgoing : Append(requests, r) # requests
    BY <1>5, AppendFacts DEF SettingsTypeOK
  <2> QED BY <1>3, <2>1 DEF SessionOutcome, Asking, Restricting
<1>10. NumberInv'
  <2>1. \A r \in Items(requests') : r.from = Session  BY <1>8
  <2> QED BY <2>1, <1>3, <1>5, <1>6 DEF NumberInv, CallsInv, callVars, ToUpdater, ToSession
<1>11. OrderInv'
  <2>1. CASE requests' = requests  BY <1>1, <2>1 DEF OrderInv
  <2>2. CASE \E r \in Outgoing : requests' = Append(requests, r)
    <3>1. PICK r \in Outgoing : requests' = Append(requests, r)  BY <2>2
    <3>2. ready' \in Seq(Incoming)  BY TailFacts DEF SettingsTypeOK
    <3>3. \A y \in Items(ready') \cup Items(replies) : y \notin Answering
      BY <1>5 DEF Answering
    <3>4. Ord(ready', replies, Append(requests, r))
      BY <1>1, <1>5, <3>2, <3>3, OrdCalled DEF SettingsTypeOK
    <3> QED BY <3>1, <3>4 DEF OrderInv
  <2> QED BY <1>8, <2>1, <2>2
<1>12. PhaseInv'
  <2>1. Asks'  BY <1>3, <1>8 DEF Asks
  <2>2. SessionOnly'  BY <1>6, <1>8 DEF SessionOnly, ToUpdater
  <2>3. phase' \notin Opening \cup Replacing => TasksOnly'
    BY <1>6, <1>8, <1>9 DEF TasksOnly, ToSession, Replacing
  <2>4. phase' \in Restricting => restrict' # Null
    BY <1>3, <1>8, <1>9 DEF Restricting
  <2>5. phase' # "resume"  BY <1>9 DEF Restricting
  <2> QED BY <2>1, <2>2, <2>3, <2>4, <2>5 DEF PhaseInv
<1>13. WaitInv'
  <2>1. \A r \in Items(requests') : r.from = Session  BY <1>8
  <2> QED BY <2>1, <1>6 DEF WaitInv, ToUpdater
<1> QED BY <1>4, <1>5, <1>7, <1>10, <1>11, <1>12, <1>13 DEF CallsInv

\* The process takes a request, whatever it does.
LEMMA CallsReplied ==
  ASSUME SettingsTypeOK, CallsInv, requests # <<>>, requests' = Tail(requests),
         NEW x \in Incoming, x.from = Head(requests).from, x.id = Head(requests).id, Replies(x),
         x.plain = (Head(requests).method = "operation"),
         NEW u, ~Replies(u),
         Items(replies') \subseteq Items(replies) \cup {x, u},
         Ord(ready, replies', Tail(requests)),
         UNCHANGED <<phase, restrict, callVars, ready, changes, untrue>>
  PROVE  CallsInv'
<1> DEFINE r == Head(requests)
<1>1. /\ r \in Items(requests) /\ Items(requests') \subseteq Items(requests)
  BY TailFacts DEF SettingsTypeOK
<1>2. x.from = r.from /\ x.id = r.id /\ x.plain = (r.method = "operation")  OBVIOUS
<1> HIDE DEF r
<1>3. Messages' \subseteq Messages \cup {x, u} /\ Items(ready') = Items(ready)  BY DEF Messages
<1>4. ~ToUpdater(u) /\ ~ToSession(u)  BY DEF ToUpdater, ToSession
<1>5. ToUpdater(x) <=> r.from # Session  BY <1>2 DEF ToUpdater
<1>6. ToSession(x) <=> r.from = Session  BY <1>2 DEF ToSession
<1>7. NumberInv'
  <2>1. ToSession(x) => ~x.plain  BY <1>1, <1>2, <1>6 DEF CallsInv, PhaseInv, Asks, Opening
  <2>2. ToUpdater(x) => x.id \in 1..changes  BY <1>1, <1>2, <1>5 DEF CallsInv, NumberInv
  <2> QED BY <2>1, <2>2, <1>1, <1>3, <1>4 DEF CallsInv, NumberInv, callVars
<1>8. OrderInv'  BY DEF OrderInv
<1>9. PhaseInv'
  <2>1. SessionOnly => SessionOnly'  BY <1>1, <1>3, <1>4, <1>5 DEF SessionOnly
  <2>2. TasksOnly => TasksOnly'  BY <1>1, <1>3, <1>4, <1>6 DEF TasksOnly
  <2>3. Asks'  BY <1>1 DEF CallsInv, PhaseInv, Asks
  <2> QED BY <2>1, <2>2, <2>3 DEF CallsInv, PhaseInv
<1>10. WaitInv'
  <2>1. ToUpdater(x) /\ x.plain /\ x.id = call[x.from] => wants[x.from] \notin Changes
    BY <1>1, <1>2, <1>5 DEF CallsInv, WaitInv
  <2>2. "gave_up" \notin untrue /\ ToUpdater(x) /\ ~x.plain =>
          x.id = call[x.from] /\ wants[x.from] \in Changes
    <3> SUFFICES ASSUME "gave_up" \notin untrue, ToUpdater(x), ~x.plain
                 PROVE  x.id = call[x.from] /\ wants[x.from] \in Changes
      OBVIOUS
    <3>1. r.from # Session /\ r.method = "update"
      BY <1>1, <1>2, <1>5 DEF CallsInv, PhaseInv, Asks
    <3> QED BY <3>1, <1>1, <1>2 DEF CallsInv, WaitInv
  <2> QED BY <2>1, <2>2, <1>1, <1>3, <1>4 DEF CallsInv, WaitInv, callVars
<1> QED BY <1>7, <1>8, <1>9, <1>10 DEF CallsInv

LEMMA CallsTaken ==
  ASSUME SettingsTypeOK, CallsInv, DroidTakes
  PROVE  CallsInv'
<1> DEFINE r == Head(requests)
           u == Update(r.change)
<1>1. /\ requests # <<>> /\ r \in Outgoing /\ requests' = Tail(requests)
      /\ UNCHANGED <<phase, restrict, callVars, ready, changes, untrue>>
  BY TakenFacts DEF copyVars
<1>2. \E x \in Incoming :
        /\ x.from = r.from /\ x.id = r.id /\ Replies(x) /\ x.plain = (r.method = "operation")
        /\ \/ replies' = Append(replies, x)
           \/ u \in Incoming /\ replies' = Append(Append(replies, x), u)
           \/ u \in Incoming /\ replies' = Append(Append(replies, u), x)
  <2>1. /\ Answer(r, droid').from = r.from /\ Answer(r, droid').id = r.id
        /\ Replies(Answer(r, droid')) /\ Answer(r, droid').plain = (r.method = "operation")
    BY DEF Answer, Replies
  <2>2. /\ Refusal(r).from = r.from /\ Refusal(r).id = r.id
        /\ Replies(Refusal(r)) /\ Refusal(r).plain = (r.method = "operation")
    BY DEF Refusal, Replies
  <2>3. \/ Answer(r, droid') \in Incoming /\ replies' = Append(replies, Answer(r, droid'))
        \/ /\ Answer(r, droid') \in Incoming /\ u \in Incoming
           /\ \/ replies' = Append(Append(replies, Answer(r, droid')), u)
              \/ replies' = Append(Append(replies, u), Answer(r, droid'))
        \/ Refusal(r) \in Incoming /\ replies' = Append(replies, Refusal(r))
    BY TakenFacts
  <2> HIDE DEF r, u
  <2> QED BY <2>1, <2>2, <2>3
<1>3. ~Replies(u)  BY DEF Update, Replies
<1> HIDE DEF u
<1>4. PICK x \in Incoming :
        /\ x.from = r.from /\ x.id = r.id /\ Replies(x) /\ x.plain = (r.method = "operation")
        /\ \/ replies' = Append(replies, x)
           \/ u \in Incoming /\ replies' = Append(Append(replies, x), u)
           \/ u \in Incoming /\ replies' = Append(Append(replies, u), x)
  BY <1>2
<1>5. /\ ready \in Seq(Incoming) /\ replies \in Seq(Incoming) /\ requests \in Seq(Outgoing)
      /\ Tail(requests) \in Seq(Outgoing) /\ Ord(ready, replies, requests)
  BY <1>1, TailFacts DEF SettingsTypeOK, CallsInv, OrderInv
<1>6. /\ Append(replies, x) \in Seq(Incoming) /\ Items(Append(replies, x)) = Items(replies) \cup {x}
      /\ Ord(ready, Append(replies, x), Tail(requests))
  BY <1>1, <1>4, <1>5, AppendFacts, OrdTaken
<1>7. Ord(ready, replies', Tail(requests)) /\ Items(replies') \subseteq Items(replies) \cup {x, u}
  <2>1. CASE replies' = Append(replies, x)  BY <2>1, <1>6
  <2>2. CASE u \in Incoming /\ replies' = Append(Append(replies, x), u)
    <3>1. Items(Append(Append(replies, x), u)) = Items(Append(replies, x)) \cup {u}
      <4> DEFINE p == Append(replies, x)
      <4>1. p \in Seq(Incoming) /\ u \in Incoming  BY <2>2, <1>6
      <4> HIDE DEF p
      <4>2. Items(Append(p, u)) = Items(p) \cup {u}  BY <4>1, AppendFacts
      <4> QED BY <4>2 DEF p
    <3>2. Ord(ready, Append(Append(replies, x), u), Tail(requests))
      BY <2>2, <1>3, <1>5, <1>6, OrdTold
    <3> QED BY <3>1, <3>2, <2>2, <1>6
  <2>3. CASE u \in Incoming /\ replies' = Append(Append(replies, u), x)
    <3>1. /\ Append(replies, u) \in Seq(Incoming)
          /\ Items(Append(replies, u)) = Items(replies) \cup {u}
          /\ Ord(ready, Append(replies, u), requests)
      BY <2>3, <1>3, <1>5, AppendFacts, OrdTold
    <3>2. Items(Append(Append(replies, u), x)) = Items(Append(replies, u)) \cup {x}
      <4> DEFINE p == Append(replies, u)
      <4>1. p \in Seq(Incoming)  BY <3>1
      <4> HIDE DEF p
      <4>2. Items(Append(p, x)) = Items(p) \cup {x}  BY <4>1, AppendFacts
      <4> QED BY <4>2 DEF p
    <3>3. Ord(ready, Append(Append(replies, u), x), Tail(requests))
      BY <3>1, <1>1, <1>4, <1>5, OrdTaken
    <3> QED BY <3>1, <3>2, <3>3, <2>3
  <2> QED BY <1>4, <2>1, <2>2, <2>3
<1> QED BY <1>1, <1>3, <1>4, <1>7, CallsReplied

\* The process changes a setting by itself.
LEMMA CallsTold ==
  ASSUME SettingsTypeOK, CallsInv, NEW c \in Changes, DroidChanges(c)
  PROVE  CallsInv' /\ (Told' <=> Told) /\ Update(c) \in Incoming /\ droid' = Applied(droid, c)
<1> DEFINE u == Update(c)
<1>1. /\ changes' = changes + 1 /\ droid' = Applied(droid, c) /\ replies' = Append(replies, u)
      /\ UNCHANGED <<copyVars, callVars, requests, chunk, ready, untrue>>
  BY DEF DroidChanges
<1>2. u \in Incoming
  <2>1. Unknown \in Settings /\ 0 \in 0..MaxChanges
    BY SettingsAssumption DEF Unknown, Settings, Values
  <2> QED BY <2>1, AskedSome DEF Update, Incoming
<1>3. ~Replies(u)  BY DEF Update, Replies
<1> HIDE DEF u
<1>4. Ord(ready, replies', requests) /\ Items(replies') = Items(replies) \cup {u}
  BY <1>1, <1>2, <1>3, AppendFacts, OrdTold DEF SettingsTypeOK, CallsInv, OrderInv
<1>5. Messages' = Messages \cup {u} /\ Items(ready') = Items(ready)  BY <1>1, <1>4 DEF Messages
<1>6. ~ToUpdater(u) /\ ~ToSession(u)  BY <1>3 DEF ToUpdater, ToSession
<1>7. NumberInv'
  <2>1. \A t \in Updaters : call'[t] <= changes'
    BY <1>1, MessageFacts DEF CallsInv, NumberInv, callVars
  <2>2. \A n \in 1..changes : n \in 1..changes'  BY <1>1, MessageFacts
  <2> QED BY <2>1, <2>2, <1>1, <1>5, <1>6 DEF CallsInv, NumberInv
<1>8. OrderInv'  BY <1>1, <1>4 DEF OrderInv
<1>9. PhaseInv'
  BY <1>1, <1>5, <1>6 DEF CallsInv, PhaseInv, Asks, SessionOnly, TasksOnly, copyVars
<1>10. WaitInv'  BY <1>1, <1>5, <1>6 DEF CallsInv, WaitInv, callVars
<1>11. Told' <=> Told  BY <1>5, <1>6 DEF Told
<1> QED BY <1>1, <1>2, <1>7, <1>8, <1>9, <1>10, <1>11 DEF CallsInv, u

LEMMA CallsStep == SettingsTypeOK /\ CallsInv /\ [SettingsNext]_settingsVars => CallsInv'
<1> SUFFICES ASSUME SettingsTypeOK, CallsInv, [SettingsNext]_settingsVars PROVE CallsInv'  OBVIOUS
<1>1. ASSUME NEW t \in Updaters, NEW c \in Changes, UpdateBegins(t, c) PROVE CallsInv'
  <2>1. Called(t, c) /\ Sends(t, "update", c) /\ UNCHANGED <<phase, restrict, replies, ready, untrue>>
    BY <1>1 DEF UpdateBegins, copyVars
  <2>2. c \in Asked /\ c \in Changes \cup {Operation(op) : op \in Ops}  BY AskedSome
  <2> QED BY <2>1, <2>2, CallsCalled
<1>2. ASSUME NEW t \in Updaters, NEW op \in Ops, OperationBegins(t, op) PROVE CallsInv'
  <2> DEFINE what == Operation(op)
  <2>1. /\ Called(t, what) /\ Sends(t, "operation", NoChange)
        /\ UNCHANGED <<phase, restrict, replies, ready, untrue>>
    BY <1>2 DEF OperationBegins, copyVars
  <2>2. /\ NoChange \in Asked /\ what \in Changes \cup {Operation(o) : o \in Ops}
        /\ what \notin Changes
    BY AskedSome
  <2> HIDE DEF what
  <2> QED BY <2>1, <2>2, CallsCalled
<1>3. ASSUME NEW t \in Updaters, UpdateGivenUp(t) PROVE CallsInv'  BY <1>3, CallsGivenUp
<1>4. ASSUME NEW method \in Opening, OpenBegins(method) PROVE CallsInv'  BY <1>4, CallsOpen
<1>5. CASE ReplaceBegins  BY <1>5, CallsReplace
<1>6. CASE ReadChunk
  BY <1>6 DEF ReadChunk, copyVars, callVars, CallsInv, NumberInv, OrderInv, PhaseInv, WaitInv, Asks,
              SessionOnly, TasksOnly, Messages
<1>7. CASE ReadSettings  BY <1>7, CallsRead
<1>8. CASE Resume
  <2>1. /\ ready # <<>> /\ ready' = Tail(ready) /\ UNCHANGED <<replies, changes>>
        /\ \/ UNCHANGED <<copyVars, callVars, requests, untrue>>
           \/ Head(ready).from = Session /\ SessionAnswered(Head(ready))
           \/ /\ Head(ready).from \in Updaters /\ call[Head(ready).from] = Head(ready).id
              /\ UpdateAnswered(Head(ready).from, Head(ready))
    BY <1>8, ResumeFacts
  <2>2. CASE UNCHANGED <<copyVars, callVars, requests, untrue>>
    BY <2>1, <2>2, CallsStale DEF copyVars
  <2>3. CASE Head(ready).from = Session /\ SessionAnswered(Head(ready))
    BY <2>1, <2>3, CallsSession
  <2>4. CASE /\ Head(ready).from \in Updaters /\ call[Head(ready).from] = Head(ready).id
             /\ UpdateAnswered(Head(ready).from, Head(ready))
    BY <2>1, <2>4, CallsAnswered
  <2> QED BY <2>1, <2>2, <2>3, <2>4
<1>9. CASE DroidTakes  BY <1>9, CallsTaken
<1>10. ASSUME NEW c \in Changes, DroidChanges(c) PROVE CallsInv'  BY <1>10, CallsTold
<1>11. CASE UNCHANGED settingsVars
  BY <1>11 DEF settingsVars, copyVars, callVars, CallsInv, NumberInv, OrderInv, PhaseInv, WaitInv, Asks,
               SessionOnly, TasksOnly, Messages
<1> QED BY <1>1, <1>2, <1>3, <1>4, <1>5, <1>6, <1>7, <1>8, <1>9, <1>10, <1>11 DEF SettingsNext

-----------------------------------------------------------------------------
(* The copy of the settings *)

\* A message counts as before when its caller wants what it wanted.
LEMMA AffectsSame ==
  ASSUME NEW f, NEW m \in Messages, UNCHANGED phase, phase \in Restricting => UNCHANGED restrict,
         ToUpdater(m) /\ ~m.plain => wants'[m.from] = wants[m.from]
  PROVE  /\ Affects(m, f) <=> Affects(m, f)'
         /\ Affects(m, f) => Value(m, f)' = Value(m, f)
<1>1. m.kind = "answer" => Replies(m)  BY DEF Replies
<1> QED BY <1>1 DEF Affects, Value, ToUpdater, Replies

\* Which task's call begins or ends does not change what its messages will do.
LEMMA WantsCalled ==
  ASSUME SettingsTypeOK, CallsInv, NEW t \in Updaters, call[t] = 0,
         \A u \in Updaters \ {t} : wants'[u] = wants[u]
  PROVE  "gave_up" \notin untrue =>
           \A m \in Messages : ToUpdater(m) /\ ~m.plain => wants'[m.from] = wants[m.from]
<1> SUFFICES ASSUME "gave_up" \notin untrue, NEW m \in Messages, ToUpdater(m), ~m.plain
             PROVE  wants'[m.from] = wants[m.from]
  OBVIOUS
<1>1. m.from \in Updaters /\ m.id \in 1..changes /\ m.id = call[m.from]
  BY MessageFacts DEF CallsInv, NumberInv, WaitInv, ToUpdater
<1>2. m.id # 0  BY <1>1
<1> QED BY <1>1, <1>2

LEMMA WantsGivenUp ==
  ASSUME SettingsTypeOK, CallsInv, NEW t \in Updaters, UpdateGivenUp(t)
  PROVE  "gave_up" \notin untrue' =>
           \A m \in Messages : ToUpdater(m) /\ ~m.plain => wants'[m.from] = wants[m.from]
<1> SUFFICES ASSUME "gave_up" \notin untrue', NEW m \in Messages, ToUpdater(m), ~m.plain
             PROVE  wants'[m.from] = wants[m.from]
  OBVIOUS
<1>1. /\ Ends(t) /\ "gave_up" \notin untrue /\ wants[t] \notin Changes
  BY DEF UpdateGivenUp
<1>2. m.from \in Updaters /\ wants[m.from] \in Changes
  BY <1>1, MessageFacts DEF CallsInv, WaitInv, ToUpdater
<1> QED BY <1>1, <1>2, EndsFacts

LEMMA SettledWants ==
  ASSUME SettledInv, UNCHANGED <<phase, settings, restrict, loaded, droid, replies, ready>>,
         untrue \subseteq untrue',
         "gave_up" \notin untrue' =>
           \A m \in Messages : ToUpdater(m) /\ ~m.plain => wants'[m.from] = wants[m.from]
  PROVE  SettledInv'
<1> SUFFICES ASSUME Showing', NEW f \in Fields \ {"system_prompt"} PROVE SettledAt(f)'
  BY DEF SettledInv
<1>1. Messages' = Messages /\ (Told' <=> Told)  BY DEF Messages, Told
<1>2. Showing /\ "gave_up" \notin untrue'  BY <1>1 DEF Showing
<1>3. SettledAt(f)  BY <1>2 DEF SettledInv
<1>4. \A m \in Messages : /\ Affects(m, f) <=> Affects(m, f)'
                          /\ Affects(m, f) => Value(m, f)' = Value(m, f)
  BY <1>2, AffectsSame
<1>5. \A m \in Items(ready) \cup Items(replies) :
        /\ m \in Setting(f) <=> m \in Setting(f)'
        /\ m \in Setting(f) \cap Right(f) => m \in Right(f)'
  BY <1>4 DEF Setting, Right, Messages
<1>6. Copy' = Copy  BY DEF Copy
<1>7. Settles(ready, replies, Setting(f)', Right(f)', Copy[f], droid[f])
  BY <1>3, <1>5, SettlesSame DEF SettledAt
<1> QED BY <1>6, <1>7 DEF SettledAt

LEMMA SettledOpen ==
  ASSUME SettingsTypeOK, CallsInv, NEW method \in Opening, OpenBegins(method)
  PROVE  SettledInv'
<1>1. phase' \in Opening /\ ~Told'  BY CallsOpen DEF OpenBegins
<1> QED BY <1>1 DEF SettledInv, Showing, Opening, Restricting

LEMMA SettledReplace ==
  ASSUME SettingsTypeOK, CallsInv, SettledInv, ReplaceBegins
  PROVE  SettledInv'
<1> SUFFICES ASSUME Showing', NEW f \in Fields \ {"system_prompt"} PROVE SettledAt(f)'
  BY DEF SettledInv
<1>1. /\ phase = "open" /\ phase' = "fork" /\ TasksOnly /\ Messages' = Messages
      /\ UNCHANGED <<settings, restrict, loaded, callVars, droid, replies, ready, untrue>>
  BY CallsReplace DEF ReplaceBegins
<1>2. Showing  BY <1>1 DEF Showing
<1>3. SettledAt(f)  BY <1>2 DEF SettledInv
<1>4. \A m \in Messages : m.kind = "answer" => m.from # Session
  BY <1>1 DEF TasksOnly, ToSession, Replies
<1>5. \A m \in Items(ready) \cup Items(replies) :
        /\ m \in Setting(f) <=> m \in Setting(f)'
        /\ m \in Setting(f) \cap Right(f) => m \in Right(f)'
  BY <1>1, <1>4 DEF Setting, Right, Affects, Value, Messages, callVars
<1>6. Copy' = Copy  BY <1>1 DEF Copy, Restricting
<1>7. Settles(ready, replies, Setting(f)', Right(f)', Copy[f], droid[f])
  BY <1>3, <1>5, SettlesSame DEF SettledAt
<1> QED BY <1>1, <1>6, <1>7 DEF SettledAt

\* A change that was announced is read, with no answer of its chunk still to be acted on.
LEMMA SettledListened ==
  ASSUME SettingsTypeOK, CallsInv, SettledInv, replies # <<>>, replies' = Tail(replies),
         ~Replies(Head(replies)), Listened(Head(replies).change),
         UNCHANGED <<phase, restrict, loaded, callVars, droid>>,
         Told' => Told
  PROVE  SettledInv'
<1> DEFINE m == Head(replies)
<1> SUFFICES ASSUME Showing', NEW f \in Fields \ {"system_prompt"} PROVE SettledAt(f)'
  BY DEF SettledInv
<1>1. m \in Incoming /\ m.kind = "settings_updated" /\ m.change \in Asked
  <2>1. m \in Incoming  BY TailFacts DEF SettingsTypeOK
  <2>2. m.kind = "settings_updated"  BY DEF Replies
  <2> HIDE DEF m
  <2> QED BY <2>1, <2>2 DEF Incoming
<1>2. Listened(m.change) /\ replies' = Tail(replies)  OBVIOUS
<1> HIDE DEF m
<1>3. /\ ready' = ready /\ untrue = {} /\ Behind = {}
      /\ settings' = IF phase \in Opening \cup {"closed"} THEN settings ELSE Merged(settings, m.change)
  BY <1>2 DEF Listened, Showing
<1>4. /\ phase \notin Restricting
      /\ \A n \in Items(ready) : n.kind = "answer" => n.plain
  BY <1>3 DEF Behind, Items
<1>5. \A n \in Items(ready) : n \notin Setting(f) /\ ~(ToSession(n) /\ n.kind = "answer")
  BY <1>4 DEF CallsInv, NumberInv, Setting, Affects, Messages, ToSession, Replies
<1>6. Silent(ready, Setting(f))  BY <1>5 DEF Silent, Items
<1>7. Showing  BY <1>3 DEF Showing
<1>8. SettledAt(f)  BY <1>7 DEF SettledInv
<1>9. Setting(f)' = Setting(f) /\ Right(f)' = Right(f)
  BY DEF Setting, Right, Affects, Value, callVars
<1>10. Copy[f] = settings[f] /\ Copy'[f] = settings'[f]  BY <1>4 DEF Copy
<1>11. ready \in Seq(Incoming) /\ replies \in Seq(Incoming)  BY DEF SettingsTypeOK
<1>12. Settles(ready, Tail(replies), Setting(f), Right(f), settings'[f], droid[f])
  <2>1. CASE phase \in {"open", "fork"}
    <3>1. settings'[f] = IF f \in DOMAIN m.change THEN m.change[f] ELSE settings[f]
      BY <1>1, <1>3, <2>1, MergedFacts DEF SettingsTypeOK, Opening
    <3>2. CASE f \in DOMAIN m.change
      <4>1. m \in Setting(f) /\ (m \in Right(f) => settings'[f] = droid[f])
        BY <1>1, <3>1, <3>2 DEF Setting, Affects, Right, Value
      <4> QED BY <4>1, <1>6, <1>8, <1>11, SettlesSet DEF SettledAt, m
    <3>3. CASE f \notin DOMAIN m.change
      <4>1. m \notin Setting(f)  BY <1>1, <3>3 DEF Setting, Affects
      <4> QED BY <4>1, <3>1, <3>3, <1>8, <1>10, <1>11, SettlesDrop DEF SettledAt, m
    <3> QED BY <3>2, <3>3
  <2>2. CASE phase \notin {"open", "fork"}
    <3>1. Told'  BY <2>2, <1>4 DEF Showing
    <3>2. PICK n \in Items(Tail(replies)) : ToSession(n) /\ n.kind = "answer"
      BY <3>1, <1>2, <1>3, <1>5 DEF Told, Messages
    <3>3. n \in Messages /\ n \in Incoming
      BY <1>2, MessageFacts, TailFacts DEF Messages, SettingsTypeOK
    <3>4. phase \in Opening \cup {"load", "load_back"}
      BY <3>2, <3>3, <2>2, <1>4 DEF CallsInv, PhaseInv, TasksOnly, Replacing
    <3>5. n \in Setting(f)  BY <3>2, <3>3, <3>4 DEF Setting, Affects, ToSession
    <3> QED BY <3>2, <3>5, <1>8, <1>11, SettlesLater DEF SettledAt
  <2> QED BY <2>1, <2>2
<1> QED BY <1>2, <1>3, <1>9, <1>10, <1>12 DEF SettledAt

LEMMA SettledRead ==
  ASSUME SettingsTypeOK, CallsInv, SettledInv, ReadSettings
  PROVE  SettledInv'
<1> DEFINE m == Head(replies)
<1>1. /\ replies # <<>> /\ m \in Incoming /\ replies' = Tail(replies)
      /\ UNCHANGED <<phase, restrict, loaded, callVars, droid, requests, changes>>
      /\ \/ ~Replies(m) /\ Listened(m.change)
         \/ /\ Replies(m) /\ UNCHANGED <<settings, untrue>>
            /\ IF Waited(m) THEN ready' = Append(ready, m) ELSE ready' = ready
  BY ReadFacts
<1>2. Told' => Told  BY CallsRead
<1>3. CASE ~Replies(m) /\ Listened(m.change)  BY <1>1, <1>2, <1>3, SettledListened
<1>4. CASE /\ Replies(m) /\ UNCHANGED <<settings, untrue>>
           /\ IF Waited(m) THEN ready' = Append(ready, m) ELSE ready' = ready
  <2> SUFFICES ASSUME Showing', NEW f \in Fields \ {"system_prompt"} PROVE SettledAt(f)'
    BY DEF SettledInv
  <2>1. Showing  BY <1>1, <1>2, <1>4 DEF Showing
  <2>2. SettledAt(f)  BY <2>1 DEF SettledInv
  <2>3. Setting(f)' = Setting(f) /\ Right(f)' = Right(f) /\ Copy' = Copy
    BY <1>1, <1>4 DEF Setting, Right, Affects, Value, Copy, callVars
  <2>4. ready \in Seq(Incoming) /\ replies \in Seq(Incoming)  BY DEF SettingsTypeOK
  <2>5. Settles(ready', replies', Setting(f), Right(f), Copy[f], droid[f])
    <3>1. CASE Waited(m)  BY <3>1, <1>1, <1>4, <2>2, <2>4, SettlesMove DEF SettledAt
    <3>2. CASE ~Waited(m)
      <4>1. m \in Messages  BY <1>1, <2>4, TailFacts DEF Messages
      <4>2. m.plain /\ m.from # Session  BY <3>2, <4>1, <1>4, <2>1, StaleFacts DEF Showing
      <4>3. m \notin Setting(f)  BY <4>2, <1>4 DEF Setting, Affects, Replies
      <4> QED BY <4>3, <3>2, <1>1, <1>4, <2>2, <2>4, SettlesDrop DEF SettledAt
    <3> QED BY <3>1, <3>2
  <2> QED BY <1>1, <2>3, <2>5 DEF SettledAt
<1> QED BY <1>1, <1>3, <1>4

\* An answer that nobody waits for is dropped.
LEMMA SettledStale ==
  ASSUME SettingsTypeOK, CallsInv, SettledInv, ready # <<>>, ready' = Tail(ready),
         ~Waited(Head(ready)),
         UNCHANGED <<copyVars, callVars, droid, requests, replies, changes, untrue>>
  PROVE  SettledInv'
<1> DEFINE m == Head(ready)
<1> SUFFICES ASSUME Showing', NEW f \in Fields \ {"system_prompt"} PROVE SettledAt(f)'
  BY DEF SettledInv
<1>1. Told' => Told  BY CallsStale DEF copyVars
<1>2. Showing  BY <1>1 DEF Showing, copyVars
<1>3. SettledAt(f)  BY <1>2 DEF SettledInv
<1>4. m \in Messages /\ Replies(m)  BY FirstFacts
<1>5. m.plain /\ m.from # Session  BY <1>2, <1>4, StaleFacts DEF Showing
<1>6. m \notin Setting(f)  BY <1>4, <1>5 DEF Setting, Affects, Replies
<1>7. Setting(f)' = Setting(f) /\ Right(f)' = Right(f) /\ Copy' = Copy
  BY DEF Setting, Right, Affects, Value, Copy, callVars, copyVars
<1>8. Settles(ready', replies, Setting(f), Right(f), Copy[f], droid[f])
  BY <1>3, <1>6, SettlesResumed DEF SettledAt, SettingsTypeOK
<1> QED BY <1>7, <1>8 DEF SettledAt

\* A task makes the change that was answered.
LEMMA SettledAnswered ==
  ASSUME SettingsTypeOK, CallsInv, SettledInv, ready # <<>>, ready' = Tail(ready),
         NEW t \in Updaters, t = Head(ready).from, call[t] = Head(ready).id,
         UpdateAnswered(t, Head(ready)), UNCHANGED <<droid, replies, chunk, changes>>
  PROVE  SettledInv'
<1> DEFINE m == Head(ready)
<1> SUFFICES ASSUME Showing', NEW f \in Fields \ {"system_prompt"} PROVE SettledAt(f)'
  BY DEF SettledInv
<1>1. /\ Told' => Told
      /\ phase \notin {"lazy", "load", "load_back"} \cup Opening \cup Restricting
      /\ wants[t] \in Changes => ~m.plain
      /\ "gave_up" \notin untrue /\ wants[t] \notin Changes => m.plain
      /\ "gave_up" \notin untrue =>
           \A y \in Items(ready') \cup Items(replies) : ToUpdater(y) /\ ~y.plain => y.from # t
  BY CallsAnswered
<1>2. m \in Incoming /\ Replies(m) /\ m.from = t /\ t # Session  BY FirstFacts, SettingsAssumption
<1>3. ready' = Tail(ready) /\ UpdateAnswered(t, m)  OBVIOUS
<1>4. ready \in Seq(Incoming) /\ ready # <<>>  BY DEF SettingsTypeOK
<1>5. Items(Tail(ready)) \cup Items(replies) \subseteq Incoming
  BY <1>4, TailFacts, ItemTypes DEF SettingsTypeOK
<1>6. \/ /\ m.kind = "answer" /\ wants[t] \in Changes
         /\ settings'[f] = IF f \in DOMAIN wants[t] THEN wants[t][f] ELSE settings[f]
      \/ ~(m.kind = "answer" /\ wants[t] \in Changes) /\ UNCHANGED settings
  BY <1>2, <1>3, UpdateFacts
<1>7. Ends(t) /\ UNCHANGED <<phase, loaded, requests, untrue>>  BY <1>2, <1>3, UpdateFacts
<1>8. \A u \in Updaters \ {t} : wants'[u] = wants[u]  BY <1>7, EndsFacts
<1>9. Showing /\ "gave_up" \notin untrue  BY <1>1, <1>7 DEF Showing
<1>10. SettledAt(f)  BY <1>9 DEF SettledInv
<1>11. Copy[f] = settings[f] /\ Copy'[f] = settings'[f]  BY <1>1, <1>7 DEF Copy
<1>12. IF m \in Setting(f) THEN m \in Right(f) => settings'[f] = droid[f] ELSE settings'[f] = settings[f]
  <2>1. CASE m.kind = "answer" /\ wants[t] \in Changes
    <3>1. m \in Setting(f) <=> f \in DOMAIN wants[t]
      BY <2>1, <1>1, <1>2 DEF Setting, Affects
    <3>2. m \in Right(f) <=> wants[t][f] = droid[f]  BY <2>1, <1>2 DEF Right, Value
    <3> QED BY <2>1, <3>1, <3>2, <1>6
  <2>2. CASE ~(m.kind = "answer" /\ wants[t] \in Changes)
    <3>1. m \notin Setting(f)  BY <2>2, <1>1, <1>2, <1>9 DEF Setting, Affects, Replies
    <3> QED BY <2>2, <3>1, <1>6
  <2> QED BY <2>1, <2>2
<1>13. Settles(Tail(ready), replies, Setting(f), Right(f), settings'[f], droid[f])
  BY <1>4, <1>10, <1>11, <1>12, SettlesResumed DEF SettledAt, m
<1>14. \A y \in Items(Tail(ready)) \cup Items(replies) :
         /\ y \in Setting(f) <=> y \in Setting(f)'
         /\ y \in Setting(f) \cap Right(f) => y \in Right(f)'
  <2> SUFFICES ASSUME NEW y \in Items(Tail(ready)) \cup Items(replies)
               PROVE  /\ y \in Setting(f) <=> y \in Setting(f)'
                      /\ y \in Setting(f) \cap Right(f) => y \in Right(f)'
    OBVIOUS
  <2>1. y \in Messages /\ y \in Incoming /\ (y.from \in Updaters \/ y.from = Session)
    BY <1>4, <1>5, TailFacts, MessageFacts DEF Messages
  <2>2. ToUpdater(y) /\ ~y.plain => y.from # t  BY <1>1, <1>3, <1>9
  <2>3. ToUpdater(y) /\ ~y.plain => wants'[y.from] = wants[y.from]
    BY <1>8, <2>1, <2>2 DEF ToUpdater
  <2>4. (Affects(y, f) <=> Affects(y, f)') /\ (Affects(y, f) => Value(y, f)' = Value(y, f))
    BY <1>1, <1>7, <2>1, <2>3, AffectsSame
  <2> QED BY <2>1, <2>4 DEF Setting, Right
<1>15. Settles(Tail(ready), replies, Setting(f)', Right(f)', settings'[f], droid[f])
  BY <1>13, <1>14, SettlesSame
<1> QED BY <1>3, <1>11, <1>15 DEF SettledAt

\* The session goes on with its answer.
LEMMA SettledSession ==
  ASSUME SettingsTypeOK, CallsInv, SettledInv, ready # <<>>, ready' = Tail(ready),
         Head(ready).from = Session, SessionAnswered(Head(ready)),
         UNCHANGED <<droid, replies, chunk, changes>>
  PROVE  SettledInv'
<1> DEFINE m == Head(ready)
<1> SUFFICES ASSUME Showing', NEW f \in Fields \ {"system_prompt"} PROVE SettledAt(f)'
  BY DEF SettledInv
<1>1. ~Told' /\ Items(ready') = {} /\ \A y \in Items(replies) : ~Replies(y)
  BY CallsSession
<1>2. m \in Incoming /\ m \in Messages /\ Replies(m)  BY FirstFacts
<1>3. m.from = Session /\ SessionAnswered(m) /\ ready' = Tail(ready)  OBVIOUS
<1> HIDE DEF m
<1>4. UNCHANGED <<callVars, restrict>> /\ SessionOutcome(m)  BY <1>2, <1>3, SessionFacts
<1>5. phase' \in {"open", "fork"} \cup Restricting /\ untrue' = {} /\ untrue = {}
  BY <1>1, <1>4 DEF Showing, SessionOutcome
<1>6. m.kind = "answer" => Told  BY <1>2, <1>3 DEF Told, ToSession
<1>7. \/ m.kind = "error" /\ phase = "fork" /\ phase' = "open" /\ UNCHANGED <<settings, loaded>>
      \/ /\ m.kind = "answer" /\ phase \in Opening \cup {"load", "load_back"}
         /\ \/ phase' = "open" /\ settings' = m.now
            \/ phase' \in Restricting /\ loaded' = m.now
      \/ /\ m.kind = "answer" /\ phase \in Restricting /\ phase' = "open" /\ settings' = loaded
         /\ loaded["restrict_tools"] = restrict
  BY <1>4, <1>5 DEF SessionOutcome, Restricting
<1>8. Showing  BY <1>5, <1>6, <1>7 DEF Showing
<1>9. SettledAt(f)  BY <1>8 DEF SettledInv
<1>10. IF m \in Setting(f) THEN m \in Right(f) => Copy'[f] = droid[f] ELSE Copy'[f] = Copy[f]
  <2>1. CASE m.kind = "error" /\ phase = "fork" /\ phase' = "open" /\ UNCHANGED <<settings, loaded>>
    BY <2>1 DEF Setting, Affects, Copy, Restricting
  <2>2. CASE /\ m.kind = "answer" /\ phase \in Opening \cup {"load", "load_back"}
             /\ \/ phase' = "open" /\ settings' = m.now
                \/ phase' \in Restricting /\ loaded' = m.now
    <3>1. Copy' = m.now  BY <2>2 DEF Copy, Restricting
    <3>2. m \in Setting(f)  BY <2>2, <1>2, <1>3 DEF Setting, Affects
    <3>3. Value(m, f) = m.now[f]  BY <2>2, <1>3 DEF Value, Opening, Restricting
    <3> QED BY <3>1, <3>2, <3>3 DEF Right
  <2>3. CASE /\ m.kind = "answer" /\ phase \in Restricting /\ phase' = "open" /\ settings' = loaded
             /\ loaded["restrict_tools"] = restrict
    <3>1. Copy' = loaded /\ Copy = loaded  BY <2>3 DEF Copy, Restricting
    <3>2. m \in Setting(f) <=> f = "restrict_tools"
      BY <2>3, <1>2, <1>3 DEF Setting, Affects, Opening, Restricting
    <3>3. Value(m, f) = restrict  BY <2>3, <1>3 DEF Value
    <3> QED BY <2>3, <3>1, <3>2, <3>3 DEF Right
  <2> QED BY <1>7, <2>1, <2>2, <2>3
<1>11. Settles(Tail(ready), replies, Setting(f), Right(f), Copy'[f], droid[f])
  BY <1>9, <1>10, SettlesResumed DEF SettledAt, SettingsTypeOK, m
<1>12. \A y \in Items(Tail(ready)) \cup Items(replies) :
         /\ y \in Setting(f) <=> y \in Setting(f)'
         /\ y \in Setting(f) \cap Right(f) => y \in Right(f)'
  <2>1. \A y \in Items(Tail(ready)) \cup Items(replies) : y.kind = "settings_updated"
    BY <1>1, <1>3 DEF Replies
  <2> QED BY <2>1 DEF Setting, Right, Affects, Value
<1>13. Settles(Tail(ready), replies, Setting(f)', Right(f)', Copy'[f], droid[f])
  BY <1>11, <1>12, SettlesSame
<1> QED BY <1>3, <1>13 DEF SettledAt

\* The process makes a change that it was asked for and sends one message or two: both
\* set a field right, or neither is about it.
LEMMA SettlesTwo ==
  ASSUME NEW S, NEW a \in Seq(S), NEW b \in Seq(S), NEW A, NEW V, NEW x, NEW y, NEW m \in S, NEW n \in S,
         \/ m \in A \cap V /\ n \in A \cap V
         \/ m \notin A /\ n \notin A /\ Settles(a, b, A, V, x, y)
  PROVE  /\ Settles(a, Append(b, m), A, V, x, y)
         /\ Settles(a, Append(Append(b, m), n), A, V, x, y)
         /\ Settles(a, Append(Append(b, n), m), A, V, x, y)
<1>1. ASSUME NEW v \in S, NEW w \in S,
             \/ v \in A \cap V /\ w \in A \cap V
             \/ v \notin A /\ w \notin A /\ Settles(a, b, A, V, x, y)
      PROVE  Settles(a, Append(b, v), A, V, x, y) /\ Settles(a, Append(Append(b, v), w), A, V, x, y)
  <2> DEFINE p == Append(b, v)
  <2>1. p \in Seq(S)  BY AppendFacts
  <2>2. Settles(a, p, A, V, x, y)  BY <1>1, SettlesRight, SettlesOther
  <2> HIDE DEF p
  <2>3. Settles(a, Append(p, w), A, V, x, y)  BY <1>1, <2>1, <2>2, SettlesRight, SettlesOther
  <2> QED BY <2>2, <2>3 DEF p
<1>2. Settles(a, Append(b, m), A, V, x, y) /\ Settles(a, Append(Append(b, m), n), A, V, x, y)
  BY <1>1
<1>3. Settles(a, Append(Append(b, n), m), A, V, x, y)  BY <1>1
<1> QED BY <1>2, <1>3

\* What the request that the process takes can be, and whom its answer is for.
LEMMA TakenTold ==
  ASSUME SettingsTypeOK, CallsInv, DroidTakes
  PROVE  /\ Head(requests) \in Items(requests) /\ Head(requests).from \in Updaters \cup {Session}
         /\ Head(requests).from = Session =>
              \/ phase \in Opening \cup {"fork"} /\ Head(requests).method = phase
              \/ phase \in {"load", "load_back"} /\ Head(requests).method = "load"
              \/ /\ phase \in Restricting /\ Head(requests).method = "update"
                 /\ Head(requests).change = Restriction(restrict)
         /\ Head(requests).from # Session => Head(requests).method \in {"update", "operation"}
         /\ Told' => Told \/ (Head(requests).from = Session /\ phase \in Opening \cup Replacing)
<1> DEFINE r == Head(requests)
<1>1. requests # <<>> /\ UNCHANGED <<phase, ready>>  BY TakenFacts DEF copyVars
<1>2. r \in Items(requests)  BY <1>1, TailFacts DEF SettingsTypeOK
<1>3. r.from \in Updaters \cup {Session}  BY <1>2, MessageFacts
<1>4. /\ r.from = Session =>
           \/ phase \in Opening \cup {"fork"} /\ r.method = phase
           \/ phase \in {"load", "load_back"} /\ r.method = "load"
           \/ phase \in Restricting /\ r.method = "update" /\ r.change = Restriction(restrict)
      /\ r.from # Session => r.method \in {"update", "operation"}
  BY <1>2 DEF CallsInv, PhaseInv, Asks
<1>5. Told' => Told \/ (r.from = Session /\ phase \in Opening \cup Replacing)
  <2>1. \A y \in Items(replies') : \/ y \in Items(replies)
                                   \/ y \in {Answer(r, droid'), Refusal(r), Update(r.change)}
    <3> DEFINE x == Answer(r, droid')
               u == Update(r.change)
               z == Refusal(r)
    <3>1. /\ x \in Incoming \/ z \in Incoming
          /\ \/ x \in Incoming /\ replies' = Append(replies, x)
             \/ x \in Incoming /\ u \in Incoming /\ replies' = Append(Append(replies, x), u)
             \/ x \in Incoming /\ u \in Incoming /\ replies' = Append(Append(replies, u), x)
             \/ z \in Incoming /\ replies' = Append(replies, z)
      BY TakenFacts
    <3> HIDE DEF x, u, z
    <3>2. \A m \in Incoming : /\ Append(replies, m) \in Seq(Incoming)
                              /\ Items(Append(replies, m)) = Items(replies) \cup {m}
      BY AppendFacts DEF SettingsTypeOK
    <3>3. \A m, n \in Incoming : Items(Append(Append(replies, m), n)) = Items(replies) \cup {m, n}
      <4> SUFFICES ASSUME NEW m \in Incoming, NEW n \in Incoming
                   PROVE  Items(Append(Append(replies, m), n)) = Items(replies) \cup {m, n}
        OBVIOUS
      <4> DEFINE p == Append(replies, m)
      <4>1. p \in Seq(Incoming) /\ Items(p) = Items(replies) \cup {m}  BY <3>2
      <4> HIDE DEF p
      <4>2. Items(Append(p, n)) = Items(p) \cup {n}  BY <4>1, AppendFacts
      <4> QED BY <4>1, <4>2 DEF p
    <3>4. Items(replies') \subseteq Items(replies) \cup {x, u, z}
      <4>1. CASE x \in Incoming /\ replies' = Append(replies, x)  BY <4>1, <3>2
      <4>2. CASE x \in Incoming /\ u \in Incoming /\ replies' = Append(Append(replies, x), u)
        <5>1. Items(Append(Append(replies, x), u)) = Items(replies) \cup {x, u}  BY <4>2, <3>3
        <5> QED BY <5>1, <4>2
      <4>3. CASE x \in Incoming /\ u \in Incoming /\ replies' = Append(Append(replies, u), x)
        <5>1. Items(Append(Append(replies, u), x)) = Items(replies) \cup {x, u}  BY <4>3, <3>3
        <5> QED BY <5>1, <4>3
      <4>4. CASE z \in Incoming /\ replies' = Append(replies, z)  BY <4>4, <3>2
      <4> QED BY <3>1, <4>1, <4>2, <4>3, <4>4
    <3> QED BY <3>4 DEF x, u, z
  <2>2. /\ ToSession(Answer(r, droid')) => r.from = Session
        /\ ~(Refusal(r).kind = "answer") /\ ~ToSession(Update(r.change))
    BY DEF ToSession, Replies, Answer, Refusal, Update
  <2>3. Told' => Told \/ r.from = Session  BY <1>1, <2>1, <2>2 DEF Told, Messages
  <2> QED BY <1>4, <2>3 DEF Replacing
<1> QED BY <1>2, <1>3, <1>4, <1>5

\* The process takes a request.
LEMMA SettledTaken ==
  ASSUME SettingsTypeOK, CallsInv, SettledInv, DroidTakes
  PROVE  SettledInv'
<1> DEFINE r == Head(requests)
           x == Answer(r, droid')
           u == Update(r.change)
<1> SUFFICES ASSUME Showing', NEW f \in Fields \ {"system_prompt"} PROVE SettledAt(f)'
  BY DEF SettledInv
<1>1. /\ r \in Outgoing /\ requests # <<>> /\ droid' \in Settings
      /\ UNCHANGED <<phase, settings, restrict, loaded, callVars, ready, untrue>>
  BY TakenFacts DEF copyVars
<1>2. /\ r \in Items(requests) /\ r.from \in Updaters \cup {Session}
      /\ r.from = Session =>
           \/ phase \in Opening \cup {"fork"} /\ r.method = phase
           \/ phase \in {"load", "load_back"} /\ r.method = "load"
           \/ phase \in Restricting /\ r.method = "update" /\ r.change = Restriction(restrict)
      /\ r.from # Session => r.method \in {"update", "operation"}
      /\ Told' => Told \/ (r.from = Session /\ phase \in Opening \cup Replacing)
  BY TakenTold
<1>3. \/ /\ r.method = "update" /\ droid' = Applied(droid, r.change)
         /\ x \in Incoming /\ u \in Incoming
         /\ replies' \in {Append(replies, x), Append(Append(replies, x), u),
                          Append(Append(replies, u), x)}
      \/ /\ r.method # "update" /\ x \in Incoming /\ replies' = Append(replies, x)
         /\ \/ r.method = "operation" /\ droid' = droid
            \/ DroidOpens(r)
      \/ replies' = Append(replies, Refusal(r)) /\ droid' = droid /\ Refusal(r) \in Incoming
  BY TakenFacts
<1>4. /\ x.kind = "answer" /\ x.from = r.from /\ x.plain = (r.method = "operation") /\ x.now = droid'
      /\ u.kind = "settings_updated" /\ u.change = r.change
      /\ Refusal(r).kind = "error"
  BY DEF Answer, Update, Refusal
<1> HIDE DEF r, x, u
<1>5. Setting(f)' = Setting(f) /\ Copy' = Copy
  BY <1>1 DEF Setting, Affects, Copy, callVars
<1>6. droid'[f] = droid[f] => Right(f)' = Right(f)
  BY <1>1 DEF Right, Value, callVars
<1>7. ready \in Seq(Incoming) /\ replies \in Seq(Incoming)  BY DEF SettingsTypeOK
<1>8. untrue = {}  BY <1>1 DEF Showing
<1>9. Showing => SettledAt(f)  BY DEF SettledInv
<1>10. Showing \/ (r.from = Session /\ phase \in Opening \cup {"load", "load_back"})
  BY <1>1, <1>2, <1>8 DEF Showing, Replacing
<1>11. \A n \in Incoming :
         /\ n.kind = "settings_updated" => (n \in Right(f)' <=> n.change[f] = droid'[f])
         /\ n.kind = "answer" /\ n.from # Session =>
              (n \in Right(f)' <=> wants[n.from][f] = droid'[f])
         /\ n.kind = "answer" /\ n.from = Session =>
              (n \in Right(f)' <=> (IF phase \in Restricting THEN restrict ELSE n.now[f]) = droid'[f])
  BY <1>1 DEF Right, Value, callVars
<1>12. Settles(ready, replies', Setting(f), Right(f)', Copy[f], droid'[f])
  <2>1. CASE /\ r.method = "update" /\ droid' = Applied(droid, r.change)
             /\ x \in Incoming /\ u \in Incoming
             /\ replies' \in {Append(replies, x), Append(Append(replies, x), u),
                              Append(Append(replies, u), x)}
    <3>1. r.from = Session => phase \in Restricting /\ r.change = Restriction(restrict)
      BY <1>2, <2>1 DEF Opening
    <3>2. r.from # Session => r.change = wants[r.from]
      BY <1>2, <1>8, <2>1 DEF CallsInv, WaitInv
    <3>3. r.change \in Asked  BY <1>1 DEF Outgoing
    <3>4. droid'[f] = IF f \in DOMAIN r.change THEN r.change[f] ELSE droid[f]
      BY <2>1 DEF Applied
    <3>5. r.from = Session => DOMAIN r.change = {"restrict_tools"}
                              /\ (f = "restrict_tools" => r.change[f] = restrict)
      BY <3>1 DEF Restriction
    <3>6. x \in Setting(f) <=> f \in DOMAIN r.change
      BY <2>1, <3>1, <3>2, <3>5, <1>4 DEF Setting, Affects, Opening, Restricting
    <3>7. u \in Setting(f) <=> f \in DOMAIN r.change
      BY <2>1, <1>4 DEF Setting, Affects
    <3>8. ASSUME \/ x \in Setting(f) \cap Right(f)' /\ u \in Setting(f) \cap Right(f)'
                 \/ /\ x \notin Setting(f) /\ u \notin Setting(f)
                    /\ Settles(ready, replies, Setting(f), Right(f)', Copy[f], droid'[f])
          PROVE  Settles(ready, replies', Setting(f), Right(f)', Copy[f], droid'[f])
      <4> DEFINE A == Setting(f)
                 V == Right(f)'
                 y == Copy[f]
                 z == droid'[f]
      <4>1. \/ x \in A \cap V /\ u \in A \cap V
            \/ x \notin A /\ u \notin A /\ Settles(ready, replies, A, V, y, z)
        BY <3>8
      <4> HIDE DEF A, V, y, z
      <4>2. /\ Settles(ready, Append(replies, x), A, V, y, z)
            /\ Settles(ready, Append(Append(replies, x), u), A, V, y, z)
            /\ Settles(ready, Append(Append(replies, u), x), A, V, y, z)
        BY <4>1, <2>1, <1>7, SettlesTwo
      <4> QED BY <4>2, <2>1 DEF A, V, y, z
    <3>9. CASE f \in DOMAIN r.change
      <4>1. u \in Right(f)'  BY <1>4, <1>11, <2>1, <3>4, <3>9
      <4>2. x \in Right(f)'  BY <1>4, <1>11, <2>1, <3>1, <3>2, <3>4, <3>5, <3>9
      <4>3. x \in Setting(f) \cap Right(f)' /\ u \in Setting(f) \cap Right(f)'
        BY <3>6, <3>7, <3>9, <4>1, <4>2
      <4> QED BY <4>3, <3>8
    <3>10. CASE f \notin DOMAIN r.change
      <4>1. Showing  BY <1>10, <3>1 DEF Opening, Restricting
      <4>2. Settles(ready, replies, Setting(f), Right(f)', Copy[f], droid'[f])
        BY <4>1, <1>6, <1>9, <3>4, <3>10 DEF SettledAt
      <4> QED BY <4>2, <3>6, <3>7, <3>10, <3>8
    <3> QED BY <3>9, <3>10
  <2>2. CASE r.method = "operation" /\ x \in Incoming /\ replies' = Append(replies, x) /\ droid' = droid
    <3>1. r.from # Session /\ x \notin Setting(f)
      BY <2>2, <1>2, <1>4 DEF Setting, Affects, Opening, Restricting
    <3>2. Settles(ready, replies, Setting(f), Right(f)', Copy[f], droid'[f])
      BY <3>1, <2>2, <1>6, <1>9, <1>10 DEF SettledAt
    <3> QED BY <3>1, <3>2, <2>2, <1>7, SettlesOther
  <2>3. CASE r.method # "update" /\ x \in Incoming /\ replies' = Append(replies, x) /\ DroidOpens(r)
    <3>1. /\ r.from = Session /\ r.method \notin {"update", "operation"}
          /\ phase \in Opening \cup {"fork", "load", "load_back"} /\ (phase = "fork" <=> r.method = "fork")
      BY <2>3, <1>2 DEF DroidOpens, Opening
    <3>2. CASE phase = "fork"
      <4>1. droid' = droid  BY <2>3, <3>1, <3>2 DEF DroidOpens
      <4>2. x \notin Setting(f)  BY <3>1, <3>2, <1>4 DEF Setting, Affects, Opening, Restricting
      <4>3. Showing  BY <3>2, <1>8 DEF Showing
      <4>4. Settles(ready, replies, Setting(f), Right(f)', Copy[f], droid'[f])
        BY <4>1, <4>3, <1>6, <1>9 DEF SettledAt
      <4> QED BY <4>2, <4>4, <2>3, <1>7, SettlesOther
    <3>3. CASE phase # "fork"
      <4>1. x \in Setting(f)  BY <2>3, <3>1, <3>3, <1>4 DEF Setting, Affects
      <4>2. x \in Right(f)'  BY <1>4, <1>11, <2>3, <3>1, <3>3 DEF Opening, Restricting
      <4> QED BY <4>1, <4>2, <2>3, <1>7, SettlesRight
    <3> QED BY <3>2, <3>3
  <2>4. CASE replies' = Append(replies, Refusal(r)) /\ droid' = droid /\ Refusal(r) \in Incoming
    <3>1. Refusal(r) \notin Setting(f)  BY <1>4 DEF Setting, Affects
    <3>2. CASE Showing
      <4>1. Settles(ready, replies, Setting(f), Right(f)', Copy[f], droid'[f])
        BY <3>2, <2>4, <1>6, <1>9 DEF SettledAt
      <4> QED BY <4>1, <3>1, <2>4, <1>7, SettlesOther
    <3>3. CASE ~Showing
      <4>1. Told' => Told
        <5>1. Items(replies') = Items(replies) \cup {Refusal(r)}  BY <2>4, <1>7, AppendFacts
        <5> QED BY <5>1, <1>1, <1>4 DEF Told, Messages
      <4> QED BY <3>3, <4>1, <1>1 DEF Showing
    <3> QED BY <3>2, <3>3
  <2> QED BY <1>3, <2>1, <2>2, <2>3, <2>4
<1> QED BY <1>1, <1>5, <1>12 DEF SettledAt

\* The process changes a setting by itself.
LEMMA SettledChanged ==
  ASSUME SettingsTypeOK, CallsInv, SettledInv, NEW c \in Changes, DroidChanges(c)
  PROVE  SettledInv'
<1> DEFINE u == Update(c)
<1> SUFFICES ASSUME Showing', NEW f \in Fields \ {"system_prompt"} PROVE SettledAt(f)'
  BY DEF SettledInv
<1>1. /\ replies' = Append(replies, u)
      /\ UNCHANGED <<phase, settings, restrict, loaded, callVars, ready, untrue>>
  BY DEF DroidChanges, copyVars
<1>2. (Told' <=> Told) /\ u \in Incoming /\ droid' = Applied(droid, c)  BY CallsTold
<1>3. u.kind = "settings_updated" /\ u.change = c  BY DEF Update
<1> HIDE DEF u
<1>4. Showing  BY <1>1, <1>2 DEF Showing
<1>5. SettledAt(f)  BY <1>4 DEF SettledInv
<1>6. Setting(f)' = Setting(f) /\ Copy' = Copy  BY <1>1 DEF Setting, Affects, Copy, callVars
<1>7. ready \in Seq(Incoming) /\ replies \in Seq(Incoming)  BY DEF SettingsTypeOK
<1>8. droid'[f] = IF f \in DOMAIN c THEN c[f] ELSE droid[f]  BY <1>2 DEF Applied
<1>9. Settles(ready, Append(replies, u), Setting(f), Right(f)', Copy[f], droid'[f])
  <2>1. CASE f \in DOMAIN c
    <3>1. u \in Setting(f)  BY <2>1, <1>2, <1>3 DEF Setting, Affects
    <3>2. u \in Right(f)'  BY <2>1, <1>2, <1>3, <1>8 DEF Right, Value
    <3> QED BY <3>1, <3>2, <1>2, <1>7, SettlesRight
  <2>2. CASE f \notin DOMAIN c
    <3>1. u \notin Setting(f)  BY <2>2, <1>3 DEF Setting, Affects
    <3>2. Right(f)' = Right(f)  BY <2>2, <1>1, <1>8 DEF Right, Value, callVars
    <3>3. Settles(ready, replies, Setting(f), Right(f)', Copy[f], droid'[f])
      BY <2>2, <3>2, <1>5, <1>8 DEF SettledAt
    <3> QED BY <3>1, <3>3, <1>2, <1>7, SettlesOther
  <2> QED BY <2>1, <2>2
<1> QED BY <1>1, <1>6, <1>9 DEF SettledAt

LEMMA SettledInit == SettingsInit => SettledInv
<1> SUFFICES ASSUME SettingsInit PROVE ~Showing  BY DEF SettledInv
<1>1. phase = "lazy" /\ replies = <<>> /\ ready = <<>>  BY DEF SettingsInit
<1>2. Messages = {}  BY <1>1, EmptyFacts DEF Messages
<1> QED BY <1>1, <1>2 DEF Showing, Told, Restricting

LEMMA SettledStep ==
  SettingsTypeOK /\ CallsInv /\ SettledInv /\ [SettingsNext]_settingsVars => SettledInv'
<1> SUFFICES ASSUME SettingsTypeOK, CallsInv, SettledInv, [SettingsNext]_settingsVars
             PROVE  SettledInv'
  OBVIOUS
<1>1. ASSUME NEW t \in Updaters, NEW c \in Changes, UpdateBegins(t, c) PROVE SettledInv'
  <2>1. Called(t, c) /\ UNCHANGED <<copyVars, droid, replies, chunk, ready, untrue>>
    BY <1>1 DEF UpdateBegins
  <2>2. call[t] = 0 /\ wants' = [wants EXCEPT ![t] = c]  BY <2>1 DEF Called
  <2>3. \A u \in Updaters \ {t} : wants'[u] = wants[u]  BY <2>2 DEF SettingsTypeOK
  <2> QED BY <2>1, <2>2, <2>3, WantsCalled, SettledWants DEF copyVars
<1>2. ASSUME NEW t \in Updaters, NEW op \in Ops, OperationBegins(t, op) PROVE SettledInv'
  <2>1. Called(t, Operation(op)) /\ UNCHANGED <<copyVars, droid, replies, chunk, ready, untrue>>
    BY <1>2 DEF OperationBegins
  <2>2. call[t] = 0 /\ wants' = [wants EXCEPT ![t] = Operation(op)]  BY <2>1 DEF Called
  <2>3. \A u \in Updaters \ {t} : wants'[u] = wants[u]  BY <2>2 DEF SettingsTypeOK
  <2> QED BY <2>1, <2>2, <2>3, WantsCalled, SettledWants DEF copyVars
<1>3. ASSUME NEW t \in Updaters, UpdateGivenUp(t) PROVE SettledInv'
  <2>1. /\ UNCHANGED <<copyVars, droid, replies, ready>>
        /\ untrue \subseteq untrue'
    BY <1>3 DEF UpdateGivenUp
  <2> QED BY <1>3, <2>1, WantsGivenUp, SettledWants DEF copyVars
<1>4. ASSUME NEW method \in Opening, OpenBegins(method) PROVE SettledInv'  BY <1>4, SettledOpen
<1>5. CASE ReplaceBegins  BY <1>5, SettledReplace
<1>6. CASE ReadChunk  BY <1>6, SettledWants DEF ReadChunk, copyVars, callVars
<1>7. CASE ReadSettings  BY <1>7, SettledRead
<1>8. CASE Resume
  <2>1. /\ ready # <<>> /\ ready' = Tail(ready) /\ UNCHANGED <<droid, replies, chunk, changes>>
        /\ \/ ~Waited(Head(ready)) /\ UNCHANGED <<copyVars, callVars, requests, untrue>>
           \/ Head(ready).from = Session /\ SessionAnswered(Head(ready))
           \/ /\ Head(ready).from \in Updaters /\ call[Head(ready).from] = Head(ready).id
              /\ UpdateAnswered(Head(ready).from, Head(ready))
    BY <1>8, ResumeFacts
  <2>2. CASE ~Waited(Head(ready)) /\ UNCHANGED <<copyVars, callVars, requests, untrue>>
    BY <2>1, <2>2, SettledStale
  <2>3. CASE Head(ready).from = Session /\ SessionAnswered(Head(ready))
    BY <2>1, <2>3, SettledSession
  <2>4. CASE /\ Head(ready).from \in Updaters /\ call[Head(ready).from] = Head(ready).id
             /\ UpdateAnswered(Head(ready).from, Head(ready))
    BY <2>1, <2>4, SettledAnswered
  <2> QED BY <2>1, <2>2, <2>3, <2>4
<1>9. CASE DroidTakes  BY <1>9, SettledTaken
<1>10. ASSUME NEW c \in Changes, DroidChanges(c) PROVE SettledInv'  BY <1>10, SettledChanged
<1>11. CASE UNCHANGED settingsVars  BY <1>11, SettledWants DEF settingsVars, copyVars, callVars
<1> QED BY <1>1, <1>2, <1>3, <1>4, <1>5, <1>6, <1>7, <1>8, <1>9, <1>10, <1>11 DEF SettingsNext

-----------------------------------------------------------------------------
(* The restriction that the session remembers *)

LEMMA KeptWants ==
  ASSUME KeptInv, UNCHANGED <<restrict, droid, replies, ready>>,
         phase' = phase \/ (phase = "open" /\ phase' = "fork"),
         untrue \subseteq untrue',
         "gave_up" \notin untrue' =>
           \A m \in Messages : ToUpdater(m) /\ ~m.plain => wants'[m.from] = wants[m.from]
  PROVE  KeptInv'
<1> SUFFICES ASSUME Keeping' PROVE Kept'  BY DEF KeptInv
<1>1. Messages' = Messages /\ (Told' <=> Told)  BY DEF Messages, Told
<1>2. Keeping /\ "gave_up" \notin untrue'  BY <1>1 DEF Keeping
<1>3. Kept  BY <1>2 DEF KeptInv
<1>4. \A m \in Items(ready) \cup Items(replies) :
        /\ m \in Remembering <=> m \in Remembering'
        /\ m \in Remembering \cap Remembered => m \in Remembered'
  BY <1>2 DEF Remembering, Remembered, Messages
<1> QED BY <1>3, <1>4, SettlesSame DEF Kept

LEMMA KeptRead ==
  ASSUME SettingsTypeOK, CallsInv, KeptInv, ReadSettings
  PROVE  KeptInv'
<1> DEFINE m == Head(replies)
           now == droid["restrict_tools"]
           mine == IF restrict = Null THEN droid["restrict_tools"] ELSE restrict
<1> SUFFICES ASSUME Keeping' PROVE Kept'  BY DEF KeptInv
<1>1. /\ replies # <<>> /\ m \in Incoming /\ replies' = Tail(replies)
      /\ UNCHANGED <<phase, restrict, loaded, callVars, droid, requests, changes>>
      /\ \/ ~Replies(m) /\ Listened(m.change)
         \/ /\ Replies(m) /\ UNCHANGED <<settings, untrue>>
            /\ IF Waited(m) THEN ready' = Append(ready, m) ELSE ready' = ready
  BY ReadFacts
<1>2. Told' => Told  BY CallsRead
<1>3. Keeping  BY <1>1, <1>2 DEF Keeping, Listened
<1>4. Settles(ready, replies, Remembering, Remembered, mine, now)  BY <1>3 DEF KeptInv, Kept
<1>5. Remembering' = Remembering /\ Remembered' = Remembered
  BY <1>1 DEF Remembering, Remembered, callVars
<1>6. ready \in Seq(Incoming) /\ replies \in Seq(Incoming)  BY DEF SettingsTypeOK
<1>7. Settles(ready', Tail(replies), Remembering, Remembered, mine, now)
  <2>1. CASE ~Replies(m) /\ Listened(m.change)
    <3>1. m \notin Remembering  BY <2>1 DEF Remembering, ToUpdater
    <3>2. ready' = ready  BY <2>1 DEF Listened
    <3> QED BY <3>1, <3>2, <1>1, <1>4, <1>6, SettlesDrop
  <2>2. CASE Replies(m) /\ Waited(m) /\ ready' = Append(ready, m)
    BY <2>2, <1>1, <1>4, <1>6, SettlesMove
  <2>3. CASE Replies(m) /\ ~Waited(m) /\ ready' = ready
    <3>1. m \in Messages  BY <1>1, <1>6, TailFacts DEF Messages
    <3>2. m.plain  BY <3>1, <2>3, <1>3, StaleFacts DEF Keeping
    <3>3. m \notin Remembering  BY <3>2 DEF Remembering
    <3> QED BY <3>3, <2>3, <1>1, <1>4, <1>6, SettlesDrop
  <2> QED BY <1>1, <2>1, <2>2, <2>3
<1> QED BY <1>1, <1>5, <1>7 DEF Kept

LEMMA KeptStale ==
  ASSUME SettingsTypeOK, CallsInv, KeptInv, ready # <<>>, ready' = Tail(ready),
         ~Waited(Head(ready)),
         UNCHANGED <<copyVars, callVars, droid, requests, replies, changes, untrue>>
  PROVE  KeptInv'
<1> DEFINE m == Head(ready)
<1> SUFFICES ASSUME Keeping' PROVE Kept'  BY DEF KeptInv
<1>1. Told' => Told  BY CallsStale DEF copyVars
<1>2. Keeping  BY <1>1 DEF Keeping, copyVars
<1>3. Kept  BY <1>2 DEF KeptInv
<1>4. m \in Messages /\ Replies(m)  BY FirstFacts
<1>5. m.plain  BY <1>2, <1>4, StaleFacts DEF Keeping
<1>6. m \notin Remembering  BY <1>5 DEF Remembering
<1>7. Remembering' = Remembering /\ Remembered' = Remembered
  BY DEF Remembering, Remembered, callVars
<1>8. Kept' <=> Settles(ready', replies, Remembering, Remembered,
                        IF restrict = Null THEN droid["restrict_tools"] ELSE restrict,
                        droid["restrict_tools"])
  BY <1>7 DEF Kept, copyVars
<1> QED BY <1>3, <1>6, <1>8, SettlesResumed DEF Kept, SettingsTypeOK

LEMMA KeptAnswered ==
  ASSUME SettingsTypeOK, CallsInv, KeptInv, ready # <<>>, ready' = Tail(ready),
         NEW t \in Updaters, t = Head(ready).from, call[t] = Head(ready).id,
         UpdateAnswered(t, Head(ready)), UNCHANGED <<droid, replies, chunk, changes>>
  PROVE  KeptInv'
<1> DEFINE m == Head(ready)
           f == "restrict_tools"
           mine == IF restrict = Null THEN droid[f] ELSE restrict
           next == IF restrict' = Null THEN droid[f] ELSE restrict'
<1> SUFFICES ASSUME Keeping' PROVE Kept'  BY DEF KeptInv
<1>1. /\ Told' => Told
      /\ wants[t] \in Changes => ~m.plain
      /\ "gave_up" \notin untrue /\ wants[t] \notin Changes => m.plain
      /\ "gave_up" \notin untrue =>
           \A y \in Items(ready') \cup Items(replies) : ToUpdater(y) /\ ~y.plain => y.from # t
  BY CallsAnswered
<1>2. m \in Incoming /\ Replies(m) /\ m.from = t /\ t # Session  BY FirstFacts, SettingsAssumption
<1>3. ready' = Tail(ready) /\ UpdateAnswered(t, m)  OBVIOUS
<1>4. ready \in Seq(Incoming) /\ ready # <<>>  BY DEF SettingsTypeOK
<1>5. \/ /\ m.kind = "answer" /\ wants[t] \in Changes
         /\ restrict' = IF f \in DOMAIN wants[t] THEN wants[t][f] ELSE restrict
         /\ f \in DOMAIN wants[t] => restrict' # Null
      \/ ~(m.kind = "answer" /\ wants[t] \in Changes) /\ UNCHANGED restrict
  BY <1>2, <1>3, UpdateFacts
<1>6. Ends(t) /\ UNCHANGED <<phase, loaded, requests, untrue>>  BY <1>2, <1>3, UpdateFacts
<1>7. \A u \in Updaters \ {t} : wants'[u] = wants[u]  BY <1>6, EndsFacts
<1>8. Keeping /\ "gave_up" \notin untrue  BY <1>1, <1>6 DEF Keeping
<1>9. Settles(ready, replies, Remembering, Remembered, mine, droid[f])  BY <1>8 DEF KeptInv, Kept
<1>10. IF m \in Remembering THEN m \in Remembered => next = droid[f] ELSE next = mine
  <2>1. CASE m.kind = "answer" /\ wants[t] \in Changes
    <3>1. m \in Remembering <=> f \in DOMAIN wants[t]
      BY <2>1, <1>1, <1>2 DEF Remembering, ToUpdater
    <3>2. m \in Remembered <=> wants[t][f] = droid[f]  BY <1>2 DEF Remembered
    <3> QED BY <2>1, <3>1, <3>2, <1>5
  <2>2. CASE ~(m.kind = "answer" /\ wants[t] \in Changes)
    <3>1. m \notin Remembering  BY <2>2, <1>1, <1>2, <1>8 DEF Remembering
    <3> QED BY <2>2, <3>1, <1>5
  <2> QED BY <2>1, <2>2
<1> HIDE DEF mine, next
<1>11. Settles(Tail(ready), replies, Remembering, Remembered, next, droid[f])
  BY <1>4, <1>9, <1>10, SettlesResumed DEF m
<1>12. \A y \in Items(Tail(ready)) \cup Items(replies) :
         /\ y \in Remembering <=> y \in Remembering'
         /\ y \in Remembering \cap Remembered => y \in Remembered'
  <2> SUFFICES ASSUME NEW y \in Items(Tail(ready)) \cup Items(replies)
               PROVE  /\ y \in Remembering <=> y \in Remembering'
                      /\ y \in Remembering \cap Remembered => y \in Remembered'
    OBVIOUS
  <2>1. y \in Messages /\ (y.from \in Updaters \/ y.from = Session)
    BY <1>4, TailFacts, MessageFacts DEF Messages
  <2>2. ToUpdater(y) /\ ~y.plain => wants'[y.from] = wants[y.from]
    BY <1>1, <1>3, <1>7, <1>8, <2>1 DEF ToUpdater
  <2> QED BY <2>2 DEF Remembering, Remembered
<1>13. Settles(Tail(ready), replies, Remembering', Remembered', next, droid[f])
  BY <1>11, <1>12, SettlesSame
<1> QED BY <1>3, <1>13 DEF Kept, next

LEMMA KeptSession ==
  ASSUME SettingsTypeOK, CallsInv, KeptInv, ready # <<>>, ready' = Tail(ready),
         Head(ready).from = Session, SessionAnswered(Head(ready)),
         UNCHANGED <<droid, replies, chunk, changes>>
  PROVE  KeptInv'
<1> DEFINE m == Head(ready)
           f == "restrict_tools"
           mine == IF restrict = Null THEN droid[f] ELSE restrict
<1> SUFFICES ASSUME Keeping' PROVE Kept'  BY DEF KeptInv
<1>1. ~Told' /\ Items(ready') = {} /\ \A y \in Items(replies) : ~Replies(y)
  BY CallsSession
<1>2. m \in Incoming /\ m \in Messages /\ Replies(m)  BY FirstFacts
<1>3. m.from = Session /\ SessionAnswered(m) /\ ready' = Tail(ready)  OBVIOUS
<1> HIDE DEF m
<1>4. UNCHANGED <<callVars, restrict>> /\ SessionOutcome(m)  BY <1>2, <1>3, SessionFacts
<1>5. phase' \in {"open", "fork"} /\ "gave_up" \notin untrue
  BY <1>1, <1>4 DEF Keeping, SessionOutcome
<1>6. m.kind = "answer" => Told  BY <1>2, <1>3 DEF Told, ToSession
<1>7. Keeping \/ restrict = Null
  BY <1>4, <1>5, <1>6 DEF Keeping, SessionOutcome, Restricting
<1>8. Remembering' = Remembering /\ Remembered' = Remembered
  BY <1>4 DEF Remembering, Remembered, callVars
<1>9. Settles(Tail(ready), replies, Remembering, Remembered, mine, droid[f])
  <2>1. CASE Keeping
    <3>1. Settles(ready, replies, Remembering, Remembered, mine, droid[f])
      BY <2>1 DEF KeptInv, Kept
    <3>2. m \notin Remembering  BY <1>3 DEF Remembering, ToUpdater
    <3> QED BY <3>1, <3>2, SettlesResumed DEF SettingsTypeOK, m
  <2>2. CASE restrict = Null
    <3>1. Silent(Tail(ready), Remembering) /\ Silent(replies, Remembering)
      BY <1>1, <1>3 DEF Silent, Items, Remembering, ToUpdater
    <3> QED BY <2>2, <3>1 DEF Settles
  <2> QED BY <1>7, <2>1, <2>2
<1> QED BY <1>3, <1>4, <1>8, <1>9 DEF Kept

LEMMA KeptChanged ==
  ASSUME SettingsTypeOK, CallsInv, KeptInv, NEW c \in Changes, DroidChanges(c)
  PROVE  KeptInv'
<1> DEFINE u == Update(c)
<1> SUFFICES ASSUME Keeping' PROVE Kept'  BY DEF KeptInv
<1>1. /\ replies' = Append(replies, u) /\ "restrict_tools" \notin DOMAIN c
      /\ UNCHANGED <<phase, settings, restrict, loaded, callVars, ready, untrue>>
  BY DEF DroidChanges, copyVars
<1>2. (Told' <=> Told) /\ u \in Incoming /\ droid' = Applied(droid, c)  BY CallsTold
<1>3. u \notin Remembering  BY DEF Update, Remembering, ToUpdater, Replies
<1> HIDE DEF u
<1>4. Kept  BY <1>1, <1>2 DEF Keeping, KeptInv
<1>5. droid'["restrict_tools"] = droid["restrict_tools"]
  BY <1>1, <1>2 DEF Applied, Fields
<1>6. Remembering' = Remembering /\ Remembered' = Remembered
  BY <1>1, <1>5 DEF Remembering, Remembered, callVars
<1>7. Settles(ready, Append(replies, u), Remembering, Remembered,
              IF restrict = Null THEN droid["restrict_tools"] ELSE restrict, droid["restrict_tools"])
  BY <1>2, <1>3, <1>4, SettlesOther DEF Kept, SettingsTypeOK
<1> QED BY <1>1, <1>5, <1>6, <1>7 DEF Kept

LEMMA KeptTaken ==
  ASSUME SettingsTypeOK, CallsInv, KeptInv, DroidTakes
  PROVE  KeptInv'
<1> DEFINE r == Head(requests)
           x == Answer(r, droid')
           u == Update(r.change)
           f == "restrict_tools"
           next == IF restrict = Null THEN droid'[f] ELSE restrict
<1> SUFFICES ASSUME Keeping' PROVE Kept'  BY DEF KeptInv
<1>1. /\ r \in Outgoing /\ requests # <<>> /\ droid' \in Settings
      /\ UNCHANGED <<phase, settings, restrict, loaded, callVars, ready, untrue>>
  BY TakenFacts DEF copyVars
<1>2. /\ r \in Items(requests) /\ r.from \in Updaters \cup {Session}
      /\ r.from = Session =>
           \/ phase \in Opening \cup {"fork"} /\ r.method = phase
           \/ phase \in {"load", "load_back"} /\ r.method = "load"
           \/ phase \in Restricting /\ r.method = "update" /\ r.change = Restriction(restrict)
      /\ r.from # Session => r.method \in {"update", "operation"}
      /\ Told' => Told \/ (r.from = Session /\ phase \in Opening \cup Replacing)
  BY TakenTold
<1>3. \/ /\ r.method = "update" /\ droid' = Applied(droid, r.change)
         /\ x \in Incoming /\ u \in Incoming
         /\ replies' \in {Append(replies, x), Append(Append(replies, x), u),
                          Append(Append(replies, u), x)}
      \/ /\ r.method # "update" /\ x \in Incoming /\ replies' = Append(replies, x)
         /\ \/ r.method = "operation" /\ droid' = droid
            \/ DroidOpens(r)
      \/ replies' = Append(replies, Refusal(r)) /\ droid' = droid /\ Refusal(r) \in Incoming
  BY TakenFacts
<1>4. /\ x.kind = "answer" /\ x.from = r.from /\ x.plain = (r.method = "operation")
      /\ ~Replies(u) /\ Refusal(r).kind = "error" /\ Refusal(r) \notin Remembering
  BY DEF Answer, Update, Refusal, Replies, Remembering
<1> HIDE DEF r, x, u
<1>5. Remembering' = Remembering /\ u \notin Remembering
  BY <1>1, <1>4 DEF Remembering, ToUpdater, callVars
<1>6. droid'[f] = droid[f] => Remembered' = Remembered  BY <1>1 DEF Remembered, callVars
<1>7. ready \in Seq(Incoming) /\ replies \in Seq(Incoming)  BY DEF SettingsTypeOK
<1>8. "gave_up" \notin untrue  BY <1>1 DEF Keeping
<1>9. Keeping /\ droid'[f] = droid[f] =>
        Settles(ready, replies, Remembering, Remembered', next, droid'[f])
  BY <1>6 DEF KeptInv, Kept
\* While the session waits for an answer of its own, no answer to a task is under way.
<1>10. SessionOnly => Silent(ready, Remembering) /\ Silent(replies, Remembering)
  BY DEF SessionOnly, Silent, Messages, Items, Remembering
<1>11. Keeping \/ (r.from = Session /\ phase \in Opening \cup Restricting)
  BY <1>1, <1>2, <1>8 DEF Keeping, Replacing
<1> HIDE DEF next
<1>12. Settles(ready, replies', Remembering, Remembered', next, droid'[f])
  <2>1. CASE /\ r.method = "update" /\ droid' = Applied(droid, r.change)
             /\ x \in Incoming /\ u \in Incoming
             /\ replies' \in {Append(replies, x), Append(Append(replies, x), u),
                              Append(Append(replies, u), x)}
    <3>1. r.from = Session => phase \in Restricting /\ r.change = Restriction(restrict)
      BY <1>2, <2>1 DEF Opening
    <3>2. r.from # Session => r.change = wants[r.from]
      BY <1>2, <1>8, <2>1 DEF CallsInv, WaitInv
    <3>3. droid'[f] = IF f \in DOMAIN r.change THEN r.change[f] ELSE droid[f]
      BY <2>1 DEF Applied, Fields
    <3>4. x \in Remembering <=> r.from # Session /\ f \in DOMAIN r.change
      BY <2>1, <3>2, <1>4 DEF Remembering, ToUpdater, Replies
    <3>5. CASE r.from # Session /\ f \in DOMAIN r.change
      <4>1. x \in Remembered'  BY <3>2, <3>3, <3>5, <2>1, <1>1, <1>4 DEF Remembered, callVars
      <4>2. x \in Remembering \cap Remembered'  BY <3>4, <3>5, <4>1
      <4>3. Settles(ready, Append(replies, x), Remembering, Remembered', next, droid'[f])
        BY <4>2, <2>1, <1>7, SettlesRight
      <4>4. Settles(ready, Append(Append(replies, x), u), Remembering, Remembered', next, droid'[f])
        <5> DEFINE p == Append(replies, x)
        <5>1. p \in Seq(Incoming)  BY <2>1, <1>7, AppendFacts
        <5> HIDE DEF p
        <5> QED BY <5>1, <4>3, <2>1, <1>5, SettlesOther DEF p
      <4>5. Settles(ready, Append(Append(replies, u), x), Remembering, Remembered', next, droid'[f])
        <5> DEFINE p == Append(replies, u)
        <5>1. p \in Seq(Incoming)  BY <2>1, <1>7, AppendFacts
        <5> HIDE DEF p
        <5> QED BY <5>1, <4>2, <2>1, SettlesRight DEF p
      <4> QED BY <4>3, <4>4, <4>5, <2>1
    <3>6. CASE ~(r.from # Session /\ f \in DOMAIN r.change)
      <4>1. Settles(ready, replies, Remembering, Remembered', next, droid'[f])
        <5>1. CASE r.from # Session
          BY <5>1, <3>3, <3>6, <1>9, <1>11
        <5>2. CASE r.from = Session
          <6>1. f \in DOMAIN r.change /\ r.change[f] = restrict
            BY <5>2, <3>1 DEF Restriction
          <6>2. SessionOnly  BY <5>2, <3>1 DEF CallsInv, PhaseInv
          <6>3. next = droid'[f]  BY <6>1, <3>3 DEF next
          <6> QED BY <6>2, <6>3, <1>10 DEF Settles
        <5> QED BY <5>1, <5>2
      <4>2. x \notin Remembering  BY <3>4, <3>6
      <4> QED BY <4>1, <4>2, <2>1, <1>5, <1>7, SettlesTwo
    <3> QED BY <3>5, <3>6
  <2>2. CASE r.method = "operation" /\ x \in Incoming /\ replies' = Append(replies, x) /\ droid' = droid
    <3>1. r.from # Session /\ x \notin Remembering
      BY <2>2, <1>2, <1>4 DEF Remembering, Opening, Restricting
    <3>2. Settles(ready, replies, Remembering, Remembered', next, droid'[f])
      BY <3>1, <2>2, <1>9, <1>11
    <3> QED BY <3>1, <3>2, <2>2, <1>7, SettlesOther
  <2>3. CASE r.method # "update" /\ x \in Incoming /\ replies' = Append(replies, x) /\ DroidOpens(r)
    <3>1. r.from = Session /\ r.method \notin {"update", "operation"} /\ phase \notin Restricting
      BY <2>3, <1>2 DEF DroidOpens, Opening, Restricting
    <3>2. x \notin Remembering  BY <3>1, <1>4 DEF Remembering, ToUpdater
    <3>3. phase \in Opening \cup {"fork"} /\ r.method = phase
      BY <3>1, <1>1, <1>2 DEF Keeping, Opening, Restricting
    <3>4. CASE phase = "fork"
      <4>1. droid' = droid /\ Keeping  BY <2>3, <3>3, <3>4, <1>8 DEF DroidOpens, Keeping
      <4> QED BY <4>1, <3>2, <2>3, <1>7, <1>9, SettlesOther
    <3>5. CASE phase \in Opening
      <4>1. next = droid'[f]
        <5>1. CASE phase = "initialize"
          <6>1. droid' = [droid EXCEPT ![f] = restrict]  BY <5>1, <2>3, <3>3 DEF DroidOpens
          <6>2. droid'[f] = restrict  BY <6>1, <1>1 DEF SettingsTypeOK, Settings, Fields
          <6> QED BY <6>2 DEF next
        <5>2. CASE phase = "resume"
          <6>1. restrict = Null  BY <5>2 DEF CallsInv, PhaseInv
          <6> QED BY <6>1 DEF next
        <5> QED BY <5>1, <5>2, <3>5 DEF Opening
      <4>2. SessionOnly  BY <3>5 DEF CallsInv, PhaseInv
      <4>3. Settles(ready, replies, Remembering, Remembered', next, droid'[f])
        BY <4>1, <4>2, <1>10 DEF Settles
      <4> QED BY <4>3, <3>2, <2>3, <1>7, SettlesOther
    <3> QED BY <3>3, <3>4, <3>5
  <2>4. CASE replies' = Append(replies, Refusal(r)) /\ droid' = droid /\ Refusal(r) \in Incoming
    <3>1. CASE Keeping
      BY <3>1, <2>4, <1>4, <1>7, <1>9, SettlesOther
    <3>2. CASE ~Keeping
      <4>1. Told' => Told
        <5>1. Items(replies') = Items(replies) \cup {Refusal(r)}  BY <2>4, <1>7, AppendFacts
        <5> QED BY <5>1, <1>1, <1>4 DEF Told, Messages
      <4> QED BY <3>2, <4>1, <1>1 DEF Keeping
    <3> QED BY <3>1, <3>2
  <2> QED BY <1>3, <2>1, <2>2, <2>3, <2>4
<1> QED BY <1>1, <1>5, <1>12 DEF Kept, next

LEMMA KeptOpen ==
  ASSUME SettingsTypeOK, CallsInv, NEW method \in Opening, OpenBegins(method)
  PROVE  KeptInv'
<1>1. phase' \in Opening /\ ~Told'  BY CallsOpen DEF OpenBegins
<1> QED BY <1>1 DEF KeptInv, Keeping, Opening

LEMMA KeptInit == SettingsInit => KeptInv
<1> SUFFICES ASSUME SettingsInit PROVE ~Keeping  BY DEF KeptInv
<1>1. phase = "lazy"  BY DEF SettingsInit
<1> QED BY <1>1 DEF Keeping, Opening, Restricting

LEMMA KeptStep ==
  SettingsTypeOK /\ CallsInv /\ KeptInv /\ [SettingsNext]_settingsVars => KeptInv'
<1> SUFFICES ASSUME SettingsTypeOK, CallsInv, KeptInv, [SettingsNext]_settingsVars
             PROVE  KeptInv'
  OBVIOUS
<1>1. ASSUME NEW t \in Updaters, NEW c \in Changes, UpdateBegins(t, c) PROVE KeptInv'
  <2>1. Called(t, c) /\ UNCHANGED <<copyVars, droid, replies, chunk, ready, untrue>>
    BY <1>1 DEF UpdateBegins
  <2>2. call[t] = 0 /\ wants' = [wants EXCEPT ![t] = c]  BY <2>1 DEF Called
  <2>3. \A u \in Updaters \ {t} : wants'[u] = wants[u]  BY <2>2 DEF SettingsTypeOK
  <2> QED BY <2>1, <2>2, <2>3, WantsCalled, KeptWants DEF copyVars
<1>2. ASSUME NEW t \in Updaters, NEW op \in Ops, OperationBegins(t, op) PROVE KeptInv'
  <2>1. Called(t, Operation(op)) /\ UNCHANGED <<copyVars, droid, replies, chunk, ready, untrue>>
    BY <1>2 DEF OperationBegins
  <2>2. call[t] = 0 /\ wants' = [wants EXCEPT ![t] = Operation(op)]  BY <2>1 DEF Called
  <2>3. \A u \in Updaters \ {t} : wants'[u] = wants[u]  BY <2>2 DEF SettingsTypeOK
  <2> QED BY <2>1, <2>2, <2>3, WantsCalled, KeptWants DEF copyVars
<1>3. ASSUME NEW t \in Updaters, UpdateGivenUp(t) PROVE KeptInv'
  <2>1. /\ UNCHANGED <<copyVars, droid, replies, ready>>
        /\ untrue \subseteq untrue'
    BY <1>3 DEF UpdateGivenUp
  <2> QED BY <1>3, <2>1, WantsGivenUp, KeptWants DEF copyVars
<1>4. ASSUME NEW method \in Opening, OpenBegins(method) PROVE KeptInv'  BY <1>4, KeptOpen
<1>5. CASE ReplaceBegins  BY <1>5, KeptWants DEF ReplaceBegins, callVars
<1>6. CASE ReadChunk  BY <1>6, KeptWants DEF ReadChunk, copyVars, callVars
<1>7. CASE ReadSettings  BY <1>7, KeptRead
<1>8. CASE Resume
  <2>1. /\ ready # <<>> /\ ready' = Tail(ready) /\ UNCHANGED <<droid, replies, chunk, changes>>
        /\ \/ ~Waited(Head(ready)) /\ UNCHANGED <<copyVars, callVars, requests, untrue>>
           \/ Head(ready).from = Session /\ SessionAnswered(Head(ready))
           \/ /\ Head(ready).from \in Updaters /\ call[Head(ready).from] = Head(ready).id
              /\ UpdateAnswered(Head(ready).from, Head(ready))
    BY <1>8, ResumeFacts
  <2>2. CASE ~Waited(Head(ready)) /\ UNCHANGED <<copyVars, callVars, requests, untrue>>
    BY <2>1, <2>2, KeptStale
  <2>3. CASE Head(ready).from = Session /\ SessionAnswered(Head(ready))
    BY <2>1, <2>3, KeptSession
  <2>4. CASE /\ Head(ready).from \in Updaters /\ call[Head(ready).from] = Head(ready).id
             /\ UpdateAnswered(Head(ready).from, Head(ready))
    BY <2>1, <2>4, KeptAnswered
  <2> QED BY <2>1, <2>2, <2>3, <2>4
<1>9. CASE DroidTakes  BY <1>9, KeptTaken
<1>10. ASSUME NEW c \in Changes, DroidChanges(c) PROVE KeptInv'  BY <1>10, KeptChanged
<1>11. CASE UNCHANGED settingsVars  BY <1>11, KeptWants DEF settingsVars, copyVars, callVars
<1> QED BY <1>1, <1>2, <1>3, <1>4, <1>5, <1>6, <1>7, <1>8, <1>9, <1>10, <1>11 DEF SettingsNext

-----------------------------------------------------------------------------
(* The theorems *)

\* The variables of the settings keep their types: in particular every message under
\* way, and what the copy becomes of it, is one that the code could have made
\* (_session_operations.py:156, session.py:960).
THEOREM SettingsTypeCorrect == SettingsSpec => []SettingsTypeOK
<1>1. SettingsInit => SettingsTypeOK  BY SettingsTypeInit
<1>2. SettingsTypeOK /\ [SettingsNext]_settingsVars => SettingsTypeOK'  BY SettingsTypeStep
<1> QED BY <1>1, <1>2, PTL DEF SettingsSpec

\* Calls are answered in the order in which they were made, the session's own after
\* those of the tasks, and a task is answered what it asked for (protocol.py:171,
\* _session_operations.py:156).
THEOREM CallsCorrect == SettingsSpec => []CallsInv
<1>1. SettingsInit => CallsInv  BY CallsInit
<1>2. SettingsTypeOK /\ CallsInv /\ [SettingsNext]_settingsVars => CallsInv'  BY CallsStep
<1> QED BY <1>1, <1>2, SettingsTypeCorrect, PTL DEF SettingsSpec

\* When nothing is under way session.settings shows what is in force in the process, for
\* any tasks and changes, but for the four reasons that the model names
\* (_session_operations.py:177, session.py:1016).
THEOREM SettingsTrue == SettingsSpec => []SettingsConverge
<1>1. SettingsInit => SettledInv  BY SettledInit
<1>2. SettingsTypeOK /\ CallsInv /\ SettledInv /\ [SettingsNext]_settingsVars => SettledInv'
  BY SettledStep
<1>3. SettledInv => SettingsConverge
  <2> SUFFICES ASSUME SettledInv, phase = "open", Quiet, untrue = {},
                      NEW f \in Fields \ {"system_prompt"}
               PROVE  settings[f] = droid[f]
    BY DEF SettingsConverge
  <2>1. SettledAt(f)  BY DEF SettledInv, Showing
  <2>2. Settles(<<>>, <<>>, Setting(f), Right(f), Copy[f], droid[f])  BY <2>1 DEF SettledAt, Quiet
  <2>3. Copy[f] = droid[f]  BY <2>2, SettledEmpty
  <2> QED BY <2>3 DEF Copy, Restricting
<1> QED BY <1>1, <1>2, <1>3, SettingsTypeCorrect, CallsCorrect, PTL DEF SettingsSpec

\* The tool restriction that the program set last is in force when nothing is under way:
\* in the session, in every successor and in the source restored (session.py:985).
THEOREM RestrictionStays == SettingsSpec => []RestrictionKept
<1>1. SettingsInit => KeptInv  BY KeptInit
<1>2. SettingsTypeOK /\ CallsInv /\ KeptInv /\ [SettingsNext]_settingsVars => KeptInv'
  BY KeptStep
<1>3. KeptInv => RestrictionKept
  <2> SUFFICES ASSUME KeptInv, phase = "open", Quiet, "gave_up" \notin untrue, restrict # Null
               PROVE  droid["restrict_tools"] = restrict
    BY DEF RestrictionKept
  <2>1. Kept  BY DEF KeptInv, Keeping
  <2>2. Settles(<<>>, <<>>, Remembering, Remembered, restrict, droid["restrict_tools"])
    BY <2>1 DEF Kept, Quiet
  <2> QED BY <2>2, SettledEmpty
<1> QED BY <1>1, <1>2, <1>3, SettingsTypeCorrect, CallsCorrect, PTL DEF SettingsSpec
=============================================================================
