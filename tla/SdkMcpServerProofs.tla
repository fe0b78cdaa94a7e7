------------------------- MODULE SdkMcpServerProofs -------------------------
(***************************************************************************)
(* Theorems about SdkMcpServer for any number of callers, of calls and of   *)
(* tasks.                                                                  *)
(***************************************************************************)
EXTENDS SdkMcpServer, FiniteSetTheorems, TLAPS

-----------------------------------------------------------------------------
(* The line of the tasks *)

Kinds  == {"unmade", "start", "close_after_start", "close"}
Closes == {"close", "close_after_start"}

IsMade(t) == t <= made

\* A start that has not ended, and a task that those made after it wait for.
Coming(t) == kind[t] = "start" /\ phase[t] \in {"waiting", "working"}
Holds(t)  == phase[t] = "waiting" \/ Coming(t)

\* A task waits for an earlier one: a start for a close, a close for a start.
TasksMade ==
  \A t \in Tasks :
    /\ kind[t] = "unmade" <=> ~IsMade(t)
    /\ phase[t] = "unmade" <=> ~IsMade(t)
    /\ phase[t] = "waiting" => behind[t] \in Tasks /\ behind[t] < t
    /\ phase[t] = "waiting" /\ kind[t] = "start" => kind[behind[t]] \in Closes
    /\ kind[t] = "close_after_start" => behind[t] \in Tasks /\ kind[behind[t]] = "start"
    /\ kind[t] = "close" => phase[t] # "waiting"
    /\ kind[t] \in Closes => phase[t] # "failed"

NamesOK ==
  /\ startTask # None => kind[startTask] = "start"
  /\ closeTask # None => kind[closeTask] \in Closes

\* What is made after a task that holds the line waits for that task or for a later one.
InLine ==
  \A a, x \in Tasks : Holds(a) /\ IsMade(x) /\ a < x => phase[x] = "waiting" /\ behind[x] >= a

\* The state knows the end of the line: the start or, when there is none, the close.
TailKnown ==
  \A a \in Tasks : Holds(a) =>
    /\ ~Done(startTask)
    /\ startTask # None => startTask >= a
    /\ startTask = None => Live(closeTask) /\ closeTask >= a

StartBehindClose ==
  Live(startTask) /\ Live(closeTask) => phase[startTask] = "waiting" /\ behind[startTask] = closeTask

\* When close t ends there is no runtime.
Frees(t) == runtime \in {None, target[t]}

\* A start begins without a runtime: the close before it leaves none.
FreeAt(t) ==
  /\ kind[t] = "start" /\ phase[t] = "working" => runtime = None
  /\ kind[t] = "start" /\ phase[t] = "waiting" /\ phase[behind[t]] = "ok" => runtime = None
  /\ kind[t] = "start" /\ phase[t] = "waiting" /\ phase[behind[t]] = "working" => Frees(behind[t])
  /\ kind[t] = "close_after_start" /\ phase[t] = "waiting" /\ phase[behind[t]] = "failed" =>
       runtime = None

RuntimeFree ==
  /\ \A t \in Tasks : FreeAt(t)
  /\ startTask # None /\ phase[startTask] = "failed" => runtime = None
  /\ closeTask # None /\ phase[closeTask] = "working" => Frees(closeTask)

\* A server listens if it is the runtime or coming up, and a close at work has had a runtime.
ListensAt(t) == t \in running <=> t = runtime \/ (kind[t] = "start" /\ phase[t] = "working")
ClosesAt(t)  ==
  kind[t] \in Closes /\ phase[t] = "working" => target[t] \in Tasks /\ phase[target[t]] = "ok"

RunningIsKnown ==
  /\ \A t \in Tasks : ListensAt(t) /\ ClosesAt(t)
  /\ runtime # None => kind[runtime] = "start" /\ phase[runtime] = "ok"

LineInv == TasksMade /\ NamesOK /\ InLine /\ TailKnown /\ StartBehindClose /\ RuntimeFree /\ RunningIsKnown

LEMMA TasksAreNumbers == Tasks \subseteq Nat /\ None \notin Tasks
BY ServerAssumption DEF Tasks, None

\* create_task() leaves the tasks made before alone.
LEMMA CreateFacts ==
  ASSUME TasksOK, NEW k \in Kinds, NEW q \in Tasks \cup {None},
         NEW server \in Tasks \cup {None}, Create(k, q, server)
  PROVE  /\ made' = made + 1 /\ made' \in Tasks /\ made \in Nat
         /\ kind'[made'] = k /\ behind'[made'] = q /\ target'[made'] = server
         /\ phase'[made'] = IF q = None THEN "working" ELSE "waiting"
         /\ \A x \in Tasks \ {made'} : kind'[x] = kind[x] /\ behind'[x] = behind[x]
                                       /\ target'[x] = target[x] /\ phase'[x] = phase[x]
         /\ \A x \in Tasks : x # made' => (x <= made' <=> x <= made)
         /\ made' \in 0..MaxTasks
         /\ kind' \in [Tasks -> Kinds]
         /\ behind' \in [Tasks -> Tasks \cup {None}]
         /\ target' \in [Tasks -> Tasks \cup {None}]
         /\ phase' \in [Tasks -> {"unmade", "waiting", "working", "ok", "failed"}]
<1>0. made \in 0..MaxTasks
  BY DEF TasksOK
<1>1. made < MaxTasks /\ made' = made + 1
  BY DEF Create
<1>2. made' \in Tasks /\ made \in Nat /\ made' \in 0..MaxTasks
  <2>1. MaxTasks \in Nat
    BY ServerAssumption
  <2> QED BY <1>0, <1>1, <2>1 DEF Tasks
<1>3. \A x \in Tasks : x # made' => (x <= made' <=> x <= made)
  BY <1>1, <1>2, TasksAreNumbers
<1>4. /\ kind' = [kind EXCEPT ![made'] = k] /\ behind' = [behind EXCEPT ![made'] = q]
      /\ target' = [target EXCEPT ![made'] = server]
      /\ phase' = [phase EXCEPT ![made'] = IF q = None THEN "working" ELSE "waiting"]
  BY DEF Create
<1>5. /\ kind \in [Tasks -> Kinds]
      /\ behind \in [Tasks -> Tasks \cup {None}]
      /\ target \in [Tasks -> Tasks \cup {None}]
      /\ phase \in [Tasks -> {"unmade", "waiting", "working", "ok", "failed"}]
  BY DEF TasksOK, Kinds
<1> QED BY <1>1, <1>2, <1>3, <1>4, <1>5

\* What the invariant says of the tasks that state.start_task and state.close_task name.
LEMMA NamedTasks ==
  ASSUME StateOK, TasksOK, LineInv
  PROVE  /\ startTask # None => startTask \in Tasks /\ IsMade(startTask)
         /\ closeTask # None => closeTask \in Tasks /\ IsMade(closeTask)
         /\ runtime # None => runtime \in Tasks /\ IsMade(runtime)
         /\ Live(startTask) => Coming(startTask) /\ Holds(startTask)
         /\ Live(closeTask) => phase[closeTask] \in {"waiting", "working"}
         /\ ~Live(startTask) /\ ~Live(closeTask) => \A t \in Tasks : ~Holds(t)
<1>1. /\ startTask # None => startTask \in Tasks /\ kind[startTask] = "start" /\ IsMade(startTask)
      /\ closeTask # None => closeTask \in Tasks /\ kind[closeTask] \in Closes /\ IsMade(closeTask)
      /\ runtime # None => runtime \in Tasks /\ IsMade(runtime)
  BY DEF StateOK, LineInv, TasksMade, NamesOK, RunningIsKnown, Closes
<1>2. \A t \in Tasks : phase[t] \in {"unmade", "waiting", "working", "ok", "failed"}
  BY DEF TasksOK
<1>3. Live(startTask) => Coming(startTask) /\ Holds(startTask)
  BY <1>1, <1>2 DEF Live, Done, Coming, Holds, LineInv, TasksMade
<1>4. Live(closeTask) => phase[closeTask] \in {"waiting", "working"}
  BY <1>1, <1>2 DEF Live, Done, LineInv, TasksMade
<1>5. ~Live(startTask) /\ ~Live(closeTask) => \A t \in Tasks : ~Holds(t)
  BY DEF LineInv, TailKnown, Live
<1> QED BY <1>1, <1>3, <1>4, <1>5
\* A task made at the end of the line is in it, and does not disturb those made before.
LEMMA LineCreate ==
  ASSUME StateOK, TasksOK, LineInv, NEW k \in Kinds, NEW q \in Tasks \cup {None},
         NEW server \in Tasks \cup {None}, Create(k, q, server), kind'[made'] # "unmade",
         q # None => IsMade(q),
         kind'[made'] = "start" => q = None \/ kind[q] \in Closes,
         kind'[made'] = "close_after_start" => q # None /\ kind[q] = "start",
         kind'[made'] = "close" => q = None,
         \A a \in Tasks : Holds(a) => q # None /\ q >= a,
         runtime' = runtime
  PROVE  /\ TasksMade' /\ InLine'
         /\ \A x \in Tasks : x # made' => /\ Holds(x)' <=> Holds(x)
                                          /\ Frees(x)' <=> Frees(x)
                                          /\ FreeAt(x)' /\ ClosesAt(x)'
                                          /\ (x \in running' <=> x \in running) => ListensAt(x)'
         /\ runtime' # None => kind'[runtime'] = "start" /\ phase'[runtime'] = "ok"
         /\ runtime # made' /\ made' \notin running
<1>0. PICK n \in Tasks : n = made' /\ n = made + 1 /\ made \in Nat
  BY CreateFacts
<1>1. /\ n = made + 1 /\ made' = n /\ n \in Nat /\ made \in Nat
      /\ behind'[n] = q
      /\ phase'[n] = IF q = None THEN "working" ELSE "waiting"
      /\ \A x \in Tasks : x # n => /\ kind'[x] = kind[x] /\ behind'[x] = behind[x]
                                   /\ target'[x] = target[x] /\ phase'[x] = phase[x]
      /\ \A x \in Tasks : x # n => (IsMade(x)' <=> IsMade(x))
  BY <1>0, CreateFacts, TasksAreNumbers DEF IsMade
<1>2. \A x \in Tasks : IsMade(x) => x # n /\ x < n
  BY <1>1, TasksAreNumbers DEF IsMade
<1>3. IsMade(n)'
  BY <1>1 DEF IsMade
<1>4. \A x \in Tasks : x # n => (Holds(x)' <=> Holds(x))
  BY <1>1 DEF Holds, Coming
<1>5. TasksMade'
  <2>1. ASSUME NEW t \in Tasks, t # n
        PROVE  /\ kind'[t] = "unmade" <=> ~IsMade(t)'
               /\ phase'[t] = "unmade" <=> ~IsMade(t)'
               /\ phase'[t] = "waiting" => behind'[t] \in Tasks /\ behind'[t] < t
               /\ phase'[t] = "waiting" /\ kind'[t] = "start" => kind'[behind'[t]] \in Closes
               /\ kind'[t] = "close_after_start" =>
                    behind'[t] \in Tasks /\ kind'[behind'[t]] = "start"
               /\ kind'[t] = "close" => phase'[t] # "waiting"
               /\ kind'[t] \in Closes => phase'[t] # "failed"
    <3>1. phase[t] = "waiting" \/ kind[t] = "close_after_start" => behind[t] \in Tasks
      BY DEF LineInv, TasksMade
    <3>2. behind[t] \in Tasks /\ kind[behind[t]] # "unmade" => behind[t] # n
      BY <1>2 DEF LineInv, TasksMade
    <3>3. behind[t] \in Tasks /\ kind[behind[t]] # "unmade" => kind'[behind[t]] = kind[behind[t]]
      BY <1>1, <3>2
    <3> QED BY <1>1, <2>1, <3>1, <3>3 DEF LineInv, TasksMade, Closes
  <2>2. /\ kind'[n] # "unmade" /\ phase'[n] \in {"working", "waiting"}
        /\ phase'[n] = "waiting" => behind'[n] \in Tasks /\ behind'[n] < n
        /\ phase'[n] = "waiting" /\ kind'[n] = "start" => kind'[behind'[n]] \in Closes
        /\ kind'[n] = "close_after_start" => behind'[n] \in Tasks /\ kind'[behind'[n]] = "start"
        /\ kind'[n] = "close" => phase'[n] # "waiting"
    <3>1. q # None => q \in Tasks /\ q # n /\ q < n
      BY <1>2
    <3>2. q # None => kind'[q] = kind[q]
      BY <1>1, <3>1
    <3> QED BY <1>1, <3>1, <3>2
  <2> QED BY <1>3, <2>1, <2>2 DEF TasksMade
<1>6. InLine'
  <2> SUFFICES ASSUME NEW a \in Tasks, NEW x \in Tasks, Holds(a)', IsMade(x)', a < x
               PROVE  phase'[x] = "waiting" /\ behind'[x] >= a
    BY DEF InLine
  <2>1. a # n /\ Holds(a)
    BY <1>1, <1>4, TasksAreNumbers DEF IsMade
  <2>2. CASE x = n
    BY <1>1, <2>1, <2>2, TasksAreNumbers
  <2>3. CASE x # n
    <3>1. IsMade(x) /\ phase'[x] = phase[x] /\ behind'[x] = behind[x]
      BY <1>1, <2>3
    <3> QED BY <2>1, <3>1 DEF LineInv, InLine
  <2> QED BY <2>2, <2>3
<1>7. runtime # n /\ n \notin running /\ (runtime # None => runtime \in Tasks)
  <2>1. runtime # None => runtime \in Tasks /\ runtime # n
    BY <1>2, NamedTasks
  <2>2. kind[n] # "start"
    BY <1>2 DEF LineInv, TasksMade
  <2> QED BY <2>1, <2>2, TasksAreNumbers DEF LineInv, RunningIsKnown, ListensAt
<1>8. runtime' # None => kind'[runtime'] = "start" /\ phase'[runtime'] = "ok"
  BY <1>1, <1>7 DEF LineInv, RunningIsKnown
<1>9. ASSUME NEW x \in Tasks, x # n
      PROVE  /\ Frees(x)' <=> Frees(x)
             /\ FreeAt(x)' /\ ClosesAt(x)'
             /\ (x \in running' <=> x \in running) => ListensAt(x)'
  <2>1. /\ kind'[x] = kind[x] /\ behind'[x] = behind[x] /\ target'[x] = target[x]
        /\ phase'[x] = phase[x] /\ FreeAt(x) /\ ClosesAt(x) /\ ListensAt(x)
    BY <1>1, <1>9 DEF LineInv, RuntimeFree, RunningIsKnown
  <2>2. (x \in running' <=> x \in running) => ListensAt(x)'
    BY <2>1 DEF ListensAt
  <2>3. ClosesAt(x)'
    <3>1. kind[x] \in Closes /\ phase[x] = "working" =>
            target[x] \in Tasks /\ phase'[target[x]] = phase[target[x]]
      BY <1>1, <1>2, <2>1 DEF ClosesAt, LineInv, TasksMade
    <3> QED BY <2>1, <3>1 DEF ClosesAt
  <2>4. phase[x] = "waiting" => behind[x] \in Tasks /\ behind[x] # n
    BY <1>1, <1>9, TasksAreNumbers DEF LineInv, TasksMade, IsMade
  <2>5. phase[x] = "waiting" => /\ phase'[behind[x]] = phase[behind[x]]
                                /\ target'[behind[x]] = target[behind[x]]
    BY <1>1, <2>4
  <2>6. FreeAt(x)'
    BY <2>1, <2>5 DEF FreeAt, Frees
  <2> QED BY <2>1, <2>2, <2>3, <2>6 DEF Frees
<1> QED BY <1>0, <1>4, <1>5, <1>6, <1>7, <1>8, <1>9

\* A start is made at the end of the line: behind the close, or at once without one.
LEMMA LineNewStart ==
  ASSUME StateOK, TasksOK, LineInv, ~Live(startTask), runtime = None \/ Live(closeTask),
         Create("start", IF Live(closeTask) THEN closeTask ELSE None, None),
         startTask' = made', UNCHANGED <<runtime, closeTask>>,
         running' = IF Live(closeTask) THEN running ELSE running \cup {made'}
  PROVE  TasksOK' /\ LineInv'
<1>p. PICK q \in Tasks \cup {None} : q = IF Live(closeTask) THEN closeTask ELSE None
  BY NamedTasks DEF Live
<1>q. /\ q \in Tasks \cup {None} /\ None \in Tasks \cup {None} /\ "start" \in Kinds
      /\ q # None => IsMade(q) /\ kind[q] \in Closes
      /\ closeTask # None => closeTask \in Tasks /\ IsMade(closeTask)
      /\ q # None => q = closeTask /\ Live(q)
      /\ q = None <=> ~Live(closeTask)
  BY <1>p, NamedTasks DEF Live, Kinds, LineInv, NamesOK
<1>c. Create("start", q, None) /\ running' = IF q # None THEN running ELSE running \cup {made'}
  BY <1>p, <1>q
<1>h. \A a \in Tasks : Holds(a) => q # None /\ q >= a
  <2>1. \A a \in Tasks : Holds(a) => startTask = None
    BY DEF Live, LineInv, TailKnown
  <2> QED BY <1>q, <2>1 DEF LineInv, TailKnown
<1>0. PICK n \in Tasks : n = made' /\ n = made + 1 /\ made \in Nat
  BY <1>q, <1>c, CreateFacts
<1>1. /\ kind'[n] = "start" /\ behind'[n] = q
      /\ phase'[n] = IF q = None THEN "working" ELSE "waiting"
      /\ \A x \in Tasks : x # n => /\ kind'[x] = kind[x] /\ behind'[x] = behind[x]
                                   /\ target'[x] = target[x] /\ phase'[x] = phase[x]
  BY <1>0, <1>q, <1>c, CreateFacts
<1>2. closeTask # n /\ startTask' = n /\ n # None
  BY <1>0, <1>q, TasksAreNumbers DEF IsMade
<1>3. /\ TasksMade' /\ InLine'
      /\ \A x \in Tasks : x # n => /\ Holds(x)' <=> Holds(x)
                                   /\ Frees(x)' <=> Frees(x)
                                   /\ FreeAt(x)' /\ ClosesAt(x)'
                                   /\ (x \in running' <=> x \in running) => ListensAt(x)'
      /\ runtime' # None => kind'[runtime'] = "start" /\ phase'[runtime'] = "ok"
      /\ runtime # n /\ n \notin running
  <2>1. kind'[made'] = "start"
    BY <1>0, <1>1
  <2> QED BY <1>0, <1>q, <1>c, <1>h, <2>1, LineCreate
<1>4. TasksOK'
  <2>1. running' \subseteq Tasks
    BY <1>0, <1>c DEF TasksOK
  <2> QED BY <1>q, <1>c, <2>1, CreateFacts DEF TasksOK, Kinds
<1>5. closeTask # None => /\ kind'[closeTask] = kind[closeTask]
                          /\ phase'[closeTask] = phase[closeTask]
                          /\ Frees(closeTask)' <=> Frees(closeTask)
  <2>1. closeTask # None => Frees(closeTask)' <=> (runtime \in {None, target[closeTask]})
    BY <1>1, <1>2, <1>q DEF Frees
  <2> QED BY <1>1, <1>2, <1>q, <2>1 DEF Frees
<1>6. NamesOK'
  BY <1>1, <1>2, <1>5 DEF NamesOK, LineInv
<1>7. TailKnown'
  <2>1. ~Done(startTask)'
    BY <1>1, <1>2 DEF Done
  <2>2. \A a \in Tasks : Holds(a)' => n >= a
    BY <1>0, <1>3, TasksAreNumbers DEF TasksMade, Holds, Coming, IsMade
  <2> QED BY <1>2, <2>1, <2>2 DEF TailKnown
<1>8. StartBehindClose'
  BY <1>1, <1>2, <1>5, <1>q DEF StartBehindClose, Live, Done
<1>9. RuntimeFree'
  <2>1. FreeAt(n)'
    <3>1. q = None => runtime' = None
      BY <1>q
    <3>2. q # None => phase'[q] \notin {"ok", "failed"} /\ (phase'[q] = "working" => Frees(q)')
      BY <1>5, <1>q DEF Live, Done, LineInv, RuntimeFree, Frees
    <3> QED BY <1>1, <3>1, <3>2 DEF FreeAt, Frees
  <2>2. /\ startTask' # None /\ phase'[startTask'] = "failed" => runtime' = None
        /\ closeTask' # None /\ phase'[closeTask'] = "working" => Frees(closeTask)'
    BY <1>1, <1>2, <1>5 DEF LineInv, RuntimeFree
  <2> QED BY <1>3, <2>1, <2>2 DEF RuntimeFree
<1>10. RunningIsKnown'
  <2>1. ListensAt(n)' /\ ClosesAt(n)'
    BY <1>0, <1>1, <1>3, <1>c DEF ListensAt, ClosesAt, Closes
  <2>2. \A x \in Tasks : x # n => (x \in running' <=> x \in running)
    BY <1>0, <1>c
  <2> QED BY <1>3, <2>1, <2>2 DEF RunningIsKnown
<1> QED BY <1>3, <1>4, <1>6, <1>7, <1>8, <1>9, <1>10 DEF LineInv

\* A close is made behind the start that the state names, which the state then forgets.
LEMMA LineNewReclose ==
  ASSUME StateOK, TasksOK, LineInv, startTask # None,
         Create("close_after_start", startTask, None),
         startTask' = None, closeTask' = made', UNCHANGED <<runtime, running>>
  PROVE  TasksOK' /\ LineInv'
<1>q. /\ startTask \in Tasks /\ IsMade(startTask) /\ kind[startTask] = "start"
      /\ None \in Tasks \cup {None} /\ "close_after_start" \in Kinds
      /\ startTask \in Tasks \cup {None}
  BY NamedTasks DEF Kinds, LineInv, NamesOK
<1>h. \A a \in Tasks : Holds(a) => startTask # None /\ startTask >= a
  BY DEF LineInv, TailKnown
<1>0. PICK n \in Tasks : n = made' /\ n = made + 1 /\ made \in Nat
  BY <1>q, CreateFacts
<1>1. /\ kind'[n] = "close_after_start" /\ behind'[n] = startTask /\ phase'[n] = "waiting"
      /\ \A x \in Tasks : x # n => /\ kind'[x] = kind[x] /\ behind'[x] = behind[x]
                                   /\ target'[x] = target[x] /\ phase'[x] = phase[x]
  BY <1>0, <1>q, CreateFacts
<1>2. startTask # n /\ closeTask' = n /\ n # None
  BY <1>0, <1>q, TasksAreNumbers DEF IsMade
<1>3. /\ TasksMade' /\ InLine'
      /\ \A x \in Tasks : x # n => /\ Holds(x)' <=> Holds(x)
                                   /\ Frees(x)' <=> Frees(x)
                                   /\ FreeAt(x)' /\ ClosesAt(x)'
                                   /\ (x \in running' <=> x \in running) => ListensAt(x)'
      /\ runtime' # None => kind'[runtime'] = "start" /\ phase'[runtime'] = "ok"
      /\ runtime # n /\ n \notin running
  <2>1. kind'[made'] = "close_after_start"
    BY <1>0, <1>1
  <2> QED BY <1>0, <1>q, <1>h, <2>1, LineCreate
<1>4. TasksOK'
  <2>1. running' \subseteq Tasks
    BY DEF TasksOK
  <2> QED BY <1>q, <2>1, CreateFacts DEF TasksOK, Kinds
<1>6. NamesOK'
  BY <1>1, <1>2 DEF NamesOK, Closes
<1>7. TailKnown'
  <2>1. ~Done(startTask)' /\ Live(closeTask)'
    BY <1>1, <1>2 DEF Done, Live
  <2>2. \A a \in Tasks : Holds(a)' => n >= a
    BY <1>0, <1>3, TasksAreNumbers DEF TasksMade, Holds, Coming, IsMade
  <2> QED BY <1>2, <2>1, <2>2 DEF TailKnown
<1>8. StartBehindClose'
  BY DEF StartBehindClose, Live
<1>9. RuntimeFree'
  <2>1. FreeAt(n)'
    <3>1. phase'[startTask] = "failed" => runtime' = None
      BY <1>1, <1>2, <1>q DEF LineInv, RuntimeFree
    <3> QED BY <1>1, <3>1 DEF FreeAt
  <2>2. closeTask' # None /\ phase'[closeTask'] = "working" => Frees(closeTask)'
    BY <1>1, <1>2
  <2> QED BY <1>3, <2>1, <2>2 DEF RuntimeFree
<1>10. RunningIsKnown'
  <2>1. ListensAt(n)' /\ ClosesAt(n)'
    BY <1>0, <1>1, <1>3 DEF ListensAt, ClosesAt, Closes
  <2> QED BY <1>3, <2>1 DEF RunningIsKnown
<1> QED BY <1>3, <1>4, <1>6, <1>7, <1>8, <1>9, <1>10 DEF LineInv

\* With nothing under way a close takes the runtime at once.
LEMMA LineNewClose ==
  ASSUME StateOK, TasksOK, LineInv, ~Live(startTask), ~Live(closeTask), runtime # None,
         Create("close", None, runtime),
         closeTask' = made', UNCHANGED <<startTask, runtime, running>>
  PROVE  TasksOK' /\ LineInv'
<1>q. /\ None \in Tasks \cup {None} /\ "close" \in Kinds
      /\ runtime \in Tasks \cup {None} /\ runtime \in Tasks
      /\ startTask # None => startTask \in Tasks /\ IsMade(startTask)
      /\ phase[runtime] = "ok"
  BY NamedTasks DEF Kinds, LineInv, RunningIsKnown
<1>h. \A a \in Tasks : ~Holds(a)
  BY NamedTasks
<1>0. PICK n \in Tasks : n = made' /\ n = made + 1 /\ made \in Nat
  BY <1>q, CreateFacts
<1>1. /\ kind'[n] = "close" /\ phase'[n] = "working" /\ target'[n] = runtime
      /\ \A x \in Tasks : x # n => /\ kind'[x] = kind[x] /\ behind'[x] = behind[x]
                                   /\ target'[x] = target[x] /\ phase'[x] = phase[x]
  BY <1>0, <1>q, CreateFacts
<1>2. startTask # n /\ closeTask' = n /\ n # None
  BY <1>0, <1>q, TasksAreNumbers DEF IsMade
<1>3. /\ TasksMade' /\ InLine'
      /\ \A x \in Tasks : x # n => /\ Holds(x)' <=> Holds(x)
                                   /\ Frees(x)' <=> Frees(x)
                                   /\ FreeAt(x)' /\ ClosesAt(x)'
                                   /\ (x \in running' <=> x \in running) => ListensAt(x)'
      /\ runtime' # None => kind'[runtime'] = "start" /\ phase'[runtime'] = "ok"
      /\ runtime # n /\ n \notin running
  <2>1. kind'[made'] = "close"
    BY <1>0, <1>1
  <2> QED BY <1>0, <1>q, <1>h, <2>1, LineCreate
<1>4. TasksOK'
  <2>1. running' \subseteq Tasks
    BY DEF TasksOK
  <2> QED BY <1>q, <2>1, CreateFacts DEF TasksOK, Kinds
<1>5. startTask # None => kind'[startTask] = kind[startTask] /\ phase'[startTask] = phase[startTask]
  BY <1>1, <1>2, <1>q
<1>6. NamesOK'
  BY <1>1, <1>2, <1>5 DEF LineInv, NamesOK, Closes
<1>7. TailKnown'
  <2>1. \A a \in Tasks : ~Holds(a)'
    BY <1>1, <1>3, <1>h DEF Holds, Coming
  <2> QED BY <2>1 DEF TailKnown
<1>8. StartBehindClose'
  <2>1. ~Live(startTask)'
    BY <1>5 DEF Live, Done
  <2> QED BY <2>1 DEF StartBehindClose
<1>9. RuntimeFree'
  <2>1. FreeAt(n)' /\ Frees(n)'
    BY <1>1 DEF FreeAt, Frees
  <2>2. /\ startTask' # None /\ phase'[startTask'] = "failed" => runtime' = None
        /\ closeTask' # None /\ phase'[closeTask'] = "working" => Frees(closeTask)'
    <3>1. Frees(closeTask)'
      BY <1>1, <1>2 DEF Frees
    <3> QED BY <1>5, <3>1 DEF LineInv, RuntimeFree
  <2> QED BY <1>3, <2>1, <2>2 DEF RuntimeFree
<1>10. RunningIsKnown'
  <2>1. phase'[runtime] = "ok"
    BY <1>1, <1>3, <1>q
  <2>2. ListensAt(n)' /\ ClosesAt(n)'
    BY <1>0, <1>1, <1>3, <1>q, <2>1 DEF ListensAt, ClosesAt, Closes
  <2> QED BY <1>3, <2>2 DEF RunningIsKnown
<1> QED BY <1>3, <1>4, <1>6, <1>7, <1>8, <1>9, <1>10 DEF LineInv

\* Nothing of the line changes.
LEMMA LineFrame ==
  ASSUME TasksOK, LineInv,
         UNCHANGED <<runtime, startTask, closeTask, taskVars, running>>
  PROVE  TasksOK' /\ LineInv'
<1>1. TasksOK'
  BY DEF TasksOK, taskVars
<1>2. TasksMade' /\ NamesOK' /\ StartBehindClose'
  BY DEF LineInv, TasksMade, NamesOK, StartBehindClose, IsMade, Live, Done, taskVars
<1>3. InLine' /\ TailKnown'
  BY DEF LineInv, InLine, TailKnown, IsMade, Holds, Coming, Live, Done, taskVars
<1>4. RuntimeFree'
  BY DEF LineInv, RuntimeFree, FreeAt, Frees, taskVars
<1>5. RunningIsKnown'
  BY DEF LineInv, RunningIsKnown, ListensAt, ClosesAt, taskVars
<1> QED BY <1>1, <1>2, <1>3, <1>4, <1>5 DEF LineInv

-----------------------------------------------------------------------------
(* The steps of the tasks *)

\* A task at work, and one whose predecessor has ended, is at the head of the line.
LEMMA HeadOfLine ==
  ASSUME TasksOK, LineInv, NEW t \in Tasks,
         phase[t] = "working" \/ (phase[t] = "waiting" /\ Done(behind[t]))
  PROVE  IsMade(t) /\ \A a \in Tasks : Holds(a) => a >= t
<1>1. IsMade(t)
  BY DEF LineInv, TasksMade
<1>2. ASSUME NEW a \in Tasks, Holds(a), ~(a >= t) PROVE FALSE
  <2>1. a < t
    BY <1>2, TasksAreNumbers
  <2>2. phase[t] = "waiting" /\ behind[t] >= a
    BY <1>1, <1>2, <2>1 DEF LineInv, InLine
  <2>3. PICK b \in Tasks : b = behind[t]
    BY <2>2 DEF LineInv, TasksMade
  <2>4. phase[b] \in {"ok", "failed"} /\ b >= a /\ kind[b] # "unmade"
    BY <2>2, <2>3 DEF Done, LineInv, TasksMade
  <2>5. a # b
    BY <1>2, <2>4 DEF Holds, Coming
  <2>6. a < b /\ IsMade(b)
    BY <2>4, <2>5, TasksAreNumbers DEF LineInv, TasksMade
  <2> QED BY <1>2, <2>4, <2>6 DEF LineInv, InLine
<1> QED BY <1>1, <1>2

\* The head of the line gets on, or ends.
LEMMA Advance ==
  ASSUME StateOK, TasksOK, LineInv, NEW t \in Tasks, NEW p \in {"working", "ok", "failed"},
         p = "failed" => kind[t] = "start",
         phase[t] = "working" \/ (phase[t] = "waiting" /\ Done(behind[t])),
         phase[t] = "working" => p # "working",
         phase' = [phase EXCEPT ![t] = p],
         UNCHANGED <<startTask, closeTask, made, kind, behind>>
  PROVE  /\ TasksMade' /\ NamesOK' /\ InLine' /\ TailKnown' /\ StartBehindClose'
         /\ phase'[t] = p /\ \A x \in Tasks : x # t => phase'[x] = phase[x]
         /\ phase' \in [Tasks -> {"unmade", "waiting", "working", "ok", "failed"}]
<1>1. phase'[t] = p /\ \A x \in Tasks : x # t => phase'[x] = phase[x]
  BY DEF TasksOK
<1>2. phase' \in [Tasks -> {"unmade", "waiting", "working", "ok", "failed"}]
  BY DEF TasksOK
<1>3. IsMade(t) /\ kind[t] # "unmade" /\ \A a \in Tasks : Holds(a) => a >= t
  BY HeadOfLine DEF LineInv, TasksMade
<1>4. \A x \in Tasks : (IsMade(x)' <=> IsMade(x)) /\ (x # t => (Holds(x)' <=> Holds(x)))
  BY <1>1 DEF IsMade, Holds, Coming
<1>5. Holds(t)' <=> kind[t] = "start" /\ p = "working"
  BY <1>1 DEF Holds, Coming
<1>6. Holds(t)' => Holds(t)
  BY <1>5 DEF Holds, Coming
<1>7. TasksMade'
  <2>1. ASSUME NEW x \in Tasks, x # t
        PROVE  /\ kind'[x] = "unmade" <=> ~IsMade(x)'
               /\ phase'[x] = "unmade" <=> ~IsMade(x)'
               /\ phase'[x] = "waiting" => behind'[x] \in Tasks /\ behind'[x] < x
               /\ phase'[x] = "waiting" /\ kind'[x] = "start" => kind'[behind'[x]] \in Closes
               /\ kind'[x] = "close_after_start" =>
                    behind'[x] \in Tasks /\ kind'[behind'[x]] = "start"
               /\ kind'[x] = "close" => phase'[x] # "waiting"
               /\ kind'[x] \in Closes => phase'[x] # "failed"
    BY <1>1, <1>4, <2>1 DEF LineInv, TasksMade
  <2>2. /\ kind'[t] # "unmade" /\ phase'[t] = p /\ IsMade(t)'
        /\ kind'[t] = "close_after_start" => behind'[t] \in Tasks /\ kind'[behind'[t]] = "start"
        /\ kind'[t] \in Closes => p # "failed"
    BY <1>1, <1>3, <1>4 DEF LineInv, TasksMade, Closes
  <2> QED BY <2>1, <2>2 DEF TasksMade
<1>8. NamesOK'
  BY DEF LineInv, NamesOK
<1>9. InLine'
  <2> SUFFICES ASSUME NEW a \in Tasks, NEW x \in Tasks, Holds(a)', IsMade(x)', a < x
               PROVE  phase'[x] = "waiting" /\ behind'[x] >= a
    BY DEF InLine
  <2>1. Holds(a) /\ IsMade(x)
    BY <1>4, <1>6
  <2>2. x # t
    BY <1>3, <2>1, TasksAreNumbers
  <2> QED BY <1>1, <2>1, <2>2 DEF LineInv, InLine
<1>10. TailKnown'
  <2> SUFFICES ASSUME NEW a \in Tasks, Holds(a)'
               PROVE  /\ ~Done(startTask)'
                      /\ startTask # None => startTask >= a
                      /\ startTask = None => Live(closeTask)' /\ closeTask >= a
    BY DEF TailKnown
  <2>1. Holds(a) /\ a >= t
    BY <1>3, <1>4, <1>6
  <2>2. /\ ~Done(startTask)
        /\ startTask # None => startTask >= a
        /\ startTask = None => Live(closeTask) /\ closeTask >= a
    BY <2>1 DEF LineInv, TailKnown
  <2>3. CASE startTask # None /\ startTask # t
    <3>1. startTask \in Tasks
      BY <2>3 DEF StateOK
    <3> QED BY <1>1, <2>2, <2>3, <3>1 DEF Done
  <2>4. CASE startTask # None /\ startTask = t
    <3>1. a = t
      BY <2>1, <2>2, <2>4, TasksAreNumbers
    <3>2. p = "working"
      BY <1>5, <3>1
    <3> QED BY <1>1, <2>2, <2>4, <3>2 DEF Done
  <2>5. CASE startTask = None
    <3>1. closeTask \in Tasks /\ Live(closeTask) /\ closeTask >= a /\ kind[closeTask] # "start"
      BY <2>2, <2>5, NamedTasks DEF Live, LineInv, NamesOK, Closes
    <3>2. closeTask # t
      <4> SUFFICES ASSUME closeTask = t PROVE FALSE
        OBVIOUS
      <4>1. a = t
        BY <2>1, <3>1, TasksAreNumbers
      <4> QED BY <1>5, <3>1, <4>1
    <3> QED BY <1>1, <2>2, <2>5, <3>1, <3>2 DEF Live, Done
  <2> QED BY <2>3, <2>4, <2>5
<1>11. StartBehindClose'
  <2> SUFFICES ASSUME Live(startTask)', Live(closeTask)'
               PROVE  phase'[startTask] = "waiting" /\ behind[startTask] = closeTask
    BY DEF StartBehindClose
  <2>1. startTask \in Tasks /\ closeTask \in Tasks /\ kind[startTask] = "start"
    BY DEF Live, StateOK, LineInv, NamesOK
  <2>2. Live(startTask) /\ Live(closeTask)
    <3>1. ~Done(t)
      BY DEF Done
    <3> QED BY <1>1, <2>1, <3>1 DEF Live, Done
  <2>3. phase[startTask] = "waiting" /\ behind[startTask] = closeTask
    BY <2>2 DEF LineInv, StartBehindClose
  <2>4. startTask # t
    <3> SUFFICES ASSUME startTask = t PROVE FALSE
      OBVIOUS
    <3>1. Done(closeTask)
      BY <2>3
    <3> QED BY <2>2, <3>1 DEF Live
  <2> QED BY <1>1, <2>1, <2>3, <2>4
<1> QED BY <1>1, <1>2, <1>7, <1>8, <1>9, <1>10, <1>11

LEMMA StartProceedsKeepsLine ==
  ASSUME StateOK, TasksOK, LineInv, NEW t \in Tasks, StartProceeds(t)
  PROVE  TasksOK' /\ LineInv'
<1>0. /\ kind[t] = "start" /\ phase[t] = "waiting" /\ Done(behind[t])
      /\ phase' = [phase EXCEPT ![t] = "working"] /\ running' = running \cup {t}
      /\ UNCHANGED <<stateVars, made, kind, behind, target>>
  BY DEF StartProceeds
<1>1. /\ TasksMade' /\ NamesOK' /\ InLine' /\ TailKnown' /\ StartBehindClose'
      /\ phase'[t] = "working" /\ \A x \in Tasks : x # t => phase'[x] = phase[x]
      /\ phase' \in [Tasks -> {"unmade", "waiting", "working", "ok", "failed"}]
  BY <1>0, Advance DEF stateVars
<1>2. runtime' = None /\ runtime = None
  <2>1. kind[behind[t]] \in Closes /\ behind[t] \in Tasks
    BY <1>0 DEF LineInv, TasksMade
  <2>2. phase[behind[t]] = "ok"
    BY <1>0, <2>1 DEF Done, LineInv, TasksMade
  <2> QED BY <1>0, <2>2 DEF LineInv, RuntimeFree, FreeAt, stateVars
<1>3. TasksOK'
  BY <1>0, <1>1 DEF TasksOK
<1>4. RuntimeFree'
  BY <1>2 DEF RuntimeFree, FreeAt, Frees
<1>5. RunningIsKnown'
  <2>1. ASSUME NEW x \in Tasks PROVE ListensAt(x)' /\ ClosesAt(x)'
    <3>1. ListensAt(x) /\ ClosesAt(x)
      BY DEF LineInv, RunningIsKnown
    <3>2. ListensAt(x)'
      BY <1>0, <1>1, <1>2, <3>1 DEF ListensAt
    <3>3. ClosesAt(x)'
      BY <1>0, <1>1, <3>1 DEF ClosesAt, Closes
    <3> QED BY <3>2, <3>3
  <2> QED BY <1>2, <2>1 DEF RunningIsKnown
<1> QED BY <1>1, <1>3, <1>4, <1>5 DEF LineInv

\* What is known of the other tasks while a start is at work.
LEMMA StartAtWork ==
  ASSUME StateOK, TasksOK, LineInv, NEW t \in Tasks, kind[t] = "start", phase[t] = "working"
  PROVE  /\ runtime = None
         /\ \A x \in Tasks : x # t /\ kind[x] = "start" => phase[x] # "working"
         /\ \A x \in Tasks : phase[x] = "waiting" =>
              behind[x] = t \/ (behind[x] \in Tasks /\ phase[behind[x]] = "waiting")
         /\ ~Done(startTask)
         /\ closeTask # None => phase[closeTask] # "working"
<1>1. Holds(t) /\ IsMade(t) /\ \A a \in Tasks : Holds(a) => a >= t
  BY HeadOfLine DEF Holds, Coming
<1>2. \A x \in Tasks : IsMade(x) /\ t < x => phase[x] = "waiting" /\ behind[x] >= t
  BY <1>1 DEF LineInv, InLine
<1>3. runtime = None
  BY DEF LineInv, RuntimeFree, FreeAt
<1>4. ASSUME NEW x \in Tasks, x # t, kind[x] = "start", phase[x] = "working" PROVE FALSE
  <2>1. Holds(x) /\ IsMade(x)
    BY <1>4 DEF Holds, Coming, LineInv, TasksMade
  <2>2. t < x
    BY <1>1, <1>4, <2>1, TasksAreNumbers
  <2> QED BY <1>2, <1>4, <2>1, <2>2
<1>5. ASSUME NEW x \in Tasks, phase[x] = "waiting", behind[x] # t
      PROVE  behind[x] \in Tasks /\ phase[behind[x]] = "waiting"
  <2>1. Holds(x) /\ IsMade(x) /\ behind[x] \in Tasks
    BY <1>5 DEF Holds, LineInv, TasksMade
  <2>2. x # t
    BY <1>5
  <2>3. t < x
    BY <1>1, <2>1, <2>2, TasksAreNumbers
  <2>4. behind[x] >= t /\ behind[x] < x
    BY <1>2, <1>5, <2>1, <2>3 DEF LineInv, TasksMade
  <2>5. t < behind[x] /\ IsMade(behind[x])
    <3>1. kind[behind[x]] # "unmade"
      BY <1>5, <2>1 DEF LineInv, TasksMade, TasksOK, Closes
    <3>2. PICK b \in Tasks : b = behind[x]
      BY <2>1
    <3>3. IsMade(b)
      BY <3>1, <3>2 DEF LineInv, TasksMade
    <3> QED BY <1>5, <2>4, <3>2, <3>3, TasksAreNumbers
  <2> QED BY <1>2, <2>1, <2>5
<1>6. /\ ~Done(startTask)
      /\ startTask # None => startTask >= t
      /\ startTask = None => Live(closeTask) /\ closeTask >= t
  BY <1>1 DEF LineInv, TailKnown
<1>7. ASSUME closeTask # None, phase[closeTask] = "working" PROVE FALSE
  <2>1. closeTask \in Tasks /\ IsMade(closeTask) /\ kind[closeTask] # "start" /\ Live(closeTask)
    BY <1>7, NamedTasks DEF LineInv, NamesOK, Closes, Live, Done
  <2>2. ~(t < closeTask) /\ closeTask # t
    BY <1>2, <1>7, <2>1
  <2>3. startTask # None /\ startTask \in Tasks
    BY <1>6, <2>1, <2>2, TasksAreNumbers DEF StateOK
  <2>4. phase[startTask] = "waiting" /\ behind[startTask] = closeTask
    BY <1>6, <2>1, <2>3 DEF Live, LineInv, StartBehindClose
  <2> QED BY <1>5, <1>7, <2>2, <2>3, <2>4
<1> QED BY <1>3, <1>4, <1>5, <1>6, <1>7

LEMMA StartSucceedsKeepsLine ==
  ASSUME StateOK, TasksOK, LineInv, NEW t \in Tasks, StartSucceeds(t)
  PROVE  TasksOK' /\ LineInv'
<1>0. /\ kind[t] = "start" /\ phase[t] = "working" /\ phase' = [phase EXCEPT ![t] = "ok"]
      /\ runtime' = t /\ UNCHANGED <<startTask, closeTask, made, kind, behind, target, running>>
  BY DEF StartSucceeds, End
<1>1. /\ TasksMade' /\ NamesOK' /\ InLine' /\ TailKnown' /\ StartBehindClose'
      /\ phase'[t] = "ok" /\ \A x \in Tasks : x # t => phase'[x] = phase[x]
      /\ phase' \in [Tasks -> {"unmade", "waiting", "working", "ok", "failed"}]
  BY <1>0, Advance
<1>2. /\ runtime = None
      /\ \A x \in Tasks : x # t /\ kind[x] = "start" => phase[x] # "working"
      /\ \A x \in Tasks : phase[x] = "waiting" =>
           behind[x] = t \/ (behind[x] \in Tasks /\ phase[behind[x]] = "waiting")
      /\ ~Done(startTask)
      /\ closeTask # None => phase[closeTask] # "working"
  BY <1>0, StartAtWork
<1>3. TasksOK'
  BY <1>0, <1>1 DEF TasksOK
<1>4. RuntimeFree'
  <2>1. ASSUME NEW x \in Tasks PROVE FreeAt(x)'
    <3>1. kind[x] = "start" => phase'[x] # "working"
      BY <1>0, <1>1, <1>2
    <3>2. phase'[x] = "waiting" => x # t /\ phase[x] = "waiting"
      BY <1>1
    <3>3. phase'[x] = "waiting" => phase'[behind[x]] \in {"ok", "waiting"}
      BY <1>0, <1>1, <1>2, <3>2
    <3>4. phase'[x] = "waiting" /\ kind[x] = "start" => behind[x] # t
      BY <1>0, <3>2 DEF LineInv, TasksMade, Closes
    <3>5. phase'[x] = "waiting" /\ kind[x] = "start" => phase'[behind[x]] = "waiting"
      BY <1>1, <1>2, <3>2, <3>4
    <3> QED BY <1>0, <3>1, <3>3, <3>5 DEF FreeAt
  <2>2. /\ startTask # None => phase'[startTask] # "failed"
        /\ closeTask # None => phase'[closeTask] # "working"
    BY <1>1, <1>2, NamedTasks DEF Done
  <2> QED BY <1>0, <2>1, <2>2 DEF RuntimeFree
<1>5. RunningIsKnown'
  <2>1. ASSUME NEW x \in Tasks PROVE ListensAt(x)' /\ ClosesAt(x)'
    <3>1. ListensAt(x) /\ ClosesAt(x)
      BY DEF LineInv, RunningIsKnown
    <3>2. ListensAt(x)'
      BY <1>0, <1>1, <1>2, <3>1, TasksAreNumbers DEF ListensAt
    <3>3. ClosesAt(x)'
      BY <1>0, <1>1, <3>1 DEF ClosesAt, Closes
    <3> QED BY <3>2, <3>3
  <2> QED BY <1>0, <1>1, <2>1 DEF RunningIsKnown
<1> QED BY <1>1, <1>3, <1>4, <1>5 DEF LineInv

LEMMA StartFailsKeepsLine ==
  ASSUME StateOK, TasksOK, LineInv, NEW t \in Tasks, StartFails(t)
  PROVE  TasksOK' /\ LineInv'
<1>0. /\ kind[t] = "start" /\ phase[t] = "working" /\ phase' = [phase EXCEPT ![t] = "failed"]
      /\ running' = running \ {t} /\ UNCHANGED <<stateVars, made, kind, behind, target>>
  BY DEF StartFails, End
<1>1. /\ TasksMade' /\ NamesOK' /\ InLine' /\ TailKnown' /\ StartBehindClose'
      /\ phase'[t] = "failed" /\ \A x \in Tasks : x # t => phase'[x] = phase[x]
      /\ phase' \in [Tasks -> {"unmade", "waiting", "working", "ok", "failed"}]
  BY <1>0, Advance DEF stateVars
<1>2. runtime = None /\ runtime' = None
  BY <1>0 DEF LineInv, RuntimeFree, FreeAt, stateVars
<1>3. TasksOK'
  BY <1>0, <1>1 DEF TasksOK
<1>4. RuntimeFree'
  BY <1>2 DEF RuntimeFree, FreeAt, Frees
<1>5. RunningIsKnown'
  <2>1. ASSUME NEW x \in Tasks PROVE ListensAt(x)' /\ ClosesAt(x)'
    <3>1. ListensAt(x) /\ ClosesAt(x)
      BY DEF LineInv, RunningIsKnown
    <3>2. ListensAt(x)'
      BY <1>0, <1>1, <1>2, <3>1, TasksAreNumbers DEF ListensAt
    <3>3. ClosesAt(x)'
      BY <1>0, <1>1, <3>1 DEF ClosesAt, Closes
    <3> QED BY <3>2, <3>3
  <2> QED BY <1>2, <2>1 DEF RunningIsKnown
<1> QED BY <1>1, <1>3, <1>4, <1>5 DEF LineInv

LEMMA CloseProceedsKeepsLine ==
  ASSUME StateOK, TasksOK, LineInv, NEW t \in Tasks, CloseProceeds(t)
  PROVE  TasksOK' /\ LineInv'
<1>0. /\ kind[t] = "close_after_start" /\ phase[t] = "waiting" /\ Done(behind[t])
      /\ UNCHANGED <<stateVars, made, kind, behind, running>>
  BY DEF CloseProceeds
<1>1. CASE phase[behind[t]] = "ok" /\ runtime # None
  <2>0. phase' = [phase EXCEPT ![t] = "working"] /\ target' = [target EXCEPT ![t] = runtime]
    BY <1>1 DEF CloseProceeds
  <2>1. /\ TasksMade' /\ NamesOK' /\ InLine' /\ TailKnown' /\ StartBehindClose'
        /\ phase'[t] = "working" /\ \A x \in Tasks : x # t => phase'[x] = phase[x]
        /\ phase' \in [Tasks -> {"unmade", "waiting", "working", "ok", "failed"}]
    BY <1>0, <2>0, Advance DEF stateVars
  <2>2. /\ runtime \in Tasks /\ phase[runtime] = "ok" /\ kind[runtime] = "start"
        /\ runtime' = runtime /\ startTask' = startTask /\ closeTask' = closeTask
    BY <1>0, <1>1, NamedTasks DEF LineInv, RunningIsKnown, stateVars
  <2>3. /\ target'[t] = runtime /\ \A x \in Tasks : x # t => target'[x] = target[x]
        /\ target' \in [Tasks -> Tasks \cup {None}]
    BY <2>0, <2>2 DEF TasksOK
  <2>4. TasksOK'
    BY <1>0, <2>1, <2>3 DEF TasksOK
  <2>5. Frees(t)' /\ \A x \in Tasks : x # t => (Frees(x)' <=> Frees(x))
    BY <2>2, <2>3 DEF Frees
  <2>6. RuntimeFree'
    <3>1. ASSUME NEW x \in Tasks, x # t PROVE FreeAt(x)'
      <4>1. FreeAt(x) /\ phase'[x] = phase[x] /\ kind'[x] = kind[x] /\ behind'[x] = behind[x]
        BY <1>0, <2>1, <3>1 DEF LineInv, RuntimeFree
      <4>2. phase[x] = "waiting" => behind[x] \in Tasks
        BY DEF LineInv, TasksMade
      <4>3. CASE phase[x] = "waiting" /\ behind[x] = t
        <5>1. kind[x] # "close_after_start"
          BY <1>0, <4>3 DEF LineInv, TasksMade
        <5> QED BY <2>1, <2>5, <4>1, <4>3, <5>1 DEF FreeAt, Frees
      <4>4. CASE phase[x] = "waiting" /\ behind[x] # t
        <5>1. PICK b \in Tasks : b = behind[x] /\ b # t
          BY <4>2, <4>4
        <5>2. phase'[b] = phase[b] /\ target'[b] = target[b]
          BY <2>1, <2>3, <5>1
        <5> QED BY <2>2, <4>1, <4>4, <5>1, <5>2 DEF FreeAt, Frees
      <4>5. CASE phase[x] # "waiting"
        BY <2>2, <4>1, <4>5 DEF FreeAt
      <4> QED BY <4>3, <4>4, <4>5
    <3>2. FreeAt(t)'
      BY <1>0, <2>1 DEF FreeAt
    <3>3. startTask # None /\ phase'[startTask] = "failed" => runtime = None
      BY <2>1, NamedTasks DEF LineInv, RuntimeFree
    <3>4. closeTask # None /\ phase'[closeTask] = "working" => Frees(closeTask)'
      <4> SUFFICES ASSUME NEW k \in Tasks, k = closeTask, phase'[k] = "working" PROVE Frees(k)'
        BY <2>2, NamedTasks DEF Frees
      <4> QED BY <2>1, <2>5, TasksAreNumbers DEF LineInv, RuntimeFree, Frees
    <3>5. \A x \in Tasks : FreeAt(x)'
      BY <3>1, <3>2
    <3> QED BY <2>2, <3>3, <3>4, <3>5 DEF RuntimeFree, Frees
  <2>7. RunningIsKnown'
    <3>1. ASSUME NEW x \in Tasks PROVE ListensAt(x)' /\ ClosesAt(x)'
      <4>1. ListensAt(x) /\ ClosesAt(x)
        BY DEF LineInv, RunningIsKnown
      <4>2. ListensAt(x)'
        BY <1>0, <2>1, <2>2, <4>1 DEF ListensAt
      <4>3. x # t => ClosesAt(x)'
        BY <1>0, <2>1, <2>3, <4>1 DEF ClosesAt
      <4>4. ClosesAt(t)'
        BY <1>0, <2>1, <2>2, <2>3 DEF ClosesAt
      <4> QED BY <4>2, <4>3, <4>4
    <3>2. runtime' # None => kind'[runtime'] = "start" /\ phase'[runtime'] = "ok"
      BY <1>0, <2>1, <2>2
    <3> QED BY <3>1, <3>2 DEF RunningIsKnown
  <2> QED BY <2>1, <2>4, <2>6, <2>7 DEF LineInv
<1>2. CASE ~(phase[behind[t]] = "ok" /\ runtime # None)
  <2>0. phase' = [phase EXCEPT ![t] = "ok"] /\ UNCHANGED target
    BY <1>2 DEF CloseProceeds
  <2>1. /\ TasksMade' /\ NamesOK' /\ InLine' /\ TailKnown' /\ StartBehindClose'
        /\ phase'[t] = "ok" /\ \A x \in Tasks : x # t => phase'[x] = phase[x]
        /\ phase' \in [Tasks -> {"unmade", "waiting", "working", "ok", "failed"}]
    BY <1>0, <2>0, Advance DEF stateVars
  <2>2. runtime = None /\ runtime' = None
    BY <1>0, <1>2 DEF Done, LineInv, RuntimeFree, FreeAt, stateVars
  <2>3. TasksOK'
    BY <1>0, <2>0, <2>1 DEF TasksOK
  <2>4. RuntimeFree'
    BY <2>2 DEF RuntimeFree, FreeAt, Frees
  <2>5. RunningIsKnown'
    <3>1. ASSUME NEW x \in Tasks PROVE ListensAt(x)' /\ ClosesAt(x)'
      <4>1. ListensAt(x) /\ ClosesAt(x)
        BY DEF LineInv, RunningIsKnown
      <4>2. ListensAt(x)'
        BY <1>0, <2>1, <2>2, <4>1 DEF ListensAt
      <4>3. ClosesAt(x)'
        BY <1>0, <2>0, <2>1, <4>1 DEF ClosesAt
      <4> QED BY <4>2, <4>3
    <3> QED BY <2>2, <3>1 DEF RunningIsKnown
  <2> QED BY <2>1, <2>3, <2>4, <2>5 DEF LineInv
<1> QED BY <1>1, <1>2

LEMMA CloseServerKeepsLine ==
  ASSUME StateOK, TasksOK, LineInv, NEW t \in Tasks, CloseServer(t)
  PROVE  TasksOK' /\ LineInv'
<1>0. /\ kind[t] \in Closes /\ phase[t] = "working" /\ phase' = [phase EXCEPT ![t] = "ok"]
      /\ running' = running \ {target[t]}
      /\ runtime' = IF runtime = target[t] THEN None ELSE runtime
      /\ UNCHANGED <<startTask, closeTask, made, kind, behind, target>>
  BY DEF CloseServer, Closes
<1>1. /\ TasksMade' /\ NamesOK' /\ InLine' /\ TailKnown' /\ StartBehindClose'
      /\ phase'[t] = "ok" /\ \A x \in Tasks : x # t => phase'[x] = phase[x]
      /\ phase' \in [Tasks -> {"unmade", "waiting", "working", "ok", "failed"}]
  BY <1>0, Advance DEF Closes
<1>2. target[t] \in Tasks /\ phase[target[t]] = "ok"
  BY <1>0 DEF LineInv, RunningIsKnown, ClosesAt
<1>3. TasksOK'
  BY <1>0, <1>1 DEF TasksOK
<1>4. RuntimeFree'
  <2>1. CASE runtime' = None
    BY <2>1 DEF RuntimeFree, FreeAt, Frees
  <2>2. CASE runtime' # None
    <3>1. runtime' = runtime /\ runtime # None /\ ~Frees(t)
      BY <1>0, <2>2 DEF Frees
    <3>2. \A x \in Tasks : x # t => (Frees(x)' <=> Frees(x))
      BY <1>0, <3>1 DEF Frees
    <3>3. ASSUME NEW x \in Tasks, x # t PROVE FreeAt(x)'
      <4>1. FreeAt(x) /\ phase'[x] = phase[x] /\ kind'[x] = kind[x] /\ behind'[x] = behind[x]
        BY <1>0, <1>1, <3>3 DEF LineInv, RuntimeFree
      <4>2. phase[x] = "waiting" => behind[x] \in Tasks
        BY DEF LineInv, TasksMade
      <4>3. CASE phase[x] = "waiting" /\ behind[x] = t
        <5>1. kind[x] # "start"
          BY <1>0, <3>1, <4>1, <4>3 DEF FreeAt
        <5> QED BY <1>1, <4>1, <4>3, <5>1 DEF FreeAt
      <4>4. CASE phase[x] = "waiting" /\ behind[x] # t
        <5>1. PICK b \in Tasks : b = behind[x] /\ b # t
          BY <4>2, <4>4
        <5>2. phase'[b] = phase[b] /\ target'[b] = target[b]
          BY <1>0, <1>1, <5>1
        <5> QED BY <3>1, <4>1, <4>4, <5>1, <5>2 DEF FreeAt, Frees
      <4>5. CASE phase[x] # "waiting"
        BY <3>1, <4>1, <4>5 DEF FreeAt
      <4> QED BY <4>3, <4>4, <4>5
    <3>4. FreeAt(t)'
      BY <1>0, <1>1 DEF FreeAt
    <3>5. startTask # None /\ phase'[startTask] = "failed" => runtime = None
      BY <1>1, NamedTasks DEF LineInv, RuntimeFree
    <3>6. closeTask # None /\ phase'[closeTask] = "working" => Frees(closeTask)'
      <4> SUFFICES ASSUME NEW k \in Tasks, k = closeTask, phase'[k] = "working" PROVE Frees(k)'
        BY <1>0, NamedTasks DEF Frees
      <4> QED BY <1>0, <1>1, <3>2, TasksAreNumbers DEF LineInv, RuntimeFree, Frees
    <3>7. \A x \in Tasks : FreeAt(x)'
      BY <3>3, <3>4
    <3> QED BY <1>0, <3>1, <3>5, <3>6, <3>7 DEF RuntimeFree, Frees
  <2> QED BY <2>1, <2>2
<1>5. RunningIsKnown'
  <2>1. ASSUME NEW x \in Tasks PROVE ListensAt(x)' /\ ClosesAt(x)'
    <3>1. ListensAt(x) /\ ClosesAt(x)
      BY DEF LineInv, RunningIsKnown
    <3>2. CASE x = target[t]
      <4>1. phase'[x] = "ok" /\ x \notin running' /\ runtime' # x
        BY <1>0, <1>1, <1>2, <3>2, TasksAreNumbers
      <4> QED BY <4>1 DEF ListensAt, ClosesAt
    <3>3. CASE x # target[t]
      <4>1. (x \in running' <=> x \in running) /\ (runtime' = x <=> runtime = x)
        BY <1>0, <3>3, TasksAreNumbers
      <4>2. ListensAt(x)'
        BY <1>0, <1>1, <3>1, <4>1 DEF ListensAt, Closes
      <4>3. ClosesAt(x)'
        BY <1>0, <1>1, <3>1 DEF ClosesAt
      <4> QED BY <4>2, <4>3
    <3> QED BY <3>2, <3>3
  <2>2. runtime' # None => kind'[runtime'] = "start" /\ phase'[runtime'] = "ok"
    BY <1>0, <1>1, NamedTasks DEF LineInv, RunningIsKnown
  <2> QED BY <2>1, <2>2 DEF RunningIsKnown
<1> QED BY <1>1, <1>3, <1>4, <1>5 DEF LineInv

-----------------------------------------------------------------------------
(* The callers *)

\* state.start_waiters counts those inside start().
Starting == {c \in Callers : pc[c] \in {"starting", "started", "start_failed"}}
CountOK  == waiters = Cardinality(Starting)
AwaitsOK == \A c \in Callers : pc[c] # "idle" => awaits[c] \in Tasks

TypeInv == TypeOK /\ CountOK /\ AwaitsOK

LEMMA LineStep ==
  ASSUME TypeInv, LineInv, [Next]_vars
  PROVE  TasksOK' /\ LineInv'
<1> USE DEF TypeInv, TypeOK
<1>1. ASSUME NEW t \in Tasks, TaskStep(t) PROVE TasksOK' /\ LineInv'
  BY <1>1, StartProceedsKeepsLine, StartSucceedsKeepsLine, StartFailsKeepsLine,
     CloseProceedsKeepsLine, CloseServerKeepsLine DEF TaskStep
<1>2. ASSUME NEW c \in Callers, StartWaits(c) PROVE TasksOK' /\ LineInv'
  <2>1. CASE Live(startTask)
    BY <1>2, <2>1, LineFrame DEF StartWaits
  <2>2. CASE ~Live(startTask)
    BY <1>2, <2>2, LineNewStart DEF StartWaits
  <2> QED BY <2>1, <2>2
<1>3. ASSUME NEW c \in Callers, Abandon(c) PROVE TasksOK' /\ LineInv'
  <2>1. CASE waiters' = 0 /\ startTask = awaits[c]
    <3>1. startTask # None
      BY <1>3, <2>1, TasksAreNumbers DEF Abandon, AwaitsOK
    <3> QED BY <1>3, <2>1, <3>1, LineNewReclose DEF Abandon
  <2>2. CASE ~(waiters' = 0 /\ startTask = awaits[c])
    BY <1>3, <2>2, LineFrame DEF Abandon
  <2> QED BY <2>1, <2>2
<1>4. ASSUME NEW c \in Callers, CloseWaits(c) PROVE TasksOK' /\ LineInv'
  <2>1. CASE Live(startTask)
    BY <1>4, <2>1, LineNewReclose DEF CloseWaits, Live
  <2>2. CASE ~Live(startTask) /\ Live(closeTask)
    BY <1>4, <2>2, LineFrame DEF CloseWaits
  <2>3. CASE ~Live(startTask) /\ ~Live(closeTask)
    BY <1>4, <2>3, LineNewClose DEF CloseWaits
  <2> QED BY <2>1, <2>2, <2>3
<1>5. ASSUME NEW c \in Callers,
             StartAtOnce(c) \/ StartReturns(c) \/ CloseAtOnce(c) \/ CloseReturns(c) \/ CancelClose(c)
      PROVE  TasksOK' /\ LineInv'
  BY <1>5, LineFrame DEF StartAtOnce, StartReturns, CloseAtOnce, CloseReturns, CancelClose, stateVars
<1>6. CASE UNCHANGED vars
  BY <1>6, LineFrame DEF vars, stateVars
<1> QED BY <1>1, <1>2, <1>3, <1>4, <1>5, <1>6 DEF Next

\* Ending a task resolves a future of its callers: it sends none of them away.
LEMMA EndKeepsCallers ==
  ASSUME CallersOK, CountOK, AwaitsOK, NEW t \in Tasks, NEW p \in {"ok", "failed"}, End(t, p),
         UNCHANGED <<waiters, awaits, calls>>
  PROVE  CallersOK' /\ CountOK' /\ AwaitsOK'
<1>1. pc' = [c \in Callers |->
               IF pc[c] = "starting" /\ awaits[c] = t
                 THEN (IF p = "ok" THEN "started" ELSE "start_failed") ELSE pc[c]]
  BY DEF End
<1>2. \A c \in Callers :
         /\ pc'[c] \in {"idle", "starting", "started", "start_failed", "closing"}
         /\ pc[c] = "idle" => pc'[c] = "idle"
         /\ pc'[c] \in {"starting", "started", "start_failed"}
              <=> pc[c] \in {"starting", "started", "start_failed"}
  BY <1>1 DEF CallersOK
<1>3. Starting' = Starting
  BY <1>2 DEF Starting
<1>4. pc' \in [Callers -> {"idle", "starting", "started", "start_failed", "closing"}]
  BY <1>1, <1>2
<1>5. CallersOK'
  BY <1>4 DEF CallersOK
<1>6. CountOK'
  BY <1>3 DEF CountOK
<1>7. AwaitsOK'
  BY <1>2 DEF AwaitsOK
<1> QED BY <1>5, <1>6, <1>7

LEMMA CountFacts ==
  ASSUME CallersOK
  PROVE  /\ IsFiniteSet(Starting) /\ Cardinality(Starting) \in 0..Cardinality(Callers)
         /\ Cardinality(Callers) \in Nat
<1>1. IsFiniteSet(Callers) /\ Starting \subseteq Callers
  BY ServerAssumption DEF Starting
<1>2. /\ IsFiniteSet(Starting) /\ Cardinality(Starting) <= Cardinality(Callers)
      /\ Cardinality(Starting) \in Nat /\ Cardinality(Callers) \in Nat
  BY <1>1, FS_Subset, FS_CardinalityType
<1> QED BY <1>2

LEMMA CountStep ==
  ASSUME CallersOK, CountOK, NEW c \in Callers,
         NEW p \in {"idle", "starting", "started", "start_failed", "closing"},
         pc' = [pc EXCEPT ![c] = p],
         \/ /\ p = "starting" /\ pc[c] = "idle" /\ waiters' = waiters + 1
         \/ /\ p = "idle" /\ pc[c] \in {"starting", "started", "start_failed"}
            /\ waiters' = waiters - 1
         \/ /\ p \in {"idle", "closing"} /\ pc[c] \in {"idle", "closing"} /\ waiters' = waiters
  PROVE  CountOK' /\ waiters' \in 0..Cardinality(Callers)
         /\ pc' \in [Callers -> {"idle", "starting", "started", "start_failed", "closing"}]
<1>1. /\ pc' \in [Callers -> {"idle", "starting", "started", "start_failed", "closing"}]
      /\ pc'[c] = p /\ \A d \in Callers : d # c => pc'[d] = pc[d]
  BY DEF CallersOK
<1>2. CASE p = "starting" /\ pc[c] = "idle" /\ waiters' = waiters + 1
  <2>1. Starting' = Starting \cup {c} /\ c \notin Starting
    BY <1>1, <1>2 DEF Starting
  <2>2. Cardinality(Starting') = Cardinality(Starting) + 1
    BY <2>1, CountFacts, FS_AddElement
  <2>3. Starting' \subseteq Callers /\ IsFiniteSet(Callers)
    BY <2>1, ServerAssumption DEF Starting
  <2>4. Cardinality(Starting') <= Cardinality(Callers)
    BY <2>3, FS_Subset
  <2> QED BY <1>1, <1>2, <2>2, <2>4, CountFacts DEF CountOK
<1>3. CASE /\ p = "idle" /\ pc[c] \in {"starting", "started", "start_failed"}
           /\ waiters' = waiters - 1
  <2>1. Starting' = Starting \ {c} /\ c \in Starting
    BY <1>1, <1>3 DEF Starting
  <2>2. Cardinality(Starting') = Cardinality(Starting) - 1 /\ IsFiniteSet(Starting')
    BY <2>1, CountFacts, FS_RemoveElement
  <2>3. Cardinality(Starting') \in Nat
    BY <2>2, FS_CardinalityType
  <2> QED BY <1>1, <1>3, <2>2, <2>3, CountFacts DEF CountOK
<1>4. CASE p \in {"idle", "closing"} /\ pc[c] \in {"idle", "closing"} /\ waiters' = waiters
  <2>1. Starting' = Starting
    BY <1>1, <1>4 DEF Starting
  <2> QED BY <1>1, <1>4, <2>1, CountFacts DEF CountOK
<1> QED BY <1>2, <1>3, <1>4

LEMMA CallsFacts ==
  ASSUME CallersOK, NEW c \in Callers, Calls(c)
  PROVE  pc[c] = "idle" /\ calls' \in [Callers -> 0..MaxCalls]
<1>1. calls[c] + 1 \in 0..MaxCalls
  <2>1. calls[c] \in 0..MaxCalls /\ calls[c] < MaxCalls
    BY DEF CallersOK, Calls
  <2> QED BY <2>1, ServerAssumption
<1> QED BY <1>1 DEF CallersOK, Calls

LEMMA TypeStep ==
  ASSUME TypeInv, LineInv, [Next]_vars
  PROVE  TypeInv'
<1>0. StateOK /\ TasksOK /\ CallersOK /\ HistoryOK /\ CountOK /\ AwaitsOK
  BY DEF TypeInv, TypeOK
<1>1. TasksOK'
  BY LineStep
<1>q. SUFFICES StateOK' /\ CallersOK' /\ HistoryOK' /\ CountOK' /\ AwaitsOK'
  BY <1>1 DEF TypeInv, TypeOK
<1>n. /\ startTask # None => startTask \in Tasks
      /\ closeTask # None => closeTask \in Tasks
      /\ runtime # None => runtime \in Tasks
  BY <1>0, NamedTasks
<1>2. ASSUME NEW t \in Tasks, TaskStep(t)
      PROVE  StateOK' /\ CallersOK' /\ HistoryOK' /\ CountOK' /\ AwaitsOK'
  <2>1. CASE StartProceeds(t) \/ CloseProceeds(t)
    BY <1>0, <2>1 DEF StartProceeds, CloseProceeds, stateVars, historyVars, StateOK, CallersOK,
                      HistoryOK, CountOK, Starting, AwaitsOK
  <2>2. CASE StartSucceeds(t)
    <3>1. CallersOK' /\ CountOK' /\ AwaitsOK'
      BY <1>0, <2>2, EndKeepsCallers DEF StartSucceeds
    <3> QED BY <1>0, <2>2, <3>1 DEF StartSucceeds, historyVars, StateOK, HistoryOK
  <2>3. CASE StartFails(t)
    <3>1. CallersOK' /\ CountOK' /\ AwaitsOK'
      BY <1>0, <2>3, EndKeepsCallers DEF StartFails, stateVars
    <3> QED BY <1>0, <2>3, <3>1 DEF StartFails, stateVars, historyVars, StateOK, HistoryOK
  <2>4. CASE CloseServer(t)
    <3>1. StateOK'
      BY <1>0, <2>4 DEF CloseServer, StateOK
    <3> QED BY <1>0, <2>4, <3>1 DEF CloseServer, historyVars, CallersOK, HistoryOK, CountOK,
                                    Starting, AwaitsOK
  <2> QED BY <1>2, <2>1, <2>2, <2>3, <2>4 DEF TaskStep
<1>3. ASSUME NEW c \in Callers, StartAtOnce(c)
      PROVE  StateOK' /\ CallersOK' /\ HistoryOK' /\ CountOK' /\ AwaitsOK'
  <2>1. HistoryOK' /\ StateOK'
    BY <1>0, <1>3, <1>n DEF StartAtOnce, StartCalled, HistoryOK, stateVars, StateOK
  <2>2. CallersOK'
    BY <1>0, <1>3, CallsFacts DEF StartAtOnce, stateVars, CallersOK
  <2> QED BY <1>0, <1>3, <2>1, <2>2 DEF StartAtOnce, stateVars, CountOK, Starting, AwaitsOK
<1>4. ASSUME NEW c \in Callers, StartWaits(c)
      PROVE  StateOK' /\ CallersOK' /\ HistoryOK' /\ CountOK' /\ AwaitsOK'
  <2>1. startTask' \in Tasks
    <3>1. CASE Live(startTask)
      BY <1>4, <1>n, <3>1 DEF StartWaits, Live
    <3>2. CASE ~Live(startTask)
      <4>1. startTask' = made' /\ made < MaxTasks /\ made' = made + 1 /\ made \in 0..MaxTasks
        BY <1>0, <1>4, <3>2 DEF StartWaits, Create, TasksOK
      <4> QED BY <4>1, ServerAssumption DEF Tasks
    <3> QED BY <3>1, <3>2
  <2>2. /\ pc[c] = "idle" /\ calls' \in [Callers -> 0..MaxCalls] /\ waiters' = waiters + 1
        /\ pc' = [pc EXCEPT ![c] = "starting"] /\ awaits' = [awaits EXCEPT ![c] = startTask']
        /\ UNCHANGED <<runtime, closeTask, kept>> /\ StartCalled
    BY <1>0, <1>4, CallsFacts DEF StartWaits, Waits
  <2>3. CountOK' /\ waiters' \in 0..Cardinality(Callers)
        /\ pc' \in [Callers -> {"idle", "starting", "started", "start_failed", "closing"}]
    BY <1>0, <2>2, CountStep
  <2>4. AwaitsOK' /\ awaits' \in [Callers -> Tasks \cup {None}]
    BY <1>0, <2>1, <2>2 DEF AwaitsOK, CallersOK
  <2>5. StateOK' /\ HistoryOK'
    BY <1>0, <2>1, <2>2 DEF StateOK, HistoryOK, StartCalled
  <2> QED BY <2>2, <2>3, <2>4, <2>5 DEF CallersOK
<1>5. ASSUME NEW c \in Callers, StartReturns(c)
      PROVE  StateOK' /\ CallersOK' /\ HistoryOK' /\ CountOK' /\ AwaitsOK'
  <2>1. CountOK' /\ waiters' \in 0..Cardinality(Callers)
        /\ pc' \in [Callers -> {"idle", "starting", "started", "start_failed", "closing"}]
    BY <1>0, <1>5, CountStep DEF StartReturns
  <2>2. AwaitsOK' /\ awaits[c] \in Tasks
    BY <1>0, <1>5 DEF StartReturns, AwaitsOK, CallersOK
  <2>3. HistoryOK'
    BY <1>0, <1>5, <2>2 DEF StartReturns, HistoryOK
  <2> QED BY <1>0, <1>5, <2>1, <2>2, <2>3 DEF StartReturns, StateOK, CallersOK
<1>6. ASSUME NEW c \in Callers, Abandon(c)
      PROVE  StateOK' /\ CallersOK' /\ HistoryOK' /\ CountOK' /\ AwaitsOK'
  <2>1. CountOK' /\ waiters' \in 0..Cardinality(Callers)
        /\ pc' \in [Callers -> {"idle", "starting", "started", "start_failed", "closing"}]
    <3>1. /\ pc' = [pc EXCEPT ![c] = "idle"] /\ waiters' = waiters - 1
          /\ pc[c] \in {"starting", "started", "start_failed"}
      BY <1>6 DEF Abandon
    <3> QED BY <1>0, <3>1, CountStep
  <2>2. AwaitsOK' /\ HistoryOK'
    BY <1>0, <1>6 DEF Abandon, AwaitsOK, CallersOK, HistoryOK, historyVars
  <2>3. CASE waiters' = 0 /\ startTask = awaits[c]
    <3>1. /\ startTask' = None /\ closeTask' = made' /\ runtime' = runtime
          /\ made < MaxTasks /\ made' = made + 1 /\ made \in 0..MaxTasks
          /\ awaits' = awaits /\ calls' = calls
      BY <1>0, <1>6, <2>3 DEF Abandon, Create, TasksOK
    <3>2. closeTask' \in Tasks
      BY <3>1, ServerAssumption DEF Tasks
    <3> QED BY <1>0, <2>1, <2>2, <3>1, <3>2 DEF StateOK, CallersOK
  <2>4. CASE ~(waiters' = 0 /\ startTask = awaits[c])
    BY <1>0, <1>6, <2>1, <2>2, <2>4 DEF Abandon, StateOK, CallersOK
  <2> QED BY <2>3, <2>4
<1>7. ASSUME NEW c \in Callers, CloseAtOnce(c)
      PROVE  StateOK' /\ CallersOK' /\ HistoryOK' /\ CountOK' /\ AwaitsOK'
  <2>1. HistoryOK' /\ StateOK'
    BY <1>0, <1>7 DEF CloseAtOnce, HistoryOK, stateVars, StateOK
  <2>2. CallersOK'
    BY <1>0, <1>7, CallsFacts DEF CloseAtOnce, stateVars, CallersOK
  <2> QED BY <1>0, <1>7, <2>1, <2>2 DEF CloseAtOnce, stateVars, CountOK, Starting, AwaitsOK
<1>8. ASSUME NEW c \in Callers, CloseWaits(c)
      PROVE  StateOK' /\ CallersOK' /\ HistoryOK' /\ CountOK' /\ AwaitsOK'
  <2>1. closeTask' \in Tasks /\ startTask' \in {None, startTask}
    <3>1. CASE ~Live(startTask) /\ Live(closeTask)
      BY <1>8, <1>n, <3>1 DEF CloseWaits, Live
    <3>2. CASE Live(startTask) \/ ~Live(closeTask)
      <4>1. closeTask' = made' /\ made < MaxTasks /\ made' = made + 1 /\ made \in 0..MaxTasks
        BY <1>0, <1>8, <3>2 DEF CloseWaits, Create, TasksOK
      <4>2. startTask' \in {None, startTask}
        BY <1>8 DEF CloseWaits
      <4> QED BY <4>1, <4>2, ServerAssumption DEF Tasks
    <3> QED BY <3>1, <3>2
  <2>2. /\ pc[c] = "idle" /\ calls' \in [Callers -> 0..MaxCalls]
        /\ pc' = [pc EXCEPT ![c] = "closing"] /\ awaits' = [awaits EXCEPT ![c] = closeTask']
        /\ since' = since \cup {c} /\ UNCHANGED <<runtime, waiters, kept, stopped>>
    BY <1>0, <1>8, CallsFacts DEF CloseWaits, Waits
  <2>3. CountOK' /\ waiters' \in 0..Cardinality(Callers)
        /\ pc' \in [Callers -> {"idle", "starting", "started", "start_failed", "closing"}]
    BY <1>0, <2>2, CountStep
  <2>4. AwaitsOK' /\ awaits' \in [Callers -> Tasks \cup {None}]
    BY <1>0, <2>1, <2>2 DEF AwaitsOK, CallersOK
  <2>5. StateOK' /\ HistoryOK'
    BY <1>0, <2>1, <2>2 DEF StateOK, HistoryOK
  <2> QED BY <2>2, <2>3, <2>4, <2>5 DEF CallersOK
<1>9. ASSUME NEW c \in Callers, CloseReturns(c) \/ CancelClose(c)
      PROVE  StateOK' /\ CallersOK' /\ HistoryOK' /\ CountOK' /\ AwaitsOK'
  <2>1. /\ pc[c] = "closing" /\ pc' = [pc EXCEPT ![c] = "idle"] /\ since' = since \ {c}
        /\ UNCHANGED <<stateVars, awaits, calls, kept>>
    BY <1>9 DEF CloseReturns, CancelClose
  <2>2. CountOK' /\ waiters' \in 0..Cardinality(Callers)
        /\ pc' \in [Callers -> {"idle", "starting", "started", "start_failed", "closing"}]
    BY <1>0, <2>1, CountStep DEF stateVars
  <2>3. stopped' \in BOOLEAN
    BY <1>0, <1>9 DEF CloseReturns, CancelClose, HistoryOK
  <2>4. AwaitsOK' /\ HistoryOK'
    BY <1>0, <2>1, <2>3 DEF AwaitsOK, CallersOK, HistoryOK
  <2> QED BY <1>0, <2>1, <2>2, <2>4 DEF StateOK, CallersOK, stateVars
<1>10. CASE UNCHANGED vars
  BY <1>0, <1>10 DEF vars, stateVars, historyVars, StateOK, CallersOK, HistoryOK, CountOK,
                     Starting, AwaitsOK
<1> QED BY <1>2, <1>3, <1>4, <1>5, <1>6, <1>7, <1>8, <1>9, <1>10 DEF Next

LEMMA ServerInit == Init => TypeInv /\ LineInv
<1> SUFFICES ASSUME Init PROVE TypeInv /\ LineInv
  OBVIOUS
<1> USE DEF Init
<1>1. Starting = {} /\ Cardinality(Starting) = 0
  BY FS_EmptySet DEF Starting
<1>2. CountOK /\ waiters \in 0..Cardinality(Callers)
  BY <1>1, ServerAssumption, FS_CardinalityType DEF CountOK
<1>3. StateOK /\ HistoryOK /\ AwaitsOK
  BY DEF StateOK, HistoryOK, AwaitsOK
<1>4. TasksOK /\ CallersOK
  BY <1>2, ServerAssumption DEF TasksOK, CallersOK
<1>5. \A t \in Tasks : ~Holds(t) /\ ~IsMade(t)
  BY TasksAreNumbers, ServerAssumption DEF Holds, Coming, IsMade, Tasks
<1>6. TasksMade /\ NamesOK /\ InLine /\ TailKnown /\ StartBehindClose
  BY <1>5 DEF TasksMade, NamesOK, InLine, TailKnown, StartBehindClose, Live, Closes
<1>7. RuntimeFree /\ RunningIsKnown
  BY TasksAreNumbers DEF RuntimeFree, FreeAt, Frees, RunningIsKnown, ListensAt, ClosesAt
<1> QED BY <1>2, <1>3, <1>4, <1>6, <1>7 DEF TypeInv, TypeOK, LineInv

\* The state stays in its types; in particular the count of waiters, which every
\* start() and every abandon() moves by one, stays between zero and the callers.
THEOREM ServerTypeCorrect == Spec => []TypeOK
<1>1. TypeInv /\ LineInv /\ [Next]_vars => TypeInv' /\ LineInv'
  BY LineStep, TypeStep
<1>2. TypeInv => TypeOK
  BY DEF TypeInv
<1> QED BY ServerInit, <1>1, <1>2, PTL DEF Spec

LEMMA ServerInvariant == Spec => [](TypeInv /\ LineInv)
<1>1. TypeInv /\ LineInv /\ [Next]_vars => TypeInv' /\ LineInv'
  BY LineStep, TypeStep
<1> QED BY ServerInit, <1>1, PTL DEF Spec

-----------------------------------------------------------------------------
(* No server is lost *)

\* Whatever overlap of starts, closes and cancelled callers: at most one server of the
\* handle listens, and the one that does is coming up or is the runtime, so that a
\* later close() finds it.
THEOREM ServerNoStray == Spec => []NoStrayServer
<1>1. ASSUME TypeInv, LineInv PROVE NoStrayServer
  <2>0. StateOK /\ TasksOK /\ running \subseteq Tasks
    BY <1>1 DEF TypeInv, TypeOK, TasksOK
  <2>1. \A t \in running : t = runtime \/ (kind[t] = "start" /\ phase[t] = "working")
    BY <1>1, <2>0 DEF LineInv, RunningIsKnown, ListensAt
  <2>2. ASSUME NEW t \in running, NEW u \in running PROVE t = u
    <3>1. CASE kind[t] = "start" /\ phase[t] = "working"
      BY <1>1, <2>0, <2>1, <3>1, StartAtWork, TasksAreNumbers
    <3>2. CASE kind[u] = "start" /\ phase[u] = "working"
      BY <1>1, <2>0, <2>1, <3>2, StartAtWork, TasksAreNumbers
    <3> QED BY <2>1, <3>1, <3>2
  <2>3. Cardinality(running) <= 1
    <3>1. CASE running = {}
      BY <3>1, FS_EmptySet
    <3>2. CASE running # {}
      <4>1. PICK t \in running : TRUE
        BY <3>2
      <4>2. running = {t}
        BY <2>2, <4>1
      <4> QED BY <4>2, FS_Singleton
    <3> QED BY <3>1, <3>2
  <2> QED BY <2>1, <2>3 DEF NoStrayServer
<1> QED BY <1>1, ServerInvariant, PTL

-----------------------------------------------------------------------------
(* A close() keeps its promise *)

Quiet == runtime = None /\ \A t \in Tasks : ~Coming(t)

\* What a close() under way, which no start() has overtaken, waits for: a task that leaves
\* nothing behind when it ends, with every start that is coming ahead of it.
ClosingAt(c) ==
  /\ pc[c] = "closing" /\ awaits[c] \in Tasks /\ kind[awaits[c]] \in Closes
  /\ phase[awaits[c]] = "waiting" => \A t \in Tasks : Coming(t) => t < awaits[c]
  /\ phase[awaits[c]] = "working" => Frees(awaits[c]) /\ \A t \in Tasks : ~Coming(t)
  /\ phase[awaits[c]] = "ok" => Quiet

SinceClosing == (stopped => Quiet) /\ \A c \in since : ClosingAt(c)

LEMMA ClosingKept ==
  ASSUME NEW c \in Callers, ClosingAt(c), NEW x \in Tasks, x = awaits[c],
         pc'[c] = pc[c], awaits'[c] = x,
         kind'[x] = kind[x], phase'[x] = phase[x], target'[x] = target[x],
         runtime' \in {None, runtime}, \A t \in Tasks : Coming(t)' => Coming(t)
  PROVE  ClosingAt(c)'
<1>1. Quiet => Quiet'
  BY DEF Quiet
<1>2. Frees(x) => Frees(x)'
  BY DEF Frees
<1> QED BY <1>1, <1>2 DEF ClosingAt, Frees

LEMMA QuietKept ==
  ASSUME Quiet, runtime' \in {None, runtime}, \A t \in Tasks : Coming(t)' => Coming(t)
  PROVE  Quiet'
BY DEF Quiet

\* A new close stands behind every start that is coming, and leaves the other tasks alone.
LEMMA CloseMade ==
  ASSUME StateOK, TasksOK, LineInv, NEW k \in Closes, NEW q \in Tasks \cup {None},
         NEW server \in Tasks \cup {None}, Create(k, q, server)
  PROVE  /\ \A x \in Tasks : kind[x] # "unmade" =>
              kind'[x] = kind[x] /\ phase'[x] = phase[x] /\ target'[x] = target[x]
         /\ \A t \in Tasks : Coming(t)' => Coming(t)
         /\ \A t \in Tasks : Coming(t) => t < made'
<1>1. k \in Kinds
  BY DEF Closes, Kinds
<1>2. PICK n \in Tasks : n = made' /\ n = made + 1 /\ made \in Nat
  BY <1>1, CreateFacts
<1>3. /\ kind'[n] = k
      /\ \A x \in Tasks : x # n => /\ kind'[x] = kind[x] /\ phase'[x] = phase[x]
                                   /\ target'[x] = target[x]
  BY <1>1, <1>2, CreateFacts
<1>4. \A x \in Tasks : kind[x] # "unmade" => x < n /\ x # n
  BY <1>2, TasksAreNumbers DEF LineInv, TasksMade, IsMade
<1>5. \A t \in Tasks : Coming(t)' => Coming(t)
  BY <1>3 DEF Coming, Closes
<1>6. \A t \in Tasks : Coming(t) => t < n
  BY <1>4 DEF Coming
<1> QED BY <1>2, <1>3, <1>4, <1>5, <1>6

LEMMA SinceTaskStep ==
  ASSUME TypeInv, LineInv, SinceClosing, NEW t \in Tasks, TaskStep(t)
  PROVE  SinceClosing'
<1>0. StateOK /\ TasksOK /\ CallersOK /\ HistoryOK /\ AwaitsOK
  BY DEF TypeInv, TypeOK
<1>1. since' = since /\ stopped' = stopped /\ awaits' = awaits /\ since \subseteq Callers
  BY <1>0 DEF TaskStep, StartProceeds, StartSucceeds, StartFails, CloseProceeds, CloseServer,
              historyVars, HistoryOK
<1>2. \A c \in since : ClosingAt(c) /\ pc[c] = "closing"
  BY DEF SinceClosing, ClosingAt
<1>3. \A c \in since : pc'[c] = pc[c]
  BY <1>0, <1>1, <1>2 DEF TaskStep, StartProceeds, StartSucceeds, StartFails, CloseProceeds,
                          CloseServer, End
<1>4. CASE kind[t] = "start"
  <2>1. /\ phase[t] \in {"waiting", "working"} /\ UNCHANGED <<kind, target>>
        /\ \E p : phase' = [phase EXCEPT ![t] = p]
    BY <1>4 DEF TaskStep, StartProceeds, StartSucceeds, StartFails, CloseProceeds, CloseServer, End
  <2>2. Coming(t)
    BY <1>4, <2>1 DEF Coming
  <2>3. \A x \in Tasks : x # t => phase'[x] = phase[x]
    BY <1>0, <2>1 DEF TasksOK
  <2>4. ~stopped
    BY <2>2 DEF SinceClosing, Quiet
  <2>5. \A x \in Tasks : Coming(x)' => Coming(x)
    BY <2>1, <2>2, <2>3 DEF Coming
  <2>6. ASSUME NEW c \in since PROVE ClosingAt(c)'
    <3>1. PICK x \in Tasks : x = awaits[c]
      BY <1>2 DEF ClosingAt
    <3>2. ClosingAt(c) /\ pc'[c] = "closing" /\ awaits'[c] = x /\ kind'[x] = kind[x]
      BY <1>1, <1>2, <1>3, <2>1, <3>1
    <3>3. kind[x] \in Closes /\ x # t
      BY <1>4, <3>1, <3>2 DEF ClosingAt, Closes
    <3>4. phase'[x] = phase[x] /\ phase[x] \notin {"working", "ok"}
      BY <2>2, <2>3, <3>1, <3>2, <3>3 DEF ClosingAt, Quiet
    <3> QED BY <2>5, <3>1, <3>2, <3>3, <3>4 DEF ClosingAt
  <2> QED BY <1>1, <2>4, <2>6 DEF SinceClosing
<1>5. CASE kind[t] # "start"
  <2>1. CloseProceeds(t) \/ CloseServer(t)
    BY <1>5 DEF TaskStep, StartProceeds, StartSucceeds, StartFails
  <2>2. /\ kind' = kind /\ \E p \in {"working", "ok"} : phase' = [phase EXCEPT ![t] = p]
        /\ \A x \in Tasks : x # t => target'[x] = target[x]
        /\ runtime' \in {None, runtime}
    BY <1>0, <2>1 DEF CloseProceeds, CloseServer, TasksOK, stateVars
  <2>3. \A x \in Tasks : x # t => phase'[x] = phase[x]
    BY <1>0, <2>2 DEF TasksOK
  <2>4. \A x \in Tasks : Coming(x)' => Coming(x)
    BY <1>5, <2>2, <2>3 DEF Coming
  <2>5. phase[t] = "working" \/ (phase[t] = "waiting" /\ Done(behind[t]))
    BY <2>1 DEF CloseProceeds, CloseServer
  <2>6. \A x \in Tasks : Coming(x) => x >= t
    BY <1>0, <2>5, HeadOfLine DEF Holds
  <2>7. ASSUME NEW c \in since, awaits[c] = t PROVE ClosingAt(c)'
    <3>1. ClosingAt(c) /\ pc'[c] = "closing" /\ awaits'[c] = t /\ kind[t] \in Closes
      BY <1>1, <1>2, <1>3, <2>7 DEF ClosingAt
    <3>2. \A x \in Tasks : ~Coming(x)
      <4>1. \A x \in Tasks : Coming(x) => x < t
        BY <2>5, <2>7, <3>1 DEF ClosingAt
      <4> QED BY <2>6, <4>1, TasksAreNumbers
    <3>3. \A x \in Tasks : ~Coming(x)'
      BY <2>4, <3>2
    <3>4. CASE CloseServer(t)
      <4>1. Frees(t)
        BY <2>7, <3>1, <3>4 DEF ClosingAt, CloseServer
      <4>2. runtime' = None /\ phase'[t] = "ok"
        BY <1>0, <3>4, <4>1 DEF CloseServer, Frees, TasksOK
      <4> QED BY <2>2, <3>1, <3>3, <4>2 DEF ClosingAt, Quiet
    <3>5. CASE CloseProceeds(t)
      <4>1. CASE phase[behind[t]] = "ok" /\ runtime # None
        <5>1. phase'[t] = "working" /\ target'[t] = runtime /\ runtime' = runtime
          BY <1>0, <3>5, <4>1 DEF CloseProceeds, TasksOK, stateVars
        <5> QED BY <2>2, <3>1, <3>3, <5>1 DEF ClosingAt, Frees
      <4>2. CASE ~(phase[behind[t]] = "ok" /\ runtime # None)
        <5>1. phase'[t] = "ok" /\ runtime' = runtime
          BY <1>0, <3>5, <4>2 DEF CloseProceeds, TasksOK, stateVars
        <5>2. runtime = None
          BY <3>5, <4>2 DEF CloseProceeds, Done, LineInv, RuntimeFree, FreeAt
        <5> QED BY <2>2, <3>1, <3>3, <5>1, <5>2 DEF ClosingAt, Quiet
      <4> QED BY <4>1, <4>2
    <3> QED BY <2>1, <3>4, <3>5
  <2>8. ASSUME NEW c \in since, awaits[c] # t PROVE ClosingAt(c)'
    <3>1. PICK x \in Tasks : x = awaits[c] /\ x # t
      BY <1>2, <2>8 DEF ClosingAt
    <3> QED BY <1>1, <1>2, <1>3, <2>2, <2>3, <2>4, <3>1, ClosingKept
  <2>9. stopped => Quiet'
    BY <2>2, <2>4, QuietKept DEF SinceClosing
  <2> QED BY <1>1, <2>7, <2>8, <2>9 DEF SinceClosing
<1> QED BY <1>4, <1>5

\* What a step of caller c keeps of the closes of the others, and of what was promised.
LEMMA OthersKept ==
  ASSUME TypeInv, LineInv, SinceClosing, NEW c \in Callers,
         runtime' = runtime, \A t \in Tasks : Coming(t)' => Coming(t),
         \A x \in Tasks : kind[x] # "unmade" =>
           kind'[x] = kind[x] /\ phase'[x] = phase[x] /\ target'[x] = target[x],
         \A d \in Callers : d # c => pc'[d] = pc[d] /\ awaits'[d] = awaits[d]
  PROVE  (stopped => Quiet') /\ \A d \in since : d # c => ClosingAt(d)'
<1>1. stopped => Quiet'
  BY QuietKept DEF SinceClosing
<1>2. ASSUME NEW d \in since, d # c PROVE ClosingAt(d)'
  <2>1. d \in Callers /\ ClosingAt(d)
    BY DEF TypeInv, TypeOK, HistoryOK, SinceClosing
  <2>2. PICK x \in Tasks : x = awaits[d] /\ kind[x] \in Closes
    BY <2>1 DEF ClosingAt
  <2>3. kind'[x] = kind[x] /\ phase'[x] = phase[x] /\ target'[x] = target[x]
    BY <2>2 DEF Closes
  <2> QED BY <1>2, <2>1, <2>2, <2>3, ClosingKept
<1> QED BY <1>1, <1>2

LEMMA SinceCloseWaits ==
  ASSUME TypeInv, LineInv, SinceClosing, NEW c \in Callers, CloseWaits(c)
  PROVE  SinceClosing'
<1>0. StateOK /\ TasksOK /\ CallersOK /\ HistoryOK
  BY DEF TypeInv, TypeOK
<1>1. /\ pc' = [pc EXCEPT ![c] = "closing"] /\ awaits' = [awaits EXCEPT ![c] = closeTask']
      /\ since' = since \cup {c} /\ stopped' = stopped /\ runtime' = runtime
  BY DEF CloseWaits, Waits
<1>2. /\ pc'[c] = "closing" /\ awaits'[c] = closeTask'
      /\ \A d \in Callers : d # c => pc'[d] = pc[d] /\ awaits'[d] = awaits[d]
  BY <1>0, <1>1 DEF CallersOK
<1>n. /\ startTask # None => startTask \in Tasks
      /\ runtime # None => runtime \in Tasks
  BY <1>0, NamedTasks
<1>3. /\ \A x \in Tasks : kind[x] # "unmade" =>
           kind'[x] = kind[x] /\ phase'[x] = phase[x] /\ target'[x] = target[x]
      /\ \A t \in Tasks : Coming(t)' => Coming(t)
      /\ ClosingAt(c)'
  <2>1. CASE Live(startTask)
    <3>1. Create("close_after_start", startTask, None) /\ closeTask' = made'
      BY <2>1 DEF CloseWaits
    <3>2. /\ startTask \in Tasks \cup {None} /\ None \in Tasks \cup {None}
          /\ "close_after_start" \in Closes /\ "close_after_start" \in Kinds /\ startTask # None
      BY <1>n, <2>1 DEF Live, Closes, Kinds
    <3>3. /\ \A x \in Tasks : kind[x] # "unmade" =>
               kind'[x] = kind[x] /\ phase'[x] = phase[x] /\ target'[x] = target[x]
          /\ \A t \in Tasks : Coming(t)' => Coming(t)
          /\ \A t \in Tasks : Coming(t) => t < made'
      BY <1>0, <3>1, <3>2, CloseMade
    <3>4. PICK n \in Tasks : n = made' /\ kind'[n] = "close_after_start" /\ phase'[n] = "waiting"
      BY <1>0, <3>1, <3>2, CreateFacts
    <3>5. awaits'[c] = n /\ \A t \in Tasks : Coming(t)' => t < n
      BY <1>2, <3>1, <3>3, <3>4
    <3>6. ClosingAt(c)'
      BY <1>2, <3>4, <3>5 DEF ClosingAt, Closes
    <3> QED BY <3>3, <3>6
  <2>2. CASE ~Live(startTask) /\ Live(closeTask)
    <3>1. UNCHANGED <<startTask, closeTask, taskVars>>
      BY <2>2 DEF CloseWaits
    <3>2. PICK n \in Tasks : n = closeTask /\ kind[n] \in Closes /\ phase[n] \in {"waiting", "working"}
      BY <1>0, <2>2, NamedTasks DEF Live, LineInv, NamesOK
    <3>3. \A t \in Tasks : Coming(t) => t < n
      <4>1. \A t \in Tasks : Coming(t) => startTask = None /\ n >= t
        BY <2>2, <3>2 DEF Holds, Live, LineInv, TailKnown
      <4>2. ~Coming(n)
        BY <3>2 DEF Coming, Closes
      <4> QED BY <4>1, <4>2, TasksAreNumbers
    <3>4. phase[n] = "working" => Frees(n) /\ \A t \in Tasks : ~Coming(t)
      <4>1. phase[n] = "working" => Frees(n)
        BY <3>2, TasksAreNumbers DEF LineInv, RuntimeFree, Frees
      <4>2. phase[n] = "working" => \A t \in Tasks : Coming(t) => t >= n
        BY <1>0, HeadOfLine DEF Holds
      <4> QED BY <3>3, <4>1, <4>2, TasksAreNumbers
    <3>5. /\ awaits'[c] = n /\ kind'[n] = kind[n] /\ phase'[n] = phase[n]
          /\ target'[n] = target[n]
      BY <1>2, <3>1, <3>2 DEF taskVars
    <3>6. \A t \in Tasks : Coming(t)' <=> Coming(t)
      BY <3>1 DEF taskVars, Coming
    <3>7. ClosingAt(c)'
      BY <1>1, <1>2, <3>2, <3>3, <3>4, <3>5, <3>6 DEF ClosingAt, Frees
    <3> QED BY <3>1, <3>6, <3>7 DEF taskVars
  <2>3. CASE ~Live(startTask) /\ ~Live(closeTask)
    <3>1. Create("close", None, runtime) /\ closeTask' = made' /\ runtime # None
      BY <2>3 DEF CloseWaits
    <3>2. /\ runtime \in Tasks \cup {None} /\ None \in Tasks \cup {None}
          /\ "close" \in Closes /\ "close" \in Kinds
      BY <1>n DEF Closes, Kinds
    <3>3. /\ \A x \in Tasks : kind[x] # "unmade" =>
               kind'[x] = kind[x] /\ phase'[x] = phase[x] /\ target'[x] = target[x]
          /\ \A t \in Tasks : Coming(t)' => Coming(t)
      BY <1>0, <3>1, <3>2, CloseMade
    <3>4. PICK n \in Tasks : /\ n = made' /\ kind'[n] = "close" /\ phase'[n] = "working"
                             /\ target'[n] = runtime
      BY <1>0, <3>1, <3>2, CreateFacts
    <3>5. \A t \in Tasks : ~Coming(t)'
      BY <1>0, <2>3, <3>3, NamedTasks DEF Holds
    <3>6. awaits'[c] = n
      BY <1>2, <3>1, <3>4
    <3>7. ClosingAt(c)'
      BY <1>1, <1>2, <3>4, <3>5, <3>6 DEF ClosingAt, Frees, Closes
    <3> QED BY <3>3, <3>7
  <2> QED BY <2>1, <2>2, <2>3
<1>4. (stopped => Quiet') /\ \A d \in since : d # c => ClosingAt(d)'
  BY <1>1, <1>2, <1>3, OthersKept
<1> QED BY <1>1, <1>3, <1>4 DEF SinceClosing

LEMMA SinceStep ==
  ASSUME TypeInv, LineInv, SinceClosing, [Next]_vars
  PROVE  SinceClosing'
<1>0. StateOK /\ TasksOK /\ CallersOK /\ HistoryOK /\ AwaitsOK
  BY DEF TypeInv, TypeOK
<1>1. ASSUME NEW t \in Tasks, TaskStep(t) PROVE SinceClosing'
  BY <1>1, SinceTaskStep
<1>2. ASSUME NEW c \in Callers, StartAtOnce(c) \/ StartWaits(c) PROVE SinceClosing'
  BY <1>2 DEF StartAtOnce, StartWaits, StartCalled, SinceClosing
<1>k. ASSUME NEW c \in Callers, UNCHANGED <<runtime, taskVars, awaits>>,
             \A d \in Callers : d # c => pc'[d] = pc[d]
      PROVE  (stopped => Quiet') /\ \A d \in since : d # c => ClosingAt(d)'
  <2>1. \A t \in Tasks : Coming(t)' => Coming(t)
    BY <1>k DEF taskVars, Coming
  <2>2. \A x \in Tasks : kind'[x] = kind[x] /\ phase'[x] = phase[x] /\ target'[x] = target[x]
    BY <1>k DEF taskVars
  <2> QED BY <1>k, <2>1, <2>2, OthersKept
<1>3. ASSUME NEW c \in Callers, StartReturns(c) PROVE SinceClosing'
  <2>1. c \notin since
    BY <1>3 DEF StartReturns, SinceClosing, ClosingAt
  <2>2. \A d \in Callers : d # c => pc'[d] = pc[d]
    BY <1>0, <1>3 DEF StartReturns, CallersOK
  <2>3. UNCHANGED <<runtime, taskVars, awaits>> /\ since' = since /\ stopped' = stopped
    BY <1>3 DEF StartReturns
  <2> QED BY <1>k, <2>1, <2>2, <2>3 DEF SinceClosing
<1>4. ASSUME NEW c \in Callers, Abandon(c) PROVE SinceClosing'
  <2>1. c \notin since
    BY <1>4 DEF Abandon, SinceClosing, ClosingAt
  <2>2. \A d \in Callers : d # c => pc'[d] = pc[d]
    BY <1>0, <1>4 DEF Abandon, CallersOK
  <2>3. UNCHANGED <<runtime, awaits>> /\ since' = since /\ stopped' = stopped
    BY <1>4 DEF Abandon, historyVars
  <2>4. CASE waiters' = 0 /\ startTask = awaits[c]
    <3>1. Create("close_after_start", startTask, None)
      BY <1>4, <2>4 DEF Abandon
    <3>2. /\ startTask \in Tasks \cup {None} /\ None \in Tasks \cup {None}
          /\ "close_after_start" \in Closes
      BY <1>0 DEF StateOK, Closes
    <3>3. /\ \A x \in Tasks : kind[x] # "unmade" =>
               kind'[x] = kind[x] /\ phase'[x] = phase[x] /\ target'[x] = target[x]
          /\ \A t \in Tasks : Coming(t)' => Coming(t)
      BY <1>0, <3>1, <3>2, CloseMade
    <3>4. (stopped => Quiet') /\ \A d \in since : d # c => ClosingAt(d)'
      BY <2>2, <2>3, <3>3, OthersKept
    <3> QED BY <2>1, <2>3, <3>4 DEF SinceClosing
  <2>5. CASE ~(waiters' = 0 /\ startTask = awaits[c])
    <3>1. UNCHANGED taskVars
      BY <1>4, <2>5 DEF Abandon
    <3> QED BY <1>k, <2>1, <2>2, <2>3, <3>1 DEF SinceClosing
  <2> QED BY <2>4, <2>5
<1>5. ASSUME NEW c \in Callers, CloseAtOnce(c) PROVE SinceClosing'
  <2>1. /\ UNCHANGED <<runtime, taskVars, awaits, pc, since>>
        /\ ~Live(startTask) /\ ~Live(closeTask) /\ runtime = None
    BY <1>5 DEF CloseAtOnce, stateVars
  <2>2. \A t \in Tasks : ~Coming(t)
    BY <1>0, <2>1, NamedTasks DEF Holds
  <2>3. \A t \in Tasks : ~Coming(t)'
    BY <2>1, <2>2 DEF Coming, taskVars
  <2>4. Quiet'
    BY <2>1, <2>3 DEF Quiet
  <2>5. c \notin since
    BY <1>5 DEF CloseAtOnce, Calls, SinceClosing, ClosingAt
  <2>6. \A d \in since : d # c => ClosingAt(d)'
    BY <1>k, <2>1
  <2> QED BY <2>1, <2>4, <2>5, <2>6 DEF SinceClosing
<1>6. ASSUME NEW c \in Callers, CloseWaits(c) PROVE SinceClosing'
  BY <1>6, SinceCloseWaits
<1>7. ASSUME NEW c \in Callers, CloseReturns(c) \/ CancelClose(c) PROVE SinceClosing'
  <2>1. /\ pc' = [pc EXCEPT ![c] = "idle"] /\ since' = since \ {c}
        /\ UNCHANGED <<runtime, taskVars, awaits>>
    BY <1>7 DEF CloseReturns, CancelClose, stateVars
  <2>2. \A d \in Callers : d # c => pc'[d] = pc[d]
    BY <1>0, <2>1 DEF CallersOK
  <2>3. (stopped => Quiet') /\ \A d \in since : d # c => ClosingAt(d)'
    BY <1>k, <2>1, <2>2
  <2>4. stopped' => Quiet'
    <3>1. CASE CancelClose(c)
      BY <2>3, <3>1 DEF CancelClose
    <3>2. CASE CloseReturns(c)
      <4>1. c \in since => Quiet
        <5> SUFFICES ASSUME c \in since PROVE Quiet
          OBVIOUS
        <5>1. ClosingAt(c) /\ Done(awaits[c])
          BY <3>2 DEF SinceClosing, CloseReturns
        <5>2. phase[awaits[c]] # "failed"
          BY <5>1 DEF ClosingAt, LineInv, TasksMade
        <5> QED BY <5>1, <5>2 DEF ClosingAt, Done
      <4>2. Quiet => Quiet'
        BY <2>1 DEF Quiet, Coming, taskVars
      <4> QED BY <2>3, <3>2, <4>1, <4>2 DEF CloseReturns
    <3> QED BY <1>7, <3>1, <3>2
  <2> QED BY <2>1, <2>3, <2>4 DEF SinceClosing
<1>8. CASE UNCHANGED vars
  BY <1>8 DEF vars, stateVars, taskVars, historyVars, SinceClosing, ClosingAt, Quiet, Coming, Frees
<1> QED BY <1>1, <1>2, <1>3, <1>4, <1>5, <1>6, <1>7, <1>8 DEF Next

\* A close() that returned, and that no start() was called after, leaves no server that
\* listens and no runtime, whatever it found under way: another close, a start, a start
\* whose callers have gone.
THEOREM ServerClosedIsStopped == Spec => []ClosedIsStopped
<1>1. Init => SinceClosing
  BY DEF Init, SinceClosing
<1>2. ASSUME TypeInv, LineInv, SinceClosing PROVE ClosedIsStopped
  <2> SUFFICES ASSUME stopped PROVE running = {} /\ runtime = None
    BY DEF ClosedIsStopped
  <2>1. Quiet /\ running \subseteq Tasks
    BY <1>2 DEF SinceClosing, TypeInv, TypeOK, TasksOK
  <2>2. ASSUME NEW t \in running PROVE FALSE
    <3>1. t = runtime \/ (kind[t] = "start" /\ phase[t] = "working")
      BY <1>2, <2>1 DEF LineInv, RunningIsKnown, ListensAt
    <3> QED BY <2>1, <3>1, TasksAreNumbers DEF Quiet, Coming
  <2> QED BY <2>1, <2>2 DEF Quiet
<1>3. TypeInv /\ LineInv /\ [Next]_vars => TypeInv' /\ LineInv'
  BY LineStep, TypeStep
<1>4. TypeInv /\ LineInv /\ SinceClosing /\ [Next]_vars => SinceClosing'
  BY SinceStep
<1>5. TypeInv /\ LineInv /\ SinceClosing => ClosedIsStopped
  BY <1>2
<1> QED BY ServerInit, <1>1, <1>3, <1>4, <1>5, PTL DEF Spec

=============================================================================
