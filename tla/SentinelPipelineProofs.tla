------------------------ MODULE SentinelPipelineProofs ------------------------
(***************************************************************************)
(* Proofs about SentinelPipeline, for any items, searches and number of    *)
(* concurrent requests.                                                    *)
(***************************************************************************)
EXTENDS SentinelPipeline, SequenceTheorems, FiniteSetTheorems, TLAPS

-----------------------------------------------------------------------------
(* Lists: an element less (remove), an element more (append).              *)

\* RemoveAt: one element less, those behind it move up.
LEMMA RemoveAtProperties ==
    ASSUME NEW S, NEW s \in Seq(S), NEW n \in 1..Len(s)
    PROVE  /\ RemoveAt(s, n) \in Seq(S)
           /\ Len(RemoveAt(s, n)) = Len(s) - 1
           /\ \A j \in 1..Len(s) - 1 :
                RemoveAt(s, n)[j] = IF j < n THEN s[j] ELSE s[j + 1]
<1> DEFINE a == SubSeq(s, 1, n - 1)
           b == SubSeq(s, n + 1, Len(s))
<1>1. /\ Len(s) \in Nat /\ n \in Int /\ n - 1 \in Int /\ n + 1 \in Int /\ Len(s) \in Int
      /\ \A j \in 1..Len(s) : s[j] \in S
  BY LenProperties, ElementOfSeq
<1>2. /\ a \in Seq(S) /\ Len(a) = n - 1
      /\ \A j \in 1..n - 1 : a[j] = s[j]
  <2>1. \A j \in 1..n - 1 : s[j] \in S
    BY <1>1
  <2>2. /\ a \in Seq(S)
        /\ Len(a) = IF 1 <= n - 1 THEN n - 1 - 1 + 1 ELSE 0
        /\ \A j \in 1..n - 1 - 1 + 1 : a[j] = s[1 + j - 1]
    BY <1>1, <2>1, SubSeqProperties
  <2> QED BY <1>1, <2>2
<1>3. /\ b \in Seq(S) /\ Len(b) = Len(s) - n
      /\ \A j \in 1..Len(s) - n : b[j] = s[n + j]
  <2>1. \A j \in n + 1..Len(s) : s[j] \in S
    BY <1>1
  <2>2. /\ b \in Seq(S)
        /\ Len(b) = IF n + 1 <= Len(s) THEN Len(s) - (n + 1) + 1 ELSE 0
        /\ \A j \in 1..Len(s) - (n + 1) + 1 : b[j] = s[n + 1 + j - 1]
    BY <1>1, <2>1, SubSeqProperties
  <2>3. \A j \in 1..Len(s) - n :
           j \in 1..Len(s) - (n + 1) + 1 /\ n + 1 + j - 1 = n + j
    BY <1>1
  <2>4. \A j \in 1..Len(s) - n : b[j] = s[n + j]
    BY <2>2, <2>3
  <2> QED BY <1>1, <2>2, <2>4
<1>4. /\ a \o b \in Seq(S)
      /\ Len(a \o b) = Len(a) + Len(b)
      /\ \A j \in 1..Len(a) + Len(b) :
            (a \o b)[j] = IF j <= Len(a) THEN a[j] ELSE b[j - Len(a)]
  BY <1>2, <1>3, ConcatProperties
<1>5. RemoveAt(s, n) = a \o b
  BY DEF RemoveAt
<1> HIDE DEF a, b
<1>6. ASSUME NEW j \in 1..Len(s) - 1
      PROVE  (a \o b)[j] = IF j < n THEN s[j] ELSE s[j + 1]
  <2>1. j \in 1..Len(a) + Len(b)
    BY <1>1, <1>2, <1>3
  <2>2. CASE j < n
    <3>1. j <= Len(a) /\ j \in 1..n - 1
      BY <1>1, <1>2, <2>2
    <3> QED BY <1>2, <1>4, <2>1, <2>2, <3>1
  <2>3. CASE ~(j < n)
    <3>1. ~(j <= Len(a)) /\ j - Len(a) \in 1..Len(s) - n /\ n + (j - Len(a)) = j + 1
      BY <1>1, <1>2, <2>3
    <3>2. (a \o b)[j] = b[j - Len(a)]
      BY <1>4, <2>1, <3>1
    <3>3. b[j - Len(a)] = s[n + (j - Len(a))]
      BY <1>3, <3>1
    <3> QED BY <2>3, <3>1, <3>2, <3>3
  <2> QED BY <2>2, <2>3
<1>7. Len(a) + Len(b) = Len(s) - 1
  BY <1>1, <1>2, <1>3
<1> QED BY <1>4, <1>5, <1>6, <1>7

\* RemoveAt takes away one element only.
LEMMA RemoveAtKeeps ==
    ASSUME NEW S, NEW s \in Seq(S), NEW n \in 1..Len(s)
    PROVE  ToSet(s) \ {s[n]} \subseteq ToSet(RemoveAt(s, n))
<1> DEFINE t == RemoveAt(s, n)
<1>1. /\ t \in Seq(S) /\ Len(t) = Len(s) - 1
      /\ \A j \in 1..Len(s) - 1 : t[j] = IF j < n THEN s[j] ELSE s[j + 1]
  BY RemoveAtProperties
<1> HIDE DEF t
<1>2. Len(s) \in Nat /\ DOMAIN s = 1..Len(s) /\ DOMAIN t = 1..Len(s) - 1
  BY <1>1, LenProperties
<1>3. ASSUME NEW k \in DOMAIN s, k # n
      PROVE  s[k] \in ToSet(t)
  <2>1. CASE k < n
    <3>1. k \in DOMAIN t /\ t[k] = s[k]
      BY <1>1, <1>2, <2>1
    <3> QED BY <3>1 DEF ToSet
  <2>2. CASE k > n
    <3>1. k - 1 \in DOMAIN t /\ t[k - 1] = s[k]
      BY <1>1, <1>2, <2>2
    <3> QED BY <3>1 DEF ToSet
  <2> QED BY <1>2, <1>3, <2>1, <2>2
<1>4. ToSet(s) \ {s[n]} \subseteq ToSet(t)
  BY <1>3 DEF ToSet
<1> QED BY <1>4 DEF t

\* Append adds one element.
LEMMA AppendKeeps ==
    ASSUME NEW S, NEW s \in Seq(S), NEW e \in S
    PROVE  ToSet(Append(s, e)) = ToSet(s) \cup {e}
<1>1. /\ Len(s) \in Nat /\ DOMAIN s = 1..Len(s)
      /\ DOMAIN Append(s, e) = 1..Len(s) + 1
      /\ \A k \in 1..Len(s) : Append(s, e)[k] = s[k]
      /\ Append(s, e)[Len(s) + 1] = e
  BY LenProperties, AppendProperties
<1> QED BY <1>1 DEF ToSet

-----------------------------------------------------------------------------
HasTask(x) == TaskRows(x) # {}
Processed(x) == "done" \in TaskRows(x)
Waited(r, x) == x \in ToSet(params[r])
Inserting == {"check", "insert"}

\* What a request knows of the items it goes through, at each step.
SearchOK(r) ==
    /\ IsInjective(found[r])
    /\ \A n \in todo[r] : tasks[r][found[r][n]] = "absent"
    /\ pc[r] \notin Inserting => todo[r] = {}
    /\ pc[r] \in {"idle", "compare"} =>
            /\ params[r] = <<>> /\ returned[r] = {} /\ iterations[r] = 0
            /\ \A x \in Items : tasks[r][x] = "absent"
    /\ pc[r] \in Inserting =>
            /\ iterations[r] = 0
            /\ \A x \in returned[r] :
                  \/ HasTask(x) \/ Waited(r, x)
                  \/ \E n \in todo[r] : found[r][n] = x

\* What it knows of the tasks it waits for.
WaitOK(r) ==
    /\ pc[r] \in Waiting =>
            /\ iterations[r] <= quota[r]
            /\ \A x \in returned[r] : HasTask(x) \/ Waited(r, x)
    /\ pc[r] \in Inserting \cup Waiting =>
            \A x \in Items : \/ tasks[r][x] = "absent"
                             \/ Processed(x) \/ Waited(r, x)
    /\ pc[r] = "loop" =>
            \/ iterations[r] = 0 /\ quota[r] = MaxIterations * Len(params[r])
            \/ \A k \in 1..Len(params[r]) : HasTask(params[r][k])
    /\ pc[r] \in {"query", "download"} =>
            /\ i[r] <= Len(params[r])
            /\ \A k \in 1..Len(params[r]) : k > i[r] => HasTask(params[r][k])
    /\ pc[r] = "download" =>
            i[r] > 0 /\ Processed(params[r][i[r]])
    /\ pc[r] = "returned" =>
            /\ \A x \in returned[r] : HasTask(x)
            /\ \/ iterations[r] >= quota[r]
               \/ \A x \in Items : tasks[r][x] = "absent" \/ Processed(x)

Inv == TypeOK /\ \A r \in Requests : SearchOK(r) /\ WaitOK(r)

LEMMA InvInit == Init => Inv
<1> SUFFICES ASSUME Init PROVE Inv
  OBVIOUS
<1>1. <<>> \in Seq(Items) /\ IsInjective(<<>>)
  BY EmptySeq DEF IsInjective
<1>2. TypeOK
  BY <1>1 DEF Init, TypeOK, RowStatuses, Steps
<1>3. ASSUME NEW r \in Requests
      PROVE  SearchOK(r) /\ WaitOK(r)
  BY <1>1 DEF Init, SearchOK, WaitOK, Inserting, Waiting
<1> QED BY <1>2, <1>3 DEF Inv

-----------------------------------------------------------------------------
(* Frames                                                                  *)

\* Rows are never removed, and a processed task stays processed.
Grows == \A x \in Items : /\ HasTask(x) => HasTask(x)'
                          /\ Processed(x) => Processed(x)'

\* Request r does nothing, and nobody inserts a task in its name.
Idle(r) ==
    /\ pc'[r] = pc[r] /\ found'[r] = found[r] /\ todo'[r] = todo[r]
    /\ params'[r] = params[r] /\ returned'[r] = returned[r] /\ i'[r] = i[r]
    /\ iterations'[r] = iterations[r] /\ quota'[r] = quota[r]
    /\ \A x \in Items : tasks'[r][x] = "absent" <=> tasks[r][x] = "absent"

LEMMA IdleKeepsOK ==
    ASSUME TypeOK, NEW r \in Requests, Idle(r), Grows, SearchOK(r), WaitOK(r)
    PROVE  SearchOK(r)' /\ WaitOK(r)'
<1>1. \A k \in 1..Len(params[r]) : params[r][k] \in Items
  BY ElementOfSeq DEF TypeOK
<1>2. \A n \in todo[r] : found[r][n] \in Items
  BY ElementOfSeq, LenProperties DEF TypeOK
<1>3. \A x : Waited(r, x)' = Waited(r, x)
  BY DEF Waited, Idle
<1>4. SearchOK(r)'
  BY <1>2, <1>3 DEF SearchOK, Idle, Grows, Inserting, TypeOK
<1>5. WaitOK(r)'
  BY <1>1, <1>3 DEF WaitOK, Idle, Grows, Inserting, Waiting, TypeOK
<1> QED BY <1>4, <1>5

\* A row that is not "done" may change its status.
LEMMA RowChangeGrows ==
    ASSUME TypeOK, NEW r \in Requests, NEW y \in Items, NEW s \in RowStatuses \ {"absent"},
           tasks[r][y] # "done", tasks' = [tasks EXCEPT ![r][y] = s]
    PROVE  Grows
<1> SUFFICES ASSUME NEW x \in Items
             PROVE  /\ HasTask(x) => HasTask(x)'
                    /\ Processed(x) => Processed(x)'
  BY DEF Grows
<1>1. \A q \in Requests : tasks'[q][x] = IF q = r /\ x = y THEN s ELSE tasks[q][x]
  BY DEF TypeOK
<1>2. ASSUME HasTask(x) PROVE HasTask(x)'
  <2>1. PICK q \in Requests : tasks[q][x] # "absent"
    BY <1>2 DEF HasTask, TaskRows
  <2>2. tasks'[q][x] # "absent"
    BY <1>1, <2>1
  <2> QED BY <2>2 DEF HasTask, TaskRows
<1>3. ASSUME Processed(x) PROVE Processed(x)'
  <2>1. PICK q \in Requests : tasks[q][x] = "done"
    BY <1>3 DEF Processed, TaskRows
  <2>2. tasks'[q][x] = "done"
    BY <1>1, <2>1
  <2> QED BY <2>2 DEF Processed, TaskRows
<1> QED BY <1>2, <1>3

LEMMA SameRows ==
    ASSUME UNCHANGED tasks
    PROVE  /\ Grows
           /\ \A x : HasTask(x)' = HasTask(x) /\ Processed(x)' = Processed(x)
BY DEF Grows, HasTask, Processed, TaskRows

-----------------------------------------------------------------------------
(* Types                                                                   *)

LEMMA TypeStep == Inv /\ [Next]_vars => TypeOK'
<1> SUFFICES ASSUME Inv, [Next]_vars PROVE TypeOK'
  OBVIOUS
<1> USE DEF TypeOK, Goes, tableVars, requestVars, Steps
<1>0. TypeOK /\ <<>> \in Seq(Items)
  BY EmptySeq DEF Inv
<1>1. ASSUME NEW r \in Requests, Trigger(r)
      PROVE  TypeOK'
  <2>1. CASE NoExternalItem(r)
    BY <1>0, <2>1 DEF NoExternalItem
  <2>2. ASSUME NEW items \in Selections[r], SearchExternal(r, items)
        PROVE  TypeOK'
    <3>1. items \in Seq(Items)
      BY SelectionsAssumption
    <3>2. todo[r] = {}
      BY <2>2 DEF Inv, SearchOK, SearchExternal, Inserting
    <3> QED BY <1>0, <2>2, <3>1, <3>2 DEF SearchExternal
  <2> QED BY <1>1, <2>1, <2>2 DEF Trigger
<1>2. ASSUME NEW r \in Requests, Raises(r)
      PROVE  TypeOK'
  BY <1>0, <1>2 DEF Raises
<1>3. ASSUME NEW r \in Requests, CompareItems(r)
      PROVE  TypeOK'
  <2> DEFINE missing == {n \in DOMAIN found[r] : ~Registered(found[r][n])}
  <2>1. missing \subseteq DOMAIN found[r] /\ missing \in SUBSET Nat
    BY <1>0, LenProperties
  <2>2. {found[r][n] : n \in missing} \subseteq Items
    BY <1>0, LenProperties, ElementOfSeq
  <2>3. /\ todo' = [todo EXCEPT ![r] = missing]
        /\ returned' = [returned EXCEPT ![r] = {found[r][n] : n \in missing}]
    BY <1>3 DEF CompareItems
  <2> HIDE DEF missing
  <2> QED BY <1>0, <1>3, <2>1, <2>2, <2>3 DEF CompareItems
<1>4. ASSUME NEW r \in Requests, NEW n \in todo[r],
             TaskKnown(r, n) \/ TaskUnknown(r, n) \/ InsertTask(r, n) \/ InsertFails(r, n)
      PROVE  TypeOK'
  <2>1. found[r][n] \in Items
    BY <1>0, LenProperties, ElementOfSeq
  <2>2. Append(params[r], found[r][n]) \in Seq(Items)
    BY <1>0, <2>1, AppendProperties
  <2>3. CASE TaskKnown(r, n) \/ TaskUnknown(r, n)
    <3>1. CASE TaskKnown(r, n)
      BY <1>0, <3>1 DEF TaskKnown
    <3>2. CASE TaskUnknown(r, n)
      BY <1>0, <3>2 DEF TaskUnknown
    <3> QED BY <2>3, <3>1, <3>2
  <2>4. CASE InsertTask(r, n)
    BY <1>0, <2>1, <2>2, <2>4 DEF InsertTask, RowStatuses
  <2>5. CASE InsertFails(r, n)
    BY <1>0, <2>1, <2>2, <2>5 DEF InsertFails
  <2> QED BY <1>4, <2>3, <2>4, <2>5
<1>5. ASSUME NEW r \in Requests, WaitTasks(r) \/ Pass(r) \/ Return(r) \/ EndPass(r)
      PROVE  TypeOK'
  <2>1. Len(params[r]) \in Nat /\ MaxIterations \in Nat
    BY <1>0, LenProperties, MaxIterationsAssumption
  <2>2. CASE WaitTasks(r)
    <3>1. MaxIterations * Len(params[r]) \in Nat
      BY <2>1
    <3> QED BY <1>0, <2>2, <3>1 DEF WaitTasks
  <2>3. CASE Pass(r)
    BY <1>0, <2>1, <2>3 DEF Pass
  <2>4. CASE Return(r)
    <3>1. todo[r] = {}
      BY <2>4 DEF Inv, SearchOK, Return, Inserting
    <3> QED BY <1>0, <2>4, <3>1 DEF Return
  <2>5. CASE EndPass(r)
    BY <1>0, <2>5 DEF EndPass
  <2> QED BY <1>5, <2>2, <2>3, <2>4, <2>5
<1>6. ASSUME NEW r \in Requests, QueryNotDone(r) \/ QueryDone(r)
      PROVE  TypeOK'
  <2>1. CASE QueryNotDone(r)
    <3>1. i[r] - 1 \in Nat
      BY <1>0, <2>1 DEF QueryNotDone
    <3> QED BY <1>0, <2>1, <3>1 DEF QueryNotDone
  <2>2. CASE QueryDone(r)
    BY <1>0, <2>2 DEF QueryDone
  <2> QED BY <1>6, <2>1, <2>2
<1>7. ASSUME NEW r \in Requests, DownloadDone(r) \/ DownloadNotDone(r)
      PROVE  TypeOK'
  <2>1. i[r] \in 1..Len(params[r]) /\ i[r] - 1 \in Nat
    BY <1>0, <1>7, LenProperties DEF Inv, WaitOK, DownloadDone, DownloadNotDone
  <2>2. RemoveAt(params[r], i[r]) \in Seq(Items)
    BY <1>0, <2>1, RemoveAtProperties
  <2>3. CASE DownloadDone(r)
    BY <1>0, <2>1, <2>2, <2>3 DEF DownloadDone
  <2>4. CASE DownloadNotDone(r)
    BY <1>0, <2>1, <2>4 DEF DownloadNotDone
  <2> QED BY <1>7, <2>3, <2>4
<1>8. CASE Ingest
  <2>1. ASSUME NEW r \in Requests, NEW x \in Items, NEW s \in {"done", "fail"},
               ProcessTask(r, x, s)
        PROVE  TypeOK'
    BY <1>0, <2>1 DEF ProcessTask, RowStatuses
  <2>2. ASSUME NEW x \in Items, AddDownload(x)
        PROVE  TypeOK'
    BY <1>0, <2>2 DEF AddDownload
  <2>3. ASSUME NEW x \in Items, NEW s \in {"done", "fail"}, EndDownload(x, s)
        PROVE  TypeOK'
    BY <1>0, <2>3 DEF EndDownload
  <2> QED BY <1>8, <2>1, <2>2, <2>3 DEF Ingest
<1>9. CASE UNCHANGED vars
  BY <1>0, <1>9 DEF vars
<1> QED
  BY <1>1, <1>2, <1>3, <1>4, <1>5, <1>6, <1>7, <1>8, <1>9
  DEF Next, Handle, QueryMissing, Raise

-----------------------------------------------------------------------------
(* Steps of other requests and of the ingestion service                    *)

LEMMA OthersIdle ==
    ASSUME TypeOK, NEW r \in Requests, NEW q \in Requests \ {r}, Trigger(r) \/ Handle(r)
    PROVE  Idle(q)
<1> USE DEF TypeOK, Idle, Goes, tableVars
<1>1. CASE NoExternalItem(r) \/ \E items \in Selections[r] : SearchExternal(r, items)
  BY <1>1 DEF NoExternalItem, SearchExternal
<1>2. CASE CompareItems(r)
  BY <1>2 DEF CompareItems
<1>3. ASSUME NEW n \in todo[r], TaskKnown(r, n) \/ TaskUnknown(r, n) \/ InsertFails(r, n)
      PROVE  Idle(q)
  BY <1>3 DEF TaskKnown, TaskUnknown, InsertFails
<1>4. ASSUME NEW n \in todo[r], InsertTask(r, n)
      PROVE  Idle(q)
  BY <1>4 DEF InsertTask
<1>5. CASE WaitTasks(r) \/ Pass(r) \/ Return(r) \/ EndPass(r)
  BY <1>5 DEF WaitTasks, Pass, Return, EndPass
<1>6. CASE QueryNotDone(r) \/ QueryDone(r) \/ DownloadDone(r) \/ DownloadNotDone(r)
  BY <1>6 DEF QueryNotDone, QueryDone, DownloadDone, DownloadNotDone
<1>7. CASE Raises(r)
  BY <1>7 DEF Raises
<1> QED
  BY <1>1, <1>2, <1>3, <1>4, <1>5, <1>6, <1>7 DEF Trigger, Handle, QueryMissing, Raise

LEMMA IngestIdle ==
    ASSUME TypeOK, NEW q \in Requests, Ingest
    PROVE  Idle(q)
<1>1. ASSUME NEW r \in Requests, NEW x \in Items, NEW s \in {"done", "fail"},
             ProcessTask(r, x, s)
      PROVE  Idle(q)
  BY <1>1 DEF ProcessTask, Idle, requestVars, TypeOK
<1>2. CASE UNCHANGED <<tasks, requestVars>>
  BY <1>2 DEF Idle, requestVars
<1> QED BY <1>1, <1>2 DEF Ingest, AddDownload, EndDownload

LEMMA StepGrows == Inv /\ [Next]_vars => Grows
<1> SUFFICES ASSUME Inv, [Next]_vars PROVE Grows
  OBVIOUS
<1>1. ASSUME NEW r \in Requests, NEW n \in todo[r], InsertTask(r, n)
      PROVE  Grows
  <2>1. found[r][n] \in Items /\ tasks[r][found[r][n]] = "absent"
    BY LenProperties, ElementOfSeq DEF Inv, TypeOK, SearchOK
  <2>2. tasks' = [tasks EXCEPT ![r][found[r][n]] = "pending"]
    BY <1>1 DEF InsertTask
  <2> QED BY <2>1, <2>2, RowChangeGrows DEF Inv, RowStatuses
<1>2. ASSUME NEW r \in Requests, NEW x \in Items, NEW s \in {"done", "fail"},
             ProcessTask(r, x, s)
      PROVE  Grows
  BY <1>2, RowChangeGrows DEF Inv, ProcessTask, RowStatuses
<1>3. CASE UNCHANGED tasks
  BY <1>3, SameRows
<1> QED
  BY <1>1, <1>2, <1>3
  DEF Next, Ingest, AddDownload, EndDownload, Trigger, NoExternalItem, SearchExternal,
      Handle, CompareItems, TaskKnown, TaskUnknown, InsertFails, WaitTasks, Pass,
      Return, EndPass, QueryMissing, QueryNotDone, QueryDone, DownloadDone,
      DownloadNotDone, Raise, Raises, vars, tableVars

-----------------------------------------------------------------------------
(* Steps of the request itself                                             *)

LEMMA TriggerKeepsOK ==
    ASSUME Inv, NEW r \in Requests, Trigger(r)
    PROVE  SearchOK(r)' /\ WaitOK(r)'
<1> USE DEF Inv, TypeOK, Goes, tableVars, SearchOK, WaitOK, Inserting, Waiting
<1>1. CASE NoExternalItem(r)
  BY <1>1 DEF NoExternalItem
<1>2. ASSUME NEW items \in Selections[r], SearchExternal(r, items)
      PROVE  SearchOK(r)' /\ WaitOK(r)'
  <2>1. IsInjective(items)
    BY SelectionsAssumption
  <2> QED BY <1>2, <2>1 DEF SearchExternal
<1> QED BY <1>1, <1>2 DEF Trigger

LEMMA CompareKeepsOK ==
    ASSUME Inv, NEW r \in Requests, CompareItems(r)
    PROVE  SearchOK(r)' /\ WaitOK(r)'
<1> DEFINE missing == {n \in DOMAIN found[r] : ~Registered(found[r][n])}
<1>1. /\ TypeOK /\ SearchOK(r) /\ pc[r] = "compare"
      /\ pc'[r] = "check" /\ found' = found /\ tasks' = tasks /\ params' = params
      /\ iterations' = iterations
      /\ todo'[r] = missing
      /\ returned'[r] = {found[r][n] : n \in missing}
  BY DEF Inv, TypeOK, CompareItems, Goes, tableVars
<1>2. \A n \in missing : found[r][n] \in Items
  BY <1>1, LenProperties, ElementOfSeq DEF TypeOK
<1> HIDE DEF missing
<1>3. \A x \in Items : tasks[r][x] = "absent"
  BY <1>1 DEF SearchOK
<1>4. WaitOK(r)'
  BY <1>1, <1>3 DEF WaitOK, Waiting
<1>5. SearchOK(r)'
  <2>1. IsInjective(found'[r]) /\ iterations'[r] = 0
    BY <1>1 DEF SearchOK
  <2>2. \A n \in todo'[r] : tasks'[r][found'[r][n]] = "absent"
    BY <1>1, <1>2, <1>3
  <2>3. \A x \in returned'[r] : \E n \in todo'[r] : found'[r][n] = x
    BY <1>1
  <2> QED BY <1>1, <2>1, <2>2, <2>3 DEF SearchOK, Inserting
<1> QED BY <1>4, <1>5

LEMMA RaisesKeepsOK ==
    ASSUME Inv, NEW r \in Requests, Raises(r)
    PROVE  SearchOK(r)' /\ WaitOK(r)'
<1>1. IsInjective(<<>>)
  BY DEF IsInjective
<1> QED
  BY <1>1 DEF Inv, TypeOK, Raises, Goes, tableVars, SearchOK, WaitOK, Inserting, Waiting

\* An item leaves todo when it has a task or is waited for.
LEMMA InsertingKeepsOK ==
    ASSUME Inv, NEW r \in Requests, NEW n \in todo[r],
           TaskKnown(r, n) \/ TaskUnknown(r, n) \/ InsertTask(r, n) \/ InsertFails(r, n)
    PROVE  SearchOK(r)' /\ WaitOK(r)'
<1>1. /\ TypeOK /\ SearchOK(r) /\ WaitOK(r)
      /\ pc[r] \in Inserting /\ pc'[r] \in Inserting
      /\ found' = found /\ returned' = returned /\ iterations' = iterations
  BY DEF Inv, TypeOK, TaskKnown, TaskUnknown, InsertTask, InsertFails, Goes, tableVars,
         Inserting
<1>2. \A m \in todo[r] : found[r][m] \in Items /\ m \in DOMAIN found[r]
  BY <1>1, LenProperties, ElementOfSeq DEF TypeOK
<1>3. PICK x0 \in Items : x0 = found[r][n]
  BY <1>2
<1>4. Grows
  BY StepGrows DEF Next, Handle
<1>5. /\ \/ todo'[r] = todo[r]
         \/ todo'[r] = todo[r] \ {n} /\ (HasTask(x0)' \/ Waited(r, x0)')
      /\ \A x : Waited(r, x) => Waited(r, x)'
      /\ tasks' = tasks \/ /\ tasks' = [tasks EXCEPT ![r][x0] = "pending"]
                           /\ todo'[r] = todo[r] \ {n}
                           /\ Waited(r, x0)'
  <2>1. CASE TaskKnown(r, n)
    BY <1>1, <1>3, <2>1, SameRows DEF TypeOK, TaskKnown, HasTask, Waited, tableVars
  <2>2. CASE TaskUnknown(r, n)
    BY <1>1, <2>2 DEF TypeOK, TaskUnknown, Waited, tableVars
  <2>3. CASE InsertTask(r, n) \/ InsertFails(r, n)
    <3>1. params'[r] = Append(params[r], x0) /\ todo'[r] = todo[r] \ {n}
      BY <1>1, <1>3, <2>3 DEF TypeOK, InsertTask, InsertFails
    <3>2. ToSet(params'[r]) = ToSet(params[r]) \cup {x0}
      BY <1>1, <1>2, <3>1, AppendKeeps DEF TypeOK
    <3> QED BY <1>3, <2>3, <3>1, <3>2 DEF Waited, InsertTask, InsertFails, tableVars
  <2> QED BY <2>1, <2>2, <2>3
<1>6. ASSUME NEW m \in todo'[r]
      PROVE  tasks'[r][found'[r][m]] = "absent"
  <2>1. m \in todo[r] /\ tasks[r][found[r][m]] = "absent"
    BY <1>1, <1>5, <1>6 DEF SearchOK
  <2>2. CASE tasks' = tasks
    BY <1>1, <2>1, <2>2
  <2>3. CASE tasks' = [tasks EXCEPT ![r][x0] = "pending"] /\ todo'[r] = todo[r] \ {n}
    <3>1. found[r][m] # x0
      BY <1>1, <1>2, <1>3, <1>6, <2>1, <2>3 DEF SearchOK, IsInjective
    <3> QED BY <1>1, <2>1, <2>3, <3>1 DEF TypeOK
  <2> QED BY <1>5, <2>2, <2>3
<1>7. ASSUME NEW x \in returned'[r]
      PROVE  \/ HasTask(x)' \/ Waited(r, x)'
             \/ \E m \in todo'[r] : found'[r][m] = x
  <2>1. x \in Items /\ x \in returned[r]
    BY <1>1 DEF TypeOK
  <2>2. CASE HasTask(x) \/ Waited(r, x)
    BY <1>4, <1>5, <2>1, <2>2 DEF Grows
  <2>3. ASSUME NEW m \in todo[r], found[r][m] = x
        PROVE  \/ HasTask(x)' \/ Waited(r, x)'
               \/ \E k \in todo'[r] : found'[r][k] = x
    <3>1. CASE m \in todo'[r]
      BY <1>1, <2>3, <3>1
    <3>2. CASE m \notin todo'[r]
      BY <1>3, <1>5, <2>3, <3>2
    <3> QED BY <3>1, <3>2
  <2> QED BY <1>1, <2>1, <2>2, <2>3 DEF SearchOK
<1>8. ASSUME NEW x \in Items
      PROVE  tasks'[r][x] = "absent" \/ Processed(x)' \/ Waited(r, x)'
  <2>1. tasks[r][x] = "absent" \/ Processed(x) \/ Waited(r, x)
    BY <1>1 DEF WaitOK
  <2>2. CASE tasks' = tasks
    BY <1>4, <1>5, <2>1, <2>2 DEF Grows
  <2>3. CASE tasks' = [tasks EXCEPT ![r][x0] = "pending"] /\ Waited(r, x0)'
    <3>1. x = x0 \/ tasks'[r][x] = tasks[r][x]
      BY <1>1, <1>2, <2>3 DEF TypeOK
    <3> QED BY <1>4, <1>5, <2>1, <2>3, <3>1 DEF Grows
  <2> QED BY <1>5, <2>2, <2>3
<1>9. SearchOK(r)'
  BY <1>1, <1>6, <1>7 DEF SearchOK, Inserting
<1>10. WaitOK(r)'
  BY <1>1, <1>8 DEF WaitOK, Inserting, Waiting
<1> QED BY <1>9, <1>10

LEMMA WaitTasksKeepsOK ==
    ASSUME Inv, NEW r \in Requests, WaitTasks(r)
    PROVE  SearchOK(r)' /\ WaitOK(r)'
<1>1. /\ TypeOK /\ SearchOK(r) /\ WaitOK(r) /\ pc[r] = "check" /\ todo[r] = {}
      /\ pc'[r] = "loop" /\ quota'[r] = MaxIterations * Len(params[r])
      /\ UNCHANGED <<tasks, found, todo, params, returned, i, iterations>>
  BY DEF Inv, TypeOK, WaitTasks, Goes, tableVars
<1>2. \A x : /\ Waited(r, x)' = Waited(r, x) /\ HasTask(x)' = HasTask(x)
             /\ Processed(x)' = Processed(x)
  BY <1>1, SameRows DEF Waited
<1>3. iterations[r] = 0 /\ quota'[r] \in Nat
  <2>1. Len(params[r]) \in Nat /\ MaxIterations \in Nat
    BY <1>1, LenProperties, MaxIterationsAssumption DEF TypeOK
  <2> QED BY <1>1, <2>1 DEF SearchOK, Inserting
<1>4. SearchOK(r)'
  BY <1>1 DEF SearchOK, Inserting
<1>5. \A x \in returned[r] : HasTask(x) \/ Waited(r, x)
  BY <1>1 DEF SearchOK, Inserting
<1>6. \A x \in Items : tasks[r][x] = "absent" \/ Processed(x) \/ Waited(r, x)
  BY <1>1 DEF WaitOK, Inserting
<1>7. WaitOK(r)'
  BY <1>1, <1>2, <1>3, <1>5, <1>6 DEF WaitOK, Inserting, Waiting
<1> QED BY <1>4, <1>7

\* What the steps of a waiting request have in common.
LEMMA WaitingFrame ==
    ASSUME Inv, NEW r \in Requests,
           Pass(r) \/ Return(r) \/ EndPass(r) \/ QueryNotDone(r) \/ QueryDone(r)
             \/ DownloadDone(r) \/ DownloadNotDone(r)
    PROVE  /\ TypeOK /\ SearchOK(r) /\ WaitOK(r)
           /\ pc[r] \in Waiting /\ pc'[r] \in Waiting \cup {"returned"}
           /\ todo[r] = {} /\ Len(params[r]) \in Nat
           /\ UNCHANGED <<tasks, downloads, todo, returned, quota>>
           /\ \A x : HasTask(x)' = HasTask(x) /\ Processed(x)' = Processed(x)
           /\ SearchOK(r)'
<1> USE DEF Goes, tableVars, Waiting, Inserting
<1>1. /\ TypeOK /\ SearchOK(r) /\ WaitOK(r)
      /\ pc[r] \in Waiting /\ pc'[r] \in Waiting \cup {"returned"}
      /\ UNCHANGED <<tasks, downloads, todo, returned, quota>>
      /\ found'[r] = found[r] \/ found'[r] = <<>>
  BY DEF Inv, TypeOK, Pass, Return, EndPass, QueryNotDone, QueryDone, DownloadDone,
         DownloadNotDone
<1>2. todo[r] = {} /\ Len(params[r]) \in Nat
  BY <1>1, LenProperties DEF SearchOK, TypeOK
<1>3. IsInjective(<<>>)
  BY DEF IsInjective
<1>4. SearchOK(r)'
  BY <1>1, <1>2, <1>3 DEF SearchOK
<1> QED BY <1>1, <1>2, <1>4, SameRows

\* Over the first pass everything waited for has a task: at its start, nobody
\* has asked yet, and the patience has not run out.
LEMMA ReturnKeepsOK ==
    ASSUME Inv, NEW r \in Requests, Return(r)
    PROVE  SearchOK(r)' /\ WaitOK(r)'
<1>1. /\ pc[r] = "loop" /\ pc'[r] = "returned" /\ UNCHANGED iterations
      /\ params[r] = <<>> \/ iterations[r] >= quota[r]
  BY DEF Inv, TypeOK, Return, Goes
<1>2. \A k \in 1..Len(params[r]) : HasTask(params[r][k])
  <2>1. CASE iterations[r] = 0 /\ quota[r] = MaxIterations * Len(params[r])
    <3>1. Len(params[r]) \in Nat /\ MaxIterations \in Nat \ {0}
      BY WaitingFrame, MaxIterationsAssumption
    <3>2. params[r] = <<>> => Len(params[r]) = 0
      BY EmptySeq
    <3>3. CASE params[r] = <<>>
      BY <3>1, <3>2, <3>3
    <3>4. CASE quota[r] <= 0
      <4>1. Len(params[r]) > 0 => MaxIterations * Len(params[r]) > 0
        BY <3>1
      <4> QED BY <2>1, <3>1, <3>4, <4>1
    <3> QED BY <1>1, <2>1, <3>3, <3>4, WaitingFrame DEF TypeOK
  <2> QED BY <1>1, <2>1, WaitingFrame DEF WaitOK
<1>3. ASSUME NEW x, Waited(r, x)
      PROVE  HasTask(x)
  BY <1>2, <1>3, WaitingFrame, LenProperties DEF Waited, ToSet, TypeOK
<1>4. \A x \in returned'[r] : HasTask(x)'
  BY <1>3, WaitingFrame DEF WaitOK
<1>5. ASSUME ~(iterations'[r] >= quota'[r]), NEW x \in Items
      PROVE  tasks'[r][x] = "absent" \/ Processed(x)'
  <2>1. params[r] = <<>>
    BY <1>1, <1>5, WaitingFrame
  <2>2. ~Waited(r, x)
    BY <2>1 DEF Waited, ToSet
  <2> QED BY <1>1, <2>2, WaitingFrame DEF WaitOK
<1> QED BY <1>1, <1>4, <1>5, WaitingFrame DEF WaitOK, Waiting, Inserting

LEMMA PassKeepsOK ==
    ASSUME Inv, NEW r \in Requests, Pass(r) \/ EndPass(r)
    PROVE  SearchOK(r)' /\ WaitOK(r)'
<1>1. \A x : Waited(r, x)' = Waited(r, x)
  BY DEF Pass, EndPass, Waited
<1>2. CASE Pass(r)
  <2>1. /\ pc[r] = "loop" /\ pc'[r] = "query" /\ i'[r] = Len(params[r]) /\ params' = params
        /\ iterations[r] < quota[r] /\ iterations'[r] = iterations[r] + 1
    BY <1>2 DEF Inv, TypeOK, Pass, Goes
  <2>2. iterations[r] \in Nat /\ quota[r] \in Nat
    BY WaitingFrame, <1>2 DEF TypeOK
  <2> QED BY <1>1, <1>2, <2>1, <2>2, WaitingFrame DEF WaitOK, Waiting, Inserting
<1>3. CASE EndPass(r)
  <2>1. /\ pc[r] = "query" /\ pc'[r] = "loop" /\ i[r] = 0
        /\ UNCHANGED <<params, iterations>>
    BY <1>3 DEF Inv, TypeOK, EndPass, Goes
  <2>2. \A k \in 1..Len(params[r]) : HasTask(params[r][k])
    BY <1>3, <2>1, WaitingFrame DEF WaitOK
  <2> QED BY <1>1, <1>3, <2>1, <2>2, WaitingFrame DEF WaitOK, Waiting, Inserting
<1> QED BY <1>2, <1>3

LEMMA QueryKeepsOK ==
    ASSUME Inv, NEW r \in Requests,
           QueryNotDone(r) \/ QueryDone(r) \/ DownloadNotDone(r)
    PROVE  SearchOK(r)' /\ WaitOK(r)'
<1>1. /\ \A x : Waited(r, x)' = Waited(r, x)
      /\ UNCHANGED <<params, iterations>>
  BY DEF QueryNotDone, QueryDone, DownloadNotDone, Waited
<1>2. /\ i[r] \in Nat /\ i[r] > 0 /\ i[r] <= Len(params[r])
      /\ pc'[r] \in {"query", "download"}
      /\ pc[r] \in {"query", "download"}
      /\ \/ i'[r] = i[r] /\ pc'[r] = "download"
         \/ i'[r] = i[r] - 1 /\ pc'[r] = "query"
  <2>1. CASE QueryNotDone(r)
    BY <2>1, WaitingFrame DEF TypeOK, WaitOK, QueryNotDone, Goes
  <2>2. CASE QueryDone(r)
    BY <2>2, WaitingFrame DEF TypeOK, WaitOK, QueryDone, Goes
  <2>3. CASE DownloadNotDone(r)
    BY <2>3, WaitingFrame DEF TypeOK, WaitOK, DownloadNotDone, Goes
  <2> QED BY <2>1, <2>2, <2>3
<1>3. HasTask(params[r][i[r]])
  <2>1. ASSUME NEW s \in TaskStatuses(params[r][i[r]]), s # "None"
        PROVE  HasTask(params[r][i[r]])
    BY <2>1 DEF TaskStatuses, HasTask
  <2>2. CASE QueryNotDone(r) \/ QueryDone(r)
    BY <2>1, <2>2 DEF QueryNotDone, QueryDone
  <2>3. CASE DownloadNotDone(r)
    BY <2>3, WaitingFrame DEF WaitOK, DownloadNotDone, HasTask, Processed
  <2> QED BY <2>2, <2>3
<1>4. \A k \in 1..Len(params[r]) : k > i'[r] => HasTask(params[r][k])
  BY <1>2, <1>3, WaitingFrame DEF WaitOK
<1>5. pc'[r] = "download" => i'[r] > 0 /\ Processed(params[r][i'[r]])
  <2>1. CASE QueryDone(r)
    <3>1. "done" \in TaskRows(params[r][i[r]])
      BY <2>1 DEF QueryDone, TaskStatuses
    <3> QED BY <1>2, <2>1, <3>1 DEF QueryDone, Processed
  <2>2. CASE QueryNotDone(r) \/ DownloadNotDone(r)
    BY <2>2, WaitingFrame DEF QueryNotDone, DownloadNotDone, Goes, TypeOK
  <2> QED BY <2>1, <2>2
<1> QED BY <1>1, <1>2, <1>4, <1>5, WaitingFrame DEF WaitOK, Waiting, Inserting

\* Only a processed task is taken off the list; those behind it move up.
LEMMA DownloadKeepsOK ==
    ASSUME Inv, NEW r \in Requests, DownloadDone(r)
    PROVE  SearchOK(r)' /\ WaitOK(r)'
<1>1. /\ pc[r] = "download" /\ pc'[r] = "query" /\ i[r] \in 1..Len(params[r])
      /\ i'[r] = i[r] - 1 /\ params'[r] = RemoveAt(params[r], i[r])
      /\ UNCHANGED iterations
      /\ params[r] \in Seq(Items)
      /\ Processed(params[r][i[r]])
  <2>1. TypeOK /\ WaitOK(r) /\ Len(params[r]) \in Nat /\ params[r] \in Seq(Items)
    BY WaitingFrame DEF TypeOK
  <2>2. /\ pc[r] = "download" /\ pc'[r] = "query" /\ UNCHANGED iterations
        /\ i'[r] = i[r] - 1 /\ params'[r] = RemoveAt(params[r], i[r])
    BY <2>1 DEF TypeOK, DownloadDone, Goes
  <2>3. i[r] \in 1..Len(params[r]) /\ Processed(params[r][i[r]])
    BY <2>1, <2>2 DEF WaitOK, TypeOK
  <2> QED BY <2>1, <2>2, <2>3
<1>2. /\ Len(params'[r]) = Len(params[r]) - 1
      /\ \A j \in 1..Len(params[r]) - 1 :
            params'[r][j] = IF j < i[r] THEN params[r][j] ELSE params[r][j + 1]
  BY <1>1, RemoveAtProperties
<1>3. \A k \in 1..Len(params'[r]) : k > i'[r] => HasTask(params'[r][k])
  <2>1. \A k \in 1..Len(params[r]) : k > i[r] => HasTask(params[r][k])
    BY <1>1, WaitingFrame DEF WaitOK
  <2>2. Len(params[r]) \in Nat /\ i[r] \in Nat
    BY <1>1
  <2> SUFFICES ASSUME NEW k \in 1..Len(params'[r]), k > i'[r]
               PROVE  HasTask(params'[r][k])
    OBVIOUS
  <2>3. Len(params'[r]) = Len(params[r]) - 1 /\ i'[r] = i[r] - 1
    BY <1>1, <1>2
  <2>4. k \in 1..Len(params[r]) - 1 /\ ~(k < i[r])
    BY <2>2, <2>3
  <2>5. k + 1 \in 1..Len(params[r]) /\ k + 1 > i[r]
    BY <2>2, <2>4
  <2>6. params'[r][k] = params[r][k + 1]
    BY ONLY <1>2, <2>4
  <2> QED BY <2>1, <2>5, <2>6
<1>4. ASSUME NEW x, Waited(r, x)
      PROVE  Processed(x) \/ Waited(r, x)'
  <2>1. x = params[r][i[r]] \/ x \in ToSet(params'[r])
    BY <1>1, <1>4, RemoveAtKeeps DEF Waited
  <2> QED BY <1>1, <2>1 DEF Waited
<1>5. \A x : Processed(x) => HasTask(x)
  BY DEF Processed, HasTask
<1> QED BY <1>1, <1>2, <1>3, <1>4, <1>5, WaitingFrame DEF WaitOK, Waiting, Inserting

-----------------------------------------------------------------------------
LEMMA InvStep == Inv /\ [Next]_vars => Inv'
<1> SUFFICES ASSUME Inv, [Next]_vars PROVE Inv'
  OBVIOUS
<1>1. TypeOK /\ Grows
  BY StepGrows DEF Inv
<1>2. ASSUME NEW q \in Requests
      PROVE  SearchOK(q)' /\ WaitOK(q)'
  <2>1. ASSUME Idle(q)
        PROVE  SearchOK(q)' /\ WaitOK(q)'
    BY <1>1, <2>1, IdleKeepsOK DEF Inv
  <2>2. CASE Ingest
    BY <1>1, <2>1, <2>2, IngestIdle
  <2>3. ASSUME NEW r \in Requests, r # q, Trigger(r) \/ Handle(r)
        PROVE  SearchOK(q)' /\ WaitOK(q)'
    BY <1>1, <2>1, <2>3, OthersIdle
  <2>4. CASE Trigger(q)
    BY <2>4, TriggerKeepsOK
  <2>5. CASE Handle(q)
    BY <2>5, CompareKeepsOK, InsertingKeepsOK, WaitTasksKeepsOK, PassKeepsOK, ReturnKeepsOK,
       QueryKeepsOK, DownloadKeepsOK, RaisesKeepsOK
    DEF Handle, QueryMissing, Raise
  <2>6. CASE UNCHANGED vars
    BY <2>1, <2>6 DEF vars, tableVars, requestVars, Idle
  <2> QED BY <2>2, <2>3, <2>4, <2>5, <2>6 DEF Next
<1> QED BY <1>2, TypeStep DEF Inv

-----------------------------------------------------------------------------
(* Theorems                                                                *)

\* Type correctness, for any number of requests and items.
THEOREM TypesHold == Spec => []TypeOK
<1>1. Inv => TypeOK
  BY DEF Inv
<1> QED BY InvInit, InvStep, <1>1, PTL DEF Spec

\* Failed insertions are swallowed, but what a request returns has tasks.
THEOREM MissingItemsHaveTasks == Spec => []NoItemForgotten
<1>1. Inv => NoItemForgotten
  BY DEF Inv, WaitOK, NoItemForgotten, HasTask
<1> QED BY InvInit, InvStep, <1>1, PTL DEF Spec

\* A request that returns early has seen all of its tasks processed.
THEOREM ReturnsWhenProcessed == Spec => []OwnTasksAreProcessed
<1>1. ASSUME Inv, NEW r \in Requests, pc[r] = "returned", iterations[r] < quota[r],
             NEW x \in Items, tasks[r][x] # "absent"
      PROVE  "done" \in TaskRows(x)
  <2>1. iterations[r] \in Nat /\ quota[r] \in Nat
    BY <1>1 DEF Inv, TypeOK
  <2> QED BY <1>1, <2>1 DEF Inv, WaitOK, Processed
<1>2. Inv => OwnTasksAreProcessed
  BY <1>1 DEF OwnTasksAreProcessed
<1> QED BY InvInit, InvStep, <1>2, PTL DEF Spec

\* Every step of a waiting request decreases what it has left.
THEOREM WaitsAreBounded == Spec => WaitsEnd
<1>1. ASSUME Inv, [Next]_vars, NEW r \in Requests,
             pc[r] \in Waiting, pc'[r] \in Waiting,
             <<pc[r], i[r], iterations[r]>> # <<pc[r], i[r], iterations[r]>>'
      PROVE  WaitsLess(r)
  <2>1. /\ TypeOK /\ WaitOK(r) /\ i[r] \in Nat /\ iterations[r] \in Nat /\ quota[r] \in Nat
        /\ iterations[r] <= quota[r]
    BY <1>1 DEF Inv, TypeOK, WaitOK
  <2>2. ~Idle(r)
    BY <1>1 DEF Idle
  <2>3. Handle(r)
    <3>1. ~UNCHANGED vars
      BY <1>1 DEF vars, requestVars
    <3>2. ~Trigger(r)
      BY <1>1 DEF Trigger, NoExternalItem, SearchExternal, Waiting
    <3> QED BY <1>1, <2>1, <2>2, <3>1, <3>2, OthersIdle, IngestIdle DEF Next
  <2>4. Pass(r) \/ EndPass(r) \/ QueryNotDone(r) \/ QueryDone(r) \/ DownloadDone(r)
          \/ DownloadNotDone(r)
    BY <1>1, <2>1, <2>3
    DEF Handle, Waiting, TypeOK, Goes, CompareItems, TaskKnown, TaskUnknown, InsertTask,
        InsertFails, WaitTasks, Return, QueryMissing, Raise, Raises
  <2>5. /\ quota'[r] = quota[r]
        /\ \/ iterations'[r] = iterations[r] + 1 /\ iterations[r] < quota[r]
           \/ iterations'[r] = iterations[r] /\ i'[r] = i[r] - 1
           \/ /\ iterations'[r] = iterations[r] /\ i'[r] = i[r]
              /\ \/ pc[r] = "query" /\ pc'[r] \in {"loop", "download"}
    BY <2>1, <2>4
    DEF TypeOK, Goes, Pass, EndPass, QueryNotDone, QueryDone, DownloadDone, DownloadNotDone
  <2> QED BY <2>1, <2>5 DEF WaitsLess, QueriesLeft
<1>2. Inv /\ [Next]_vars =>
        [\A r \in Requests :
            /\ pc[r] \in Waiting /\ pc'[r] \in Waiting
            /\ <<pc[r], i[r], iterations[r]>> # <<pc[r], i[r], iterations[r]>>'
         => WaitsLess(r)]_vars
  BY <1>1
<1> QED BY InvInit, InvStep, <1>2, PTL DEF Spec, WaitsEnd
=============================================================================
