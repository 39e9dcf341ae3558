---------------------------- MODULE HsiRunsProofs ----------------------------
(***************************************************************************)
(* Proofs about HsiRuns, for any partitions, items, timestamps and runs.   *)
(***************************************************************************)
EXTENDS HsiRuns, SequenceTheorems, TLAPS

\* The timestamp p is at has been dealt with: its row is computed, or a file
\* without valid pixels excuses it.
Excused(p, t) == \E i \in FilesOf(p, t) : p \notin Covers[i]
Kept(p) == rows[p] \cup (IF skip THEN local[p].rows ELSE {})
Handled(p, t) == t \in TimesIn(Kept(p)) \/ Excused(p, t)

Busy == {"fetch", "read", "times", "load", "clean", "remove", "write", "upload", "register"}

\* What a worker holds at each step.
WorkerOK(p) ==
    /\ pc[p] \notin Busy => rows[p] = {} /\ got[p] = <<>>
    /\ pc[p] \in {"fetch", "read"} => rows[p] = {} /\ got[p] = <<>>
    /\ pc[p] \in {"load", "clean", "remove"} => got[p] # <<>> /\ Current(p) \in Timestamps
    /\ pc[p] \in {"times", "load", "clean", "remove"} =>
            /\ \A k \in 1..Len(got[p]) : got[p][k] \in FilesOf(p, Current(p))
            /\ \A t \in Queried(p) \ todo[p] : Handled(p, t)
    /\ pc[p] = "load" =>
            \/ Len(got[p]) = Cardinality(FilesOf(p, Current(p)))
            \/ Handled(p, Current(p))
    /\ pc[p] \in {"clean", "remove"} => Handled(p, Current(p))
    /\ pc[p] = "write" => \A t \in Queried(p) : Handled(p, t)
    /\ pc[p] = "upload" =>
            \A t \in Queried(p) : t \in TimesIn(local[p].rows) \/ Excused(p, t)
    /\ pc[p] = "register" =>
            \A t \in Queried(p) : t \in TimesIn(remote[p]) \/ Excused(p, t)
    /\ pc[p] = "done" =>
            Stranded(p) \/ \A t \in Queried(p) : t \in TimesIn(remote[p]) \/ Excused(p, t)

\* The local copy a skipping run extends is the file in the bucket, if there is one.
CopyOK(p) ==
    /\ skip /\ pc[p] \in {"read", "times", "load", "clean", "remove", "write"} /\ remote[p] # {}
            => local[p] = Whole(remote[p])
    /\ skip /\ pc[p] = "upload" => remote[p] \subseteq local[p].rows
    /\ ~recomputed => json[p] \subseteq TimesIn(remote[p])

Inv ==
    /\ TypeOK
    /\ ~recomputed => skip
    /\ \A p \in Partitions : WorkerOK(p) /\ CopyOK(p)

LEMMA InvInit == Init => Inv
<1> SUFFICES ASSUME Init PROVE Inv
  OBVIOUS
<1>1. TypeOK
  <2>1. <<>> \in Seq(Items) /\ 0 \in 0..MaxRuns /\ 0 \in 0..MaxCrashes /\ 0 \in 0..MaxFailures
    BY EmptySeq, BoundsAssumption
  <2>2. NoFile \in [torn : BOOLEAN, rows : SUBSET Rows] /\ NoFile.rows = {}
    BY DEF NoFile
  <2>3. local \in [Partitions -> [torn : BOOLEAN, rows : SUBSET Rows]]
    BY <2>2 DEF Init
  <2>4. \A p \in Partitions : local[p].rows = {}
    BY <2>2 DEF Init
  <2>5. pc \in [Partitions -> Steps]
    BY DEF Init, Steps
  <2>6. skip \in BOOLEAN /\ recomputed \in BOOLEAN
    BY DEF Init
  <2> QED BY <2>1, <2>3, <2>4, <2>5, <2>6 DEF Init, TypeOK
<1>2. ASSUME NEW p \in Partitions
      PROVE  WorkerOK(p) /\ CopyOK(p)
  BY DEF Init, WorkerOK, CopyOK, NoFile, Ended, Busy
<1> QED BY <1>1, <1>2 DEF Inv, Init

-----------------------------------------------------------------------------
(* Frames: what a step leaves alone                                        *)

\* p's part of the state, and the plan of the run, are the same after the step.
Idle(p) ==
    /\ UNCHANGED <<meta, skip>>
    /\ pc'[p] = pc[p] /\ todo'[p] = todo[p] /\ got'[p] = got[p] /\ rows'[p] = rows[p]
    /\ local'[p] = local[p] /\ remote'[p] = remote[p] /\ json'[p] = json[p]
    /\ recomputed' = recomputed

LEMMA SamePlan ==
    ASSUME NEW p \in Partitions, UNCHANGED meta
    PROVE  /\ Queried(p)' = Queried(p)
           /\ \A t : FilesOf(p, t)' = FilesOf(p, t) /\ Excused(p, t)' = Excused(p, t)
BY DEF Queried, FilesOf, Excused

LEMMA SameTime ==
    ASSUME NEW p \in Partitions, todo'[p] = todo[p]
    PROVE  Current(p)' = Current(p)
BY DEF Current

LEMMA IdleKeepsOK ==
    ASSUME NEW p \in Partitions, Idle(p), WorkerOK(p), CopyOK(p)
    PROVE  WorkerOK(p)' /\ CopyOK(p)'
<1>1. /\ Queried(p)' = Queried(p) /\ Current(p)' = Current(p)
      /\ \A t : FilesOf(p, t)' = FilesOf(p, t) /\ Excused(p, t)' = Excused(p, t)
  BY SamePlan, SameTime DEF Idle
<1>2. Kept(p)' = Kept(p) /\ Stranded(p)' = Stranded(p)
  BY DEF Kept, Stranded, Idle
<1>3. \A t : Handled(p, t)' = Handled(p, t)
  BY <1>1, <1>2 DEF Handled
<1>4. CopyOK(p)'
  BY DEF CopyOK, Idle
<1>5. WorkerOK(p)'
  BY <1>1, <1>2, <1>3 DEF WorkerOK, Idle
<1> QED BY <1>4, <1>5

\* A step of the worker of p leaves the workers and files of other partitions alone.
LEMMA OthersIdle ==
    ASSUME TypeOK, NEW p \in Partitions, NEW q \in Partitions \ {p},
           Work(p) \/ RequestFails(p) \/ Crash(p)
    PROVE  Idle(q)
<1> USE DEF TypeOK, Idle, shared, memory, results, faults
<1>1. CASE Fetch(p) \/ ReadExisting(p)
  BY <1>1 DEF Fetch, ReadExisting, Goto, Exit
<1>2. ASSUME NEW i \in Items, Download(p, i)
      PROVE  Idle(q)
  BY <1>2 DEF Download, Goto
<1>3. CASE Load(p) \/ FileIsGone(p) \/ FindFile(p)
  BY <1>3 DEF Load, FileIsGone, FindFile, Goto, Exit
<1>4. CASE SkipRemoval(p) \/ Clean(p)
  BY <1>4 DEF SkipRemoval, Clean, NextFile, Goto
<1>5. CASE AllTimesSeen(p) \/ Write(p) \/ Upload(p) \/ Register(p)
  BY <1>5 DEF AllTimesSeen, Write, Upload, Register, Goto, Exit
<1>6. CASE RequestFails(p) \/ Crash(p)
  BY <1>6 DEF RequestFails, Crash, Exit, Goto
<1> QED BY <1>1, <1>2, <1>3, <1>4, <1>5, <1>6 DEF Work

-----------------------------------------------------------------------------
(* Types                                                                   *)

LEMMA ExitTypes ==
    ASSUME TypeOK, NEW p \in Partitions, NEW how \in Ended, Exit(p, how)
    PROVE  /\ pc' \in [Partitions -> Steps]
           /\ todo' \in [Partitions -> SUBSET Timestamps]
           /\ got' \in [Partitions -> Seq(Items)]
           /\ rows' \in [Partitions -> SUBSET Rows]
<1>1. <<>> \in Seq(Items) /\ how \in Steps
  BY EmptySeq DEF Steps
<1> QED BY <1>1 DEF TypeOK, Exit, Goto

LEMMA LocalTypes ==
    ASSUME TypeOK, NEW p \in Partitions, NEW f,
           \/ f = TornFile
           \/ \E r \in SUBSET Rows : f = Whole(r)
           \/ f = local[p],
           local' = [local EXCEPT ![p] = f]
    PROVE  /\ local' \in [Partitions -> [torn : BOOLEAN, rows : SUBSET Rows]]
           /\ \A q \in Partitions : local'[q].torn => local'[q].rows = {}
<1>1. f \in [torn : BOOLEAN, rows : SUBSET Rows] /\ (f.torn => f.rows = {})
  <2>1. CASE f = TornFile
    BY <2>1 DEF TornFile
  <2>2. ASSUME NEW r \in SUBSET Rows, f = Whole(r)
        PROVE  <1>1
    BY <2>2 DEF Whole
  <2>3. CASE f = local[p]
    BY <2>3 DEF TypeOK
  <2> QED BY <2>1, <2>2, <2>3
<1>2. \A q \in Partitions : local'[q] = IF q = p THEN f ELSE local[q]
  BY DEF TypeOK
<1>3. local' \in [Partitions -> [torn : BOOLEAN, rows : SUBSET Rows]]
  BY <1>1 DEF TypeOK
<1> QED BY <1>1, <1>2, <1>3 DEF TypeOK

LEMMA QueriedTypes ==
    ASSUME TypeOK, NEW p \in Partitions
    PROVE  Queried(p) \subseteq Timestamps
BY ItemsAssumption DEF TypeOK, Queried

LEMMA TypeStep ==
    ASSUME Inv, [Next]_vars
    PROVE  TypeOK'
<1> USE BoundsAssumption, ItemsAssumption
<1>1. TypeOK
  BY DEF Inv
<1>2. ASSUME NEW i \in Items, Publish(i)
      PROVE  TypeOK'
  BY <1>1, <1>2 DEF TypeOK, Publish, memory, results, faults
<1>3. ASSUME NEW flag \in BOOLEAN, Search(flag)
      PROVE  TypeOK'
  <2>1. pc' \in [Partitions -> Steps] /\ recomputed' \in BOOLEAN /\ skip' \in BOOLEAN
    BY <1>1, <1>3 DEF TypeOK, Search, Steps
  <2> QED BY <1>1, <1>3, <2>1 DEF TypeOK, Search, memory, results, faults
<1>4. ASSUME NEW p \in Partitions, Fetch(p)
      PROVE  TypeOK'
  <2>1. /\ local' \in [Partitions -> [torn : BOOLEAN, rows : SUBSET Rows]]
        /\ \A q \in Partitions : local'[q].torn => local'[q].rows = {}
    <3>1. remote[p] \in SUBSET Rows
      BY <1>1 DEF TypeOK
    <3> QED BY <1>1, <1>4, <3>1, LocalTypes DEF Fetch, Fetched
  <2> QED BY <1>1, <1>4, <2>1 DEF TypeOK, Fetch, Goto, Steps, shared, memory, faults
<1>5. ASSUME NEW p \in Partitions, ReadExisting(p)
      PROVE  TypeOK'
  <2>1. CASE skip /\ local[p].torn
    BY <1>1, <1>5, <2>1, ExitTypes DEF TypeOK, ReadExisting, shared, results, faults, Ended
  <2>2. CASE ~(skip /\ local[p].torn)
    <3>1. Queried(p) \subseteq Timestamps
      BY <1>1, QueriedTypes
    <3>2. PICK ts \in SUBSET Timestamps : todo' = [todo EXCEPT ![p] = ts]
      <4>1. CASE skip
        BY <1>5, <2>2, <3>1, <4>1 DEF ReadExisting
      <4>2. CASE ~skip
        BY <1>5, <3>1, <4>2 DEF ReadExisting
      <4> QED BY <4>1, <4>2
    <3>4. /\ pc' = [pc EXCEPT ![p] = "times"]
          /\ got' = got /\ rows' = rows
      BY <1>5, <2>2 DEF ReadExisting, Goto
    <3>3. UNCHANGED <<shared, results, tmp, faults>>
      BY <1>5 DEF ReadExisting
    <3> QED BY <1>1, <3>2, <3>3, <3>4 DEF TypeOK, Steps, shared, results, faults
  <2> QED BY <2>1, <2>2
<1>6. ASSUME NEW p \in Partitions, NEW i \in Items, Download(p, i)
      PROVE  TypeOK'
  BY <1>1, <1>6 DEF TypeOK, Download, shared, results, faults, Goto, Steps
<1>7. ASSUME NEW p \in Partitions, Load(p)
      PROVE  TypeOK'
  <2>1. got[p] \in Seq(Items) /\ got[p] # <<>> /\ Current(p) \in Timestamps
    BY <1>1, <1>7 DEF Inv, WorkerOK, Load, TypeOK
  <2>2. Head(got[p]) \in Items
    BY <2>1, HeadTailProperties
  <2>3. Computed(p) \subseteq Rows
    BY <2>1, <2>2 DEF Computed, Rows
  <2> QED BY <1>1, <1>7, <2>3 DEF TypeOK, Load, shared, results, faults, Goto, Steps
<1>8. ASSUME NEW p \in Partitions, FileIsGone(p) \/ RequestFails(p)
      PROVE  TypeOK'
  BY <1>1, <1>8, ExitTypes
  DEF TypeOK, FileIsGone, RequestFails, shared, results, faults, Ended
<1>9. ASSUME NEW p \in Partitions, FindFile(p)
       PROVE  TypeOK'
  BY <1>1, <1>9 DEF TypeOK, FindFile, shared, memory, results, faults, Goto, Steps
<1>10. ASSUME NEW p \in Partitions, SkipRemoval(p) \/ Clean(p)
      PROVE  TypeOK'
  <2>1. got[p] \in Seq(Items) /\ got[p] # <<>>
    BY <1>1, <1>10 DEF Inv, WorkerOK, SkipRemoval, Clean, TypeOK
  <2>2. Tail(got[p]) \in Seq(Items)
    BY <2>1, HeadTailProperties
  <2>3. NextFile(p) /\ tmp' \subseteq tmp
    BY <1>10 DEF SkipRemoval, Clean
  <2>4. got' = [got EXCEPT ![p] = Tail(got[p])]
    BY <2>3 DEF NextFile
  <2>5. /\ got' \in [Partitions -> Seq(Items)]
        /\ tmp' \subseteq Items
    BY <1>1, <2>2, <2>3, <2>4 DEF TypeOK
  <2>6. /\ todo' \in [Partitions -> SUBSET Timestamps]
        /\ pc' \in [Partitions -> Steps]
    <3>1. TimesLeft(p) \in SUBSET Timestamps
      BY <1>1 DEF TypeOK, TimesLeft
    <3>2. CASE Len(got[p]) > 1
      BY <1>1, <2>3, <3>2 DEF TypeOK, NextFile, Goto, Steps
    <3>3. CASE ~(Len(got[p]) > 1)
      <4>1. pc' = [pc EXCEPT ![p] = "times"] /\ todo' = [todo EXCEPT ![p] = TimesLeft(p)]
        BY <2>3, <3>3 DEF NextFile, Goto
      <4>2. "times" \in Steps
        BY DEF Steps
      <4> HIDE DEF TimesLeft
      <4> QED BY <1>1, <3>1, <4>1, <4>2 DEF TypeOK
    <3> QED BY <3>2, <3>3
  <2>7. UNCHANGED <<shared, rows, results, faults>>
    BY <2>3 DEF NextFile
  <2> QED BY <1>1, <2>5, <2>6, <2>7 DEF TypeOK, shared, results, faults
<1>11. ASSUME NEW p \in Partitions, AllTimesSeen(p)
       PROVE  TypeOK'
  <2>1. CASE rows[p] = {}
    BY <1>1, <1>11, <2>1, ExitTypes DEF TypeOK, AllTimesSeen, shared, results, faults, Ended
  <2>2. CASE rows[p] # {}
    BY <1>1, <1>11, <2>2
    DEF TypeOK, AllTimesSeen, shared, memory, results, faults, Goto, Steps
  <2> QED BY <2>1, <2>2
<1>12. ASSUME NEW p \in Partitions, Write(p)
       PROVE  TypeOK'
  <2>1. /\ local' \in [Partitions -> [torn : BOOLEAN, rows : SUBSET Rows]]
        /\ \A q \in Partitions : local'[q].torn => local'[q].rows = {}
    <3>1. (IF skip THEN Appended(p) ELSE rows[p]) \in SUBSET Rows
      BY <1>1 DEF TypeOK, Appended
    <3> QED BY <1>1, <1>12, <3>1, LocalTypes DEF Write
  <2> QED BY <1>1, <1>12, <2>1 DEF TypeOK, Write, Goto, Steps, shared, memory, faults
<1>13. ASSUME NEW p \in Partitions, Upload(p)
       PROVE  TypeOK'
  BY <1>1, <1>13 DEF TypeOK, Upload, shared, memory, faults, Goto, Steps
<1>14. ASSUME NEW p \in Partitions, Register(p)
       PROVE  TypeOK'
  <2>1. TimesIn(remote[p]) \subseteq Timestamps
    BY <1>1 DEF TypeOK, TimesIn, Rows
  <2>2. Described(p) \subseteq Timestamps
    BY <2>1 DEF Described, Extent
  <2> QED BY <1>1, <1>14, <2>2, ExitTypes DEF TypeOK, Register, shared, faults, Ended
<1>15. ASSUME NEW p \in Partitions, Crash(p)
       PROVE  TypeOK'
  <2>1. /\ local' \in [Partitions -> [torn : BOOLEAN, rows : SUBSET Rows]]
        /\ \A q \in Partitions : local'[q].torn => local'[q].rows = {}
    <3>1. CASE local' = local
      BY <1>1, <3>1 DEF TypeOK
    <3>2. CASE local' = [local EXCEPT ![p] = TornFile]
      BY <1>1, <3>2, LocalTypes
    <3> QED BY <1>15, <3>1, <3>2 DEF Crash
  <2> QED BY <1>1, <1>15, <2>1, ExitTypes DEF TypeOK, Crash, shared, Ended
<1>16. CASE UNCHANGED vars
  BY <1>1, <1>16 DEF TypeOK, vars
<1> QED BY <1>2, <1>3, <1>4, <1>5, <1>6, <1>7, <1>8, <1>9, <1>10, <1>11, <1>12, <1>13,
           <1>14, <1>15, <1>16 DEF Next, Work

-----------------------------------------------------------------------------
(* The steps of one worker                                                 *)

\* A worker that leaves, but not with success, keeps what it announces.
LEMMA ExitKeepsOK ==
    ASSUME TypeOK, NEW p \in Partitions, CopyOK(p), Exit(p, "failed") \/ Exit(p, "dead"),
           UNCHANGED <<meta, skip, recomputed, remote, json>>
    PROVE  WorkerOK(p)' /\ CopyOK(p)'
<1>1. /\ pc'[p] \in {"failed", "dead"}
      /\ todo'[p] = {} /\ got'[p] = <<>> /\ rows'[p] = {}
  BY DEF Exit, Goto, TypeOK
<1>2. CopyOK(p)'
  BY <1>1 DEF CopyOK
<1>3. WorkerOK(p)'
  BY <1>1 DEF WorkerOK, Busy
<1> QED BY <1>2, <1>3

LEMMA FetchKeepsOK ==
    ASSUME Inv, NEW p \in Partitions, Fetch(p)
    PROVE  WorkerOK(p)' /\ CopyOK(p)'
<1>1. TypeOK /\ WorkerOK(p) /\ CopyOK(p)
  BY DEF Inv
<1>2. /\ pc[p] = "fetch" /\ pc'[p] = "read"
      /\ rows' = rows /\ got' = got /\ remote' = remote /\ json' = json
      /\ meta' = meta /\ skip' = skip /\ recomputed' = recomputed
      /\ local'[p] = IF skip THEN Fetched(p) ELSE local[p]
  BY <1>1 DEF Fetch, Goto, TypeOK, shared, memory
<1>3. CopyOK(p)'
  BY <1>1, <1>2 DEF CopyOK, Fetched
<1>4. WorkerOK(p)'
  BY <1>1, <1>2 DEF WorkerOK, Busy
<1> QED BY <1>3, <1>4

LEMMA ReadKeepsOK ==
    ASSUME Inv, NEW p \in Partitions, ReadExisting(p)
    PROVE  WorkerOK(p)' /\ CopyOK(p)'
<1>1. TypeOK /\ WorkerOK(p) /\ CopyOK(p)
  BY DEF Inv
<1>2. /\ pc[p] = "read" /\ UNCHANGED <<meta, skip, recomputed, local, remote, json>>
  BY DEF ReadExisting, shared, results
<1>3. CASE skip /\ local[p].torn
  BY <1>1, <1>2, <1>3, ExitKeepsOK DEF ReadExisting
<1>4. CASE ~(skip /\ local[p].torn)
  <2>1. /\ pc'[p] = "times" /\ got' = got /\ rows' = rows
        /\ todo'[p] = IF skip THEN Queried(p) \ TimesIn(local[p].rows) ELSE Queried(p)
    BY <1>1, <1>4 DEF ReadExisting, Goto, TypeOK
  <2>2. Queried(p)' = Queried(p) /\ got[p] = <<>> /\ Len(<<>>) = 0
    BY <1>1, <1>2, SamePlan, EmptySeq DEF WorkerOK
  <2>3. ASSUME NEW t \in Queried(p)' \ todo'[p]
        PROVE  Handled(p, t)'
    BY <1>2, <2>1, <2>2, <2>3 DEF Handled, Kept, TimesIn
  <2>4. WorkerOK(p)'
    BY <1>1, <1>2, <2>1, <2>2, <2>3 DEF WorkerOK, Busy
  <2>5. CopyOK(p)'
    BY <1>1, <1>2, <2>1 DEF CopyOK
  <2> QED BY <2>4, <2>5
<1> QED BY <1>3, <1>4

\* Nothing is taken from what a worker has when only pc, got and tmp change.
LEMMA HandledStays ==
    ASSUME NEW p \in Partitions, UNCHANGED <<meta, skip, local>>, rows[p] \subseteq rows'[p]
    PROVE  \A t : Handled(p, t) => Handled(p, t)'
<1>1. \A t : Excused(p, t)' = Excused(p, t)
  BY SamePlan
<1>2. Kept(p) \subseteq Kept(p)'
  BY DEF Kept
<1> QED BY <1>1, <1>2 DEF Handled, TimesIn

LEMMA DownloadKeepsOK ==
    ASSUME Inv, NEW p \in Partitions, NEW i \in Items, Download(p, i)
    PROVE  WorkerOK(p)' /\ CopyOK(p)'
<1>1. TypeOK /\ WorkerOK(p) /\ CopyOK(p)
  BY DEF Inv
<1>2. /\ pc[p] = "times" /\ i \in FilesOf(p, Current(p))
      /\ UNCHANGED <<meta, skip, recomputed, local, remote, json, rows, todo>>
      /\ got'[p] = Append(got[p], i)
      /\ pc'[p] = IF Len(got'[p]) = Cardinality(FilesOf(p, Current(p))) THEN "load" ELSE "times"
  BY <1>1 DEF Download, Goto, TypeOK, shared, results
<1>3. /\ Queried(p)' = Queried(p) /\ Current(p)' = Current(p)
      /\ \A t : FilesOf(p, t)' = FilesOf(p, t)
      /\ \A t : Handled(p, t) => Handled(p, t)'
  BY <1>2, SamePlan, SameTime, HandledStays
<1>4. /\ got'[p] # <<>> /\ Current(p) \in Timestamps
      /\ \A k \in 1..Len(got'[p]) : got'[p][k] \in FilesOf(p, Current(p))
  <2>1. got[p] \in Seq(Items)
    BY <1>1 DEF TypeOK
  <2>2. /\ Len(got[p]) \in Nat /\ Len(got'[p]) = Len(got[p]) + 1
        /\ \A k \in 1..Len(got[p]) : got'[p][k] = got[p][k]
        /\ got'[p][Len(got[p]) + 1] = i
    BY <1>2, <2>1
  <2>3. \A k \in 1..Len(got[p]) : got[p][k] \in FilesOf(p, Current(p))
    BY <1>1, <1>2 DEF WorkerOK
  <2>4. got'[p] # <<>>
    BY <2>2, EmptySeq
  <2>5. Current(p) \in Timestamps
    BY <1>2, ItemsAssumption DEF FilesOf
  <2> QED BY <1>2, <2>2, <2>3, <2>4, <2>5
<1>5. \A t \in Queried(p)' \ todo'[p] : Handled(p, t)'
  BY <1>1, <1>2, <1>3 DEF WorkerOK
<1>6. WorkerOK(p)'
  BY <1>2, <1>3, <1>4, <1>5 DEF WorkerOK, Busy
<1>7. CopyOK(p)'
  BY <1>1, <1>2 DEF CopyOK
<1> QED BY <1>6, <1>7

\* The first file of a timestamp either gives its row or excuses it.
LEMMA LoadKeepsOK ==
    ASSUME Inv, NEW p \in Partitions, Load(p)
    PROVE  WorkerOK(p)' /\ CopyOK(p)'
<1>1. TypeOK /\ WorkerOK(p) /\ CopyOK(p)
  BY DEF Inv
<1>2. /\ pc[p] = "load" /\ pc'[p] = "clean"
      /\ UNCHANGED <<meta, skip, recomputed, local, remote, json, got, todo>>
      /\ rows'[p] = rows[p] \cup Computed(p)
  BY <1>1 DEF Load, Goto, TypeOK, shared, results
<1>3. /\ Queried(p)' = Queried(p) /\ Current(p)' = Current(p)
      /\ \A t : FilesOf(p, t)' = FilesOf(p, t) /\ Excused(p, t)' = Excused(p, t)
      /\ \A t : Handled(p, t) => Handled(p, t)'
  BY <1>2, SamePlan, SameTime, HandledStays
<1>4. Handled(p, Current(p))'
  <2>1. CASE Handled(p, Current(p))
    BY <1>3, <2>1
  <2>2. CASE Len(got[p]) = Cardinality(FilesOf(p, Current(p)))
    <3>1. Head(got[p]) \in FilesOf(p, Current(p))
      <4>1. got[p] \in Seq(Items) /\ got[p] # <<>>
        BY <1>1, <1>2 DEF TypeOK, WorkerOK
      <4>2. 1 \in 1..Len(got[p]) /\ Head(got[p]) = got[p][1]
        BY <4>1, EmptySeq
      <4> QED BY <1>1, <1>2, <4>2 DEF WorkerOK
    <3>2. CASE p \in Covers[Head(got[p])]
      <4>1. <<Current(p), Head(got[p])>> \in rows'[p]
        BY <1>2, <2>2, <3>2 DEF Computed
      <4>2. Current(p) \in TimesIn(rows'[p])
        <5>1. <<Current(p), Head(got[p])>>[1] = Current(p)
          OBVIOUS
        <5> QED BY <4>1, <5>1 DEF TimesIn
      <4>3. Current(p) \in TimesIn(Kept(p)')
        BY <4>2 DEF Kept, TimesIn
      <4> QED BY <1>3, <4>3 DEF Handled
    <3>3. CASE p \notin Covers[Head(got[p])]
      <4>1. Excused(p, Current(p))
        BY <3>1, <3>3 DEF Excused
      <4> QED BY <1>3, <4>1 DEF Handled
    <3> QED BY <3>2, <3>3
  <2> QED BY <1>1, <1>2, <2>1, <2>2 DEF WorkerOK
<1>5. /\ got'[p] # <<>> /\ Current(p) \in Timestamps
      /\ \A k \in 1..Len(got'[p]) : got'[p][k] \in FilesOf(p, Current(p))
  BY <1>1, <1>2 DEF WorkerOK
<1>6. \A t \in Queried(p)' \ todo'[p] : Handled(p, t)'
  BY <1>1, <1>2, <1>3 DEF WorkerOK
<1>7. WorkerOK(p)'
  BY <1>2, <1>3, <1>4, <1>5, <1>6 DEF WorkerOK, Busy
<1>8. CopyOK(p)'
  BY <1>1, <1>2 DEF CopyOK
<1> QED BY <1>7, <1>8

\* Looking for the file before it is removed changes nothing.
LEMMA FindKeepsOK ==
    ASSUME Inv, NEW p \in Partitions, FindFile(p)
    PROVE  WorkerOK(p)' /\ CopyOK(p)'
<1>1. TypeOK /\ WorkerOK(p) /\ CopyOK(p)
  BY DEF Inv
<1>2. /\ pc[p] = "clean" /\ pc'[p] = "remove"
      /\ UNCHANGED <<meta, skip, recomputed, local, remote, json, got, todo, rows>>
  BY <1>1 DEF FindFile, Goto, TypeOK, shared, memory, results
<1>3. /\ Queried(p)' = Queried(p) /\ Current(p)' = Current(p)
      /\ \A t : FilesOf(p, t)' = FilesOf(p, t)
      /\ \A t : Handled(p, t) => Handled(p, t)'
  BY <1>2, SamePlan, SameTime, HandledStays
<1>4. \A t \in Queried(p)' \ todo'[p] : Handled(p, t)'
  BY <1>1, <1>2, <1>3 DEF WorkerOK
<1>5. WorkerOK(p)'
  BY <1>1, <1>2, <1>3, <1>4 DEF WorkerOK, Busy
<1>6. CopyOK(p)'
  BY <1>1, <1>2 DEF CopyOK
<1> QED BY <1>5, <1>6

LEMMA CleanKeepsOK ==
    ASSUME Inv, NEW p \in Partitions, SkipRemoval(p) \/ Clean(p)
    PROVE  WorkerOK(p)' /\ CopyOK(p)'
<1>1. TypeOK /\ WorkerOK(p) /\ CopyOK(p)
  BY DEF Inv
<1>2. /\ pc[p] \in {"clean", "remove"}
      /\ UNCHANGED <<meta, skip, recomputed, local, remote, json, rows>>
      /\ got'[p] = Tail(got[p])
  BY <1>1 DEF SkipRemoval, Clean, NextFile, TypeOK, shared, results
<1>3. /\ Queried(p)' = Queried(p)
      /\ \A t : FilesOf(p, t)' = FilesOf(p, t)
      /\ \A t : Handled(p, t) => Handled(p, t)'
  BY <1>2, SamePlan, HandledStays
<1>4. /\ Len(got[p]) \in Nat \ {0} /\ Len(got'[p]) = Len(got[p]) - 1
      /\ \A k \in 1..Len(got'[p]) : got'[p][k] = got[p][k + 1]
      /\ got'[p] \in Seq(Items)
  <2>1. got[p] \in Seq(Items) /\ got[p] # <<>>
    BY <1>1, <1>2 DEF TypeOK, WorkerOK
  <2> QED BY <1>2, <2>1, EmptySeq, HeadTailProperties
<1>5. \A k \in 1..Len(got'[p]) : got'[p][k] \in FilesOf(p, Current(p))
  <2>1. \A k \in 1..Len(got[p]) : got[p][k] \in FilesOf(p, Current(p))
    BY <1>1, <1>2 DEF WorkerOK
  <2> QED BY <1>4, <2>1
<1>6. CopyOK(p)'
  <2>1. pc'[p] \in {"load", "times"}
    BY <1>1 DEF SkipRemoval, Clean, NextFile, Goto, TypeOK
  <2> QED BY <1>1, <1>2, <2>1 DEF CopyOK
<1>7. CASE Len(got[p]) > 1
  <2>1. pc'[p] = "load" /\ todo'[p] = todo[p]
    BY <1>1, <1>7 DEF SkipRemoval, Clean, NextFile, Goto, TypeOK
  <2>2. Current(p)' = Current(p)
    BY <2>1, SameTime
  <2>3. got'[p] # <<>> /\ Current(p) \in Timestamps /\ Handled(p, Current(p))
    <3>1. Len(got'[p]) # 0
      BY <1>4, <1>7
    <3>2. got'[p] # <<>>
      BY <3>1, EmptySeq
    <3> QED BY <1>1, <1>2, <3>2 DEF WorkerOK
  <2>4. \A t \in Queried(p)' \ todo'[p] : Handled(p, t)'
    BY <1>1, <1>2, <1>3, <2>1 DEF WorkerOK
  <2>5. WorkerOK(p)'
    BY <1>3, <1>5, <2>1, <2>2, <2>3, <2>4 DEF WorkerOK, Busy
  <2> QED BY <1>6, <2>5
<1>8. CASE ~(Len(got[p]) > 1)
  <2>1. pc'[p] = "times" /\ todo'[p] = TimesLeft(p)
    BY <1>1, <1>8 DEF SkipRemoval, Clean, NextFile, Goto, TypeOK
  <2>2. \A k \in 1..Len(got'[p]) : FALSE
    BY <1>4, <1>8
  <2>3. \A t \in Queried(p)' \ todo'[p] : Handled(p, t)'
    <3>1. Handled(p, Current(p)) /\ \A t \in Queried(p) \ todo[p] : Handled(p, t)
      BY <1>1, <1>2 DEF WorkerOK
    <3> QED BY <1>3, <2>1, <3>1 DEF TimesLeft
  <2>4. WorkerOK(p)'
    BY <2>1, <2>2, <2>3 DEF WorkerOK, Busy
  <2> QED BY <1>6, <2>4
<1> QED BY <1>7, <1>8

\* Without new rows, what a skipping run already has is in the bucket.
LEMMA SeenKeepsOK ==
    ASSUME Inv, NEW p \in Partitions, AllTimesSeen(p)
    PROVE  WorkerOK(p)' /\ CopyOK(p)'
<1>1. TypeOK /\ WorkerOK(p) /\ CopyOK(p)
  BY DEF Inv
<1>2. /\ pc[p] = "times" /\ todo[p] = {}
      /\ UNCHANGED <<meta, skip, recomputed, local, remote, json>>
  BY DEF AllTimesSeen, shared, results
<1>3. /\ Queried(p)' = Queried(p)
      /\ \A t : Excused(p, t)' = Excused(p, t)
  BY <1>2, SamePlan
<1>4. \A t \in Queried(p) : Handled(p, t)
  BY <1>1, <1>2 DEF WorkerOK
<1>5. CASE rows[p] = {}
  <2>1. /\ pc'[p] = "done" /\ rows'[p] = {} /\ got'[p] = <<>>
    BY <1>1, <1>5 DEF AllTimesSeen, Exit, Goto, TypeOK
  <2>2. Stranded(p) \/ \A t \in Queried(p) : t \in TimesIn(remote[p]) \/ Excused(p, t)
    <3>1. CASE remote[p] # {}
      <4>1. Kept(p) \subseteq remote[p]
        BY <1>1, <1>2, <1>5, <3>1 DEF CopyOK, Kept, Whole
      <4> QED BY <1>4, <4>1 DEF Handled, TimesIn
    <3>2. CASE remote[p] = {} /\ local[p].rows = {}
      <4>1. Kept(p) = {}
        BY <1>5, <3>2 DEF Kept
      <4> QED BY <1>4, <4>1 DEF Handled, TimesIn
    <3> QED BY <3>1, <3>2 DEF Stranded
  <2>3. Stranded(p)' = Stranded(p)
    BY <1>2 DEF Stranded
  <2>4. WorkerOK(p)'
    BY <1>2, <1>3, <2>1, <2>2, <2>3 DEF WorkerOK, Busy
  <2>5. CopyOK(p)'
    BY <1>1, <1>2, <2>1 DEF CopyOK
  <2> QED BY <2>4, <2>5
<1>6. CASE rows[p] # {}
  <2>1. /\ pc'[p] = "write" /\ rows' = rows /\ got' = got
    BY <1>1, <1>6 DEF AllTimesSeen, Goto, TypeOK, memory
  <2>2. \A t : Handled(p, t) => Handled(p, t)'
    BY <1>2, <2>1, HandledStays
  <2>3. WorkerOK(p)'
    BY <1>3, <1>4, <2>1, <2>2 DEF WorkerOK, Busy
  <2>4. CopyOK(p)'
    BY <1>1, <1>2, <2>1 DEF CopyOK
  <2> QED BY <2>3, <2>4
<1> QED BY <1>5, <1>6

LEMMA WriteKeepsOK ==
    ASSUME Inv, NEW p \in Partitions, Write(p)
    PROVE  WorkerOK(p)' /\ CopyOK(p)'
<1>1. TypeOK /\ WorkerOK(p) /\ CopyOK(p)
  BY DEF Inv
<1>2. /\ pc[p] = "write" /\ pc'[p] = "upload"
      /\ UNCHANGED <<meta, skip, recomputed, remote, json>>
      /\ local'[p] = Whole(IF skip THEN Appended(p) ELSE rows[p])
  BY <1>1 DEF Write, Goto, TypeOK, shared
<1>3. /\ Queried(p)' = Queried(p)
      /\ \A t : Excused(p, t)' = Excused(p, t)
  BY <1>2, SamePlan
<1>4. local'[p].rows = Kept(p)
  BY <1>2 DEF Whole, Appended, Kept
<1>5. \A t \in Queried(p) : Handled(p, t)
  BY <1>1, <1>2 DEF WorkerOK
<1>6. WorkerOK(p)'
  BY <1>2, <1>3, <1>4, <1>5 DEF WorkerOK, Handled, Busy
<1>7. CopyOK(p)'
  BY <1>1, <1>2, <1>4 DEF CopyOK, Kept, Whole
<1> QED BY <1>6, <1>7

LEMMA UploadKeepsOK ==
    ASSUME Inv, NEW p \in Partitions, Upload(p)
    PROVE  WorkerOK(p)' /\ CopyOK(p)'
<1>1. TypeOK /\ WorkerOK(p) /\ CopyOK(p) /\ (~recomputed => skip)
  BY DEF Inv
<1>2. /\ pc[p] = "upload" /\ pc'[p] = "register"
      /\ UNCHANGED <<meta, skip, recomputed, local, json>>
      /\ remote'[p] = local[p].rows
  BY <1>1 DEF Upload, Goto, TypeOK, shared
<1>3. /\ Queried(p)' = Queried(p)
      /\ \A t : Excused(p, t)' = Excused(p, t)
  BY <1>2, SamePlan
<1>4. WorkerOK(p)'
  BY <1>1, <1>2, <1>3 DEF WorkerOK, Busy
<1>5. CopyOK(p)'
  BY <1>1, <1>2 DEF CopyOK, TimesIn
<1> QED BY <1>4, <1>5

LEMMA RegisterKeepsOK ==
    ASSUME Inv, NEW p \in Partitions, Register(p)
    PROVE  WorkerOK(p)' /\ CopyOK(p)'
<1>1. TypeOK /\ WorkerOK(p) /\ CopyOK(p)
  BY DEF Inv
<1>2. /\ pc[p] = "register" /\ pc'[p] = "done"
      /\ rows'[p] = {} /\ got'[p] = <<>>
      /\ UNCHANGED <<meta, skip, recomputed, local, remote>>
      /\ json'[p] = Described(p)
  BY <1>1 DEF Register, Exit, Goto, TypeOK, shared
<1>3. /\ Queried(p)' = Queried(p)
      /\ \A t : Excused(p, t)' = Excused(p, t)
  BY <1>2, SamePlan
<1>4. WorkerOK(p)'
  BY <1>1, <1>2, <1>3 DEF WorkerOK, Busy
<1>5. CopyOK(p)'
  BY <1>2 DEF CopyOK, Described, Extent
<1> QED BY <1>4, <1>5

\* A dying worker may tear its local file, nothing else.
LEMMA CrashKeepsOK ==
    ASSUME Inv, NEW p \in Partitions, Crash(p)
    PROVE  WorkerOK(p)' /\ CopyOK(p)'
<1>1. TypeOK /\ CopyOK(p)
  BY DEF Inv
<1> QED BY <1>1, ExitKeepsOK DEF Crash, shared

LEMMA SearchKeepsOK ==
    ASSUME Inv, NEW flag \in BOOLEAN, Search(flag), NEW p \in Partitions
    PROVE  WorkerOK(p)' /\ CopyOK(p)'
<1>1. TypeOK /\ WorkerOK(p) /\ CopyOK(p) /\ (~recomputed => skip)
  BY DEF Inv
<1>2. /\ pc'[p] \in {"fetch", "none"} /\ pc[p] \in Ended \cup {"none"}
      /\ UNCHANGED <<rows, got, local, remote, json>>
      /\ recomputed' = (recomputed \/ ~flag)
  BY DEF Search, memory, results
<1>3. rows[p] = {} /\ got[p] = <<>>
  BY <1>1, <1>2 DEF WorkerOK, Busy, Ended
<1>4. WorkerOK(p)'
  BY <1>2, <1>3 DEF WorkerOK, Busy
<1>5. CopyOK(p)'
  BY <1>1, <1>2 DEF CopyOK
<1> QED BY <1>4, <1>5

-----------------------------------------------------------------------------
LEMMA InvStep == Inv /\ [Next]_vars => Inv'
<1> SUFFICES ASSUME Inv, [Next]_vars PROVE Inv'
  OBVIOUS
<1>1. TypeOK'
  BY TypeStep
<1>2. (~recomputed => skip)'
  <2>1. ASSUME NEW flag \in BOOLEAN, Search(flag)
        PROVE  ~recomputed' => skip'
    BY <2>1 DEF Search
  <2>2. CASE UNCHANGED <<skip, recomputed>>
    BY <2>2 DEF Inv
  <2> QED BY <2>1, <2>2 DEF Next, Publish, Work, Fetch, ReadExisting, Download, Load,
             FileIsGone, FindFile, SkipRemoval, Clean, NextFile, AllTimesSeen, Write,
             Upload, Register, RequestFails, Crash, shared, vars
<1>3. ASSUME NEW p \in Partitions
      PROVE  WorkerOK(p)' /\ CopyOK(p)'
  <2>1. TypeOK /\ WorkerOK(p) /\ CopyOK(p)
    BY DEF Inv
  <2>2. CASE \E i \in Items : Publish(i)
    BY <2>1, <2>2, IdleKeepsOK DEF Publish, Idle, memory, results
  <2>3. CASE \E flag \in BOOLEAN : Search(flag)
    BY <2>3, SearchKeepsOK
  <2>4. ASSUME NEW q \in Partitions, q # p, Work(q) \/ RequestFails(q) \/ Crash(q)
        PROVE  WorkerOK(p)' /\ CopyOK(p)'
    <3>1. Idle(p)
      BY <2>1, <2>4, OthersIdle
    <3> QED BY <2>1, <3>1, IdleKeepsOK
  <2>5. CASE Work(p)
    <3>1. CASE FileIsGone(p)
      BY <2>1, <3>1, ExitKeepsOK DEF FileIsGone, shared, results
    <3> QED BY <2>5, <3>1, FetchKeepsOK, ReadKeepsOK, DownloadKeepsOK, LoadKeepsOK,
               FindKeepsOK, CleanKeepsOK, SeenKeepsOK, WriteKeepsOK, UploadKeepsOK, RegisterKeepsOK
            DEF Work
  <2>6. CASE RequestFails(p)
    BY <2>1, <2>6, ExitKeepsOK DEF RequestFails, shared, results
  <2>7. CASE Crash(p)
    BY <2>7, CrashKeepsOK
  <2>8. CASE UNCHANGED vars
    BY <2>1, <2>8, IdleKeepsOK DEF vars, Idle
  <2> QED BY <2>2, <2>3, <2>4, <2>5, <2>6, <2>7, <2>8 DEF Next
<1> QED BY <1>1, <1>2, <1>3 DEF Inv

-----------------------------------------------------------------------------
(* Theorems                                                                *)

\* Type correctness; a torn file never has rows anyone could use.
THEOREM TypesHold == Spec => []TypeOK
<1>1. Inv => TypeOK
  BY DEF Inv
<1> QED BY InvInit, InvStep, <1>1, PTL DEF Spec

\* While all runs skip what exists, the extents the STAC items announce are
\* those of rows in the bucket, whoever dies and whatever fails.
THEOREM AnnouncedIsServed == Spec => []RegisteredIsServed
<1>1. Inv => RegisteredIsServed
  BY DEF Inv, CopyOK, RegisteredIsServed
<1> QED BY InvInit, InvStep, <1>1, PTL DEF Spec

\* The timestamps of the items of a partition are in the bucket once its worker
\* has ended normally, with the exceptions the property names.
THEOREM FinishedWorkersIndexed == Spec => []FinishedIsIndexed
<1>1. Inv => FinishedIsIndexed
  BY DEF Inv, WorkerOK, FinishedIsIndexed, Excused
<1> QED BY InvInit, InvStep, <1>1, PTL DEF Spec

\* A skipping run replaces the file in the bucket only by one with all its rows.
THEOREM RowsAreNotWithdrawn == Spec => ServedRowsStay
<1>1. ASSUME Inv, [Next]_vars
      PROVE  [skip' => \A p \in Partitions : remote[p] \subseteq remote'[p]]_remote
  <2>1. ASSUME NEW p \in Partitions, Upload(p), skip', NEW q \in Partitions
        PROVE  remote[q] \subseteq remote'[q]
    <3>1. skip /\ remote' = [remote EXCEPT ![p] = local[p].rows] /\ pc[p] = "upload"
      BY <2>1 DEF Upload, shared
    <3>2. remote[p] \subseteq local[p].rows
      BY <1>1, <3>1 DEF Inv, CopyOK
    <3> QED BY <1>1, <3>1, <3>2 DEF Inv, TypeOK
  <2>2. CASE UNCHANGED remote
    BY <2>2
  <2> QED BY <1>1, <2>1, <2>2 DEF Next, Publish, Search, Work, Fetch, ReadExisting,
             Download, Load, FileIsGone, FindFile, SkipRemoval, Clean, NextFile,
             AllTimesSeen, Write, Register, RequestFails, Crash, results, vars
<1> QED BY InvInit, InvStep, <1>1, PTL DEF Spec, ServedRowsStay
=============================================================================
