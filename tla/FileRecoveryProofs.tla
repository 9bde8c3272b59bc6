------------------------- MODULE FileRecoveryProofs -------------------------
(***************************************************************************)
(* Theorems about FileRecovery, for every volume, every cluster size and   *)
(* every sequence of entries.                                              *)
(***************************************************************************)
EXTENDS FileRecovery, FiniteSetTheorems, TLAPS

----------------------------------------------------------------------------
(***************************************************************************)
(* Arithmetic: which clusters the bytes of a run lie in.                   *)
(***************************************************************************)

\* A quotient is the number of whole clusters below a byte.
LEMMA DivBounds ==
  ASSUME NEW a \in Nat, NEW b \in Nat \ {0}
  PROVE  /\ a \div b \in Nat
         /\ b * (a \div b) <= a
         /\ a < b * (a \div b) + b
BY SMT

\* The first byte of the n-th cluster is in the n-th cluster.
LEMMA DivOfMultiple ==
  ASSUME NEW n \in Nat, NEW b \in Nat \ {0}
  PROVE  (n * b) \div b = n
BY SMT

\* A byte below the end of m clusters is in one of them.
LEMMA DivBelow ==
  ASSUME NEW a \in Nat, NEW m \in Nat, NEW b \in Nat \ {0}, a < b * m
  PROVE  a \div b < m
<1>1. b * (a \div b) <= a /\ a \div b \in Nat
  BY DivBounds
<1>2. b * (a \div b) < b * m
  BY <1>1, SMT
<1> QED
  BY <1>1, <1>2, SMT

\* A size above zero needs at least one cluster, enough for every byte, and
\* not one that holds none.
LEMMA NeededBounds ==
  ASSUME NEW size \in Nat \ {0}
  PROVE  /\ ClustersNeeded(size) \in Nat \ {0}
         /\ size <= ClusterBytes * ClustersNeeded(size)
         /\ ClusterBytes * (ClustersNeeded(size) - 1) < size
<1> DEFINE q == (size + ClusterBytes - 1) \div ClusterBytes
<1>1. ClusterBytes \in Nat \ {0} /\ size + ClusterBytes - 1 \in Nat
  BY GeometryAssumption
<1>2. /\ q \in Nat
      /\ ClusterBytes * q <= size + ClusterBytes - 1
      /\ size + ClusterBytes - 1 < ClusterBytes * q + ClusterBytes
  BY <1>1, DivBounds
<1> HIDE DEF q
<1>3. size <= ClusterBytes * q
  BY <1>1, <1>2, SMT
<1>4. q # 0
  BY <1>1, <1>3, SMT
<1>5. ClusterBytes * (q - 1) = ClusterBytes * q - ClusterBytes
  BY <1>1, <1>2, SMT
<1>6. ClusterBytes * (q - 1) < size
  BY <1>1, <1>2, <1>5, SMT
<1> QED
  BY <1>2, <1>3, <1>4, <1>6 DEF ClustersNeeded, q

\* The clusters of a run are the homes of the bytes the entry declares.
LEMMA RunIsHomes ==
  ASSUME NEW e \in Entry, e.size # 0
  PROVE  /\ \A byte \in 0 .. e.size - 1 : HomeOf(e, byte) \in e.first .. LastInRun(e)
         /\ \A c \in e.first .. LastInRun(e) :
              \E byte \in 0 .. e.size - 1 : HomeOf(e, byte) = c
         /\ LastInRun(e) \in Nat /\ e.first <= LastInRun(e)
<1> DEFINE n == ClustersNeeded(e.size)
<1>1. /\ e.size \in Nat \ {0} /\ e.first \in Nat /\ ClusterBytes \in Nat \ {0}
  BY GeometryAssumption DEF Entry
<1>2. /\ n \in Nat \ {0}
      /\ e.size <= ClusterBytes * n
      /\ ClusterBytes * (n - 1) < e.size
  BY <1>1, NeededBounds
<1> HIDE DEF n
<1>3. ASSUME NEW byte \in 0 .. e.size - 1
      PROVE  HomeOf(e, byte) \in e.first .. LastInRun(e)
  <2>1. byte \in Nat /\ byte < ClusterBytes * n
    BY <1>1, <1>2, SMT
  <2>2. byte \div ClusterBytes < n /\ byte \div ClusterBytes \in Nat
    BY <1>1, <1>2, <2>1, DivBelow, DivBounds
  <2> QED
    BY <1>1, <1>2, <2>2 DEF HomeOf, LastInRun, n
<1>4. ASSUME NEW c \in e.first .. LastInRun(e)
      PROVE  \E byte \in 0 .. e.size - 1 : HomeOf(e, byte) = c
  <2> DEFINE k == c - e.first
             byte == k * ClusterBytes
  <2>1. k \in Nat /\ k <= n - 1
    BY <1>1, <1>2 DEF LastInRun, n
  <2>2. byte \in Nat /\ byte <= ClusterBytes * (n - 1)
    BY <1>1, <1>2, <2>1, SMT
  <2>3. byte \in 0 .. e.size - 1
    <3> HIDE DEF byte
    <3>1. ClusterBytes * (n - 1) \in Nat
      BY <1>1, <1>2, SMT
    <3> QED
      BY <1>1, <1>2, <2>2, <3>1
  <2>4. byte \div ClusterBytes = k
    BY <1>1, <2>1, DivOfMultiple
  <2>5. HomeOf(e, byte) = c
    BY <1>1, <2>4 DEF HomeOf
  <2> QED
    BY <2>3, <2>5
<1> QED
  BY <1>1, <1>2, <1>3, <1>4 DEF LastInRun, n

----------------------------------------------------------------------------
(***************************************************************************)
(* Types, and what is known of the run being assessed.                     *)
(***************************************************************************)

\* Every cluster below the cursor was read and found free.
Assessing ==
  step = "assessing" =>
    LET e == entries[current] IN
    /\ Asked(e) /\ HasRun(e)
    /\ e.first <= cluster /\ cluster <= LastInRun(e) + 1
    /\ \A c \in e.first .. cluster - 1 : c \notin in_use[ActiveFat]

TypeInv == TypeOK /\ Assessing

\* A run in hand lies in the data area.
LEMMA RunInside ==
  ASSUME NEW e \in Entry, HasRun(e)
  PROVE  /\ e.first \in Cluster
         /\ LastInRun(e) \in Cluster
         /\ e.first <= LastInRun(e)
<1>1. e.size # 0 /\ e.first \in Nat /\ LastCluster \in Nat
  BY GeometryAssumption DEF HasRun, Locates, Entry
<1>2. LastInRun(e) \in Nat /\ e.first <= LastInRun(e)
  BY <1>1, RunIsHomes
<1> QED
  BY <1>1, <1>2 DEF HasRun, Locates, PastEnd, Cluster, FirstDataCluster

\* An answer is one of the events' kinds.
LEMMA PlainType ==
  ASSUME NEW kind \in {"none", "ineligible", "empty", "reserved", "out_of_range", "broken",
                       "not_assessed", "free", "not_extracted"}
  PROVE  Plain(kind) \in Answer
BY DEF Plain, Answer

\* The entry taken up is one of the listing's.
LEMMA TakeType ==
  ASSUME TypeOK, Take
  PROVE  /\ current + 1 \in 1 .. Len(entries)
         /\ entry \in Entry /\ entry = entries'[current']
         /\ current' = current + 1 /\ current' \in 0 .. Len(entries')
BY DEF TypeOK, Take, entry, volume

\* Counting one more of anything keeps the counters numbers.
LEMMA CountsType ==
  ASSUME NEW c \in Counts
  PROVE  /\ [c EXCEPT !.empty = c.empty + 1] \in Counts
         /\ [c EXCEPT !.reserved_cluster = c.reserved_cluster + 1] \in Counts
         /\ [c EXCEPT !.run_out_of_range = c.run_out_of_range + 1] \in Counts
         /\ [c EXCEPT !.refused = c.refused + 1] \in Counts
         /\ [c EXCEPT !.free_runs = c.free_runs + 1] \in Counts
         /\ NotAssessed(c) \in Counts
         /\ NotExtracted(c) \in Counts
         /\ \A m, n \in Nat : [c EXCEPT !.not_delivered = c.not_delivered + m,
                                        !.matched = c.matched + n] \in Counts
<1>1. /\ c.empty + 1 \in Nat /\ c.reserved_cluster + 1 \in Nat /\ c.run_out_of_range + 1 \in Nat
      /\ c.refused + 1 \in Nat /\ c.free_runs + 1 \in Nat /\ c.not_assessed + 1 \in Nat
      /\ c.not_extracted + 1 \in Nat
      /\ \A m, n \in Nat : c.not_delivered + m \in Nat /\ c.matched + n \in Nat
  BY DEF Counts
<1>2. \A m \in Nat :
        /\ [c EXCEPT !.empty = m] \in Counts
        /\ [c EXCEPT !.reserved_cluster = m] \in Counts
        /\ [c EXCEPT !.run_out_of_range = m] \in Counts
        /\ [c EXCEPT !.refused = m] \in Counts
  BY DEF Counts
<1>3. \A m \in Nat :
        /\ [c EXCEPT !.free_runs = m] \in Counts
        /\ [c EXCEPT !.not_assessed = m] \in Counts
        /\ [c EXCEPT !.not_extracted = m] \in Counts
  BY DEF Counts
<1>4. \A m, n \in Nat : [c EXCEPT !.not_delivered = m, !.matched = n] \in Counts
  BY DEF Counts
<1>5. \A m, n \in Nat : [c EXCEPT !.not_delivered = c.not_delivered + m,
                                  !.matched = c.matched + n] \in Counts
  BY <1>1, <1>4
<1> QED
  BY <1>1, <1>2, <1>3, <1>5 DEF NotAssessed, NotExtracted

\* Whatever the entries say, every state is well typed: the assessment's cursor
\* never leaves the data area by more than one.
THEOREM RecoveryTypeCorrect == Spec => [](TypeOK /\ Assessing)
<1>1. Init => TypeInv
  <2> SUFFICES ASSUME Init PROVE TypeInv
    OBVIOUS
  <2>1. Plain("none") \in Answer
    BY PlainType
  <2>2. answer \in [1 .. Len(entries) -> Answer] /\ Len(entries) \in Nat
    BY <2>1 DEF Init, Start
  <2>3. cluster \in FirstDataCluster .. LastCluster + 1
    BY GeometryAssumption DEF Init, Start, FirstDataCluster
  <2> QED
    BY <2>2, <2>3 DEF Init, Start, TypeInv, TypeOK, Assessing, Counts
<1>2. TypeInv /\ [Next]_vars => TypeInv'
  <2> SUFFICES ASSUME TypeInv, [Next]_vars PROVE TypeInv'
    OBVIOUS
  <2>0. TypeOK /\ Assessing
    BY DEF TypeInv
  <2>1. CASE PassOver
    BY <2>0, <2>1, TakeType DEF PassOver, Take, TypeInv, TypeOK, Assessing, volume
  <2>2. CASE DescribesNoFile
    <3>1. answer' \in [1 .. Len(entries') -> Answer]
      BY <2>0, <2>2, PlainType DEF DescribesNoFile, Take, TypeOK, volume
    <3> QED
      BY <2>0, <2>2, <3>1, TakeType
         DEF DescribesNoFile, Take, TypeInv, TypeOK, Assessing, volume
  <2>3. CASE LocatesNothing
    <3>1. answer' \in [1 .. Len(entries') -> Answer]
      BY <2>0, <2>3, PlainType DEF LocatesNothing, Take, TypeOK, volume
    <3>2. counts' \in Counts
      BY <2>0, <2>3, CountsType DEF LocatesNothing, TypeOK
    <3> QED
      BY <2>0, <2>3, <3>1, <3>2, TakeType
         DEF LocatesNothing, Take, TypeInv, TypeOK, Assessing, volume
  <2>4. CASE Assess
    <3>1. entry \in Entry /\ HasRun(entry) /\ Asked(entry) /\ entry = entries'[current']
      BY <2>0, <2>4, TakeType DEF Assess
    <3>2. entry.first \in Cluster /\ LastInRun(entry) \in Cluster /\ entry.first <= LastInRun(entry)
      BY <3>1, RunInside
    <3>3. cluster' \in FirstDataCluster .. LastCluster + 1
      BY <2>4, <3>2, GeometryAssumption DEF Assess, Cluster, FirstDataCluster
    <3>4. TypeOK'
      BY <2>0, <2>4, <3>3, TakeType DEF Assess, Take, TypeOK, volume
    <3>5. Assessing'
      <4> DEFINE e == entries'[current']
      <4>1. Asked(e) /\ HasRun(e) /\ cluster' = e.first /\ e.first \in Nat /\ LastInRun(e) \in Nat
            /\ e.first <= LastInRun(e)
        BY <2>4, <3>1, <3>2 DEF Assess, Cluster, FirstDataCluster
      <4>2. \A c \in e.first .. cluster' - 1 : FALSE
        BY <4>1
      <4> QED
        BY <4>1, <4>2 DEF Assessing
    <3> QED
      BY <3>4, <3>5 DEF TypeInv
  <2>5. CASE AssessFails \/ RunBroken \/ Recoverable \/ ExtractFails \/ Extract
    <3>1. step' # "assessing"
      BY <2>5 DEF AssessFails, RunBroken, Recoverable, ExtractFails, Extract
    <3>2. current \in 1 .. Len(entries)
      <4>1. step \in {"assessing", "extracting"}
        BY <2>5 DEF AssessFails, RunBroken, Recoverable, ExtractFails, Extract
      <4>2. Len(entries) \in Nat
        BY <2>0 DEF TypeOK
      <4> QED
        BY <2>0, <4>1, <4>2 DEF TypeOK
    <3>3. PICK a \in Answer, c \in Counts : Settle(a, c)
      <4>1. CASE Extract
        <5>1. PICK output \in Handed \cup Undelivered \cup {"none"},
                   outcome \in {"match", "differs", "not_attempted"} :
                Settle([kind |-> "extracted", output |-> output, outcome |-> outcome],
                  [counts EXCEPT !.not_delivered = @ + (IF output \in Undelivered THEN 1 ELSE 0),
                                 !.matched = @ + (IF outcome = "match" THEN 1 ELSE 0)])
          BY <4>1 DEF Extract
        <5>2. [kind |-> "extracted", output |-> output, outcome |-> outcome] \in Answer
          BY DEF Answer
        <5>3. [counts EXCEPT !.not_delivered = @ + (IF output \in Undelivered THEN 1 ELSE 0),
                             !.matched = @ + (IF outcome = "match" THEN 1 ELSE 0)] \in Counts
          BY <2>0, CountsType DEF TypeOK
        <5> QED
          BY <5>1, <5>2, <5>3
      <4>2. CASE AssessFails \/ RunBroken \/ Recoverable \/ ExtractFails
        BY <2>0, <4>2, PlainType, CountsType
           DEF AssessFails, RunBroken, Recoverable, ExtractFails, TypeOK
      <4> QED
        BY <2>5, <4>1, <4>2
    <3>4. answer' \in [1 .. Len(entries') -> Answer] /\ counts' \in Counts
      BY <2>0, <3>2, <3>3 DEF Settle, TypeOK, volume
    <3>5. TypeOK'
      BY <2>0, <2>5, <3>2, <3>3, <3>4
         DEF AssessFails, RunBroken, Recoverable, ExtractFails, Extract, Settle, TypeOK, volume
    <3> QED
      BY <3>1, <3>5 DEF TypeInv, Assessing
  <2>6. CASE ClusterFree
    <3> DEFINE e == entries[current]
    <3>1. e \in Entry /\ HasRun(e) /\ Asked(e)
      BY <2>0, <2>6 DEF ClusterFree, TypeOK, Assessing
    <3>2. LastInRun(e) \in Cluster /\ e.first \in Cluster /\ cluster \in e.first .. LastInRun(e)
      BY <2>0, <2>6, <3>1, RunInside
         DEF ClusterFree, MoreToCheck, TypeOK, Assessing, Cluster, FirstDataCluster
    <3>3. cluster' = cluster + 1 /\ cluster \notin in_use[ActiveFat] /\ UNCHANGED volume
          /\ UNCHANGED <<step, current, answer, counts>> /\ step = "assessing"
      BY <2>6 DEF ClusterFree
    <3>4. TypeOK'
      BY <2>0, <3>2, <3>3, GeometryAssumption DEF TypeOK, volume, Cluster, FirstDataCluster
    <3>5. \A c \in e.first .. cluster' - 1 : c \notin in_use[ActiveFat]
      BY <2>0, <3>2, <3>3 DEF Assessing, Cluster, FirstDataCluster
    <3>6. in_use'[ActiveFat'] = in_use[ActiveFat] /\ entries'[current'] = e
      BY <3>3 DEF volume, ActiveFat
    <3>7. Assessing'
      BY <3>1, <3>2, <3>3, <3>5, <3>6 DEF Assessing, Cluster, FirstDataCluster
    <3> QED
      BY <3>4, <3>7 DEF TypeInv
  <2>7. CASE End \/ UNCHANGED vars
    BY <2>0, <2>7 DEF End, vars, volume, TypeInv, TypeOK, Assessing, ActiveFat
  <2> QED
    BY <2>1, <2>2, <2>3, <2>4, <2>5, <2>6, <2>7 DEF Next, Finished
<1> QED
  BY <1>1, <1>2, PTL DEF Spec, TypeInv

----------------------------------------------------------------------------
(***************************************************************************)
(* Each answer says of its entry what holds of it.                         *)
(***************************************************************************)

FreeIn(e, used) == \A c \in e.first .. LastInRun(e) : c \notin used

\* What an answer commits the run to.  The last three leave a gap behind.
Fits(e, a, used, c) ==
  /\ a.kind = "none" => ~Asked(e)
  /\ a.kind = "ineligible" => e.kind # "file"
  /\ a.kind = "empty" => Empty(e)
  /\ a.kind = "reserved" => Reserved(e)
  /\ a.kind = "out_of_range" => OutOfRange(e)
  /\ a.kind = "broken" => HasRun(e) /\ ~FreeIn(e, used)
  /\ a.kind \in {"free", "extracted", "not_extracted"} => HasRun(e) /\ FreeIn(e, used)
  /\ a.kind = "not_assessed" => c.not_assessed > 0
  /\ a.kind = "not_extracted" => c.not_extracted > 0
  /\ a.output \in Undelivered => c.not_delivered > 0

\* Not answered yet: the entries to come and the one being assessed.
Waits(i, cur, st) == i > cur \/ (i = cur /\ st = "assessing")

AnswersFit ==
  \A i \in 1 .. Len(entries) :
    /\ Waits(i, current, step) => answer[i].kind = "none" /\ answer[i].output = "none"
    /\ ~Waits(i, current, step) => Fits(entries[i], answer[i], in_use[ActiveFat], counts)

\* With --recover a free run is read before the next entry is taken up, and a
\* file asked for has a fate.
AllRead ==
  /\ step = "extracting" => answer[current].kind = "free"
  /\ \A i \in 1 .. Len(entries) :
       /\ answer[i].kind = "free" /\ options.recover => i = current /\ step = "extracting"
       /\ answer[i].kind = "extracted" /\ options.output => answer[i].output # "none"
  /\ step = "done" => current = Len(entries)

AnswerInv == AnswersFit /\ AllRead

\* Counting more only confirms what was answered.
LEMMA FitsMore ==
  ASSUME NEW e, NEW a, NEW used, NEW c \in Counts, NEW d \in Counts,
         c.not_assessed <= d.not_assessed, c.not_extracted <= d.not_extracted,
         c.not_delivered <= d.not_delivered, Fits(e, a, used, c)
  PROVE  Fits(e, a, used, d)
BY DEF Fits, Counts

\* Answering one entry fittingly keeps every answer fitting.
LEMMA AnswerOne ==
  ASSUME TypeOK, TypeOK', AnswersFit, UNCHANGED volume,
         NEW k \in 1 .. Len(entries), NEW a, answer' = [answer EXCEPT ![k] = a],
         counts.not_assessed <= counts'.not_assessed,
         counts.not_extracted <= counts'.not_extracted,
         counts.not_delivered <= counts'.not_delivered,
         ~Waits(k, current', step'),
         Fits(entries[k], a, in_use[ActiveFat], counts'),
         \A i \in 1 .. Len(entries) : i # k =>
           (Waits(i, current', step') <=> Waits(i, current, step))
  PROVE  AnswersFit'
<1>1. entries' = entries /\ in_use'[ActiveFat'] = in_use[ActiveFat]
  BY DEF volume, ActiveFat
<1>2. counts \in Counts /\ counts' \in Counts /\ DOMAIN answer = 1 .. Len(entries)
  BY DEF TypeOK
<1>3. ASSUME NEW i \in 1 .. Len(entries), i # k
      PROVE  /\ Waits(i, current', step') => answer'[i].kind = "none" /\ answer'[i].output = "none"
             /\ ~Waits(i, current', step')
                  => Fits(entries[i], answer'[i], in_use[ActiveFat], counts')
  <2>1. answer'[i] = answer[i]
    BY <1>2, <1>3
  <2>2. CASE Waits(i, current, step)
    BY <1>3, <2>1, <2>2 DEF AnswersFit
  <2>3. CASE ~Waits(i, current, step)
    <3>1. Fits(entries[i], answer[i], in_use[ActiveFat], counts)
      BY <2>3 DEF AnswersFit
    <3>2. Fits(entries[i], answer[i], in_use[ActiveFat], counts')
      BY <1>2, <3>1, FitsMore
    <3> QED
      BY <1>3, <2>1, <2>3, <3>2
  <2> QED
    BY <2>2, <2>3
<1>4. answer'[k] = a
  BY <1>2
<1> QED
  BY <1>1, <1>3, <1>4 DEF AnswersFit

\* An entry that is taken up and answered at once.
LEMMA AnswerTaken ==
  ASSUME TypeOK, TypeOK', AnswerInv, Take, UNCHANGED step, NEW a,
         answer' = [answer EXCEPT ![current + 1] = a],
         counts' \in Counts,
         counts.not_assessed = counts'.not_assessed,
         counts.not_extracted = counts'.not_extracted,
         counts.not_delivered = counts'.not_delivered,
         a.kind \notin {"free", "extracted"},
         Fits(entry, a, in_use[ActiveFat], counts')
  PROVE  AnswerInv'
<1> DEFINE k == current + 1
<1>1. k \in 1 .. Len(entries) /\ current' = k /\ UNCHANGED volume /\ step = "next"
      /\ current \in Nat /\ Len(entries) \in Nat
  BY TakeType DEF Take, TypeOK
<1>2. /\ ~Waits(k, current', step')
      /\ \A i \in 1 .. Len(entries) : i # k =>
           (Waits(i, current', step') <=> Waits(i, current, step))
  BY <1>1 DEF Waits
<1>3. counts \in Counts
  BY DEF TypeOK
<1>4. AnswersFit'
  <2> HIDE DEF k
  <2>1. answer' = [answer EXCEPT ![k] = a] /\ Fits(entries[k], a, in_use[ActiveFat], counts')
    BY DEF k, entry
  <2>2. /\ counts.not_assessed <= counts'.not_assessed
        /\ counts.not_extracted <= counts'.not_extracted
        /\ counts.not_delivered <= counts'.not_delivered
    BY <1>3 DEF Counts
  <2> QED
    BY <1>1, <1>2, <2>1, <2>2, AnswerOne DEF AnswerInv
<1>5. AllRead'
  <2>1. \A i \in 1 .. Len(entries) : answer'[i] = IF i = k THEN a ELSE answer[i]
    BY DEF TypeOK
  <2>2. entries' = entries /\ options' = options /\ step' = "next"
    BY <1>1 DEF volume
  <2> QED
    BY <1>1, <2>1, <2>2 DEF AllRead, AnswerInv
<1> QED
  BY <1>4, <1>5 DEF AnswerInv

\* The entry in hand, once its run is assessed or its file extracted.
LEMMA AnswerSettled ==
  ASSUME TypeOK, TypeOK', AnswerInv, step \in {"assessing", "extracting"},
         step' \in {"next", "extracting"}, NEW a, Settle(a, counts'),
         counts.not_assessed <= counts'.not_assessed,
         counts.not_extracted <= counts'.not_extracted,
         counts.not_delivered <= counts'.not_delivered,
         Fits(entries[current], a, in_use[ActiveFat], counts'),
         step' = "extracting" => a.kind = "free",
         a.kind = "free" /\ options.recover => step' = "extracting",
         a.kind = "extracted" /\ options.output => a.output # "none"
  PROVE  AnswerInv'
<1>1. current \in 1 .. Len(entries) /\ UNCHANGED <<volume, current>>
      /\ answer' = [answer EXCEPT ![current] = a] /\ Len(entries) \in Nat
  BY DEF TypeOK, Settle
<1>2. /\ ~Waits(current, current', step')
      /\ \A i \in 1 .. Len(entries) : i # current =>
           (Waits(i, current', step') <=> Waits(i, current, step))
  BY <1>1 DEF Waits
<1>3. AnswersFit'
  BY <1>1, <1>2, AnswerOne DEF AnswerInv
<1>4. AllRead'
  <2>1. \A i \in 1 .. Len(entries) : answer'[i] = IF i = current THEN a ELSE answer[i]
    BY <1>1 DEF TypeOK
  <2>2. entries' = entries /\ options' = options /\ current' = current
    BY <1>1 DEF volume
  <2> QED
    BY <1>1, <2>1, <2>2 DEF AllRead, AnswerInv
<1> QED
  BY <1>3, <1>4 DEF AnswerInv

\* A step that answers nothing.
LEMMA AnswersStand ==
  ASSUME AnswerInv, UNCHANGED <<volume, current, answer, counts>>,
         \/ step' = step
         \/ step = "next" /\ step' = "done" /\ current = Len(entries)
  PROVE  AnswerInv'
<1>1. \A i \in 1 .. Len(entries) : Waits(i, current', step') <=> Waits(i, current, step)
  BY DEF Waits
<1>2. AnswersFit'
  BY <1>1 DEF AnswerInv, AnswersFit, volume, ActiveFat
<1>3. AllRead'
  BY DEF AnswerInv, AllRead, volume
<1> QED
  BY <1>2, <1>3 DEF AnswerInv

\* Nothing is answered at first, and nothing is behind the cursor.
LEMMA AnswerInit == Init => AnswerInv
<1> SUFFICES ASSUME Init PROVE AnswerInv
  OBVIOUS
<1>1. Len(entries) \in Nat /\ current = 0 /\ step = "next"
  BY DEF Init, Start
<1>2. \A i \in 1 .. Len(entries) :
        /\ Waits(i, current, step)
        /\ answer[i].kind = "none" /\ answer[i].output = "none"
  BY <1>1 DEF Init, Start, Plain, Waits
<1> QED
  BY <1>1, <1>2 DEF AnswerInv, AnswersFit, AllRead

\* Every step of the loop answers what it checked.
LEMMA AnswerNext ==
  ASSUME TypeInv, TypeInv', AnswerInv, [Next]_vars
  PROVE  AnswerInv'
<1>0. TypeOK /\ TypeOK' /\ Assessing /\ counts \in Counts /\ counts' \in Counts
  BY DEF TypeInv, TypeOK
<1>1. CASE PassOver
  <2> DEFINE k == current + 1
  <2>1. /\ k \in 1 .. Len(entries) /\ current' = k /\ UNCHANGED volume /\ step = "next"
        /\ step' = step /\ current \in Nat /\ Len(entries) \in Nat
        /\ ~Asked(entries[k]) /\ UNCHANGED <<answer, counts>>
    BY <1>0, <1>1, TakeType DEF PassOver, Take, TypeOK, entry
  <2>2. Waits(k, current, step) /\ ~Waits(k, current', step')
    BY <2>1 DEF Waits
  <2>3. \A i \in 1 .. Len(entries) : i # k =>
          (Waits(i, current', step') <=> Waits(i, current, step))
    BY <2>1 DEF Waits
  <2>4. answer[k].kind = "none" /\ answer[k].output = "none"
    BY <2>1, <2>2 DEF AnswerInv, AnswersFit
  <2>5. Fits(entries[k], answer[k], in_use[ActiveFat], counts)
    BY <2>1, <2>4 DEF Fits, Undelivered
  <2>6. AnswersFit'
    BY <2>1, <2>2, <2>3, <2>5 DEF AnswerInv, AnswersFit, volume, ActiveFat
  <2>7. AllRead'
    BY <2>1 DEF AnswerInv, AllRead, volume
  <2> QED
    BY <2>6, <2>7 DEF AnswerInv
<1>2. CASE DescribesNoFile
  <2>1. Fits(entry, Plain("ineligible"), in_use[ActiveFat], counts')
    BY <1>2 DEF DescribesNoFile, Fits, Plain, Undelivered
  <2> QED
    BY <1>0, <1>2, <2>1, AnswerTaken DEF DescribesNoFile, Plain
<1>3. CASE LocatesNothing
  <2>1. PICK kind \in {"empty", "reserved", "out_of_range"} :
          /\ answer' = [answer EXCEPT ![current + 1] = Plain(kind)]
          /\ kind = "empty" => Empty(entry)
          /\ kind = "reserved" => Reserved(entry)
          /\ kind = "out_of_range" => OutOfRange(entry)
    BY <1>3 DEF LocatesNothing
  <2>2. Fits(entry, Plain(kind), in_use[ActiveFat], counts')
    BY <2>1 DEF Fits, Plain, Undelivered
  <2>3. /\ counts.not_assessed = counts'.not_assessed
        /\ counts.not_extracted = counts'.not_extracted
        /\ counts.not_delivered = counts'.not_delivered
    BY <1>0, <1>3 DEF LocatesNothing, Counts
  <2>4. Plain(kind).kind \notin {"free", "extracted"} /\ Take /\ UNCHANGED step
    BY <1>3 DEF LocatesNothing, Plain
  <2> QED
    BY <1>0, <2>1, <2>2, <2>3, <2>4, AnswerTaken
<1>4. CASE Assess
  <2> DEFINE k == current + 1
  <2>1. /\ k \in 1 .. Len(entries) /\ current' = k /\ UNCHANGED volume /\ step = "next"
        /\ step' = "assessing" /\ current \in Nat /\ Len(entries) \in Nat
        /\ UNCHANGED <<answer, counts>>
    BY <1>0, <1>4, TakeType DEF Assess, Take, TypeOK
  <2>2. \A i \in 1 .. Len(entries) : Waits(i, current', step') <=> Waits(i, current, step)
    BY <2>1 DEF Waits
  <2>3. AnswersFit'
    BY <2>1, <2>2 DEF AnswerInv, AnswersFit, volume, ActiveFat
  <2>4. AllRead'
    BY <2>1 DEF AnswerInv, AllRead, volume
  <2> QED
    BY <2>3, <2>4 DEF AnswerInv
<1>5. CASE AssessFails
  <2>1. counts' = NotAssessed(counts) /\ step = "assessing" /\ step' = "next"
        /\ Settle(Plain("not_assessed"), counts')
    BY <1>5 DEF AssessFails, Settle
  <2>2. /\ counts'.not_assessed = counts.not_assessed + 1
        /\ counts'.not_extracted = counts.not_extracted
        /\ counts'.not_delivered = counts.not_delivered
    BY <1>0, <2>1 DEF NotAssessed, Counts
  <2>3. /\ counts'.not_assessed > 0 /\ counts.not_assessed <= counts'.not_assessed
        /\ counts.not_extracted <= counts'.not_extracted
        /\ counts.not_delivered <= counts'.not_delivered
    BY <1>0, <2>2 DEF Counts
  <2>4. Fits(entries[current], Plain("not_assessed"), in_use[ActiveFat], counts')
    BY <2>3 DEF Fits, Plain, Undelivered
  <2> QED
    BY <1>0, <2>1, <2>3, <2>4, AnswerSettled DEF Plain
<1>6. CASE RunBroken
  <2> DEFINE e == entries[current]
  <2>1. step = "assessing" /\ step' = "next" /\ Settle(Plain("broken"), counts')
        /\ MoreToCheck /\ cluster \in in_use[ActiveFat]
        /\ counts' = [counts EXCEPT !.refused = @ + 1]
    BY <1>6 DEF RunBroken, Settle
  <2>2. /\ counts.not_assessed <= counts'.not_assessed
        /\ counts.not_extracted <= counts'.not_extracted
        /\ counts.not_delivered <= counts'.not_delivered
    BY <1>0, <2>1 DEF Counts
  <2>3. HasRun(e) /\ e.first <= cluster /\ cluster <= LastInRun(e) /\ e \in Entry
    BY <1>0, <2>1 DEF Assessing, MoreToCheck, TypeOK
  <2>4. cluster \in e.first .. LastInRun(e)
    BY <1>0, <2>3, RunInside DEF TypeOK, Cluster, FirstDataCluster
  <2>5. Fits(e, Plain("broken"), in_use[ActiveFat], counts')
    BY <2>1, <2>3, <2>4 DEF Fits, Plain, Undelivered, FreeIn
  <2> QED
    BY <1>0, <2>1, <2>2, <2>5, AnswerSettled DEF Plain
<1>7. CASE Recoverable
  <2> DEFINE e == entries[current]
  <2>1. step = "assessing" /\ Settle(Plain("free"), counts') /\ ~MoreToCheck
        /\ step' = (IF options.recover THEN "extracting" ELSE "next")
        /\ counts' = [counts EXCEPT !.free_runs = @ + 1]
    BY <1>7 DEF Recoverable, Settle
  <2>2. /\ counts.not_assessed <= counts'.not_assessed
        /\ counts.not_extracted <= counts'.not_extracted
        /\ counts.not_delivered <= counts'.not_delivered
    BY <1>0, <2>1 DEF Counts
  <2>3. HasRun(e) /\ e \in Entry /\ ~(cluster <= LastInRun(e))
        /\ \A c \in e.first .. cluster - 1 : c \notin in_use[ActiveFat]
    BY <1>0, <2>1 DEF Assessing, MoreToCheck, TypeOK
  <2>4. \A c \in e.first .. LastInRun(e) : c \in e.first .. cluster - 1
    BY <1>0, <2>3, RunInside DEF TypeOK, Cluster, FirstDataCluster
  <2>5. Fits(e, Plain("free"), in_use[ActiveFat], counts')
    BY <2>3, <2>4 DEF Fits, Plain, Undelivered, FreeIn
  <2>6. step' \in {"next", "extracting"} /\ (options.recover => step' = "extracting")
    BY <2>1
  <2> QED
    BY <1>0, <2>1, <2>2, <2>5, <2>6, AnswerSettled DEF Plain
<1>8. CASE ExtractFails \/ Extract
  <2> DEFINE e == entries[current]
  <2>1. step = "extracting" /\ step' = "next" /\ current \in 1 .. Len(entries)
    <3>1. step = "extracting" /\ step' = "next"
      BY <1>8 DEF ExtractFails, Extract
    <3>2. Len(entries) \in Nat
      BY <1>0 DEF TypeOK
    <3> QED
      BY <1>0, <3>1, <3>2 DEF TypeOK
  <2>2. HasRun(e) /\ FreeIn(e, in_use[ActiveFat])
    <3>1. answer[current].kind = "free" /\ ~Waits(current, current, step)
      BY <1>0, <2>1 DEF AnswerInv, AllRead, Waits, TypeOK
    <3> QED
      BY <2>1, <3>1 DEF AnswerInv, AnswersFit, Fits
  <2>3. CASE ExtractFails
    <3>1. counts' = NotExtracted(counts) /\ Settle(Plain("not_extracted"), counts')
      BY <2>3 DEF ExtractFails, Settle
    <3>2. /\ counts'.not_extracted = counts.not_extracted + 1
          /\ counts'.not_assessed = counts.not_assessed
          /\ counts'.not_delivered = counts.not_delivered
      BY <1>0, <3>1 DEF NotExtracted, Counts
    <3>3. /\ counts'.not_extracted > 0 /\ counts.not_assessed <= counts'.not_assessed
          /\ counts.not_extracted <= counts'.not_extracted
          /\ counts.not_delivered <= counts'.not_delivered
      BY <1>0, <3>2 DEF Counts
    <3>4. Fits(e, Plain("not_extracted"), in_use[ActiveFat], counts')
      BY <2>2, <3>3 DEF Fits, Plain, Undelivered
    <3> QED
      BY <1>0, <2>1, <3>1, <3>3, <3>4, AnswerSettled DEF Plain
  <2>4. CASE Extract
    <3>1. PICK output \in IF options.output THEN Handed \cup Undelivered ELSE {"none"},
               outcome \in IF options.reference THEN {"match", "differs"} ELSE {"not_attempted"} :
            Settle([kind |-> "extracted", output |-> output, outcome |-> outcome],
              [counts EXCEPT !.not_delivered = @ + (IF output \in Undelivered THEN 1 ELSE 0),
                             !.matched = @ + (IF outcome = "match" THEN 1 ELSE 0)])
      BY <2>4 DEF Extract
    <3> DEFINE a == [kind |-> "extracted", output |-> output, outcome |-> outcome]
    <3>2. /\ counts'.not_extracted = counts.not_extracted
          /\ counts'.not_assessed = counts.not_assessed
          /\ counts'.not_delivered
               = counts.not_delivered + (IF output \in Undelivered THEN 1 ELSE 0)
      BY <1>0, <3>1 DEF Settle, Counts
    <3>3. /\ output \in Undelivered => counts'.not_delivered > 0
          /\ counts.not_assessed <= counts'.not_assessed
          /\ counts.not_extracted <= counts'.not_extracted
          /\ counts.not_delivered <= counts'.not_delivered
      BY <1>0, <3>2 DEF Counts
    <3>4. Fits(e, a, in_use[ActiveFat], counts')
      BY <2>2, <3>3 DEF Fits
    <3>5. options.output => output # "none"
      BY <3>1 DEF Handed, Undelivered
    <3>6. Settle(a, counts')
      BY <3>1 DEF Settle
    <3> QED
      BY <1>0, <2>1, <3>3, <3>4, <3>5, <3>6, AnswerSettled
  <2> QED
    BY <1>8, <2>3, <2>4
<1>9. CASE ClusterFree \/ End \/ UNCHANGED vars
  BY <1>9, AnswersStand DEF ClusterFree, End, vars, volume
<1> QED
  BY <1>1, <1>2, <1>3, <1>4, <1>5, <1>6, <1>7, <1>8, <1>9 DEF Next, Finished

\* The loop's invariant.
LEMMA AnswersCorrect == Spec => [](TypeInv /\ AnswerInv)
<1>1. Init => AnswerInv
  BY AnswerInit
<1>2. TypeInv /\ TypeInv' /\ AnswerInv /\ [Next]_vars => AnswerInv'
  BY AnswerNext
<1>3. Spec => []TypeInv
  BY RecoveryTypeCorrect DEF TypeInv
<1> QED
  BY <1>1, <1>2, <1>3, PTL DEF Spec

----------------------------------------------------------------------------

\* The FAT assess_listed reads is the volume's current one, and no other is.
LEMMA OneCurrent ==
  ASSUME TypeOK
  PROVE  \A f \in FatIndex : Current(f) <=> f = ActiveFat
BY GeometryAssumption DEF TypeOK, Current, ActiveFat, FatIndex

\* A run of free clusters is one whose every byte has a free home.
LEMMA FreeMeansFree ==
  ASSUME TypeOK, NEW e \in Entry, e.size > 0
  PROVE  FreeThroughout(e) <=>
           /\ e.first .. LastInRun(e) \subseteq Cluster
           /\ FreeIn(e, in_use[ActiveFat])
<1>1. e.size # 0 /\ ActiveFat \in FatIndex
  BY GeometryAssumption DEF Entry, TypeOK, ActiveFat, FatIndex
<1>2. ASSUME FreeThroughout(e), NEW c \in e.first .. LastInRun(e)
      PROVE  c \in Cluster /\ c \notin in_use[ActiveFat]
  <2>1. PICK byte \in 0 .. e.size - 1 : HomeOf(e, byte) = c
    BY <1>1, RunIsHomes
  <2> QED
    BY <1>1, <1>2, <2>1, OneCurrent DEF FreeThroughout
<1>3. ASSUME e.first .. LastInRun(e) \subseteq Cluster, FreeIn(e, in_use[ActiveFat]),
             NEW byte \in 0 .. e.size - 1
      PROVE  /\ HomeOf(e, byte) \in Cluster
             /\ \A f \in FatIndex : Current(f) => HomeOf(e, byte) \notin in_use[f]
  <2>1. HomeOf(e, byte) \in e.first .. LastInRun(e)
    BY <1>1, RunIsHomes
  <2> QED
    BY <1>3, <2>1, OneCurrent DEF FreeIn
<1> QED
  BY <1>2, <1>3 DEF FreeThroughout, FreeIn

\* Whatever the entries and the FATs say, a run is called free, and read, only
\* if every byte the entry declares lies in a cluster the current FAT marks free.
THEOREM FreeRunsCorrect == Spec => []FreeRunsOnly
<1>1. TypeInv /\ AnswerInv => FreeRunsOnly
  <2> SUFFICES ASSUME TypeInv, AnswerInv, NEW i \in DOMAIN answer,
                      answer[i].kind \in {"free", "extracted", "not_extracted"}
               PROVE  entries[i].size > 0 /\ FreeThroughout(entries[i])
    BY DEF FreeRunsOnly
  <2> DEFINE e == entries[i]
  <2>1. TypeOK /\ i \in 1 .. Len(entries) /\ e \in Entry
    BY DEF TypeInv, TypeOK
  <2>2. ~Waits(i, current, step)
    BY <2>1 DEF AnswerInv, AnswersFit
  <2>3. HasRun(e) /\ FreeIn(e, in_use[ActiveFat])
    BY <2>1, <2>2 DEF AnswerInv, AnswersFit, Fits
  <2>4. e.size > 0
    BY <2>1, <2>3 DEF HasRun, Locates, Entry
  <2>5. e.first .. LastInRun(e) \subseteq Cluster
    BY <2>1, <2>3, RunInside, GeometryAssumption DEF Cluster, FirstDataCluster
  <2> QED
    BY <2>1, <2>3, <2>4, <2>5, FreeMeansFree
<1> QED
  BY <1>1, AnswersCorrect, PTL

\* A run asked for files that counts no gap handed over every lost file whose
\* clusters are all free.
THEOREM NoGapRecoveredCorrect == Spec => []NoGapMeansRecovered
<1>1. TypeInv /\ AnswerInv => NoGapMeansRecovered
  <2> SUFFICES ASSUME TypeInv, AnswerInv,
                      step = "done", options.recover, options.output,
                      counts.not_assessed + counts.not_extracted + counts.not_delivered = 0,
                      NEW i \in DOMAIN entries,
                      Lost(entries[i]), entries[i].size > 0, FreeThroughout(entries[i])
               PROVE  answer[i].kind = "extracted" /\ answer[i].output \in Handed
    BY DEF NoGapMeansRecovered
  <2> DEFINE e == entries[i]
  <2>1. TypeOK /\ i \in 1 .. Len(entries) /\ e \in Entry /\ Len(entries) \in Nat
    BY DEF TypeInv, TypeOK
  <2>2. current = Len(entries)
    BY DEF AnswerInv, AllRead
  <2>3. Fits(e, answer[i], in_use[ActiveFat], counts)
    BY <2>1, <2>2 DEF AnswerInv, AnswersFit, Waits
  <2>4. counts.not_assessed = 0 /\ counts.not_extracted = 0 /\ counts.not_delivered = 0
    BY <2>1 DEF TypeOK, Counts
  <2>5. e.kind = "file" /\ Asked(e)
    BY DEF Lost, Asked
  <2>6. /\ e.first .. LastInRun(e) \subseteq Cluster
        /\ FreeIn(e, in_use[ActiveFat])
    BY <2>1, FreeMeansFree
  <2>7. HasRun(e) /\ ~Empty(e) /\ ~Reserved(e) /\ ~OutOfRange(e)
    <3>1. e.first <= LastInRun(e) /\ LastInRun(e) \in Nat /\ e.first \in Nat
      BY <2>1, RunIsHomes DEF Entry
    <3>2. e.first \in Cluster /\ LastInRun(e) \in Cluster
      BY <2>6, <3>1
    <3> QED
      BY <2>1, <2>5, <3>2, GeometryAssumption
         DEF HasRun, Empty, Reserved, OutOfRange, Locates, PastEnd, Cluster, FirstDataCluster, Entry
  <2>8. answer[i] \in Answer
    BY <2>1 DEF TypeOK
  <2>9. answer[i].kind \in {"free", "extracted"}
    BY <2>3, <2>4, <2>5, <2>6, <2>7, <2>8 DEF Fits, Answer
  <2>10. answer[i].kind # "free"
    BY <2>1 DEF AnswerInv, AllRead
  <2>11. answer[i].output # "none" /\ answer[i].output \notin Undelivered
    BY <2>1, <2>3, <2>4, <2>9, <2>10 DEF AnswerInv, AllRead, Fits
  <2> QED
    BY <2>8, <2>9, <2>10, <2>11 DEF Answer
<1> QED
  BY <1>1, AnswersCorrect, PTL

----------------------------------------------------------------------------
(***************************************************************************)
(* The counters, as the number of answers of each kind.                    *)
(***************************************************************************)

\* The entries whose answer is of one of these kinds, or whose digest was
\* compared with this outcome.
AnsweredIn(ans, kinds) == {i \in DOMAIN ans : ans[i].kind \in kinds}
JudgedIn(ans, outcome) == {i \in DOMAIN ans : ans[i].outcome = outcome}

Tally(ans, kind) == Cardinality(AnsweredIn(ans, {kind}))

\* Each counter is a number of answers; a free run was left, read or not read.
Tallied(ans, c) ==
  /\ c.empty = Tally(ans, "empty")
  /\ c.reserved_cluster = Tally(ans, "reserved")
  /\ c.run_out_of_range = Tally(ans, "out_of_range")
  /\ c.refused = Tally(ans, "broken")
  /\ c.not_assessed = Tally(ans, "not_assessed")
  /\ c.not_extracted = Tally(ans, "not_extracted")
  /\ c.free_runs = Tally(ans, "free") + Tally(ans, "extracted") + Tally(ans, "not_extracted")
  /\ c.matched = Cardinality(JudgedIn(ans, "match"))

\* What an answer says of its entry and of what was asked for.
Suits(e, a, o) ==
  /\ a.kind # "none" => Asked(e)
  /\ a.kind \notin {"none", "ineligible"} => e.kind = "file"
  /\ a.kind \in {"extracted", "not_extracted"} => o.recover
  /\ a.outcome \in {"match", "differs"} => o.reference /\ a.kind = "extracted"
  /\ a.kind = "extracted" /\ o.reference => a.outcome # "not_attempted"

AnswersSuit == \A i \in 1 .. Len(entries) : Suits(entries[i], answer[i], options)

TallyInv == Tallied(answer, counts) /\ AnswersSuit

\* The sets that are counted are finite.
LEMMA AnsweredFinite ==
  ASSUME NEW n \in Nat, NEW ans \in [1 .. n -> Answer], NEW kinds, NEW outcome
  PROVE  /\ IsFiniteSet(AnsweredIn(ans, kinds)) /\ Cardinality(AnsweredIn(ans, kinds)) \in Nat
         /\ IsFiniteSet(JudgedIn(ans, outcome)) /\ Cardinality(JudgedIn(ans, outcome)) \in Nat
<1>1. IsFiniteSet(1 .. n)
  BY FS_Interval
<1>2. AnsweredIn(ans, kinds) \in SUBSET (1 .. n) /\ JudgedIn(ans, outcome) \in SUBSET (1 .. n)
  BY DEF AnsweredIn, JudgedIn
<1>3. IsFiniteSet(AnsweredIn(ans, kinds)) /\ IsFiniteSet(JudgedIn(ans, outcome))
  BY <1>1, <1>2, FS_Subset
<1> QED
  BY <1>3, FS_CardinalityType

\* A new answer is one more of its kind and one fewer of the one it replaces.
LEMMA TallyOne ==
  ASSUME NEW n \in Nat, NEW ans \in [1 .. n -> Answer], NEW new \in [1 .. n -> Answer],
         NEW k \in 1 .. n, \A i \in 1 .. n : i # k => new[i] = ans[i],
         new[k].kind # ans[k].kind, NEW kind
  PROVE  /\ Tally(ans, kind) \in Nat /\ Tally(new, kind) \in Nat
         /\ kind = new[k].kind => Tally(new, kind) = Tally(ans, kind) + 1
         /\ kind = ans[k].kind => Tally(new, kind) = Tally(ans, kind) - 1
         /\ kind # new[k].kind /\ kind # ans[k].kind => Tally(new, kind) = Tally(ans, kind)
<1> DEFINE S == AnsweredIn(ans, {kind})
           T == AnsweredIn(new, {kind})
<1>1. IsFiniteSet(S) /\ Cardinality(S) \in Nat /\ Cardinality(T) \in Nat
  BY AnsweredFinite
<1>2. DOMAIN new = 1 .. n /\ DOMAIN ans = 1 .. n
  OBVIOUS
<1>3. kind = new[k].kind => Cardinality(T) = Cardinality(S) + 1
  <2>1. kind = new[k].kind => T = S \cup {k} /\ k \notin S
    BY <1>2 DEF AnsweredIn
  <2> QED
    BY <1>1, <2>1, FS_AddElement
<1>4. kind = ans[k].kind => Cardinality(T) = Cardinality(S) - 1
  <2>1. kind = ans[k].kind => T = S \ {k} /\ k \in S
    BY <1>2 DEF AnsweredIn
  <2> QED
    BY <1>1, <2>1, FS_RemoveElement
<1>5. kind # new[k].kind /\ kind # ans[k].kind => T = S
  BY <1>2 DEF AnsweredIn
<1> QED
  BY <1>1, <1>3, <1>4, <1>5 DEF Tally

\* A digest is compared once.
LEMMA JudgeOne ==
  ASSUME NEW n \in Nat, NEW ans \in [1 .. n -> Answer], NEW new \in [1 .. n -> Answer],
         NEW k \in 1 .. n, \A i \in 1 .. n : i # k => new[i] = ans[i],
         ans[k].outcome # "match"
  PROVE  Cardinality(JudgedIn(new, "match"))
           = Cardinality(JudgedIn(ans, "match")) + (IF new[k].outcome = "match" THEN 1 ELSE 0)
<1> DEFINE S == JudgedIn(ans, "match")
           T == JudgedIn(new, "match")
<1>1. IsFiniteSet(S) /\ Cardinality(S) \in Nat
  BY AnsweredFinite
<1>2. DOMAIN new = 1 .. n /\ DOMAIN ans = 1 .. n
  OBVIOUS
<1>3. CASE new[k].outcome = "match"
  <2>1. T = S \cup {k} /\ k \notin S
    BY <1>2, <1>3 DEF JudgedIn
  <2> QED
    BY <1>1, <1>3, <2>1, FS_AddElement
<1>4. CASE new[k].outcome # "match"
  <2>1. T = S
    BY <1>2, <1>4 DEF JudgedIn
  <2> QED
    BY <1>1, <1>4, <2>1
<1> QED
  BY <1>3, <1>4

\* One answer that suits its entry, and the counters that went up for it.
LEMMA TallyStep ==
  ASSUME TypeOK, TypeOK', TallyInv, UNCHANGED volume,
         NEW k \in 1 .. Len(entries), NEW a \in Answer, answer' = [answer EXCEPT ![k] = a],
         answer[k].kind # a.kind, answer[k].outcome # "match",
         Suits(entries[k], a, options),
         Tallied(answer', counts')
  PROVE  TallyInv'
<1>1. entries' = entries /\ options' = options
  BY DEF volume
<1>2. \A i \in 1 .. Len(entries) : answer'[i] = IF i = k THEN a ELSE answer[i]
  BY DEF TypeOK
<1>3. AnswersSuit'
  BY <1>1, <1>2 DEF TallyInv, AnswersSuit
<1> QED
  BY <1>3 DEF TallyInv

\* The same of the answers of a run.
LEMMA TallyAnswer ==
  ASSUME TypeOK, NEW k \in 1 .. Len(entries), NEW a \in Answer, a.kind # answer[k].kind,
         answer' = [answer EXCEPT ![k] = a], NEW x
  PROVE  /\ Tally(answer, x) \in Nat /\ Tally(answer', x) \in Nat
         /\ x = a.kind => Tally(answer', x) = Tally(answer, x) + 1
         /\ x = answer[k].kind => Tally(answer', x) = Tally(answer, x) - 1
         /\ x # a.kind /\ x # answer[k].kind => Tally(answer', x) = Tally(answer, x)
<1> DEFINE n == Len(entries)
<1>1. /\ n \in Nat /\ answer \in [1 .. n -> Answer] /\ answer' \in [1 .. n -> Answer]
      /\ k \in 1 .. n /\ \A i \in 1 .. n : i # k => answer'[i] = answer[i]
  BY DEF TypeOK
<1>2. answer'[k] = a /\ answer'[k].kind # answer[k].kind
  BY <1>1
<1> HIDE DEF n
<1>3. /\ Tally(answer, x) \in Nat /\ Tally(answer', x) \in Nat
      /\ x = answer'[k].kind => Tally(answer', x) = Tally(answer, x) + 1
      /\ x = answer[k].kind => Tally(answer', x) = Tally(answer, x) - 1
      /\ x # answer'[k].kind /\ x # answer[k].kind => Tally(answer', x) = Tally(answer, x)
  BY ONLY <1>1, <1>2, TallyOne
<1> QED
  BY <1>2, <1>3

\* From c to d the counters went up by one answer of this kind.
OneMore(c, d, kind) ==
  LET One(k) == IF kind = k THEN 1 ELSE 0 IN
  /\ d.empty = c.empty + One("empty")
  /\ d.reserved_cluster = c.reserved_cluster + One("reserved")
  /\ d.run_out_of_range = c.run_out_of_range + One("out_of_range")
  /\ d.refused = c.refused + One("broken")
  /\ d.not_assessed = c.not_assessed + One("not_assessed")
  /\ d.free_runs = c.free_runs + One("free")
  /\ d.not_extracted = c.not_extracted
  /\ d.matched = c.matched

\* An entry that was not answered before.
LEMMA FirstAnswer ==
  ASSUME TypeOK, TypeOK', TallyInv, NEW k \in 1 .. Len(entries), UNCHANGED volume,
         NEW kind \in {"ineligible", "empty", "reserved", "out_of_range", "broken",
                       "not_assessed", "free"},
         answer[k].kind = "none",
         answer' = [answer EXCEPT ![k] = Plain(kind)],
         OneMore(counts, counts', kind),
         Asked(entries[k]),
         kind # "ineligible" => entries[k].kind = "file"
  PROVE  TallyInv'
<1> DEFINE a == Plain(kind)
<1>1. Len(entries) \in Nat /\ answer \in [1 .. Len(entries) -> Answer]
      /\ counts \in Counts /\ counts' \in Counts
  BY DEF TypeOK
<1>2. a \in Answer /\ a.kind = kind /\ a.outcome = "not_attempted"
  BY PlainType DEF Plain
<1>11. /\ answer'[k] = a /\ answer' \in [1 .. Len(entries) -> Answer]
       /\ \A i \in 1 .. Len(entries) : i # k => answer'[i] = answer[i]
  BY <1>1, <1>2
<1> HIDE DEF a
<1>3. answer[k].outcome # "match"
  BY DEF TallyInv, AnswersSuit, Suits
<1>4. Cardinality(JudgedIn(answer', "match")) = Cardinality(JudgedIn(answer, "match"))
  <2>2. Cardinality(JudgedIn(answer', "match"))
          = Cardinality(JudgedIn(answer, "match")) + (IF a.outcome = "match" THEN 1 ELSE 0)
    BY <1>1, <1>3, <1>11, JudgeOne
  <2>3. Cardinality(JudgedIn(answer, "match")) \in Nat
    BY <1>1, AnsweredFinite
  <2> QED
    BY <1>2, <2>2, <2>3
<1>5. ASSUME NEW x, x # "none"
      PROVE  /\ Tally(answer, x) \in Nat
             /\ Tally(answer', x) = Tally(answer, x) + (IF kind = x THEN 1 ELSE 0)
  <2>1. a.kind # answer[k].kind /\ answer' = [answer EXCEPT ![k] = a]
    BY <1>2 DEF a
  <2>2. /\ Tally(answer, x) \in Nat /\ Tally(answer', x) \in Nat
        /\ x = a.kind => Tally(answer', x) = Tally(answer, x) + 1
        /\ x # a.kind /\ x # answer[k].kind => Tally(answer', x) = Tally(answer, x)
    BY <1>2, <2>1, TallyAnswer
  <2> QED
    BY <1>2, <1>5, <2>2
<1>7. Tallied(answer, counts)
  BY DEF TallyInv
<1>8. Tallied(answer', counts')
  <2>1. /\ counts'.empty = Tally(answer', "empty")
        /\ counts'.reserved_cluster = Tally(answer', "reserved")
        /\ counts'.run_out_of_range = Tally(answer', "out_of_range")
    BY <1>5, <1>7 DEF Tallied, OneMore
  <2>2. /\ counts'.refused = Tally(answer', "broken")
        /\ counts'.not_assessed = Tally(answer', "not_assessed")
    BY <1>5, <1>7 DEF Tallied, OneMore
  <2>9. kind # "extracted" /\ kind # "not_extracted" /\ "extracted" # "none"
        /\ "not_extracted" # "none"
    OBVIOUS
  <2>10. /\ Tally(answer, "extracted") \in Nat
         /\ Tally(answer', "extracted") = Tally(answer, "extracted") + 0
    BY ONLY <1>5, <2>9
  <2>11. /\ Tally(answer, "not_extracted") \in Nat
         /\ Tally(answer', "not_extracted") = Tally(answer, "not_extracted") + 0
    BY ONLY <1>5, <2>9
  <2>5. Tally(answer', "extracted") = Tally(answer, "extracted")
    BY <2>10
  <2>6. Tally(answer', "not_extracted") = Tally(answer, "not_extracted")
    BY <2>11
  <2>7. counts'.not_extracted = Tally(answer', "not_extracted")
    BY <1>7, <2>6 DEF Tallied, OneMore
  <2>8. /\ Tally(answer, "free") \in Nat /\ Tally(answer, "extracted") \in Nat
        /\ Tally(answer, "not_extracted") \in Nat
        /\ Tally(answer', "free") = Tally(answer, "free") + (IF kind = "free" THEN 1 ELSE 0)
    BY <1>5
  <2>3. counts'.free_runs = Tally(answer', "free") + Tally(answer', "extracted")
                              + Tally(answer', "not_extracted")
    BY <1>7, <2>5, <2>6, <2>8 DEF Tallied, OneMore
  <2>4. counts'.matched = Cardinality(JudgedIn(answer', "match"))
    BY <1>4, <1>7 DEF Tallied, OneMore
  <2> QED
    BY <2>1, <2>2, <2>3, <2>4, <2>7 DEF Tallied
<1>9. Suits(entries[k], a, options)
  BY <1>2 DEF Suits
<1>10. answer' = [answer EXCEPT ![k] = a]
  BY DEF a
<1> QED
  BY <1>2, <1>3, <1>8, <1>9, <1>10, TallyStep

\* What a free run came to when it was read.
LEMMA SecondAnswer ==
  ASSUME TypeOK, TypeOK', TallyInv, NEW k \in 1 .. Len(entries), UNCHANGED volume,
         NEW a \in Answer, a.kind \in {"extracted", "not_extracted"},
         answer[k].kind = "free",
         answer' = [answer EXCEPT ![k] = a],
         Suits(entries[k], a, options),
         counts'.not_extracted = counts.not_extracted + (IF a.kind = "extracted" THEN 0 ELSE 1),
         counts'.matched = counts.matched + (IF a.outcome = "match" THEN 1 ELSE 0),
         counts'.empty = counts.empty, counts'.reserved_cluster = counts.reserved_cluster,
         counts'.run_out_of_range = counts.run_out_of_range, counts'.refused = counts.refused,
         counts'.not_assessed = counts.not_assessed, counts'.free_runs = counts.free_runs
  PROVE  TallyInv'
<1>1. Len(entries) \in Nat /\ answer \in [1 .. Len(entries) -> Answer]
      /\ counts \in Counts /\ counts' \in Counts
  BY DEF TypeOK
<1>2. answer[k].outcome # "match"
  BY DEF TallyInv, AnswersSuit, Suits
<1>8. /\ answer'[k] = a /\ answer' \in [1 .. Len(entries) -> Answer]
      /\ \A i \in 1 .. Len(entries) : i # k => answer'[i] = answer[i]
  BY <1>1
<1>3. Cardinality(JudgedIn(answer', "match"))
        = Cardinality(JudgedIn(answer, "match")) + (IF a.outcome = "match" THEN 1 ELSE 0)
  BY <1>1, <1>2, <1>8, JudgeOne
<1>4. ASSUME NEW x
      PROVE  /\ Tally(answer, x) \in Nat /\ Tally(answer', x) \in Nat
             /\ x = "free" => Tally(answer', x) = Tally(answer, x) - 1
             /\ x # "free" => Tally(answer', x) = Tally(answer, x) + (IF a.kind = x THEN 1 ELSE 0)
  <2>1. /\ Tally(answer, x) \in Nat /\ Tally(answer', x) \in Nat
        /\ x = a.kind => Tally(answer', x) = Tally(answer, x) + 1
        /\ x = "free" => Tally(answer', x) = Tally(answer, x) - 1
        /\ x # a.kind /\ x # "free" => Tally(answer', x) = Tally(answer, x)
    BY TallyAnswer
  <2> QED
    BY <2>1
<1>6. Tallied(answer, counts)
  BY DEF TallyInv
<1>7. Tallied(answer', counts')
  <2>8. ASSUME NEW x \in {"empty", "reserved", "out_of_range", "broken", "not_assessed"}
        PROVE  Tally(answer', x) = Tally(answer, x)
    <3>1. x # a.kind /\ x # "free"
      OBVIOUS
    <3>2. Tally(answer, x) \in Nat /\ Tally(answer', x) = Tally(answer, x) + 0
      BY ONLY <1>4, <3>1
    <3> QED
      BY <3>2
  <2>3. /\ counts'.empty = Tally(answer', "empty")
        /\ counts'.reserved_cluster = Tally(answer', "reserved")
        /\ counts'.run_out_of_range = Tally(answer', "out_of_range")
        /\ counts'.refused = Tally(answer', "broken")
        /\ counts'.not_assessed = Tally(answer', "not_assessed")
    BY <2>8, <1>6 DEF Tallied
  <2>1. /\ Tally(answer, "free") \in Nat
        /\ Tally(answer', "free") = Tally(answer, "free") - 1
    BY <1>4
  <2>2. /\ Tally(answer, "extracted") \in Nat
        /\ Tally(answer', "extracted")
             = Tally(answer, "extracted") + (IF a.kind = "extracted" THEN 1 ELSE 0)
    BY <1>4
  <2>6. /\ Tally(answer, "not_extracted") \in Nat
        /\ Tally(answer', "not_extracted")
             = Tally(answer, "not_extracted") + (IF a.kind = "not_extracted" THEN 1 ELSE 0)
    BY ONLY <1>4
  <2>7. counts'.not_extracted = Tally(answer', "not_extracted")
    <3>1. (IF a.kind = "extracted" THEN 0 ELSE 1) = (IF a.kind = "not_extracted" THEN 1 ELSE 0)
      OBVIOUS
    <3> QED
      BY <1>6, <2>6, <3>1 DEF Tallied
  <2>4. counts'.free_runs = Tally(answer', "free") + Tally(answer', "extracted")
                              + Tally(answer', "not_extracted")
    <3>1. (IF a.kind = "extracted" THEN 1 ELSE 0) + (IF a.kind = "not_extracted" THEN 1 ELSE 0) = 1
      OBVIOUS
    <3>2. /\ counts'.free_runs = counts.free_runs
          /\ counts.free_runs = Tally(answer, "free") + Tally(answer, "extracted")
                                  + Tally(answer, "not_extracted")
      BY <1>6 DEF Tallied
    <3> QED
      BY ONLY <2>1, <2>2, <2>6, <3>1, <3>2
  <2>5. counts'.matched = Cardinality(JudgedIn(answer', "match"))
    BY <1>3, <1>6 DEF Tallied
  <2> QED
    BY <2>3, <2>4, <2>5, <2>7 DEF Tallied
<1> QED
  BY <1>2, <1>7, TallyStep

\* Nothing is answered and nothing is counted at first.
LEMMA TallyInit == Init => TallyInv
<1> SUFFICES ASSUME Init PROVE TallyInv
  OBVIOUS
<1>1. \A i \in DOMAIN answer : answer[i].kind = "none" /\ answer[i].outcome = "not_attempted"
  BY DEF Init, Start, Plain
<1>2. JudgedIn(answer, "match") = {}
  BY <1>1 DEF JudgedIn
<1>3. \A kind : kind # "none" => AnsweredIn(answer, {kind}) = {}
  BY <1>1 DEF AnsweredIn
<1>4. \A kind : kind # "none" => Tally(answer, kind) = 0
  BY <1>3, FS_EmptySet DEF Tally
<1>5. Cardinality(JudgedIn(answer, "match")) = 0
  BY <1>2, FS_EmptySet
<1>6. Tallied(answer, counts)
  BY <1>4, <1>5 DEF Init, Start, Tallied
<1>7. DOMAIN answer = 1 .. Len(entries)
  BY DEF Init, Start
<1>8. AnswersSuit
  BY <1>1, <1>7 DEF AnswersSuit, Suits
<1> QED
  BY <1>6, <1>8 DEF TallyInv

\* Every step that answers counts what it answered.
LEMMA TallyNext ==
  ASSUME TypeInv, TypeInv', AnswerInv, TallyInv, [Next]_vars
  PROVE  TallyInv'
<1>0. TypeOK /\ TypeOK' /\ Assessing /\ counts \in Counts /\ Len(entries) \in Nat
  BY DEF TypeInv, TypeOK
<1>1. ASSUME Take, step = "next"
      PROVE  /\ current + 1 \in 1 .. Len(entries) /\ UNCHANGED volume
             /\ entry = entries[current + 1] /\ answer[current + 1].kind = "none"
  <2>1. current + 1 \in 1 .. Len(entries) /\ current \in Nat /\ UNCHANGED volume
    BY <1>0, <1>1, TakeType DEF Take, TypeOK
  <2>2. Waits(current + 1, current, step)
    BY <2>1 DEF Waits
  <2> QED
    BY <2>1, <2>2 DEF AnswerInv, AnswersFit, entry
<1>2. ASSUME step = "assessing"
      PROVE  /\ current \in 1 .. Len(entries) /\ answer[current].kind = "none"
             /\ Asked(entries[current]) /\ entries[current].kind = "file"
  <2>1. current \in 1 .. Len(entries) /\ Waits(current, current, step)
    BY <1>0, <1>2 DEF TypeOK, Waits
  <2> QED
    BY <1>0, <1>2, <2>1 DEF AnswerInv, AnswersFit, Assessing, HasRun, Locates
<1>3. CASE DescribesNoFile
  <2>1. Take /\ step = "next" /\ Asked(entry) /\ counts' = counts
        /\ answer' = [answer EXCEPT ![current + 1] = Plain("ineligible")]
    BY <1>3 DEF DescribesNoFile, Take
  <2>2. OneMore(counts, counts', "ineligible")
    BY <1>0, <2>1 DEF OneMore, Counts
  <2> QED
    BY <1>0, <1>1, <2>1, <2>2, FirstAnswer
<1>4. CASE LocatesNothing
  <2>1. Take /\ step = "next" /\ Asked(entry)
    BY <1>4 DEF LocatesNothing, Take
  <2>2. PICK kind \in {"empty", "reserved", "out_of_range"} :
          /\ answer' = [answer EXCEPT ![current + 1] = Plain(kind)]
          /\ kind = "empty" => counts' = [counts EXCEPT !.empty = @ + 1]
          /\ kind = "reserved" => counts' = [counts EXCEPT !.reserved_cluster = @ + 1]
          /\ kind = "out_of_range" => counts' = [counts EXCEPT !.run_out_of_range = @ + 1]
          /\ entry.kind = "file"
    BY <1>4 DEF LocatesNothing, Empty, Reserved, OutOfRange, Locates
  <2>3. OneMore(counts, counts', kind)
    BY <1>0, <2>2 DEF OneMore, Counts
  <2> QED
    BY <1>0, <1>1, <2>1, <2>2, <2>3, FirstAnswer
<1>5. CASE AssessFails
  <2>1. /\ step = "assessing" /\ UNCHANGED volume
        /\ answer' = [answer EXCEPT ![current] = Plain("not_assessed")]
        /\ counts' = [counts EXCEPT !.not_assessed = @ + 1]
    BY <1>5 DEF AssessFails, Settle, NotAssessed
  <2>2. OneMore(counts, counts', "not_assessed")
    BY <1>0, <2>1 DEF OneMore, Counts
  <2> QED
    BY <1>0, <1>2, <2>1, <2>2, FirstAnswer
<1>6. CASE RunBroken
  <2>1. /\ step = "assessing" /\ UNCHANGED volume
        /\ answer' = [answer EXCEPT ![current] = Plain("broken")]
        /\ counts' = [counts EXCEPT !.refused = @ + 1]
    BY <1>6 DEF RunBroken, Settle
  <2>2. OneMore(counts, counts', "broken")
    BY <1>0, <2>1 DEF OneMore, Counts
  <2> QED
    BY <1>0, <1>2, <2>1, <2>2, FirstAnswer
<1>7. CASE Recoverable
  <2>1. /\ step = "assessing" /\ UNCHANGED volume
        /\ answer' = [answer EXCEPT ![current] = Plain("free")]
        /\ counts' = [counts EXCEPT !.free_runs = @ + 1]
    BY <1>7 DEF Recoverable, Settle
  <2>2. OneMore(counts, counts', "free")
    BY <1>0, <2>1 DEF OneMore, Counts
  <2> QED
    BY <1>0, <1>2, <2>1, <2>2, FirstAnswer
<1>8. ASSUME step = "extracting"
      PROVE  /\ current \in 1 .. Len(entries) /\ answer[current].kind = "free"
             /\ Asked(entries[current]) /\ entries[current].kind = "file" /\ options.recover
  <2>1. current \in 1 .. Len(entries) /\ answer[current].kind = "free" /\ options.recover
    BY <1>0, <1>8 DEF TypeOK, AnswerInv, AllRead
  <2> QED
    BY <2>1 DEF TallyInv, AnswersSuit, Suits
<1>9. CASE ExtractFails
  <2> DEFINE a == Plain("not_extracted")
  <2>1. /\ step = "extracting" /\ UNCHANGED volume
        /\ answer' = [answer EXCEPT ![current] = a]
        /\ counts' = [counts EXCEPT !.not_extracted = @ + 1]
    BY <1>9 DEF ExtractFails, Settle, NotExtracted
  <2>2. a \in Answer /\ a.kind = "not_extracted" /\ a.outcome = "not_attempted"
    BY PlainType DEF Plain
  <2> HIDE DEF a
  <2>3. /\ counts'.not_extracted = counts.not_extracted + 1 /\ counts'.matched = counts.matched + 0
        /\ counts'.empty = counts.empty /\ counts'.reserved_cluster = counts.reserved_cluster
        /\ counts'.run_out_of_range = counts.run_out_of_range /\ counts'.refused = counts.refused
        /\ counts'.not_assessed = counts.not_assessed /\ counts'.free_runs = counts.free_runs
    BY <1>0, <2>1 DEF Counts
  <2>4. Suits(entries[current], a, options)
    BY <1>8, <2>1, <2>2 DEF Suits
  <2>5. /\ counts'.not_extracted
             = counts.not_extracted + (IF a.kind = "extracted" THEN 0 ELSE 1)
        /\ counts'.matched = counts.matched + (IF a.outcome = "match" THEN 1 ELSE 0)
    BY <2>2, <2>3
  <2> QED
    BY <1>0, <1>8, <2>1, <2>2, <2>3, <2>4, <2>5, SecondAnswer
<1>10. CASE Extract
  <2>1. PICK output \in Handed \cup Undelivered \cup {"none"},
             outcome \in {"match", "differs", "not_attempted"} :
          /\ outcome # "not_attempted" <=> options.reference
          /\ Settle([kind |-> "extracted", output |-> output, outcome |-> outcome],
               [counts EXCEPT !.not_delivered = @ + (IF output \in Undelivered THEN 1 ELSE 0),
                              !.matched = @ + (IF outcome = "match" THEN 1 ELSE 0)])
    BY <1>10 DEF Extract
  <2> DEFINE a == [kind |-> "extracted", output |-> output, outcome |-> outcome]
  <2>2. /\ step = "extracting" /\ UNCHANGED volume
        /\ answer' = [answer EXCEPT ![current] = a]
        /\ counts' = [counts EXCEPT
                        !.not_delivered = @ + (IF output \in Undelivered THEN 1 ELSE 0),
                        !.matched = @ + (IF outcome = "match" THEN 1 ELSE 0)]
    BY <1>10, <2>1 DEF Extract, Settle
  <2>3. a \in Answer /\ a.kind = "extracted" /\ a.outcome = outcome
    BY DEF Answer
  <2>4. /\ counts'.not_extracted = counts.not_extracted
        /\ counts'.matched = counts.matched + (IF outcome = "match" THEN 1 ELSE 0)
        /\ counts'.empty = counts.empty /\ counts'.reserved_cluster = counts.reserved_cluster
        /\ counts'.run_out_of_range = counts.run_out_of_range /\ counts'.refused = counts.refused
        /\ counts'.not_assessed = counts.not_assessed /\ counts'.free_runs = counts.free_runs
    BY <1>0, <2>2 DEF Counts
  <2> HIDE DEF a
  <2>5. Suits(entries[current], a, options)
    BY <1>8, <2>1, <2>2, <2>3 DEF Suits
  <2>6. /\ counts'.not_extracted
             = counts.not_extracted + (IF a.kind = "extracted" THEN 0 ELSE 1)
        /\ counts'.matched = counts.matched + (IF a.outcome = "match" THEN 1 ELSE 0)
    BY <1>0, <2>3, <2>4 DEF Counts
  <2> QED
    BY <1>0, <1>8, <2>2, <2>3, <2>4, <2>5, <2>6, SecondAnswer
<1>11. CASE PassOver \/ Assess \/ ClusterFree \/ End \/ UNCHANGED vars
  <2>1. UNCHANGED <<volume, answer, counts>>
    BY <1>11 DEF PassOver, Assess, Take, ClusterFree, End, vars, volume
  <2> QED
    BY <2>1 DEF TallyInv, AnswersSuit, volume
<1> QED
  BY <1>3, <1>4, <1>5, <1>6, <1>7, <1>9, <1>10, <1>11 DEF Next, Finished

\* The accounts' invariant.
LEMMA TalliesCorrect == Spec => [](TypeInv /\ AnswerInv /\ TallyInv)
<1>1. TypeInv /\ TypeInv' /\ AnswerInv /\ TallyInv /\ [Next]_vars => TallyInv'
  BY TallyNext
<1> QED
  BY <1>1, TallyInit, AnswersCorrect, PTL DEF Spec

\* Two kinds of answer have no entry in common.
LEMMA TallyUnion ==
  ASSUME NEW n \in Nat, NEW ans \in [1 .. n -> Answer], NEW kinds, NEW kind, kind \notin kinds
  PROVE  /\ Cardinality(AnsweredIn(ans, kinds \cup {kind}))
              = Cardinality(AnsweredIn(ans, kinds)) + Tally(ans, kind)
         /\ Cardinality(AnsweredIn(ans, kinds)) \in Nat /\ Tally(ans, kind) \in Nat
<1> DEFINE S == AnsweredIn(ans, kinds)
           T == AnsweredIn(ans, {kind})
<1>1. /\ IsFiniteSet(S) /\ IsFiniteSet(T)
      /\ Cardinality(S) \in Nat /\ Cardinality(T) \in Nat
  BY AnsweredFinite
<1>2. S \cap T = {} /\ AnsweredIn(ans, kinds \cup {kind}) = S \cup T
  BY DEF AnsweredIn
<1>3. Cardinality(S \cup T) = Cardinality(S) + Cardinality(T) - Cardinality(S \cap T)
  BY <1>1, FS_Union
<1>4. Cardinality(S \cap T) = 0
  BY <1>2, FS_EmptySet
<1> QED
  <2>1. Cardinality(S \cup T) = Cardinality(S) + Cardinality(T)
    BY <1>1, <1>3, <1>4
  <2> QED
    BY <1>1, <1>2, <2>1 DEF Tally

\* Every lost file has one answer, in one of eight kinds.
LEMMA LostAreAnswered ==
  ASSUME TypeInv, AnswerInv, TallyInv, step = "done"
  PROVE  Cardinality({i \in DOMAIN entries : Lost(entries[i])})
           = Tally(answer, "empty") + Tally(answer, "reserved") + Tally(answer, "out_of_range")
             + Tally(answer, "broken") + Tally(answer, "not_assessed") + Tally(answer, "free")
             + Tally(answer, "extracted") + Tally(answer, "not_extracted")
<1> DEFINE n == Len(entries)
<1>1. n \in Nat /\ answer \in [1 .. n -> Answer] /\ entries \in Seq(Entry) /\ current = n
      /\ DOMAIN entries = 1 .. n
  BY DEF TypeInv, TypeOK, AnswerInv, AllRead
<1>2. ASSUME NEW i \in 1 .. n
      PROVE  Lost(entries[i]) <=>
               answer[i].kind \in {"empty", "reserved", "out_of_range", "broken", "not_assessed",
                                   "free", "extracted", "not_extracted"}
  <2> DEFINE e == entries[i]
             a == answer[i]
  <2>1. e \in Entry /\ a \in Answer
    BY <1>1
  <2>2. ~Waits(i, current, step)
    BY <1>1 DEF Waits
  <2>3. /\ a.kind = "none" => ~Asked(e)
        /\ a.kind = "ineligible" => e.kind # "file"
    BY <2>2 DEF AnswerInv, AnswersFit, Fits
  <2>4. /\ a.kind # "none" => Asked(e)
        /\ a.kind \notin {"none", "ineligible"} => e.kind = "file"
    BY DEF TallyInv, AnswersSuit, Suits
  <2>5. a.kind \in {"none", "ineligible", "empty", "reserved", "out_of_range", "broken",
                    "not_assessed", "free", "extracted", "not_extracted"}
    BY <2>1 DEF Answer
  <2>6. Lost(e) <=> e.kind = "file" /\ Asked(e)
    BY DEF Lost, Asked
  <2> HIDE DEF e, a
  <2>7. Lost(e) <=> a.kind \in {"empty", "reserved", "out_of_range", "broken", "not_assessed",
                                "free", "extracted", "not_extracted"}
    BY ONLY <2>3, <2>4, <2>5, <2>6
  <2> QED
    BY <2>7 DEF e, a
<1> HIDE DEF n
<1>3. {i \in DOMAIN entries : Lost(entries[i])}
        = AnsweredIn(answer, {"empty", "reserved", "out_of_range", "broken", "not_assessed",
                              "free", "extracted", "not_extracted"})
  BY <1>1, <1>2 DEF AnsweredIn
<1> DEFINE K1 == {"empty"}
           K2 == K1 \cup {"reserved"}
           K3 == K2 \cup {"out_of_range"}
           K4 == K3 \cup {"broken"}
           K5 == K4 \cup {"not_assessed"}
           K6 == K5 \cup {"free"}
           K7 == K6 \cup {"extracted"}
           K8 == K7 \cup {"not_extracted"}
           C(kinds) == Cardinality(AnsweredIn(answer, kinds))
           T(kind) == Tally(answer, kind)
<1>4. {"empty", "reserved", "out_of_range", "broken", "not_assessed", "free", "extracted",
       "not_extracted"} = K8
  OBVIOUS
<1>5. /\ "reserved" \notin K1 /\ "out_of_range" \notin K2 /\ "broken" \notin K3
      /\ "not_assessed" \notin K4 /\ "free" \notin K5 /\ "extracted" \notin K6
      /\ "not_extracted" \notin K7
  OBVIOUS
<1>6. C(K1) = T("empty")
  BY DEF Tally
<1> HIDE DEF K1, C, T
<1>7. C(K2) = C(K1) + T("reserved") /\ C(K1) \in Nat /\ T("reserved") \in Nat
  BY ONLY <1>1, <1>5, TallyUnion DEF K2, C, T
<1> HIDE DEF K2
<1>8. C(K3) = C(K2) + T("out_of_range") /\ T("out_of_range") \in Nat
  BY ONLY <1>1, <1>5, TallyUnion DEF K3, C, T
<1> HIDE DEF K3
<1>9. C(K4) = C(K3) + T("broken") /\ T("broken") \in Nat
  BY ONLY <1>1, <1>5, TallyUnion DEF K4, C, T
<1> HIDE DEF K4
<1>10. C(K5) = C(K4) + T("not_assessed") /\ T("not_assessed") \in Nat
  BY ONLY <1>1, <1>5, TallyUnion DEF K5, C, T
<1> HIDE DEF K5
<1>11. C(K6) = C(K5) + T("free") /\ T("free") \in Nat
  BY ONLY <1>1, <1>5, TallyUnion DEF K6, C, T
<1> HIDE DEF K6
<1>12. C(K7) = C(K6) + T("extracted") /\ T("extracted") \in Nat
  BY ONLY <1>1, <1>5, TallyUnion DEF K7, C, T
<1> HIDE DEF K7
<1>13. C(K8) = C(K7) + T("not_extracted") /\ T("not_extracted") \in Nat
  BY ONLY <1>1, <1>5, TallyUnion DEF K8, C, T
<1> HIDE DEF K8
<1>14. C(K8) = T("empty") + T("reserved") + T("out_of_range") + T("broken")
                 + T("not_assessed") + T("free") + T("extracted") + T("not_extracted")
  BY ONLY <1>6, <1>7, <1>8, <1>9, <1>10, <1>11, <1>12, <1>13
<1> QED
  BY <1>3, <1>4, <1>14 DEF C, T

\* However many files were lost and whatever became of each, the summary
\* accounts for every one exactly once, and the figures it derives are what
\* happened.
THEOREM AccountedCorrect == Spec => []EveryFileAccounted
<1>1. TypeInv /\ AnswerInv /\ TallyInv => EveryFileAccounted
  <2> SUFFICES ASSUME TypeInv, AnswerInv, TallyInv PROVE EveryFileAccounted
    OBVIOUS
  <2> DEFINE n == Len(entries)
             T(kind) == Tally(answer, kind)
             Judged(o) == Cardinality(JudgedIn(answer, o))
  <2>1. n \in Nat /\ answer \in [1 .. n -> Answer] /\ DOMAIN answer = 1 .. n /\ counts \in Counts
        /\ options.recover \in BOOLEAN /\ options.reference \in BOOLEAN
    BY DEF TypeInv, TypeOK, Options
  <2>2. \A kind : T(kind) \in Nat /\ T(kind) = Cardinality(Answered(kind))
    BY <2>1, AnsweredFinite DEF Tally, AnsweredIn, Answered
  <2>3. Tallied(answer, counts)
    BY DEF TallyInv
  <2>4. ~options.recover => T("extracted") = 0 /\ T("not_extracted") = 0
    <3>1. ~options.recover => Answered("extracted") = {} /\ Answered("not_extracted") = {}
      BY <2>1 DEF TallyInv, AnswersSuit, Suits, Answered
    <3> QED
      BY <2>2, <3>1, FS_EmptySet
  <2>5. options.recover /\ step # "extracting" => T("free") = 0
    <3>1. options.recover /\ step # "extracting" => Answered("free") = {}
      BY <2>1 DEF AnswerInv, AllRead, Answered
    <3> QED
      BY <2>2, <3>1, FS_EmptySet
  <2>6. step # "extracting" => Artifacts = T("extracted") /\ NotRead = T("free")
    <3>1. /\ counts.free_runs = T("free") + T("extracted") + T("not_extracted")
          /\ counts.not_extracted = T("not_extracted")
      BY <2>3 DEF Tallied
    <3>2. /\ T("free") \in Nat /\ T("extracted") \in Nat /\ T("not_extracted") \in Nat
      BY <2>2
    <3> HIDE DEF T
    <3> QED
      BY <2>1, <2>4, <2>5, <3>1, <3>2 DEF Artifacts, NotRead, Less
  <2>7. options.reference => T("extracted") = Judged("match") + Judged("differs")
                             /\ Judged("match") \in Nat /\ Judged("differs") \in Nat
    <3>1. /\ IsFiniteSet(JudgedIn(answer, "match")) /\ IsFiniteSet(JudgedIn(answer, "differs"))
          /\ Judged("match") \in Nat /\ Judged("differs") \in Nat
      BY <2>1, AnsweredFinite
    <3>2. \A i \in 1 .. n : answer[i].outcome \in {"match", "differs", "not_attempted"}
      BY <2>1 DEF Answer
    <3>3. options.reference =>
            \A i \in 1 .. n : answer[i].kind = "extracted"
                                <=> answer[i].outcome \in {"match", "differs"}
      BY <2>1, <3>2 DEF TallyInv, AnswersSuit, Suits
    <3>4. options.reference =>
            Answered("extracted") = JudgedIn(answer, "match") \cup JudgedIn(answer, "differs")
      BY <2>1, <3>3 DEF Answered, JudgedIn
    <3>5. JudgedIn(answer, "match") \cap JudgedIn(answer, "differs") = {}
      BY DEF JudgedIn
    <3>6. Cardinality(JudgedIn(answer, "match") \cup JudgedIn(answer, "differs"))
            = Judged("match") + Judged("differs")
      <4>1. Cardinality(JudgedIn(answer, "match") \cup JudgedIn(answer, "differs"))
              = Judged("match") + Judged("differs") - 0
        BY <3>1, <3>5, FS_Union, FS_EmptySet
      <4> QED
        BY <3>1, <4>1
    <3>7. T("extracted") = Cardinality(Answered("extracted"))
      BY <2>2
    <3> QED
      BY <3>1, <3>4, <3>6, <3>7
  <2>8. step # "extracting" =>
          Differed = Cardinality({i \in Answered("extracted") : answer[i].outcome = "differs"})
    <3>1. {i \in Answered("extracted") : answer[i].outcome = "differs"}
            = JudgedIn(answer, "differs")
      BY <2>1 DEF Answered, JudgedIn, TallyInv, AnswersSuit, Suits
    <3>2. CASE options.reference
      <4>1. counts.matched = Judged("match")
        BY <2>3 DEF Tallied
      <4> HIDE DEF T, Judged
      <4>2. /\ step # "extracting" => Artifacts = Judged("match") + Judged("differs")
            /\ Judged("match") \in Nat /\ Judged("differs") \in Nat
        BY <2>6, <2>7, <3>2
      <4>3. step # "extracting" => Differed = Judged("differs")
        BY ONLY <3>2, <4>1, <4>2 DEF Differed, Less
      <4> QED
        BY <3>1, <4>3 DEF Judged
    <3>3. CASE ~options.reference
      <4>1. JudgedIn(answer, "differs") = {}
        BY <2>1, <3>3 DEF JudgedIn, TallyInv, AnswersSuit, Suits
      <4> QED
        BY <3>1, <3>3, <4>1, FS_EmptySet DEF Differed
    <3> QED
      BY <2>1, <3>2, <3>3
  <2>9. step = "done" =>
          Artifacts + counts.refused + NotRead + counts.not_assessed + counts.not_extracted
            + counts.empty + counts.reserved_cluster + counts.run_out_of_range
          = Cardinality({i \in DOMAIN entries : Lost(entries[i])})
    <3> SUFFICES ASSUME step = "done" PROVE
          Artifacts + counts.refused + NotRead + counts.not_assessed + counts.not_extracted
            + counts.empty + counts.reserved_cluster + counts.run_out_of_range
          = Cardinality({i \in DOMAIN entries : Lost(entries[i])})
      OBVIOUS
    <3>1. Artifacts = T("extracted") /\ NotRead = T("free")
      BY <2>6
    <3>2. /\ counts.refused = T("broken") /\ counts.not_assessed = T("not_assessed")
          /\ counts.not_extracted = T("not_extracted") /\ counts.empty = T("empty")
          /\ counts.reserved_cluster = T("reserved") /\ counts.run_out_of_range = T("out_of_range")
      BY <2>3 DEF Tallied
    <3>3. Cardinality({i \in DOMAIN entries : Lost(entries[i])})
           = T("empty") + T("reserved") + T("out_of_range") + T("broken") + T("not_assessed")
             + T("free") + T("extracted") + T("not_extracted")
      BY LostAreAnswered
    <3>4. /\ T("empty") \in Nat /\ T("reserved") \in Nat /\ T("out_of_range") \in Nat
          /\ T("broken") \in Nat /\ T("not_assessed") \in Nat /\ T("free") \in Nat
          /\ T("extracted") \in Nat /\ T("not_extracted") \in Nat
      BY <2>2
    <3> HIDE DEF T
    <3> QED
      BY ONLY <3>1, <3>2, <3>3, <3>4
  <2> QED
    BY <2>2, <2>6, <2>8, <2>9 DEF EveryFileAccounted
<1> QED
  BY <1>1, TalliesCorrect, PTL
=============================================================================
