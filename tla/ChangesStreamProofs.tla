------------------------- MODULE ChangesStreamProofs -------------------------
(***************************************************************************)
(* Proofs about ChangesStream, for every set of keys and every bound: types,*)
(* that only a failed write makes the consumer group pass over a change,    *)
(* and that a stream that has caught up agrees with its source.             *)
(***************************************************************************)
EXTENDS ChangesStream, TLAPS

\* Every message up to this offset has been dealt with by this process.
Done ==
    IF process # "streaming" THEN 0
    ELSE IF inflight # 0 /\ written = 0 THEN position - 1
    ELSE position

\* Where the offsets stand to each other.
OffsetsOrdered ==
    /\ position <= Len(topic) /\ committed <= Len(topic)
    /\ inflight \in {0, position}
    /\ inflight # 0 => process = "streaming"
    /\ written = 1 => inflight # 0
    /\ stored <= Done
    /\ process = "streaming" => committed <= Done
    /\ process = "restarting" => committed = 0
    /\ metadata = "Some" => FileAccelerated

\* Every change up to offset n is in the table, or its write failed.
Kept(n) ==
    \A i \in 1..Len(topic) :
        i <= n /\ Effective(i) => Shown(i) \/ i \in failed

\* The inductive invariant.
StreamInv ==
    /\ TypeOK
    /\ OffsetsOrdered
    /\ Kept(Done)
    /\ FileAccelerated => Kept(committed)

LEMMA StreamInvInit == Init => StreamInv
<1> SUFFICES ASSUME Init PROVE StreamInv
  OBVIOUS
<1> USE ChangesAssumption DEF Init
<1>1. TypeOK
  BY DEF TypeOK, Offsets, NoRows
<1>2. OffsetsOrdered
  BY DEF OffsetsOrdered, Done
<1>3. Kept(Done) /\ Kept(committed)
  BY DEF Kept, Done
<1> QED
  BY <1>1, <1>2, <1>3 DEF StreamInv

\* A step that changes neither the topic nor the table leaves every change as
\* visible as it was.
LEMMA SameShown ==
    ASSUME UNCHANGED <<topic, accel>>
    PROVE  \A i : (Shown(i)' <=> Shown(i)) /\ (Effective(i)' <=> Effective(i))
BY DEF Shown, Effective, RowAfter

\* Every message has a key.
LEMMA ElementKey ==
    ASSUME topic \in Seq(Changes), NEW i \in 1..Len(topic)
    PROVE  topic[i].key \in Keys
<1>1. topic[i] \in Changes
  OBVIOUS
<1> QED
  BY <1>1 DEF Changes

\* Every step keeps the types.
LEMMA TypeStep == StreamInv /\ [Next]_vars => TypeOK'
<1> SUFFICES ASSUME StreamInv, [Next]_vars PROVE TypeOK'
  OBVIOUS
<1>0. TypeOK
  BY DEF StreamInv
<1> USE ChangesAssumption, <1>0 DEF TypeOK, Offsets, configVars
<1>1. ASSUME NEW c \in Changes, SourceChanges(c) PROVE TypeOK'
  BY <1>1 DEF SourceChanges, streamVars
<1>2. CASE CreateGroup
  BY <1>2 DEF CreateGroup
<1>3. CASE RestartTopic
  BY <1>3 DEF RestartTopic, Beginning
<1>4. CASE ResumeGroup
  BY <1>4 DEF ResumeGroup
<1>5. CASE Deliver
  BY <1>5 DEF Deliver, OffsetOnDelivery
<1>6. CASE WriteChange
  <2>1. topic[inflight].key \in Keys
    BY <1>6, ElementKey DEF WriteChange, StreamInv, OffsetsOrdered
  <2>2. Applied(inflight) \in [Keys -> Offsets]
    BY <2>1 DEF Applied
  <2> QED
    BY <1>6, <2>2 DEF WriteChange
<1>7. CASE WriteFails
  BY <1>7 DEF WriteFails
<1>8. CASE Commit
  BY <1>8 DEF Commit, OffsetOf
<1>9. CASE AutoCommit
  BY <1>9 DEF AutoCommit, streamVars
<1>10. CASE Crash
  <2>1. accel' \in [Keys -> Offsets]
    BY <1>10 DEF Crash, NoRows
  <2> QED
    BY <1>10, <2>1 DEF Crash
<1>11. CASE UNCHANGED vars
  BY <1>11 DEF vars, streamVars
<1> QED
  BY <1>1, <1>2, <1>3, <1>4, <1>5, <1>6, <1>7, <1>8, <1>9, <1>10, <1>11
     DEF Next, StartStep, StreamStep

\* Every step keeps the offsets in order.
LEMMA OffsetsStep == StreamInv /\ [Next]_vars => OffsetsOrdered'
<1> SUFFICES ASSUME StreamInv, [Next]_vars PROVE OffsetsOrdered'
  OBVIOUS
<1> USE ChangesAssumption DEF StreamInv, TypeOK, Offsets, OffsetsOrdered, Done,
                              FileAccelerated, configVars
<1>1. ASSUME NEW c \in Changes, SourceChanges(c) PROVE OffsetsOrdered'
  BY <1>1 DEF SourceChanges, streamVars
<1>2. CASE StartStep
  BY <1>2 DEF StartStep, CreateGroup, RestartTopic, ResumeGroup, Beginning
<1>3. CASE Deliver
  BY <1>3 DEF Deliver, OffsetOnDelivery
<1>4. CASE WriteChange \/ WriteFails \/ Commit
  BY <1>4 DEF WriteChange, WriteFails, Commit, OffsetOf
<1>5. CASE AutoCommit \/ Crash
  BY <1>5 DEF AutoCommit, Crash, streamVars
<1>6. CASE UNCHANGED vars
  BY <1>6 DEF vars, streamVars
<1> QED
  BY <1>1, <1>2, <1>3, <1>4, <1>5, <1>6 DEF Next, StreamStep

\* A change that is applied hides no other change up to its own offset.
LEMMA AppliedShows ==
    ASSUME TypeOK, OffsetsOrdered, WriteChange,
           NEW i \in 1..Len(topic), Effective(i), i <= inflight,
           i = inflight \/ Shown(i) \/ i \in failed
    PROVE  Shown(i)' \/ i \in failed'
<1> USE DEF TypeOK, Offsets
<1>1. /\ inflight \in 1..Len(topic) /\ topic' = topic
      /\ accel' = Applied(inflight) /\ failed' = failed \ {inflight}
  BY DEF WriteChange, OffsetsOrdered
<1>2. topic[inflight].key \in Keys /\ topic[i].key \in Keys
  BY <1>1, ElementKey
<1>3. CASE Effective(inflight) /\ topic[inflight].key = topic[i].key
  <2>1. accel'[topic[i].key] = RowAfter(inflight)
    BY <1>1, <1>2, <1>3 DEF Applied, RowAfter, Effective
  <2> QED
    BY <1>1, <1>3, <2>1 DEF Shown, Effective, RowAfter
<1>4. CASE ~(Effective(inflight) /\ topic[inflight].key = topic[i].key)
  <2>1. i # inflight
    BY <1>4
  <2>2. accel'[topic[i].key] = accel[topic[i].key]
    BY <1>1, <1>2, <1>4 DEF Applied, Effective
  <2> QED
    BY <1>1, <2>1, <2>2 DEF Shown, Effective, RowAfter
<1> QED
  BY <1>3, <1>4

\* Every step keeps the changes that were dealt with, and those up to the
\* committed offset, in the table or among the failed ones.
LEMMA KeptStep ==
    StreamInv /\ [Next]_vars => Kept(Done)' /\ (FileAccelerated => Kept(committed))'
<1> DEFINE K == Kept(Done)' /\ (FileAccelerated => Kept(committed))'
<1> SUFFICES ASSUME StreamInv, [Next]_vars PROVE K
  OBVIOUS
<1> USE ChangesAssumption DEF StreamInv, TypeOK, Offsets, OffsetsOrdered, Done,
                              FileAccelerated, configVars
<1>1. ASSUME NEW c \in Changes, SourceChanges(c) PROVE K
  <2>1. \A i \in 1..Len(topic) : topic'[i] = topic[i]
    BY <1>1 DEF SourceChanges
  <2>2. Len(topic') = Len(topic) + 1 /\ UNCHANGED <<accel, failed>>
    BY <1>1 DEF SourceChanges
  <2>3. ASSUME NEW i \in 1..Len(topic), Effective(i)', Shown(i) \/ i \in failed
        PROVE  Shown(i)' \/ i \in failed'
    BY <2>1, <2>2, <2>3 DEF Shown, Effective, RowAfter
  <2>4. ASSUME NEW i \in 1..Len(topic) PROVE Effective(i)' <=> Effective(i)
    BY <2>1 DEF Effective
  <2> QED
    BY <1>1, <2>2, <2>3, <2>4 DEF Kept, SourceChanges, streamVars
<1>2. CASE StartStep
  BY <1>2, SameShown
     DEF Kept, StartStep, CreateGroup, RestartTopic, ResumeGroup, Beginning
<1>3. CASE Deliver
  <2>1. \A i : (Shown(i)' <=> Shown(i)) /\ (Effective(i)' <=> Effective(i))
    BY <1>3, SameShown DEF Deliver
  <2>2. inflight' = 0 => ~Effective(position + 1)
    BY <1>3 DEF Deliver, Effective
  <2> QED
    BY <1>3, <2>1, <2>2 DEF Kept, Deliver
<1>4. CASE WriteChange
  <2>1. ASSUME NEW i \in 1..Len(topic), Effective(i), i <= inflight
        PROVE  Shown(i)' \/ i \in failed'
    BY <1>4, <2>1, AppliedShows DEF Kept, WriteChange
  <2>2. \A i : Effective(i)' <=> Effective(i)
    BY <1>4 DEF Effective, WriteChange
  <2> QED
    BY <1>4, <2>1, <2>2 DEF Kept, WriteChange
<1>5. CASE WriteFails \/ Commit \/ AutoCommit
  BY <1>5, SameShown DEF Kept, WriteFails, Commit, AutoCommit, OffsetOf, streamVars
<1>6. CASE Crash
  <2>1. Kept(Done)'
    BY <1>6 DEF Kept, Crash
  <2> QED
    BY <1>6, <2>1, SameShown DEF Kept, Crash
<1>7. CASE UNCHANGED vars
  BY <1>7, SameShown DEF Kept, vars, streamVars
<1> QED
  BY <1>1, <1>2, <1>3, <1>4, <1>5, <1>6, <1>7 DEF Next, StreamStep

\* The invariant of the stream, through redeliveries, failed writes, lost
\* commits and crashes.
THEOREM StreamInvariance == Spec => []StreamInv
<1>1. StreamInv /\ [Next]_vars => StreamInv'
  BY TypeStep, OffsetsStep, KeptStep DEF StreamInv
<1> QED
  BY StreamInvInit, <1>1, PTL DEF Spec

\* Every variable keeps its type, TypeOK: no offset runs past the topic.
THEOREM StreamTypeCorrect == Spec => []TypeOK
<1>1. StreamInv => TypeOK
  BY DEF StreamInv
<1> QED
  BY StreamInvariance, <1>1, PTL

\* Only a failed write makes the committed offset pass a change that the table
\* does not show, LostOnlyByFailure.
THEOREM OnlyFailuresLose == Spec => []LostOnlyByFailure
<1>1. StreamInv => LostOnlyByFailure
  BY DEF StreamInv, Kept, LostOnlyByFailure
<1> QED
  BY StreamInvariance, <1>1, PTL

\* A stream that has caught up agrees with the source, CaughtUpAgrees: the
\* change that a key shows is not earlier than its last, hence its last.
THEOREM CaughtUpIsCorrect == Spec => []CaughtUpAgrees
<1>1. StreamInv => CaughtUpAgrees
  <2> SUFFICES ASSUME StreamInv, process = "streaming", position = Len(topic),
                      inflight = 0, NEW i \in 1..Len(topic), LastOfKey(i),
                      i \notin failed
               PROVE  accel[topic[i].key] = RowAfter(i)
    BY DEF CaughtUpAgrees
  <2>1. Shown(i)
    BY DEF StreamInv, Kept, Done, LastOfKey
  <2>2. PICK j \in i..Len(topic) :
            /\ Effective(j) /\ topic[j].key = topic[i].key
            /\ accel[topic[i].key] = RowAfter(j)
    BY <2>1 DEF Shown
  <2>3. j = i
    BY <2>2 DEF LastOfKey
  <2> QED
    BY <2>2, <2>3
<1> QED
  BY StreamInvariance, <1>1, PTL
=============================================================================
