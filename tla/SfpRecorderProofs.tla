-------------------------- MODULE SfpRecorderProofs --------------------------
(***************************************************************************)
(* SfpRecorder, for every number of threads, lines and sets, every set of  *)
(* accesses and every bound on the trace: its types; the locks of the sets *)
(* exclude each other, therefore a thread's copy of a list is the list,    *)
(* therefore stamps come in order and the lists stay sorted; it implements *)
(* RecencyTable; and its report is exact, if no access straddles lines.    *)
(***************************************************************************)
EXTENDS SfpRecorder, RecorderLemmas

-----------------------------------------------------------------------------
(***************************************************************************)
(* Type correctness.                                                       *)
(***************************************************************************)
\* Adding to or subtracting from one entry keeps a row of counts ...
LEMMA RowType ==
  ASSUME NEW B, NEW r \in [B -> Int], NEW b, NEW d \in Int
  PROVE  /\ [r EXCEPT ![b] = @ + d] \in [B -> Int]
         /\ [r EXCEPT ![b] = @ - d] \in [B -> Int]
<1>1. CASE b \in B
  <2>1. r[b] + d \in Int /\ r[b] - d \in Int
    BY <1>1
  <2>. QED
    BY <2>1
<1>2. CASE b \notin B
  BY <1>2
<1>. QED
  BY <1>1, <1>2

\* ... and a table of such rows.
LEMMA CountType ==
  ASSUME NEW K, NEW B, NEW w \in [K -> [B -> Int]], NEW k, NEW b, NEW d \in Int
  PROVE  /\ [w EXCEPT ![k][b] = @ + d] \in [K -> [B -> Int]]
         /\ [w EXCEPT ![k][b] = @ - d] \in [K -> [B -> Int]]
<1>1. CASE k \in K
  <2>1. w[k] \in [B -> Int]
    BY <1>1
  <2>2. /\ [w[k] EXCEPT ![b] = @ + d] \in [B -> Int]
        /\ [w[k] EXCEPT ![b] = @ - d] \in [B -> Int]
    BY <2>1, RowType
  <2>. QED
    BY <2>2
<1>2. CASE k \notin K
  BY <1>2
<1>. QED
  BY <1>1, <1>2

\* The same for the two entries that PassStamp changes.
LEMMA PassType ==
  ASSUME NEW K, NEW B, NEW w \in [K -> [B -> Int]], NEW k, NEW b, NEW d \in Int
  PROVE  [w EXCEPT ![k][b] = @ + d, ![k + 1][b] = @ - d] \in [K -> [B -> Int]]
<1>. DEFINE v == [w EXCEPT ![k][b] = @ + d]
<1>1. v \in [K -> [B -> Int]]
  BY CountType
<1>. HIDE DEF v
<1>2. [v EXCEPT ![k + 1][b] = @ - d] \in [K -> [B -> Int]]
  BY <1>1, CountType
<1>. QED
  BY <1>2 DEF v

\* The index of a line's set is in the table.
LEMMA SetIndexType == \A l \in Nat : SetIndex(l) \in Sets
BY RecorderAssumption DEF SetIndex, Sets

\* The lines of an access are lines of the program, and there is one.
LEMMA LineFacts ==
  ASSUME NEW a \in Accesses
  PROVE  /\ LineBase(a) \in Nat /\ LineEnd(a) \in Nat
         /\ LineBase(a) < LineEnd(a) /\ LineEnd(a) <= NumLines
<1>1. LineBase(a) \in Nat /\ LineEnd(a) \in LineBase(a) + 1 .. NumLines
  BY RecorderAssumption
<1>. QED
  BY <1>1, RecorderAssumption

\* How far each thread has come in its lines, by its place in RecordMem.
PositionOK ==
  \A t \in Threads :
    /\ pc[t] = "idle" => cur_addr[t] = 0 /\ base_addr[t] = 0
    /\ pc[t] # "idle" => acc[t] \in Accesses
    /\ pc[t] = "acquire" => /\ cur_addr[t] = LineBase(acc[t])
                            /\ cur_addr[t] <= base_addr[t]
                            /\ base_addr[t] <= LineEnd(acc[t])
    /\ pc[t] \in {"load", "visit", "update", "release"} =>
         /\ base_addr[t] = LineEnd(acc[t])
         /\ cur_addr[t] < LineEnd(acc[t])

TypeInv == TypeOK /\ PositionOK

\* The types hold initially.
LEMMA InitTypeInv == Init => TypeInv
<1>. SUFFICES ASSUME Init PROVE TypeInv
  OBVIOUS
<1>. USE DEF Init, ThreadInit
<1>1. ThreadTypeOK
  BY ThreadAssumption DEF ThreadTypeOK, TlsStates, Threads
<1>2. TypeOK
  BY <1>1, EmptyType, RecorderAssumption DEF TypeOK, PcLabels, Lines, NIL
<1>3. PositionOK
  BY DEF PositionOK
<1>. QED
  BY <1>2, <1>3 DEF TypeInv

\* Every step keeps the types.
LEMMA NextTypeInv == TypeInv /\ [Next]_vars => TypeInv'
<1>. SUFFICES ASSUME TypeInv, [Next]_vars PROVE TypeInv'
  OBVIOUS
<1>. USE DEF TypeInv
<1>. USE DEF threadVars, tableVars, countVars, accessVars, walkVars, finiVars
<1>1. ASSUME NEW t \in Threads, Lifecycle(t) PROVE TypeInv'
  <2>1. ThreadTypeOK'
    <3>1. CASE ThreadStart(t)
      BY <3>1, ThreadAssumption DEF TypeOK, ThreadTypeOK, ThreadStart, MayStart, TlsStates
    <3>2. CASE activate(t)
      BY <3>2 DEF TypeOK, ThreadTypeOK, activate, TlsStates
    <3>3. CASE deactivate(t)
      BY <3>3 DEF TypeOK, ThreadTypeOK, deactivate, TlsStates
    <3>4. CASE ThreadFini(t)
      BY <3>4 DEF TypeOK, ThreadTypeOK, ThreadFini
    <3>. QED
      BY <1>1, <3>1, <3>2, <3>3, <3>4 DEF Lifecycle
  <2>2. TypeOK'
    BY <1>1, <2>1 DEF TypeOK, Lifecycle
  <2>3. PositionOK'
    BY <1>1 DEF PositionOK, Lifecycle
  <2>. QED
    BY <2>2, <2>3
<1>2. ASSUME NEW t \in Threads, RecordMem(t) PROVE TypeInv'
  <2>2. TypeOK'
    BY <1>2, LineFacts DEF TypeOK, RecordMem, ThreadTypeOK, PcLabels
  <2>3. PositionOK'
    BY <1>2, LineFacts DEF PositionOK, RecordMem, TypeOK
  <2>. QED
    BY <2>2, <2>3
<1>3. ASSUME NEW t \in Threads, LockAcquire(t) PROVE TypeInv'
  <2>1. lock' \in [Sets -> {0, 1}]
    BY <1>3 DEF TypeOK, LockAcquire
  <2>2. base_addr' \in [Threads -> Nat]
    BY <1>3 DEF TypeOK, LockAcquire
  <2>3. TypeOK'
    BY <1>3, <2>1, <2>2 DEF TypeOK, LockAcquire, ThreadTypeOK
  <2>4. acc[t] \in Accesses
    BY <1>3 DEF LockAcquire, Waiting, PositionOK
  <2>5. base_addr[t] \in Nat /\ LineEnd(acc[t]) \in Nat
    BY <2>4, LineFacts DEF TypeOK
  <2>6. PositionOK'
    BY <1>3, <2>5 DEF PositionOK, LockAcquire, Waiting, TypeOK
  <2>. QED
    BY <2>3, <2>6
<1>4. ASSUME NEW t \in Threads, LockSpin(t) PROVE TypeInv'
  BY <1>4 DEF LockSpin, vars, TypeOK, ThreadTypeOK, PositionOK
<1>5. ASSUME NEW t \in Threads, ReserveStamp(t) PROVE TypeInv'
  <2>1. acc[t] \in Accesses
    BY <1>5 DEF ReserveStamp, PositionOK
  <2>2. tempN' \in [Threads -> Nat]
    BY <1>5 DEF TypeOK, ReserveStamp
  <2>3. trace' \in Seq([thread : Threads, access : Accesses])
    BY <1>5, <2>1 DEF TypeOK, ReserveStamp
  <2>4. pc' \in [Threads -> PcLabels]
    BY <1>5 DEF TypeOK, ReserveStamp, PcLabels
  <2>5. TypeOK'
    BY <1>5, <2>2, <2>3, <2>4 DEF TypeOK, ReserveStamp, ThreadTypeOK
  <2>6. LineBase(acc[t]) < LineEnd(acc[t])
    BY <2>1, LineFacts
  <2>7. PositionOK'
    BY <1>5, <2>6 DEF PositionOK, ReserveStamp, AllLocked, TypeOK
  <2>. QED
    BY <2>5, <2>7
<1>6. ASSUME NEW t \in Threads, LoadStamps(t) PROVE TypeInv'
  <2>1. cur_addr[t] \in Lines
    <3>1. acc[t] \in Accesses /\ cur_addr[t] < LineEnd(acc[t])
      BY <1>6 DEF LoadStamps, PositionOK
    <3>2. LineEnd(acc[t]) \in Nat /\ LineEnd(acc[t]) <= NumLines
      BY <3>1, LineFacts
    <3>. QED
      BY <3>1, <3>2, RecorderAssumption DEF TypeOK, Lines
  <2>2. stamps[cur_addr[t]] \in StampLists
    BY <2>1 DEF TypeOK
  <2>3. s' \in [Threads -> StampLists]
    BY <1>6, <2>2 DEF TypeOK, LoadStamps
  <2>4. iter' \in [Threads -> Threads \cup {NIL}]
    BY <1>6, <2>2 DEF TypeOK, LoadStamps, StampLists
  <2>5. prev' \in [Threads -> Threads \cup {NIL}]
    BY <1>6 DEF TypeOK, LoadStamps
  <2>6. thd_count' \in [Threads -> Nat]
    BY <1>6 DEF TypeOK, LoadStamps
  <2>7. pc' \in [Threads -> PcLabels]
    BY <1>6 DEF TypeOK, LoadStamps, PcLabels
  <2>8. TypeOK'
    BY <1>6, <2>3, <2>4, <2>5, <2>6, <2>7 DEF TypeOK, LoadStamps, ThreadTypeOK
  <2>9. PositionOK'
    BY <1>6 DEF PositionOK, LoadStamps, TypeOK
  <2>. QED
    BY <2>8, <2>9
<1>7. ASSUME NEW t \in Threads, PassStamp(t) PROVE TypeInv'
  <2>1. iter[t] \in Threads
    BY <1>7 DEF TypeOK, PassStamp
  <2>2. s[t].next[iter[t]] \in Threads \cup {NIL}
    BY <2>1 DEF TypeOK, StampLists
  <2>3. Distance(t, iter[t]) \in Int
    BY <2>1 DEF Distance, TypeOK, StampLists
  <2>4. wcount' \in [Levels -> [Buckets -> Int]]
    <3>. DEFINE k == thd_count[t]
                b == sublog_value_to_index(Distance(t, iter[t]))
                one == 1
    <3>1. wcount' = [wcount EXCEPT ![k][b] = @ + one, ![k + 1][b] = @ - one]
      BY <1>7 DEF PassStamp
    <3>2. wcount \in [Levels -> [Buckets -> Int]]
      BY DEF TypeOK
    <3>3. one \in Int
      OBVIOUS
    <3>. HIDE DEF k, b, one
    <3>. QED
      BY <3>1, <3>2, <3>3, PassType
  <2>5. wcount_i' \in [Levels -> [Buckets -> Int]]
    <3>. DEFINE k == thd_count[t]
                d == Distance(t, iter[t])
                b == sublog_value_to_index(d)
    <3>1. wcount_i' = [wcount_i EXCEPT ![k][b] = @ + d, ![k + 1][b] = @ - d]
      BY <1>7 DEF PassStamp
    <3>2. wcount_i \in [Levels -> [Buckets -> Int]]
      BY DEF TypeOK
    <3>3. d \in Int
      BY <2>3
    <3>. HIDE DEF k, b, d
    <3>. QED
      BY <3>1, <3>2, <3>3, PassType
  <2>6. prev' \in [Threads -> Threads \cup {NIL}]
    BY <1>7, <2>1 DEF TypeOK, PassStamp
  <2>7. thd_count' \in [Threads -> Nat]
    BY <1>7 DEF TypeOK, PassStamp
  <2>8. iter' \in [Threads -> Threads \cup {NIL}]
    BY <1>7, <2>2 DEF TypeOK, PassStamp
  <2>9. TypeOK'
    BY <1>7, <2>4, <2>5, <2>6, <2>7, <2>8 DEF TypeOK, PassStamp, ThreadTypeOK
  <2>10. PositionOK'
    BY <1>7 DEF PositionOK, PassStamp
  <2>. QED
    BY <2>9, <2>10
<1>8. ASSUME NEW t \in Threads, MeetOwnStamp(t) PROVE TypeInv'
  <2>1. Distance(t, t) \in Int
    BY DEF Distance, TypeOK, StampLists
  <2>2. wcount' \in [Levels -> [Buckets -> Int]]
    <3>. DEFINE k == thd_count[t]
                d == Distance(t, t)
                b == sublog_value_to_index(d)
    <3>1. wcount' = [wcount EXCEPT ![k][b] = @ + 1]
      BY <1>8 DEF MeetOwnStamp
    <3>2. wcount \in [Levels -> [Buckets -> Int]]
      BY DEF TypeOK
    <3>3. 1 \in Int
      OBVIOUS
    <3>. HIDE DEF k, b, d
    <3>. QED
      BY <3>1, <3>2, <3>3, CountType
  <2>3. wcount_i' \in [Levels -> [Buckets -> Int]]
    <3>. DEFINE k == thd_count[t]
                d == Distance(t, t)
                b == sublog_value_to_index(d)
    <3>1. wcount_i' = [wcount_i EXCEPT ![k][b] = @ + d]
      BY <1>8 DEF MeetOwnStamp
    <3>2. wcount_i \in [Levels -> [Buckets -> Int]]
      BY DEF TypeOK
    <3>3. d \in Int
      BY <2>1
    <3>. HIDE DEF k, b, d
    <3>. QED
      BY <3>1, <3>2, <3>3, CountType
  <2>4. pc' \in [Threads -> PcLabels]
    BY <1>8 DEF TypeOK, MeetOwnStamp, PcLabels
  <2>5. TypeOK'
    BY <1>8, <2>2, <2>3, <2>4 DEF TypeOK, MeetOwnStamp, ThreadTypeOK
  <2>6. PositionOK'
    BY <1>8 DEF PositionOK, MeetOwnStamp, TypeOK
  <2>. QED
    BY <2>5, <2>6
<1>9. ASSUME NEW t \in Threads, FirstAccess(t) PROVE TypeInv'
  <2>1. tempN[t] - 1 \in Int
    BY DEF TypeOK
  <2>2. wcount' \in [Levels -> [Buckets -> Int]]
    <3>. DEFINE k == thd_count[t]
                d == tempN[t] - 1
                b == sublog_value_to_index(d)
    <3>1. wcount' = [wcount EXCEPT ![k][b] = @ + 1]
      BY <1>9 DEF FirstAccess
    <3>2. wcount \in [Levels -> [Buckets -> Int]]
      BY DEF TypeOK
    <3>3. 1 \in Int
      OBVIOUS
    <3>. HIDE DEF k, b, d
    <3>. QED
      BY <3>1, <3>2, <3>3, CountType
  <2>3. wcount_i' \in [Levels -> [Buckets -> Int]]
    <3>. DEFINE k == thd_count[t]
                d == tempN[t] - 1
                b == sublog_value_to_index(d)
    <3>1. wcount_i' = [wcount_i EXCEPT ![k][b] = @ + d]
      BY <1>9 DEF FirstAccess
    <3>2. wcount_i \in [Levels -> [Buckets -> Int]]
      BY DEF TypeOK
    <3>3. d \in Int
      BY <2>1
    <3>. HIDE DEF k, b, d
    <3>. QED
      BY <3>1, <3>2, <3>3, CountType
  <2>4. M' \in [Levels -> Nat]
    <3>1. M' = [M EXCEPT ![thd_count[t]] = @ + 1]
      BY <1>9 DEF FirstAccess
    <3>2. M \in [Levels -> Nat]
      BY DEF TypeOK
    <3>3. \A k \in Levels : M[k] + 1 \in Nat
      BY <3>2
    <3>. QED
      BY <3>1, <3>2, <3>3
  <2>5. pc' \in [Threads -> PcLabels]
    BY <1>9 DEF TypeOK, FirstAccess, PcLabels
  <2>6. TypeOK'
    BY <1>9, <2>2, <2>3, <2>4, <2>5 DEF TypeOK, FirstAccess, ThreadTypeOK
  <2>7. PositionOK'
    BY <1>9 DEF PositionOK, FirstAccess, TypeOK
  <2>. QED
    BY <2>6, <2>7
<1>10. ASSUME NEW t \in Threads, StoreStamps(t) PROVE TypeInv'
  <2>1. MovedToFront(s[t], t, tempN[t], prev[t]) \in StampLists
    BY MoveType DEF TypeOK
  <2>2. stamps' \in [Lines -> StampLists]
    BY <1>10, <2>1 DEF TypeOK, StoreStamps
  <2>3. pc' \in [Threads -> PcLabels]
    BY <1>10 DEF TypeOK, StoreStamps, PcLabels
  <2>4. TypeOK'
    BY <1>10, <2>2, <2>3 DEF TypeOK, StoreStamps, ThreadTypeOK
  <2>5. PositionOK'
    BY <1>10 DEF PositionOK, StoreStamps, TypeOK
  <2>. QED
    BY <2>4, <2>5
<1>11. ASSUME NEW t \in Threads, LockRelease(t) PROVE TypeInv'
  <2>1. lock' \in [Sets -> {0, 1}]
    BY <1>11 DEF TypeOK, LockRelease, lock_release
  <2>2. s' \in [Threads -> StampLists]
    BY <1>11, EmptyType DEF TypeOK, LockRelease
  <2>3. iter' \in [Threads -> Threads \cup {NIL}]
    BY <1>11 DEF TypeOK, LockRelease
  <2>4. prev' \in [Threads -> Threads \cup {NIL}]
    BY <1>11 DEF TypeOK, LockRelease
  <2>5. thd_count' \in [Threads -> Nat]
    BY <1>11 DEF TypeOK, LockRelease
  <2>6. CASE cur_addr[t] + 1 < LineEnd(acc[t])
    <3>1. /\ cur_addr' = [cur_addr EXCEPT ![t] = @ + 1]
          /\ pc' = [pc EXCEPT ![t] = "load"]
          /\ acc' = acc /\ base_addr' = base_addr /\ tempN' = tempN
      BY <1>11, <2>6 DEF LockRelease
    <3>2. cur_addr' \in [Threads -> Nat]
      BY <3>1 DEF TypeOK
    <3>3. pc' \in [Threads -> PcLabels]
      BY <3>1 DEF TypeOK, PcLabels
    <3>4. TypeOK'
      BY <1>11, <2>1, <2>2, <2>3, <2>4, <2>5, <3>1, <3>2, <3>3
      DEF TypeOK, LockRelease, ThreadTypeOK
    <3>5. pc[t] = "release"
      BY <1>11 DEF LockRelease
    <3>6. PositionOK'
      BY <2>6, <3>1, <3>5 DEF PositionOK, TypeOK
    <3>. QED
      BY <3>4, <3>6
  <2>7. CASE ~ (cur_addr[t] + 1 < LineEnd(acc[t]))
    <3>1. /\ cur_addr' = [cur_addr EXCEPT ![t] = 0]
          /\ base_addr' = [base_addr EXCEPT ![t] = 0]
          /\ acc' = [acc EXCEPT ![t] = NoAccess]
          /\ tempN' = [tempN EXCEPT ![t] = 0]
          /\ pc' = [pc EXCEPT ![t] = "idle"]
      BY <1>11, <2>7 DEF LockRelease
    <3>2. cur_addr' \in [Threads -> Nat]
      BY <3>1 DEF TypeOK
    <3>3. base_addr' \in [Threads -> Nat]
      BY <3>1 DEF TypeOK
    <3>4. tempN' \in [Threads -> Nat]
      BY <3>1 DEF TypeOK
    <3>5. acc' \in [Threads -> Accesses \cup {NoAccess}]
      BY <3>1 DEF TypeOK
    <3>6. pc' \in [Threads -> PcLabels]
      BY <3>1 DEF TypeOK, PcLabels
    <3>7. TypeOK'
      BY <1>11, <2>1, <2>2, <2>3, <2>4, <2>5, <3>2, <3>3, <3>4, <3>5, <3>6
      DEF TypeOK, LockRelease, ThreadTypeOK
    <3>8. PositionOK'
      BY <3>1 DEF PositionOK, TypeOK
    <3>. QED
      BY <3>7, <3>8
  <2>. QED
    BY <2>6, <2>7
<1>12. ASSUME Fini PROVE TypeInv'
  <2>1. col' \in [line : Lines, iter : Threads \cup {NIL}, thd_count : Nat]
    <3>1. 0 \in Lines
      BY RecorderAssumption DEF Lines
    <3>. QED
      BY <1>12, <3>1 DEF TypeOK, Fini, FirstStamp, StampLists
  <2>2. TypeOK'
    BY <1>12, <2>1 DEF TypeOK, Fini, ThreadTypeOK
  <2>3. PositionOK'
    BY <1>12 DEF PositionOK, Fini
  <2>. QED
    BY <2>2, <2>3
<1>13. ASSUME CollectStamp PROVE TypeInv'
  <2>1. col.iter \in Threads /\ col.line \in Lines /\ col.thd_count \in Nat
    BY <1>13 DEF TypeOK, CollectStamp
  <2>2. stamps[col.line] \in StampLists
    BY <2>1 DEF TypeOK
  <2>3. N - stamps[col.line].latest[col.iter] \in Int
    BY <2>1, <2>2 DEF TypeOK, StampLists
  <2>4. wcount' \in [Levels -> [Buckets -> Int]]
    <3>. DEFINE k == col.thd_count
                d == N - stamps[col.line].latest[col.iter]
                b == sublog_value_to_index(d)
    <3>1. wcount' = [wcount EXCEPT ![k][b] = @ + 1]
      BY <1>13 DEF CollectStamp
    <3>2. wcount \in [Levels -> [Buckets -> Int]]
      BY DEF TypeOK
    <3>3. 1 \in Int
      OBVIOUS
    <3>. HIDE DEF k, b, d
    <3>. QED
      BY <3>1, <3>2, <3>3, CountType
  <2>5. wcount_i' \in [Levels -> [Buckets -> Int]]
    <3>. DEFINE k == col.thd_count
                d == N - stamps[col.line].latest[col.iter]
                b == sublog_value_to_index(d)
    <3>1. wcount_i' = [wcount_i EXCEPT ![k][b] = @ + d]
      BY <1>13 DEF CollectStamp
    <3>2. wcount_i \in [Levels -> [Buckets -> Int]]
      BY DEF TypeOK
    <3>3. d \in Int
      BY <2>3
    <3>. HIDE DEF k, b, d
    <3>. QED
      BY <3>1, <3>2, <3>3, CountType
  <2>6. stamps[col.line].next[col.iter] \in Threads \cup {NIL}
    BY <2>1, <2>2 DEF StampLists
  <2>7. col' \in [line : Lines, iter : Threads \cup {NIL}, thd_count : Nat]
    <3>. DEFINE n == stamps[col.line].next[col.iter]
    <3>1. col' = [col EXCEPT !.iter = n, !.thd_count = @ + 1]
      BY <1>13 DEF CollectStamp
    <3>2. col \in [line : Lines, iter : Threads \cup {NIL}, thd_count : Nat]
      BY DEF TypeOK
    <3>3. n \in Threads \cup {NIL} /\ col.thd_count + 1 \in Nat
      BY <2>1, <2>6
    <3>. HIDE DEF n
    <3>. QED
      BY <3>1, <3>2, <3>3
  <2>8. TypeOK'
    BY <1>13, <2>4, <2>5, <2>7 DEF TypeOK, CollectStamp, ThreadTypeOK
  <2>9. PositionOK'
    BY <1>13 DEF PositionOK, CollectStamp
  <2>. QED
    BY <2>8, <2>9
<1>14. ASSUME CollectNext PROVE TypeInv'
  <2>1. col' \in [line : Lines, iter : Threads \cup {NIL}, thd_count : Nat]
    <3>1. CASE col.line + 1 < NumLines
      <4>1. col.line + 1 \in Lines
        BY <3>1, RecorderAssumption DEF TypeOK, Lines
      <4>2. stamps[col.line + 1].head \in Threads \cup {NIL}
        BY <4>1 DEF TypeOK, StampLists
      <4>. QED
        BY <1>14, <3>1, <4>1, <4>2 DEF CollectNext, FirstStamp
    <3>2. CASE ~ (col.line + 1 < NumLines)
      BY <1>14, <3>2 DEF TypeOK, CollectNext
    <3>. QED
      BY <3>1, <3>2
  <2>2. ThreadTypeOK'
    BY <1>14 DEF CollectNext, TypeOK, ThreadTypeOK, ThreadEnd, TlsStates
  <2>3. stage' \in {"run", "collect", "done"}
    BY <1>14 DEF CollectNext, TypeOK
  <2>4. TypeOK'
    BY <1>14, <2>1, <2>2, <2>3 DEF TypeOK, CollectNext
  <2>5. PositionOK'
    BY <1>14 DEF PositionOK, CollectNext
  <2>. QED
    BY <2>4, <2>5
<1>15. CASE UNCHANGED vars
  BY <1>15 DEF vars, TypeOK, ThreadTypeOK, PositionOK
<1>. QED
  BY <1>1, <1>2, <1>3, <1>4, <1>5, <1>6, <1>7, <1>8, <1>9, <1>10, <1>11, <1>12,
     <1>13, <1>14, <1>15
  DEF Next, Recording, Terminated

\* Every variable keeps its type, in every state of every execution.
THEOREM TypeCorrect == Spec => []TypeOK
<1>1. Spec => []TypeInv
  BY InitTypeInv, NextTypeInv, PTL DEF Spec
<1>2. TypeInv => TypeOK
  BY DEF TypeInv
<1>. QED
  BY <1>1, <1>2, PTL

-----------------------------------------------------------------------------
(***************************************************************************)
(* The inductive invariant.                                                *)
(***************************************************************************)

\* The set of a locked line is locked, and no set is locked for two lines,
\* of one thread or of two.
LockOK ==
  /\ \A t \in Threads : \A l \in Locked(t) : lock[SetIndex(l)] = 1
  /\ \A t, u \in Threads : \A l \in Locked(t), m \in Locked(u) :
       SetIndex(l) = SetIndex(m) => t = u /\ l = m

\* The stamp of a thread is not from the future, and later than all those it
\* will be compared with.
StampOf(t) ==
  /\ tempN[t] <= N
  /\ \A l \in ToProfile(t), u \in Threads : stamps[l].latest[u] < tempN[t]

StampOK ==
  /\ \A l \in Lines, u \in Threads : stamps[l].latest[u] <= N
  /\ \A t \in Threads : StampOf(t)

\* The copy of a list is the list, the walk is where its variables say and
\* ends at the thread itself or at the end of the list.
WalkOf(t) ==
  /\ pc[t] \in {"visit", "update"} =>
       /\ s[t] = stamps[cur_addr[t]]
       /\ WalkAt(s[t], t, prev[t], iter[t])
  /\ pc[t] = "visit" => thd_count[t] = Cardinality(Passed(s[t], iter[t]))
  /\ pc[t] = "update" => iter[t] \in {t, NIL}

WalkOK == \A t \in Threads : WalkOf(t)

Safe == LockOK /\ StampOK /\ ListsSorted /\ WalkOK

SafeInv == TypeInv /\ Safe
-----------------------------------------------------------------------------
(***************************************************************************)
(* Facts used by several steps.                                            *)
(***************************************************************************)

\* A thread profiles lines of the program, whose sets it holds.
LEMMA ProfileLocked ==
  ASSUME TypeInv, NEW t \in Threads
  PROVE  ToProfile(t) \subseteq Locked(t) \cap Lines
<1>1. CASE pc[t] \in {"load", "visit", "update", "release"}
  <2>1. /\ acc[t] \in Accesses /\ base_addr[t] = LineEnd(acc[t])
        /\ cur_addr[t] \in Nat
    BY <1>1 DEF TypeInv, TypeOK, PositionOK
  <2>2. LineEnd(acc[t]) \in Nat /\ LineEnd(acc[t]) <= NumLines
    BY <2>1, LineFacts
  <2>3. ToProfile(t) \subseteq cur_addr[t] .. LineEnd(acc[t]) - 1
    BY <1>1, <2>1, <2>2 DEF ToProfile
  <2>. QED
    BY <2>1, <2>2, <2>3, RecorderAssumption DEF Locked, Lines
<1>2. CASE pc[t] \notin {"load", "visit", "update", "release"}
  BY <1>2 DEF ToProfile
<1>. QED
  BY <1>1, <1>2

\* The line a thread is profiling is one it has locked.
LEMMA CurrentLocked ==
  ASSUME TypeInv, NEW t \in Threads, pc[t] \in {"load", "visit", "update", "release"}
  PROVE  cur_addr[t] \in Locked(t) /\ cur_addr[t] \in Lines
<1>1. /\ acc[t] \in Accesses /\ base_addr[t] = LineEnd(acc[t])
      /\ cur_addr[t] \in Nat /\ cur_addr[t] < LineEnd(acc[t])
  BY DEF TypeInv, TypeOK, PositionOK
<1>2. LineEnd(acc[t]) \in Nat /\ LineEnd(acc[t]) <= NumLines
  BY <1>1, LineFacts
<1>. QED
  BY <1>1, <1>2, RecorderAssumption DEF Locked, Lines

\* No two threads have locked the same line.
LEMMA LockedApart ==
  ASSUME LockOK, NEW t \in Threads, NEW u \in Threads, t # u
  PROVE  Locked(t) \cap Locked(u) = {}
BY DEF LockOK

\* What a step that leaves the variables of an invariant alone preserves.
LEMMA LockFrame ==
  LockOK /\ UNCHANGED <<lock, base_addr, cur_addr>> => LockOK'
BY DEF LockOK, Locked

\* A step that stores no list keeps them sorted.
LEMMA ListsFrame == ListsSorted /\ UNCHANGED stamps => ListsSorted'
BY DEF ListsSorted

\* A step of t leaves the walks of the others alone.
LEMMA WalkFrame ==
  ASSUME WalkOK, UNCHANGED stamps, NEW t \in Threads,
         \A u \in Threads \ {t} :
           /\ pc'[u] = pc[u] /\ cur_addr'[u] = cur_addr[u]
           /\ s'[u] = s[u] /\ iter'[u] = iter[u]
           /\ prev'[u] = prev[u] /\ thd_count'[u] = thd_count[u]
  PROVE  \A u \in Threads \ {t} : WalkOf(u)'
BY DEF WalkOK, WalkOf

\* A step of t that stores no list and takes no stamp leaves the order alone.
LEMMA StampFrame ==
  ASSUME StampOK, UNCHANGED <<stamps, N>>, NEW t \in Threads,
         \A u \in Threads \ {t} :
           /\ pc'[u] = pc[u] /\ cur_addr'[u] = cur_addr[u]
           /\ acc'[u] = acc[u] /\ tempN'[u] = tempN[u]
  PROVE  /\ \A l \in Lines, u \in Threads : stamps'[l].latest[u] <= N'
         /\ \A u \in Threads \ {t} : StampOf(u)'
<1>1. \A u \in Threads \ {t} : ToProfile(u)' = ToProfile(u)
  BY DEF ToProfile
<1>. QED
  BY <1>1 DEF StampOK, StampOf

\* Steps that touch neither the table nor any thread's place in RecordMem.
LEMMA QuietFrame ==
  Safe /\ UNCHANGED <<tableVars, pc, accessVars, walkVars>> => Safe'
<1>. SUFFICES ASSUME Safe, UNCHANGED <<tableVars, pc, accessVars, walkVars>>
              PROVE  Safe'
  OBVIOUS
<1>. USE DEF Safe, tableVars, accessVars, walkVars
<1>1. LockOK'
  BY LockFrame
<1>2. StampOK'
  BY DEF StampOK, StampOf, ToProfile
<1>3. ListsSorted'
  BY ListsFrame
<1>4. WalkOK'
  BY DEF WalkOK, WalkOf
<1>. QED
  BY <1>1, <1>2, <1>3, <1>4

\* The invariant holds initially.
LEMMA InitSafe == Init => Safe
<1>. SUFFICES ASSUME Init PROVE Safe
  OBVIOUS
<1>1. LockOK
  BY DEF Init, LockOK, Locked
<1>2. StampOK
  BY DEF Init, StampOK, StampOf, ToProfile, EmptyStamps
<1>3. ListsSorted
  BY EmptySorted DEF Init, ListsSorted
<1>4. WalkOK
  BY DEF Init, WalkOK, WalkOf
<1>. QED
  BY <1>1, <1>2, <1>3, <1>4 DEF Safe
-----------------------------------------------------------------------------
(***************************************************************************)
(* The steps of RecordMem.                                                 *)
(***************************************************************************)

\* The begin of an access keeps it.
LEMMA RecordMemSafe ==
  ASSUME SafeInv, NEW t \in Threads, RecordMem(t)
  PROVE  Safe'
<1>. USE DEF SafeInv, Safe, threadVars, tableVars, countVars, walkVars, finiVars
<1>1. PICK a \in Accesses : /\ acc' = [acc EXCEPT ![t] = a]
                            /\ base_addr' = [base_addr EXCEPT ![t] = LineBase(a)]
                            /\ cur_addr' = [cur_addr EXCEPT ![t] = LineBase(a)]
  BY DEF RecordMem
<1>2. /\ pc' = [pc EXCEPT ![t] = "acquire"]
      /\ UNCHANGED <<lock, stamps, N, tempN, s, iter, prev, thd_count>>
  BY DEF RecordMem
<1>3. LockOK'
  <2>1. LineBase(a) \in Nat
    BY LineFacts
  <2>2. Locked(t)' = {}
    BY <1>1, <2>1 DEF Locked, TypeInv, TypeOK
  <2>3. \A u \in Threads \ {t} : Locked(u)' = Locked(u)
    BY <1>1 DEF Locked, TypeInv, TypeOK
  <2>. QED
    BY <1>2, <2>2, <2>3 DEF LockOK
<1>4. StampOK'
  <2>1. ToProfile(t)' = {}
    BY <1>2 DEF ToProfile, TypeInv, TypeOK
  <2>2. tempN'[t] <= N'
    BY <1>2 DEF StampOK, StampOf
  <2>3. StampOf(t)'
    BY <2>1, <2>2 DEF StampOf
  <2>. QED
    BY <1>1, <1>2, <2>3, StampFrame DEF StampOK, TypeInv, TypeOK
<1>5. ListsSorted'
  BY <1>2, ListsFrame
<1>6. WalkOK'
  <2>1. WalkOf(t)'
    BY <1>2 DEF WalkOf, TypeInv, TypeOK
  <2>. QED
    BY <1>1, <1>2, <2>1, WalkFrame DEF WalkOK, TypeInv, TypeOK
<1>. QED
  BY <1>3, <1>4, <1>5, <1>6

\* Taking the lock of a line keeps it: the set was free.
LEMMA LockAcquireSafe ==
  ASSUME SafeInv, NEW t \in Threads, LockAcquire(t)
  PROVE  Safe'
<1>. USE DEF SafeInv, Safe, threadVars, countVars, walkVars, finiVars
<1>. DEFINE b == base_addr[t]
<1>1. /\ pc[t] = "acquire"
      /\ lock[SetIndex(b)] = 0
      /\ lock' = [lock EXCEPT ![SetIndex(b)] = 1]
      /\ base_addr' = [base_addr EXCEPT ![t] = b + 1]
      /\ UNCHANGED <<stamps, N, pc, acc, cur_addr, tempN, s, iter, prev, thd_count>>
  BY DEF LockAcquire, Waiting, Unlocked
<1>2. b \in Nat /\ SetIndex(b) \in Sets /\ cur_addr[t] \in Nat /\ cur_addr[t] <= b
  BY <1>1, SetIndexType DEF TypeInv, TypeOK, PositionOK
<1>3. LockOK'
  <2>1. Locked(t)' = Locked(t) \cup {b}
    BY <1>1, <1>2 DEF Locked, TypeInv, TypeOK
  <2>2. \A u \in Threads \ {t} : Locked(u)' = Locked(u)
    BY <1>1 DEF Locked, TypeInv, TypeOK
  <2>3. \A u \in Threads : \A l \in Locked(u) : SetIndex(l) # SetIndex(b)
    BY <1>1 DEF LockOK
  <2>4. lock'[SetIndex(b)] = 1
    BY <1>1, <1>2 DEF TypeInv, TypeOK
  <2>5. \A u \in Threads : \A l \in Locked(u) : lock'[SetIndex(l)] = 1
    BY <1>1, <2>3 DEF LockOK, TypeInv, TypeOK
  <2>6. \A u \in Threads : \A l \in Locked(u)' : lock'[SetIndex(l)] = 1
    BY <2>1, <2>2, <2>4, <2>5
  <2>7. \A u, v \in Threads : \A l \in Locked(u)', m \in Locked(v)' :
          SetIndex(l) = SetIndex(m) => u = v /\ l = m
    BY <2>1, <2>2, <2>3 DEF LockOK
  <2>. QED
    BY <2>6, <2>7 DEF LockOK
<1>4. StampOK'
  BY <1>1 DEF StampOK, StampOf, ToProfile
<1>5. ListsSorted'
  BY <1>1, ListsFrame
<1>6. WalkOK'
  BY <1>1 DEF WalkOK, WalkOf
<1>. QED
  BY <1>3, <1>4, <1>5, <1>6

\* Taking a stamp keeps it: the new stamp is later than all others.
LEMMA ReserveStampSafe ==
  ASSUME SafeInv, NEW t \in Threads, ReserveStamp(t)
  PROVE  Safe'
<1>. USE DEF SafeInv, Safe, threadVars, countVars, walkVars, finiVars
<1>1. /\ pc[t] = "acquire"
      /\ N' = N + 1
      /\ tempN' = [tempN EXCEPT ![t] = N + 1]
      /\ pc' = [pc EXCEPT ![t] = "load"]
      /\ UNCHANGED <<lock, stamps, acc, base_addr, cur_addr, s, iter, prev, thd_count>>
  BY DEF ReserveStamp
<1>2. N \in Nat /\ tempN \in [Threads -> Nat] /\ stamps \in [Lines -> StampLists]
  BY DEF TypeInv, TypeOK
<1>3. LockOK'
  BY <1>1, LockFrame
<1>4. StampOK'
  <2>1. \A l \in Lines, u \in Threads :
          stamps'[l].latest[u] <= N' /\ stamps'[l].latest[u] < N'
    BY <1>1, <1>2 DEF StampOK, StampLists
  <2>2. StampOf(t)'
    <3>1. tempN'[t] = N'
      BY <1>1, <1>2
    <3>2. ToProfile(t)' \subseteq Lines
      <4>1. pc'[t] = "load" /\ cur_addr'[t] = cur_addr[t] /\ acc'[t] = acc[t]
        BY <1>1 DEF TypeInv, TypeOK
      <4>2. ToProfile(t)' = cur_addr[t] .. LineEnd(acc[t]) - 1
        BY <4>1 DEF ToProfile
      <4>3. acc[t] \in Accesses /\ cur_addr[t] \in Nat
        BY <1>1 DEF TypeInv, TypeOK, PositionOK
      <4>4. LineEnd(acc[t]) \in Nat /\ LineEnd(acc[t]) <= NumLines
        BY <4>3, LineFacts
      <4>. QED
        BY <4>2, <4>3, <4>4, RecorderAssumption DEF Lines
    <3>3. tempN'[t] <= N'
      BY <1>1, <1>2, <3>1
    <3>4. \A l \in ToProfile(t)', u \in Threads : stamps'[l].latest[u] < tempN'[t]
      BY <2>1, <3>1, <3>2
    <3>. QED
      BY <3>3, <3>4 DEF StampOf
  <2>3. ASSUME NEW u \in Threads \ {t} PROVE StampOf(u)'
    <3>1. ToProfile(u)' = ToProfile(u) /\ tempN'[u] = tempN[u]
      BY <1>1, <1>2 DEF ToProfile, TypeInv, TypeOK
    <3>2. tempN[u] <= N'
      BY <1>1, <1>2 DEF StampOK, StampOf
    <3>. QED
      BY <1>1, <3>1, <3>2 DEF StampOK, StampOf
  <2>. QED
    BY <2>1, <2>2, <2>3 DEF StampOK
<1>5. ListsSorted'
  BY <1>1, ListsFrame
<1>6. WalkOK'
  <2>1. WalkOf(t)'
    BY <1>1 DEF WalkOf, TypeInv, TypeOK
  <2>. QED
    BY <1>1, <2>1, WalkFrame DEF WalkOK, TypeInv, TypeOK
<1>. QED
  BY <1>3, <1>4, <1>5, <1>6

\* SfpImpl's walk: only the copy, the walk and the counts change.
LEMMA LoadStampsSafe ==
  ASSUME SafeInv, NEW t \in Threads, LoadStamps(t)
  PROVE  Safe'
<1>. USE DEF SafeInv, Safe, threadVars, tableVars, countVars, accessVars, finiVars
<1>. DEFINE list == stamps[cur_addr[t]]
<1>1. /\ pc[t] = "load"
      /\ s' = [s EXCEPT ![t] = list]
      /\ iter' = [iter EXCEPT ![t] = list.head]
      /\ prev' = [prev EXCEPT ![t] = NIL]
      /\ thd_count' = [thd_count EXCEPT ![t] = 0]
      /\ pc' = [pc EXCEPT ![t] = "visit"]
      /\ UNCHANGED <<lock, stamps, N, acc, base_addr, cur_addr, tempN>>
  BY DEF LoadStamps
<1>2. LockOK'
  BY <1>1, LockFrame
<1>3. StampOK'
  <2>1. ToProfile(t)' = ToProfile(t)
    BY <1>1 DEF ToProfile, TypeInv, TypeOK
  <2>2. StampOf(t)'
    BY <1>1, <2>1 DEF StampOK, StampOf
  <2>. QED
    BY <1>1, <2>2, StampFrame DEF StampOK, TypeInv, TypeOK
<1>4. ListsSorted'
  BY <1>1, ListsFrame
<1>5. WalkOK'
  <2>1. cur_addr[t] \in Lines
    BY <1>1, CurrentLocked
  <2>2. list \in StampLists /\ MostRecentFirst(list)
    BY <2>1 DEF ListsSorted, TypeInv, TypeOK
  <2>3. /\ pc'[t] = "visit" /\ s'[t] = list /\ iter'[t] = list.head
        /\ prev'[t] = NIL /\ thd_count'[t] = 0
        /\ stamps'[cur_addr'[t]] = list
    BY <1>1 DEF TypeInv, TypeOK
  <2>4. WalkAt(list, t, NIL, list.head)
    BY DEF WalkAt
  <2>5. Cardinality(Passed(list, list.head)) = 0
    BY <2>2, PassedAtHead, FS_EmptySet
  <2>6. WalkOf(t)'
    BY <2>3, <2>4, <2>5 DEF WalkOf
  <2>. QED
    BY <1>1, <2>6, WalkFrame DEF WalkOK, TypeInv, TypeOK
<1>. QED
  BY <1>2, <1>3, <1>4, <1>5

\* A step of the walk keeps it.
LEMMA PassStampSafe ==
  ASSUME SafeInv, NEW t \in Threads, PassStamp(t)
  PROVE  Safe'
<1>. USE DEF SafeInv, Safe, threadVars, tableVars, accessVars, finiVars
<1>. DEFINE i == iter[t]
<1>1. /\ pc[t] = "visit" /\ i # NIL /\ i # t
      /\ prev' = [prev EXCEPT ![t] = i]
      /\ thd_count' = [thd_count EXCEPT ![t] = @ + 1]
      /\ iter' = [iter EXCEPT ![t] = s[t].next[i]]
      /\ UNCHANGED <<lock, stamps, N, pc, acc, base_addr, cur_addr, tempN, s>>
  BY DEF PassStamp
<1>2. LockOK'
  BY <1>1, LockFrame
<1>3. StampOK'
  BY <1>1 DEF StampOK, StampOf, ToProfile
<1>4. ListsSorted'
  BY <1>1, ListsFrame
<1>5. WalkOK'
  <2>1. cur_addr[t] \in Lines
    BY <1>1, CurrentLocked
  <2>2. /\ s[t] = stamps[cur_addr[t]]
        /\ WalkAt(s[t], t, prev[t], i)
        /\ thd_count[t] = Cardinality(Passed(s[t], i))
    BY <1>1 DEF WalkOK, WalkOf
  <2>3. s[t] \in StampLists /\ MostRecentFirst(s[t])
    BY <2>1, <2>2 DEF ListsSorted, TypeInv, TypeOK
  <2>4. i \in Threads /\ prev[t] \in Threads \cup {NIL}
    BY <1>1 DEF TypeInv, TypeOK
  <2>5. WalkAt(s[t], t, i, s[t].next[i])
    BY <1>1, <2>2, <2>3, <2>4, WalkPasses
  <2>6. s[t].latest[i] > 0
    BY <1>1, <2>5 DEF WalkAt
  <2>7. Cardinality(Passed(s[t], s[t].next[i])) = thd_count[t] + 1
    BY <2>2, <2>3, <2>4, <2>6, PassedCount
  <2>8. /\ pc'[t] = "visit" /\ s'[t] = s[t] /\ iter'[t] = s[t].next[i]
        /\ prev'[t] = i /\ thd_count'[t] = thd_count[t] + 1
        /\ stamps'[cur_addr'[t]] = stamps[cur_addr[t]]
    BY <1>1 DEF TypeInv, TypeOK
  <2>9. WalkOf(t)'
    BY <2>2, <2>5, <2>7, <2>8 DEF WalkOf
  <2>. QED
    BY <1>1, <2>9, WalkFrame DEF WalkOK, TypeInv, TypeOK
<1>. QED
  BY <1>2, <1>3, <1>4, <1>5

\* The walk ends, at the thread itself or at the end of the list.
LEMMA WalkEndSafe ==
  ASSUME SafeInv, NEW t \in Threads, MeetOwnStamp(t) \/ FirstAccess(t)
  PROVE  Safe'
<1>. USE DEF SafeInv, Safe, threadVars, tableVars, accessVars, walkVars, finiVars
<1>1. /\ pc[t] = "visit" /\ iter[t] \in {t, NIL}
      /\ pc' = [pc EXCEPT ![t] = "update"]
      /\ UNCHANGED <<lock, stamps, N, acc, base_addr, cur_addr, tempN,
                     s, iter, prev, thd_count>>
  BY DEF MeetOwnStamp, FirstAccess
<1>2. LockOK'
  BY <1>1, LockFrame
<1>3. StampOK'
  <2>1. ToProfile(t)' = ToProfile(t)
    BY <1>1 DEF ToProfile, TypeInv, TypeOK
  <2>2. StampOf(t)'
    BY <1>1, <2>1 DEF StampOK, StampOf
  <2>. QED
    BY <1>1, <2>2, StampFrame DEF StampOK, TypeInv, TypeOK
<1>4. ListsSorted'
  BY <1>1, ListsFrame
<1>5. WalkOK'
  <2>1. pc'[t] = "update"
    BY <1>1 DEF TypeInv, TypeOK
  <2>2. WalkOf(t)'
    BY <1>1, <2>1 DEF WalkOK, WalkOf
  <2>. QED
    BY <1>1, <2>2, WalkFrame DEF WalkOK, TypeInv, TypeOK
<1>. QED
  BY <1>2, <1>3, <1>4, <1>5

\* Storing the list of a line keeps it: no other thread has a copy of the list.
LEMMA StoreStampsSafe ==
  ASSUME SafeInv, NEW t \in Threads, StoreStamps(t)
  PROVE  Safe'
<1>. USE DEF SafeInv, Safe, threadVars, countVars, accessVars, walkVars, finiVars
<1>. DEFINE c == cur_addr[t]
            moved == MovedToFront(s[t], t, tempN[t], prev[t])
<1>1. /\ pc[t] = "update"
      /\ stamps' = [stamps EXCEPT ![c] = moved]
      /\ pc' = [pc EXCEPT ![t] = "release"]
      /\ UNCHANGED <<lock, N, acc, base_addr, cur_addr, tempN, s, iter, prev, thd_count>>
  BY DEF StoreStamps
<1>2. c \in Lines /\ c \in Locked(t)
  BY <1>1, CurrentLocked
<1>3. /\ s[t] = stamps[c]
      /\ WalkAt(s[t], t, prev[t], iter[t])
      /\ iter[t] \in {t, NIL}
  BY <1>1 DEF WalkOK, WalkOf
<1>4. s[t] \in StampLists /\ MostRecentFirst(s[t])
  BY <1>2, <1>3 DEF ListsSorted, TypeInv, TypeOK
<1>5. c \in ToProfile(t)
  <2>1. /\ acc[t] \in Accesses /\ c \in Nat /\ c < LineEnd(acc[t])
    BY <1>1 DEF TypeInv, TypeOK, PositionOK
  <2>2. LineEnd(acc[t]) \in Nat
    BY <2>1, LineFacts
  <2>. QED
    BY <1>1, <2>1, <2>2 DEF ToProfile
<1>6. \A u \in Threads : s[t].latest[u] < tempN[t]
  BY <1>3, <1>5 DEF StampOK, StampOf
<1>7. \A u \in Threads \ {t} : c \notin Locked(u)
  BY <1>2, LockedApart
<1>8. moved.latest = [s[t].latest EXCEPT ![t] = tempN[t]]
  BY DEF MovedToFront
<1>9. /\ stamps'[c] = moved
      /\ \A l \in Lines \ {c} : stamps'[l] = stamps[l]
  BY <1>1, <1>2 DEF TypeInv, TypeOK
<1>10. LockOK'
  BY <1>1, LockFrame
<1>11. StampOK'
  <2>1. N \in Nat /\ tempN[t] \in Nat /\ tempN[t] <= N
    BY DEF StampOK, StampOf, TypeInv, TypeOK
  <2>2. \A u \in Threads : moved.latest[u] <= N
    BY <1>2, <1>3, <1>4, <1>8, <2>1 DEF StampOK, StampLists
  <2>3. \A l \in Lines, u \in Threads : stamps'[l].latest[u] <= N'
    BY <1>1, <1>9, <2>2 DEF StampOK
  <2>4. StampOf(t)'
    <3>1. /\ acc[t] \in Accesses /\ c \in Nat
      BY <1>1 DEF TypeInv, TypeOK, PositionOK
    <3>2. LineEnd(acc[t]) \in Nat
      BY <3>1, LineFacts
    <3>3. pc'[t] = "release" /\ cur_addr'[t] = c /\ acc'[t] = acc[t]
      BY <1>1 DEF TypeInv, TypeOK
    <3>4. ToProfile(t)' = c + 1 .. LineEnd(acc[t]) - 1
      BY <3>3 DEF ToProfile
    <3>5. ToProfile(t) = c .. LineEnd(acc[t]) - 1
      BY <1>1 DEF ToProfile
    <3>6. ToProfile(t)' \subseteq ToProfile(t) \ {c}
      BY <3>1, <3>2, <3>4, <3>5
    <3>7. ToProfile(t) \subseteq Lines
      BY ProfileLocked
    <3>. QED
      BY <1>1, <1>9, <3>6, <3>7 DEF StampOK, StampOf
  <2>5. ASSUME NEW u \in Threads \ {t} PROVE StampOf(u)'
    <3>1. ToProfile(u)' = ToProfile(u)
      BY <1>1 DEF ToProfile, TypeInv, TypeOK
    <3>2. ToProfile(u) \subseteq Lines \ {c}
      BY <1>7, ProfileLocked
    <3>. QED
      BY <1>1, <1>9, <3>1, <3>2 DEF StampOK, StampOf
  <2>. QED
    BY <2>3, <2>4, <2>5 DEF StampOK
<1>12. ListsSorted'
  <2>1. tempN[t] \in Nat /\ prev[t] \in Threads \cup {NIL}
    BY DEF TypeInv, TypeOK
  <2>2. MostRecentFirst(moved)
    BY <1>3, <1>4, <1>6, <2>1, MoveSorted
  <2>. QED
    BY <1>9, <2>2 DEF ListsSorted
<1>13. WalkOK'
  <2>1. ASSUME NEW u \in Threads \ {t} PROVE WalkOf(u)'
    <3>1. pc'[u] = pc[u]
      BY <1>1 DEF TypeInv, TypeOK
    <3>2. CASE pc[u] \in {"visit", "update"}
      <4>1. cur_addr[u] \in Lines /\ cur_addr[u] \in Locked(u)
        BY <3>2, CurrentLocked
      <4>2. stamps'[cur_addr[u]] = stamps[cur_addr[u]]
        BY <1>7, <1>9, <4>1
      <4>. QED
        BY <1>1, <3>1, <4>2 DEF WalkOK, WalkOf
    <3>3. CASE pc[u] \notin {"visit", "update"}
      BY <3>1, <3>3 DEF WalkOf
    <3>. QED
      BY <3>2, <3>3
  <2>2. WalkOf(t)'
    BY <1>1 DEF WalkOf, TypeInv, TypeOK
  <2>. QED
    BY <2>1, <2>2 DEF WalkOK
<1>. QED
  BY <1>10, <1>11, <1>12, <1>13

\* Releasing a lock keeps it.
LEMMA LockReleaseSafe ==
  ASSUME SafeInv, NEW t \in Threads, LockRelease(t)
  PROVE  Safe'
<1>. USE DEF SafeInv, Safe, threadVars, countVars, finiVars
<1>. DEFINE c == cur_addr[t]
<1>1. /\ pc[t] = "release"
      /\ lock' = [lock EXCEPT ![SetIndex(c)] = 0]
      /\ UNCHANGED <<stamps, N>>
  BY DEF LockRelease, lock_release
<1>2. /\ acc[t] \in Accesses /\ base_addr[t] = LineEnd(acc[t])
      /\ c \in Nat /\ c < LineEnd(acc[t]) /\ LineEnd(acc[t]) \in Nat
  BY <1>1, LineFacts DEF TypeInv, TypeOK, PositionOK
<1>3. \A u \in Threads \ {t} :
        /\ pc'[u] = pc[u] /\ acc'[u] = acc[u]
        /\ base_addr'[u] = base_addr[u] /\ cur_addr'[u] = cur_addr[u]
        /\ tempN'[u] = tempN[u] /\ s'[u] = s[u] /\ iter'[u] = iter[u]
        /\ prev'[u] = prev[u] /\ thd_count'[u] = thd_count[u]
  <2>1. CASE c + 1 < LineEnd(acc[t])
    BY <2>1 DEF LockRelease, TypeInv, TypeOK
  <2>2. CASE ~ (c + 1 < LineEnd(acc[t]))
    BY <2>2 DEF LockRelease, TypeInv, TypeOK
  <2>. QED
    BY <2>1, <2>2
<1>4. \/ /\ c + 1 < LineEnd(acc[t])
         /\ cur_addr'[t] = c + 1 /\ pc'[t] = "load"
         /\ acc'[t] = acc[t] /\ base_addr'[t] = base_addr[t] /\ tempN'[t] = tempN[t]
      \/ /\ ~ (c + 1 < LineEnd(acc[t]))
         /\ cur_addr'[t] = 0 /\ pc'[t] = "idle" /\ base_addr'[t] = 0 /\ tempN'[t] = 0
  BY DEF LockRelease, TypeInv, TypeOK
<1>5. c \in Locked(t)
  BY <1>1, CurrentLocked
<1>6. LockOK'
  <2>1. Locked(t)' \subseteq Locked(t) \ {c}
    BY <1>2, <1>4 DEF Locked
  <2>2. \A u \in Threads \ {t} : Locked(u)' = Locked(u)
    BY <1>3 DEF Locked
  <2>3. \A u \in Threads : \A l \in Locked(u)' : l \in Locked(u) /\ (u = t => l # c)
    BY <2>1, <2>2
  <2>4. \A u \in Threads : \A l \in Locked(u)' : SetIndex(l) # SetIndex(c)
    BY <1>5, <2>3 DEF LockOK
  <2>5. \A u \in Threads : \A l \in Locked(u)' : lock'[SetIndex(l)] = 1
    BY <1>1, <2>3, <2>4 DEF LockOK, TypeInv, TypeOK
  <2>. QED
    BY <2>3, <2>5 DEF LockOK
<1>7. StampOK'
  <2>1. StampOf(t)'
    <3>1. ToProfile(t) = c + 1 .. LineEnd(acc[t]) - 1
      BY <1>1 DEF ToProfile
    <3>2. CASE c + 1 < LineEnd(acc[t])
      <4>1. ToProfile(t)' = ToProfile(t) /\ tempN'[t] = tempN[t]
        BY <1>4, <3>1, <3>2 DEF ToProfile
      <4>. QED
        BY <1>1, <4>1 DEF StampOK, StampOf
    <3>3. CASE ~ (c + 1 < LineEnd(acc[t]))
      <4>1. ToProfile(t)' = {} /\ tempN'[t] = 0
        BY <1>4, <3>3 DEF ToProfile
      <4>2. N' \in Nat
        BY <1>1 DEF TypeInv, TypeOK
      <4>. QED
        BY <4>1, <4>2 DEF StampOf
    <3>. QED
      BY <3>2, <3>3
  <2>. QED
    BY <1>1, <1>3, <2>1, StampFrame DEF StampOK
<1>8. ListsSorted'
  BY <1>1, ListsFrame
<1>9. WalkOK'
  <2>1. WalkOf(t)'
    BY <1>4 DEF WalkOf
  <2>. QED
    BY <1>1, <1>3, <2>1, WalkFrame DEF WalkOK
<1>. QED
  BY <1>6, <1>7, <1>8, <1>9
-----------------------------------------------------------------------------
(***************************************************************************)
(* The theorems.                                                           *)
(***************************************************************************)

\* Every step keeps the invariant.
LEMMA NextSafeInv == SafeInv /\ [Next]_vars => SafeInv'
<1>. SUFFICES ASSUME SafeInv, [Next]_vars PROVE SafeInv'
  OBVIOUS
<1>1. TypeInv'
  BY NextTypeInv DEF SafeInv
<1>2. ASSUME NEW t \in Threads, Lifecycle(t) PROVE Safe'
  BY <1>2, QuietFrame DEF Lifecycle, SafeInv
<1>3. ASSUME NEW t \in Threads, Recording(t) PROVE Safe'
  <2>1. CASE LockSpin(t)
    BY <2>1, QuietFrame DEF LockSpin, vars, tableVars, SafeInv
  <2>. QED
    BY <1>3, <2>1, LockAcquireSafe, ReserveStampSafe, LoadStampsSafe, PassStampSafe,
       WalkEndSafe, StoreStampsSafe, LockReleaseSafe
    DEF Recording
<1>4. ASSUME Fini \/ CollectStamp \/ CollectNext PROVE Safe'
  BY <1>4, QuietFrame DEF Fini, CollectStamp, CollectNext, SafeInv
<1>5. ASSUME UNCHANGED vars PROVE Safe'
  BY <1>5, QuietFrame DEF vars, SafeInv
<1>6. Safe'
  BY <1>2, <1>3, <1>4, <1>5, RecordMemSafe DEF Next, Terminated
<1>. QED
  BY <1>1, <1>6 DEF SafeInv

\* The invariant holds in every state.
LEMMA Safety == Spec => []SafeInv
<1>1. Init => SafeInv
  BY InitTypeInv, InitSafe DEF SafeInv
<1>. QED
  BY <1>1, NextSafeInv, PTL DEF Spec

\* No two threads hold a lock of the stamp table at the same time.
THEOREM MutualExclusion == Spec => []LocksExclusive
<1>1. SafeInv => LocksExclusive
  BY DEF SafeInv, Safe, LockOK, LocksExclusive, Held
<1>. QED
  BY <1>1, Safety, PTL

\* The distances between stamps that the recorder computes are never negative.
THEOREM StampOrder == Spec => []StampsInOrder
<1>1. SafeInv => StampsInOrder
  BY DEF SafeInv, Safe, StampOK, StampOf, StampsInOrder
<1>. QED
  BY <1>1, Safety, PTL

\* The list of every line stays sorted, acyclic and complete.
THEOREM SortedLists == Spec => []ListsSorted
<1>1. SafeInv => ListsSorted
  BY DEF SafeInv, Safe
<1>. QED
  BY <1>1, Safety, PTL

\* In these states the walks count the sharers.
LEMMA SafeCounts == SafeInv => WalkCountsSharers
<1>. SUFFICES ASSUME SafeInv, NEW t \in Threads, pc[t] = "visit"
              PROVE  /\ thd_count[t] = Cardinality(Passed(s[t], iter[t]))
                     /\ t \notin Passed(s[t], iter[t])
  BY DEF WalkCountsSharers
<1>1. cur_addr[t] \in Lines
  BY CurrentLocked DEF SafeInv
<1>2. /\ s[t] = stamps[cur_addr[t]]
      /\ WalkAt(s[t], t, prev[t], iter[t])
      /\ thd_count[t] = Cardinality(Passed(s[t], iter[t]))
  BY DEF SafeInv, Safe, WalkOK, WalkOf
<1>3. s[t] \in StampLists /\ MostRecentFirst(s[t])
  BY <1>1, <1>2 DEF SafeInv, Safe, ListsSorted, TypeInv, TypeOK
<1>4. prev[t] \in Threads \cup {NIL}
  BY DEF SafeInv, TypeInv, TypeOK
<1>. QED
  BY <1>2, <1>3, <1>4, WalkNotPassed

\* The level an interval is counted at is the number of threads that share it.
THEOREM WalkLevels == Spec => []WalkCountsSharers
BY SafeCounts, Safety, PTL

\* A step of t that stores a list stores a stamp later than all those in it.
LEMMA StoreKeepsStamps ==
  ASSUME SafeInv, NEW t \in Threads, StoreStamps(t), NEW l \in Lines, NEW u \in Threads
  PROVE  stamps'[l].latest[u] >= stamps[l].latest[u]
<1>. DEFINE c == cur_addr[t]
<1>1. /\ pc[t] = "update"
      /\ stamps' = [stamps EXCEPT ![c] = MovedToFront(s[t], t, tempN[t], prev[t])]
  BY DEF StoreStamps
<1>2. stamps \in [Lines -> StampLists] /\ tempN[t] \in Nat
  BY DEF SafeInv, TypeInv, TypeOK
<1>3. c \in Lines /\ c \in ToProfile(t) /\ s[t] = stamps[c]
  <2>1. c \in Nat /\ c < LineEnd(acc[t]) /\ acc[t] \in Accesses
    BY <1>1 DEF SafeInv, TypeInv, TypeOK, PositionOK
  <2>2. LineEnd(acc[t]) \in Nat
    BY <2>1, LineFacts
  <2>3. c \in ToProfile(t)
    BY <1>1, <2>1, <2>2 DEF ToProfile
  <2>. QED
    BY <1>1, <2>3, CurrentLocked DEF SafeInv, Safe, WalkOK, WalkOf
<1>4. stamps'[c].latest = [stamps[c].latest EXCEPT ![t] = tempN[t]]
  BY <1>1, <1>2, <1>3 DEF MovedToFront
<1>5. stamps[c].latest[t] < tempN[t]
  BY <1>3 DEF SafeInv, Safe, StampOK, StampOf
<1>6. stamps[l].latest \in [Threads -> Nat]
  BY <1>2 DEF StampLists
<1>7. CASE l = c
  BY <1>2, <1>4, <1>5, <1>6, <1>7
<1>8. CASE l # c
  BY <1>1, <1>2, <1>6, <1>8
<1>. QED
  BY <1>7, <1>8

\* No update of a list is lost.
THEOREM NoUpdateLost == Spec => NoLostUpdate
<1>. DEFINE Kept == \A l \in Lines, u \in Threads : stamps'[l].latest[u] >= stamps[l].latest[u]
<1>1. ASSUME SafeInv, [Next]_vars PROVE [Kept]_vars
  <2>1. CASE \E t \in Threads : StoreStamps(t)
    BY <1>1, <2>1, StoreKeepsStamps
  <2>2. CASE UNCHANGED stamps
    <3>1. \A l \in Lines, u \in Threads : stamps[l].latest[u] \in Nat
      BY <1>1 DEF SafeInv, TypeInv, TypeOK, StampLists
    <3>. QED
      BY <2>2, <3>1
  <2>3. (\E t \in Threads : StoreStamps(t)) \/ UNCHANGED stamps
    BY <1>1 DEF Next, Lifecycle, RecordMem, Recording, LockAcquire, LockSpin, ReserveStamp,
       LoadStamps, PassStamp, MeetOwnStamp, FirstAccess, LockRelease, Fini, CollectStamp,
       CollectNext, Terminated, vars, tableVars
  <2>. QED
    BY <2>1, <2>2, <2>3
<1>2. Spec => [][Kept]_vars
  BY <1>1, Safety, PTL DEF Spec
<1>. QED
  BY <1>2 DEF NoLostUpdate
-----------------------------------------------------------------------------
(***************************************************************************)
(* No deadlock.  The locks follow the order of the lines, which the index  *)
(* of a set wraps around: a circle of waiting threads would have to go all *)
(* around the table, and hold all of its sets.                             *)
(***************************************************************************)

\* What a thread can hold while it still waits: Span lines from its first.
Reach(Span, t) == {SetIndex(cur_addr[t] + j) : j \in 0 .. Span - 1}

\* The place of a set on the way up from set x, once around the table.
After(x, i) == IF i > x THEN i - x - 1 ELSE i - x - 1 + NumSets

\* The set of the line d lines on is d sets on, around the table.
LEMMA SetShift ==
  ASSUME NEW l \in Nat, NEW d \in Nat, d < NumSets
  PROVE  /\ SetIndex(l) \in 0 .. NumSets - 1
         /\ SetIndex(l + d) = IF SetIndex(l) + d < NumSets THEN SetIndex(l) + d
                                                          ELSE SetIndex(l) + d - NumSets
BY RecorderAssumption, ModShift DEF SetIndex

\* Waiting threads cannot hold all the sets of a large table.
LEMMA SomeSetFree ==
  ASSUME NEW Span \in Nat, NumThreads * Span < NumSets
  PROVE  \E x \in Sets : \A t \in Threads : x \notin Reach(Span, t)
<1>. DEFINE Places == Threads \X (0 .. Span - 1)
            f == [p \in Places |-> SetIndex(cur_addr[p[1]] + p[2])]
            R == {f[p] : p \in Places}
<1>1. IsFiniteSet(Threads) /\ Cardinality(Threads) = NumThreads
  BY ThreadIdAssumption, FS_Interval DEF Threads
<1>2. IsFiniteSet(0 .. Span - 1) /\ Cardinality(0 .. Span - 1) = Span
  BY FS_Interval
<1>3. IsFiniteSet(Places) /\ Cardinality(Places) = NumThreads * Span
  BY <1>1, <1>2, FS_Product
<1>4. f \in Surjection(Places, R)
  BY DEF Surjection
<1>5. IsFiniteSet(R) /\ Cardinality(R) <= Cardinality(Places)
  <2>. HIDE DEF f, R, Places
  <2>. QED
    BY <1>3, <1>4, FS_Surjection
<1>6. IsFiniteSet(Sets) /\ Cardinality(Sets) = NumSets
  BY RecorderAssumption, FS_Interval DEF Sets
<1>7. ~ (Sets \subseteq R)
  <2>. SUFFICES ASSUME Sets \subseteq R PROVE FALSE
    OBVIOUS
  <2>1. Cardinality(Sets) <= Cardinality(R) /\ Cardinality(R) \in Nat
    <3>. HIDE DEF R
    <3>. QED
      BY <1>5, FS_Subset, FS_CardinalityType
  <2>2. NumThreads * Span \in Nat
    BY ThreadIdAssumption
  <2>. HIDE DEF R, Places, f
  <2>. QED
    BY <1>3, <1>5, <1>6, <2>1, <2>2, RecorderAssumption
<1>8. PICK x \in Sets : x \notin R
  BY <1>7
<1>9. ASSUME NEW t \in Threads, x \in Reach(Span, t) PROVE FALSE
  <2>1. PICK j \in 0 .. Span - 1 : x = SetIndex(cur_addr[t] + j)
    BY <1>9 DEF Reach
  <2>2. <<t, j>> \in Places /\ f[<<t, j>>] = x
    BY <2>1
  <2>. QED
    BY <1>8, <2>2
<1>. QED
  BY <1>8, <1>9

\* On the way up from a set it does not hold, a thread waits above the sets
\* it holds.
LEMMA WaitsAbove ==
  ASSUME NEW b \in Nat, NEW c \in Nat, c < b, b - c < NumSets,
         NEW x \in Sets, \A l \in c .. b : SetIndex(l) # x
  PROVE  After(x, SetIndex(c)) < After(x, SetIndex(b))
<1>. DEFINE r == SetIndex(c)
            e == IF x >= r THEN x - r ELSE x - r + NumSets
<1>1. NumSets \in Nat \ {0} /\ x \in 0 .. NumSets - 1
  BY RecorderAssumption DEF Sets
<1>2. r \in 0 .. NumSets - 1
  BY SetIndexType DEF Sets
<1>3. e \in Nat /\ e < NumSets
  BY <1>1, <1>2
<1>4. SetIndex(c + e) = x
  <2>1. SetIndex(c + e) = IF r + e < NumSets THEN r + e ELSE r + e - NumSets
    <3>. HIDE DEF e
    <3>. QED
      BY <1>3, SetShift
  <2>. HIDE DEF r
  <2>. QED
    BY <1>1, <1>2, <2>1
<1>5. c + e > b
  <2>. HIDE DEF e
  <2>. QED
    BY <1>3, <1>4
<1>6. SetIndex(b) = IF r + (b - c) < NumSets THEN r + (b - c) ELSE r + (b - c) - NumSets
  <2>. DEFINE d == b - c
  <2>1. d \in Nat /\ d < NumSets /\ c + d = b
    OBVIOUS
  <2>. HIDE DEF d
  <2>2. SetIndex(c + d) = IF r + d < NumSets THEN r + d ELSE r + d - NumSets
    BY <2>1, SetShift
  <2>. QED
    BY <2>1, <2>2 DEF d
<1>. HIDE DEF r
<1>7. b - c < e /\ b - c > 0
  BY <1>3, <1>5
<1>. QED
  BY <1>1, <1>2, <1>6, <1>7 DEF After, r

\* Of the threads that wait for each other one waits above all the others.
LEMMA NoCycle ==
  ASSUME NEW Span \in Nat, \A a \in Accesses : LineEnd(a) - LineBase(a) <= Span + 1,
         NumThreads * Span < NumSets, TypeInv
  PROVE  NoLockCycle
<1>. SUFFICES ASSUME NEW D \in (SUBSET Threads) \ {{}},
                     \A t \in D : Waiting(t) /\ \E u \in D : SetIndex(base_addr[t]) \in Held(u)
              PROVE  FALSE
  BY DEF NoLockCycle
<1>1. PICK x \in Sets : \A t \in Threads : x \notin Reach(Span, t)
  BY SomeSetFree
<1>2. ASSUME NEW t \in D
      PROVE  /\ cur_addr[t] \in Nat /\ base_addr[t] \in Nat
             /\ cur_addr[t] <= base_addr[t] /\ base_addr[t] - cur_addr[t] <= Span
  <2>1. /\ pc[t] = "acquire" /\ base_addr[t] < LineEnd(acc[t])
    BY DEF Waiting
  <2>2. /\ cur_addr[t] \in Nat /\ base_addr[t] \in Nat
        /\ acc[t] \in Accesses /\ cur_addr[t] = LineBase(acc[t])
        /\ cur_addr[t] <= base_addr[t]
    BY <2>1 DEF TypeInv, TypeOK, PositionOK
  <2>3. LineBase(acc[t]) \in Nat /\ LineEnd(acc[t]) \in Nat
    BY <2>2, LineFacts
  <2>4. LineEnd(acc[t]) - LineBase(acc[t]) <= Span + 1
    BY <2>2
  <2>. QED
    BY <2>1, <2>2, <2>3, <2>4
<1>3. \A t \in D : Held(t) \subseteq Reach(Span, t)
  <2>. SUFFICES ASSUME NEW t \in D, NEW l \in Locked(t) PROVE SetIndex(l) \in Reach(Span, t)
    BY DEF Held
  <2>1. l - cur_addr[t] \in 0 .. Span - 1 /\ cur_addr[t] + (l - cur_addr[t]) = l
    BY <1>2 DEF Locked
  <2>. QED
    BY <2>1 DEF Reach
<1>. DEFINE Place(t) == After(x, SetIndex(base_addr[t]))
            place == [t \in D |-> Place(t)]
<1>4. NumSets \in Nat \ {0} /\ x \in 0 .. NumSets - 1
  BY RecorderAssumption DEF Sets
<1>5. ASSUME NEW t \in D PROVE Place(t) \in Int /\ Place(t) <= NumSets
  <2>1. SetIndex(base_addr[t]) \in 0 .. NumSets - 1
    BY <1>2, <1>4, SetIndexType DEF Sets
  <2>. QED
    BY <1>4, <2>1 DEF After
<1>6. PICK t \in D : \A u \in D : place[u] <= place[t]
  <2>1. place \in [D -> Int] /\ \A u \in D : place[u] <= NumSets
    BY <1>5
  <2>2. D # {} /\ NumSets \in Int
    BY <1>4
  <2>. HIDE DEF place
  <2>. QED
    BY <2>1, <2>2, GreatestValue
<1>7. PICK u \in D : \E l \in Locked(u) : SetIndex(base_addr[t]) = SetIndex(l)
  BY DEF Held
<1>. PICK l \in Locked(u) : SetIndex(base_addr[t]) = SetIndex(l)
  BY <1>7
<1>8. l \in Nat /\ cur_addr[u] <= l /\ l < base_addr[u] /\ base_addr[u] - l <= Span
  BY <1>2 DEF Locked
<1>9. Span < NumSets
  <2>1. Span <= NumThreads * Span
    BY ThreadIdAssumption
  <2>. QED
    BY <1>4, <2>1, ThreadIdAssumption
<1>10. \A m \in l .. base_addr[u] : SetIndex(m) # x
  <2>1. ASSUME NEW m \in l .. base_addr[u] - 1 PROVE SetIndex(m) # x
    <3>1. m \in Locked(u)
      BY <1>2, <1>8 DEF Locked
    <3>. QED
      BY <1>1, <1>3, <3>1 DEF Held
  <2>2. SetIndex(base_addr[u]) # x
    <3>1. PICK v \in D : SetIndex(base_addr[u]) \in Held(v)
      OBVIOUS
    <3>. QED
      BY <1>1, <1>3, <3>1
  <2>. QED
    BY <1>2, <1>8, <2>1, <2>2
<1>11. After(x, SetIndex(l)) < After(x, SetIndex(base_addr[u]))
  BY <1>2, <1>4, <1>8, <1>9, <1>10, WaitsAbove
<1>12. place[t] < place[u]
  BY <1>11
<1>. QED
  BY <1>5, <1>6, <1>12

\* Threads never wait for each other's sets in a circle, if an access spans at
\* most Span + 1 lines and the table has more than NumThreads * Span sets.  A
\* smaller table can be locked all around, and then the threads do deadlock.
THEOREM DeadlockFree ==
  ASSUME NEW Span \in Nat, \A a \in Accesses : LineEnd(a) - LineBase(a) <= Span + 1,
         NumThreads * Span < NumSets
  PROVE  Spec => []NoLockCycle
<1>1. SafeInv => NoLockCycle
  BY NoCycle DEF SafeInv
<1>. QED
  BY <1>1, Safety, PTL

-----------------------------------------------------------------------------
(***************************************************************************)
(* SfpRecorder implements RecencyTable: an access takes place at the       *)
(* moment it reserves its time stamp.  The lists it has yet to update      *)
(* then count as updated; storing a list changes nothing any more.  And    *)
(* the sharing levels it counts at are rows of its arrays.                 *)
(***************************************************************************)
\* The last access of thread t to line l, as the abstract table has it.
LastOf(l, t) == IF l \in ToProfile(t) THEN tempN[t] ELSE stamps[l].latest[t]

Last == [l \in Lines |-> [t \in Threads |-> LastOf(l, t)]]

Closed == stage # "run"

\* Only live threads record, and Fini runs when none is left.
LiveOK == /\ \A t \in Threads : pc[t] # "idle" => t \in live
          /\ Closed => live = {}

RefInv == SafeInv /\ LiveOK

\* Every step keeps that only live threads record, and that Fini ends the run.
LEMMA NextLiveOK == TypeInv /\ LiveOK /\ [Next]_vars => LiveOK'
<1>. SUFFICES ASSUME TypeInv, LiveOK, [Next]_vars PROVE LiveOK'
  OBVIOUS
<1>. USE DEF LiveOK, Closed, threadVars, finiVars
<1>1. pc \in [Threads -> PcLabels]
  BY DEF TypeInv, TypeOK
<1>2. ASSUME NEW t \in Threads, Lifecycle(t) PROVE LiveOK'
  BY <1>2 DEF Lifecycle, ThreadStart, activate, deactivate, ThreadFini
<1>3. ASSUME NEW t \in Threads, RecordMem(t) PROVE LiveOK'
  BY <1>1, <1>3 DEF RecordMem
<1>4. ASSUME NEW t \in Threads, Recording(t) PROVE LiveOK'
  <2>1. /\ pc[t] # "idle"
        /\ \A u \in Threads \ {t} : pc'[u] = pc[u]
        /\ UNCHANGED <<live, stage>>
    <3>1. CASE LockRelease(t)
      <4>1. \A u \in Threads \ {t} : pc'[u] = pc[u]
        <5>1. CASE cur_addr[t] + 1 < LineEnd(acc[t])
          BY <1>1, <3>1, <5>1 DEF LockRelease
        <5>2. CASE ~ (cur_addr[t] + 1 < LineEnd(acc[t]))
          BY <1>1, <3>1, <5>2 DEF LockRelease
        <5>. QED
          BY <5>1, <5>2
      <4>. QED
        BY <3>1, <4>1 DEF LockRelease
    <3>2. CASE LockAcquire(t) \/ LockSpin(t)
      BY <1>1, <3>2 DEF LockAcquire, LockSpin, Waiting, vars
    <3>3. CASE ReserveStamp(t) \/ LoadStamps(t) \/ StoreStamps(t)
      BY <1>1, <3>3 DEF ReserveStamp, LoadStamps, StoreStamps
    <3>4. CASE PassStamp(t) \/ MeetOwnStamp(t) \/ FirstAccess(t)
      BY <1>1, <3>4 DEF PassStamp, MeetOwnStamp, FirstAccess
    <3>. QED
      BY <1>4, <3>1, <3>2, <3>3, <3>4 DEF Recording
  <2>. QED
    BY <2>1
<1>5. CASE Fini
  BY <1>5 DEF Fini
<1>6. CASE CollectStamp \/ CollectNext
  <2>1. /\ stage # "run" /\ UNCHANGED <<live, pc>>
    BY <1>6 DEF CollectStamp, CollectNext, ThreadEnd
  <2>. QED
    BY <2>1
<1>7. CASE UNCHANGED vars
  BY <1>7 DEF vars
<1>. QED
  BY <1>2, <1>3, <1>4, <1>5, <1>6, <1>7 DEF Next, Terminated

\* What the refinement rests on holds in every state.
LEMMA RefInvariant == Spec => []RefInv
<1>1. Init => LiveOK
  BY DEF Init, ThreadInit, LiveOK, Closed
<1>2. SafeInv /\ LiveOK /\ [Next]_vars => LiveOK'
  BY NextLiveOK DEF SafeInv
<1>. QED
  BY <1>1, <1>2, Safety, PTL DEF Spec, RefInv
-----------------------------------------------------------------------------
AbstractStep == Table!Next \/ UNCHANGED <<N, Last, Closed>>

\* A step that leaves the time, the phase and every last access alone.
LEMMA Stutters ==
  ASSUME UNCHANGED <<N, stage>>,
         \A l \in Lines, u \in Threads : LastOf(l, u)' = LastOf(l, u)
  PROVE  AbstractStep
BY DEF AbstractStep, Last, Closed

\* The last accesses of threads that the step does not concern.
LEMMA LastFrame ==
  ASSUME NEW u \in Threads, NEW l \in Lines, stamps'[l].latest[u] = stamps[l].latest[u],
         pc'[u] = pc[u], cur_addr'[u] = cur_addr[u], acc'[u] = acc[u],
         tempN'[u] = tempN[u]
  PROVE  LastOf(l, u)' = LastOf(l, u)
<1>1. ToProfile(u)' = ToProfile(u)
  BY DEF ToProfile
<1>. QED
  BY <1>1 DEF LastOf

\* The access happens when it takes its stamp.
LEMMA ReserveRecords ==
  ASSUME RefInv, NEW t \in Threads, ReserveStamp(t)
  PROVE  AbstractStep
<1>. USE DEF threadVars, countVars, walkVars, finiVars
<1>. DEFINE D == LineBase(acc[t]) .. LineEnd(acc[t]) - 1
<1>1. /\ pc[t] = "acquire"
      /\ N' = N + 1
      /\ tempN' = [tempN EXCEPT ![t] = N + 1]
      /\ pc' = [pc EXCEPT ![t] = "load"]
      /\ UNCHANGED <<stamps, acc, cur_addr, stage>>
  BY DEF ReserveStamp
<1>2. stage = "run"
  <2>1. t \in live
    BY <1>1 DEF RefInv, LiveOK
  <2>. QED
    BY <2>1 DEF RefInv, LiveOK, Closed
<1>3. /\ acc[t] \in Accesses /\ cur_addr[t] = LineBase(acc[t])
      /\ pc \in [Threads -> PcLabels] /\ tempN \in [Threads -> Nat]
  BY <1>1 DEF RefInv, SafeInv, TypeInv, TypeOK, PositionOK
<1>4. D \in (SUBSET Lines) \ {{}}
  BY <1>3, LineFacts, RecorderAssumption DEF Lines
<1>5. pc'[t] = "load" /\ tempN'[t] = N + 1
  BY <1>1, <1>3
<1>6. ToProfile(t) = {}
  BY <1>1 DEF ToProfile
<1>7. ToProfile(t)' = D
  <2>1. ToProfile(t)' = cur_addr'[t] .. LineEnd(acc'[t]) - 1
    BY <1>5 DEF ToProfile
  <2>. QED
    BY <1>1, <1>3, <2>1
<1>8. \A l \in Lines : LastOf(l, t)' = IF l \in D THEN N + 1 ELSE LastOf(l, t)
  BY <1>1, <1>5, <1>6, <1>7 DEF LastOf
<1>9. \A l \in Lines, u \in Threads \ {t} : LastOf(l, u)' = LastOf(l, u)
  BY <1>1, <1>3, LastFrame
<1>10. Last' = [l \in Lines |-> IF l \in D THEN [Last[l] EXCEPT ![t] = N + 1] ELSE Last[l]]
  <2>1. Last' = [l \in Lines |-> [u \in Threads |-> LastOf(l, u)']]
    BY DEF Last
  <2>2. ASSUME NEW l \in Lines
        PROVE  [u \in Threads |-> LastOf(l, u)'] =
                 IF l \in D THEN [Last[l] EXCEPT ![t] = N + 1] ELSE Last[l]
    <3>1. Last[l] = [u \in Threads |-> LastOf(l, u)]
      BY DEF Last
    <3>2. CASE l \in D
      <4>1. \A u \in Threads : LastOf(l, u)' = IF u = t THEN N + 1 ELSE LastOf(l, u)
        BY <1>8, <1>9, <3>2
      <4>. QED
        BY <3>1, <3>2, <4>1
    <3>3. CASE l \notin D
      <4>1. \A u \in Threads : LastOf(l, u)' = LastOf(l, u)
        BY <1>8, <1>9, <3>3
      <4>. QED
        BY <3>1, <3>3, <4>1
    <3>. QED
      BY <3>2, <3>3
  <2>. QED
    BY <2>1, <2>2
<1>. HIDE DEF D
<1>11. PICK E \in (SUBSET Lines) \ {{}} : E = D
  BY <1>4
<1>12. Table!Record(t, E)
  <2>1. stage = "run" /\ N' = N + 1 /\ UNCHANGED (stage # "run")
    BY <1>1, <1>2
  <2>. QED
    BY <1>10, <1>11, <2>1, Zenon DEF Table!Record, Last, LastOf
<1>. QED
  BY <1>12 DEF AbstractStep, Table!Next

\* A stored list is one that already counted as updated.
LEMMA StoreStutters ==
  ASSUME RefInv, NEW t \in Threads, StoreStamps(t)
  PROVE  AbstractStep
<1>. USE DEF countVars, accessVars, walkVars, finiVars
<1>. DEFINE c == cur_addr[t]
<1>1. /\ pc[t] = "update"
      /\ stamps' = [stamps EXCEPT ![c] = MovedToFront(s[t], t, tempN[t], prev[t])]
      /\ pc' = [pc EXCEPT ![t] = "release"]
      /\ UNCHANGED <<N, acc, base_addr, cur_addr, tempN, stage>>
  BY DEF StoreStamps
<1>2. /\ c \in Nat /\ c < LineEnd(acc[t]) /\ acc[t] \in Accesses
      /\ pc \in [Threads -> PcLabels] /\ stamps \in [Lines -> StampLists]
  BY <1>1 DEF RefInv, SafeInv, TypeInv, TypeOK, PositionOK
<1>3. LineEnd(acc[t]) \in Nat
  BY <1>2, LineFacts
<1>4. c \in Lines /\ s[t] = stamps[c]
  BY <1>1, CurrentLocked DEF RefInv, SafeInv, Safe, WalkOK, WalkOf
<1>5. stamps'[c].latest = [stamps[c].latest EXCEPT ![t] = tempN[t]]
  BY <1>1, <1>2, <1>4 DEF MovedToFront
<1>6. /\ stamps'[c].latest[t] = tempN[t]
      /\ \A u \in Threads \ {t} : stamps'[c].latest[u] = stamps[c].latest[u]
      /\ \A l \in Lines \ {c} : stamps'[l] = stamps[l]
  BY <1>1, <1>2, <1>4, <1>5 DEF StampLists
<1>7. ToProfile(t) = c .. LineEnd(acc[t]) - 1
  BY <1>1 DEF ToProfile
<1>8. pc'[t] = "release"
  BY <1>1, <1>2
<1>9. ToProfile(t)' = c + 1 .. LineEnd(acc[t]) - 1
  BY <1>1, <1>8 DEF ToProfile
<1>10. ToProfile(t) = ToProfile(t)' \cup {c} /\ c \notin ToProfile(t)'
  BY <1>2, <1>3, <1>7, <1>9
<1>11. \A l \in Lines : LastOf(l, t)' = LastOf(l, t)
  BY <1>1, <1>6, <1>10 DEF LastOf
<1>12. \A l \in Lines, u \in Threads \ {t} : LastOf(l, u)' = LastOf(l, u)
  <2>1. ASSUME NEW l \in Lines, NEW u \in Threads \ {t} PROVE LastOf(l, u)' = LastOf(l, u)
    <3>1. stamps'[l].latest[u] = stamps[l].latest[u]
      BY <1>6
    <3>. QED
      BY <1>1, <1>2, <3>1, LastFrame
  <2>. QED
    BY <2>1
<1>. QED
  BY <1>1, <1>11, <1>12, Stutters

\* The other steps of a thread leave its last accesses alone.
LEMMA ReleaseStutters ==
  ASSUME RefInv, NEW t \in Threads, LockRelease(t)
  PROVE  AbstractStep
<1>. USE DEF countVars, finiVars
<1>. DEFINE c == cur_addr[t]
<1>1. pc[t] = "release" /\ UNCHANGED <<stamps, N, stage>>
  BY DEF LockRelease
<1>2. /\ pc \in [Threads -> PcLabels] /\ cur_addr \in [Threads -> Nat]
      /\ tempN \in [Threads -> Nat] /\ acc \in [Threads -> Accesses \cup {NoAccess}]
      /\ acc[t] \in Accesses
  BY <1>1 DEF RefInv, SafeInv, TypeInv, TypeOK, PositionOK
<1>3. LineEnd(acc[t]) \in Nat
  BY <1>2, LineFacts
<1>4. ToProfile(t) = c + 1 .. LineEnd(acc[t]) - 1
  BY <1>1 DEF ToProfile
<1>5. CASE c + 1 < LineEnd(acc[t])
  <2>1. /\ cur_addr' = [cur_addr EXCEPT ![t] = @ + 1]
        /\ pc' = [pc EXCEPT ![t] = "load"]
        /\ UNCHANGED <<acc, tempN>>
    BY <1>5 DEF LockRelease
  <2>2. pc'[t] = "load" /\ cur_addr'[t] = c + 1
    BY <1>2, <2>1
  <2>3. ToProfile(t)' = ToProfile(t)
    BY <1>4, <2>1, <2>2 DEF ToProfile
  <2>4. \A l \in Lines : LastOf(l, t)' = LastOf(l, t)
    BY <1>1, <2>1, <2>3 DEF LastOf
  <2>5. \A l \in Lines, u \in Threads \ {t} : LastOf(l, u)' = LastOf(l, u)
    BY <1>1, <1>2, <2>1, LastFrame
  <2>. QED
    BY <1>1, <2>4, <2>5, Stutters
<1>6. CASE ~ (c + 1 < LineEnd(acc[t]))
  <2>1. /\ cur_addr' = [cur_addr EXCEPT ![t] = 0]
        /\ acc' = [acc EXCEPT ![t] = NoAccess]
        /\ tempN' = [tempN EXCEPT ![t] = 0]
        /\ pc' = [pc EXCEPT ![t] = "idle"]
    BY <1>6 DEF LockRelease
  <2>2. pc'[t] = "idle"
    BY <1>2, <2>1
  <2>3. ToProfile(t)' = {}
    BY <2>2 DEF ToProfile
  <2>4. ToProfile(t) = {}
    BY <1>2, <1>3, <1>4, <1>6
  <2>5. \A l \in Lines : LastOf(l, t)' = LastOf(l, t)
    BY <1>1, <2>3, <2>4 DEF LastOf
  <2>6. \A l \in Lines, u \in Threads \ {t} : LastOf(l, u)' = LastOf(l, u)
    BY <1>1, <1>2, <2>1, LastFrame
  <2>. QED
    BY <1>1, <2>5, <2>6, Stutters
<1>. QED
  BY <1>5, <1>6

\* A step of the walk changes nothing of the abstract table.
LEMMA WalkStutters ==
  ASSUME RefInv, NEW t \in Threads,
         LoadStamps(t) \/ PassStamp(t) \/ MeetOwnStamp(t) \/ FirstAccess(t)
  PROVE  AbstractStep
<1>. USE DEF tableVars, accessVars, finiVars
<1>1. pc \in [Threads -> PcLabels]
  BY DEF RefInv, SafeInv, TypeInv, TypeOK
<1>2. /\ UNCHANGED <<stamps, N, acc, cur_addr, tempN, stage>>
      /\ pc[t] \in {"load", "visit"} /\ pc'[t] \in {"visit", "update"}
      /\ \A u \in Threads \ {t} : pc'[u] = pc[u]
  <2>1. CASE LoadStamps(t)
    BY <1>1, <2>1 DEF LoadStamps
  <2>2. CASE PassStamp(t)
    BY <1>1, <2>2 DEF PassStamp
  <2>3. CASE MeetOwnStamp(t)
    BY <1>1, <2>3 DEF MeetOwnStamp
  <2>4. CASE FirstAccess(t)
    BY <1>1, <2>4 DEF FirstAccess
  <2>. QED
    BY <2>1, <2>2, <2>3, <2>4
<1>3. ToProfile(t)' = ToProfile(t)
  BY <1>2 DEF ToProfile
<1>4. \A l \in Lines : LastOf(l, t)' = LastOf(l, t)
  BY <1>2, <1>3 DEF LastOf
<1>5. \A l \in Lines, u \in Threads \ {t} : LastOf(l, u)' = LastOf(l, u)
  BY <1>2, LastFrame
<1>. QED
  BY <1>2, <1>4, <1>5, Stutters

\* RecordMem is entered.
LEMMA EntryStutters ==
  ASSUME RefInv, NEW t \in Threads, RecordMem(t)
  PROVE  AbstractStep
<1>. USE DEF tableVars, finiVars
<1>1. /\ pc[t] = "idle" /\ pc' = [pc EXCEPT ![t] = "acquire"]
      /\ UNCHANGED <<stamps, N, tempN, stage>>
  BY DEF RecordMem
<1>2. /\ pc \in [Threads -> PcLabels] /\ cur_addr \in [Threads -> Nat]
      /\ acc \in [Threads -> Accesses \cup {NoAccess}]
  BY DEF RefInv, SafeInv, TypeInv, TypeOK
<1>3. \A u \in Threads \ {t} : /\ pc'[u] = pc[u] /\ acc'[u] = acc[u]
                               /\ cur_addr'[u] = cur_addr[u]
  BY <1>2 DEF RecordMem
<1>4. ToProfile(t) = {} /\ ToProfile(t)' = {}
  BY <1>1, <1>2 DEF ToProfile
<1>5. \A l \in Lines : LastOf(l, t)' = LastOf(l, t)
  BY <1>1, <1>4 DEF LastOf
<1>6. \A l \in Lines, u \in Threads \ {t} : LastOf(l, u)' = LastOf(l, u)
  BY <1>1, <1>3, LastFrame
<1>. QED
  BY <1>1, <1>5, <1>6, Stutters

\* Steps that move no thread inside RecordMem and leave the table alone.
LEMMA QuietStutters ==
  ASSUME UNCHANGED <<stamps, N, pc, acc, cur_addr, tempN, stage>>
  PROVE  AbstractStep
<1>1. \A l \in Lines, u \in Threads : LastOf(l, u)' = LastOf(l, u)
  BY LastFrame
<1>. QED
  BY <1>1, Stutters

\* Every step is one of the abstract table, or changes nothing of it.
LEMMA NextRefines == RefInv /\ [Next]_vars => AbstractStep
<1>. SUFFICES ASSUME RefInv, [Next]_vars PROVE AbstractStep
  OBVIOUS
<1>. USE DEF tableVars, accessVars, finiVars
<1>1. ASSUME NEW t \in Threads, Lifecycle(t) PROVE AbstractStep
  BY <1>1, QuietStutters DEF Lifecycle
<1>2. ASSUME NEW t \in Threads, LockAcquire(t) \/ LockSpin(t) PROVE AbstractStep
  BY <1>2, QuietStutters DEF LockAcquire, LockSpin, vars
<1>3. ASSUME NEW t \in Threads, Recording(t) PROVE AbstractStep
  BY <1>2, <1>3, ReserveRecords, WalkStutters, StoreStutters, ReleaseStutters DEF Recording
<1>4. CASE Fini
  <2>1. /\ stage = "run" /\ stage' = "collect"
        /\ UNCHANGED <<stamps, N, pc, acc, cur_addr, tempN>>
    BY <1>4 DEF Fini
  <2>2. \A l \in Lines, u \in Threads : LastOf(l, u)' = LastOf(l, u)
    BY <2>1, LastFrame
  <2>3. Last' = Last
    BY <2>2 DEF Last
  <2>4. Table!Close
    BY <2>1, <2>3 DEF Table!Close, Last, LastOf
  <2>. QED
    BY <2>4 DEF AbstractStep, Table!Next
<1>5. CASE CollectStamp \/ CollectNext
  <2>1. /\ stage # "run" /\ stage' # "run"
        /\ UNCHANGED <<stamps, N, pc, acc, cur_addr, tempN>>
    BY <1>5 DEF CollectStamp, CollectNext
  <2>2. \A l \in Lines, u \in Threads : LastOf(l, u)' = LastOf(l, u)
    BY <2>1, LastFrame
  <2>. QED
    BY <2>1, <2>2 DEF AbstractStep, Last, Closed
<1>6. CASE UNCHANGED vars
  BY <1>6, QuietStutters DEF vars
<1>. QED
  BY <1>1, <1>3, <1>4, <1>5, <1>6, EntryStutters DEF Next, Terminated

\* The initial table is that of the abstract specification.
LEMMA InitRefines == Init => Table!Init
<1>. SUFFICES ASSUME Init PROVE Table!Init
  OBVIOUS
<1>1. N = 0 /\ stage = "run" /\ stamps = [l \in Lines |-> EmptyStamps]
  BY DEF Init
<1>2. \A t \in Threads : ToProfile(t) = {}
  BY DEF Init, ToProfile
<1>3. \A l \in Lines, t \in Threads : LastOf(l, t) = 0
  BY <1>1, <1>2 DEF LastOf, EmptyStamps
<1>4. Last = [l \in Lines |-> [t \in Threads |-> 0]]
  BY <1>3 DEF Last
<1>. QED
  BY <1>1, <1>4 DEF Table!Init, Last, LastOf

\* SfpRecorder implements RecencyTable: accesses are atomic at their stamps,
\* however many sets they lock and however their walks interleave.
THEOREM Refinement == Spec => RefinesRecencyTable
<1>1. AbstractStep => [Table!Next]_(Table!tableState)
  BY DEF AbstractStep, Table!tableState, Last, LastOf, Closed
<1>2. RefInv /\ [Next]_vars => [Table!Next]_(Table!tableState)
  BY <1>1, NextRefines
<1>. QED
  BY <1>2, InitRefines, RefInvariant, PTL DEF Spec, RefinesRecencyTable, Table!Spec
-----------------------------------------------------------------------------
(***************************************************************************)
(* The sharing levels stay within the arrays, during the walks of SfpImpl  *)
(* and during that of CollectLastAccesses.                                 *)
(***************************************************************************)

\* The walk of CollectLastAccesses counts the stamps it has passed.
CollectOK ==
  stage = "collect" =>
    /\ col.iter # NIL => stamps[col.line].latest[col.iter] > 0
    /\ col.thd_count = Cardinality(Passed(stamps[col.line], col.iter))

LevelInv == RefInv /\ CollectOK

\* There are NumThreads thread ids.
LEMMA ThreadCount == IsFiniteSet(Threads) /\ Cardinality(Threads) = NumThreads
<1>1. NumThreads \in Nat /\ NumThreads - 1 \in Int /\ ~ (0 > NumThreads - 1)
  BY ThreadIdAssumption
<1>2. /\ IsFiniteSet(0 .. NumThreads - 1)
      /\ Cardinality(0 .. NumThreads - 1) = (NumThreads - 1) - 0 + 1
  BY <1>1, FS_Interval
<1>. QED
  BY <1>1, <1>2 DEF Threads

\* There are fewer threads passed than threads, when one is not passed ...
LEMMA PassedBound ==
  ASSUME NEW list \in StampLists, NEW i, NEW t \in Threads, t \notin Passed(list, i)
  PROVE  /\ Cardinality(Passed(list, i)) \in Nat
         /\ Cardinality(Passed(list, i)) + 1 <= MAX_THREAD
<1>1. IsFiniteSet(Threads) /\ Cardinality(Threads) = NumThreads
  BY ThreadCount
<1>2. Passed(list, i) \subseteq Threads
  BY DEF Passed
<1>3. IsFiniteSet(Passed(list, i)) /\ Cardinality(Passed(list, i)) \in Nat
  BY <1>1, <1>2, FS_Subset, FS_CardinalityType
<1>4. Cardinality(Passed(list, i) \cup {t}) = Cardinality(Passed(list, i)) + 1
  BY <1>3, FS_AddElement
<1>5. Cardinality(Passed(list, i) \cup {t}) <= Cardinality(Threads)
  BY <1>1, <1>2, FS_Subset
<1>. QED
  BY <1>1, <1>3, <1>4, <1>5, ThreadIdAssumption, RecorderAssumption

\* ... and one less when two are not.
LEMMA PassedBoundTwo ==
  ASSUME NEW list \in StampLists, NEW t \in Threads, NEW i \in Threads, t # i,
         t \notin Passed(list, i)
  PROVE  Cardinality(Passed(list, i)) + 2 <= MAX_THREAD
<1>1. IsFiniteSet(Threads) /\ Cardinality(Threads) = NumThreads
  BY ThreadCount
<1>2. Passed(list, i) \subseteq Threads
  BY DEF Passed
<1>3. i \notin Passed(list, i)
  BY NilIsNoThread DEF Passed, StampLists
<1>4. IsFiniteSet(Passed(list, i)) /\ Cardinality(Passed(list, i)) \in Nat
  BY <1>1, <1>2, FS_Subset, FS_CardinalityType
<1>5. /\ IsFiniteSet(Passed(list, i) \cup {t})
      /\ Cardinality(Passed(list, i) \cup {t}) = Cardinality(Passed(list, i)) + 1
  BY <1>4, FS_AddElement
<1>6. Cardinality((Passed(list, i) \cup {t}) \cup {i}) = Cardinality(Passed(list, i)) + 2
  <2>1. Cardinality((Passed(list, i) \cup {t}) \cup {i}) = (Cardinality(Passed(list, i)) + 1) + 1
    BY <1>3, <1>5, FS_AddElement
  <2>. QED
    BY <1>4, <2>1
<1>7. Cardinality((Passed(list, i) \cup {t}) \cup {i}) <= Cardinality(Threads)
  BY <1>1, <1>2, FS_Subset
<1>. QED
  BY <1>1, <1>4, <1>6, <1>7, ThreadIdAssumption, RecorderAssumption

\* The walk of a line starts with nobody passed.
LEMMA FirstStampOK ==
  ASSUME RefInv, NEW l \in Lines
  PROVE  /\ stamps[l].head # NIL => stamps[l].latest[stamps[l].head] > 0
         /\ Cardinality(Passed(stamps[l], stamps[l].head)) = 0
<1>1. stamps[l] \in StampLists /\ MostRecentFirst(stamps[l])
  BY DEF RefInv, SafeInv, Safe, ListsSorted, TypeInv, TypeOK
<1>2. Passed(stamps[l], stamps[l].head) = {}
  BY <1>1, PassedAtHead
<1>. QED
  BY <1>1, <1>2, FS_EmptySet DEF MostRecentFirst

\* Every step keeps the count of the walk of CollectLastAccesses.
LEMMA NextCollectOK == LevelInv /\ [Next]_vars => CollectOK'
<1>. SUFFICES ASSUME LevelInv, [Next]_vars PROVE CollectOK'
  OBVIOUS
<1>. USE DEF LevelInv
<1>1. CASE Fini
  <2>1. /\ stage' = "collect" /\ UNCHANGED stamps
        /\ col' = [line |-> 0, iter |-> stamps[0].head, thd_count |-> 0]
    BY <1>1 DEF Fini, FirstStamp, tableVars
  <2>2. 0 \in Lines
    BY RecorderAssumption DEF Lines
  <2>. QED
    BY <2>1, <2>2, FirstStampOK DEF CollectOK
<1>2. CASE CollectStamp
  <2>. DEFINE list == stamps[col.line]
  <2>. DEFINE i == col.iter
  <2>1. /\ stage = "collect" /\ i # NIL /\ UNCHANGED <<stage, stamps>>
        /\ col' = [[col EXCEPT !.iter = list.next[i]] EXCEPT !.thd_count = @ + 1]
    BY <1>2 DEF CollectStamp, tableVars
  <2>2. /\ col \in [line : Lines, iter : Threads \cup {NIL}, thd_count : Nat]
        /\ stamps \in [Lines -> StampLists]
    BY DEF RefInv, SafeInv, TypeInv, TypeOK
  <2>3. /\ col'.line = col.line /\ col'.iter = list.next[i]
        /\ col'.thd_count = col.thd_count + 1
    BY <2>1, <2>2
  <2>4. i \in Threads /\ list \in StampLists /\ MostRecentFirst(list)
    BY <2>1, <2>2 DEF RefInv, SafeInv, Safe, ListsSorted
  <2>5. list.latest[i] > 0 /\ col.thd_count = Cardinality(Passed(list, i))
    BY <2>1 DEF CollectOK
  <2>6. Cardinality(Passed(list, list.next[i])) = col.thd_count + 1
    BY <2>4, <2>5, PassedCount
  <2>7. list.next[i] # NIL => list.latest[list.next[i]] > 0
    BY <2>4 DEF MostRecentFirst, Older
  <2>. QED
    BY <2>1, <2>3, <2>6, <2>7 DEF CollectOK
<1>3. CASE CollectNext
  <2>1. CASE col.line + 1 < NumLines
    <3>1. /\ UNCHANGED stamps
          /\ col' = [line |-> col.line + 1, iter |-> stamps[col.line + 1].head, thd_count |-> 0]
      BY <1>3, <2>1 DEF CollectNext, FirstStamp, tableVars
    <3>2. col.line + 1 \in Lines
      BY <2>1, RecorderAssumption DEF Lines, RefInv, SafeInv, TypeInv, TypeOK
    <3>. QED
      BY <3>1, <3>2, FirstStampOK DEF CollectOK
  <2>2. CASE ~ (col.line + 1 < NumLines)
    BY <1>3, <2>2 DEF CollectNext, CollectOK
  <2>. QED
    BY <2>1, <2>2
<1>4. ASSUME NEW t \in Threads, Lifecycle(t) \/ RecordMem(t) PROVE CollectOK'
  BY <1>4 DEF Lifecycle, RecordMem, CollectOK, finiVars
<1>5. ASSUME NEW t \in Threads, Recording(t) PROVE CollectOK'
  <2>1. pc[t] # "idle" /\ UNCHANGED stage
    BY <1>5 DEF Recording, LockAcquire, LockSpin, Waiting, ReserveStamp, LoadStamps,
       PassStamp, MeetOwnStamp, FirstAccess, StoreStamps, LockRelease, finiVars, vars
  <2>2. stage = "run"
    BY <2>1 DEF RefInv, LiveOK, Closed
  <2>. QED
    BY <2>1, <2>2 DEF CollectOK
<1>6. CASE UNCHANGED vars
  BY <1>6 DEF vars, tableVars, finiVars, CollectOK
<1>. QED
  BY <1>1, <1>2, <1>3, <1>4, <1>5, <1>6 DEF Next, Terminated

\* The counts of the walks are right in every state.
LEMMA LevelInvariant == Spec => []LevelInv
<1>1. Init => CollectOK
  BY DEF Init, CollectOK
<1>. QED
  BY <1>1, NextCollectOK, RefInvariant, PTL DEF Spec, LevelInv

\* The sharing levels stay within the arrays of the counts.
THEOREM LevelBounds == Spec => []LevelsInRange
<1>1. ASSUME LevelInv, NEW t \in Threads, pc[t] = "visit"
      PROVE  /\ thd_count[t] \in Levels
             /\ iter[t] \notin {t, NIL} => thd_count[t] + 1 \in Levels
  <2>1. s[t] \in StampLists /\ iter[t] \in Threads \cup {NIL}
    BY <1>1 DEF LevelInv, RefInv, SafeInv, TypeInv, TypeOK
  <2>2. /\ thd_count[t] = Cardinality(Passed(s[t], iter[t]))
        /\ t \notin Passed(s[t], iter[t])
    BY <1>1, SafeCounts DEF LevelInv, RefInv, WalkCountsSharers
  <2>3. thd_count[t] \in Nat /\ thd_count[t] + 1 <= MAX_THREAD
    BY <2>1, <2>2, PassedBound
  <2>4. iter[t] \notin {t, NIL} => thd_count[t] + 2 <= MAX_THREAD
    BY <2>1, <2>2, PassedBoundTwo
  <2>. QED
    BY <2>3, <2>4, RecorderAssumption DEF Levels
<1>2. ASSUME LevelInv, stage = "collect", col.iter # NIL
      PROVE  col.thd_count \in Levels
  <2>1. /\ col.line \in Lines /\ col.iter \in Threads
        /\ stamps[col.line] \in StampLists
    BY <1>2 DEF LevelInv, RefInv, SafeInv, TypeInv, TypeOK
  <2>2. col.iter \notin Passed(stamps[col.line], col.iter)
    BY <1>2, <2>1, NilIsNoThread DEF Passed, StampLists
  <2>3. col.thd_count \in Nat /\ col.thd_count + 1 <= MAX_THREAD
    BY <1>2, <2>1, <2>2, PassedBound DEF LevelInv, CollectOK
  <2>. QED
    BY <2>3, RecorderAssumption DEF Levels
<1>3. LevelInv => LevelsInRange
  BY <1>1, <1>2 DEF LevelsInRange
<1>. QED
  BY <1>3, LevelInvariant, PTL

-----------------------------------------------------------------------------
(***************************************************************************)
(* The report is exact: the numbers printed are those one would get by     *)
(* looking at every window of the trace.  First, the lists are the last    *)
(* accesses of the trace.                                                  *)
(***************************************************************************)
Busy == {"load", "visit", "update", "release"}

LinesOf(a) == LineBase(a) .. LineEnd(a) - 1

\* The access a thread is recording is that of the trace with its stamp.
CurrentOf(t) ==
  pc[t] \in Busy => /\ tempN[t] \in 1 .. N
                    /\ trace[tempN[t]] = [thread |-> t, access |-> acc[t]]
                    /\ LineBase(acc[t]) <= cur_addr[t]

\* A stamp in the list of a line is that of an access of its thread to it.
StampedBy(l, u) ==
  stamps[l].latest[u] > 0 => /\ trace[stamps[l].latest[u]].thread = u
                             /\ l \in LinesOf(trace[stamps[l].latest[u]].access)

\* An access of the trace is in the list of each of its lines, unless it is
\* the one its thread is recording and the line is yet to be profiled.
Entered(x) ==
  \A l \in LinesOf(trace[x].access) :
    LET u == trace[x].thread
    IN  x <= stamps[l].latest[u] \/ (l \in ToProfile(u) /\ x = tempN[u])

TraceOK ==
  /\ Len(trace) = N
  /\ \A t \in Threads : CurrentOf(t)
  /\ \A l \in Lines, u \in Threads : StampedBy(l, u)
  /\ \A x \in 1 .. N : Entered(x)

\* The bound on the trace.
BoundOK == N + Cardinality(Unstamped) <= MaxTrace

\* An access of the trace is one of a thread to lines of the program.
LEMMA TraceEntry ==
  ASSUME TypeInv, TraceOK, NEW x \in 1 .. N
  PROVE  /\ trace[x].thread \in Threads /\ trace[x].access \in Accesses
         /\ LinesOf(trace[x].access) \subseteq Lines
<1>. DEFINE R == [thread : Threads, access : Accesses]
<1>1. trace \in Seq(R) /\ x \in 1 .. Len(trace)
  BY DEF TypeInv, TypeOK, TraceOK
<1>2. trace[x] \in R
  <2>. HIDE DEF R
  <2>. QED
    BY <1>1
<1>3. trace[x].thread \in Threads /\ trace[x].access \in Accesses
  BY <1>2
<1>. DEFINE a == trace[x].access
<1>4. LineBase(a) \in Nat /\ LineEnd(a) \in Nat /\ LineEnd(a) <= NumLines
  BY <1>3, LineFacts
<1>. QED
  BY <1>3, <1>4, RecorderAssumption DEF LinesOf, Lines

\* A step that takes no stamp and stores no list, in which no line a thread
\* still has to profile changes.
LEMMA TraceFrame ==
  ASSUME TraceOK, UNCHANGED <<stamps, N, trace>>,
         \A t \in Threads :
           /\ ToProfile(t)' = ToProfile(t)
           /\ ToProfile(t) # {} => tempN'[t] = tempN[t]
           /\ pc'[t] \in Busy => /\ pc[t] \in Busy
                                 /\ tempN'[t] = tempN[t] /\ acc'[t] = acc[t]
                                 /\ (LineBase(acc[t]) <= cur_addr[t] => LineBase(acc[t]) <= cur_addr'[t]),
         TypeInv
  PROVE  TraceOK'
<1>1. \A t \in Threads : CurrentOf(t)'
  BY DEF TraceOK, CurrentOf
<1>2. \A l \in Lines, u \in Threads : StampedBy(l, u)'
  BY DEF TraceOK, StampedBy
<1>3. ASSUME NEW x \in 1 .. N PROVE Entered(x)'
  <2>1. trace[x].thread \in Threads
    BY <1>3, TraceEntry
  <2>2. Entered(x)
    BY DEF TraceOK
  <2>. QED
    BY <2>1, <2>2 DEF Entered
<1>. QED
  BY <1>1, <1>2, <1>3 DEF TraceOK

\* Taking a stamp appends the access to the trace.
LEMMA ReserveTrace ==
  ASSUME SafeInv, TraceOK, NEW t \in Threads, ReserveStamp(t)
  PROVE  /\ TraceOK'
         /\ \A x \in 1 .. N : trace'[x] = trace[x]
<1>1. /\ pc[t] = "acquire" /\ N' = N + 1
      /\ tempN' = [tempN EXCEPT ![t] = N + 1]
      /\ trace' = Append(trace, [thread |-> t, access |-> acc[t]])
      /\ pc' = [pc EXCEPT ![t] = "load"]
      /\ UNCHANGED <<stamps, acc, cur_addr>>
  BY DEF ReserveStamp, accessVars
<1>2. /\ trace \in Seq([thread : Threads, access : Accesses]) /\ Len(trace) = N /\ N \in Nat
      /\ tempN \in [Threads -> Nat] /\ pc \in [Threads -> PcLabels]
      /\ stamps \in [Lines -> StampLists]
  BY DEF SafeInv, TypeInv, TypeOK, TraceOK
<1>3. acc[t] \in Accesses /\ cur_addr[t] = LineBase(acc[t])
  BY <1>1 DEF SafeInv, TypeInv, PositionOK
<1>4. /\ Len(trace') = N'
      /\ \A x \in 1 .. N : trace'[x] = trace[x]
      /\ trace'[N + 1] = [thread |-> t, access |-> acc[t]]
  BY <1>1, <1>2, <1>3
<1>5. LineBase(acc[t]) \in Nat /\ LineEnd(acc[t]) \in Nat
  BY <1>3, LineFacts
<1>6. /\ ToProfile(t)' = LinesOf(acc[t])
      /\ \A u \in Threads \ {t} : ToProfile(u)' = ToProfile(u) /\ tempN'[u] = tempN[u]
      /\ tempN'[t] = N + 1
  BY <1>1, <1>2, <1>3 DEF ToProfile, LinesOf
<1>7. ASSUME NEW u \in Threads PROVE CurrentOf(u)'
  <2>1. CASE u = t
    <3>1. tempN'[t] \in 1 .. N' /\ acc'[t] = acc[t] /\ cur_addr'[t] = cur_addr[t]
      BY <1>1, <1>2, <1>6
    <3>. QED
      BY <1>3, <1>4, <1>5, <1>6, <2>1, <3>1 DEF CurrentOf
  <2>2. CASE u # t
    <3>1. pc'[u] = pc[u] /\ tempN'[u] = tempN[u] /\ acc'[u] = acc[u] /\ cur_addr'[u] = cur_addr[u]
      BY <1>1, <1>2, <2>2
    <3>2. CurrentOf(u)
      BY DEF TraceOK
    <3>3. \A x \in 1 .. N : x \in 1 .. N'
      BY <1>1, <1>2
    <3>. QED
      BY <1>4, <3>1, <3>2, <3>3 DEF CurrentOf
  <2>. QED
    BY <2>1, <2>2
<1>8. ASSUME NEW l \in Lines, NEW u \in Threads PROVE StampedBy(l, u)'
  <2>1. StampedBy(l, u) /\ stamps[l].latest[u] <= N /\ stamps[l].latest[u] \in Nat
    BY <1>2 DEF TraceOK, SafeInv, Safe, StampOK, StampLists
  <2>2. stamps[l].latest[u] > 0 => trace'[stamps[l].latest[u]] = trace[stamps[l].latest[u]]
    BY <1>2, <1>4, <2>1
  <2>. QED
    BY <1>1, <2>1, <2>2 DEF StampedBy
<1>9. ASSUME NEW x \in 1 .. N' PROVE Entered(x)'
  <2>1. CASE x = N + 1
    <3>1. trace'[x].thread = t /\ trace'[x].access = acc[t]
      BY <1>4, <2>1
    <3>. QED
      BY <1>6, <2>1, <3>1 DEF Entered
  <2>2. CASE x # N + 1
    <3>1. x \in 1 .. N /\ trace'[x] = trace[x] /\ Entered(x)
      BY <1>1, <1>2, <1>4, <2>2 DEF TraceOK
    <3>2. trace[x].thread \in Threads
      BY <3>1, TraceEntry DEF SafeInv
    <3>3. trace[x].thread = t => ToProfile(t) = {}
      BY <1>1 DEF ToProfile
    <3>. QED
      BY <1>1, <1>6, <3>1, <3>2, <3>3 DEF Entered
  <2>. QED
    BY <2>1, <2>2
<1>. QED
  BY <1>4, <1>7, <1>8, <1>9 DEF TraceOK

\* Storing the list of a line enters the access there.
LEMMA StoreTrace ==
  ASSUME SafeInv, TraceOK, NEW t \in Threads, StoreStamps(t)
  PROVE  TraceOK'
<1>. DEFINE c == cur_addr[t]
            moved == MovedToFront(s[t], t, tempN[t], prev[t])
<1>1. /\ pc[t] = "update"
      /\ stamps' = [stamps EXCEPT ![c] = moved]
      /\ pc' = [pc EXCEPT ![t] = "release"]
      /\ UNCHANGED <<N, trace, acc, cur_addr, tempN>>
  BY DEF StoreStamps, accessVars
<1>2. /\ stamps \in [Lines -> StampLists] /\ pc \in [Threads -> PcLabels]
      /\ tempN[t] \in Nat /\ c \in Nat
  BY DEF SafeInv, TypeInv, TypeOK
<1>3. c \in Lines /\ c \in Locked(t) /\ s[t] = stamps[c]
  BY <1>1, CurrentLocked DEF SafeInv, Safe, WalkOK, WalkOf
<1>4. /\ acc[t] \in Accesses /\ c < LineEnd(acc[t]) /\ LineEnd(acc[t]) \in Nat
      /\ LineBase(acc[t]) \in Nat
  BY <1>1, LineFacts DEF SafeInv, TypeInv, PositionOK
<1>5. /\ ToProfile(t) = c .. LineEnd(acc[t]) - 1
      /\ ToProfile(t)' = c + 1 .. LineEnd(acc[t]) - 1
      /\ \A u \in Threads \ {t} : ToProfile(u)' = ToProfile(u)
  BY <1>1, <1>2 DEF ToProfile
<1>6. /\ tempN[t] \in 1 .. N /\ trace[tempN[t]] = [thread |-> t, access |-> acc[t]]
      /\ LineBase(acc[t]) <= c
  BY <1>1 DEF TraceOK, CurrentOf, Busy
<1>7. /\ stamps'[c].latest = [stamps[c].latest EXCEPT ![t] = tempN[t]]
      /\ \A l \in Lines \ {c} : stamps'[l] = stamps[l]
  BY <1>1, <1>2, <1>3 DEF MovedToFront
<1>8. /\ stamps'[c].latest[t] = tempN[t] /\ stamps[c].latest[t] < tempN[t]
      /\ \A u \in Threads \ {t} : stamps'[c].latest[u] = stamps[c].latest[u]
  <2>1. stamps[c].latest \in [Threads -> Nat]
    BY <1>2, <1>3 DEF StampLists
  <2>2. c \in ToProfile(t)
    BY <1>2, <1>4, <1>5
  <2>. QED
    BY <1>7, <2>1, <2>2 DEF SafeInv, Safe, StampOK, StampOf
<1>. HIDE DEF c, moved
<1>9. ASSUME NEW u \in Threads PROVE CurrentOf(u)'
  <2>1. CurrentOf(u)
    BY DEF TraceOK
  <2>2. pc'[u] \in Busy => pc[u] \in Busy
    BY <1>1, <1>2 DEF Busy
  <2>. QED
    BY <1>1, <2>1, <2>2 DEF CurrentOf
<1>10. ASSUME NEW l \in Lines, NEW u \in Threads PROVE StampedBy(l, u)'
  <2>1. CASE l = c /\ u = t
    <3>1. c \in LinesOf(acc[t])
      BY <1>2, <1>4, <1>6 DEF LinesOf
    <3>. QED
      BY <1>1, <1>6, <1>8, <2>1, <3>1 DEF StampedBy
  <2>2. CASE ~ (l = c /\ u = t)
    <3>1. stamps'[l].latest[u] = stamps[l].latest[u]
      BY <1>7, <1>8, <2>2
    <3>2. StampedBy(l, u)
      BY DEF TraceOK
    <3>. QED
      BY <1>1, <3>1, <3>2 DEF StampedBy
  <2>. QED
    BY <2>1, <2>2
<1>11. ASSUME NEW x \in 1 .. N PROVE Entered(x)'
  <2>1. LinesOf(trace[x].access) \subseteq Lines
    BY TraceEntry DEF SafeInv
  <2>0. PICK u \in Threads : u = trace[x].thread
    BY TraceEntry DEF SafeInv
  <2>. SUFFICES ASSUME NEW l \in LinesOf(trace[x].access)
                PROVE  x <= stamps'[l].latest[u] \/ (l \in ToProfile(u)' /\ x = tempN[u])
    BY <1>1, <2>0 DEF Entered
  <2>2. x <= stamps[l].latest[u] \/ (l \in ToProfile(u) /\ x = tempN[u])
    BY <2>0 DEF TraceOK, Entered
  <2>3. CASE u # t
    <3>1. ToProfile(u)' = ToProfile(u)
      BY <1>5, <2>1, <2>3
    <3>2. stamps'[l].latest[u] = stamps[l].latest[u]
      BY <1>7, <1>8, <2>1, <2>3
    <3>. QED
      BY <2>2, <3>1, <3>2
  <2>4. CASE u = t /\ l = c
    <3>1. stamps[c].latest[t] \in Nat
      BY <1>2, <1>3 DEF StampLists
    <3>2. x <= stamps[c].latest[t] \/ x = tempN[t]
      BY <2>2, <2>4
    <3>. QED
      BY <1>2, <1>8, <2>4, <3>1, <3>2
  <2>5. CASE u = t /\ l # c
    <3>1. l \in ToProfile(t) => l \in ToProfile(t)'
      BY <1>2, <1>4, <1>5, <2>5
    <3>2. stamps'[l] = stamps[l]
      BY <1>7, <2>1, <2>5
    <3>. QED
      BY <2>2, <2>5, <3>1, <3>2
  <2>. QED
    BY <2>3, <2>4, <2>5
<1>. QED
  BY <1>1, <1>9, <1>10, <1>11 DEF TraceOK

\* Every step keeps the lists the last accesses of the trace ...
LEMMA NextTraceOK == RefInv /\ TraceOK /\ [Next]_vars => TraceOK'
<1>. SUFFICES ASSUME RefInv, TraceOK, [Next]_vars PROVE TraceOK'
  OBVIOUS
<1>. USE DEF RefInv, SafeInv
<1>1. /\ pc \in [Threads -> PcLabels] /\ tempN \in [Threads -> Nat]
      /\ cur_addr \in [Threads -> Nat] /\ acc \in [Threads -> Accesses \cup {NoAccess}]
  BY DEF TypeInv, TypeOK
<1>2. CASE UNCHANGED <<stamps, N, trace, pc, tempN, acc, cur_addr>>
  <2>1. \A t \in Threads : ToProfile(t)' = ToProfile(t)
    BY <1>2 DEF ToProfile
  <2>. QED
    BY <1>2, <2>1, TraceFrame
<1>3. ASSUME NEW t \in Threads, UNCHANGED <<stamps, N, trace, tempN>>,
             \A u \in Threads : u # t => /\ pc'[u] = pc[u] /\ acc'[u] = acc[u]
                                         /\ cur_addr'[u] = cur_addr[u],
             ToProfile(t)' = ToProfile(t),
             pc'[t] \in Busy => /\ pc[t] \in Busy /\ acc'[t] = acc[t]
                                /\ cur_addr'[t] = cur_addr[t]
      PROVE  TraceOK'
  <2>1. \A u \in Threads : ToProfile(u)' = ToProfile(u)
    BY <1>3 DEF ToProfile
  <2>. QED
    BY <1>3, <2>1, TraceFrame
<1>4. ASSUME NEW t \in Threads, Lifecycle(t) \/ LockAcquire(t) \/ PassStamp(t) PROVE TraceOK'
  BY <1>2, <1>4 DEF Lifecycle, LockAcquire, PassStamp, tableVars, accessVars
<1>5. ASSUME NEW t \in Threads, RecordMem(t) PROVE TraceOK'
  <2>1. /\ pc[t] = "idle" /\ pc'[t] = "acquire"
        /\ \A u \in Threads : u # t => /\ pc'[u] = pc[u] /\ acc'[u] = acc[u]
                                       /\ cur_addr'[u] = cur_addr[u]
        /\ UNCHANGED <<stamps, N, trace, tempN>>
    BY <1>1, <1>5 DEF RecordMem, tableVars
  <2>2. ToProfile(t)' = ToProfile(t)
    BY <2>1 DEF ToProfile
  <2>. QED
    BY <1>3, <2>1, <2>2 DEF Busy
<1>6. ASSUME NEW t \in Threads, LoadStamps(t) \/ MeetOwnStamp(t) \/ FirstAccess(t)
      PROVE  TraceOK'
  <2>1. /\ pc[t] \in {"load", "visit"} /\ pc'[t] \in {"visit", "update"}
        /\ \A u \in Threads : u # t => pc'[u] = pc[u]
        /\ UNCHANGED <<stamps, N, trace, tempN, acc, cur_addr>>
    BY <1>1, <1>6 DEF LoadStamps, MeetOwnStamp, FirstAccess, tableVars, accessVars
  <2>2. ToProfile(t)' = ToProfile(t)
    BY <2>1 DEF ToProfile
  <2>. QED
    BY <1>3, <2>1, <2>2 DEF Busy
<1>7. ASSUME NEW t \in Threads, LockRelease(t) PROVE TraceOK'
  <2>1. /\ pc[t] = "release" /\ acc[t] \in Accesses /\ cur_addr[t] \in Nat
        /\ UNCHANGED <<stamps, N, trace>>
    BY <1>1, <1>7 DEF LockRelease, TypeInv, PositionOK
  <2>2. LineEnd(acc[t]) \in Nat /\ LineBase(acc[t]) \in Nat
    BY <2>1, LineFacts
  <2>3. ToProfile(t) = cur_addr[t] + 1 .. LineEnd(acc[t]) - 1
    BY <2>1 DEF ToProfile
  <2>4. CASE cur_addr[t] + 1 < LineEnd(acc[t])
    <3>1. /\ cur_addr' = [cur_addr EXCEPT ![t] = @ + 1] /\ pc' = [pc EXCEPT ![t] = "load"]
          /\ UNCHANGED <<acc, tempN>>
      BY <1>7, <2>4 DEF LockRelease
    <3>2. /\ cur_addr'[t] = cur_addr[t] + 1 /\ pc'[t] = "load"
          /\ \A u \in Threads : u # t => cur_addr'[u] = cur_addr[u] /\ pc'[u] = pc[u]
      BY <1>1, <3>1
    <3>3. \A u \in Threads : ToProfile(u)' = ToProfile(u)
      BY <2>3, <3>1, <3>2 DEF ToProfile
    <3>. QED
      BY <2>1, <2>2, <3>1, <3>2, <3>3, TraceFrame DEF Busy
  <2>5. CASE ~ (cur_addr[t] + 1 < LineEnd(acc[t]))
    <3>1. /\ cur_addr' = [cur_addr EXCEPT ![t] = 0] /\ pc' = [pc EXCEPT ![t] = "idle"]
          /\ acc' = [acc EXCEPT ![t] = NoAccess] /\ tempN' = [tempN EXCEPT ![t] = 0]
      BY <1>7, <2>5 DEF LockRelease
    <3>2. /\ pc'[t] = "idle"
          /\ \A u \in Threads : u # t => /\ cur_addr'[u] = cur_addr[u] /\ pc'[u] = pc[u]
                                         /\ acc'[u] = acc[u] /\ tempN'[u] = tempN[u]
      BY <1>1, <3>1
    <3>3. ToProfile(t) = {}
      BY <2>1, <2>2, <2>3, <2>5
    <3>4. \A u \in Threads : ToProfile(u)' = ToProfile(u)
      BY <3>2, <3>3 DEF ToProfile
    <3>. QED
      BY <2>1, <3>2, <3>3, <3>4, TraceFrame DEF Busy
  <2>. QED
    BY <2>4, <2>5
<1>8. CASE Fini \/ CollectStamp \/ CollectNext \/ UNCHANGED vars
  BY <1>2, <1>8 DEF Fini, CollectStamp, CollectNext, vars, tableVars, accessVars
<1>. QED
  BY <1>2, <1>4, <1>5, <1>6, <1>7, <1>8, ReserveTrace, StoreTrace
     DEF Next, Recording, LockSpin, Terminated, vars, tableVars, accessVars

\* ... and the bound on the trace.
LEMMA NextBoundOK == TypeInv /\ BoundOK /\ [Next]_vars => BoundOK'
<1>. SUFFICES ASSUME TypeInv, BoundOK, [Next]_vars PROVE BoundOK'
  OBVIOUS
<1>1. pc \in [Threads -> PcLabels] /\ N \in Nat
  BY DEF TypeInv, TypeOK
<1>2. IsFiniteSet(Unstamped) /\ Cardinality(Unstamped) \in Nat
  <2>1. IsFiniteSet(Threads) /\ Unstamped \subseteq Threads
    BY ThreadCount DEF Unstamped
  <2>. QED
    BY <2>1, FS_Subset, FS_CardinalityType
<1>3. ASSUME UNCHANGED N, \A t \in Threads : pc'[t] = "acquire" <=> pc[t] = "acquire"
      PROVE  BoundOK'
  <2>1. Unstamped' = Unstamped
    BY <1>3 DEF Unstamped
  <2>. QED
    BY <1>3, <2>1 DEF BoundOK
<1>4. ASSUME NEW t \in Threads, RecordMem(t) PROVE BoundOK'
  <2>1. /\ pc[t] = "idle" /\ pc' = [pc EXCEPT ![t] = "acquire"] /\ N' = N
        /\ N + Cardinality(Unstamped) < MaxTrace
    BY <1>4 DEF RecordMem, tableVars
  <2>2. Unstamped' = Unstamped \cup {t} /\ t \notin Unstamped
    BY <1>1, <2>1 DEF Unstamped
  <2>3. Cardinality(Unstamped') = Cardinality(Unstamped) + 1
    BY <1>2, <2>2, FS_AddElement
  <2>. QED
    BY <1>1, <1>2, <2>1, <2>3, RecorderAssumption DEF BoundOK
<1>5. ASSUME NEW t \in Threads, ReserveStamp(t) PROVE BoundOK'
  <2>1. pc[t] = "acquire" /\ pc' = [pc EXCEPT ![t] = "load"] /\ N' = N + 1
    BY <1>5 DEF ReserveStamp
  <2>2. Unstamped' = Unstamped \ {t} /\ t \in Unstamped
    BY <1>1, <2>1 DEF Unstamped
  <2>3. Cardinality(Unstamped') = Cardinality(Unstamped) - 1
    BY <1>2, <2>2, FS_RemoveElement
  <2>. QED
    BY <1>1, <1>2, <2>1, <2>3 DEF BoundOK
<1>6. ASSUME NEW t \in Threads, LockRelease(t) PROVE BoundOK'
  <2>1. pc[t] = "release" /\ N' = N
    BY <1>6 DEF LockRelease
  <2>2. pc' = [pc EXCEPT ![t] = "load"] \/ pc' = [pc EXCEPT ![t] = "idle"]
    BY <1>6 DEF LockRelease
  <2>. QED
    BY <1>1, <1>3, <2>1, <2>2
<1>7. ASSUME NEW t \in Threads,
             \/ Lifecycle(t) \/ LockAcquire(t) \/ LockSpin(t) \/ LoadStamps(t) \/ PassStamp(t)
             \/ MeetOwnStamp(t) \/ FirstAccess(t) \/ StoreStamps(t)
      PROVE  BoundOK'
  <2>1. CASE Lifecycle(t) \/ LockAcquire(t) \/ LockSpin(t) \/ PassStamp(t)
    BY <1>3, <2>1 DEF Lifecycle, LockAcquire, LockSpin, PassStamp, tableVars, vars
  <2>2. CASE LoadStamps(t) \/ MeetOwnStamp(t) \/ FirstAccess(t) \/ StoreStamps(t)
    <3>1. /\ UNCHANGED N /\ pc[t] # "acquire" /\ pc'[t] # "acquire"
          /\ \A u \in Threads : u # t => pc'[u] = pc[u]
      BY <1>1, <2>2 DEF LoadStamps, MeetOwnStamp, FirstAccess, StoreStamps, tableVars
    <3>. QED
      BY <1>3, <3>1
  <2>. QED
    BY <1>7, <2>1, <2>2
<1>8. CASE Fini \/ CollectStamp \/ CollectNext \/ UNCHANGED vars
  BY <1>3, <1>8 DEF Fini, CollectStamp, CollectNext, vars, tableVars
<1>. QED
  BY <1>4, <1>5, <1>6, <1>7, <1>8 DEF Next, Recording, Terminated

-----------------------------------------------------------------------------
(***************************************************************************)
(* Windows.  At level k the windows of a line come in two kinds: those     *)
(* that begin after the (k+1)-th latest of the last accesses in its list   *)
(* have at most k sharers, as far as the list goes, and are counted        *)
(* without being looked at; of the others, those with at most k sharers    *)
(* have been counted already when that access was made or before.          *)
(***************************************************************************)
\* The lines SfpImpl goes over are those the access touches.  This is what
\* RecordMem takes for granted, and what an access that is not aligned and
\* ends in a line more than LineEnd knows of breaks.
Aligned == \A a \in Accesses : Touched(a) = LinesOf(a)

\* The windows of the trace that begin with its first r accesses and in which
\* at most k threads touch line l.
FewUpTo(l, k, ws, r) ==
  {i \in 1 .. r : i + ws - 1 <= N /\ Cardinality(Sharers(trace, l, i, ws)) <= k}

\* The sharers of a window are threads.
LEMMA SharersType ==
  ASSUME NEW tr, NEW n \in Nat, \A x \in 1 .. n : tr[x].thread \in Threads,
         NEW l, NEW i \in Nat \ {0}, NEW ws \in Nat \ {0}, i + ws - 1 <= n
  PROVE  /\ Sharers(tr, l, i, ws) \subseteq Threads
         /\ IsFiniteSet(Sharers(tr, l, i, ws)) /\ Cardinality(Sharers(tr, l, i, ws)) \in Nat
<1>1. \A x \in i .. i + ws - 1 : x \in 1 .. n
  OBVIOUS
<1>2. Sharers(tr, l, i, ws) \subseteq Threads
  BY <1>1 DEF Sharers
<1>. QED
  BY <1>2, ThreadCount, FS_Subset, FS_CardinalityType

\* A window that begins by the stamp of level k and reaches to the last
\* access of every thread has more than k sharers.
LEMMA ManySharers ==
  ASSUME Aligned, NEW tr, NEW n \in Nat,
         \A x \in 1 .. n : tr[x].thread \in Threads /\ tr[x].access \in Accesses,
         NEW list \in StampLists, NEW l,
         \A u \in Threads : list.latest[u] > 0 => /\ tr[list.latest[u]].thread = u
                                                  /\ l \in LinesOf(tr[list.latest[u]].access),
         NEW i \in Nat \ {0}, NEW ws \in Nat \ {0}, i + ws - 1 <= n,
         \A u \in Threads : list.latest[u] <= i + ws - 1,
         NEW k \in Nat, NEW r, IsRecent(list, k, r), i <= r
  PROVE  Cardinality(Sharers(tr, l, i, ws)) > k
<1>1. r \in Nat /\ r > 0 /\ Cardinality(LaterThan(list, r - 1)) > k
  BY DEF IsRecent
<1>2. ASSUME NEW u \in LaterThan(list, r - 1) PROVE u \in Sharers(tr, l, i, ws)
  <2>. DEFINE x == list.latest[u]
  <2>1. u \in Threads /\ x \in Nat /\ x > r - 1
    BY DEF LaterThan, StampLists
  <2>2. x \in i .. i + ws - 1 /\ x \in 1 .. n
    BY <1>1, <2>1
  <2>3. tr[x].thread = u /\ l \in Touched(tr[x].access)
    BY <1>1, <2>1, <2>2 DEF Aligned
  <2>. QED
    BY <2>2, <2>3 DEF Sharers
<1>3. IsFiniteSet(Sharers(tr, l, i, ws)) /\ Cardinality(Sharers(tr, l, i, ws)) \in Nat
  BY SharersType
<1>4. Cardinality(LaterThan(list, r - 1)) <= Cardinality(Sharers(tr, l, i, ws))
  BY <1>2, <1>3, FS_Subset
<1>5. Cardinality(LaterThan(list, r - 1)) \in Nat
  <2>1. r - 1 \in Int
    BY <1>1
  <2>. QED
    BY <2>1, LaterCounts
<1>. QED
  BY <1>1, <1>3, <1>4, <1>5

\* A window that begins after the stamp of level k, in a part of the trace
\* that the list has caught up with, has at most k sharers.
LEMMA FewSharers ==
  ASSUME Aligned, NEW tr, NEW n \in Nat,
         \A x \in 1 .. n : tr[x].thread \in Threads /\ tr[x].access \in Accesses,
         NEW list \in StampLists, NEW l,
         NEW i \in Nat \ {0}, NEW ws \in Nat \ {0}, i + ws - 1 <= n,
         \A x \in i .. i + ws - 1 : l \in LinesOf(tr[x].access) => x <= list.latest[tr[x].thread],
         NEW k \in Nat, NEW r, IsRecent(list, k, r), r < i
  PROVE  Cardinality(Sharers(tr, l, i, ws)) <= k
<1>1. r \in Nat /\ Cardinality(LaterThan(list, r)) <= k
  BY DEF IsRecent
<1>2. ASSUME NEW u \in Sharers(tr, l, i, ws) PROVE u \in LaterThan(list, r)
  <2>1. PICK x \in i .. i + ws - 1 : l \in Touched(tr[x].access) /\ u = tr[x].thread
    BY <1>2 DEF Sharers
  <2>2. x \in 1 .. n
    BY <2>1
  <2>3. u \in Threads /\ x <= list.latest[u]
    BY <2>1, <2>2 DEF Aligned
  <2>4. list.latest[u] > r
    BY <1>1, <2>1, <2>3 DEF StampLists
  <2>. QED
    BY <2>3, <2>4 DEF LaterThan
<1>3. IsFiniteSet(LaterThan(list, r)) /\ Cardinality(LaterThan(list, r)) \in Nat
  BY <1>1, LaterCounts
<1>4. Cardinality(Sharers(tr, l, i, ws)) <= Cardinality(LaterThan(list, r))
  BY <1>2, <1>3, FS_Subset
<1>5. Cardinality(Sharers(tr, l, i, ws)) \in Nat
  BY SharersType
<1>. QED
  BY <1>1, <1>3, <1>4, <1>5

\* The accesses of the trace are of threads, and the stamps of the lists are
\* theirs.
LEMMA TraceFacts ==
  ASSUME SafeInv, TraceOK
  PROVE  /\ N \in Nat
         /\ \A x \in 1 .. N : trace[x].thread \in Threads /\ trace[x].access \in Accesses
         /\ \A l \in Lines : stamps[l] \in StampLists
         /\ \A l \in Lines, u \in Threads :
              /\ stamps[l].latest[u] \in Nat /\ stamps[l].latest[u] <= N
              /\ stamps[l].latest[u] > 0 =>
                   /\ trace[stamps[l].latest[u]].thread = u
                   /\ l \in LinesOf(trace[stamps[l].latest[u]].access)
<1>1. N \in Nat /\ \A l \in Lines : stamps[l] \in StampLists
  BY DEF SafeInv, TypeInv, TypeOK
<1>2. \A x \in 1 .. N : trace[x].thread \in Threads /\ trace[x].access \in Accesses
  BY TraceEntry DEF SafeInv
<1>3. \A l \in Lines, u \in Threads : StampedBy(l, u) /\ stamps[l].latest[u] <= N
  BY DEF TraceOK, SafeInv, Safe, StampOK
<1>. QED
  BY <1>1, <1>2, <1>3 DEF StampedBy, StampLists

\* A set of windows is finite.
LEMMA FewType ==
  ASSUME NEW l, NEW k, NEW ws, NEW r \in Nat
  PROVE  /\ IsFiniteSet(FewUpTo(l, k, ws, r))
         /\ Cardinality(FewUpTo(l, k, ws, r)) \in Nat
<1>1. IsFiniteSet(1 .. r)
  BY FS_Interval
<1>2. FewUpTo(l, k, ws, r) \subseteq 1 .. r
  BY DEF FewUpTo
<1>. QED
  BY <1>1, <1>2, FS_Subset, FS_CardinalityType

\* The access that ends the trace ends windows that begin by the stamp of
\* level k only with more than k sharers.
LEMMA ReserveFew ==
  ASSUME Aligned, SafeInv, TraceOK, NEW t \in Threads, ReserveStamp(t),
         NEW l \in Lines, NEW k \in Nat, NEW ws \in Nat \ {0},
         NEW r, IsRecent(stamps[l], k, r)
  PROVE  FewUpTo(l, k, ws, r)' = FewUpTo(l, k, ws, r)
<1>1. N' = N + 1 /\ N \in Nat /\ UNCHANGED stamps
  BY TraceFacts DEF ReserveStamp
<1>2. TraceOK' /\ \A x \in 1 .. N : trace'[x] = trace[x]
  BY ReserveTrace
<1>3. trace' \in Seq([thread : Threads, access : Accesses]) /\ Len(trace') = N'
  <2>1. acc[t] \in Accesses
    BY DEF ReserveStamp, SafeInv, TypeInv, PositionOK
  <2>2. trace \in Seq([thread : Threads, access : Accesses])
    BY DEF SafeInv, TypeInv, TypeOK
  <2>. QED
    BY <1>2, <2>1, <2>2 DEF ReserveStamp, TraceOK
<1>4. \A x \in 1 .. N' : trace'[x].thread \in Threads /\ trace'[x].access \in Accesses
  <2>. DEFINE R == [thread : Threads, access : Accesses]
  <2>1. \A x \in 1 .. N' : trace'[x] \in R
    <3>1. trace' \in Seq(R)
      BY <1>3
    <3>. HIDE DEF R
    <3>. QED
      BY <1>3, <3>1
  <2>. QED
    BY <2>1
<1>5. stamps[l] \in StampLists /\ \A u \in Threads : stamps[l].latest[u] <= N
  BY TraceFacts
<1>6. \A u \in Threads : stamps[l].latest[u] > 0 =>
        /\ trace'[stamps[l].latest[u]].thread = u
        /\ l \in LinesOf(trace'[stamps[l].latest[u]].access)
  BY <1>1, <1>2 DEF TraceOK, StampedBy
<1>7. ASSUME NEW i \in 1 .. r, i + ws - 1 <= N
      PROVE  Sharers(trace', l, i, ws) = Sharers(trace, l, i, ws)
  <2>1. \A x \in i .. i + ws - 1 : trace'[x] = trace[x]
    BY <1>1, <1>2, <1>7
  <2>. QED
    BY <2>1 DEF Sharers
<1>8. ASSUME NEW i \in 1 .. r, i + ws - 1 = N + 1
      PROVE  ~ (Cardinality(Sharers(trace', l, i, ws)) <= k)
  <2>1. r \in Nat /\ i \in Nat \ {0} /\ i <= r /\ i + ws - 1 <= N'
    BY <1>1, <1>8 DEF IsRecent
  <2>2. \A u \in Threads : stamps[l].latest[u] <= i + ws - 1
    BY <1>1, <1>5, <1>8, TraceFacts
  <2>3. N' \in Nat
    BY <1>1
  <2>4. Cardinality(Sharers(trace', l, i, ws)) > k
    BY <1>4, <1>5, <1>6, <2>1, <2>2, <2>3, ManySharers
  <2>5. Cardinality(Sharers(trace', l, i, ws)) \in Nat
    BY <1>4, <2>1, <2>3, SharersType
  <2>. QED
    BY <2>4, <2>5
<1>9. ASSUME NEW i \in 1 .. r
      PROVE  i + ws - 1 <= N' /\ Cardinality(Sharers(trace', l, i, ws)) <= k
               <=> i + ws - 1 <= N /\ Cardinality(Sharers(trace, l, i, ws)) <= k
  <2>1. CASE i + ws - 1 <= N
    BY <1>1, <1>7, <2>1
  <2>2. CASE ~ (i + ws - 1 <= N)
    <3>1. i + ws - 1 <= N' => i + ws - 1 = N + 1
      BY <1>1, <2>2
    <3>. QED
      BY <1>8, <2>2, <3>1
  <2>. QED
    BY <2>1, <2>2
<1>. QED
  BY <1>9 DEF FewUpTo

\* The access that is entered in a list moves the stamp of level k from r to
\* q: of the windows that begin between them, those that end before the access
\* have at most k sharers, and the others more.
LEMMA StoreFew ==
  ASSUME Aligned, SafeInv, TraceOK, NEW t \in Threads, StoreStamps(t),
         NEW l \in Lines, l = cur_addr[t], NEW k \in Nat, NEW ws \in Nat \ {0},
         NEW r, IsRecent(stamps[l], k, r),
         NEW q, IsRecent(stamps'[l], k, q), r <= q, q <= tempN[t]
  PROVE  Cardinality(FewUpTo(l, k, ws, q)')
           = Cardinality(FewUpTo(l, k, ws, r))
               + (WindowsIn(tempN[t] - 1 - r, ws) - WindowsIn(tempN[t] - 1 - q, ws))
<1>. DEFINE pos == tempN[t]
            New == {i \in r + 1 .. q : i + ws - 1 <= pos - 1}
            Old == FewUpTo(l, k, ws, r)
<1>1. r \in Nat /\ q \in Nat
  BY DEF IsRecent
<1>2. /\ pc[t] = "update" /\ UNCHANGED <<N, trace>>
      /\ stamps' = [stamps EXCEPT ![l] = MovedToFront(s[t], t, pos, prev[t])]
      /\ s[t] = stamps[l]
  BY DEF StoreStamps, SafeInv, Safe, WalkOK, WalkOf
<1>3. pos \in 1 .. N /\ trace[pos] = [thread |-> t, access |-> acc[t]]
  BY <1>2 DEF TraceOK, CurrentOf, Busy
<1>4. stamps[l] \in StampLists /\ N \in Nat
  BY TraceFacts
<1>5. \A u \in Threads : stamps[l].latest[u] < pos
  <2>1. l \in ToProfile(t)
    <3>1. /\ acc[t] \in Accesses /\ l \in Nat /\ l < LineEnd(acc[t])
      BY <1>2 DEF SafeInv, TypeInv, TypeOK, PositionOK
    <3>2. LineEnd(acc[t]) \in Nat
      BY <3>1, LineFacts
    <3>. QED
      BY <1>2, <3>1, <3>2 DEF ToProfile
  <2>. QED
    BY <2>1 DEF SafeInv, Safe, StampOK, StampOf
<1>6. TraceOK' /\ stamps' \in [Lines -> StampLists]
  <2>1. TraceOK'
    BY StoreTrace
  <2>2. prev[t] \in Threads \cup {NIL} /\ pos \in Nat /\ stamps \in [Lines -> StampLists]
    BY DEF SafeInv, TypeInv, TypeOK
  <2>. QED
    BY <1>2, <1>4, <2>1, <2>2, MoveType
<1>7. /\ stamps'[l].latest = [stamps[l].latest EXCEPT ![t] = pos]
      /\ stamps'[l] \in StampLists
  BY <1>2, <1>4, <1>6 DEF MovedToFront, SafeInv, TypeInv, TypeOK
<1>8. \A u \in Threads : stamps'[l].latest[u] <= pos
  BY <1>3, <1>4, <1>5, <1>7 DEF StampLists
<1>9. \A u \in Threads : stamps'[l].latest[u] > 0 =>
        /\ trace[stamps'[l].latest[u]].thread = u
        /\ l \in LinesOf(trace[stamps'[l].latest[u]].access)
  BY <1>2, <1>6 DEF TraceOK, StampedBy
<1>. HIDE DEF pos
<1>10. ASSUME NEW i \in 1 .. q, i + ws - 1 <= N, i + ws - 1 >= pos
       PROVE  ~ (Cardinality(Sharers(trace, l, i, ws)) <= k)
  <2>1. i \in Nat \ {0} /\ i <= q
    BY <1>1
  <2>2. \A u \in Threads : stamps'[l].latest[u] <= i + ws - 1
    <3>1. \A u \in Threads : stamps'[l].latest[u] \in Nat
      BY <1>7 DEF StampLists
    <3>. QED
      BY <1>3, <1>8, <1>10, <3>1
  <2>3. Cardinality(Sharers(trace, l, i, ws)) > k
    BY <1>4, <1>7, <1>9, <1>10, <2>1, <2>2, TraceFacts, ManySharers
  <2>4. Cardinality(Sharers(trace, l, i, ws)) \in Nat
    BY <1>4, <1>10, <2>1, TraceFacts, SharersType
  <2>. QED
    BY <2>3, <2>4
<1>11. ASSUME NEW i \in r + 1 .. q, i + ws - 1 <= pos - 1
       PROVE  i + ws - 1 <= N /\ Cardinality(Sharers(trace, l, i, ws)) <= k
  <2>1. i \in Nat \ {0} /\ r < i /\ i + ws - 1 <= N
    BY <1>1, <1>3, <1>4, <1>11
  <2>2. ASSUME NEW x \in i .. i + ws - 1, l \in LinesOf(trace[x].access)
        PROVE  x <= stamps[l].latest[trace[x].thread]
    <3>1. x \in 1 .. N /\ x < pos
      BY <1>3, <1>4, <1>11, <2>1
    <3>2. PICK u \in Threads : u = trace[x].thread
      BY <3>1, TraceFacts
    <3>3. x <= stamps[l].latest[u] \/ (l \in ToProfile(u) /\ x = tempN[u])
      BY <2>2, <3>1, <3>2 DEF TraceOK, Entered
    <3>4. u # t => l \notin ToProfile(u)
      <4>1. l \in Locked(t) /\ \A v \in Threads : ToProfile(v) \subseteq Locked(v)
        BY <1>2, CurrentLocked, ProfileLocked DEF SafeInv
      <4>. QED
        BY <4>1, LockedApart DEF SafeInv, Safe
    <3>5. ~ (u = t /\ x = tempN[u])
      BY <1>3, <3>1 DEF pos
    <3>. QED
      BY <3>2, <3>3, <3>4, <3>5
  <2>3. Cardinality(Sharers(trace, l, i, ws)) <= k
    BY <1>4, <2>1, <2>2, TraceFacts, FewSharers
  <2>. QED
    BY <2>1, <2>3
<1>12. FewUpTo(l, k, ws, q) = Old \cup New
  <2>1. ASSUME NEW i \in 1 .. q
        PROVE  i + ws - 1 <= N /\ Cardinality(Sharers(trace, l, i, ws)) <= k
                 <=> i \in Old \/ i \in New
    <3>1. CASE i <= r
      BY <1>1, <3>1 DEF FewUpTo
    <3>2. CASE ~ (i <= r)
      <4>1. i \in r + 1 .. q /\ i \notin Old
        BY <1>1, <3>2 DEF FewUpTo
      <4>2. i + ws - 1 >= pos \/ i + ws - 1 <= pos - 1
        BY <1>3
      <4>. QED
        BY <1>3, <1>10, <1>11, <4>1, <4>2
    <3>. QED
      BY <3>1, <3>2
  <2>2. \A i \in Old \cup New : i \in 1 .. q
    BY <1>1 DEF FewUpTo
  <2>. HIDE DEF Old, New
  <2>. QED
    BY <2>1, <2>2 DEF FewUpTo
<1>13. Old \cap New = {}
  BY <1>1 DEF FewUpTo
<1>14. FewUpTo(l, k, ws, q)' = FewUpTo(l, k, ws, q)
  BY <1>2 DEF FewUpTo
<1>15. IsFiniteSet(Old) /\ Cardinality(Old) \in Nat
  BY <1>1, FewType
<1>16. /\ IsFiniteSet(New)
       /\ Cardinality(New) = WindowsIn(pos - 1 - r, ws) - WindowsIn(pos - 1 - q, ws)
  <2>1. PICK e \in Int : e = pos - 1
    BY <1>3
  <2>2. r \in Nat /\ q \in Nat /\ r <= q /\ e \in Int /\ ws \in Nat \ {0}
    BY <1>1
  <2>3. WindowsFrom(New, r, q, e, ws)
    BY <2>1, <2>2 DEF WindowsFrom
  <2>. HIDE DEF New
  <2>4. IsFiniteSet(New) /\ Cardinality(New) = WindowsIn(e - r, ws) - WindowsIn(e - q, ws)
    BY <2>3, WindowCount
  <2>. QED
    BY <2>1, <2>4
<1>. HIDE DEF Old, New
<1>17. Cardinality(Old \cup New) = Cardinality(Old) + Cardinality(New) - 0
  <2>1. Cardinality(Old \cap New) = 0
    BY <1>13, FS_EmptySet
  <2>. QED
    BY <1>15, <1>16, <2>1, FS_Union
<1>18. Cardinality(New) \in Nat
  BY <1>16, FS_CardinalityType
<1>19. Cardinality(FewUpTo(l, k, ws, q)') = Cardinality(Old) + Cardinality(New)
  BY <1>12, <1>14, <1>15, <1>17, <1>18
<1>. QED
  BY <1>16, <1>19 DEF Old, pos

\* Once every access is entered in the lists, the windows that are not shared
\* are those counted and those that begin after the stamp of level k.
LEMMA EndFew ==
  ASSUME Aligned, SafeInv, TraceOK, \A t \in Threads : ToProfile(t) = {},
         NEW l \in Lines, NEW k \in Nat, NEW ws \in 1 .. N,
         NEW r, IsRecent(stamps[l], k, r), r <= N
  PROVE  /\ SharedWindows(trace, l, k, ws) \in Nat
         /\ N - ws + 1 - SharedWindows(trace, l, k, ws)
              = Cardinality(FewUpTo(l, k, ws, r)) + WindowsIn(N - r, ws)
<1>. DEFINE New == {i \in r + 1 .. N : i + ws - 1 <= N}
            Old == FewUpTo(l, k, ws, r)
            All == 1 .. N - ws + 1
            Shared == {i \in All : Cardinality(Sharers(trace, l, i, ws)) > k}
<1>1. r \in Nat /\ N \in Nat /\ Len(trace) = N /\ ws \in Nat \ {0}
  BY TraceFacts DEF IsRecent, TraceOK
<1>2. stamps[l] \in StampLists
  BY TraceFacts
<1>3. ASSUME NEW i \in r + 1 .. N, i + ws - 1 <= N
      PROVE  Cardinality(Sharers(trace, l, i, ws)) <= k
  <2>1. i \in Nat \ {0} /\ r < i
    BY <1>1
  <2>2. \A x \in i .. i + ws - 1 :
          l \in LinesOf(trace[x].access) => x <= stamps[l].latest[trace[x].thread]
    <3>1. \A x \in i .. i + ws - 1 : x \in 1 .. N
      BY <1>1, <1>3, <2>1
    <3>. QED
      BY <3>1, TraceFacts DEF TraceOK, Entered
  <2>. QED
    BY <1>1, <1>2, <1>3, <2>1, <2>2, TraceFacts, FewSharers
<1>4. \A i \in All : Cardinality(Sharers(trace, l, i, ws)) \in Nat
  <2>. TAKE i \in All
  <2>1. i \in Nat \ {0} /\ i + ws - 1 <= N
    BY <1>1
  <2>. QED
    BY <1>1, <2>1, TraceFacts, SharersType
<1>5. /\ Shared \cup (Old \cup New) = All
      /\ Shared \cap (Old \cup New) = {}
      /\ Old \cap New = {}
  <2>1. \A i \in 1 .. r : i + ws - 1 <= N <=> i \in All
    BY <1>1
  <2>2. Old = {i \in 1 .. r : i \in All /\ Cardinality(Sharers(trace, l, i, ws)) <= k}
    BY <2>1 DEF FewUpTo
  <2>3. \A i \in New : i \in All /\ Cardinality(Sharers(trace, l, i, ws)) <= k
    BY <1>1, <1>3
  <2>4. \A i \in All : i \in 1 .. r \/ i \in New
    BY <1>1
  <2>5. \A i \in 1 .. r : i \notin New
    BY <1>1
  <2>6. \A i \in All : Cardinality(Sharers(trace, l, i, ws)) <= k
                         <=> ~ (Cardinality(Sharers(trace, l, i, ws)) > k)
    BY <1>4
  <2>. HIDE DEF Old, New, All
  <2>. QED
    BY <2>2, <2>3, <2>4, <2>5, <2>6
<1>6. IsFiniteSet(Old) /\ Cardinality(Old) \in Nat
  BY <1>1, FewType
<1>7. IsFiniteSet(New) /\ Cardinality(New) = WindowsIn(N - r, ws) - WindowsIn(N - N, ws)
  <2>1. WindowsFrom(New, r, N, N, ws)
    BY <1>1 DEF WindowsFrom
  <2>. HIDE DEF New
  <2>. QED
    BY <2>1, WindowCount
<1>8. WindowsIn(N - N, ws) = 0 /\ WindowsIn(N - r, ws) \in Nat
  BY <1>1 DEF WindowsIn
<1>9. IsFiniteSet(All) /\ Cardinality(All) = N - ws + 1
  <2>1. N - ws + 1 \in Int /\ 1 \in Int /\ ~ (1 > N - ws + 1)
    BY <1>1
  <2>2. IsFiniteSet(All) /\ Cardinality(All) = (N - ws + 1) - 1 + 1
    BY <2>1, FS_Interval
  <2>. QED
    BY <1>1, <2>2
<1>10. IsFiniteSet(Shared) /\ Shared \subseteq All
  <2>1. Shared \subseteq All
    OBVIOUS
  <2>. QED
    BY <1>9, <2>1, FS_Subset
<1>11. SharedWindows(trace, l, k, ws) = Cardinality(Shared)
  BY <1>1 DEF SharedWindows
<1>. HIDE DEF Old, New, All, Shared
<1>12. Cardinality(Old \cup New) = Cardinality(Old) + Cardinality(New) - 0 /\ IsFiniteSet(Old \cup New)
  <2>1. Cardinality(Old \cap New) = 0
    BY <1>5, FS_EmptySet
  <2>. QED
    BY <1>6, <1>7, <2>1, FS_Union
<1>13. Cardinality(All) = Cardinality(Shared) + Cardinality(Old \cup New) - 0
  <2>1. Cardinality(Shared \cap (Old \cup New)) = 0
    BY <1>5, FS_EmptySet
  <2>. QED
    BY <1>5, <1>10, <1>12, <2>1, FS_Union
<1>14. Cardinality(Shared) \in Nat
  BY <1>10, FS_CardinalityType
<1>15. N - ws + 1 - Cardinality(Shared) = Cardinality(Old) + WindowsIn(N - r, ws)
  BY <1>1, <1>6, <1>7, <1>8, <1>9, <1>12, <1>13, <1>14
<1>. QED
  BY <1>11, <1>14, <1>15 DEF Old

-----------------------------------------------------------------------------
(***************************************************************************)
(* The counts.  For level k and windows of ws accesses, a row of the       *)
(* histogram has the windows with at most k sharers that the lists of the  *)
(* lines account for, those that the walks under way have counted ahead of *)
(* them, and those that CollectLastAccesses has added.                     *)
(***************************************************************************)
\* What CollectLastAccesses has counted for line l.
AtFini(l, k, ws) ==
  IF /\ Closed /\ Recent(stamps[l], k) > 0
     /\ l < col.line \/ (l = col.line /\ k < col.thd_count)
  THEN WindowsIn(N - Recent(stamps[l], k), ws)
  ELSE 0

OfLine(l, k, ws) == Cardinality(FewUpTo(l, k, ws, Recent(stamps[l], k))) + AtFini(l, k, ws)

\* The windows between the stamp of level k and the access of thread t.
Since(t, k, ws) == WindowsIn(tempN[t] - 1 - Recent(s[t], k), ws)

\* What the walk of thread t has counted before it stores the list.
OfThread(t, k, ws) ==
  IF pc[t] \in {"visit", "update"}
  THEN (IF k < thd_count[t] \/ (k = thd_count[t] /\ pc[t] = "update") THEN Since(t, k, ws) ELSE 0)
       - (IF 1 <= k /\ k <= thd_count[t] THEN Since(t, k - 1, ws) ELSE 0)
  ELSE 0

LinesAt(k, ws)   == [l \in Lines |-> OfLine(l, k, ws)]
ThreadsAt(k, ws) == [t \in Threads |-> OfThread(t, k, ws)]

\* What a bucket counts for windows of ws accesses, if its intervals are no
\* shorter than they.
RowAt(k, ws) == [b \in Buckets |-> wcount_i[k][b] - (ws - 1) * wcount[k][b]]

BucketsFrom(j) == {b \in Buckets : b >= j}

RowOK(k, j) ==
  SumOf(RowAt(k, RowWindow(j)), BucketsFrom(j))
    = SumOf(LinesAt(k, RowWindow(j)), Lines) + SumOf(ThreadsAt(k, RowWindow(j)), Threads)

\* M[k] has the lines with more than k threads in their list, and those where
\* a thread is about to be one of them.
SharedLines(k) == [l \in Lines |-> IF Recent(stamps[l], k) > 0 THEN 1 ELSE 0]
FirstHere(k) ==
  [t \in Threads |-> IF pc[t] = "update" /\ iter[t] = NIL /\ thd_count[t] = k THEN 1 ELSE 0]

LinesOK(k) == M[k] = SumOf(SharedLines(k), Lines) + SumOf(FirstHere(k), Threads)

\* There is no interval as long as the trace.
ShortOK(k, b) == sublog_index_to_value(b) > N => wcount[k][b] = 0 /\ wcount_i[k][b] = 0

\* A walk that has ended still has the level it ended at.
EndedOK(t) == pc[t] = "update" => thd_count[t] = Cardinality(Passed(s[t], iter[t]))

\* CollectLastAccesses ends at the end of the last line's list.
EndOK ==
  stage = "done" =>
    /\ col.line + 1 >= NumLines
    /\ col.thd_count = Cardinality(Passed(stamps[col.line], NIL))

\* The trace is shorter than the greatest value of a word.
TraceFits == MaxTrace + 1 < 2 ^ WordBits

WindowInv ==
  /\ Aligned /\ TraceFits
  /\ LevelInv /\ TraceOK /\ BoundOK /\ EndOK
  /\ \A t \in Threads : EndedOK(t)

CountsOK ==
  /\ \A k \in Levels, j \in Nat \ {0} : RowOK(k, j)
  /\ \A k \in Levels : LinesOK(k)
  /\ \A k \in Levels, b \in Buckets : ShortOK(k, b)

CountInv == WindowInv /\ CountsOK

\* The lines, buckets and levels are finitely many.
LEMMA FiniteData ==
  /\ IsFiniteSet(Lines) /\ Lines # {}
  /\ \A j : IsFiniteSet(BucketsFrom(j))
  /\ \A k \in Levels : k \in Nat
  /\ MAX_WINDOW \in Nat
<1>1. IsFiniteSet(Lines) /\ Lines # {}
  <2>1. NumLines - 1 \in Int /\ 0 \in Int /\ 0 \in Lines
    BY RecorderAssumption DEF Lines
  <2>. QED
    BY <2>1, FS_Interval DEF Lines
<1>2. MAX_WINDOW \in Nat
  <2>1. WordBits + 1 - SublogBits \in Nat /\ SubBuckets \in Nat
    BY SublogAssumption, SubBucketsType
  <2>. QED
    BY <2>1 DEF MAX_WINDOW
<1>3. IsFiniteSet(Buckets)
  <2>1. MAX_WINDOW - 1 \in Int /\ 0 \in Int
    BY <1>2
  <2>. QED
    BY <2>1, FS_Interval DEF Buckets
<1>4. \A j : BucketsFrom(j) \subseteq Buckets
  BY DEF BucketsFrom
<1>. QED
  BY <1>1, <1>2, <1>3, <1>4, FS_Subset, RecorderAssumption DEF Levels

\* A row is one of windows of at least one access.
LEMMA WindowType == ASSUME NEW j \in Nat \ {0} PROVE RowWindow(j) \in Nat \ {0}
BY BucketValue DEF RowWindow

\* Where a walk is: at the stamp of its level.
LEMMA WalkFacts ==
  ASSUME WindowInv, NEW t \in Threads, pc[t] \in {"visit", "update"}
  PROVE  /\ cur_addr[t] \in Lines /\ s[t] = stamps[cur_addr[t]] /\ s[t] \in StampLists
         /\ stage = "run" /\ tempN[t] \in 1 .. N
         /\ \A u \in Threads : s[t].latest[u] < tempN[t]
         /\ iter[t] \in Threads \cup {NIL} /\ (iter[t] # NIL => s[t].latest[iter[t]] > 0)
         /\ thd_count[t] \in Nat /\ thd_count[t] = Cardinality(Passed(s[t], iter[t]))
         /\ t \notin Passed(s[t], iter[t])
         /\ \A k \in Nat : /\ IsRecent(s[t], k, Recent(s[t], k))
                           /\ Recent(s[t], k) \in Nat /\ Recent(s[t], k) < tempN[t]
         /\ Recent(s[t], thd_count[t]) = IF iter[t] = NIL THEN 0 ELSE s[t].latest[iter[t]]
<1>. USE DEF WindowInv, LevelInv, RefInv, SafeInv, Safe
<1>. DEFINE l == cur_addr[t]
<1>1. l \in Lines /\ s[t] = stamps[l] /\ WalkAt(s[t], t, prev[t], iter[t])
  BY CurrentLocked DEF WalkOK, WalkOf
<1>2. s[t] \in StampLists /\ MostRecentFirst(s[t])
  BY <1>1 DEF TypeInv, TypeOK, ListsSorted
<1>3. stage = "run" /\ tempN[t] \in 1 .. N
  BY DEF LiveOK, Closed, TraceOK, CurrentOf, Busy
<1>4. \A u \in Threads : s[t].latest[u] < tempN[t]
  <2>1. l \in ToProfile(t)
    <3>1. /\ acc[t] \in Accesses /\ l \in Nat /\ l < LineEnd(acc[t])
      BY DEF TypeInv, TypeOK, PositionOK
    <3>2. LineEnd(acc[t]) \in Nat
      BY <3>1, LineFacts
    <3>. QED
      BY <3>1, <3>2 DEF ToProfile
  <2>. QED
    BY <1>1, <2>1 DEF StampOK, StampOf
<1>5. iter[t] \in Threads \cup {NIL} /\ prev[t] \in Threads \cup {NIL} /\ thd_count[t] \in Nat
  BY DEF TypeInv, TypeOK
<1>6. iter[t] # NIL => s[t].latest[iter[t]] > 0
  <2>1. CASE prev[t] = NIL
    BY <1>1, <1>2, <2>1 DEF WalkAt, MostRecentFirst
  <2>2. CASE prev[t] # NIL
    BY <1>1, <1>2, <1>5, <2>2 DEF WalkAt, MostRecentFirst, Older
  <2>. QED
    BY <2>1, <2>2
<1>7. thd_count[t] = Cardinality(Passed(s[t], iter[t]))
  BY DEF WalkOK, WalkOf, EndedOK
<1>8. t \notin Passed(s[t], iter[t])
  BY <1>1, <1>2, <1>5, WalkNotPassed
<1>9. ASSUME NEW k \in Nat
      PROVE  /\ IsRecent(s[t], k, Recent(s[t], k))
             /\ Recent(s[t], k) \in Nat /\ Recent(s[t], k) < tempN[t]
  <2>1. /\ tempN[t] - 1 \in Nat /\ tempN[t] \in Nat
        /\ \A u \in Threads : s[t].latest[u] <= tempN[t] - 1
    <3>1. N \in Nat
      BY DEF TypeInv, TypeOK
    <3>. QED
      BY <1>2, <1>3, <1>4, <3>1 DEF StampLists
  <2>2. IsRecent(s[t], k, Recent(s[t], k)) /\ Recent(s[t], k) <= tempN[t] - 1
    BY <1>2, <2>1, RecentExists
  <2>3. Recent(s[t], k) \in Nat
    BY <2>2 DEF IsRecent
  <2>. QED
    BY <2>1, <2>2, <2>3
<1>10. Recent(s[t], thd_count[t]) = IF iter[t] = NIL THEN 0 ELSE s[t].latest[iter[t]]
  BY <1>2, <1>5, <1>6, <1>7, RecentAtWalk
<1>. QED
  BY <1>1, <1>2, <1>3, <1>4, <1>5, <1>6, <1>7, <1>8, <1>9, <1>10

\* The stamp of a level in the list of a line.
LEMMA LineRecent ==
  ASSUME SafeInv, NEW l \in Lines, NEW k \in Nat
  PROVE  /\ IsRecent(stamps[l], k, Recent(stamps[l], k))
         /\ Recent(stamps[l], k) \in Nat /\ Recent(stamps[l], k) <= N
<1>1. stamps[l] \in StampLists /\ N \in Nat /\ \A u \in Threads : stamps[l].latest[u] <= N
  BY DEF SafeInv, Safe, StampOK, TypeInv, TypeOK
<1>2. IsRecent(stamps[l], k, Recent(stamps[l], k)) /\ Recent(stamps[l], k) <= N
  BY <1>1, RecentExists
<1>. QED
  BY <1>2 DEF IsRecent

\* The counts are numbers.
LEMMA CountTypes ==
  ASSUME WindowInv, NEW k \in Nat, NEW ws \in Nat \ {0}
  PROVE  /\ \A l \in Lines : OfLine(l, k, ws) \in Int
         /\ \A t \in Threads : OfThread(t, k, ws) \in Int
<1>1. ASSUME NEW l \in Lines PROVE OfLine(l, k, ws) \in Int
  <2>1. Recent(stamps[l], k) \in Nat /\ N \in Nat
    BY LineRecent DEF WindowInv, LevelInv, RefInv, SafeInv, TypeInv, TypeOK
  <2>2. Cardinality(FewUpTo(l, k, ws, Recent(stamps[l], k))) \in Nat
    BY <2>1, FewType
  <2>. QED
    BY <2>1, <2>2 DEF OfLine, AtFini, WindowsIn
<1>2. ASSUME NEW t \in Threads PROVE OfThread(t, k, ws) \in Int
  <2>1. CASE pc[t] \in {"visit", "update"}
    <3>1. \A m \in Nat : Since(t, m, ws) \in Int
      BY <2>1, WalkFacts DEF Since, WindowsIn
    <3>2. 1 <= k => k - 1 \in Nat
      OBVIOUS
    <3>. QED
      BY <2>1, <3>1, <3>2 DEF OfThread
  <2>2. CASE pc[t] \notin {"visit", "update"}
    BY <2>2 DEF OfThread
  <2>. QED
    BY <2>1, <2>2
<1>. QED
  BY <1>1, <1>2

\* The equation of a row, when at most one line and one thread change.
LEMMA RowStep ==
  ASSUME WindowInv, NEW k \in Levels, NEW j \in Nat \ {0}, RowOK(k, j),
         NEW ws, ws = RowWindow(j),
         NEW l \in Lines, NEW x \in Int,
         \A m \in Lines : OfLine(m, k, ws)' = IF m = l THEN OfLine(m, k, ws) + x ELSE OfLine(m, k, ws),
         NEW t \in Threads, NEW y \in Int,
         \A u \in Threads : OfThread(u, k, ws)' = IF u = t THEN OfThread(u, k, ws) + y
                                                           ELSE OfThread(u, k, ws),
         SumOf(RowAt(k, ws)', BucketsFrom(j)) = SumOf(RowAt(k, ws), BucketsFrom(j)) + x + y
  PROVE  RowOK(k, j)'
<1>1. PICK F : F = LinesAt(k, ws)
  OBVIOUS
<1>2. PICK G : G = LinesAt(k, ws)'
  OBVIOUS
<1>3. PICK P : P = ThreadsAt(k, ws)
  OBVIOUS
<1>4. PICK Q : Q = ThreadsAt(k, ws)'
  OBVIOUS
<1>5. k \in Nat /\ ws \in Nat \ {0}
  BY FiniteData, WindowType
<1>6. /\ \A m \in Lines : F[m] \in Int /\ G[m] = IF m = l THEN F[m] + x ELSE F[m]
      /\ \A u \in Threads : P[u] \in Int /\ Q[u] = IF u = t THEN P[u] + y ELSE P[u]
  BY <1>1, <1>2, <1>3, <1>4, <1>5, CountTypes DEF LinesAt, ThreadsAt
<1>7. IsFiniteSet(Lines) /\ IsFiniteSet(Threads)
  BY FiniteData, ThreadCount
<1>8. /\ SumOf(F, Lines) \in Int /\ SumOf(P, Threads) \in Int
      /\ SumOf(G, Lines) + SumOf(Q, Threads) = (SumOf(F, Lines) + SumOf(P, Threads)) + x + y
  <2>1. SumOf(G, Lines) = SumOf(F, Lines) + x
    BY <1>6, <1>7, SumChange
  <2>2. SumOf(Q, Threads) = SumOf(P, Threads) + y
    BY <1>6, <1>7, SumChange
  <2>3. SumOf(F, Lines) \in Int /\ SumOf(P, Threads) \in Int
    BY <1>6, <1>7, SumType
  <2>. QED
    BY <2>1, <2>2, <2>3
<1>9. SumOf(RowAt(k, ws), BucketsFrom(j)) = SumOf(F, Lines) + SumOf(P, Threads)
  BY <1>1, <1>3 DEF RowOK
<1>10. SumOf(RowAt(k, ws)', BucketsFrom(j)) = SumOf(G, Lines) + SumOf(Q, Threads)
  BY <1>8, <1>9
<1>11. SumOf(RowAt(k, RowWindow(j))', BucketsFrom(j))
         = SumOf(LinesAt(k, RowWindow(j))', Lines) + SumOf(ThreadsAt(k, RowWindow(j))', Threads)
  BY <1>2, <1>4, <1>10
<1>. QED
  BY <1>11 DEF RowOK

\* The equation of the lines, likewise.
LEMMA LinesStep ==
  ASSUME NEW k \in Levels, LinesOK(k),
         NEW l \in Lines, NEW x \in Int,
         \A m \in Lines : SharedLines(k)'[m] = IF m = l THEN SharedLines(k)[m] + x
                                                        ELSE SharedLines(k)[m],
         NEW t \in Threads, NEW y \in Int,
         \A u \in Threads : FirstHere(k)'[u] = IF u = t THEN FirstHere(k)[u] + y
                                                        ELSE FirstHere(k)[u],
         M'[k] = M[k] + x + y
  PROVE  LinesOK(k)'
<1>1. PICK F : F = SharedLines(k)
  OBVIOUS
<1>2. PICK G : G = SharedLines(k)'
  OBVIOUS
<1>3. PICK P : P = FirstHere(k)
  OBVIOUS
<1>4. PICK Q : Q = FirstHere(k)'
  OBVIOUS
<1>6. /\ \A m \in Lines : F[m] \in Int /\ G[m] = IF m = l THEN F[m] + x ELSE F[m]
      /\ \A u \in Threads : P[u] \in Int /\ Q[u] = IF u = t THEN P[u] + y ELSE P[u]
  <2>1. \A m \in Lines : F[m] \in Int
    BY <1>1 DEF SharedLines
  <2>2. \A u \in Threads : P[u] \in Int
    BY <1>3 DEF FirstHere
  <2>. QED
    BY <1>1, <1>2, <1>3, <1>4, <2>1, <2>2
<1>7. IsFiniteSet(Lines) /\ IsFiniteSet(Threads)
  BY FiniteData, ThreadCount
<1>8. /\ SumOf(F, Lines) \in Int /\ SumOf(P, Threads) \in Int
      /\ SumOf(G, Lines) + SumOf(Q, Threads) = (SumOf(F, Lines) + SumOf(P, Threads)) + x + y
  <2>1. SumOf(G, Lines) = SumOf(F, Lines) + x
    BY <1>6, <1>7, SumChange
  <2>2. SumOf(Q, Threads) = SumOf(P, Threads) + y
    BY <1>6, <1>7, SumChange
  <2>3. SumOf(F, Lines) \in Int /\ SumOf(P, Threads) \in Int
    BY <1>6, <1>7, SumType
  <2>. QED
    BY <2>1, <2>2, <2>3
<1>9. M[k] = SumOf(F, Lines) + SumOf(P, Threads)
  BY <1>1, <1>3 DEF LinesOK
<1>10. M'[k] = SumOf(G, Lines) + SumOf(Q, Threads)
  BY <1>8, <1>9
<1>11. M'[k] = SumOf(SharedLines(k)', Lines) + SumOf(FirstHere(k)', Threads)
  BY <1>2, <1>4, <1>10
<1>. QED
  BY <1>11 DEF LinesOK

\* A step that changes neither the counts nor what they are made up of.
LEMMA CountFrame ==
  ASSUME CountInv, UNCHANGED <<countVars, stamps>>, N' \in Nat, N <= N',
         \A k \in Levels, ws \in Nat \ {0} :
           /\ \A l \in Lines : OfLine(l, k, ws)' = OfLine(l, k, ws)
           /\ \A t \in Threads : OfThread(t, k, ws)' = OfThread(t, k, ws),
         \A k \in Levels : FirstHere(k)' = FirstHere(k)
  PROVE  CountsOK'
<1>. USE DEF CountInv, CountsOK
<1>1. ASSUME NEW k \in Levels, NEW j \in Nat \ {0} PROVE RowOK(k, j)'
  <2>1. PICK ws \in Nat \ {0} : ws = RowWindow(j)
    BY WindowType
  <2>2. LinesAt(k, ws)' = LinesAt(k, ws) /\ ThreadsAt(k, ws)' = ThreadsAt(k, ws)
    BY DEF LinesAt, ThreadsAt
  <2>3. RowAt(k, ws)' = RowAt(k, ws)
    BY DEF RowAt, countVars
  <2>. QED
    BY <2>1, <2>2, <2>3 DEF RowOK
<1>2. ASSUME NEW k \in Levels PROVE LinesOK(k)'
  <2>1. SharedLines(k)' = SharedLines(k) /\ M'[k] = M[k]
    BY DEF SharedLines, countVars
  <2>. QED
    BY <2>1 DEF LinesOK
<1>3. ASSUME NEW k \in Levels, NEW b \in Buckets PROVE ShortOK(k, b)'
  <2>1. b \in Nat /\ N \in Nat
    BY DEF Buckets, WindowInv, LevelInv, RefInv, SafeInv, TypeInv, TypeOK
  <2>2. sublog_index_to_value(b) \in Nat
    BY <2>1, BucketValue
  <2>3. sublog_index_to_value(b) > N' => sublog_index_to_value(b) > N
    BY <2>1, <2>2
  <2>. QED
    BY <2>3 DEF ShortOK, countVars
<1>. QED
  BY <1>1, <1>2, <1>3

\* What a line accounts for depends on its list and on the trace.
LEMMA LineSame ==
  ASSUME NEW l, NEW k, NEW ws, UNCHANGED <<N, trace, stage, col>>, stamps'[l] = stamps[l]
  PROVE  OfLine(l, k, ws)' = OfLine(l, k, ws)
BY DEF OfLine, FewUpTo, AtFini, Closed

\* What a thread accounts for depends on its walk, and it is nothing before
\* and after.
LEMMA ThreadSame ==
  ASSUME NEW t, NEW k \in Nat, NEW ws,
         \/ /\ pc'[t] = pc[t] /\ tempN'[t] = tempN[t] /\ s'[t] = s[t]
            /\ iter'[t] = iter[t] /\ thd_count'[t] = thd_count[t]
         \/ pc[t] \notin {"visit", "update"} /\ pc'[t] \notin {"visit", "update"}
         \/ pc[t] \notin {"visit", "update"} /\ pc'[t] = "visit" /\ thd_count'[t] = 0
  PROVE  /\ OfThread(t, k, ws)' = OfThread(t, k, ws)
         /\ pc'[t] = "update" /\ iter'[t] = NIL /\ thd_count'[t] = k
              <=> pc[t] = "update" /\ iter[t] = NIL /\ thd_count[t] = k
<1>1. CASE /\ pc'[t] = pc[t] /\ tempN'[t] = tempN[t] /\ s'[t] = s[t]
           /\ iter'[t] = iter[t] /\ thd_count'[t] = thd_count[t]
  BY <1>1 DEF OfThread, Since
<1>2. CASE pc[t] \notin {"visit", "update"} /\ pc'[t] \notin {"visit", "update"}
  BY <1>2 DEF OfThread
<1>3. CASE pc[t] \notin {"visit", "update"} /\ pc'[t] = "visit" /\ thd_count'[t] = 0
  BY <1>3 DEF OfThread
<1>. QED
  BY <1>1, <1>2, <1>3

\* A step that lies outside the walks leaves the counts alone.
LEMMA QuietCounts ==
  ASSUME CountInv, UNCHANGED <<countVars, stamps, N, trace, stage, col>>,
         \A t \in Threads :
           \/ /\ pc'[t] = pc[t] /\ tempN'[t] = tempN[t] /\ s'[t] = s[t]
              /\ iter'[t] = iter[t] /\ thd_count'[t] = thd_count[t]
           \/ pc[t] \notin {"visit", "update"} /\ pc'[t] \notin {"visit", "update"}
           \/ pc[t] \notin {"visit", "update"} /\ pc'[t] = "visit" /\ thd_count'[t] = 0
  PROVE  CountsOK'
<1>1. \A k \in Levels, ws \in Nat \ {0} :
        /\ \A l \in Lines : OfLine(l, k, ws)' = OfLine(l, k, ws)
        /\ \A t \in Threads : OfThread(t, k, ws)' = OfThread(t, k, ws)
  BY FiniteData, LineSame, ThreadSame
<1>2. ASSUME NEW k \in Levels PROVE FirstHere(k)' = FirstHere(k)
  <2>1. \A t \in Threads :
          pc'[t] = "update" /\ iter'[t] = NIL /\ thd_count'[t] = k
            <=> pc[t] = "update" /\ iter[t] = NIL /\ thd_count[t] = k
    BY FiniteData, ThreadSame
  <2>. QED
    BY <2>1 DEF FirstHere
<1>3. N' \in Nat /\ N <= N'
  BY DEF CountInv, WindowInv, LevelInv, RefInv, SafeInv, TypeInv, TypeOK
<1>. QED
  BY <1>1, <1>2, <1>3, CountFrame

\* Taking a stamp adds windows, but none that a list accounts for.
LEMMA ReserveCounts ==
  ASSUME CountInv, NEW t \in Threads, ReserveStamp(t)
  PROVE  CountsOK'
<1>. USE DEF CountInv, WindowInv, LevelInv, RefInv
<1>1. /\ pc[t] = "acquire" /\ pc' = [pc EXCEPT ![t] = "load"] /\ N' = N + 1
      /\ tempN' = [tempN EXCEPT ![t] = N + 1]
      /\ UNCHANGED <<countVars, stamps, s, iter, thd_count, stage, col>>
  BY DEF ReserveStamp, walkVars, finiVars, countVars
<1>2. N \in Nat /\ pc \in [Threads -> PcLabels] /\ tempN \in [Threads -> Nat]
  BY DEF SafeInv, TypeInv, TypeOK
<1>3. ~ Closed /\ ~ Closed'
  BY <1>1 DEF LiveOK, Closed
<1>4. ASSUME NEW k \in Levels, NEW ws \in Nat \ {0}, NEW l \in Lines
      PROVE  OfLine(l, k, ws)' = OfLine(l, k, ws)
  <2>1. PICK r : r = Recent(stamps[l], k)
    OBVIOUS
  <2>2. Recent(stamps[l], k)' = r
    BY <1>1, <2>1
  <2>3. k \in Nat /\ IsRecent(stamps[l], k, r)
    BY <2>1, FiniteData, LineRecent
  <2>4. FewUpTo(l, k, ws, r)' = FewUpTo(l, k, ws, r)
    BY <2>3, ReserveFew
  <2>. QED
    BY <1>3, <2>1, <2>2, <2>4 DEF OfLine, AtFini
<1>5. \A u \in Threads :
        \/ /\ pc'[u] = pc[u] /\ tempN'[u] = tempN[u] /\ s'[u] = s[u]
           /\ iter'[u] = iter[u] /\ thd_count'[u] = thd_count[u]
        \/ pc[u] \notin {"visit", "update"} /\ pc'[u] \notin {"visit", "update"}
  BY <1>1, <1>2
<1>6. ASSUME NEW k \in Levels PROVE FirstHere(k)' = FirstHere(k)
  <2>1. \A u \in Threads :
          pc'[u] = "update" /\ iter'[u] = NIL /\ thd_count'[u] = k
            <=> pc[u] = "update" /\ iter[u] = NIL /\ thd_count[u] = k
    BY <1>5, FiniteData, ThreadSame
  <2>. QED
    BY <2>1 DEF FirstHere
<1>7. \A k \in Levels, ws \in Nat \ {0}, u \in Threads : OfThread(u, k, ws)' = OfThread(u, k, ws)
  BY <1>5, FiniteData, ThreadSame
<1>8. N' \in Nat /\ N <= N'
  BY <1>1, <1>2
<1>. QED
  BY <1>1, <1>4, <1>6, <1>7, <1>8, CountFrame

-----------------------------------------------------------------------------
(***************************************************************************)
(* Counting an interval.                                                   *)
(***************************************************************************)
\* An interval is added to the sum of a row if its length is that of the
\* row's windows or more.
LEMMA IntervalCounts ==
  ASSUME NEW d \in Nat, d < 2 ^ WordBits, NEW x \in Int,
         NEW F, \A b \in Buckets : F[b] \in Int,
         NEW G, \A b \in Buckets :
                  G[b] = IF b = sublog_value_to_index(d) THEN F[b] + x ELSE F[b],
         NEW j \in Nat
  PROVE  /\ sublog_value_to_index(d) \in Buckets
         /\ SumOf(G, BucketsFrom(j))
              = SumOf(F, BucketsFrom(j)) + (IF d >= RowWindow(j) THEN x ELSE 0)
<1>1. PICK i : i = sublog_value_to_index(d)
  OBVIOUS
<1>2. i \in Buckets /\ (i >= j <=> d >= RowWindow(j))
  BY <1>1, BucketBoundaries DEF Buckets, RowWindow
<1>3. IsFiniteSet(BucketsFrom(j)) /\ BucketsFrom(j) \subseteq Buckets
  BY FiniteData DEF BucketsFrom
<1>4. \A b \in BucketsFrom(j) : F[b] \in Int /\ G[b] = IF b = i THEN F[b] + x ELSE F[b]
  BY <1>1, <1>3
<1>5. CASE d >= RowWindow(j)
  <2>1. i \in BucketsFrom(j)
    BY <1>2, <1>5 DEF BucketsFrom
  <2>2. SumOf(G, BucketsFrom(j)) = SumOf(F, BucketsFrom(j)) + x
    BY <1>3, <1>4, <2>1, SumChange
  <2>. QED
    BY <1>1, <1>2, <1>5, <2>2
<1>6. CASE ~ (d >= RowWindow(j))
  <2>1. i \notin BucketsFrom(j)
    BY <1>2, <1>6 DEF BucketsFrom
  <2>2. \A b \in BucketsFrom(j) : G[b] = F[b]
    BY <1>4, <2>1
  <2>3. SumOf(G, BucketsFrom(j)) = SumOf(F, BucketsFrom(j))
    BY <1>3, <2>2, SumEqual
  <2>4. SumOf(F, BucketsFrom(j)) \in Int
    BY <1>3, <1>4, SumType
  <2>. QED
    BY <1>1, <1>2, <1>6, <2>3, <2>4
<1>. QED
  BY <1>5, <1>6

\* What an interval of d accesses, counted e times in a level, changes: e is
\* 1 in the level where it is counted, -1 where it is taken off, else 0.
CountedAt(k, d, e) ==
  \A b \in Buckets :
    /\ wcount'[k][b] = IF b = sublog_value_to_index(d) THEN wcount[k][b] + e ELSE wcount[k][b]
    /\ wcount_i'[k][b] = IF b = sublog_value_to_index(d) THEN wcount_i[k][b] + e * d
                                                         ELSE wcount_i[k][b]

\* The sums of the rows are numbers.
LEMMA RowSumType ==
  ASSUME TypeInv, NEW k \in Levels, NEW j, NEW ws \in Nat \ {0}
  PROVE  SumOf(RowAt(k, ws), BucketsFrom(j)) \in Int
<1>1. PICK F : F = RowAt(k, ws)
  OBVIOUS
<1>2. IsFiniteSet(BucketsFrom(j)) /\ BucketsFrom(j) \subseteq Buckets
  BY FiniteData DEF BucketsFrom
<1>3. \A b \in Buckets : F[b] \in Int
  <2>1. \A b \in Buckets : wcount[k][b] \in Int /\ wcount_i[k][b] \in Int
    BY DEF TypeInv, TypeOK
  <2>2. \A a, c \in Int : a * c \in Int
    OBVIOUS
  <2>. QED
    BY <1>1, <2>1, <2>2 DEF RowAt
<1>4. SumOf(F, BucketsFrom(j)) \in Int
  BY <1>2, <1>3, SumType
<1>. QED
  BY <1>1, <1>4

\* It adds its windows to every row.
LEMMA LevelCounts ==
  ASSUME TypeInv, NEW k \in Levels, NEW d \in Nat, d < 2 ^ WordBits,
         NEW e \in {-1, 0, 1}, CountedAt(k, d, e),
         NEW j \in Nat \ {0}, NEW ws, ws = RowWindow(j)
  PROVE  SumOf(RowAt(k, ws)', BucketsFrom(j))
           = SumOf(RowAt(k, ws), BucketsFrom(j)) + e * WindowsIn(d, ws)
<1>1. PICK F : F = RowAt(k, ws)
  OBVIOUS
<1>2. PICK G : G = RowAt(k, ws)'
  OBVIOUS
<1>3. ws \in Nat \ {0}
  BY WindowType
<1>4. PICK x \in Int : x = e * (d - ws + 1)
  BY <1>3
<1>5. \A b \in Buckets : wcount[k][b] \in Int /\ wcount_i[k][b] \in Int
  BY DEF TypeInv, TypeOK
<1>6. ASSUME NEW b \in Buckets
      PROVE  F[b] \in Int /\ G[b] = IF b = sublog_value_to_index(d) THEN F[b] + x ELSE F[b]
  <2>1. /\ F[b] = wcount_i[k][b] - (ws - 1) * wcount[k][b]
        /\ G[b] = wcount_i'[k][b] - (ws - 1) * wcount'[k][b]
    BY <1>1, <1>2 DEF RowAt
  <2>2. PICK m \in Int, n \in Int : m = wcount[k][b] /\ n = wcount_i[k][b]
    BY <1>5
  <2>3. /\ (ws - 1) * m \in Int /\ (ws - 1) * (m + 1) = (ws - 1) * m + (ws - 1)
        /\ (ws - 1) * (m + (-1)) = (ws - 1) * m - (ws - 1)
    <3>1. \A a, c \in Int : a * c \in Int /\ a * (c + 1) = a * c + a
                            /\ a * (c + (-1)) = a * c - a
      OBVIOUS
    <3>2. ws - 1 \in Int
      BY <1>3
    <3>. QED
      BY <3>1, <3>2
  <2>4. F[b] = n - (ws - 1) * m
    BY <2>1, <2>2
  <2>5. CASE b = sublog_value_to_index(d)
    <3>1. G[b] = (n + e * d) - (ws - 1) * (m + e)
      BY <2>1, <2>2, <2>5 DEF CountedAt
    <3>2. CASE e = 1
      BY <1>3, <1>4, <2>3, <2>4, <2>5, <3>1, <3>2
    <3>3. CASE e = -1
      BY <1>3, <1>4, <2>3, <2>4, <2>5, <3>1, <3>3
    <3>4. CASE e = 0
      BY <1>3, <1>4, <2>3, <2>4, <2>5, <3>1, <3>4
    <3>. QED
      BY <3>2, <3>3, <3>4
  <2>6. CASE b # sublog_value_to_index(d)
    BY <1>3, <2>1, <2>2, <2>3, <2>4, <2>6 DEF CountedAt
  <2>. QED
    BY <2>5, <2>6
<1>7. SumOf(G, BucketsFrom(j))
        = SumOf(F, BucketsFrom(j)) + (IF d >= RowWindow(j) THEN x ELSE 0)
  BY <1>6, IntervalCounts
<1>8. e * WindowsIn(d, ws) = IF d >= ws THEN x ELSE 0
  BY <1>3, <1>4 DEF WindowsIn
<1>. QED
  BY <1>1, <1>2, <1>7, <1>8

\* It is not longer than the trace, so its bucket is not either.
LEMMA LevelShort ==
  ASSUME NEW n, n \in Nat, n = N, N' = N, NEW k \in Levels,
         NEW d \in Nat, d <= n, d < 2 ^ WordBits, NEW e, CountedAt(k, d, e),
         NEW b \in Buckets, ShortOK(k, b)
  PROVE  ShortOK(k, b)'
<1>1. CASE b = sublog_value_to_index(d)
  <2>1. b \in Nat /\ sublog_index_to_value(b) \in Nat
    BY BucketValue DEF Buckets
  <2>2. sublog_index_to_value(b) <= d
    BY <1>1, <2>1, BucketBoundaries
  <2>3. ~ (sublog_index_to_value(b) > n)
    BY <2>1, <2>2
  <2>. QED
    BY <2>3 DEF ShortOK
<1>2. CASE b # sublog_value_to_index(d)
  BY <1>2 DEF CountedAt, ShortOK
<1>. QED
  BY <1>1, <1>2

\* The assignments of the code that count an interval ...
LEMMA CountAdd ==
  ASSUME NEW K, NEW B, NEW w \in [K -> [B -> Int]], NEW k \in K, NEW b \in B, NEW x \in Int,
         NEW v, v = [w EXCEPT ![k][b] = @ + x]
  PROVE  /\ v \in [K -> [B -> Int]]
         /\ \A m \in K, c \in B : v[m][c] = IF m = k /\ c = b THEN w[m][c] + x ELSE w[m][c]
<1>1. w[k] \in [B -> Int]
  OBVIOUS
<1>2. PICK r : r = [w[k] EXCEPT ![b] = @ + x]
  OBVIOUS
<1>3. r \in [B -> Int] /\ \A c \in B : r[c] = IF c = b THEN w[k][c] + x ELSE w[k][c]
  BY <1>1, <1>2
<1>4. v = [w EXCEPT ![k] = r]
  BY <1>2
<1>. QED
  BY <1>3, <1>4

\* ... and those that count it in a level and take it off the next.
LEMMA CountPass ==
  ASSUME NEW K, NEW B, NEW w \in [K -> [B -> Int]], NEW k \in K, NEW n \in K, n # k,
         NEW b \in B, NEW x \in Int,
         NEW v, v = [w EXCEPT ![k][b] = @ + x, ![n][b] = @ - x]
  PROVE  \A m \in K, c \in B : v[m][c] = IF m = k /\ c = b THEN w[m][c] + x
                                         ELSE IF m = n /\ c = b THEN w[m][c] - x
                                         ELSE w[m][c]
<1>1. PICK u : u = [w EXCEPT ![k][b] = @ + x]
  OBVIOUS
<1>2. /\ u \in [K -> [B -> Int]]
      /\ \A m \in K, c \in B : u[m][c] = IF m = k /\ c = b THEN w[m][c] + x ELSE w[m][c]
  BY <1>1, CountAdd
<1>3. PICK r : r = [u[n] EXCEPT ![b] = @ - x]
  OBVIOUS
<1>4. r \in [B -> Int] /\ \A c \in B : r[c] = IF c = b THEN u[n][c] - x ELSE u[n][c]
  <2>1. u[n] \in [B -> Int]
    BY <1>2
  <2>. QED
    BY <1>3, <2>1
<1>5. v = [u EXCEPT ![n] = r]
  BY <1>1, <1>3
<1>. QED
  BY <1>2, <1>4, <1>5

\* No interval of the trace is too long for a word.
LEMMA WithinWord ==
  ASSUME WindowInv, NEW d \in Nat, d <= N
  PROVE  N \in Nat /\ N < 2 ^ WordBits /\ N + 1 < 2 ^ WordBits /\ d < 2 ^ WordBits
<1>1. N \in Nat /\ MaxTrace \in Nat
  BY RecorderAssumption DEF WindowInv, LevelInv, RefInv, SafeInv, TypeInv, TypeOK
<1>2. Unstamped \subseteq Threads
  BY DEF Unstamped
<1>3. Cardinality(Unstamped) \in Nat
  BY <1>2, ThreadCount, FS_Subset, FS_CardinalityType
<1>4. N <= MaxTrace
  BY <1>1, <1>3 DEF WindowInv, BoundOK
<1>5. PICK w \in Nat : w = 2 ^ WordBits
  BY PowerOfTwo, SublogAssumption
<1>6. MaxTrace + 1 < w
  BY <1>5 DEF WindowInv, TraceFits
<1>. QED
  BY <1>1, <1>4, <1>5, <1>6

\* The interval a walk is about to count, and its levels.
LEMMA IntervalFacts ==
  ASSUME WindowInv, NEW t \in Threads, pc[t] = "visit",
         NEW d, d = tempN[t] - 1 - Recent(s[t], thd_count[t])
  PROVE  /\ d \in Nat /\ N \in Nat /\ d <= N /\ d < 2 ^ WordBits
         /\ sublog_value_to_index(d) \in Buckets
         /\ thd_count[t] \in Nat /\ thd_count[t] \in Levels
         /\ iter[t] \notin {t, NIL} => thd_count[t] + 1 \in Levels
<1>1. /\ thd_count[t] \in Nat /\ tempN[t] \in 1 .. N /\ N \in Nat
      /\ Recent(s[t], thd_count[t]) \in Nat /\ Recent(s[t], thd_count[t]) < tempN[t]
  BY WalkFacts DEF WindowInv, LevelInv, RefInv, SafeInv, TypeInv, TypeOK
<1>2. d \in Nat /\ d <= N
  BY <1>1
<1>4. d < 2 ^ WordBits
  BY <1>2, WithinWord
<1>5. sublog_value_to_index(d) \in Buckets
  BY <1>2, <1>4, BucketBoundaries DEF Buckets
<1>6. /\ thd_count[t] = Cardinality(Passed(s[t], iter[t])) /\ t \notin Passed(s[t], iter[t])
      /\ s[t] \in StampLists /\ iter[t] \in Threads \cup {NIL}
  BY WalkFacts
<1>7. thd_count[t] + 1 <= MAX_THREAD
  BY <1>6, PassedBound
<1>8. ASSUME iter[t] \notin {t, NIL} PROVE thd_count[t] + 2 <= MAX_THREAD
  <2>1. iter[t] \in Threads /\ t # iter[t]
    BY <1>6, <1>8
  <2>. QED
    BY <1>6, <2>1, PassedBoundTwo
<1>9. thd_count[t] \in Levels /\ (iter[t] \notin {t, NIL} => thd_count[t] + 1 \in Levels)
  BY <1>1, <1>7, <1>8, RecorderAssumption DEF Levels
<1>. QED
  BY <1>1, <1>2, <1>4, <1>5, <1>9

\* A walk that counts an interval accounts for it.
LEMMA WalkCounts ==
  ASSUME CountInv, NEW t \in Threads, pc[t] = "visit",
         UNCHANGED <<N, trace, stamps, stage, col, tempN, s>>,
         \A u \in Threads : u # t => /\ pc'[u] = pc[u] /\ iter'[u] = iter[u]
                                     /\ thd_count'[u] = thd_count[u],
         NEW d, d = tempN[t] - 1 - Recent(s[t], thd_count[t]), NEW e,
         \A k \in Levels :
           /\ e[k] \in {-1, 0, 1} /\ CountedAt(k, d, e[k])
           /\ \A ws \in Nat \ {0} :
                OfThread(t, k, ws)' = OfThread(t, k, ws) + e[k] * WindowsIn(d, ws)
  PROVE  /\ \A k \in Levels, j \in Nat \ {0} : RowOK(k, j)'
         /\ \A k \in Levels, b \in Buckets : ShortOK(k, b)'
<1>1. WindowInv /\ TypeInv
  BY DEF CountInv, WindowInv, LevelInv, RefInv, SafeInv
<1>2. d \in Nat /\ N \in Nat /\ d <= N /\ d < 2 ^ WordBits
  BY <1>1, IntervalFacts
<1>3. ASSUME NEW k \in Levels, NEW j \in Nat \ {0} PROVE RowOK(k, j)'
  <2>1. PICK ws \in Nat \ {0} : ws = RowWindow(j)
    BY WindowType
  <2>2. PICK y \in Int : y = e[k] * WindowsIn(d, ws)
    BY <1>2 DEF WindowsIn
  <2>3. PICK l : l \in Lines
    BY FiniteData
  <2>4. k \in Nat /\ RowOK(k, j)
    BY FiniteData DEF CountInv, CountsOK
  <2>5. \A m \in Lines : OfLine(m, k, ws)' = IF m = l THEN OfLine(m, k, ws) + 0 ELSE OfLine(m, k, ws)
    <3>. TAKE m \in Lines
    <3>1. OfLine(m, k, ws)' = OfLine(m, k, ws)
      BY LineSame
    <3>2. OfLine(m, k, ws) \in Int
      BY <1>1, <2>4, CountTypes
    <3>. QED
      BY <3>1, <3>2
  <2>6. \A u \in Threads : OfThread(u, k, ws)' = IF u = t THEN OfThread(u, k, ws) + y
                                                          ELSE OfThread(u, k, ws)
    <3>. TAKE u \in Threads
    <3>1. CASE u = t
      BY <2>2, <3>1
    <3>2. CASE u # t
      <4>1. /\ pc'[u] = pc[u] /\ tempN'[u] = tempN[u] /\ s'[u] = s[u]
            /\ iter'[u] = iter[u] /\ thd_count'[u] = thd_count[u]
        BY <3>2
      <4>2. OfThread(u, k, ws)' = OfThread(u, k, ws)
        BY <2>4, <4>1, ThreadSame
      <4>. QED
        BY <3>2, <4>2
    <3>. QED
      BY <3>1, <3>2
  <2>7. SumOf(RowAt(k, ws)', BucketsFrom(j)) = SumOf(RowAt(k, ws), BucketsFrom(j)) + y
    <3>1. e[k] \in {-1, 0, 1} /\ CountedAt(k, d, e[k])
      OBVIOUS
    <3>2. SumOf(RowAt(k, ws)', BucketsFrom(j))
            = SumOf(RowAt(k, ws), BucketsFrom(j)) + e[k] * WindowsIn(d, ws)
      BY <1>1, <1>2, <2>1, <3>1, LevelCounts
    <3>. QED
      BY <2>2, <3>2
  <2>8. SumOf(RowAt(k, ws)', BucketsFrom(j)) = SumOf(RowAt(k, ws), BucketsFrom(j)) + 0 + y
    <3>1. SumOf(RowAt(k, ws), BucketsFrom(j)) \in Int
      BY <1>1, <2>1, RowSumType
    <3>. QED
      BY <2>7, <3>1
  <2>. QED
    BY <1>1, <2>1, <2>3, <2>4, <2>5, <2>6, <2>8, RowStep
<1>4. ASSUME NEW k \in Levels, NEW b \in Buckets PROVE ShortOK(k, b)'
  <2>1. CountedAt(k, d, e[k]) /\ ShortOK(k, b)
    BY DEF CountInv, CountsOK
  <2>. QED
    BY <1>2, <2>1, LevelShort
<1>. QED
  BY <1>3, <1>4

\* What SfpImpl counts is the interval since the stamp of its level.
LEMMA IntervalIs ==
  ASSUME WindowInv, NEW t \in Threads, pc[t] = "visit"
  PROVE  /\ iter[t] # NIL => Distance(t, iter[t]) = tempN[t] - 1 - Recent(s[t], thd_count[t])
         /\ iter[t] = NIL => tempN[t] - 1 = tempN[t] - 1 - Recent(s[t], thd_count[t])
         /\ \A ws \in Nat \ {0} :
              WindowsIn(tempN[t] - 1 - Recent(s[t], thd_count[t]), ws) \in Int
<1>1. /\ Recent(s[t], thd_count[t]) = IF iter[t] = NIL THEN 0 ELSE s[t].latest[iter[t]]
      /\ thd_count[t] \in Nat /\ tempN[t] \in 1 .. N /\ N \in Nat
      /\ Recent(s[t], thd_count[t]) \in Nat
  BY WalkFacts DEF WindowInv, LevelInv, RefInv, SafeInv, TypeInv, TypeOK
<1>. QED
  BY <1>1 DEF Distance, WindowsIn

\* The walk passes a stamp.
LEMMA PassCounts ==
  ASSUME CountInv, NEW t \in Threads, PassStamp(t)
  PROVE  CountsOK'
<1>0. WindowInv /\ TypeInv
  BY DEF CountInv, WindowInv, LevelInv, RefInv, SafeInv
<1>1. /\ pc[t] = "visit" /\ iter[t] # NIL /\ iter[t] # t
      /\ thd_count' = [thd_count EXCEPT ![t] = @ + 1]
      /\ iter' = [iter EXCEPT ![t] = s[t].next[iter[t]]]
      /\ UNCHANGED <<N, trace, stamps, stage, col, tempN, s, pc, M>>
  BY DEF PassStamp, tableVars, accessVars, finiVars
<1>. DEFINE d == tempN[t] - 1 - Recent(s[t], thd_count[t])
<1>2. PICK c : c = thd_count[t]
  OBVIOUS
<1>3. PICK b : b = sublog_value_to_index(d)
  OBVIOUS
<1>4. /\ d \in Nat /\ b \in Buckets /\ c \in Nat /\ c \in Levels /\ c + 1 \in Levels
  BY <1>0, <1>1, <1>2, <1>3, IntervalFacts
<1>5. Distance(t, iter[t]) = d /\ \A ws \in Nat \ {0} : WindowsIn(d, ws) \in Int
  BY <1>0, <1>1, IntervalIs
<1>6. /\ wcount' = [wcount EXCEPT ![c][b] = @ + 1, ![c + 1][b] = @ - 1]
      /\ wcount_i' = [wcount_i EXCEPT ![c][b] = @ + d, ![c + 1][b] = @ - d]
  BY <1>2, <1>3, <1>5 DEF PassStamp
<1>7. /\ thd_count \in [Threads -> Nat] /\ iter \in [Threads -> Threads \cup {NIL}]
      /\ wcount \in [Levels -> [Buckets -> Int]] /\ wcount_i \in [Levels -> [Buckets -> Int]]
  BY <1>0 DEF TypeInv, TypeOK
<1>8. PICK e : e = [k \in Levels |-> IF k = c THEN 1 ELSE IF k = c + 1 THEN -1 ELSE 0]
  OBVIOUS
<1>9. \A k \in Levels, i \in Buckets :
        /\ wcount'[k][i] = IF k = c /\ i = b THEN wcount[k][i] + 1
                           ELSE IF k = c + 1 /\ i = b THEN wcount[k][i] - 1 ELSE wcount[k][i]
        /\ wcount_i'[k][i] = IF k = c /\ i = b THEN wcount_i[k][i] + d
                             ELSE IF k = c + 1 /\ i = b THEN wcount_i[k][i] - d ELSE wcount_i[k][i]
  <2>1. c + 1 # c /\ d \in Int /\ 1 \in Int
    BY <1>4
  <2>. HIDE DEF d
  <2>2. \A k \in Levels, i \in Buckets :
          wcount'[k][i] = IF k = c /\ i = b THEN wcount[k][i] + 1
                          ELSE IF k = c + 1 /\ i = b THEN wcount[k][i] - 1 ELSE wcount[k][i]
    BY <1>4, <1>6, <1>7, <2>1, CountPass
  <2>3. \A k \in Levels, i \in Buckets :
          wcount_i'[k][i] = IF k = c /\ i = b THEN wcount_i[k][i] + d
                            ELSE IF k = c + 1 /\ i = b THEN wcount_i[k][i] - d ELSE wcount_i[k][i]
    BY <1>4, <1>6, <1>7, <2>1, CountPass
  <2>. QED
    BY <2>2, <2>3
<1>10. ASSUME NEW k \in Levels
       PROVE  /\ e[k] \in {-1, 0, 1} /\ CountedAt(k, d, e[k])
              /\ \A ws \in Nat \ {0} :
                   OfThread(t, k, ws)' = OfThread(t, k, ws) + e[k] * WindowsIn(d, ws)
  <2>1. k \in Nat
    BY FiniteData
  <2>2. e[k] = IF k = c THEN 1 ELSE IF k = c + 1 THEN -1 ELSE 0
    BY <1>8
  <2>3. CountedAt(k, d, e[k])
    <3>. HIDE DEF d
    <3>1. \A i \in Buckets : wcount[k][i] \in Int /\ wcount_i[k][i] \in Int
      BY <1>7
    <3>2. CASE k = c
      BY <1>3, <1>4, <1>9, <2>2, <3>1, <3>2 DEF CountedAt
    <3>3. CASE k = c + 1
      BY <1>3, <1>4, <1>9, <2>2, <3>1, <3>3 DEF CountedAt
    <3>4. CASE k # c /\ k # c + 1
      BY <1>3, <1>4, <1>9, <2>2, <3>1, <3>4 DEF CountedAt
    <3>. QED
      BY <3>2, <3>3, <3>4
  <2>4. ASSUME NEW ws \in Nat \ {0}
        PROVE  OfThread(t, k, ws)' = OfThread(t, k, ws) + e[k] * WindowsIn(d, ws)
    <3>1. PICK y \in Int : y = WindowsIn(d, ws)
      BY <1>5
    <3>2. Since(t, c, ws) = y
      BY <1>2, <3>1 DEF Since
    <3>3. \A m \in Nat : Since(t, m, ws)' = Since(t, m, ws) /\ Since(t, m, ws) \in Int
      BY <1>0, <1>1, WalkFacts DEF Since, WindowsIn
    <3>4. /\ OfThread(t, k, ws) = (IF k < c THEN Since(t, k, ws) ELSE 0)
                                     - (IF 1 <= k /\ k <= c THEN Since(t, k - 1, ws) ELSE 0)
          /\ OfThread(t, k, ws)' = (IF k < c + 1 THEN Since(t, k, ws) ELSE 0)
                                     - (IF 1 <= k /\ k <= c + 1 THEN Since(t, k - 1, ws) ELSE 0)
      <4>1. thd_count'[t] = c + 1 /\ pc'[t] = "visit"
        BY <1>1, <1>2, <1>7
      <4>2. 1 <= k => Since(t, k - 1, ws)' = Since(t, k - 1, ws)
        BY <2>1, <3>3
      <4>. QED
        BY <1>1, <1>2, <2>1, <3>3, <4>1, <4>2 DEF OfThread
    <3>5. PICK x \in Int : x = Since(t, k, ws)
      BY <2>1, <3>3
    <3>6. 1 <= k => Since(t, k - 1, ws) \in Int
      BY <2>1, <3>3
    <3>7. CASE k = c
      BY <1>4, <2>2, <3>1, <3>2, <3>4, <3>6, <3>7
    <3>8. CASE k = c + 1
      <4>1. k - 1 = c /\ 1 <= k
        BY <1>4, <3>8
      <4>. QED
        BY <1>4, <2>2, <3>1, <3>2, <3>4, <3>8, <4>1
    <3>9. CASE k # c /\ k # c + 1
      BY <1>4, <2>1, <2>2, <3>1, <3>4, <3>5, <3>6, <3>9
    <3>. QED
      BY <3>7, <3>8, <3>9
  <2>. QED
    BY <2>2, <2>3, <2>4
<1>11. \A u \in Threads : u # t => /\ pc'[u] = pc[u] /\ iter'[u] = iter[u]
                                   /\ thd_count'[u] = thd_count[u]
  BY <1>1, <1>7
<1>12. /\ \A k \in Levels, j \in Nat \ {0} : RowOK(k, j)'
       /\ \A k \in Levels, i \in Buckets : ShortOK(k, i)'
  BY <1>1, <1>10, <1>11, WalkCounts
<1>13. ASSUME NEW k \in Levels PROVE LinesOK(k)'
  <2>1. FirstHere(k)' = FirstHere(k)
    <3>1. \A u \in Threads : pc'[u] = "update" /\ iter'[u] = NIL /\ thd_count'[u] = k
                               <=> pc[u] = "update" /\ iter[u] = NIL /\ thd_count[u] = k
      BY <1>1, <1>11
    <3>. QED
      BY <3>1 DEF FirstHere
  <2>2. SharedLines(k)' = SharedLines(k) /\ M'[k] = M[k]
    BY <1>1 DEF SharedLines
  <2>. QED
    BY <2>1, <2>2 DEF CountInv, CountsOK, LinesOK
<1>. QED
  BY <1>12, <1>13 DEF CountsOK

\* The walk ends, at the thread's own stamp or at the end of the list.
LEMMA EndCounts ==
  ASSUME CountInv, NEW t \in Threads, MeetOwnStamp(t) \/ FirstAccess(t)
  PROVE  CountsOK'
<1>0. WindowInv /\ TypeInv
  BY DEF CountInv, WindowInv, LevelInv, RefInv, SafeInv
<1>. DEFINE d == tempN[t] - 1 - Recent(s[t], thd_count[t])
<1>1. /\ pc[t] = "visit" /\ pc' = [pc EXCEPT ![t] = "update"]
      /\ UNCHANGED <<N, trace, stamps, stage, col, tempN, s, iter, thd_count>>
  BY DEF MeetOwnStamp, FirstAccess, tableVars, accessVars, walkVars, finiVars
<1>2. PICK c : c = thd_count[t]
  OBVIOUS
<1>3. PICK b : b = sublog_value_to_index(d)
  OBVIOUS
<1>4. d \in Nat /\ b \in Buckets /\ c \in Nat /\ c \in Levels
  BY <1>0, <1>1, <1>2, <1>3, IntervalFacts
<1>5. /\ iter[t] # NIL => Distance(t, iter[t]) = d
      /\ iter[t] = NIL => tempN[t] - 1 = d
      /\ \A ws \in Nat \ {0} : WindowsIn(d, ws) \in Int
  BY <1>0, <1>1, IntervalIs
<1>6. /\ wcount' = [wcount EXCEPT ![c][b] = @ + 1]
      /\ wcount_i' = [wcount_i EXCEPT ![c][b] = @ + d]
      /\ M' = IF iter[t] = NIL THEN [M EXCEPT ![c] = @ + 1] ELSE M
  <2>1. CASE MeetOwnStamp(t)
    <3>1. iter[t] = t /\ t # NIL
      BY <2>1, NilIsNoThread DEF MeetOwnStamp
    <3>2. Distance(t, t) = d
      BY <1>5, <3>1
    <3>. QED
      BY <1>2, <1>3, <2>1, <3>1, <3>2 DEF MeetOwnStamp
  <2>2. CASE FirstAccess(t)
    <3>1. iter[t] = NIL /\ tempN[t] - 1 = d
      BY <1>5, <2>2 DEF FirstAccess
    <3>. QED
      BY <1>2, <1>3, <2>2, <3>1 DEF FirstAccess
  <2>. QED
    BY <2>1, <2>2
<1>7. /\ pc \in [Threads -> PcLabels] /\ M \in [Levels -> Nat]
      /\ wcount \in [Levels -> [Buckets -> Int]] /\ wcount_i \in [Levels -> [Buckets -> Int]]
  BY <1>0 DEF TypeInv, TypeOK
<1>8. PICK e : e = [k \in Levels |-> IF k = c THEN 1 ELSE 0]
  OBVIOUS
<1>9. \A k \in Levels, i \in Buckets :
        /\ wcount'[k][i] = IF k = c /\ i = b THEN wcount[k][i] + 1 ELSE wcount[k][i]
        /\ wcount_i'[k][i] = IF k = c /\ i = b THEN wcount_i[k][i] + d ELSE wcount_i[k][i]
  <2>1. d \in Int /\ 1 \in Int
    BY <1>4
  <2>. HIDE DEF d
  <2>2. \A k \in Levels, i \in Buckets :
          wcount'[k][i] = IF k = c /\ i = b THEN wcount[k][i] + 1 ELSE wcount[k][i]
    BY <1>4, <1>6, <1>7, <2>1, CountAdd
  <2>3. \A k \in Levels, i \in Buckets :
          wcount_i'[k][i] = IF k = c /\ i = b THEN wcount_i[k][i] + d ELSE wcount_i[k][i]
    BY <1>4, <1>6, <1>7, <2>1, CountAdd
  <2>. QED
    BY <2>2, <2>3
<1>10. ASSUME NEW k \in Levels
       PROVE  /\ e[k] \in {-1, 0, 1} /\ CountedAt(k, d, e[k])
              /\ \A ws \in Nat \ {0} :
                   OfThread(t, k, ws)' = OfThread(t, k, ws) + e[k] * WindowsIn(d, ws)
  <2>1. k \in Nat
    BY FiniteData
  <2>2. e[k] = IF k = c THEN 1 ELSE 0
    BY <1>8
  <2>3. CountedAt(k, d, e[k])
    <3>. HIDE DEF d
    <3>1. \A i \in Buckets : wcount[k][i] \in Int /\ wcount_i[k][i] \in Int
      BY <1>7
    <3>2. CASE k = c
      BY <1>3, <1>4, <1>9, <2>2, <3>1, <3>2 DEF CountedAt
    <3>3. CASE k # c
      BY <1>3, <1>4, <1>9, <2>2, <3>1, <3>3 DEF CountedAt
    <3>. QED
      BY <3>2, <3>3
  <2>4. ASSUME NEW ws \in Nat \ {0}
        PROVE  OfThread(t, k, ws)' = OfThread(t, k, ws) + e[k] * WindowsIn(d, ws)
    <3>1. PICK y \in Int : y = WindowsIn(d, ws)
      BY <1>5
    <3>2. Since(t, c, ws) = y
      BY <1>2, <3>1 DEF Since
    <3>3. \A m \in Nat : Since(t, m, ws)' = Since(t, m, ws) /\ Since(t, m, ws) \in Int
      BY <1>0, <1>1, WalkFacts DEF Since, WindowsIn
    <3>4. /\ OfThread(t, k, ws) = (IF k < c THEN Since(t, k, ws) ELSE 0)
                                     - (IF 1 <= k /\ k <= c THEN Since(t, k - 1, ws) ELSE 0)
          /\ OfThread(t, k, ws)' = (IF k <= c THEN Since(t, k, ws) ELSE 0)
                                     - (IF 1 <= k /\ k <= c THEN Since(t, k - 1, ws) ELSE 0)
      <4>1. thd_count'[t] = c /\ pc'[t] = "update"
        BY <1>1, <1>2, <1>7
      <4>2. 1 <= k => Since(t, k - 1, ws)' = Since(t, k - 1, ws)
        BY <2>1, <3>3
      <4>3. k <= c <=> k < c \/ k = c
        BY <1>4, <2>1
      <4>. QED
        BY <1>1, <1>2, <2>1, <3>3, <4>1, <4>2, <4>3 DEF OfThread
    <3>5. PICK x \in Int : x = Since(t, k, ws)
      BY <2>1, <3>3
    <3>6. 1 <= k => Since(t, k - 1, ws) \in Int
      BY <2>1, <3>3
    <3>7. CASE k = c
      BY <1>4, <2>2, <3>1, <3>2, <3>4, <3>6, <3>7
    <3>8. CASE k # c
      BY <1>4, <2>1, <2>2, <3>1, <3>4, <3>5, <3>6, <3>8
    <3>. QED
      BY <3>7, <3>8
  <2>. QED
    BY <2>2, <2>3, <2>4
<1>11. \A u \in Threads : u # t => pc'[u] = pc[u]
  BY <1>1, <1>7
<1>12. /\ \A k \in Levels, j \in Nat \ {0} : RowOK(k, j)'
       /\ \A k \in Levels, i \in Buckets : ShortOK(k, i)'
  BY <1>1, <1>10, <1>11, WalkCounts
<1>13. ASSUME NEW k \in Levels PROVE LinesOK(k)'
  <2>1. PICK y \in Int : y = IF iter[t] = NIL /\ k = c THEN 1 ELSE 0
    OBVIOUS
  <2>2. \A u \in Threads : FirstHere(k)'[u] = IF u = t THEN FirstHere(k)[u] + y
                                                       ELSE FirstHere(k)[u]
    <3>1. FirstHere(k)[t] = 0 /\ FirstHere(k)'[t] = y
      BY <1>1, <1>2, <1>7, <2>1 DEF FirstHere
    <3>2. \A u \in Threads \ {t} : FirstHere(k)'[u] = FirstHere(k)[u]
      BY <1>1, <1>11 DEF FirstHere
    <3>. QED
      BY <3>1, <3>2
  <2>3. PICK l : l \in Lines
    BY FiniteData
  <2>4. \A m \in Lines : SharedLines(k)'[m] = IF m = l THEN SharedLines(k)[m] + 0
                                                       ELSE SharedLines(k)[m]
    BY <1>1 DEF SharedLines
  <2>5. M'[k] = M[k] + 0 + y
    BY <1>4, <1>6, <1>7, <2>1
  <2>6. LinesOK(k)
    BY DEF CountInv, CountsOK
  <2>. QED
    BY <2>2, <2>3, <2>4, <2>5, <2>6, LinesStep
<1>. QED
  BY <1>12, <1>13 DEF CountsOK

\* When the list is stored, the stamp of each level moves to where the stamp
\* of the level before was, as far as the walk went.
LEMMA StoreRecent ==
  ASSUME WindowInv, NEW t \in Threads, StoreStamps(t), NEW k \in Nat,
         NEW l, l = cur_addr[t], NEW c, c = thd_count[t],
         NEW r, r = Recent(stamps[l], k), NEW q, q = Recent(stamps'[l], k)
  PROVE  /\ l \in Lines /\ s[t] = stamps[l] /\ c \in Nat /\ tempN[t] \in 1 .. N
         /\ r \in Nat /\ IsRecent(stamps[l], k, r)
         /\ q \in Nat /\ IsRecent(stamps'[l], k, q)
         /\ r <= q /\ q <= tempN[t]
         /\ q = IF k = 0 THEN tempN[t] ELSE Recent(stamps[l], IF k <= c THEN k - 1 ELSE k)
         /\ (IF r > 0 THEN 1 ELSE 0) + (IF iter[t] = NIL /\ k = c THEN 1 ELSE 0)
              = (IF q > 0 THEN 1 ELSE 0)
<1>1. /\ pc[t] = "update" /\ iter[t] \in {t, NIL} /\ prev[t] \in Threads \cup {NIL}
      /\ stamps \in [Lines -> StampLists] /\ N \in Nat
  BY DEF StoreStamps, WindowInv, LevelInv, RefInv, SafeInv, Safe, WalkOK, WalkOf, TypeInv, TypeOK
<1>2. PICK list : list = s[t]
  OBVIOUS
<1>3. PICK pos : pos = tempN[t]
  OBVIOUS
<1>4. /\ l \in Lines /\ list = stamps[l] /\ list \in StampLists /\ pos \in 1 .. N
      /\ pos \in Nat /\ pos > 0
      /\ \A u \in Threads : list.latest[u] < pos
      /\ (iter[t] # NIL => list.latest[iter[t]] > 0)
      /\ c \in Nat /\ c = Cardinality(Passed(list, iter[t])) /\ t \notin Passed(list, iter[t])
      /\ \A m \in Nat : /\ IsRecent(list, m, Recent(list, m))
                        /\ Recent(list, m) \in Nat /\ Recent(list, m) < pos
      /\ Recent(list, c) = IF iter[t] = NIL THEN 0 ELSE list.latest[iter[t]]
  BY <1>1, <1>2, <1>3, WalkFacts
<1>5. PICK new : new = MovedToFront(list, t, pos, prev[t])
  OBVIOUS
<1>6. new \in StampLists /\ stamps'[l] = new
  BY <1>1, <1>2, <1>3, <1>4, <1>5, MoveType DEF StoreStamps
<1>7. Passed(list, iter[t]) = LaterThan(list, IF iter[t] = NIL THEN 0 ELSE list.latest[iter[t]])
  BY PassedIsLater
<1>8. c = Cardinality(LaterThan(list, list.latest[t]))
  <2>1. CASE iter[t] = t
    BY <1>4, <1>7, <2>1, NilIsNoThread
  <2>2. CASE iter[t] = NIL
    <3>1. t \notin LaterThan(list, 0)
      BY <1>4, <1>7, <2>2
    <3>2. list.latest[t] = 0
      BY <1>4, <3>1 DEF LaterThan, StampLists
    <3>. QED
      BY <1>4, <1>7, <2>2, <3>2
  <2>. QED
    BY <1>1, <2>1, <2>2
<1>9. q = IF k = 0 THEN pos ELSE Recent(list, IF k <= c THEN k - 1 ELSE k)
  <2>1. Recent(MovedToFront(list, t, pos, prev[t]), k)
          = IF k = 0 THEN pos ELSE Recent(list, IF k <= c THEN k - 1 ELSE k)
    BY <1>1, <1>4, <1>8, RecentMoved
  <2>. QED
    BY <1>5, <1>6, <2>1
<1>10. IsRecent(new, k, q) /\ q <= pos /\ q \in Nat
  <2>1. \A u \in Threads : new.latest[u] <= pos
    BY <1>4, <1>5 DEF MovedToFront, StampLists
  <2>2. IsRecent(new, k, Recent(new, k)) /\ Recent(new, k) <= pos
    BY <1>4, <1>6, <2>1, RecentExists
  <2>. QED
    BY <1>6, <2>2 DEF IsRecent
<1>11. r \in Nat /\ IsRecent(list, k, r) /\ r < pos
  BY <1>4
<1>12. r <= q
  <2>1. CASE k = 0
    BY <1>4, <1>9, <1>11, <2>1
  <2>2. CASE k # 0 /\ k <= c
    <3>1. k - 1 \in Nat /\ k - 1 <= k /\ q = Recent(list, k - 1)
      BY <1>9, <2>2
    <3>. QED
      BY <1>4, <1>11, <3>1, RecentOrder
  <2>3. CASE k # 0 /\ ~ (k <= c)
    BY <1>4, <1>9, <1>11, <2>3
  <2>. QED
    BY <2>1, <2>2, <2>3
<1>13. (IF r > 0 THEN 1 ELSE 0) + (IF iter[t] = NIL /\ k = c THEN 1 ELSE 0)
         = (IF q > 0 THEN 1 ELSE 0)
  <2>1. ASSUME k > c PROVE q = r
    BY <1>4, <1>9, <2>1
  <2>2. CASE iter[t] = t
    <3>1. iter[t] # NIL /\ list.latest[t] > 0 /\ Recent(list, c) = list.latest[t]
      BY <1>4, <2>2, NilIsNoThread
    <3>2. ASSUME k <= c PROVE r > 0
      <4>1. Recent(list, c) <= r
        BY <1>4, <1>11, <3>2, RecentOrder
      <4>. QED
        BY <1>4, <1>11, <3>1, <4>1
    <3>. QED
      BY <1>4, <1>10, <1>11, <1>12, <2>1, <3>1, <3>2
  <2>3. CASE iter[t] = NIL
    <3>1. c = Cardinality(LaterThan(list, 0)) /\ Recent(list, c) = 0
      BY <1>4, <1>7, <2>3
    <3>2. ASSUME k < c PROVE r > 0
      BY <1>4, <1>11, <3>1, <3>2, RecentPositive
    <3>3. ASSUME k = c PROVE r = 0 /\ q > 0
      <4>1. CASE k = 0
        BY <1>4, <1>9, <3>1, <3>3, <4>1
      <4>2. CASE k # 0
        <5>1. k - 1 \in Nat /\ q = Recent(list, k - 1) /\ k - 1 < c
          BY <1>9, <3>3, <4>2
        <5>. QED
          BY <1>4, <3>1, <3>3, <5>1, RecentPositive
      <4>. QED
        BY <4>1, <4>2
    <3>. QED
      BY <1>4, <1>10, <1>11, <1>12, <2>1, <2>3, <3>2, <3>3
  <2>. QED
    BY <1>1, <2>2, <2>3
<1>. QED
  BY <1>2, <1>3, <1>4, <1>6, <1>9, <1>10, <1>11, <1>12, <1>13

\* The same, of the stamps themselves.
LEMMA StoreMoves ==
  ASSUME WindowInv, NEW t \in Threads, StoreStamps(t), NEW k \in Nat
  PROVE  /\ cur_addr[t] \in Lines /\ s[t] = stamps[cur_addr[t]]
         /\ thd_count[t] \in Nat /\ tempN[t] \in 1 .. N
         /\ Recent(stamps[cur_addr[t]], k) \in Nat
         /\ IsRecent(stamps[cur_addr[t]], k, Recent(stamps[cur_addr[t]], k))
         /\ Recent(stamps'[cur_addr[t]], k) \in Nat
         /\ IsRecent(stamps'[cur_addr[t]], k, Recent(stamps'[cur_addr[t]], k))
         /\ Recent(stamps[cur_addr[t]], k) <= Recent(stamps'[cur_addr[t]], k)
         /\ Recent(stamps'[cur_addr[t]], k) <= tempN[t]
         /\ Recent(stamps'[cur_addr[t]], k)
              = IF k = 0 THEN tempN[t]
                ELSE Recent(stamps[cur_addr[t]], IF k <= thd_count[t] THEN k - 1 ELSE k)
BY StoreRecent

\* What the thread had counted ahead, the line then accounts for.
LEMMA StoreCounts ==
  ASSUME CountInv, NEW t \in Threads, StoreStamps(t)
  PROVE  CountsOK'
<1>0. WindowInv /\ TypeInv /\ SafeInv
  BY DEF CountInv, WindowInv, LevelInv, RefInv, SafeInv
<1>1. /\ pc[t] = "update" /\ pc' = [pc EXCEPT ![t] = "release"]
      /\ UNCHANGED <<N, trace, stage, col, tempN, s, iter, thd_count, M, wcount, wcount_i>>
      /\ stamps' = [stamps EXCEPT ![cur_addr[t]] = MovedToFront(s[t], t, tempN[t], prev[t])]
  BY DEF StoreStamps, countVars, accessVars, walkVars, finiVars
<1>2. PICK l : l = cur_addr[t]
  OBVIOUS
<1>3. PICK c : c = thd_count[t]
  OBVIOUS
<1>4. /\ pc \in [Threads -> PcLabels] /\ stamps \in [Lines -> StampLists]
      /\ M \in [Levels -> Nat] /\ N \in Nat
  BY <1>0 DEF TypeInv, TypeOK
<1>5. /\ \A m \in Lines \ {l} : stamps'[m] = stamps[m]
      /\ \A u \in Threads \ {t} : pc'[u] = pc[u]
      /\ pc'[t] = "release"
  BY <1>1, <1>2, <1>4
<1>6. stage = "run" /\ stage' = "run"
  BY <1>0, <1>1, WalkFacts
<1>7. ASSUME NEW k \in Levels, NEW j \in Nat \ {0} PROVE RowOK(k, j)'
  <2>1. PICK ws \in Nat \ {0} : ws = RowWindow(j)
    BY WindowType
  <2>2. k \in Nat /\ RowOK(k, j)
    BY FiniteData DEF CountInv, CountsOK
  <2>3. PICK r : r = Recent(stamps[l], k)
    OBVIOUS
  <2>4. PICK q : q = Recent(stamps'[l], k)
    OBVIOUS
  <2>5. /\ l \in Lines /\ s[t] = stamps[l] /\ c \in Nat /\ tempN[t] \in 1 .. N
        /\ r \in Nat /\ IsRecent(stamps[l], k, r)
        /\ q \in Nat /\ IsRecent(stamps'[l], k, q)
        /\ r <= q /\ q <= tempN[t]
        /\ q = IF k = 0 THEN tempN[t] ELSE Recent(stamps[l], IF k <= c THEN k - 1 ELSE k)
    BY <1>0, <1>2, <1>3, <2>2, <2>3, <2>4, StoreMoves
  <2>6. PICK x \in Int :
          x = WindowsIn(tempN[t] - 1 - r, ws) - WindowsIn(tempN[t] - 1 - q, ws)
    <3>1. tempN[t] \in Int /\ r \in Int /\ q \in Int
      BY <1>4, <2>5
    <3>2. \A p \in Int : WindowsIn(tempN[t] - 1 - p, ws) \in Int
      BY <3>1 DEF WindowsIn
    <3>3. WindowsIn(tempN[t] - 1 - r, ws) \in Int /\ WindowsIn(tempN[t] - 1 - q, ws) \in Int
      BY <3>1, <3>2, Zenon
    <3>. QED
      BY <3>3
  <2>7. OfLine(l, k, ws)' = OfLine(l, k, ws) + x
    <3>1. Cardinality(FewUpTo(l, k, ws, q)') = Cardinality(FewUpTo(l, k, ws, r)) + x
      BY <1>0, <1>2, <2>2, <2>5, <2>6, StoreFew DEF WindowInv
    <3>2. OfLine(l, k, ws) = Cardinality(FewUpTo(l, k, ws, r)) + 0
      BY <1>6, <2>3 DEF OfLine, AtFini, Closed
    <3>3. OfLine(l, k, ws)' = Cardinality(FewUpTo(l, k, ws, q)') + 0
      BY <1>6, <2>4 DEF OfLine, AtFini, Closed, FewUpTo
    <3>4. Cardinality(FewUpTo(l, k, ws, r)) \in Nat
      BY <2>5, FewType
    <3>. QED
      BY <3>1, <3>2, <3>3, <3>4
  <2>8. OfThread(t, k, ws) = x
    <3>1. /\ k <= c <=> k < c \/ k = c
          /\ Since(t, k, ws) = WindowsIn(tempN[t] - 1 - r, ws)
      BY <2>2, <2>3, <2>5 DEF Since
    <3>2. OfThread(t, k, ws) = (IF k <= c THEN Since(t, k, ws) ELSE 0)
                                 - (IF 1 <= k /\ k <= c THEN Since(t, k - 1, ws) ELSE 0)
      BY <1>1, <1>3, <3>1 DEF OfThread
    <3>3. WindowsIn(tempN[t] - 1 - r, ws) \in Int /\ WindowsIn(tempN[t] - 1 - q, ws) \in Int
      BY <1>4, <2>5 DEF WindowsIn
    <3>4. CASE k = 0
      <4>1. WindowsIn(tempN[t] - 1 - q, ws) = 0
        BY <1>4, <2>5, <3>4 DEF WindowsIn
      <4>. QED
        BY <2>5, <2>6, <3>1, <3>2, <3>3, <3>4, <4>1
    <3>5. CASE k # 0 /\ k <= c
      <4>1. Since(t, k - 1, ws) = WindowsIn(tempN[t] - 1 - q, ws) /\ 1 <= k
        BY <2>2, <2>5, <3>5 DEF Since
      <4>. QED
        BY <2>6, <3>1, <3>2, <3>3, <3>5, <4>1
    <3>6. CASE k # 0 /\ ~ (k <= c)
      <4>1. q = r
        BY <2>3, <2>5, <3>6
      <4>. QED
        BY <2>6, <3>2, <3>3, <3>6, <4>1
    <3>. QED
      BY <3>4, <3>5, <3>6
  <2>9. \A m \in Lines : OfLine(m, k, ws)' = IF m = l THEN OfLine(m, k, ws) + x ELSE OfLine(m, k, ws)
    BY <1>1, <1>5, <2>7, LineSame
  <2>10. \A u \in Threads : OfThread(u, k, ws)' = IF u = t THEN OfThread(u, k, ws) + (0 - x)
                                                           ELSE OfThread(u, k, ws)
    <3>. TAKE u \in Threads
    <3>1. CASE u = t
      <4>1. OfThread(t, k, ws)' = 0
        BY <1>5 DEF OfThread
      <4>. QED
        BY <2>6, <2>8, <3>1, <4>1
    <3>2. CASE u # t
      <4>1. /\ pc'[u] = pc[u] /\ tempN'[u] = tempN[u] /\ s'[u] = s[u]
            /\ iter'[u] = iter[u] /\ thd_count'[u] = thd_count[u]
        BY <1>1, <1>5, <3>2
      <4>2. OfThread(u, k, ws)' = OfThread(u, k, ws)
        BY <2>2, <4>1, ThreadSame
      <4>. QED
        BY <3>2, <4>2
    <3>. QED
      BY <3>1, <3>2
  <2>11. SumOf(RowAt(k, ws)', BucketsFrom(j)) = SumOf(RowAt(k, ws), BucketsFrom(j)) + x + (0 - x)
    <3>1. RowAt(k, ws)' = RowAt(k, ws)
      BY <1>1 DEF RowAt
    <3>2. SumOf(RowAt(k, ws), BucketsFrom(j)) \in Int
      BY <1>0, RowSumType
    <3>. QED
      BY <2>6, <3>1, <3>2
  <2>12. 0 - x \in Int
    BY <2>6
  <2>. QED
    BY <1>0, <2>1, <2>2, <2>5, <2>6, <2>9, <2>10, <2>11, <2>12, RowStep
<1>8. ASSUME NEW k \in Levels PROVE LinesOK(k)'
  <2>1. k \in Nat /\ LinesOK(k)
    BY FiniteData DEF CountInv, CountsOK
  <2>2. PICK r : r = Recent(stamps[l], k)
    OBVIOUS
  <2>3. PICK q : q = Recent(stamps'[l], k)
    OBVIOUS
  <2>4. PICK y \in Int : y = IF iter[t] = NIL /\ k = c THEN 1 ELSE 0
    OBVIOUS
  <2>5. l \in Lines /\ (IF r > 0 THEN 1 ELSE 0) + y = (IF q > 0 THEN 1 ELSE 0)
    BY <1>0, <1>2, <1>3, <2>1, <2>2, <2>3, <2>4, StoreRecent
  <2>6. \A m \in Lines : SharedLines(k)'[m] = IF m = l THEN SharedLines(k)[m] + y
                                                       ELSE SharedLines(k)[m]
    <3>. TAKE m \in Lines
    <3>1. CASE m = l
      <4>1. SharedLines(k)[l] = (IF r > 0 THEN 1 ELSE 0) /\ SharedLines(k)'[l] = (IF q > 0 THEN 1 ELSE 0)
        BY <2>2, <2>3, <2>5 DEF SharedLines
      <4>. QED
        BY <2>5, <3>1, <4>1
    <3>2. CASE m # l
      BY <1>5, <3>2 DEF SharedLines
    <3>. QED
      BY <3>1, <3>2
  <2>7. \A u \in Threads : FirstHere(k)'[u] = IF u = t THEN FirstHere(k)[u] + (0 - y)
                                                       ELSE FirstHere(k)[u]
    <3>1. FirstHere(k)[t] = y /\ FirstHere(k)'[t] = 0
      BY <1>1, <1>3, <1>5, <2>4 DEF FirstHere
    <3>2. \A u \in Threads \ {t} : FirstHere(k)'[u] = FirstHere(k)[u]
      BY <1>1, <1>5 DEF FirstHere
    <3>. QED
      BY <2>4, <3>1, <3>2
  <2>8. M'[k] = M[k] + y + (0 - y) /\ 0 - y \in Int
    BY <1>1, <1>4, <2>4
  <2>. QED
    BY <2>1, <2>4, <2>5, <2>6, <2>7, <2>8, LinesStep
<1>9. ASSUME NEW k \in Levels, NEW b \in Buckets PROVE ShortOK(k, b)'
  BY <1>1 DEF ShortOK, CountInv, CountsOK
<1>. QED
  BY <1>7, <1>8, <1>9 DEF CountsOK

\* A step of Fini that counts no interval leaves the counts alone.
LEMMA FiniQuiet ==
  ASSUME CountInv, UNCHANGED <<tableVars, countVars, pc, accessVars, walkVars, trace>>,
         \A l \in Lines, k \in Levels, ws \in Nat \ {0} : AtFini(l, k, ws)' = AtFini(l, k, ws)
  PROVE  CountsOK'
<1>1. UNCHANGED <<countVars, stamps, N, trace, pc, tempN, s, iter, thd_count>>
  BY DEF tableVars, accessVars, walkVars
<1>2. \A k \in Levels, ws \in Nat \ {0} :
        /\ \A l \in Lines : OfLine(l, k, ws)' = OfLine(l, k, ws)
        /\ \A t \in Threads : OfThread(t, k, ws)' = OfThread(t, k, ws)
  BY <1>1, FiniteData, ThreadSame DEF OfLine, FewUpTo
<1>3. \A k \in Levels : FirstHere(k)' = FirstHere(k)
  BY <1>1 DEF FirstHere
<1>4. N' \in Nat /\ N <= N'
  BY <1>1 DEF CountInv, WindowInv, LevelInv, RefInv, SafeInv, TypeInv, TypeOK
<1>. QED
  BY <1>1, <1>2, <1>3, <1>4, CountFrame

\* Fini starts with nothing counted.
LEMMA FiniCounts ==
  ASSUME CountInv, Fini
  PROVE  CountsOK'
<1>1. /\ UNCHANGED <<tableVars, countVars, pc, accessVars, walkVars, trace>>
      /\ stage = "run" /\ col' = [line |-> 0, iter |-> stamps[0].head, thd_count |-> 0]
  BY DEF Fini, FirstStamp
<1>2. ASSUME NEW l \in Lines, NEW k \in Levels, NEW ws \in Nat \ {0}
      PROVE  AtFini(l, k, ws)' = AtFini(l, k, ws)
  <2>1. AtFini(l, k, ws) = 0
    BY <1>1 DEF AtFini, Closed
  <2>2. l \in Nat /\ k \in Nat /\ col'.line = 0 /\ col'.thd_count = 0
    BY <1>1, FiniteData, RecorderAssumption DEF Lines
  <2>3. ~ (l < col'.line \/ (l = col'.line /\ k < col'.thd_count))
    BY <2>2
  <2>. QED
    BY <2>1, <2>3 DEF AtFini
<1>. QED
  BY <1>1, <1>2, FiniQuiet

\* Where CollectLastAccesses is: at the stamp of its level.
LEMMA CollectFacts ==
  ASSUME WindowInv, stage = "collect"
  PROVE  /\ col.line \in Lines /\ stamps[col.line] \in StampLists /\ N \in Nat
         /\ col.thd_count \in Nat /\ col.iter \in Threads \cup {NIL}
         /\ Recent(stamps[col.line], col.thd_count)
              = IF col.iter = NIL THEN 0 ELSE stamps[col.line].latest[col.iter]
         /\ col.iter # NIL => /\ col.thd_count \in Levels
                              /\ stamps[col.line].latest[col.iter] \in Nat
                              /\ stamps[col.line].latest[col.iter] > 0
                              /\ stamps[col.line].latest[col.iter] <= N
         /\ col.iter = NIL => /\ col.thd_count = Cardinality(Passed(stamps[col.line], NIL))
                              /\ \A k \in Nat : k >= col.thd_count => Recent(stamps[col.line], k) = 0
<1>. USE DEF WindowInv, LevelInv, RefInv, SafeInv
<1>. DEFINE list == stamps[col.line]
<1>1. /\ col.line \in Lines /\ list \in StampLists /\ N \in Nat
      /\ col.thd_count \in Nat /\ col.iter \in Threads \cup {NIL}
  BY DEF TypeInv, TypeOK
<1>2. /\ col.iter # NIL => list.latest[col.iter] > 0
      /\ col.thd_count = Cardinality(Passed(list, col.iter))
  BY DEF CollectOK
<1>3. Recent(list, col.thd_count) = IF col.iter = NIL THEN 0 ELSE list.latest[col.iter]
  <2>. HIDE DEF list
  <2>. QED
    BY <1>1, <1>2, RecentAtWalk
<1>4. ASSUME col.iter # NIL
      PROVE  /\ col.thd_count \in Levels
             /\ list.latest[col.iter] \in Nat /\ list.latest[col.iter] <= N
  <2>1. list.latest[col.iter] \in Nat /\ list.latest[col.iter] <= N
    BY <1>1, <1>4 DEF Safe, StampOK, StampLists
  <2>2. col.iter \in Threads /\ col.iter \notin Passed(list, col.iter)
    BY <1>1, <1>4, <2>1 DEF Passed
  <2>3. col.thd_count + 1 <= MAX_THREAD
    BY <1>1, <1>2, <2>2, PassedBound
  <2>. QED
    BY <1>1, <2>1, <2>3, RecorderAssumption DEF Levels
<1>5. ASSUME col.iter = NIL, NEW k \in Nat, k >= col.thd_count PROVE Recent(list, k) = 0
  <2>1. col.thd_count = Cardinality(LaterThan(list, 0))
    BY <1>2, <1>5, PassedIsLater
  <2>2. IsRecent(list, k, Recent(list, k)) /\ Recent(list, k) \in Nat
    BY <1>1, LineRecent
  <2>3. ~ (Recent(list, k) > 0)
    <3>. HIDE DEF list
    <3>. QED
      BY <1>1, <1>5, <2>1, <2>2, RecentPositive
  <2>. QED
    BY <2>2, <2>3
<1>. QED
  BY <1>1, <1>2, <1>3, <1>4, <1>5

\* The interval from a last access to the end of the trace counts the windows
\* that begin after it.
LEMMA CollectCounts ==
  ASSUME CountInv, CollectStamp
  PROVE  CountsOK'
<1>0. WindowInv /\ TypeInv /\ SafeInv
  BY DEF CountInv, WindowInv, LevelInv, RefInv, SafeInv
<1>1. /\ stage = "collect" /\ col.iter # NIL
      /\ col' = [col EXCEPT !.iter = stamps[col.line].next[col.iter], !.thd_count = @ + 1]
      /\ UNCHANGED <<stamps, N, M, pc, tempN, s, iter, thd_count, stage, trace>>
  BY DEF CollectStamp, tableVars, accessVars, walkVars
<1>2. PICK l : l = col.line
  OBVIOUS
<1>3. PICK c : c = col.thd_count
  OBVIOUS
<1>4. PICK r : r = stamps[col.line].latest[col.iter]
  OBVIOUS
<1>5. /\ l \in Lines /\ N \in Nat /\ c \in Nat /\ c \in Levels
      /\ r \in Nat /\ r > 0 /\ r <= N /\ Recent(stamps[l], c) = r
  BY <1>0, <1>1, <1>2, <1>3, <1>4, CollectFacts
<1>6. PICK d \in Nat : d = N - r
  BY <1>5
<1>7. d <= N /\ d < 2 ^ WordBits
  BY <1>0, <1>5, <1>6, WithinWord
<1>8. PICK b : b = sublog_value_to_index(d)
  OBVIOUS
<1>9. /\ wcount' = [wcount EXCEPT ![c][b] = @ + 1]
      /\ wcount_i' = [wcount_i EXCEPT ![c][b] = @ + d]
      /\ b \in Buckets
  BY <1>3, <1>4, <1>6, <1>7, <1>8, BucketBoundaries DEF CollectStamp, Buckets
<1>10. /\ wcount \in [Levels -> [Buckets -> Int]] /\ wcount_i \in [Levels -> [Buckets -> Int]]
       /\ col \in [line : Lines, iter : Threads \cup {NIL}, thd_count : Nat]
  BY <1>0 DEF TypeInv, TypeOK
<1>11. \A k \in Levels, i \in Buckets :
         /\ wcount'[k][i] = IF k = c /\ i = b THEN wcount[k][i] + 1 ELSE wcount[k][i]
         /\ wcount_i'[k][i] = IF k = c /\ i = b THEN wcount_i[k][i] + d ELSE wcount_i[k][i]
  <2>1. d \in Int /\ 1 \in Int
    OBVIOUS
  <2>2. \A k \in Levels, i \in Buckets :
          wcount'[k][i] = IF k = c /\ i = b THEN wcount[k][i] + 1 ELSE wcount[k][i]
    BY <1>5, <1>9, <1>10, <2>1, CountAdd
  <2>3. \A k \in Levels, i \in Buckets :
          wcount_i'[k][i] = IF k = c /\ i = b THEN wcount_i[k][i] + d ELSE wcount_i[k][i]
    BY <1>5, <1>9, <1>10, <2>1, CountAdd
  <2>. QED
    BY <2>2, <2>3
<1>12. col'.line = l /\ col'.thd_count = c + 1
  BY <1>1, <1>2, <1>3, <1>10
<1>13. ASSUME NEW k \in Levels
       PROVE  \E e \in {-1, 0, 1} :
                /\ CountedAt(k, d, e)
                /\ \A ws \in Nat \ {0}, m \in Lines :
                     OfLine(m, k, ws)' = IF m = l THEN OfLine(m, k, ws) + e * WindowsIn(d, ws)
                                                  ELSE OfLine(m, k, ws)
  <2>1. k \in Nat
    BY FiniteData
  <2>2. PICK e \in {-1, 0, 1} : e = IF k = c THEN 1 ELSE 0
    OBVIOUS
  <2>3. CountedAt(k, d, e)
    <3>1. \A i \in Buckets : wcount[k][i] \in Int /\ wcount_i[k][i] \in Int
      BY <1>10
    <3>2. CASE k = c
      BY <1>8, <1>11, <2>2, <3>1, <3>2 DEF CountedAt
    <3>3. CASE k # c
      BY <1>8, <1>11, <2>2, <3>1, <3>3 DEF CountedAt
    <3>. QED
      BY <3>2, <3>3
  <2>4. ASSUME NEW ws \in Nat \ {0}, NEW m \in Lines
        PROVE  OfLine(m, k, ws)' = IF m = l THEN OfLine(m, k, ws) + e * WindowsIn(d, ws)
                                            ELSE OfLine(m, k, ws)
    <3>1. PICK f : f = Cardinality(FewUpTo(m, k, ws, Recent(stamps[m], k)))
      OBVIOUS
    <3>2. f \in Nat
      BY <1>0, <2>1, <3>1, LineRecent, FewType
    <3>3. /\ OfLine(m, k, ws) = f + AtFini(m, k, ws)
          /\ OfLine(m, k, ws)' = f + AtFini(m, k, ws)'
      BY <1>1, <3>1 DEF OfLine, FewUpTo
    <3>4. WindowsIn(d, ws) \in Int
      BY DEF WindowsIn
    <3>5. CASE m = l /\ k = c
      <4>1. AtFini(m, k, ws) = 0
        BY <1>2, <1>3, <1>5, <3>5 DEF AtFini, Lines
      <4>2. AtFini(m, k, ws)' = WindowsIn(d, ws)
        BY <1>1, <1>5, <1>6, <1>12, <3>5 DEF AtFini, Closed
      <4>. QED
        BY <2>2, <3>2, <3>3, <3>4, <3>5, <4>1, <4>2
    <3>6. CASE ~ (m = l /\ k = c)
      <4>1. (m < l \/ (m = l /\ k < c)) <=> (m < l \/ (m = l /\ k < c + 1))
        BY <1>5, <2>1, <3>6
      <4>2. AtFini(m, k, ws)' = AtFini(m, k, ws)
        BY <1>1, <1>2, <1>3, <1>12, <4>1 DEF AtFini, Closed
      <4>3. OfLine(m, k, ws) \in Int
        BY <1>0, <2>1, CountTypes
      <4>. QED
        BY <2>2, <3>3, <3>4, <3>6, <4>2, <4>3
    <3>. QED
      BY <3>5, <3>6
  <2>. QED
    BY <2>3, <2>4
<1>14. ASSUME NEW k \in Levels, NEW j \in Nat \ {0} PROVE RowOK(k, j)'
  <2>1. PICK ws \in Nat \ {0} : ws = RowWindow(j)
    BY WindowType
  <2>2. PICK e \in {-1, 0, 1} :
          /\ CountedAt(k, d, e)
          /\ \A m \in Lines :
               OfLine(m, k, ws)' = IF m = l THEN OfLine(m, k, ws) + e * WindowsIn(d, ws)
                                            ELSE OfLine(m, k, ws)
    BY <1>13
  <2>3. PICK x \in Int : x = e * WindowsIn(d, ws)
    BY DEF WindowsIn
  <2>4. k \in Nat /\ RowOK(k, j)
    BY FiniteData DEF CountInv, CountsOK
  <2>5. PICK t : t \in Threads
    BY ThreadIdAssumption DEF Threads
  <2>6. \A u \in Threads : OfThread(u, k, ws)' = IF u = t THEN OfThread(u, k, ws) + 0
                                                          ELSE OfThread(u, k, ws)
    <3>. TAKE u \in Threads
    <3>1. OfThread(u, k, ws)' = OfThread(u, k, ws) /\ OfThread(u, k, ws) \in Int
      BY <1>0, <1>1, <2>4, ThreadSame, CountTypes
    <3>. QED
      BY <3>1
  <2>7. SumOf(RowAt(k, ws)', BucketsFrom(j)) = SumOf(RowAt(k, ws), BucketsFrom(j)) + x + 0
    <3>1. SumOf(RowAt(k, ws)', BucketsFrom(j))
            = SumOf(RowAt(k, ws), BucketsFrom(j)) + e * WindowsIn(d, ws)
      BY <1>0, <1>7, <2>1, <2>2, LevelCounts
    <3>2. SumOf(RowAt(k, ws), BucketsFrom(j)) \in Int
      BY <1>0, RowSumType
    <3>. QED
      BY <2>3, <3>1, <3>2
  <2>. QED
    BY <1>0, <1>5, <2>1, <2>2, <2>3, <2>4, <2>5, <2>6, <2>7, RowStep
<1>15. ASSUME NEW k \in Levels, NEW i \in Buckets PROVE ShortOK(k, i)'
  <2>1. PICK e : CountedAt(k, d, e)
    BY <1>13
  <2>2. ShortOK(k, i)
    BY DEF CountInv, CountsOK
  <2>. QED
    BY <1>1, <1>5, <1>7, <2>1, <2>2, LevelShort
<1>16. ASSUME NEW k \in Levels PROVE LinesOK(k)'
  <2>1. SharedLines(k)' = SharedLines(k) /\ FirstHere(k)' = FirstHere(k) /\ M'[k] = M[k]
    BY <1>1 DEF SharedLines, FirstHere
  <2>. QED
    BY <2>1 DEF CountInv, CountsOK, LinesOK
<1>. QED
  BY <1>14, <1>15, <1>16 DEF CountsOK

\* At the end of a list nothing of it is left to count.
LEMMA NextListCounts ==
  ASSUME CountInv, CollectNext
  PROVE  CountsOK'
<1>0. WindowInv
  BY DEF CountInv
<1>1. /\ stage = "collect" /\ col.iter = NIL
      /\ UNCHANGED <<tableVars, countVars, pc, accessVars, walkVars, trace>>
      /\ UNCHANGED <<stamps, N>>
  BY DEF CollectNext, tableVars
<1>2. /\ col.line \in Lines /\ col.thd_count \in Nat
      /\ \A k \in Nat : k >= col.thd_count => Recent(stamps[col.line], k) = 0
  BY <1>0, <1>1, CollectFacts
<1>3. CASE col.line + 1 < NumLines
  <2>1. /\ stage' = stage
        /\ col' = [line |-> col.line + 1, iter |-> stamps[col.line + 1].head, thd_count |-> 0]
    BY <1>3 DEF CollectNext, FirstStamp
  <2>2. ASSUME NEW l \in Lines, NEW k \in Levels, NEW ws \in Nat \ {0}
        PROVE  AtFini(l, k, ws)' = AtFini(l, k, ws)
    <3>1. /\ k \in Nat /\ l \in Nat /\ col.line \in Nat
          /\ col'.line = col.line + 1 /\ col'.thd_count = 0
      BY <1>2, <2>1, FiniteData, RecorderAssumption DEF Lines
    <3>2. CASE l = col.line /\ k >= col.thd_count
      BY <1>1, <1>2, <3>1, <3>2 DEF AtFini
    <3>3. CASE ~ (l = col.line /\ k >= col.thd_count)
      <4>1. l < col'.line \/ (l = col'.line /\ k < col'.thd_count)
              <=> l < col.line \/ (l = col.line /\ k < col.thd_count)
        BY <1>2, <3>1, <3>3
      <4>. QED
        BY <1>1, <2>1, <4>1 DEF AtFini, Closed
    <3>. QED
      BY <3>2, <3>3
  <2>. QED
    BY <1>1, <2>2, FiniQuiet
<1>4. CASE ~ (col.line + 1 < NumLines)
  <2>1. stage' = "done" /\ col' = col
    BY <1>4 DEF CollectNext
  <2>2. \A l \in Lines, k \in Levels, ws \in Nat \ {0} : AtFini(l, k, ws)' = AtFini(l, k, ws)
    BY <1>1, <2>1 DEF AtFini, Closed
  <2>. QED
    BY <1>1, <2>2, FiniQuiet
<1>. QED
  BY <1>3, <1>4

\* A walk that has ended keeps its level until the list is stored.
LEMMA NextEndedOK ==
  ASSUME SafeInv, \A t \in Threads : EndedOK(t), [Next]_vars
  PROVE  \A t \in Threads : EndedOK(t)'
<1>1. pc \in [Threads -> PcLabels]
  BY DEF SafeInv, TypeInv, TypeOK
<1>2. ASSUME NEW t \in Threads, pc'[t] = pc[t] \/ pc'[t] # "update",
             pc[t] = "update" => UNCHANGED <<s, iter, thd_count>>
      PROVE  EndedOK(t)'
  BY <1>2 DEF EndedOK
<1>3. CASE UNCHANGED <<pc, s, iter, thd_count>>
  BY <1>2, <1>3
<1>4. ASSUME NEW t \in Threads,
             RecordMem(t) \/ ReserveStamp(t) \/ StoreStamps(t)
      PROVE  \A u \in Threads : EndedOK(u)'
  <2>1. /\ pc'[t] # "update" /\ UNCHANGED <<s, iter, thd_count>>
        /\ \A u \in Threads : u # t => pc'[u] = pc[u]
    BY <1>1, <1>4 DEF RecordMem, ReserveStamp, StoreStamps, walkVars
  <2>. QED
    BY <1>2, <2>1
<1>5. ASSUME NEW t \in Threads, MeetOwnStamp(t) \/ FirstAccess(t)
      PROVE  \A u \in Threads : EndedOK(u)'
  <2>1. /\ pc[t] = "visit" /\ UNCHANGED <<s, iter, thd_count>>
        /\ \A u \in Threads : u # t => pc'[u] = pc[u]
    BY <1>1, <1>5 DEF MeetOwnStamp, FirstAccess, walkVars
  <2>2. thd_count[t] = Cardinality(Passed(s[t], iter[t]))
    BY <2>1 DEF SafeInv, Safe, WalkOK, WalkOf
  <2>. QED
    BY <1>2, <2>1, <2>2 DEF EndedOK
<1>6. ASSUME NEW t \in Threads, LoadStamps(t) \/ PassStamp(t) \/ LockRelease(t)
      PROVE  \A u \in Threads : EndedOK(u)'
  <2>1. /\ pc'[t] # "update"
        /\ \A u \in Threads : u # t => /\ pc'[u] = pc[u] /\ s'[u] = s[u] /\ iter'[u] = iter[u]
                                       /\ thd_count'[u] = thd_count[u]
    <3>1. /\ s \in [Threads -> StampLists] /\ iter \in [Threads -> Threads \cup {NIL}]
          /\ thd_count \in [Threads -> Nat]
      BY DEF SafeInv, TypeInv, TypeOK
    <3>. QED
      BY <1>1, <1>6, <3>1 DEF LoadStamps, PassStamp, LockRelease
  <2>. QED
    BY <2>1 DEF EndedOK
<1>7. ASSUME NEW t \in Threads, Lifecycle(t) \/ LockAcquire(t) \/ LockSpin(t)
      PROVE  UNCHANGED <<pc, s, iter, thd_count>>
  BY <1>7 DEF Lifecycle, LockAcquire, LockSpin, vars, walkVars
<1>8. CASE Fini \/ CollectStamp \/ CollectNext \/ UNCHANGED vars
  BY <1>3, <1>8 DEF Fini, CollectStamp, CollectNext, vars, walkVars
<1>. QED
  BY <1>3, <1>4, <1>5, <1>6, <1>7, <1>8 DEF Next, Recording, Terminated

\* After the end nothing changes.
LEMMA NextEndOK == LevelInv /\ EndOK /\ [Next]_vars => EndOK'
<1>. SUFFICES ASSUME LevelInv, EndOK, [Next]_vars PROVE EndOK'
  OBVIOUS
<1>1. CASE UNCHANGED <<stage, col, stamps>>
  BY <1>1 DEF EndOK
<1>2. ASSUME stage = "run", UNCHANGED stage PROVE EndOK'
  BY <1>2 DEF EndOK
<1>3. ASSUME NEW t \in Threads, Lifecycle(t) \/ RecordMem(t) PROVE EndOK'
  BY <1>2, <1>3 DEF Lifecycle, RecordMem, finiVars
<1>4. ASSUME NEW t \in Threads, Recording(t) PROVE EndOK'
  <2>1. CASE LockSpin(t)
    BY <1>1, <2>1 DEF LockSpin, vars, tableVars, finiVars
  <2>2. CASE ~ LockSpin(t)
    <3>1. pc[t] # "idle" /\ UNCHANGED stage
      BY <1>4, <2>2 DEF Recording, LockAcquire, Waiting, ReserveStamp, LoadStamps, PassStamp,
            MeetOwnStamp, FirstAccess, StoreStamps, LockRelease, finiVars
    <3>2. stage = "run"
      BY <3>1 DEF LevelInv, RefInv, LiveOK, Closed
    <3>. QED
      BY <1>2, <3>1, <3>2
  <2>. QED
    BY <2>1, <2>2
<1>5. CASE Fini \/ CollectStamp
  BY <1>5 DEF Fini, CollectStamp, EndOK
<1>6. CASE CollectNext
  <2>1. stage = "collect" /\ col.iter = NIL /\ UNCHANGED stamps
    BY <1>6 DEF CollectNext, tableVars
  <2>2. CASE col.line + 1 < NumLines
    BY <1>6, <2>1, <2>2 DEF CollectNext, EndOK
  <2>3. CASE ~ (col.line + 1 < NumLines)
    <3>1. col.line \in Nat /\ NumLines \in Nat
      BY RecorderAssumption DEF LevelInv, RefInv, SafeInv, TypeInv, TypeOK, Lines
    <3>2. col.line + 1 >= NumLines
      BY <2>3, <3>1
    <3>3. UNCHANGED col
      BY <1>6, <2>3 DEF CollectNext
    <3>4. col.thd_count = Cardinality(Passed(stamps[col.line], NIL))
      BY <2>1 DEF LevelInv, CollectOK
    <3>. QED
      BY <2>1, <3>2, <3>3, <3>4 DEF EndOK
  <2>. QED
    BY <2>2, <2>3
<1>7. CASE UNCHANGED vars
  BY <1>1, <1>7 DEF vars, tableVars, finiVars
<1>. QED
  BY <1>3, <1>4, <1>5, <1>6, <1>7 DEF Next, Terminated

\* Nothing is counted at first.
LEMMA InitCounts == Init => CountsOK
<1>. SUFFICES ASSUME Init PROVE CountsOK
  OBVIOUS
<1>1. /\ stamps = [l \in Lines |-> EmptyStamps] /\ N = 0 /\ M = [k \in Levels |-> 0]
      /\ wcount = [k \in Levels |-> [b \in Buckets |-> 0]]
      /\ wcount_i = [k \in Levels |-> [b \in Buckets |-> 0]]
      /\ pc = [t \in Threads |-> "idle"] /\ stage = "run"
  BY DEF Init
<1>2. ASSUME NEW k \in Nat PROVE Recent(EmptyStamps, k) = 0
  <2>1. EmptyStamps \in StampLists /\ \A u \in Threads : EmptyStamps.latest[u] <= 0
    BY EmptyType DEF EmptyStamps
  <2>2. IsRecent(EmptyStamps, k, Recent(EmptyStamps, k)) /\ Recent(EmptyStamps, k) <= 0
    BY <2>1, RecentExists
  <2>3. Recent(EmptyStamps, k) \in Nat
    BY <2>2 DEF IsRecent
  <2>. QED
    BY <2>2, <2>3
<1>3. ASSUME NEW k \in Levels, NEW j \in Nat \ {0} PROVE RowOK(k, j)
  <2>1. PICK ws \in Nat \ {0} : ws = RowWindow(j)
    BY WindowType
  <2>2. k \in Nat
    BY FiniteData
  <2>3. \A l \in Lines : OfLine(l, k, ws) = 0
    <3>. TAKE l \in Lines
    <3>1. Recent(stamps[l], k) = 0
      BY <1>1, <1>2, <2>2
    <3>2. FewUpTo(l, k, ws, 0) = {}
      BY DEF FewUpTo
    <3>3. Cardinality(FewUpTo(l, k, ws, 0)) = 0
      BY <3>2, FS_EmptySet
    <3>. QED
      BY <1>1, <3>1, <3>3 DEF OfLine, AtFini, Closed
  <2>4. \A t \in Threads : OfThread(t, k, ws) = 0
    BY <1>1 DEF OfThread
  <2>5. PICK F : F = LinesAt(k, ws)
    OBVIOUS
  <2>6. PICK P : P = ThreadsAt(k, ws)
    OBVIOUS
  <2>7. PICK R : R = RowAt(k, ws)
    OBVIOUS
  <2>8. /\ \A l \in Lines : F[l] = 0
        /\ \A t \in Threads : P[t] = 0
        /\ \A b \in BucketsFrom(j) : R[b] = 0
    <3>1. \A b \in BucketsFrom(j) : R[b] = 0
      BY <1>1, <2>1, <2>7 DEF RowAt, BucketsFrom
    <3>. QED
      BY <2>3, <2>4, <2>5, <2>6, <3>1 DEF LinesAt, ThreadsAt
  <2>9. SumOf(F, Lines) = 0 /\ SumOf(P, Threads) = 0 /\ SumOf(R, BucketsFrom(j)) = 0
    <3>1. SumOf(F, Lines) = 0
      BY <2>8, FiniteData, SumZero
    <3>2. SumOf(P, Threads) = 0
      BY <2>8, ThreadCount, SumZero
    <3>3. SumOf(R, BucketsFrom(j)) = 0
      BY <2>8, FiniteData, SumZero
    <3>. QED
      BY <3>1, <3>2, <3>3
  <2>10. SumOf(R, BucketsFrom(j)) = SumOf(F, Lines) + SumOf(P, Threads)
    BY <2>9
  <2>. QED
    BY <2>1, <2>5, <2>6, <2>7, <2>10 DEF RowOK
<1>4. ASSUME NEW k \in Levels PROVE LinesOK(k)
  <2>1. k \in Nat
    BY FiniteData
  <2>2. PICK F : F = SharedLines(k)
    OBVIOUS
  <2>3. PICK P : P = FirstHere(k)
    OBVIOUS
  <2>4. \A l \in Lines : F[l] = 0
    BY <1>1, <1>2, <2>1, <2>2 DEF SharedLines
  <2>5. \A t \in Threads : P[t] = 0
    BY <1>1, <2>3 DEF FirstHere
  <2>6. SumOf(F, Lines) = 0
    BY <2>4, FiniteData, SumZero
  <2>7. SumOf(P, Threads) = 0
    BY <2>5, ThreadCount, SumZero
  <2>. QED
    BY <1>1, <2>2, <2>3, <2>6, <2>7 DEF LinesOK
<1>5. ASSUME NEW k \in Levels, NEW b \in Buckets PROVE ShortOK(k, b)
  BY <1>1 DEF ShortOK
<1>. QED
  BY <1>3, <1>4, <1>5 DEF CountsOK

\* Every step keeps the counts exact.
LEMMA NextCountInv == CountInv /\ [Next]_vars => CountInv'
<1>. SUFFICES ASSUME CountInv, [Next]_vars PROVE CountInv'
  OBVIOUS
<1>1. WindowInv /\ LevelInv /\ RefInv /\ SafeInv /\ TypeInv
  BY DEF CountInv, WindowInv, LevelInv, RefInv, SafeInv
<1>2. WindowInv'
  <2>1. LevelInv'
    <3>1. SafeInv' /\ LiveOK' /\ CollectOK'
      BY <1>1, NextSafeInv, NextLiveOK, NextCollectOK DEF RefInv, SafeInv
    <3>. QED
      BY <3>1 DEF LevelInv, RefInv
  <2>2. TraceOK' /\ BoundOK' /\ EndOK'
    BY <1>1, NextTraceOK, NextBoundOK, NextEndOK DEF WindowInv
  <2>3. \A t \in Threads : EndedOK(t)'
    BY <1>1, NextEndedOK DEF WindowInv
  <2>. QED
    BY <1>1, <2>1, <2>2, <2>3 DEF WindowInv, Aligned, TraceFits, Touched, LinesOf, LineBase, LineEnd
<1>3. CountsOK'
  <2>1. pc \in [Threads -> PcLabels] /\ thd_count \in [Threads -> Nat]
    BY <1>1 DEF TypeInv, TypeOK
  <2>2. CASE UNCHANGED <<countVars, stamps, N, trace, stage, col, pc, tempN, s, iter, thd_count>>
    BY <2>2, QuietCounts
  <2>3. ASSUME NEW t \in Threads, Lifecycle(t) \/ LockAcquire(t) \/ LockSpin(t) PROVE CountsOK'
    BY <2>2, <2>3 DEF Lifecycle, LockAcquire, LockSpin, vars, tableVars, accessVars, walkVars, finiVars
  <2>4. ASSUME NEW t \in Threads, RecordMem(t) PROVE CountsOK'
    <3>1. /\ UNCHANGED <<countVars, stamps, N, trace, stage, col, tempN, s, iter, thd_count>>
          /\ pc[t] = "idle" /\ pc'[t] = "acquire"
          /\ \A u \in Threads : u # t => pc'[u] = pc[u]
      BY <2>1, <2>4 DEF RecordMem, tableVars, walkVars, finiVars
    <3>. QED
      BY <3>1, QuietCounts
  <2>5. ASSUME NEW t \in Threads, LoadStamps(t) \/ LockRelease(t) PROVE CountsOK'
    <3>1. /\ s \in [Threads -> StampLists] /\ iter \in [Threads -> Threads \cup {NIL}]
          /\ tempN \in [Threads -> Nat]
      BY <1>1 DEF TypeInv, TypeOK
    <3>2. CASE LoadStamps(t)
      <4>1. /\ UNCHANGED <<countVars, stamps, N, trace, stage, col, tempN>>
            /\ pc[t] = "load" /\ pc'[t] = "visit" /\ thd_count'[t] = 0
            /\ \A u \in Threads : u # t => /\ pc'[u] = pc[u] /\ s'[u] = s[u] /\ iter'[u] = iter[u]
                                           /\ thd_count'[u] = thd_count[u]
        BY <2>1, <3>1, <3>2 DEF LoadStamps, tableVars, accessVars, finiVars
      <4>. QED
        BY <4>1, QuietCounts
    <3>3. CASE LockRelease(t)
      <4>1. /\ UNCHANGED <<countVars, stamps, N, trace, stage, col>>
            /\ pc[t] = "release" /\ pc'[t] \in {"load", "idle"}
            /\ \A u \in Threads : u # t => /\ pc'[u] = pc[u] /\ s'[u] = s[u] /\ iter'[u] = iter[u]
                                           /\ thd_count'[u] = thd_count[u] /\ tempN'[u] = tempN[u]
        BY <2>1, <3>1, <3>3 DEF LockRelease, finiVars
      <4>. QED
        BY <4>1, QuietCounts
    <3>. QED
      BY <2>5, <3>2, <3>3
  <2>6. CASE UNCHANGED vars
    BY <2>2, <2>6 DEF vars, tableVars, accessVars, walkVars, finiVars
  <2>. QED
    BY <2>3, <2>4, <2>5, <2>6, ReserveCounts, PassCounts, EndCounts, StoreCounts,
       FiniCounts, CollectCounts, NextListCounts DEF Next, Recording, Terminated
<1>. QED
  BY <1>2, <1>3 DEF CountInv

\* The counts of every reachable state are exact.
LEMMA CountInvariant ==
  ASSUME Aligned, TraceFits
  PROVE  Spec => []CountInv
<1>1. Init => CountInv
  <2>1. Init => TypeInv /\ Safe /\ LiveOK /\ CollectOK
    BY InitTypeInv, InitSafe DEF Init, ThreadInit, LiveOK, Closed, CollectOK
  <2>2. Init => TraceOK
    BY DEF Init, TraceOK, CurrentOf, StampedBy, Entered, Busy, EmptyStamps
  <2>3. Init => BoundOK
    <3>1. Init => Unstamped = {} /\ N = 0
      BY DEF Init, Unstamped
    <3>. QED
      BY <3>1, FS_EmptySet, RecorderAssumption DEF BoundOK
  <2>4. Init => EndOK /\ \A t \in Threads : EndedOK(t)
    BY DEF Init, EndOK, EndedOK
  <2>. QED
    BY <2>1, <2>2, <2>3, <2>4, InitCounts DEF CountInv, WindowInv, LevelInv, RefInv, SafeInv
<1>. QED
  BY <1>1, NextCountInv, PTL DEF Spec

-----------------------------------------------------------------------------
(***************************************************************************)
(* The report.                                                             *)
(***************************************************************************)
\* MapThenSumSet adds up the buckets of a row ...
LEMMA SumBucketsIs ==
  ASSUME NEW count, NEW k, NEW F, F = count[k], NEW j, IsFiniteSet(j .. sublog_value_to_index(N + 1))
  PROVE  SumBuckets(count, k, j) = SumOf(F, j .. sublog_value_to_index(N + 1))
<1>. DEFINE T == j .. sublog_value_to_index(N + 1)
            V(b) == count[k][b]
            P(h) == h = [u \in SUBSET T |->
                           IF u = {} THEN 0 ELSE V(Picked(u)) + h[u \ {Picked(u)}]]
<1>0. IsFiniteSet(T)
  OBVIOUS
<1>1. SumBuckets(count, k, j) = (CHOOSE h : P(h))[T]
  BY Zenon DEF SumBuckets, MapThenSumSet, MapThenFoldSet, Picked
<1>2. \A b \in T : F[b] = V(b)
  OBVIOUS
<1>. HIDE DEF V, T
<1>3. \A h : IsSum(F, T, h) <=> P(h)
  <2>1. \A u \in SUBSET T : u # {} => F[Picked(u)] = V(Picked(u))
    BY <1>2, PickedIn
  <2>. QED
    BY <2>1 DEF IsSum
<1>4. P(CHOOSE h : P(h))
  <2>1. \E h : P(h)
    BY <1>0, <1>3, SumExists
  <2>. HIDE DEF P
  <2>. QED
    BY <2>1
<1>. HIDE DEF P
<1>. QED
  BY <1>0, <1>1, <1>3, <1>4, SumIs DEF T

\* ... and the shared windows of the lines.
LEMMA FootprintIs ==
  ASSUME NEW F, NEW tr, NEW k, NEW ws, \A l \in Lines : F[l] = SharedWindows(tr, l, k, ws)
  PROVE  SharedFootprint(tr, Lines, k, ws) = SumOf(F, Lines)
<1>. DEFINE V(l) == SharedWindows(tr, l, k, ws)
            P(h) == h = [u \in SUBSET Lines |->
                           IF u = {} THEN 0 ELSE V(Picked(u)) + h[u \ {Picked(u)}]]
<1>1. SharedFootprint(tr, Lines, k, ws) = (CHOOSE h : P(h))[Lines]
  BY Zenon DEF SharedFootprint, MapThenSumSet, MapThenFoldSet, Picked
<1>2. \A l \in Lines : F[l] = V(l)
  OBVIOUS
<1>. HIDE DEF V
<1>3. \A h : IsSum(F, Lines, h) <=> P(h)
  <2>1. \A u \in SUBSET Lines : u # {} => F[Picked(u)] = V(Picked(u))
    BY <1>2, PickedIn
  <2>. QED
    BY <2>1 DEF IsSum
<1>4. P(CHOOSE h : P(h))
  <2>1. \E h : P(h)
    BY <1>3, SumExists, FiniteData
  <2>. HIDE DEF P
  <2>. QED
    BY <2>1
<1>. HIDE DEF P
<1>. QED
  BY <1>1, <1>3, <1>4, SumIs, FiniteData

\* No row is for windows longer than the trace.
LEMMA RowFits ==
  ASSUME WindowInv, NEW j \in Rows
  PROVE  /\ j \in Nat \ {0} /\ RowWindow(j) \in 1 .. N /\ N \in Nat
         /\ sublog_value_to_index(N + 1) \in Buckets
<1>1. N \in Nat /\ N < 2 ^ WordBits /\ N + 1 < 2 ^ WordBits
  <2>1. 0 \in Nat /\ N \in Nat
    BY DEF WindowInv, LevelInv, RefInv, SafeInv, TypeInv, TypeOK
  <2>2. 0 <= N
    BY <2>1
  <2>. QED
    BY <2>1, <2>2, WithinWord
<1>2. PICK i : i = sublog_value_to_index(N)
  OBVIOUS
<1>3. i \in 0 .. MAX_WINDOW - 1 /\ \A m \in Nat : i >= m <=> N >= sublog_index_to_value(m)
  BY <1>1, <1>2, BucketBoundaries
<1>4. j \in 1 .. i
  BY <1>2 DEF Rows
<1>5. j \in Nat \ {0} /\ i >= j
  <2>1. i \in Int
    BY <1>3
  <2>. QED
    BY <1>4, <2>1
<1>6. RowWindow(j) \in Nat \ {0} /\ N >= RowWindow(j)
  BY <1>3, <1>5, WindowType DEF RowWindow
<1>7. sublog_value_to_index(N + 1) \in Buckets
  <2>1. N + 1 \in Nat
    BY <1>1
  <2>. QED
    BY <1>1, <2>1, BucketBoundaries DEF Buckets
<1>. QED
  BY <1>1, <1>5, <1>6, <1>7

\* What the two sums of a row come to is the sum of the row.
LEMMA RowSums ==
  ASSUME CountInv, NEW k \in Levels, NEW j \in Rows, NEW ws, ws = RowWindow(j)
  PROVE  SumBuckets(wcount_i, k, j) - (ws - 1) * SumBuckets(wcount, k, j)
           = SumOf(RowAt(k, ws), BucketsFrom(j))
<1>1. /\ j \in Nat \ {0} /\ ws \in 1 .. N /\ N \in Nat
      /\ sublog_value_to_index(N + 1) \in Buckets
  BY RowFits DEF CountInv
<1>2. PICK n : n = sublog_value_to_index(N + 1)
  OBVIOUS
<1>3. n \in Buckets /\ \A m \in Nat : n >= m <=> N + 1 >= sublog_index_to_value(m)
  <2>1. N + 1 \in Nat /\ N + 1 < 2 ^ WordBits
    <3>1. 0 \in Nat /\ 0 <= N
      BY <1>1
    <3>. QED
      BY <1>1, <3>1, WithinWord DEF CountInv
  <2>. QED
    BY <1>1, <1>2, <2>1, BucketBoundaries
<1>4. PICK T : T = j .. n
  OBVIOUS
<1>5. T \subseteq BucketsFrom(j) /\ IsFiniteSet(BucketsFrom(j)) /\ BucketsFrom(j) \subseteq Buckets
  <2>1. \A b \in T : b \in Buckets /\ b >= j
    BY <1>1, <1>3, <1>4, FiniteData DEF Buckets
  <2>. QED
    BY <2>1, FiniteData DEF BucketsFrom
<1>6. IsFiniteSet(T)
  BY <1>5, FS_Subset
<1>7. \A b \in Buckets : wcount[k][b] \in Int /\ wcount_i[k][b] \in Int
  BY DEF CountInv, WindowInv, LevelInv, RefInv, SafeInv, TypeInv, TypeOK
<1>8. ASSUME NEW b \in BucketsFrom(j) \ T PROVE wcount[k][b] = 0 /\ wcount_i[k][b] = 0
  <2>1. b \in Buckets /\ b \in Nat /\ b >= j /\ ~ (n >= b)
    BY <1>1, <1>3, <1>4, <1>5 DEF BucketsFrom, Buckets
  <2>2. sublog_index_to_value(b) \in Nat /\ ~ (N + 1 >= sublog_index_to_value(b))
    BY <1>3, <2>1, BucketValue
  <2>3. sublog_index_to_value(b) > N
    BY <1>1, <2>2
  <2>. QED
    BY <2>1, <2>3 DEF CountInv, CountsOK, ShortOK
<1>9. PICK R : R = RowAt(k, ws)
  OBVIOUS
<1>10. PICK F : F = wcount_i[k]
  OBVIOUS
<1>11. PICK G : G = wcount[k]
  OBVIOUS
<1>12. PICK a \in Int : a = ws - 1
  BY <1>1
<1>0. PICK one \in Int, m \in Int : one = 1 /\ m = 0 - a
  OBVIOUS
<1>13. \A x, y \in Int : a * x \in Int /\ y - a * x = one * y + m * x
  BY <1>0
<1>14. \A b \in Buckets : /\ F[b] \in Int /\ G[b] \in Int /\ R[b] \in Int
                          /\ R[b] = F[b] - a * G[b]
                          /\ R[b] = one * F[b] + m * G[b]
  <2>. TAKE b \in Buckets
  <2>1. PICK x \in Int, y \in Int : x = G[b] /\ y = F[b]
    BY <1>7, <1>10, <1>11
  <2>2. R[b] = y - a * x
    BY <1>9, <1>10, <1>11, <1>12, <2>1 DEF RowAt
  <2>3. a * x \in Int /\ y - a * x = one * y + m * x
    BY <1>13
  <2>. QED
    BY <2>1, <2>2, <2>3
<1>15. SumOf(R, BucketsFrom(j)) = SumOf(R, T)
  <2>1. \A b \in BucketsFrom(j) \ T : R[b] = 0
    <3>. TAKE b \in BucketsFrom(j) \ T
    <3>1. F[b] = 0 /\ G[b] = 0 /\ b \in Buckets
      BY <1>5, <1>8, <1>10, <1>11
    <3>2. a * 0 = 0
      BY <1>12
    <3>3. R[b] = F[b] - a * G[b]
      BY <1>14, <3>1
    <3>4. R[b] = 0 - a * 0
      BY <3>1, <3>3
    <3>. QED
      BY <3>2, <3>4
  <2>2. \A b \in BucketsFrom(j) : R[b] \in Int
    BY <1>5, <1>14
  <2>. QED
    BY <1>5, <2>1, <2>2, SumSubset
<1>16. SumOf(R, T) = one * SumOf(F, T) + m * SumOf(G, T)
  <2>1. T \subseteq Buckets
    BY <1>5
  <2>2. /\ \A b \in T : F[b] \in Int /\ G[b] \in Int
        /\ \A b \in T : R[b] = one * F[b] + m * G[b]
    BY <1>14, <2>1
  <2>. QED
    BY <1>0, <1>6, <2>2, SumLinear, SMTT(30)
<1>17. SumOf(F, T) \in Int /\ SumOf(G, T) \in Int
  <2>1. \A b \in T : F[b] \in Int /\ G[b] \in Int
    BY <1>5, <1>14
  <2>. QED
    BY <1>6, <2>1, SumType
<1>18. SumBuckets(wcount_i, k, j) = SumOf(F, T)
  BY <1>2, <1>4, <1>6, <1>10, SumBucketsIs
<1>19. SumBuckets(wcount, k, j) = SumOf(G, T)
  BY <1>2, <1>4, <1>6, <1>11, SumBucketsIs
<1>20. PICK x \in Int, y \in Int : x = SumOf(F, T) /\ y = SumOf(G, T)
  BY <1>17
<1>21. x - a * y = SumOf(R, BucketsFrom(j))
  BY <1>13, <1>15, <1>16, <1>20
<1>. QED
  BY <1>9, <1>12, <1>18, <1>19, <1>20, <1>21

\* At the end a line accounts for its windows that are not shared.
LEMMA LineAtEnd ==
  ASSUME CountInv, stage = "done", NEW k \in Levels, NEW ws \in 1 .. N, NEW l \in Lines
  PROVE  /\ OfLine(l, k, ws) \in Int /\ SharedLines(k)[l] \in Int
         /\ SharedWindows(trace, l, k, ws)
              = (N - ws + 1) * SharedLines(k)[l] + (-1) * OfLine(l, k, ws)
<1>. USE DEF CountInv, WindowInv, LevelInv, RefInv
<1>1. k \in Nat /\ N \in Nat /\ ws \in Nat \ {0}
  BY FiniteData DEF SafeInv, TypeInv, TypeOK
<1>2. PICK r : r = Recent(stamps[l], k)
  OBVIOUS
<1>3. r \in Nat /\ r <= N /\ IsRecent(stamps[l], k, r)
  BY <1>1, <1>2, LineRecent
<1>4. \A t \in Threads : ToProfile(t) = {}
  <2>1. \A t \in Threads : pc[t] = "idle"
    BY DEF LiveOK, Closed
  <2>. QED
    BY <2>1 DEF ToProfile
<1>5. PICK f : f = Cardinality(FewUpTo(l, k, ws, r))
  OBVIOUS
<1>6. f \in Nat
  BY <1>3, <1>5, FewType
<1>7. PICK w : w = SharedWindows(trace, l, k, ws)
  OBVIOUS
<1>8. w \in Nat /\ N - ws + 1 - w = f + WindowsIn(N - r, ws)
  BY <1>3, <1>4, <1>1, <1>5, <1>7, EndFew
<1>9. OfLine(l, k, ws) = f + AtFini(l, k, ws)
  BY <1>2, <1>5 DEF OfLine
<1>10. SharedLines(k)[l] = IF r > 0 THEN 1 ELSE 0
  BY <1>2 DEF SharedLines
<1>11. CASE r > 0
  <2>1. l < col.line \/ (l = col.line /\ k < col.thd_count)
    <3>1. col.line \in Lines /\ col.line + 1 >= NumLines /\ NumLines \in Nat /\ l \in 0 .. NumLines - 1
      BY RecorderAssumption DEF EndOK, SafeInv, TypeInv, TypeOK, Lines
    <3>2. col.line \in Nat /\ l \in Nat /\ l <= col.line
      BY <3>1, RecorderAssumption DEF Lines
    <3>3. CASE l = col.line
      <4>1. col.thd_count = Cardinality(LaterThan(stamps[l], 0))
        BY <3>3, PassedIsLater DEF EndOK
      <4>2. stamps[l] \in StampLists
        BY DEF SafeInv, TypeInv, TypeOK
      <4>3. k < Cardinality(LaterThan(stamps[l], 0))
        BY <1>1, <1>3, <1>11, <4>2, RecentPositive
      <4>. QED
        BY <3>3, <4>1, <4>3
    <3>4. CASE l # col.line
      BY <3>2, <3>4
    <3>. QED
      BY <3>3, <3>4
  <2>2. AtFini(l, k, ws) = WindowsIn(N - r, ws)
    BY <1>2, <1>11, <2>1 DEF AtFini, Closed
  <2>3. WindowsIn(N - r, ws) \in Int
    BY <1>1, <1>3 DEF WindowsIn
  <2>. QED
    BY <1>1, <1>6, <1>7, <1>8, <1>9, <1>10, <1>11, <2>2, <2>3
<1>12. CASE ~ (r > 0)
  <2>1. AtFini(l, k, ws) = 0
    BY <1>2, <1>12 DEF AtFini
  <2>2. r = 0
    BY <1>3, <1>12
  <2>3. f = 0
    <3>1. FewUpTo(l, k, ws, r) = {}
      BY <2>2 DEF FewUpTo
    <3>. QED
      BY <1>5, <3>1, FS_EmptySet
  <2>4. WindowsIn(N - r, ws) = N - ws + 1
    BY <1>1, <2>2 DEF WindowsIn
  <2>5. w = 0
    BY <1>1, <1>8, <2>3, <2>4
  <2>. QED
    BY <1>1, <1>7, <1>9, <1>10, <1>12, <2>1, <2>3, <2>5
<1>. QED
  BY <1>11, <1>12

\* Therefore a row is the footprint.
LEMMA RowExact ==
  ASSUME CountInv, stage = "done", NEW k \in Levels, NEW j \in Rows
  PROVE  RowValue(k, j) = SharedFootprint(trace, Lines, k, RowWindow(j))
<1>1. PICK ws : ws = RowWindow(j)
  OBVIOUS
<1>2. j \in Nat \ {0} /\ ws \in 1 .. N /\ N \in Nat
  BY <1>1, RowFits DEF CountInv
<1>3. PICK F : F = SharedLines(k)
  OBVIOUS
<1>4. PICK G : G = LinesAt(k, ws)
  OBVIOUS
<1>5. PICK H : H = [l \in Lines |-> SharedWindows(trace, l, k, ws)]
  OBVIOUS
<1>6. PICK P : P = ThreadsAt(k, ws)
  OBVIOUS
<1>7. PICK Q : Q = FirstHere(k)
  OBVIOUS
<1>8. PICK n \in Int : n = N - ws + 1
  BY <1>2
<1>9. \A l \in Lines : /\ F[l] \in Int /\ G[l] \in Int
                       /\ H[l] = n * F[l] + (-1) * G[l]
  <2>. TAKE l \in Lines
  <2>1. F[l] = SharedLines(k)[l] /\ G[l] = OfLine(l, k, ws) /\ H[l] = SharedWindows(trace, l, k, ws)
    BY <1>3, <1>4, <1>5 DEF LinesAt
  <2>. QED
    BY <1>2, <1>8, <2>1, LineAtEnd
<1>10. \A t \in Threads : P[t] = 0 /\ Q[t] = 0
  <2>1. \A t \in Threads : pc[t] = "idle"
    BY DEF CountInv, WindowInv, LevelInv, RefInv, LiveOK, Closed
  <2>. QED
    BY <1>6, <1>7, <2>1 DEF ThreadsAt, OfThread, FirstHere
<1>11. SumOf(P, Threads) = 0 /\ SumOf(Q, Threads) = 0
  <2>1. SumOf(P, Threads) = 0
    BY <1>10, ThreadCount, SumZero
  <2>2. SumOf(Q, Threads) = 0
    BY <1>10, ThreadCount, SumZero
  <2>. QED
    BY <2>1, <2>2
<1>12. SumOf(F, Lines) \in Int /\ SumOf(G, Lines) \in Int
  BY <1>9, FiniteData, SumType
<1>13. SumOf(H, Lines) = n * SumOf(F, Lines) + (-1) * SumOf(G, Lines)
  <2>1. -1 \in Int
    OBVIOUS
  <2>. QED
    BY <1>9, <2>1, FiniteData, SumLinear
<1>14. SumOf(RowAt(k, ws), BucketsFrom(j)) = SumOf(G, Lines)
  <2>1. RowOK(k, j)
    BY <1>2 DEF CountInv, CountsOK
  <2>2. SumOf(RowAt(k, ws), BucketsFrom(j)) = SumOf(G, Lines) + SumOf(P, Threads)
    BY <1>1, <1>4, <1>6, <2>1 DEF RowOK
  <2>. QED
    BY <1>11, <1>12, <2>2
<1>15. M[k] = SumOf(F, Lines)
  <2>1. M[k] = SumOf(F, Lines) + SumOf(Q, Threads)
    BY <1>3, <1>7 DEF CountInv, CountsOK, LinesOK
  <2>. QED
    BY <1>11, <1>12, <2>1
<1>16. RowValue(k, j) = M[k] * n - SumOf(RowAt(k, ws), BucketsFrom(j))
  BY <1>1, <1>8, RowSums DEF RowValue
<1>17. SharedFootprint(trace, Lines, k, ws) = SumOf(H, Lines)
  <2>1. \A l \in Lines : H[l] = SharedWindows(trace, l, k, ws)
    BY <1>5
  <2>. QED
    BY <2>1, FootprintIs
<1>18. PICK x \in Int, y \in Int : x = SumOf(F, Lines) /\ y = SumOf(G, Lines)
  BY <1>12
<1>19. x * n - y = n * x + (-1) * y
  OBVIOUS
<1>20. RowValue(k, j) = SumOf(H, Lines)
  BY <1>13, <1>14, <1>15, <1>16, <1>18, <1>19
<1>. QED
  BY <1>1, <1>17, <1>20

\* A state in which the counts are exact has an exact report.
LEMMA CountsReport == CountInv => ReportIsExact
<1>. SUFFICES ASSUME CountInv, stage = "done", NEW j \in Rows, NEW k \in 0 .. NumThreads - 1
              PROVE  /\ RowWindow(j) \in 1 .. N
                     /\ RowValue(k, j) = SharedFootprint(trace, Lines, k, RowWindow(j))
  BY DEF ReportIsExact
<1>1. k \in Levels
  BY RecorderAssumption, ThreadIdAssumption DEF Levels
<1>. QED
  BY <1>1, RowFits, RowExact DEF CountInv

\* Every number Fini prints is the footprint of the trace, counted window by
\* window, if no access touches a line that RecordMem does not go over and the
\* trace is not as long as a word can count.
THEOREM ReportExact ==
  ASSUME Aligned, TraceFits
  PROVE  Spec => []ReportIsExact
BY CountInvariant, CountsReport, PTL
=============================================================================
