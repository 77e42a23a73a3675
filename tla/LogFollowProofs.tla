-------------------------- MODULE LogFollowProofs --------------------------
(***************************************************************************)
(* Proofs about LogFollow, for a log of any length and any page size.      *)
(***************************************************************************)
EXTENDS LogFollow, TLAPS

USE DEF Size, Bytes, Pages, NoPage, LeastOf, MostOf, serverVars

\* Where the client and its request are: a request is that of the client, and
\* it is answered while the client waits for it.
Asking ==
    /\ request # None => pc = "log" /\ request = offset
    /\ total # None => request # None
    /\ page.offset <= page.total

\* Until the log is deleted it only grows: whoever looked at it, even before
\* its last growth, saw at least what was printed.
Growing ==
    status # "deleted" =>
        /\ offset <= Size
        /\ total # None => offset <= total /\ total <= Size
        /\ pc = "print" =>
               /\ page.offset = offset /\ page.total <= Size
               /\ page.length >= Consumed
               /\ page.length <= MostOf(1, Consumed)
               /\ offset + page.length <= Size

\* What was printed.  The byte at the offset may be out already, after a page
\* that was measured before the byte was there; then every look at the log
\* since then has seen it, so the next page counts it.
Printed ==
    status # "deleted" =>
        /\ \A b \in Bytes :
              /\ b < offset => printed[b] \in 1 .. 2
              /\ b = offset => printed[b] <= 1
              /\ b > offset => printed[b] = 0
        /\ offset \in Bytes /\ printed[offset] = 1 =>
              /\ Size > offset
              /\ total # None => total > offset
              /\ pc = "print" => page.total > offset

\* A client that knows of the end measures the log after it.
Final ==
    status # "deleted" =>
        /\ status = "running" => seen = "running"
        /\ status = "ended" => sizeEnd <= Size
        /\ pc = "exit" => seen = "ended"
        /\ seen = "ended" =>
              /\ total # None => sizeEnd <= total
              /\ pc = "print" => sizeEnd <= page.total
              /\ pc = "exit" => sizeEnd <= offset

Inv == TypeOK /\ Asking /\ Growing /\ Printed /\ Final

-----------------------------------------------------------------------------
LEMMA InitInv == Init => Inv
BY LogAssumption DEF Init, Inv, TypeOK, Asking, Growing, Printed, Final, Consumed

LEMMA AppendInv == ASSUME Inv, NEW n \in 1 .. MaxSize, Append(n) PROVE Inv'
<1> USE LogAssumption
<1>1. TypeOK'
  BY DEF Inv, TypeOK, Append
<1>2. Asking'
  BY DEF Inv, Asking, Append
<1>3. Size' >= Size /\ Size \in Nat /\ Size' \in Nat
  BY DEF Inv, TypeOK, Append
<1>4. Growing'
  BY <1>3 DEF Inv, TypeOK, Growing, Append, Consumed
<1>5. Printed'
  BY <1>3 DEF Inv, TypeOK, Printed, Append
<1>6. Final'
  BY <1>3 DEF Inv, TypeOK, Final, Append
<1> QED BY <1>1, <1>2, <1>4, <1>5, <1>6 DEF Inv

LEMMA WorkerInv == ASSUME Inv, Finish \/ Delete PROVE Inv'
<1> USE LogAssumption
<1>1. TypeOK' /\ Asking'
  BY DEF Inv, TypeOK, Asking, Finish, Delete
<1>2. Growing'
  BY DEF Inv, TypeOK, Growing, Finish, Delete, Consumed
<1>3. Printed'
  BY DEF Inv, TypeOK, Printed, Finish, Delete
<1>4. Final'
  BY DEF Inv, TypeOK, Final, Finish, Delete
<1> QED BY <1>1, <1>2, <1>3, <1>4 DEF Inv

LEMMA MeasureInv == ASSUME Inv, Measure PROVE Inv'
<1> USE LogAssumption
<1>1. CASE size = None
  <2>1. TypeOK' /\ Asking'
    BY <1>1 DEF Inv, TypeOK, Asking, Measure, Answer
  <2>2. Growing'
    BY <1>1 DEF Inv, TypeOK, Growing, Asking, Measure, Answer, Consumed
  <2>3. Printed'
    BY <1>1 DEF Inv, TypeOK, Printed, Growing, Measure, Answer
  <2>4. Final'
    BY <1>1 DEF Inv, TypeOK, Final, Asking, Measure, Answer
  <2> QED BY <2>1, <2>2, <2>3, <2>4 DEF Inv
<1>2. CASE size # None
  <2>1. TypeOK' /\ Asking'
    BY <1>2 DEF Inv, TypeOK, Asking, Measure
  <2>2. Growing'
    BY <1>2 DEF Inv, TypeOK, Growing, Asking, Measure, Consumed
  <2>3. Printed'
    BY <1>2 DEF Inv, TypeOK, Printed, Growing, Measure
  <2>4. Final'
    BY <1>2 DEF Inv, TypeOK, Final, Asking, Measure
  <2> QED BY <2>1, <2>2, <2>3, <2>4 DEF Inv
<1> QED BY <1>1, <1>2

LEMMA ReadInv == ASSUME Inv, Read PROVE Inv'
<1> USE LogAssumption
<1>1. CASE size = None
  BY <1>1 DEF Inv, TypeOK, Asking, Growing, Printed, Final, Read, Consumed
<1>2. CASE size # None
  <2> DEFINE from  == LeastOf(request, total)
             limit == MostOf(1, LeastOf(Chunk, total - from))
  <2>1. /\ request \in 0 .. MaxSize /\ request = offset /\ pc = "log"
        /\ total \in 0 .. MaxSize /\ size \in 0 .. MaxSize
    BY <1>2 DEF Inv, TypeOK, Asking, Read
  <2>2. /\ page' = PageAt(from, limit) /\ pc' = "print" /\ request' = None /\ total' = None
        /\ UNCHANGED <<size, status, sizeEnd, seen, offset, printed>>
    BY <1>2 DEF Read, Answer
  <2>3. /\ from \in 0 .. total /\ limit \in 1 .. MostOf(1, Chunk)
        /\ limit = MostOf(1, LeastOf(Chunk, total - from))
    BY <2>1
  <2> HIDE DEF from, limit
  <2>4. /\ page'.offset = from /\ page'.total = total
        /\ page'.length = IF from < size THEN LeastOf(limit, size - from) ELSE 0
    BY <2>2 DEF PageAt
  <2>5. page' \in Pages
    BY <2>1, <2>2, <2>3 DEF PageAt
  <2>6. TypeOK' /\ Asking'
    <3>1. TypeOK'
      BY <2>1, <2>2, <2>5 DEF Inv, TypeOK
    <3>2. page'.offset <= page'.total
      BY <2>1, <2>3, <2>4
    <3> QED BY <2>2, <3>1, <3>2 DEF Asking
  <2>7. status # "deleted" => from = offset /\ offset <= total /\ total <= size
    BY <1>2, <2>1 DEF Inv, Growing, Read, from
  <2>8. Growing'
    BY <1>2, <2>1, <2>2, <2>3, <2>4, <2>7 DEF Growing, Consumed
  <2>9. Printed'
    BY <1>2, <2>1, <2>2, <2>4, <2>7 DEF Inv, Printed, Read
  <2>10. Final'
    BY <1>2, <2>1, <2>2, <2>4, <2>7 DEF Inv, Final, Read
  <2> QED BY <2>6, <2>8, <2>9, <2>10 DEF Inv
<1> QED BY <1>1, <1>2

LEMMA ClientInv == ASSUME Inv, FetchStatus \/ RequestLog \/ GiveUp PROVE Inv'
<1> USE LogAssumption
<1>1. TypeOK' /\ Asking'
  BY DEF Inv, TypeOK, Asking, FetchStatus, RequestLog, GiveUp
<1>2. Growing'
  BY DEF Inv, TypeOK, Growing, FetchStatus, RequestLog, GiveUp, Consumed
<1>3. Printed'
  BY DEF Inv, TypeOK, Printed, FetchStatus, RequestLog, GiveUp
<1>4. Final'
  BY DEF Inv, TypeOK, Asking, Final, FetchStatus, RequestLog, GiveUp
<1> QED BY <1>1, <1>2, <1>3, <1>4 DEF Inv

LEMMA WritePageInv == ASSUME Inv, WritePage PROVE Inv'
<1> USE LogAssumption
<1>1. /\ page \in Pages /\ page.offset <= page.total /\ offset \in 0 .. MaxSize
      /\ printed \in [Bytes -> Nat]
      /\ page.offset \in 0 .. MaxSize /\ page.total \in 0 .. MaxSize
      /\ page.length \in 0 .. Chunk /\ pc = "print"
      /\ request = None /\ total = None
  BY DEF Inv, TypeOK, Asking, WritePage
<1>2. /\ Consumed \in 0 .. Chunk /\ Reached = page.offset + Consumed
      /\ page.total > page.offset => Consumed > 0
      /\ Reached \in page.offset .. page.total
  <2> DEFINE gap == page.total - page.offset
  <2>1. gap \in Nat /\ page.total = page.offset + gap /\ Chunk \in Nat /\ Chunk > 0
    BY <1>1
  <2>2. Consumed = IF Chunk < gap THEN Chunk ELSE gap
    BY DEF Consumed
  <2> HIDE DEF gap
  <2>3. Consumed \in 0 .. Chunk /\ Consumed <= gap /\ (gap > 0 => Consumed > 0)
    BY <2>1, <2>2
  <2>4. page.offset \in Nat
    BY <1>1
  <2>5. Reached = page.offset + Consumed
    BY DEF Reached
  <2> HIDE DEF Consumed
  <2> QED BY <2>1, <2>3, <2>4, <2>5
<1>3. /\ offset' = Reached
      /\ pc' = IF Reached < page.total THEN "log" ELSE IF seen = "ended" THEN "exit" ELSE "status"
      /\ UNCHANGED <<size, status, sizeEnd, request, total, seen, page>>
  BY DEF WritePage
<1>4. /\ printed' \in [Bytes -> Nat]
      /\ \A b \in Bytes : printed'[b] =
            printed[b] + IF page.offset <= b /\ b < page.offset + page.length THEN 1 ELSE 0
  BY <1>1 DEF WritePage, WriteOut
<1>5. TypeOK' /\ Asking'
  BY <1>1, <1>2, <1>3, <1>4 DEF Inv, TypeOK, Asking
<1>6. status # "deleted" =>
        /\ page.offset = offset /\ page.total <= Size
        /\ page.length >= Consumed /\ page.length <= MostOf(1, Consumed)
        /\ offset + page.length <= Size
  BY <1>1 DEF Inv, Growing
<1>7. Size \in Nat
  BY DEF Inv, TypeOK
<1> HIDE DEF Size
<1>8. Size' = Size
  BY <1>3 DEF Size
<1>9. Growing'
  BY <1>1, <1>2, <1>3, <1>6, <1>7, <1>8 DEF Growing
<1>10. Printed'
  <2> SUFFICES ASSUME status # "deleted"
               PROVE  Printed'
    BY <1>3 DEF Printed
  <2>1. /\ offset' = offset + Consumed /\ offset \in Nat /\ Consumed \in Nat
        /\ page.length \in Nat /\ MaxSize \in Nat /\ Bytes \subseteq Nat
        /\ page.length >= Consumed
        /\ page.length <= IF 1 < Consumed THEN Consumed ELSE 1
    BY <1>1, <1>2, <1>3, <1>6
  <2>2. /\ \A b \in Bytes : printed[b] \in Nat
        /\ \A b \in Bytes : printed'[b] =
              printed[b] + IF offset <= b /\ b < offset + page.length THEN 1 ELSE 0
    BY <1>1, <1>4, <1>6
  <2>3. /\ \A b \in Bytes :
              /\ b < offset => printed[b] \in 1 .. 2
              /\ b = offset => printed[b] <= 1
              /\ b > offset => printed[b] = 0
        /\ offset \in Bytes /\ printed[offset] = 1 => Size > offset /\ page.total > offset
    BY <1>1 DEF Inv, Printed
  <2>4. Consumed = 0 => page.total = offset
    BY <1>1, <1>2, <1>6
  <2>5. page.length <= 1 \/ page.length = Consumed
    BY <2>1
  <2> HIDE DEF Consumed, Reached, Bytes
  <2>6. ASSUME NEW b \in Bytes
        PROVE  /\ b < offset' => printed'[b] \in 1 .. 2
               /\ b = offset' => printed'[b] <= 1
               /\ b > offset' => printed'[b] = 0
    <3>1. b \in Nat /\ printed[b] \in Nat
      BY <2>1, <2>2
    <3>2. CASE b < offset
      BY <2>1, <2>2, <2>3, <3>1, <3>2
    <3>3. CASE b = offset
      <4>1. CASE Consumed = 0
        <5>1. printed[b] = 0
          BY <2>1, <2>3, <2>4, <3>1, <3>3, <4>1
        <5> QED BY <2>1, <2>2, <3>1, <3>3, <4>1, <5>1
      <4>2. CASE Consumed > 0
        BY <2>1, <2>2, <2>3, <3>1, <3>3, <4>2
      <4> QED BY <2>1, <4>1, <4>2
    <3>4. CASE b > offset
      BY <2>1, <2>2, <2>3, <3>1, <3>4
    <3> QED BY <2>1, <3>1, <3>2, <3>3, <3>4
  <2>7. ASSUME offset' \in Bytes, printed'[offset'] = 1
        PROVE  Size > offset'
    <3>1. CASE Consumed = 0
      <4>1. offset' = offset /\ printed[offset] \in 0 .. 1 /\ offset \in Bytes
        BY <2>1, <2>2, <2>3, <2>7, <3>1
      <4>2. CASE printed[offset] = 1
        BY <2>3, <4>1, <4>2
      <4>3. CASE printed[offset] = 0
        <5>1. page.length > 0
          BY <2>1, <2>2, <2>7, <4>1, <4>3
        <5> QED BY <1>6, <1>7, <2>1, <4>1, <5>1
      <4> QED BY <4>1, <4>2, <4>3
    <3>2. CASE Consumed > 0
      <4>1. printed[offset'] = 0 /\ page.length = Consumed
        BY <2>1, <2>3, <2>7, <3>2
      <4> QED BY <2>1, <2>2, <2>7, <4>1
    <3> QED BY <2>1, <3>1, <3>2
  <2>8. pc' # "print" /\ total' = None /\ Size' = Size
    BY <1>1, <1>3, <1>8
  <2> QED BY <2>6, <2>7, <2>8 DEF Printed
<1>11. Final'
  BY <1>1, <1>2, <1>3, <1>6, <1>7, <1>8 DEF Inv, TypeOK, Final
<1> QED BY <1>5, <1>9, <1>10, <1>11 DEF Inv

LEMMA StepInv == Inv /\ [Next]_vars => Inv'
<1> SUFFICES ASSUME Inv, [Next]_vars PROVE Inv'
  OBVIOUS
<1>1. CASE Next
  BY <1>1, AppendInv, WorkerInv, MeasureInv, ReadInv, ClientInv, WritePageInv DEF Next
<1>2. CASE UNCHANGED vars
  BY <1>2 DEF vars, Inv, TypeOK, Asking, Growing, Printed, Final, Consumed
<1> QED BY <1>1, <1>2

-----------------------------------------------------------------------------
\* The inductive invariant itself.
THEOREM Safety == Spec => []Inv
BY InitInv, StepInv, PTL DEF Spec

\* What get_task_log and drainTaskLog compute stays in range.
THEOREM TypeCorrect == Spec => []TypeOK
BY Safety, PTL DEF Inv

\* The pages of a growing log leave no gap, and no byte is printed three times.
THEOREM NoGap == Spec => []PagesMeet
<1>1. ASSUME Inv, status # "deleted", NEW b \in Bytes
      PROVE  (b < offset => printed[b] > 0) /\ printed[b] <= 2
  <2>1. b \in Nat /\ offset \in Nat /\ printed[b] \in Nat
    BY <1>1, LogAssumption DEF Inv, TypeOK
  <2>2. /\ b < offset => printed[b] \in 1 .. 2
        /\ b = offset => printed[b] <= 1
        /\ b > offset => printed[b] = 0
    BY <1>1 DEF Inv, Printed
  <2> QED BY <2>1, <2>2
<1>2. Inv => PagesMeet
  BY <1>1 DEF PagesMeet
<1> QED BY <1>2, Safety, PTL

\* wait that returns a result has printed the whole log.
THEOREM WholeLog == Spec => []ResultMeansWholeLog
<1>1. ASSUME Inv, status # "deleted", pc = "exit", NEW b \in Bytes, b < sizeEnd
      PROVE  printed[b] > 0
  <2>1. sizeEnd <= offset
    BY <1>1 DEF Inv, Final
  <2>2. b \in Nat /\ offset \in Nat /\ sizeEnd \in Nat
    BY <1>1, LogAssumption DEF Inv, TypeOK
  <2>3. printed[b] \in 1 .. 2
    BY <1>1, <2>1, <2>2 DEF Inv, Printed
  <2> QED BY <2>3
<1>2. Inv => ResultMeansWholeLog
  BY <1>1 DEF ResultMeansWholeLog
<1> QED BY <1>2, Safety, PTL
=============================================================================
