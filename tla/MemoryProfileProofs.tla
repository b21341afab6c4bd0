-------------------------- MODULE MemoryProfileProofs --------------------------
(***************************************************************************)
(* For every team, every block size and every number of branches: when no  *)
(* allocation is in progress, the mark of an open interval is exactly the  *)
(* most bytes that were live in it; the intervals are nested, whatever     *)
(* fails, and the bound reported for running the branches of a node at     *)
(* once is not too small; the counter of live bytes adds up.               *)
(*                                                                         *)
(* While allocations are in progress the mark may lag behind.  The         *)
(* invariant says who makes up for it: a thread that counted that many     *)
(* bytes and has not dealt with this mark yet.                             *)
(***************************************************************************)
EXTENDS MemoryProfile, FiniteSetTheorems, TLAPS

Calls == [mark : Marks \cup {"none"}, live : Int, old : Int, bytes : Int]

Typed ==
  /\ current \in Int
  /\ peak \in [Marks -> Int] /\ crest \in [Marks -> Int]
  /\ enabled \in [Marks -> BOOLEAN]
  /\ call \in [Team -> Calls]
  /\ \A t \in Team : call[t].mark = "none" => call[t] = Idle

(* Thread t has yet to deal with mark m in the recordAllocation it is in. *)
Pending(c, m) ==
  \/ c.mark = "run"
  \/ c.mark = "position" /\ m # "run"
  \/ c.mark = "branch" /\ m = "branch"

(* A thread's last reading of a mark is never above the mark. *)
NotAbove(m) ==
  \A t \in Team : call[t].mark = m /\ call[t].old # NotRead => call[t].old <= peak[m]

(* Nobody is about to raise mark m above the crest. *)
BelowCrest(m) ==
  /\ peak[m] <= crest[m]
  /\ \A t \in Team : Pending(call[t], m) => call[t].live <= crest[m]

(* The crest has been recorded or somebody is going to record it. *)
CrestKept(m) ==
  \/ peak[m] = crest[m]
  \/ \E t \in Team : Pending(call[t], m) /\ call[t].live = crest[m]

MarkInv(m) == enabled[m] => NotAbove(m) /\ BelowCrest(m) /\ CrestKept(m)

IInv == Typed /\ \A m \in Marks : MarkInv(m)

-----------------------------------------------------------------------------
(* Going on to the next mark leaves the other threads alone and settles    *)
(* only the mark it was at.                                                *)
LEMMA LeaveSettles ==
  ASSUME Typed, NEW t \in Team, call[t] # Idle, call[t].mark \in Marks, Leave(t)
  PROVE  /\ call' \in [Team -> Calls]
         /\ call'[t].mark = "none" => call'[t] = Idle
         /\ \A u \in Team \ {t} : call'[u] = call[u]
         /\ call'[t].mark # call[t].mark
         /\ call'[t].mark = "none" \/ call'[t].old = NotRead
         /\ \A m \in Marks \ {call[t].mark} :
              Pending(call[t], m) => Pending(call'[t], m) /\ call'[t].live = call[t].live
         /\ \A m \in Marks : Pending(call'[t], m) => Pending(call[t], m) /\ call'[t].live = call[t].live
<1>1. CASE call[t].mark = "branch"
  <2>1. call' = [call EXCEPT ![t] = Idle]
    BY <1>1 DEF Leave, Following
  <2>2. Idle \in Calls
    BY DEF Idle, Calls
  <2> QED BY <1>1, <2>1, <2>2 DEF Typed, Idle, Pending, Marks
<1>2. CASE call[t].mark \in {"run", "position"}
  <2>1. /\ Following(call[t].mark) \in {"position", "branch"}
        /\ Following(call[t].mark) = IF call[t].mark = "run" THEN "position" ELSE "branch"
    BY <1>2 DEF Following
  <2>2. call' = [call EXCEPT ![t] = At(call[t], Following(call[t].mark), NotRead)]
    BY <2>1 DEF Leave
  <2>3. At(call[t], Following(call[t].mark), NotRead) \in Calls
    BY <2>1 DEF Typed, Calls, Marks, NotRead, At
  <2>4. call' \in [Team -> Calls] /\ \A u \in Team \ {t} : call'[u] = call[u]
    BY <2>2, <2>3 DEF Typed
  <2>5. call'[t] = At(call[t], Following(call[t].mark), NotRead)
    BY <2>2 DEF Typed
  <2> QED BY <1>2, <2>1, <2>4, <2>5 DEF Pending, Marks, At
<1> QED BY <1>1, <1>2 DEF Marks

LEMMA IdleFacts == Idle \in Calls /\ \A m \in Marks : ~Pending(Idle, m) /\ Idle.mark # m
BY DEF Idle, Calls, Pending, Marks

(* A thread that goes on past a mark it has dealt with keeps all marks:    *)
(* the mark is off, or at least as high as what the thread counted.        *)
LEMMA LeavingKeepsMarks ==
  ASSUME IInv, NEW t \in Team, call[t] # Idle, call[t].mark \in Marks, Leave(t),
         UNCHANGED <<current, crest, enabled>>,
         peak' \in [Marks -> Int],
         \A m \in Marks : peak'[m] # peak[m] => m = call[t].mark /\ peak'[m] = call[t].live /\ peak[m] < call[t].live,
         enabled[call[t].mark] => peak'[call[t].mark] >= call[t].live
  PROVE  IInv'
<1> DEFINE k == call[t].mark
<1>1. Typed
  BY DEF IInv
<1>2. /\ call' \in [Team -> Calls]
      /\ call'[t].mark = "none" => call'[t] = Idle
      /\ \A u \in Team \ {t} : call'[u] = call[u]
      /\ call'[t].mark # call[t].mark
      /\ call'[t].mark = "none" \/ call'[t].old = NotRead
      /\ \A m \in Marks \ {call[t].mark} :
           Pending(call[t], m) => Pending(call'[t], m) /\ call'[t].live = call[t].live
      /\ \A m \in Marks : Pending(call'[t], m) => Pending(call[t], m) /\ call'[t].live = call[t].live
  BY <1>1, LeaveSettles
<1>3. Typed'
  BY <1>1, <1>2 DEF Typed
<1>4. ASSUME NEW m \in Marks, enabled[m]
      PROVE  (NotAbove(m) /\ BelowCrest(m) /\ CrestKept(m))'
  <2>1. NotAbove(m) /\ BelowCrest(m) /\ CrestKept(m)
    BY <1>4 DEF IInv, MarkInv
  <2>2. peak[m] \in Int /\ peak'[m] \in Int /\ crest[m] \in Int /\ \A u \in Team : call[u].live \in Int /\ call[u].old \in Int
    BY <1>1 DEF Typed, Calls
  <2>3. peak[m] <= peak'[m]
    BY <2>2
  <2>4. NotAbove(m)'
    BY <1>2, <2>1, <2>2, <2>3 DEF NotAbove, Marks
  <2>5. Pending(call[t], k)
    BY DEF Pending, Marks
  <2>6. peak'[m] <= crest[m]
    BY <2>1, <2>2, <2>5 DEF BelowCrest
  <2>7. BelowCrest(m)'
    BY <1>2, <2>1, <2>2, <2>6 DEF BelowCrest
  <2>8. CrestKept(m)'
    <3>1. CASE peak[m] = crest[m]
      BY <2>2, <2>3, <2>6, <3>1 DEF CrestKept
    <3>2. CASE \E u \in Team : Pending(call[u], m) /\ call[u].live = crest[m]
      <4>1. PICK u \in Team : Pending(call[u], m) /\ call[u].live = crest[m]
        BY <3>2
      <4>2. CASE u # t \/ m # k
        BY <1>2, <4>1, <4>2 DEF CrestKept
      <4>3. CASE u = t /\ m = k
        BY <1>4, <2>2, <2>6, <4>1, <4>3 DEF CrestKept
      <4> QED BY <4>2, <4>3
    <3> QED BY <2>1, <3>1, <3>2 DEF CrestKept
  <2> QED BY <2>4, <2>7, <2>8
<1>5. \A m \in Marks : MarkInv(m)'
  BY <1>4 DEF MarkInv
<1> QED BY <1>3, <1>5 DEF IInv

(* Reading the mark, the first time or again, changes nothing but the reading. *)
LEMMA ReadingKeepsMarks ==
  ASSUME IInv, NEW t \in Team, call[t] # Idle, call[t].mark \in Marks,
         call' = [call EXCEPT ![t] = At(call[t], call[t].mark, peak[call[t].mark])],
         UNCHANGED <<current, peak, crest, enabled>>
  PROVE  IInv'
<1> DEFINE new == At(call[t], call[t].mark, peak[call[t].mark])
<1>1. new \in Calls
  BY DEF IInv, Typed, Calls, At
<1>2. call' \in [Team -> Calls] /\ call'[t] = new /\ \A u \in Team \ {t} : call'[u] = call[u]
  BY <1>1 DEF IInv, Typed
<1>3. new.mark = call[t].mark /\ new.live = call[t].live /\ new.old = peak[call[t].mark]
  BY DEF At
<1>t. Typed'
  <2>1. \A u \in Team : call'[u].mark = "none" => call'[u] = Idle
    BY <1>2, <1>3 DEF IInv, Typed, Marks
  <2> QED BY <1>2, <2>1 DEF IInv, Typed
<1>4. \A m \in Marks : \A u \in Team : (Pending(call'[u], m) <=> Pending(call[u], m)) /\ call'[u].live = call[u].live
  BY <1>2, <1>3 DEF Pending
<1>5. ASSUME NEW m \in Marks, MarkInv(m)
      PROVE  MarkInv(m)'
  <2>1. peak[m] \in Int
    BY DEF IInv, Typed
  <2>2. NotAbove(m) => NotAbove(m)'
    BY <1>2, <1>3, <2>1 DEF NotAbove
  <2>3. BelowCrest(m) => BelowCrest(m)'
    BY <1>4 DEF BelowCrest
  <2>4. CrestKept(m) => CrestKept(m)'
    BY <1>4 DEF CrestKept
  <2> QED BY <1>5, <2>2, <2>3, <2>4 DEF MarkInv
<1> QED BY <1>t, <1>5 DEF IInv

(* Between parallel regions an interval stays exact if it is left alone,   *)
(* and one that opens starts exact.                                        *)
LEMMA SerialKeepsMarks ==
  ASSUME IInv, Quiet, UNCHANGED <<current, call>>, Typed',
         \A m \in Marks : enabled'[m] => peak'[m] = crest'[m] \/ (enabled[m] /\ peak'[m] = peak[m] /\ crest'[m] = crest[m])
  PROVE  IInv'
<1>1. ASSUME NEW m \in Marks, enabled'[m]
      PROVE  (NotAbove(m) /\ BelowCrest(m) /\ CrestKept(m))'
  <2>1. \A t \in Team : ~Pending(call'[t], m) /\ call'[t].mark # m
    BY IdleFacts DEF Quiet
  <2>2. peak'[m] = crest'[m]
    BY <1>1, IdleFacts DEF IInv, MarkInv, CrestKept, Quiet
  <2>3. peak'[m] \in Int
    BY DEF Typed
  <2> QED BY <2>1, <2>2, <2>3 DEF NotAbove, BelowCrest, CrestKept
<1>2. \A m \in Marks : MarkInv(m)'
  BY <1>1 DEF MarkInv
<1> QED BY <1>2 DEF IInv

-----------------------------------------------------------------------------
LEMMA InitIInv == Init => IInv
<1> SUFFICES ASSUME Init PROVE IInv
  OBVIOUS
<1>1. Typed
  BY IdleFacts DEF Init, Typed
<1>2. \A m \in Marks : MarkInv(m)
  BY DEF Init, MarkInv
<1> QED BY <1>1, <1>2 DEF IInv

(* The steps of a thread inside operator new and operator delete. *)
LEMMA ThreadStep ==
  ASSUME IInv, NEW t \in Team, Record(t) \/ \E b \in Sizes : Count(t, b) \/ Free(t, b)
  PROVE  IInv'
<1>0. Typed /\ (call[t] # Idle => call[t].mark \in Marks)
  BY DEF IInv, Typed, Calls
<1>1. CASE SkipMark(t)
  BY <1>0, <1>1, LeavingKeepsMarks DEF SkipMark, serial, Typed
<1>2. CASE LoadMark(t)
  BY <1>0, <1>2, ReadingKeepsMarks DEF LoadMark, serial
<1>3. CASE KeepMark(t)
  <2>1. /\ call[t] # Idle /\ call[t].mark \in Marks /\ Leave(t)
        /\ UNCHANGED <<current, peak, crest, enabled>>
        /\ call[t].old # NotRead /\ call[t].old >= call[t].live
    BY <1>0, <1>3 DEF KeepMark, serial
  <2>2. peak \in [Marks -> Int] /\ call[t].live \in Int /\ call[t].old \in Int
    BY <1>0 DEF Typed, Calls
  <2>3. enabled[call[t].mark] => peak[call[t].mark] >= call[t].old
    BY <2>1, <2>2 DEF IInv, MarkInv, NotAbove
  <2>4. enabled[call[t].mark] => peak'[call[t].mark] >= call[t].live
    BY <2>1, <2>2, <2>3
  <2> QED BY <2>1, <2>2, <2>4, LeavingKeepsMarks
<1>4. CASE RaiseMark(t)
  <2>1. /\ call[t] # Idle /\ call[t].mark \in Marks /\ Leave(t)
        /\ UNCHANGED <<current, crest, enabled>>
        /\ peak[call[t].mark] < call[t].live
        /\ peak' = [peak EXCEPT ![call[t].mark] = call[t].live]
    BY <1>0, <1>4 DEF RaiseMark, Unchanged, serial
  <2>2. peak \in [Marks -> Int] /\ call[t].live \in Int
    BY <1>0 DEF Typed, Calls
  <2>3. /\ peak' \in [Marks -> Int]
        /\ peak'[call[t].mark] = call[t].live
        /\ \A m \in Marks \ {call[t].mark} : peak'[m] = peak[m]
    BY <2>1, <2>2
  <2>4. peak'[call[t].mark] >= call[t].live
    BY <2>2, <2>3
  <2> QED BY <2>1, <2>3, <2>4, LeavingKeepsMarks
<1>5. CASE RetryMark(t)
  BY <1>0, <1>5, ReadingKeepsMarks DEF RetryMark, Found, serial
<1>6. ASSUME NEW b \in Sizes, Count(t, b) PROVE IInv'
  <2>1. b \in Nat /\ b > 0 /\ current + b \in Int
    BY <1>0, MemoryAssumption DEF Typed
  <2> DEFINE new == [mark |-> "run", live |-> current + b, old |-> NotRead, bytes |-> b]
  <2>2. new \in Calls /\ new.mark = "run" /\ new.live = current + b /\ new.old = NotRead
    BY <2>1 DEF Calls, Marks, NotRead
  <2>3. /\ call[t] = Idle
        /\ call' = [call EXCEPT ![t] = new]
        /\ current' = current + b
        /\ crest' = [m \in Marks |-> IF enabled[m] THEN Larger(crest[m], current + b) ELSE crest[m]]
        /\ UNCHANGED <<peak, enabled>>
    BY <1>6 DEF Count, serial
  <2>4. /\ call' \in [Team -> Calls] /\ call'[t] = new
        /\ \A u \in Team \ {t} : call'[u] = call[u]
    BY <1>0, <2>2, <2>3 DEF Typed
  <2>5. \A m \in Marks : /\ crest'[m] \in Int
                         /\ enabled[m] => /\ crest'[m] >= crest[m] /\ crest'[m] >= new.live
                                          /\ crest'[m] = crest[m] \/ crest'[m] = new.live
    BY <1>0, <2>1, <2>2, <2>3 DEF Typed, Larger
  <2>6. Typed'
    <3>1. crest' \in [Marks -> Int]
      BY <2>3, <2>5
    <3>2. \A u \in Team : call'[u].mark = "none" => call'[u] = Idle
      BY <1>0, <2>2, <2>4 DEF Typed
    <3> QED BY <1>0, <2>1, <2>3, <2>4, <3>1, <3>2 DEF Typed
  <2>7. ASSUME NEW m \in Marks, enabled[m]
        PROVE  (NotAbove(m) /\ BelowCrest(m) /\ CrestKept(m))'
    <3>1. NotAbove(m) /\ BelowCrest(m) /\ CrestKept(m)
      BY <2>7 DEF IInv, MarkInv
    <3>2. peak[m] \in Int /\ crest[m] \in Int /\ crest'[m] \in Int /\ \A u \in Team : call[u].live \in Int
      BY <1>0, <2>5 DEF Typed, Calls
    <3>3. Pending(new, m)
      BY <2>2 DEF Pending
    <3>4. NotAbove(m)'
      BY <2>2, <2>3, <2>4, <3>1 DEF NotAbove
    <3>5. BelowCrest(m)'
      BY <2>3, <2>4, <2>5, <2>7, <3>1, <3>2 DEF BelowCrest
    <3>6. CASE crest'[m] = new.live
      <4>1. CrestKept(m)'
        BY <2>4, <3>3, <3>6 DEF CrestKept
      <4> QED BY <3>4, <3>5, <4>1
    <3>7. CASE crest'[m] = crest[m]
      <4>1. \A u \in Team : Pending(call[u], m) => u # t
        BY <2>3, IdleFacts
      <4>2. CrestKept(m)'
        BY <2>3, <2>4, <3>1, <3>7, <4>1 DEF CrestKept
      <4> QED BY <3>4, <3>5, <4>2
    <3> QED BY <2>5, <2>7, <3>6, <3>7
  <2>8. \A m \in Marks : MarkInv(m)'
    BY <2>3, <2>7 DEF MarkInv
  <2> QED BY <2>6, <2>8 DEF IInv
<1>7. ASSUME NEW b \in Sizes, Free(t, b) PROVE IInv'
  <2>1. b \in Nat /\ UNCHANGED <<peak, call, crest, enabled>> /\ current' = current - b
    BY <1>7, MemoryAssumption DEF Free, serial
  <2>2. Typed'
    BY <1>0, <2>1 DEF Typed
  <2>3. \A m \in Marks : MarkInv(m)'
    BY <2>1 DEF IInv, MarkInv, NotAbove, BelowCrest, CrestKept
  <2> QED BY <2>2, <2>3 DEF IInv
<1> QED BY <1>1, <1>2, <1>3, <1>4, <1>5, <1>6, <1>7 DEF Record

LEMMA SerialStep ==
  ASSUME IInv, Serial
  PROVE  IInv'
<1>0. /\ current \in Int /\ peak \in [Marks -> Int] /\ crest \in [Marks -> Int]
      /\ enabled \in [Marks -> BOOLEAN] /\ call \in [Team -> Calls]
      /\ \A t \in Team : call[t].mark = "none" => call[t] = Idle
  BY DEF IInv, Typed
<1> DEFINE Kept(m) == enabled[m] /\ peak'[m] = peak[m] /\ crest'[m] = crest[m]
           Shaped == /\ peak' \in [Marks -> Int] /\ crest' \in [Marks -> Int]
                     /\ enabled' \in [Marks -> BOOLEAN]
           Exact == \A m \in Marks : enabled'[m] => peak'[m] = crest'[m] \/ Kept(m)
<1>1. ASSUME Quiet, UNCHANGED <<current, call>>, Shaped, Exact
      PROVE  IInv'
  <2>1. Typed'
    BY <1>0, <1>1 DEF Typed
  <2> QED BY <1>1, <2>1, SerialKeepsMarks
<1>2. ASSUME NEW on \in BOOLEAN, BeginRun(on) PROVE IInv'
  <2>1. Quiet /\ UNCHANGED <<current, call>>
    BY <1>2 DEF BeginRun
  <2>2. Shaped
    BY <1>0, <1>2 DEF BeginRun, Marks
  <2>3. Exact
    BY <1>0, <1>2 DEF BeginRun, Marks
  <2> QED BY <1>1, <2>1, <2>2, <2>3
<1>3. ASSUME NEW failed \in BOOLEAN, EndRun(failed) PROVE IInv'
  <2>1. Quiet /\ UNCHANGED <<current, call>> /\ Shaped /\ Exact
    BY <1>0, <1>3 DEF EndRun, StopAll
  <2> QED BY <1>1, <2>1
<1>4. ASSUME NEW sequential \in BOOLEAN, BeginGroup(sequential) PROVE IInv'
  <2>1. Quiet /\ UNCHANGED <<current, call>> /\ Shaped /\ Exact
    BY <1>0, <1>4 DEF BeginGroup, team
  <2> QED BY <1>1, <2>1
<1>5. ASSUME NEW m \in Marks, Open(m), enabled' = [enabled EXCEPT ![m] = TRUE]
      PROVE  Shaped /\ Exact
  BY <1>0, <1>5 DEF Open, OpenMark
<1>6. ASSUME NEW m \in Marks, Close(m)
      PROVE  UNCHANGED <<current, call>> /\ Shaped /\ Exact
  BY <1>0, <1>6 DEF Close
<1>7. CASE BeginPosition
  <2>1. Quiet /\ UNCHANGED <<current, call>>
    BY <1>7 DEF BeginPosition
  <2>2. CASE enabled["run"]
    BY <1>1, <1>5, <1>7, <2>1, <2>2 DEF BeginPosition, Marks
  <2>3. CASE ~enabled["run"]
    <3>1. Shaped /\ Exact
      BY <1>0, <1>7, <2>3 DEF BeginPosition
    <3> QED BY <1>1, <2>1, <3>1
  <2> QED BY <2>2, <2>3
<1>8. CASE EndPosition
  BY <1>1, <1>6, <1>8 DEF EndPosition, Marks
<1>9. CASE BeginBranch
  <2>1. Quiet /\ UNCHANGED <<current, call>>
    BY <1>9 DEF BeginBranch
  <2>2. CASE group.on
    BY <1>1, <1>5, <1>9, <2>1, <2>2 DEF BeginBranch, Marks
  <2>3. CASE ~group.on
    <3>1. Shaped /\ Exact
      BY <1>0, <1>9, <2>3 DEF BeginBranch
    <3> QED BY <1>1, <2>1, <3>1
  <2> QED BY <2>2, <2>3
<1>10. CASE EndBranch
  BY <1>1, <1>6, <1>10 DEF EndBranch, Marks
<1>11. CASE EndGroup
  <2>1. Quiet /\ UNCHANGED <<current, call>> /\ Shaped /\ Exact
    BY <1>0, <1>11 DEF EndGroup, team
  <2> QED BY <1>1, <2>1
<1> QED BY <1>2, <1>3, <1>4, <1>7, <1>8, <1>9, <1>10, <1>11 DEF Serial

(* The marks are kept by every behaviour, for all constants. *)
THEOREM MarksInvariant == Spec => []IInv
<1>1. Init => IInv
  BY InitIInv
<1>2. IInv /\ [Next]_vars => IInv'
  <2> SUFFICES ASSUME IInv, [Next]_vars PROVE IInv'
    OBVIOUS
  <2>1. CASE Next
    BY <2>1, ThreadStep, SerialStep DEF Next
  <2>2. CASE UNCHANGED vars
    BY <2>2 DEF vars, team, serial, IInv, Typed, MarkInv, NotAbove, BelowCrest, CrestKept
  <2> QED BY <2>1, <2>2
<1> QED BY <1>1, <1>2, PTL DEF Spec

(* Every high-water mark the profiler reports is the true one: no          *)
(* concurrent operator new is lost by updateMaximum.                       *)
THEOREM PeaksExactTheorem == Spec => []PeaksExact
<1>1. IInv => PeaksExact
  <2> SUFFICES ASSUME IInv, Quiet, NEW m \in Marks, enabled[m]
               PROVE  peak[m] = crest[m]
    BY DEF PeaksExact
  <2> QED BY IdleFacts DEF IInv, MarkInv, CrestKept, Quiet
<1> QED BY <1>1, MarksInvariant, PTL

-----------------------------------------------------------------------------
(* Nesting of the intervals, whatever fails, and the bound for branches    *)
(* that run at once.                                                       *)

Phases == {"outside", "run", "position", "group", "branch"}

Groups == [on : BOOLEAN, start : Int, sum : Int, left : Int]

Shape ==
  /\ start \in [Marks -> Int]
  /\ group \in Groups
  /\ phase \in Phases
  /\ bound \in Int /\ bound >= 0 /\ siblings \in Int

(* The position propagation of a profiled run is profiled. *)
PositionOpen ==
  enabled["run"] /\ phase \in {"position", "group", "branch"} => enabled["position"]

(* What the branches so far have added is in the sum of the group. *)
SumCovers ==
  /\ group.on => group.start + group.sum >= siblings
  /\ ~group.on => siblings = 0

NInv == Shape /\ PositionOpen /\ IntervalsNested /\ SumCovers

LEMMA Larger2 ==
  ASSUME NEW a \in Int, NEW b \in Int
  PROVE  Larger(a, b) \in Int /\ Larger(a, b) >= a /\ Larger(a, b) >= b
BY DEF Larger

(* A group keeps its type when one of its fields changes. *)
LEMMA GroupTypes ==
  ASSUME NEW g \in Groups, NEW a \in Int, NEW b \in Int
  PROVE  /\ [g EXCEPT !.on = FALSE] \in Groups
         /\ [g EXCEPT !.sum = a, !.left = b] \in Groups
BY DEF Groups

LEMMA GroupFields ==
  ASSUME NEW g \in Groups
  PROVE  /\ g.on \in BOOLEAN /\ g.start \in Int /\ g.sum \in Int /\ g.left \in Int
         /\ g.start + g.sum \in Int
BY DEF Groups

LEMMA StartTypes ==
  ASSUME NEW f \in [Marks -> Int], NEW m \in Marks, NEW a \in Int
  PROVE  [f EXCEPT ![m] = a] \in [Marks -> Int]
  OBVIOUS

LEMMA InitNInv == Init => NInv
<1> SUFFICES ASSUME Init PROVE NInv
  OBVIOUS
<1>1. Shape
  <2>1. group \in Groups
    BY DEF Init, Groups
  <2> QED BY <2>1 DEF Init, Shape, Phases
<1>2. PositionOpen /\ IntervalsNested /\ SumCovers
  BY DEF Init, PositionOpen, IntervalsNested, SumCovers, Marks
<1> QED BY <1>1, <1>2 DEF NInv

(* The steps inside operator new and delete touch none of it. *)
LEMMA SerialUnchanged ==
  ASSUME NInv, UNCHANGED serial
  PROVE  NInv'
BY DEF serial, NInv, Shape, PositionOpen, IntervalsNested, SumCovers

LEMMA ThreadLeavesSerial ==
  ASSUME NEW t \in Team, Record(t) \/ \E b \in Sizes : Count(t, b) \/ Free(t, b)
  PROVE  UNCHANGED serial
BY DEF Record, SkipMark, LoadMark, KeepMark, RaiseMark, RetryMark, Count, Free

-----------------------------------------------------------------------------
LEMMA BeginRunNested ==
  ASSUME IInv, NInv, NEW on \in BOOLEAN, BeginRun(on)
  PROVE  NInv'
<1>1. /\ phase' = "run" /\ group' = [group EXCEPT !.on = FALSE]
      /\ enabled'["run"] = on /\ enabled'["position"] = FALSE /\ enabled'["branch"] = FALSE
      /\ bound' = 0 /\ siblings' = 0 /\ start' = [start EXCEPT !["run"] = current]
  BY DEF BeginRun, Marks
<1>2. Shape'
  <2>1. group' \in Groups
    BY <1>1, GroupTypes DEF NInv, Shape
  <2>2. current \in Int
    BY DEF IInv, Typed
  <2>3. start' \in [Marks -> Int]
    BY <1>1, <2>2, StartTypes DEF NInv, Shape, Marks
  <2> QED BY <1>1, <2>1, <2>3 DEF NInv, Shape, Phases
<1>3. PositionOpen' /\ IntervalsNested' /\ SumCovers'
  BY <1>1 DEF NInv, Shape, PositionOpen, IntervalsNested, SumCovers
<1> QED BY <1>2, <1>3 DEF NInv

(* Also after a failure no group is open: it would have left the phase of  *)
(* the position propagation.                                               *)
LEMMA EndRunNested ==
  ASSUME IInv, NInv, NEW failed \in BOOLEAN, EndRun(failed)
  PROVE  NInv'
<1>1. /\ phase \in {"run", "position"}
      /\ phase' = "outside" /\ group' = [group EXCEPT !.on = FALSE]
      /\ \A m \in Marks : enabled'[m] = FALSE
      /\ bound' = 0 /\ siblings' = siblings /\ start' = [m \in Marks |-> 0]
  BY DEF EndRun, StopAll
<1>2. ~group.on
  BY <1>1 DEF NInv, IntervalsNested
<1>3. Shape'
  <2>1. group' \in Groups
    BY <1>1, GroupTypes DEF NInv, Shape
  <2> QED BY <1>1, <2>1 DEF NInv, Shape, Phases
<1>4. PositionOpen' /\ IntervalsNested'
  BY <1>1 DEF NInv, Shape, PositionOpen, IntervalsNested, Marks
<1>5. SumCovers'
  BY <1>1, <1>2 DEF NInv, Shape, SumCovers
<1> QED BY <1>3, <1>4, <1>5 DEF NInv

LEMMA PositionNested ==
  ASSUME IInv, NInv, BeginPosition \/ EndPosition
  PROVE  NInv'
<1>0. enabled \in [Marks -> BOOLEAN] /\ current \in Int
  BY DEF IInv, Typed
<1>1. CASE BeginPosition
  <2>1. /\ phase = "run" /\ phase' = "position" /\ UNCHANGED <<group, bound, siblings>>
        /\ IF enabled["run"] THEN /\ start' = [start EXCEPT !["position"] = current]
                                  /\ enabled' = [enabled EXCEPT !["position"] = TRUE]
                             ELSE UNCHANGED <<start, enabled>>
    BY <1>1 DEF BeginPosition, Open
  <2>2. Shape'
    BY <1>0, <2>1 DEF NInv, Shape, Phases
  <2>3. /\ enabled'["run"] = enabled["run"] /\ enabled'["branch"] = enabled["branch"]
        /\ enabled'["position"] = (enabled["run"] \/ enabled["position"])
    BY <1>0, <2>1 DEF Marks
  <2>4. PositionOpen' /\ IntervalsNested'
    BY <2>1, <2>3 DEF NInv, PositionOpen, IntervalsNested
  <2>5. SumCovers'
    BY <2>1 DEF NInv, SumCovers
  <2> QED BY <2>2, <2>4, <2>5 DEF NInv
<1>2. CASE EndPosition
  <2>1. /\ phase = "position" /\ phase' = "run" /\ UNCHANGED <<group, bound, siblings>>
        /\ enabled' = [enabled EXCEPT !["position"] = FALSE]
        /\ start' = [start EXCEPT !["position"] = 0]
    BY <1>2 DEF EndPosition, Close
  <2>2. Shape'
    <3>1. start' \in [Marks -> Int]
      BY <2>1, StartTypes DEF NInv, Shape, Marks
    <3> QED BY <2>1, <3>1 DEF NInv, Shape, Phases
  <2>3. /\ enabled'["run"] = enabled["run"] /\ enabled'["branch"] = enabled["branch"]
        /\ enabled'["position"] = FALSE
    BY <1>0, <2>1 DEF Marks
  <2>4. PositionOpen' /\ IntervalsNested'
    BY <2>1, <2>3 DEF NInv, PositionOpen, IntervalsNested
  <2>5. SumCovers'
    BY <2>1 DEF NInv, SumCovers
  <2> QED BY <2>2, <2>4, <2>5 DEF NInv
<1> QED BY <1>1, <1>2

LEMMA GroupNested ==
  ASSUME IInv, NInv, EndGroup \/ \E sequential \in BOOLEAN : BeginGroup(sequential)
  PROVE  NInv'
<1>0. enabled \in [Marks -> BOOLEAN] /\ current \in Int
  BY DEF IInv, Typed
<1>1. ASSUME NEW sequential \in BOOLEAN, BeginGroup(sequential) PROVE NInv'
  <2> DEFINE active == sequential /\ enabled["run"]
  <2>1. active \in BOOLEAN /\ Branches \in Int
    BY <1>0, MemoryAssumption DEF Marks
  <2>2. /\ phase = "position" /\ phase' = "group" /\ UNCHANGED <<start, bound>>
        /\ group' = [on |-> active, start |-> IF active THEN current ELSE group.start,
                     sum |-> IF active THEN 0 ELSE group.sum, left |-> Branches]
        /\ siblings' = IF active THEN current ELSE 0
        /\ enabled' = [enabled EXCEPT !["branch"] = FALSE]
    BY <1>1 DEF BeginGroup
  <2>3. active => enabled["run"]
    OBVIOUS
  <2> HIDE DEF active
  <2>4. Shape'
    <3>1. group' \in Groups
      BY <1>0, <2>1, <2>2, GroupFields DEF NInv, Shape, Groups
    <3> QED BY <1>0, <2>2, <3>1 DEF NInv, Shape, Phases
  <2>5. /\ enabled'["run"] = enabled["run"] /\ enabled'["branch"] = FALSE
        /\ enabled'["position"] = enabled["position"] /\ group'.on = active
    BY <1>0, <2>2 DEF Marks
  <2>6. PositionOpen' /\ IntervalsNested'
    BY <2>2, <2>3, <2>5 DEF NInv, PositionOpen, IntervalsNested
  <2>7. SumCovers'
    BY <1>0, <2>1, <2>2 DEF SumCovers
  <2> QED BY <2>4, <2>6, <2>7 DEF NInv
<1>2. CASE EndGroup
  <2>1. /\ phase = "group" /\ phase' = "position" /\ UNCHANGED start
        /\ bound' = IF group.on THEN Larger(bound, group.start + group.sum) ELSE bound
        /\ siblings' = 0 /\ enabled' = [enabled EXCEPT !["branch"] = FALSE]
        /\ group' = [on |-> FALSE, start |-> 0, sum |-> 0, left |-> 0]
    BY <1>2 DEF EndGroup, LargestEstimate
  <2>2. bound' \in Int /\ bound' >= 0
    <3>1. group.start + group.sum \in Int /\ bound \in Int /\ bound >= 0
      BY GroupFields DEF NInv, Shape
    <3>2. /\ Larger(bound, group.start + group.sum) \in Int
          /\ Larger(bound, group.start + group.sum) >= bound
      BY <3>1, Larger2
    <3> QED BY <2>1, <3>1, <3>2
  <2>3. Shape'
    <3>1. group' \in Groups
      BY <2>1 DEF Groups
    <3> QED BY <2>1, <2>2, <3>1 DEF NInv, Shape, Phases
  <2>4. /\ enabled'["run"] = enabled["run"] /\ enabled'["branch"] = FALSE
        /\ enabled'["position"] = enabled["position"]
    BY <1>0, <2>1 DEF Marks
  <2>5. PositionOpen' /\ IntervalsNested'
    BY <2>1, <2>4 DEF NInv, PositionOpen, IntervalsNested
  <2>6. SumCovers'
    BY <2>1 DEF SumCovers
  <2> QED BY <2>3, <2>5, <2>6 DEF NInv
<1> QED BY <1>1, <1>2

(* A branch that ends adds at least what it used: between parallel regions *)
(* its mark is exact.                                                      *)
LEMMA BranchNested ==
  ASSUME IInv, NInv, BeginBranch \/ EndBranch
  PROVE  NInv'
<1>0. enabled \in [Marks -> BOOLEAN] /\ current \in Int
  BY DEF IInv, Typed
<1>1. CASE BeginBranch
  <2>1. /\ phase = "group" /\ phase' = "branch" /\ UNCHANGED <<group, bound, siblings>>
        /\ IF group.on THEN /\ start' = [start EXCEPT !["branch"] = current]
                            /\ enabled' = [enabled EXCEPT !["branch"] = TRUE]
                       ELSE UNCHANGED <<start, enabled>>
    BY <1>1 DEF BeginBranch, Open
  <2>2. Shape'
    BY <1>0, <2>1 DEF NInv, Shape, Phases
  <2>3. /\ enabled'["run"] = enabled["run"] /\ enabled'["position"] = enabled["position"]
        /\ enabled'["branch"] = (group.on \/ enabled["branch"])
    BY <1>0, <2>1 DEF NInv, Shape, Marks
  <2>4. PositionOpen' /\ IntervalsNested'
    BY <2>1, <2>3 DEF NInv, PositionOpen, IntervalsNested
  <2>5. SumCovers'
    BY <2>1 DEF NInv, SumCovers
  <2> QED BY <2>2, <2>4, <2>5 DEF NInv
<1>2. CASE EndBranch
  <2> DEFINE rise == IF enabled["branch"] THEN Larger(peak["branch"] - start["branch"], 0) ELSE 0
             used == IF enabled["branch"] THEN crest["branch"] - start["branch"] ELSE 0
  <2>1. /\ phase = "branch" /\ phase' = "group" /\ UNCHANGED bound
        /\ enabled' = [enabled EXCEPT !["branch"] = FALSE]
        /\ start' = [start EXCEPT !["branch"] = 0]
        /\ group' = [group EXCEPT !.sum = @ + rise, !.left = @ - 1]
        /\ siblings' = siblings + used
    BY <1>2 DEF EndBranch, Close
  <2>2. enabled["branch"] => peak["branch"] = crest["branch"]
    BY <1>2, IdleFacts DEF IInv, MarkInv, CrestKept, Quiet, EndBranch, Marks
  <2>3. peak["branch"] \in Int /\ crest["branch"] \in Int /\ start["branch"] \in Int
    BY DEF IInv, Typed, NInv, Shape, Marks
  <2>4. peak["branch"] - start["branch"] \in Int /\ 0 \in Int
    BY <2>3
  <2>l. /\ Larger(peak["branch"] - start["branch"], 0) \in Int
        /\ Larger(peak["branch"] - start["branch"], 0) >= peak["branch"] - start["branch"]
    BY <2>4, Larger2
  <2>5. rise \in Int /\ used \in Int /\ rise >= used
    BY <2>2, <2>3, <2>l
  <2>6. used = 0 \/ group.on
    BY DEF NInv, IntervalsNested
  <2> HIDE DEF rise, used
  <2>7. Shape'
    <3>1. group.sum + rise \in Int /\ group.left - 1 \in Int
      BY <2>5, GroupFields DEF NInv, Shape
    <3>2. group' \in Groups
      BY <2>1, <3>1, GroupTypes DEF NInv, Shape
    <3>3. start' \in [Marks -> Int]
      BY <2>1, StartTypes DEF NInv, Shape, Marks
    <3>4. siblings' \in Int
      BY <2>1, <2>5 DEF NInv, Shape
    <3> QED BY <2>1, <3>2, <3>3, <3>4 DEF NInv, Shape, Phases
  <2>8. /\ enabled'["run"] = enabled["run"] /\ enabled'["position"] = enabled["position"]
        /\ enabled'["branch"] = FALSE
    BY <1>0, <2>1 DEF Marks
  <2>9. group'.on = group.on /\ group'.start = group.start /\ group'.sum = group.sum + rise
    BY <2>1 DEF NInv, Shape
  <2>10. PositionOpen' /\ IntervalsNested'
    BY <2>1, <2>8, <2>9 DEF NInv, PositionOpen, IntervalsNested
  <2>11. SumCovers'
    <3>1. /\ group.start \in Int /\ group.sum \in Int /\ siblings \in Int
          /\ siblings' = siblings + used
      BY <2>1, GroupFields DEF NInv, Shape
    <3> QED BY <2>5, <2>6, <2>9, <3>1 DEF NInv, SumCovers
  <2> QED BY <2>7, <2>10, <2>11 DEF NInv
<1> QED BY <1>1, <1>2

-----------------------------------------------------------------------------
(* The inductive invariant, relative to that of MemoryProfileProofs.       *)
THEOREM NestingInvariant == Spec => []NInv
<1>1. IInv /\ NInv /\ [Next]_vars => NInv'
  <2> SUFFICES ASSUME IInv, NInv, [Next]_vars PROVE NInv'
    OBVIOUS
  <2>1. CASE UNCHANGED vars
    BY <2>1, SerialUnchanged DEF vars
  <2>2. ASSUME NEW t \in Team, Record(t) \/ \E b \in Sizes : Count(t, b) \/ Free(t, b)
        PROVE  NInv'
    BY <2>2, ThreadLeavesSerial, SerialUnchanged
  <2>3. CASE Serial
    BY <2>3, BeginRunNested, EndRunNested, PositionNested, GroupNested, BranchNested DEF Serial
  <2> QED BY <2>1, <2>2, <2>3 DEF Next
<1> QED BY <1>1, InitNInv, MarksInvariant, PTL DEF Spec

(* No interval is recorded outside the one that encloses it, also after a  *)
(* join that failed.                                                       *)
THEOREM IntervalsNestedTheorem == Spec => []IntervalsNested
<1>1. NInv => IntervalsNested
  BY DEF NInv
<1> QED BY <1>1, NestingInvariant, PTL

(* The reported bound of a group covers its start and what every branch of *)
(* it added, and no later group lowers it.                                 *)
THEOREM BoundConservativeTheorem == Spec => BoundConservative
<1>1. NInv /\ [Next]_vars =>
        [phase = "group" /\ phase' = "position" => bound' >= bound /\ bound' >= siblings]_vars
  <2> SUFFICES ASSUME NInv, Next, phase = "group", phase' = "position"
               PROVE  bound' >= bound /\ bound' >= siblings
    OBVIOUS
  <2>1. CASE EndGroup
    <3>1. bound' = IF group.on THEN Larger(bound, group.start + group.sum) ELSE bound
      BY <2>1 DEF EndGroup, LargestEstimate
    <3>2. /\ bound \in Int /\ bound >= 0 /\ siblings \in Int /\ group.on \in BOOLEAN
          /\ group.start + group.sum \in Int
      BY GroupFields DEF NInv, Shape
    <3>3. /\ Larger(bound, group.start + group.sum) >= bound
          /\ Larger(bound, group.start + group.sum) >= group.start + group.sum
          /\ Larger(bound, group.start + group.sum) \in Int
      BY <3>2, Larger2
    <3> QED BY <3>1, <3>2, <3>3 DEF NInv, SumCovers
  <2>2. CASE \E t \in Team : Record(t) \/ \E b \in Sizes : Count(t, b) \/ Free(t, b)
    <3>1. UNCHANGED serial
      BY <2>2, ThreadLeavesSerial
    <3> QED BY <3>1 DEF serial
  <2>3. CASE Serial /\ ~EndGroup
    BY <2>3 DEF Serial, BeginRun, EndRun, BeginGroup, BeginPosition, EndPosition, BeginBranch, EndBranch
  <2> QED BY <2>1, <2>2, <2>3 DEF Next
<1> QED BY <1>1, NestingInvariant, PTL DEF Spec, BoundConservative

-----------------------------------------------------------------------------
(* The live bytes. *)

(* One element for every byte of an allocation in progress.                *)
InFlight == {p \in Team \X (1 .. MaxLive) : p[2] <= call[p[1]].bytes}

(* The live bytes are those of the blocks handed out and of the            *)
(* allocations in progress; nothing recorded exceeds the most bytes that   *)
(* may be live.                                                            *)
Accounts ==
  /\ current \in 0 .. MaxLive /\ returned \in Nat
  /\ IsFiniteSet(InFlight) /\ current = returned + Cardinality(InFlight)
  /\ \A t \in Team : /\ call[t].bytes \in 0 .. MaxLive /\ call[t].live \in 0 .. MaxLive
                     /\ call[t].old \in -1 .. MaxLive
  /\ \A m \in Marks : peak[m] \in 0 .. MaxLive /\ start[m] \in 0 .. MaxLive /\ crest[m] \in 0 .. MaxLive

Bytes(t, b) == {t} \X (1 .. b)

LEMMA BytesCounted ==
  ASSUME NEW t, NEW b \in Nat
  PROVE  IsFiniteSet(Bytes(t, b)) /\ Cardinality(Bytes(t, b)) = b
<1> DEFINE f == [k \in 1 .. b |-> <<t, k>>]
<1>1. f \in Bijection(1 .. b, Bytes(t, b))
  <2>1. f \in [1 .. b -> Bytes(t, b)]
    BY DEF Bytes
  <2>2. \A x, y \in 1 .. b : f[x] = f[y] => x = y
    OBVIOUS
  <2>3. \A z \in Bytes(t, b) : \E x \in 1 .. b : f[x] = z
    BY DEF Bytes
  <2> HIDE DEF f
  <2> QED BY <2>1, <2>2, <2>3 DEF Bijection, Injection, Surjection, IsInjective
<1>2. IsFiniteSet(1 .. b) /\ Cardinality(1 .. b) = b
  BY FS_Interval
<1> HIDE DEF f
<1> QED BY <1>1, <1>2, FS_Bijection DEF ExistsBijection

(* When one thread's call goes from a to b bytes, so do the bytes in       *)
(* flight.                                                                 *)
LEMMA FlightChanges ==
  ASSUME Accounts, Typed, NEW t \in Team, NEW c, call' = [call EXCEPT ![t] = c], c.bytes \in 0 .. MaxLive
  PROVE  /\ IsFiniteSet(InFlight')
         /\ Cardinality(InFlight') = (Cardinality(InFlight) - call[t].bytes) + c.bytes
         /\ Cardinality(InFlight) \in Nat /\ Cardinality(InFlight) >= call[t].bytes
<1> DEFINE Rest == {p \in InFlight : p[1] # t}
           a == call[t].bytes
<1>1. a \in Nat /\ a <= MaxLive /\ c.bytes \in Nat /\ c.bytes <= MaxLive /\ MaxLive \in Nat
  BY MemoryAssumption DEF Accounts
<1>2. InFlight = Rest \cup Bytes(t, a) /\ Rest \cap Bytes(t, a) = {}
  BY <1>1 DEF InFlight, Bytes
<1>3. InFlight' = Rest \cup Bytes(t, c.bytes) /\ Rest \cap Bytes(t, c.bytes) = {}
  <2>1. call'[t] = c /\ \A u \in Team : u # t => call'[u] = call[u]
    BY DEF Typed
  <2> QED BY <1>1, <2>1 DEF InFlight, Bytes
<1>4. /\ IsFiniteSet(Bytes(t, a)) /\ Cardinality(Bytes(t, a)) = a
      /\ IsFiniteSet(Bytes(t, c.bytes)) /\ Cardinality(Bytes(t, c.bytes)) = c.bytes
  BY <1>1, BytesCounted
<1>5. IsFiniteSet(Rest)
  BY <1>2, FS_Subset DEF Accounts
<1>6. Cardinality(Rest) \in Nat
  BY <1>5, FS_CardinalityType
<1> HIDE DEF Rest, a
<1>7. \A S : IsFiniteSet(S) /\ Rest \cap S = {} =>
        IsFiniteSet(Rest \cup S) /\ Cardinality(Rest \cup S) = Cardinality(Rest) + Cardinality(S)
  <2> SUFFICES ASSUME NEW S, IsFiniteSet(S), Rest \cap S = {}
               PROVE  IsFiniteSet(Rest \cup S) /\ Cardinality(Rest \cup S) = Cardinality(Rest) + Cardinality(S)
    OBVIOUS
  <2>1. Cardinality(Rest \cup S) = Cardinality(Rest) + Cardinality(S) - Cardinality({})
    BY <1>5, FS_Union
  <2>2. Cardinality(S) \in Nat /\ Cardinality({}) = 0
    BY FS_CardinalityType, FS_EmptySet
  <2> QED BY <1>5, <1>6, <2>1, <2>2, FS_Union
<1>8. Cardinality(InFlight) = Cardinality(Rest) + a
  BY <1>2, <1>4, <1>7
<1>9. IsFiniteSet(InFlight') /\ Cardinality(InFlight') = Cardinality(Rest) + c.bytes
  BY <1>3, <1>4, <1>7
<1> QED BY <1>1, <1>6, <1>8, <1>9 DEF a

LEMMA AccountsInit == Init => Accounts
<1> SUFFICES ASSUME Init PROVE Accounts
  OBVIOUS
<1>1. MaxLive \in Nat
  BY MemoryAssumption
<1>2. InFlight = {}
  BY <1>1 DEF Init, InFlight, Idle
<1>3. IsFiniteSet({}) /\ Cardinality({}) = 0
  BY FS_EmptySet
<1> QED BY <1>1, <1>2, <1>3 DEF Init, Accounts, Idle

(* Handing a block out moves its bytes; the other marks of a call keep     *)
(* them.                                                                   *)
LEMMA LeaveAccounts ==
  ASSUME IInv, Accounts, NEW t \in Team, call[t] # Idle, Leave(t), current' = current
  PROVE  /\ current' = returned' + Cardinality(InFlight') /\ IsFiniteSet(InFlight') /\ returned' \in Nat
         /\ \A u \in Team : /\ call'[u].bytes \in 0 .. MaxLive /\ call'[u].live \in 0 .. MaxLive
                            /\ call'[u].old \in -1 .. MaxLive
<1>1. MaxLive \in Nat /\ call[t].bytes \in 0 .. MaxLive /\ call[t].live \in 0 .. MaxLive
      /\ returned \in Nat /\ current \in Nat /\ current = returned + Cardinality(InFlight)
  BY MemoryAssumption DEF Accounts
<1>2. Typed
  BY DEF IInv
<1> DEFINE m == Following(call[t].mark)
<1>3. CASE m = "none"
  <2>1. call' = [call EXCEPT ![t] = Idle] /\ returned' = returned + call[t].bytes
    BY <1>3 DEF Leave
  <2>2. Idle.bytes = 0 /\ Idle.live = 0 /\ Idle.old = 0
    BY DEF Idle
  <2>3. /\ IsFiniteSet(InFlight')
        /\ Cardinality(InFlight') = (Cardinality(InFlight) - call[t].bytes) + 0
        /\ Cardinality(InFlight) \in Nat
    <3>1. Idle.bytes \in 0 .. MaxLive
      BY <1>1, <2>2
    <3>2. /\ IsFiniteSet(InFlight')
          /\ Cardinality(InFlight') = (Cardinality(InFlight) - call[t].bytes) + Idle.bytes
          /\ Cardinality(InFlight) \in Nat
      BY <1>2, <2>1, <3>1, FlightChanges
    <3> QED BY <3>2, <2>2
  <2>4. call'[t] = Idle /\ \A u \in Team : u # t => call'[u] = call[u]
    BY <1>2, <2>1 DEF Typed
  <2> QED BY <1>1, <2>1, <2>2, <2>3, <2>4 DEF Accounts
<1>4. CASE m # "none"
  <2> DEFINE c == At(call[t], m, NotRead)
  <2>1. call' = [call EXCEPT ![t] = c] /\ returned' = returned
    BY <1>4 DEF Leave
  <2>2. c.bytes = call[t].bytes /\ c.live = call[t].live /\ c.old = -1
    BY DEF At, NotRead
  <2> HIDE DEF c, m
  <2>3. /\ IsFiniteSet(InFlight')
        /\ Cardinality(InFlight') = (Cardinality(InFlight) - call[t].bytes) + call[t].bytes
        /\ Cardinality(InFlight) \in Nat
    BY <1>1, <1>2, <2>1, <2>2, FlightChanges
  <2>4. call'[t] = c /\ \A u \in Team : u # t => call'[u] = call[u]
    BY <1>2, <2>1 DEF Typed
  <2> QED BY <1>1, <2>1, <2>2, <2>3, <2>4 DEF Accounts
<1> QED BY <1>3, <1>4

LEMMA ThreadAccounts ==
  ASSUME IInv, Accounts, NEW t \in Team, Record(t) \/ \E b \in Sizes : Count(t, b) \/ Free(t, b)
  PROVE  Accounts'
<1>1. MaxLive \in Nat /\ UNCHANGED serial /\ Typed
  BY MemoryAssumption, ThreadLeavesSerial DEF IInv
<1>2. start' = start
  BY <1>1 DEF serial
<1>3. CASE SkipMark(t) \/ KeepMark(t)
  <2>1. call[t] # Idle /\ Leave(t) /\ UNCHANGED <<current, peak, crest>>
    BY <1>3 DEF SkipMark, KeepMark
  <2> QED BY <1>2, <2>1, LeaveAccounts DEF Accounts
<1>4. CASE RaiseMark(t)
  <2>1. call[t] # Idle /\ Leave(t) /\ UNCHANGED <<current, crest>>
        /\ peak' = [peak EXCEPT ![call[t].mark] = call[t].live]
    BY <1>4 DEF RaiseMark
  <2>2. \A m \in Marks : peak'[m] \in 0 .. MaxLive
    BY <1>1, <2>1 DEF Accounts, Typed
  <2> QED BY <1>2, <2>1, <2>2, LeaveAccounts DEF Accounts
<1>5. CASE LoadMark(t) \/ RetryMark(t)
  <2>1. call[t] # Idle /\ UNCHANGED <<current, peak, returned, crest>>
        /\ call' = [call EXCEPT ![t] = At(@, @.mark, peak[@.mark])]
    BY <1>5 DEF LoadMark, RetryMark, Found
  <2>2. PICK c : c = At(call[t], call[t].mark, peak[call[t].mark])
    OBVIOUS
  <2>3. call[t].mark \in Marks
    BY <1>1, <2>1 DEF Typed, Calls
  <2>4. c.bytes = call[t].bytes /\ c.live = call[t].live /\ c.old \in 0 .. MaxLive
    BY <2>2, <2>3 DEF At, Accounts
  <2>5. call' = [call EXCEPT ![t] = c]
    BY <2>1, <2>2
  <2>6. /\ IsFiniteSet(InFlight')
        /\ Cardinality(InFlight') = (Cardinality(InFlight) - call[t].bytes) + c.bytes
        /\ Cardinality(InFlight) \in Nat
    <3>1. c.bytes \in 0 .. MaxLive
      BY <2>4 DEF Accounts
    <3> QED BY <1>1, <2>5, <3>1, FlightChanges
  <2>7. call'[t] = c /\ \A u \in Team : u # t => call'[u] = call[u]
    BY <1>1, <2>5 DEF Typed
  <2>8. Cardinality(InFlight') = Cardinality(InFlight)
    BY <1>1, <2>4, <2>6 DEF Accounts
  <2> QED BY <1>1, <1>2, <2>1, <2>4, <2>6, <2>7, <2>8 DEF Accounts
<1>6. ASSUME NEW b \in Sizes, Count(t, b) PROVE Accounts'
  <2> DEFINE new == [mark |-> "run", live |-> current + b, old |-> NotRead, bytes |-> b]
  <2>1. /\ call[t] = Idle /\ current + b <= MaxLive /\ current' = current + b
        /\ crest' = [m \in Marks |-> IF enabled[m] THEN Larger(crest[m], current + b) ELSE crest[m]]
        /\ UNCHANGED <<peak, returned>>
    BY <1>6 DEF Count
  <2>2. call' = [call EXCEPT ![t] = new]
    BY <1>6 DEF Count
  <2>3. b \in Nat /\ current \in Nat /\ returned \in Nat /\ current = returned + Cardinality(InFlight)
        /\ current + b \in 0 .. MaxLive /\ b \in 0 .. MaxLive
    BY <1>1, <2>1, MemoryAssumption DEF Accounts
  <2>4. call[t].bytes = 0
    BY <2>1 DEF Idle
  <2>5. new.bytes = b /\ new.live = current + b /\ new.old = -1
    BY DEF NotRead
  <2> HIDE DEF new
  <2>6. /\ IsFiniteSet(InFlight')
        /\ Cardinality(InFlight') = (Cardinality(InFlight) - call[t].bytes) + new.bytes
        /\ Cardinality(InFlight) \in Nat
    <3>1. new.bytes \in 0 .. MaxLive
      BY <2>3, <2>5
    <3> QED BY <1>1, <2>2, <3>1, FlightChanges
  <2>7. call'[t] = new /\ \A u \in Team : u # t => call'[u] = call[u]
    BY <1>1, <2>2 DEF Typed
  <2>8. \A m \in Marks : crest'[m] \in 0 .. MaxLive
    BY <2>1, <2>3 DEF Accounts, Larger
  <2>9. current' = returned' + Cardinality(InFlight')
    BY <2>1, <2>3, <2>4, <2>5, <2>6
  <2> QED BY <1>1, <1>2, <2>1, <2>3, <2>5, <2>6, <2>7, <2>8, <2>9 DEF Accounts
<1>7. ASSUME NEW b \in Sizes, Free(t, b) PROVE Accounts'
  <2>1. /\ b <= returned /\ current' = current - b /\ returned' = returned - b
        /\ UNCHANGED <<peak, call, crest>>
    BY <1>7 DEF Free
  <2>2. InFlight' = InFlight
    BY <2>1 DEF InFlight
  <2>3. Cardinality(InFlight) \in Nat
    BY FS_CardinalityType DEF Accounts
  <2>4. /\ returned' \in Nat /\ current' \in 0 .. MaxLive
        /\ current' = returned' + Cardinality(InFlight)
    BY <1>1, <2>1, <2>3, MemoryAssumption DEF Accounts
  <2> QED BY <1>2, <2>1, <2>2, <2>4 DEF Accounts
<1> QED BY <1>3, <1>4, <1>5, <1>6, <1>7 DEF Record

LEMMA SerialAccounts == IInv /\ NInv /\ Accounts /\ Serial => Accounts'
<1> SUFFICES ASSUME IInv, NInv, Accounts, Serial PROVE Accounts'
  OBVIOUS
<1>1. MaxLive \in Nat /\ peak \in [Marks -> Int] /\ crest \in [Marks -> Int] /\ start \in [Marks -> Int]
  BY MemoryAssumption DEF IInv, Typed, NInv, Shape
<1>2. UNCHANGED <<current, returned, call>>
  BY DEF Serial, BeginRun, EndRun, BeginGroup, BeginPosition, EndPosition, BeginBranch, EndBranch,
         EndGroup, Open, Close, team
<1>3. InFlight' = InFlight
  BY <1>2 DEF InFlight
<1>4. /\ \A m \in Marks : peak'[m] \in {peak[m], current, 0}
      /\ \A m \in Marks : start'[m] \in {start[m], current, 0}
      /\ \A m \in Marks : crest'[m] \in {crest[m], current, 0}
  <2>1. CASE \E on \in BOOLEAN : BeginRun(on)
    BY <1>1, <2>1 DEF BeginRun, Marks
  <2>2. CASE \E on \in BOOLEAN : EndRun(on)
    BY <1>1, <2>2 DEF EndRun
  <2>3. CASE BeginPosition \/ BeginBranch
    BY <1>1, <2>3 DEF BeginPosition, BeginBranch, Open, OpenMark, Marks
  <2>4. CASE EndPosition \/ EndBranch
    BY <1>1, <2>4 DEF EndPosition, EndBranch, Close, Marks
  <2>5. CASE EndGroup \/ \E on \in BOOLEAN : BeginGroup(on)
    BY <1>1, <2>5 DEF EndGroup, BeginGroup, team
  <2> QED BY <2>1, <2>2, <2>3, <2>4, <2>5 DEF Serial
<1> QED BY <1>1, <1>2, <1>3, <1>4 DEF Accounts

(* Whatever is allocated, freed and profiled: the live bytes are the       *)
(* bytes handed out and those of the allocations in progress.              *)
THEOREM AccountsInvariant == Spec => []Accounts
<1>1. IInv /\ NInv /\ Accounts /\ [Next]_vars => Accounts'
  <2> SUFFICES ASSUME IInv, NInv, Accounts, [Next]_vars PROVE Accounts'
    OBVIOUS
  <2>1. CASE UNCHANGED vars
    <3>1. UNCHANGED <<current, peak, returned, call, crest, start>>
      BY <2>1 DEF vars, team, serial
    <3>2. InFlight' = InFlight
      BY <3>1 DEF InFlight
    <3> QED BY <3>1, <3>2 DEF Accounts
  <2> QED BY <2>1, ThreadAccounts, SerialAccounts DEF Next
<1> QED BY <1>1, AccountsInit, MarksInvariant, NestingInvariant, PTL DEF Spec

(* No mark, start or reading of a mark is ever above the bytes that may be *)
(* live, and no free takes the counter of live bytes below zero.           *)
THEOREM TypeCorrect == Spec => []TypeOK
<1>1. IInv /\ NInv /\ Accounts => TypeOK
  <2> SUFFICES ASSUME IInv, NInv, Accounts PROVE TypeOK
    OBVIOUS
  <2>1. Cardinality(InFlight) \in Nat
    BY FS_CardinalityType DEF Accounts
  <2>2. returned \in 0 .. MaxLive
    BY <2>1, MemoryAssumption DEF Accounts
  <2>3. phase \in {"outside", "run", "position", "group", "branch"}
    BY DEF NInv, Shape, Phases
  <2>4. enabled \in [Marks -> BOOLEAN] /\ \A t \in Team : call[t].mark \in Marks \cup {"none"}
    BY DEF IInv, Typed, Calls
  <2> QED BY <2>2, <2>3, <2>4 DEF TypeOK, Accounts
<1> QED BY <1>1, AccountsInvariant, MarksInvariant, NestingInvariant, PTL
=============================================================================
