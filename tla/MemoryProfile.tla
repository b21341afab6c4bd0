----------------------------- MODULE MemoryProfile -----------------------------
(***************************************************************************)
(* The allocator-level memory profiler: every operator new adds to one     *)
(* atomic count of live bytes and then raises up to three high-water marks *)
(* with a compare-and-swap loop, while the thread that runs the join opens *)
(* and closes the intervals those marks belong to: the run, the position   *)
(* propagation of JFYanDown, and each sibling branch measured alone.       *)
(*                                                                         *)
(* The serial code opens and closes an interval between parallel regions,  *)
(* when no other thread allocates.  Within a region, every atomic operation *)
(* whose result another thread may see is a step.                          *)
(***************************************************************************)
EXTENDS Integers

CONSTANTS
  Team,       \* threads of the parallel regions
  Sizes,      \* sizes of the requested blocks
  MaxLive,    \* bound: bytes live at once
  Branches    \* children of a node of JFYanDown

ASSUME MemoryAssumption == Sizes \subseteq Nat \ {0} /\ MaxLive \in Nat /\ Branches \in Nat

Marks == {"run", "position", "branch"}

VARIABLES
  current,    \* g_currentBytes
  peak,       \* g_runPeakLive, g_positionPeakLive, g_branchPeakLive
  start,      \* g_runStartLive, g_positionStartLive, g_branchStartLive
  enabled,    \* g_runEnabled, g_positionEnabled, g_branchEnabled
  group,      \* g_branchGroupEnabled, ...StartLive, ...SumPeakIncreases; branches left
  bound,      \* g_branchConcurrentUpperBound
  returned,   \* bytes of the blocks operator new has handed out
  call,       \* call[t]: where thread t is in recordAllocation
  phase,      \* where the serial code is
  crest,      \* history: the most bytes live since each interval was opened
  siblings    \* history: the group's start and what each of its branches added, in sum

team == <<current, peak, returned, call, crest>>
serial == <<start, enabled, group, bound, phase, siblings>>
vars == <<team, serial>>

Idle == [mark |-> "none", live |-> 0, old |-> 0, bytes |-> 0]

NotRead == -1     \* updateMaximum has not loaded its target yet

Larger(a, b) == IF a >= b THEN a ELSE b

Following(m) == IF m = "run" THEN "position" ELSE IF m = "position" THEN "branch" ELSE "none"

(* The allocation c at mark m, with o read from it. *)
At(c, m, o) == [mark |-> m, live |-> c.live, old |-> o, bytes |-> c.bytes]

Init ==
  /\ current = 0 /\ bound = 0 /\ returned = 0
  /\ peak = [m \in Marks |-> 0] /\ start = [m \in Marks |-> 0] /\ crest = [m \in Marks |-> 0]
  /\ enabled = [m \in Marks |-> FALSE]
  /\ group = [on |-> FALSE, start |-> 0, sum |-> 0, left |-> 0]
  /\ call = [t \in Team |-> Idle]
  /\ phase = "outside"
  /\ siblings = 0

-----------------------------------------------------------------------------
(* recordAllocation: the fetch_add on the live bytes. *)
Count(t, b) ==
  /\ call[t] = Idle
  /\ current + b <= MaxLive
  /\ current' = current + b
  /\ crest' = [m \in Marks |-> IF enabled[m] THEN Larger(crest[m], current + b) ELSE crest[m]]
  /\ call' = [call EXCEPT ![t] = [mark |-> "run", live |-> current + b, old |-> NotRead, bytes |-> b]]
  /\ UNCHANGED <<peak, returned, serial>>

(* mutant: the block's header keeps the live bytes, not the requested ones *)
LeaveWithLive(t) ==
  LET m == Following(call[t].mark)
  IN  IF m = "none"
      THEN call' = [call EXCEPT ![t] = Idle] /\ returned' = returned + call[t].live
      ELSE call' = [call EXCEPT ![t] = At(@, m, NotRead)] /\ UNCHANGED returned

(* Thread t goes on to the next mark; after the last one the block is      *)
(* handed out.                                                             *)
Leave(t) ==
  LET m == Following(call[t].mark)
  IN  IF m = "none"
      THEN call' = [call EXCEPT ![t] = Idle] /\ returned' = returned + call[t].bytes
      ELSE call' = [call EXCEPT ![t] = At(@, m, NotRead)] /\ UNCHANGED returned

(* The mark is not recorded now. *)
SkipMark(t) ==
  /\ call[t] # Idle /\ call[t].old = NotRead
  /\ ~enabled[call[t].mark]
  /\ Leave(t)
  /\ UNCHANGED <<current, peak, crest, serial>>

(* updateMaximum: the first load. *)
LoadMark(t) ==
  /\ call[t] # Idle /\ call[t].old = NotRead
  /\ enabled[call[t].mark]
  /\ call' = [call EXCEPT ![t] = At(@, @.mark, peak[@.mark])]
  /\ UNCHANGED <<current, peak, returned, crest, serial>>

(* The mark is high enough. *)
KeepMark(t) ==
  /\ call[t] # Idle /\ call[t].old # NotRead
  /\ call[t].old >= call[t].live
  /\ Leave(t)
  /\ UNCHANGED <<current, peak, crest, serial>>

(* mutant: a store after the comparison instead of a compare-and-swap *)
StoreAnyway(t) == TRUE

(* Does the compare-and-swap find the value that was loaded? *)
Unchanged(t) == peak[call[t].mark] = call[t].old

RaiseMark(t) ==
  /\ call[t] # Idle /\ call[t].old # NotRead
  /\ call[t].old < call[t].live
  /\ Unchanged(t)
  /\ peak' = [peak EXCEPT ![call[t].mark] = call[t].live]
  /\ Leave(t)
  /\ UNCHANGED <<current, crest, serial>>

(* mutant: a failed swap does not load the value it found *)
OldAgain(t) == call[t].old

Found(t) == peak[call[t].mark]

(* The swap fails and loads the value it found. *)
RetryMark(t) ==
  /\ call[t] # Idle /\ call[t].old # NotRead
  /\ call[t].old < call[t].live
  /\ ~Unchanged(t)
  /\ call' = [call EXCEPT ![t] = At(@, @.mark, Found(t))]
  /\ UNCHANGED <<current, peak, returned, crest, serial>>

Record(t) == SkipMark(t) \/ LoadMark(t) \/ KeepMark(t) \/ RaiseMark(t) \/ RetryMark(t)

(* recordDeallocation: any thread frees a block that was handed out. *)
Free(t, b) ==
  /\ call[t] = Idle
  /\ b <= returned
  /\ current' = current - b
  /\ returned' = returned - b
  /\ UNCHANGED <<peak, call, crest, serial>>

-----------------------------------------------------------------------------
Quiet == \A t \in Team : call[t] = Idle

(* A new interval starts at the bytes live now. *)
OpenMark(m) == peak' = [peak EXCEPT ![m] = current]

Open(m) ==
  /\ OpenMark(m)
  /\ start' = [start EXCEPT ![m] = current]
  /\ crest' = [crest EXCEPT ![m] = current]

(* What is never read again is forgotten, to keep the states few: the      *)
(* start of a closed interval and its history, the mark of a branch once   *)
(* the branch is over, and after a run everything the snapshot has read.   *)
Close(m) ==
  /\ enabled' = [enabled EXCEPT ![m] = FALSE]
  /\ peak' = IF m = "branch" THEN [peak EXCEPT ![m] = 0] ELSE peak
  /\ start' = [start EXCEPT ![m] = 0]
  /\ crest' = [crest EXCEPT ![m] = 0]
  /\ UNCHANGED <<current, returned, call>>

(* memoryProfileBeginRun; on is whether the caller profiles memory. *)
BeginRun(on) ==
  /\ Quiet /\ phase = "outside"
  /\ phase' = "run"
  /\ enabled' = [m \in Marks |-> m = "run" /\ on]
  /\ group' = [group EXCEPT !.on = FALSE]
  /\ bound' = 0
  /\ peak' = [peak EXCEPT !["run"] = current, !["position"] = 0]
  /\ start' = [start EXCEPT !["run"] = current]
  /\ crest' = [crest EXCEPT !["run"] = current]
  /\ siblings' = 0
  /\ UNCHANGED <<current, returned, call>>

(* mutant: only the run's own flag is cleared *)
StopRun == [enabled EXCEPT !["run"] = FALSE]

StopAll == [m \in Marks |-> FALSE]

(* memoryProfileEndRun at the end of the join; failed: after an exception  *)
(* of the serial code, possibly inside the position propagation.           *)
EndRun(failed) ==
  /\ Quiet
  /\ phase = "run" \/ (failed /\ phase = "position")
  /\ phase' = "outside"
  /\ enabled' = StopAll
  /\ group' = [group EXCEPT !.on = FALSE]
  /\ peak' = [m \in Marks |-> 0]
  /\ start' = [m \in Marks |-> 0]
  /\ crest' = [m \in Marks |-> 0]
  /\ bound' = 0
  /\ UNCHANGED <<current, returned, call, siblings>>

(* memoryProfileBeginPositionPropagation *)
BeginPosition ==
  /\ Quiet /\ phase = "run"
  /\ phase' = "position"
  /\ IF enabled["run"] THEN Open("position") /\ enabled' = [enabled EXCEPT !["position"] = TRUE]
                       ELSE UNCHANGED <<peak, start, crest, enabled>>
  /\ UNCHANGED <<current, returned, call, group, bound, siblings>>

(* memoryProfileEndPositionPropagation *)
EndPosition ==
  /\ Quiet /\ phase = "position"
  /\ phase' = "run"
  /\ Close("position")
  /\ UNCHANGED <<group, bound, siblings>>

(* memoryProfileBeginBranchGroup; sequential: the node has one edge worker *)
BeginGroup(sequential) ==
  /\ Quiet /\ phase = "position"
  /\ phase' = "group"
  /\ LET active == sequential /\ enabled["run"]
     IN  /\ group' = [on |-> active, start |-> IF active THEN current ELSE group.start,
                      sum |-> IF active THEN 0 ELSE group.sum, left |-> Branches]
         /\ siblings' = IF active THEN current ELSE 0
  /\ enabled' = [enabled EXCEPT !["branch"] = FALSE]
  /\ UNCHANGED <<team, start, bound>>

BeginBranch ==
  /\ Quiet /\ phase = "group" /\ group.left > 0
  /\ phase' = "branch"
  /\ IF group.on THEN Open("branch") /\ enabled' = [enabled EXCEPT !["branch"] = TRUE]
                 ELSE UNCHANGED <<peak, start, crest, enabled>>
  /\ UNCHANGED <<current, returned, call, group, bound, siblings>>

EndBranch ==
  /\ Quiet /\ phase = "branch"
  /\ phase' = "group"
  /\ Close("branch")
  /\ LET rise == IF enabled["branch"] THEN Larger(peak["branch"] - start["branch"], 0) ELSE 0
     IN  group' = [group EXCEPT !.sum = @ + rise, !.left = @ - 1]
  /\ siblings' = siblings + IF enabled["branch"] THEN crest["branch"] - start["branch"] ELSE 0
  /\ UNCHANGED <<bound>>

(* mutant: the estimate of the last group replaces the largest one *)
LastEstimate(estimate) == estimate

LargestEstimate(estimate) == Larger(bound, estimate)

(* memoryProfileEndBranchGroup; the group's start and sum are not read again *)
EndGroup ==
  /\ Quiet /\ phase = "group" /\ group.left = 0
  /\ phase' = "position"
  /\ bound' = IF group.on THEN LargestEstimate(group.start + group.sum) ELSE bound
  /\ siblings' = 0
  /\ enabled' = [enabled EXCEPT !["branch"] = FALSE]
  /\ group' = [on |-> FALSE, start |-> 0, sum |-> 0, left |-> 0]
  /\ UNCHANGED <<team, start>>

Serial ==
  \/ \E on \in BOOLEAN : BeginRun(on) \/ EndRun(on) \/ BeginGroup(on)
  \/ BeginPosition \/ EndPosition \/ BeginBranch \/ EndBranch \/ EndGroup

Next ==
  \/ \E t \in Team : Record(t) \/ \E b \in Sizes : Count(t, b) \/ Free(t, b)
  \/ Serial

(* An allocating thread goes on running; nobody is obliged to allocate. *)
Fairness == \A t \in Team : WF_vars(Record(t))

Spec == Init /\ [][Next]_vars /\ Fairness

-----------------------------------------------------------------------------
TypeOK ==
  /\ current \in 0 .. MaxLive /\ returned \in 0 .. MaxLive
  /\ \A m \in Marks : peak[m] \in 0 .. MaxLive /\ start[m] \in 0 .. MaxLive /\ crest[m] \in 0 .. MaxLive
  /\ enabled \in [Marks -> BOOLEAN]
  /\ \A t \in Team : call[t].mark \in Marks \cup {"none"} /\ call[t].old \in -1 .. MaxLive
  /\ phase \in {"outside", "run", "position", "group", "branch"}

(* No concurrent allocation is lost to another: whenever no thread is in   *)
(* operator new, the mark of every open interval is exactly the most bytes *)
(* that were ever live in it.                                              *)
PeaksExact == Quiet => \A m \in Marks : enabled[m] => peak[m] = crest[m]

(* An interval is never recorded outside the one that encloses it, also    *)
(* after a join that failed inside the position propagation, whose end is  *)
(* then never reported.                                                    *)
IntervalsNested ==
  /\ enabled["branch"] => group.on /\ phase = "branch"
  /\ group.on => enabled["run"] /\ enabled["position"] /\ phase \in {"group", "branch"}
  /\ enabled["position"] => enabled["run"] /\ phase \notin {"outside", "run"}
  /\ enabled["run"] => phase # "outside"

(* The bound reported for running all siblings at once is conservative: it *)
(* covers every group's start plus what each of its branches added.        *)
BoundConservative ==
  [][phase = "group" /\ phase' = "position" => bound' >= bound /\ bound' >= siblings]_vars

(* The compare-and-swap loops are lock-free together and each one ends:    *)
(* a swap fails only when the mark has risen.                              *)
AllocationsReturn == \A t \in Team : call[t] # Idle ~> call[t] = Idle
=============================================================================
