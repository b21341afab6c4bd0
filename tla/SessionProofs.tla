---------------------------- MODULE SessionProofs ----------------------------
(***************************************************************************)
(* Proofs about Session, for every command line, data set and limit: the   *)
(* calls leave nothing behind in the enclave, the exit code 0 means what   *)
(* it says, modes are compared on equal sizes, and no answers are cut off  *)
(* without saying so.                                                      *)
(***************************************************************************)
EXTENDS Session, TLAPS

Steps == {"size", "join", "leave", "check"}

Status == {"success", "unexpected", "outOfMemory"}

CallType ==
  [step : Steps, mode : Modes, tau : Int, status : Status,
   target : Int, rows : Int, real : Int, protected : Int]

(* Max of explicit sets of integers, as the definitions use it.            *)
LEMMA MaxTwo ==
  ASSUME NEW a \in Int, NEW b \in Int
  PROVE  Max({a, b}) \in {a, b}
<1>1. \E x \in {a, b} : \A y \in {a, b} : x >= y
  OBVIOUS
<1> QED BY <1>1 DEF Max

LEMMA MaxThree ==
  ASSUME NEW a \in Int, NEW b \in Int, NEW c \in Int
  PROVE  Max({a, b, c}) \in {a, b, c}
<1>1. \E x \in {a, b, c} : \A y \in {a, b, c} : x >= y
  OBVIOUS
<1> QED BY <1>1 DEF Max

(* The type of the state.                                                  *)
TypeInv ==
  /\ req \in Requests
  /\ todo \in Seq(Modes)
  /\ warming \in BOOLEAN
  /\ runTau \in Int
  /\ call = NoCall \/ call \in CallType
  /\ switches \in [log : BOOLEAN, timing : BOOLEAN, memory : BOOLEAN,
                   phase : {"Scoped", "Unscoped"}]
  /\ summaries \in Seq([call : CallType, ok : BOOLEAN])
  /\ failed \in BOOLEAN
  /\ exit \in {-1, 0, 1}

(* Where the switches can be on: the log and the timing inside a call, the *)
(* memory run and the phase during the join.                               *)
SwitchesInv ==
  /\ call.step \in {"none", "check"} => ~switches.log /\ ~switches.timing
  /\ call.step # "join" => ~switches.memory /\ switches.phase = "Unscoped"

(* What the program remembers of results that did not match.               *)
VerdictInv ==
  /\ failed /\ req.sweep > 0 => exit = 1
  /\ exit = 0 /\ req.sweep = 0 => ~failed
  /\ ~failed => \A i \in DOMAIN summaries : summaries[i].ok

(* A call is made by a program that has not ended, for the warm-up or for  *)
(* the first of the modes still to run.                                    *)
RunningInv == call.step # "none" => exit = -1 /\ (warming \/ todo # <<>>)

IInv == TypeInv /\ SwitchesInv /\ VerdictInv /\ RunningInv

(* The requests have the types that the assumption gives them. *)
LEMMA RequestTypes ==
  ASSUME NEW r \in Requests
  PROVE  /\ r.modes \in Seq(Modes)
         /\ r.tau \in Int /\ r.exact \in Int /\ r.expected \in Int /\ r.noise \in Int
         /\ r.materialize \in BOOLEAN /\ r.memory \in BOOLEAN /\ r.warmup \in BOOLEAN
         /\ r.sweep \in Nat
  BY RequestAssumption DEF RequestAssumption

LEMMA InitInv == Init => IInv
<1> SUFFICES ASSUME Init PROVE IInv
  OBVIOUS
<1> USE RequestTypes DEF Init
<1>1. TypeInv
  <2>1. req \in Requests /\ todo \in Seq(Modes) /\ warming \in BOOLEAN /\ runTau \in Int
    OBVIOUS
  <2>2. switches \in [log : BOOLEAN, timing : BOOLEAN, memory : BOOLEAN,
                      phase : {"Scoped", "Unscoped"}]
    BY DEF Off
  <2>3. summaries \in Seq([call : CallType, ok : BOOLEAN])
    OBVIOUS
  <2> QED BY <2>1, <2>2, <2>3 DEF TypeInv
<1>2. SwitchesInv
  BY DEF SwitchesInv, NoCall, Off
<1>3. VerdictInv
  BY DEF VerdictInv
<1>4. RunningInv
  BY DEF RunningInv, NoCall
<1> QED BY <1>1, <1>2, <1>3, <1>4 DEF IInv

(* The sizes of the padding decision are integers. *)
LEMMA SizeTypes ==
  ASSUME TypeInv, call \in CallType
  PROVE  Protected \in Int /\ Unpadded \in Int /\ Max({1, req.exact}) \in Int
<1>1. req.exact \in Int /\ req.noise \in Int /\ call.tau \in Int
  BY RequestTypes DEF TypeInv, CallType
<1>2. Max({1, req.exact}) \in Int
  BY <1>1, MaxTwo
<1>3. Protected \in Int
  <2> DEFINE third == IF call.tau > 0 THEN call.tau ELSE req.exact + req.noise
  <2>1. third \in Int
    BY <1>1
  <2> HIDE DEF third
  <2>2. Max({1, req.exact, third}) \in {1, req.exact, third}
    BY <1>1, <2>1, MaxThree
  <2>3. Max({1, req.exact, third}) \in Int
    BY <1>1, <2>1, <2>2
  <2> QED BY <2>3 DEF Protected, third
<1>4. Unpadded \in Int
  BY <1>1, <1>2 DEF Unpadded
<1> QED BY <1>2, <1>3, <1>4

LEMMA RowsType ==
  ASSUME TypeInv, NEW m \in Modes, NEW t \in Int
  PROVE  Rows(m, t) \in Int
<1>1. req.exact \in Int
  BY RequestTypes DEF TypeInv
<1>2. Max({t, req.exact}) \in Int
  BY <1>1, MaxTwo
<1> QED BY <1>1, <1>2 DEF Rows

(* A call keeps its type when metrics and results are filled in. *)
LEMMA CallTypes ==
  ASSUME NEW c \in CallType, NEW a \in Int, NEW b \in Int
  PROVE  /\ Metrics(c, a, b) \in CallType
         /\ \A s \in Steps, x \in Status : [c EXCEPT !.step = s, !.status = x] \in CallType
         /\ \A s \in Steps : [c EXCEPT !.step = s, !.target = a] \in CallType
         /\ \A s \in Steps : [c EXCEPT !.step = s, !.rows = a] \in CallType
  BY DEF Metrics, CallType

LEMMA NewCallType ==
  ASSUME NEW m \in Modes, NEW t \in Int
  PROVE  [step |-> "size", mode |-> m, tau |-> t, status |-> "success",
          target |-> 0, rows |-> 0, real |-> -1, protected |-> -1] \in CallType
  BY DEF CallType, Steps, Status

LEMMA StartCallStep == IInv /\ StartCall => IInv'
<1> SUFFICES ASSUME IInv, StartCall PROVE IInv'
  OBVIOUS
<1> USE RequestTypes DEF IInv, StartCall
<1>1. call' \in CallType
  <2> DEFINE mode == IF warming THEN "JFYan" ELSE Head(todo)
             tau  == IF warming THEN req.tau ELSE runTau
  <2>1. mode \in Modes
    BY DEF TypeInv, Modes
  <2>2. tau \in Int
    BY DEF TypeInv
  <2> HIDE DEF mode, tau
  <2>3. call' = [step |-> "size", mode |-> mode, tau |-> tau, status |-> "success",
                 target |-> 0, rows |-> 0, real |-> -1, protected |-> -1]
    BY DEF mode, tau
  <2> QED BY <2>1, <2>2, <2>3, NewCallType
<1>2. TypeInv'
  <2> DEFINE log == Kind = "profile"
             timing == Kind \in {"profile", "stage"}
  <2>1. log \in BOOLEAN /\ timing \in BOOLEAN
    OBVIOUS
  <2>2. switches' = [switches EXCEPT !.log = log, !.timing = timing]
    OBVIOUS
  <2> HIDE DEF log, timing
  <2>3. switches' \in [log : BOOLEAN, timing : BOOLEAN, memory : BOOLEAN,
                       phase : {"Scoped", "Unscoped"}]
    BY <2>1, <2>2 DEF TypeInv
  <2> QED BY <1>1, <2>3 DEF TypeInv
<1>3. SwitchesInv'
  BY DEF SwitchesInv, TypeInv, NoCall
<1>4. VerdictInv'
  BY DEF VerdictInv
<1>5. RunningInv'
  BY DEF RunningInv
<1> QED BY <1>2, <1>3, <1>4, <1>5

LEMMA SizeStep == IInv /\ Size => IInv'
<1> SUFFICES ASSUME IInv, Size PROVE IInv'
  OBVIOUS
<1>1. call \in CallType
  BY DEF IInv, TypeInv, Size, NoCall
<1>2. Protected \in Int /\ Unpadded \in Int /\ Max({1, req.exact}) \in Int /\ req.exact \in Int
  BY <1>1, SizeTypes, RequestTypes DEF IInv, TypeInv
<1>3. ASSUME NEW status \in Status, Refuse(status)
      PROVE  /\ call' \in CallType /\ call'.step = "leave"
             /\ switches' = switches
  <2>1. Metrics(call, req.exact, Protected) \in CallType
    BY <1>1, <1>2, CallTypes
  <2> HIDE DEF Metrics
  <2> QED BY <1>3, <2>1 DEF Refuse, CallType, Steps
<1>4. ASSUME NEW t \in Int, NEW p \in Int, GoOn(t, p)
      PROVE  /\ call' \in CallType /\ call'.step = "join"
             /\ switches' = [switches EXCEPT !.memory = switches'.memory, !.phase = switches'.phase]
             /\ switches'.memory \in BOOLEAN /\ switches'.phase \in {"Scoped", "Unscoped"}
  <2> DEFINE real == IF call.tau > 0 /\ ~req.materialize THEN call.tau ELSE req.exact
  <2>1. real \in Int
    BY <1>1, <1>2 DEF CallType
  <2> HIDE DEF real
  <2>2. Metrics(call, real, p) \in CallType
    BY <1>1, <2>1, CallTypes
  <2>3. call' = [Metrics(call, real, p) EXCEPT !.step = "join", !.target = t]
    BY <1>4 DEF GoOn, real
  <2>4. call' \in CallType /\ call'.step = "join"
    BY <2>2, <2>3 DEF CallType, Steps
  <2>5. req.memory \in BOOLEAN
    BY RequestTypes DEF IInv, TypeInv
  <2> QED BY <1>4, <2>4, <2>5 DEF GoOn, IInv, TypeInv, Profiled
<1>5. \/ \E status \in Status : Refuse(status)
      \/ \E t, p \in Int : GoOn(t, p)
  <2> HIDE DEF Refuse, GoOn, Protected, Unpadded
  <2>1. CASE GoOn(Unpadded, Unpadded)
    BY <1>2, <2>1
  <2>2. CASE GoOn(Protected, Protected)
    BY <1>2, <2>2
  <2>3. CASE GoOn(Max({1, req.exact}), Protected)
    BY <1>2, <2>3
  <2>4. CASE Refuse("unexpected") \/ Refuse("outOfMemory") \/ Refuse("success")
    BY <2>4 DEF Status
  <2> QED BY <2>1, <2>2, <2>3, <2>4 DEF Size
<1>6. call' \in CallType /\ call'.step \in {"leave", "join"}
  BY <1>3, <1>4, <1>5
<1>7. switches' \in [log : BOOLEAN, timing : BOOLEAN, memory : BOOLEAN,
                     phase : {"Scoped", "Unscoped"}]
  BY <1>3, <1>4, <1>5 DEF IInv, TypeInv
<1>8. TypeInv'
  BY <1>6, <1>7 DEF IInv, TypeInv, Size
<1>9. SwitchesInv'
  BY <1>1, <1>3, <1>4, <1>5, <1>6 DEF IInv, SwitchesInv, Size
<1>10. VerdictInv'
  BY DEF IInv, VerdictInv, Size
<1>11. RunningInv'
  BY <1>1 DEF IInv, RunningInv, Size, CallType, Steps
<1> QED BY <1>8, <1>9, <1>10, <1>11 DEF IInv


LEMMA JoinStep == IInv /\ Join => IInv'
<1> SUFFICES ASSUME IInv, Join PROVE IInv'
  OBVIOUS
<1>1. call \in CallType
  BY DEF IInv, TypeInv, Join, NoCall
<1>2. Rows(call.mode, call.target) \in Int
  BY <1>1, RowsType DEF IInv, CallType
<1>3. call' \in CallType /\ call'.step = "leave"
  <2> HIDE DEF Rows
  <2> QED BY <1>1, <1>2 DEF Join, CallType, Steps
<1>4. TypeInv'
  BY <1>3 DEF IInv, TypeInv, Join
<1>5. SwitchesInv'
  BY <1>3 DEF IInv, TypeInv, SwitchesInv, Join
<1>6. VerdictInv'
  BY DEF IInv, VerdictInv, Join
<1>7. RunningInv'
  BY <1>1 DEF IInv, RunningInv, Join, CallType, Steps
<1> QED BY <1>4, <1>5, <1>6, <1>7 DEF IInv

LEMMA FailStep == IInv /\ Fail => IInv'
<1> SUFFICES ASSUME IInv, Fail PROVE IInv'
  OBVIOUS
<1>1. call \in CallType
  BY DEF IInv, TypeInv, Fail, NoCall
<1>2. call' \in CallType /\ call'.step = "leave"
  BY <1>1 DEF Fail, CallType, Steps, Status
<1>3. TypeInv'
  BY <1>2 DEF IInv, TypeInv, Fail
<1>4. SwitchesInv'
  BY <1>2 DEF IInv, TypeInv, SwitchesInv, Fail
<1>5. VerdictInv'
  BY DEF IInv, VerdictInv, Fail
<1>6. RunningInv'
  BY <1>1 DEF IInv, RunningInv, Fail, CallType, Steps
<1> QED BY <1>3, <1>4, <1>5, <1>6 DEF IInv

LEMMA LeaveStep == IInv /\ Leave => IInv'
<1> SUFFICES ASSUME IInv, Leave PROVE IInv'
  OBVIOUS
<1>1. call \in CallType
  BY DEF IInv, TypeInv, Leave, NoCall
<1>2. PICK st \in Status : call' = [call EXCEPT !.step = "check", !.status = st]
  BY <1>1 DEF Leave, CallType, Status
<1>3. call' \in CallType /\ call'.step = "check"
  BY <1>1, <1>2 DEF CallType, Steps
<1>4. TypeInv'
  BY <1>3 DEF IInv, TypeInv, Leave
<1>5. SwitchesInv'
  BY <1>3 DEF IInv, TypeInv, SwitchesInv, Leave
<1>6. VerdictInv'
  BY DEF IInv, VerdictInv, Leave
<1>7. RunningInv'
  BY <1>1 DEF IInv, RunningInv, Leave, CallType, Steps
<1> QED BY <1>4, <1>5, <1>6, <1>7 DEF IInv

LEMMA AbortStep == IInv /\ Abort => IInv'
<1> SUFFICES ASSUME IInv, Abort PROVE IInv'
  OBVIOUS
<1>1. TypeInv'
  BY DEF IInv, TypeInv, Abort
<1>2. SwitchesInv'
  BY DEF IInv, SwitchesInv, Abort, NoCall
<1>3. VerdictInv'
  BY DEF IInv, VerdictInv, Abort
<1>4. RunningInv'
  BY DEF RunningInv, Abort, NoCall
<1> QED BY <1>1, <1>2, <1>3, <1>4 DEF IInv

LEMMA CheckWarmupStep == IInv /\ CheckWarmup => IInv'
<1> SUFFICES ASSUME IInv, CheckWarmup PROVE IInv'
  OBVIOUS
<1> USE DEF CheckWarmup
<1>1. (warming' = FALSE /\ exit' = exit) \/ (warming' = warming /\ exit' = 1)
  OBVIOUS
<1>2. TypeInv'
  BY <1>1 DEF IInv, TypeInv
<1>3. SwitchesInv'
  BY DEF IInv, SwitchesInv, NoCall
<1>4. VerdictInv'
  <2>1. req' = req /\ failed' = failed /\ summaries' = summaries
    OBVIOUS
  <2>2. exit' = exit \/ exit' = 1
    BY <1>1
  <2> QED BY <2>1, <2>2 DEF IInv, VerdictInv, CheckWarmup
<1>5. RunningInv'
  BY DEF RunningInv, NoCall
<1> QED BY <1>2, <1>3, <1>4, <1>5 DEF IInv

(* The step the verdict is about: the new result is appended with its      *)
(* verdict, and failed keeps what it knew of the earlier ones.             *)
LEMMA CheckStep == IInv /\ Check => IInv'
<1> SUFFICES ASSUME IInv, Check PROVE IInv'
  OBVIOUS
<1>1. call \in CallType
  BY DEF IInv, TypeInv, Check, NoCall
<1> DEFINE ok == expectedRowsMatch(call, StatsOnly(call))
<1>2. ok \in BOOLEAN
  BY DEF expectedRowsMatch
<1>3. /\ summaries' = Append(summaries, [call |-> call, ok |-> ok])
      /\ failed' = (failed \/ ~ok)
      /\ exit' = IF ok \/ req.sweep = 0 THEN exit ELSE 1
      /\ call' = NoCall /\ todo' = Tail(todo) /\ runTau' = Carried
      /\ UNCHANGED <<req, round, warming, switches>>
  BY DEF Check
<1> HIDE DEF ok
<1>4. summaries' \in Seq([call : CallType, ok : BOOLEAN])
  BY <1>1, <1>2, <1>3 DEF IInv, TypeInv
<1>5. TypeInv'
  <2>1. todo # <<>>
    BY DEF Check, IInv, RunningInv
  <2>2. todo' \in Seq(Modes)
    BY <1>3, <2>1 DEF IInv, TypeInv
  <2>3. runTau' \in Int
    BY <1>1, <1>3 DEF IInv, TypeInv, Carried, CallType
  <2>4. failed' \in BOOLEAN
    BY <1>2, <1>3 DEF IInv, TypeInv
  <2> QED BY <1>3, <1>4, <2>2, <2>3, <2>4 DEF IInv, TypeInv
<1>6. SwitchesInv'
  BY <1>3, Check DEF IInv, SwitchesInv, NoCall, Check
<1>7. VerdictInv'
  <2>1. exit = -1
    BY DEF Check, IInv, RunningInv
  <2>2. failed' /\ req.sweep > 0 => exit' = 1
    BY <1>2, <1>3, <2>1 DEF IInv, TypeInv, VerdictInv
  <2>3. exit' # 0
    BY <1>3, <2>1
  <2>4. ASSUME ~failed', NEW i \in DOMAIN summaries' PROVE summaries'[i].ok
    <3>1. ok /\ ~failed
      BY <1>3, <2>4
    <3>2. CASE i \in DOMAIN summaries
      BY <1>3, <3>1, <3>2 DEF IInv, TypeInv, VerdictInv
    <3>3. CASE i = Len(summaries) + 1
      BY <1>3, <3>1, <3>3 DEF IInv, TypeInv
    <3> QED BY <1>3, <2>4, <3>2, <3>3 DEF IInv, TypeInv
  <2> QED BY <1>3, <2>2, <2>3, <2>4 DEF VerdictInv
<1>8. RunningInv'
  BY <1>3 DEF RunningInv, NoCall
<1> QED BY <1>5, <1>6, <1>7, <1>8 DEF IInv


LEMMA NextRoundStep == IInv /\ NextRound => IInv'
<1> SUFFICES ASSUME IInv, NextRound PROVE IInv'
  OBVIOUS
<1>1. TypeInv'
  BY RequestTypes DEF IInv, TypeInv, NextRound
<1>2. SwitchesInv' /\ RunningInv'
  BY DEF IInv, SwitchesInv, RunningInv, NextRound, NoCall
<1>3. VerdictInv'
  BY DEF IInv, VerdictInv, NextRound
<1> QED BY <1>1, <1>2, <1>3 DEF IInv

LEMMA FinishStep == IInv /\ Finish => IInv'
<1> SUFFICES ASSUME IInv, Finish PROVE IInv'
  OBVIOUS
<1>1. exit' \in {0, 1} /\ (failed /\ req.sweep = 0 => exit' = 1)
  BY DEF Finish
<1>2. ~(failed /\ req.sweep > 0)
  BY DEF Finish, IInv, VerdictInv
<1>3. TypeInv'
  BY <1>1 DEF IInv, TypeInv, Finish
<1>4. SwitchesInv' /\ RunningInv'
  BY DEF IInv, SwitchesInv, RunningInv, Finish, NoCall
<1>5. VerdictInv'
  BY <1>1, <1>2 DEF IInv, VerdictInv, Finish
<1> QED BY <1>3, <1>4, <1>5 DEF IInv

-----------------------------------------------------------------------------
(* The inductive invariant: types, where the switches are on, and what     *)
(* failed remembers.                                                       *)
THEOREM SessionInvariant == Spec => []IInv
<1>1. Init => IInv
  BY InitInv
<1>2. IInv /\ [Next]_vars => IInv'
  <2> SUFFICES ASSUME IInv, [Next]_vars PROVE IInv'
    OBVIOUS
  <2>1. CASE UNCHANGED vars
    BY <2>1 DEF vars, IInv, TypeInv, SwitchesInv, VerdictInv, RunningInv
  <2>2. CASE Next
    BY <2>2, StartCallStep, SizeStep, JoinStep, FailStep, LeaveStep, AbortStep,
       CheckWarmupStep, CheckStep, NextRoundStep, FinishStep DEF Next
  <2> QED BY <2>1, <2>2
<1> QED BY <1>1, <1>2, PTL DEF Spec

(* However a call ends (result, refusal, exception in any step), the       *)
(* enclave's globals are back in their initial state before the next call. *)
THEOREM QuietTheorem == Spec => []QuietBetweenCalls
<1>1. IInv => QuietBetweenCalls
  <2> SUFFICES ASSUME IInv, call.step \in {"none", "check"} PROVE switches = Off
    BY DEF QuietBetweenCalls
  <2>1. /\ switches.log = FALSE /\ switches.timing = FALSE
        /\ switches.memory = FALSE /\ switches.phase = "Unscoped"
    BY DEF IInv, TypeInv, SwitchesInv
  <2> QED BY <2>1 DEF IInv, TypeInv, Off
<1> QED BY <1>1, SessionInvariant, PTL

(* The exit code 0 is only given when every measured result matched.       *)
THEOREM VerdictTheorem == Spec => []VerdictSound
<1>1. IInv => VerdictSound
  <2> SUFFICES ASSUME IInv, exit = 0, NEW i \in DOMAIN summaries PROVE summaries[i].ok
    BY DEF VerdictSound
  <2>1. req.sweep \in Nat
    BY RequestTypes DEF IInv, TypeInv
  <2>2. ~failed
    BY <2>1 DEF IInv, VerdictInv
  <2> QED BY <2>2 DEF IInv, VerdictInv
<1> QED BY <1>1, SessionInvariant, PTL

-----------------------------------------------------------------------------
(* Sizes: modes are compared on equal sizes, and no answers are cut off    *)
(* without saying so.                                                      *)

ExactSize == Max({1, req.exact})

PaddedSize == req.exact + req.noise

(* The program chooses the size, or pads the one it was given. *)
Sized == req.materialize \/ req.tau = 0

(* A size that was not given on the command line is none or the exact one, *)
(* between calls and inside them.                                          *)
CarriedInv ==
  req.tau = 0 =>
    /\ runTau \in {0, ExactSize}
    /\ req.materialize => runTau = 0
    /\ call.step # "none" =>
         call.tau \in {0, ExactSize} /\ (req.materialize => call.tau = 0)

TargetInv ==
  call.step = "join" =>
    /\ req.tau = 0 =>
         call.target = IF req.materialize /\ PaddedSize <= MaxRows THEN PaddedSize ELSE ExactSize
    /\ Sized => call.target >= req.exact

(* What a call that succeeds returns. *)
RowsInv ==
  /\ call.step = "size" => call.rows = 0
  /\ call.step \in {"leave", "check"} /\ call.status = "success" =>
       /\ Sized => call.rows >= req.exact \/ StatsOnly(call)
       /\ req.tau = 0 /\ ~req.materialize /\ call.mode = "JFYan" => call.rows = ExactSize

SizeInv == CarriedInv /\ TargetInv /\ RowsInv /\ AnswersComplete

-----------------------------------------------------------------------------
(* The maximum is one of the elements and not below any. *)
LEMMA MaxTwoBounds ==
  ASSUME NEW a \in Int, NEW b \in Int
  PROVE  Max({a, b}) \in {a, b} /\ Max({a, b}) >= a /\ Max({a, b}) >= b
<1>1. \E x \in {a, b} : \A y \in {a, b} : x >= y
  OBVIOUS
<1> QED BY <1>1 DEF Max

LEMMA MaxThreeBounds ==
  ASSUME NEW a \in Int, NEW b \in Int, NEW c \in Int
  PROVE  /\ Max({a, b, c}) \in {a, b, c}
         /\ Max({a, b, c}) >= a /\ Max({a, b, c}) >= b /\ Max({a, b, c}) >= c
<1>1. \E x \in {a, b, c} : \A y \in {a, b, c} : x >= y
  OBVIOUS
<1> QED BY <1>1 DEF Max

LEMMA RequestSizes ==
  ASSUME NEW r \in Requests
  PROVE  /\ r.exact \in Nat /\ r.tau \in Nat /\ r.noise \in Nat \ {0}
         /\ r.materialize \in BOOLEAN /\ MaxRows \in Nat \ {0}
  BY RequestAssumption DEF RequestAssumption

(* The exact size is at least one row and not below the size of the join. *)
LEMMA ExactFacts ==
  ASSUME TypeInv
  PROVE  ExactSize \in Int /\ ExactSize >= req.exact /\ ExactSize >= 1
<1>1. req.exact \in Int /\ 1 \in Int
  BY RequestSizes DEF TypeInv
<1>2. /\ Max({1, req.exact}) \in {1, req.exact}
      /\ Max({1, req.exact}) >= 1 /\ Max({1, req.exact}) >= req.exact
  BY <1>1, MaxTwoBounds
<1> QED BY <1>1, <1>2 DEF ExactSize

(* Padding covers the join, and without a size of the command line it is   *)
(* the join and the noise.                                                 *)
LEMMA ProtectedFacts ==
  ASSUME TypeInv, call \in CallType
  PROVE  /\ Protected \in Int /\ Protected >= req.exact
         /\ call.tau = 0 => Protected = PaddedSize
<1> DEFINE third == IF call.tau > 0 THEN call.tau ELSE req.exact + req.noise
<1>1. req.exact \in Nat /\ req.noise \in Nat \ {0} /\ call.tau \in Int
  BY RequestSizes DEF TypeInv, CallType
<1>2. third \in Int /\ req.exact \in Int /\ 1 \in Int
  BY <1>1
<1>3. call.tau = 0 => third = req.exact + req.noise
  OBVIOUS
<1>4. Protected = Max({1, req.exact, third})
  BY DEF Protected
<1> HIDE DEF third
<1>5. /\ Max({1, req.exact, third}) \in {1, req.exact, third}
      /\ Max({1, req.exact, third}) >= req.exact /\ Max({1, req.exact, third}) >= third
      /\ Max({1, req.exact, third}) >= 1
  BY <1>2, MaxThreeBounds
<1> QED BY <1>1, <1>2, <1>3, <1>4, <1>5 DEF PaddedSize

LEMMA UnpaddedFacts ==
  ASSUME TypeInv, call \in CallType
  PROVE  call.tau \in {0, ExactSize} => Unpadded = ExactSize
BY ExactFacts DEF Unpadded, ExactSize, CallType

-----------------------------------------------------------------------------
LEMMA InitSize == Init => SizeInv
<1> SUFFICES ASSUME Init PROVE SizeInv
  OBVIOUS
<1>1. CarriedInv
  BY DEF Init, CarriedInv, NoCall
<1>2. TargetInv /\ RowsInv
  BY DEF Init, TargetInv, RowsInv, NoCall
<1>3. AnswersComplete
  BY DEF Init, AnswersComplete
<1> QED BY <1>1, <1>2, <1>3 DEF SizeInv

LEMMA StartCallSize == IInv /\ SizeInv /\ StartCall => SizeInv'
<1> SUFFICES ASSUME IInv, SizeInv, StartCall PROVE SizeInv'
  OBVIOUS
<1>1. /\ call'.step = "size" /\ call'.rows = 0
      /\ call'.tau = req.tau \/ call'.tau = runTau
      /\ req' = req /\ runTau' = runTau /\ summaries' = summaries
  BY DEF StartCall
<1>2. CarriedInv'
  BY <1>1 DEF SizeInv, CarriedInv, ExactSize
<1>3. TargetInv' /\ RowsInv'
  BY <1>1 DEF TargetInv, RowsInv
<1>4. AnswersComplete'
  BY <1>1 DEF SizeInv, AnswersComplete
<1> QED BY <1>2, <1>3, <1>4 DEF SizeInv

(* The padding decision: a join that starts has the size that CarriedInv   *)
(* makes of the command line, and a profiling call that returns its        *)
(* statistics alone can be told by them.                                   *)
LEMMA SizeSize == IInv /\ SizeInv /\ Size => SizeInv'
<1> SUFFICES ASSUME IInv, SizeInv, Size PROVE SizeInv'
  OBVIOUS
<1>1. call \in CallType
  BY DEF IInv, TypeInv, Size, NoCall
<1>2. /\ ExactSize \in Int /\ ExactSize >= req.exact /\ ExactSize >= 1
      /\ Protected \in Int /\ Protected >= req.exact
      /\ call.tau = 0 => Protected = PaddedSize
      /\ call.tau \in {0, ExactSize} => Unpadded = ExactSize
      /\ req.exact \in Nat /\ MaxRows \in Nat \ {0} /\ req.materialize \in BOOLEAN
  BY <1>1, ExactFacts, ProtectedFacts, UnpaddedFacts, RequestSizes DEF IInv, TypeInv
<1>3. /\ call.step = "size" /\ call.rows = 0
      /\ req' = req /\ runTau' = runTau /\ summaries' = summaries
  BY DEF Size, SizeInv, RowsInv
<1>4. req.tau = 0 => call.tau \in {0, ExactSize} /\ (req.materialize => call.tau = 0)
  BY <1>3 DEF SizeInv, CarriedInv
<1>5. ASSUME NEW st \in Status, Refuse(st)
      PROVE  /\ call'.step = "leave" /\ call'.status = st /\ call'.rows = 0
             /\ call'.tau = call.tau /\ call'.mode = call.mode
             /\ Profiled(req) => call'.real = req.exact /\ call'.protected = Protected
  <2> HIDE DEF Protected
  <2> QED BY <1>1, <1>3, <1>5 DEF Refuse, Metrics, CallType
<1>6. ASSUME NEW t \in Int, NEW p \in Int, GoOn(t, p)
      PROVE  call'.step = "join" /\ call'.target = t /\ call'.tau = call.tau
  BY <1>1, <1>6 DEF GoOn, Metrics, CallType
<1> HIDE DEF Protected, Unpadded, Refuse, GoOn, ExactSize, PaddedSize
<1>7. /\ call'.step \in {"leave", "join"} /\ call'.tau = call.tau
      /\ TargetInv' /\ RowsInv'
  <2>1. CASE ~req.materialize /\ GoOn(Unpadded, Unpadded)
    <3>1. Unpadded \in Int
      BY <1>1, SizeTypes DEF IInv
    <3>2. call'.step = "join" /\ call'.target = Unpadded /\ call'.tau = call.tau
      BY <1>6, <2>1, <3>1
    <3>3. req.tau = 0 => Unpadded = ExactSize
      BY <1>2, <1>4
    <3>4. TargetInv'
      BY <1>2, <1>3, <2>1, <3>2, <3>3 DEF TargetInv, Sized, ExactSize, PaddedSize
    <3> QED BY <3>2, <3>4 DEF RowsInv
  <2>2. CASE Refuse("unexpected") \/ Refuse("outOfMemory")
    <3>1. call'.step = "leave" /\ call'.status # "success" /\ call'.tau = call.tau
      BY <1>5, <2>2 DEF Status
    <3> QED BY <3>1 DEF TargetInv, RowsInv
  <2>3. CASE req.materialize /\ Protected <= MaxRows /\ GoOn(Protected, Protected)
    <3>1. call'.step = "join" /\ call'.target = Protected /\ call'.tau = call.tau
      BY <1>2, <1>6, <2>3
    <3>2. req.tau = 0 => Protected = PaddedSize
      BY <1>2, <1>4, <2>3
    <3>3. TargetInv'
      BY <1>2, <1>3, <2>3, <3>1, <3>2 DEF TargetInv, Sized, ExactSize, PaddedSize
    <3> QED BY <3>1, <3>3 DEF RowsInv
  <2>4. CASE /\ req.materialize /\ Protected > MaxRows /\ Profiled(req)
             /\ req.exact > MaxRows /\ Refuse("success")
    <3>1. /\ call'.step = "leave" /\ call'.rows = 0 /\ call'.tau = call.tau
          /\ call'.real = req.exact /\ call'.protected = Protected
      BY <1>5, <2>4 DEF Status
    <3>2. StatsOnly(call')
      BY <1>2, <2>4, <3>1 DEF StatsOnly
    <3> QED BY <1>3, <2>4, <3>1, <3>2 DEF TargetInv, RowsInv, StatsOnly
  <2>5. CASE /\ req.materialize /\ Protected > MaxRows
             /\ GoOn(Max({1, req.exact}), Protected)
    <3>1. GoOn(ExactSize, Protected)
      BY <2>5 DEF ExactSize
    <3>2. call'.step = "join" /\ call'.target = ExactSize /\ call'.tau = call.tau
      BY <1>2, <1>6, <3>1
    <3>3. req.tau = 0 => PaddedSize > MaxRows
      BY <1>2, <1>4, <2>5
    <3>4. req.tau = 0 => ~(PaddedSize <= MaxRows)
      BY <1>2, <1>4, <2>5
    <3>5. TargetInv'
      BY <1>2, <1>3, <3>2, <3>4 DEF TargetInv, Sized, ExactSize, PaddedSize
    <3> QED BY <3>2, <3>5 DEF RowsInv
  <2> QED BY <1>2, <2>1, <2>2, <2>3, <2>4, <2>5 DEF Size
<1>8. CarriedInv'
  BY <1>3, <1>4, <1>7 DEF SizeInv, CarriedInv, ExactSize
<1>9. AnswersComplete'
  BY <1>3 DEF SizeInv, AnswersComplete
<1> QED BY <1>7, <1>8, <1>9 DEF SizeInv

(* No join returns fewer rows than a target that covers its answers, and   *)
(* JFYan run with the exact size returns just that: the size that the      *)
(* modes after it are given.                                               *)
LEMMA JoinSizes == IInv /\ SizeInv /\ Join => SizeInv'
<1> SUFFICES ASSUME IInv, SizeInv, Join PROVE SizeInv'
  OBVIOUS
<1>1. call \in CallType
  BY DEF IInv, TypeInv, Join, NoCall
<1>2. /\ ExactSize \in Int /\ ExactSize >= req.exact /\ req.exact \in Nat
      /\ call.target \in Int
  BY <1>1, ExactFacts, RequestSizes DEF IInv, TypeInv, CallType
<1>3. /\ Max({call.target, req.exact}) \in {call.target, req.exact}
      /\ Max({call.target, req.exact}) >= call.target
      /\ Max({call.target, req.exact}) >= req.exact
  <2>1. call.target \in Int /\ req.exact \in Int
    BY <1>2
  <2> QED BY <2>1, MaxTwoBounds
<1>4. /\ call.step = "join"
      /\ call'.step = "leave" /\ call'.rows = Rows(call.mode, call.target)
      /\ call'.mode = call.mode /\ call'.tau = call.tau
      /\ req' = req /\ runTau' = runTau /\ summaries' = summaries
  <2> HIDE DEF Rows
  <2> QED BY <1>1 DEF Join, CallType
<1>5. /\ Sized => call.target >= req.exact
      /\ req.tau = 0 /\ ~req.materialize => call.target = ExactSize
  BY <1>4 DEF SizeInv, TargetInv
<1>6. Sized => Rows(call.mode, call.target) >= req.exact
  BY <1>2, <1>3, <1>5 DEF Rows
<1>7. req.tau = 0 /\ ~req.materialize /\ call.mode = "JFYan" =>
        Rows(call.mode, call.target) = ExactSize
  BY <1>2, <1>3, <1>5 DEF Rows
<1>8. RowsInv'
  <2> HIDE DEF Rows
  <2> QED BY <1>4, <1>6, <1>7 DEF RowsInv, Sized, ExactSize
<1>9. TargetInv' /\ AnswersComplete'
  BY <1>4 DEF TargetInv, SizeInv, AnswersComplete
<1>10. CarriedInv'
  BY <1>4 DEF SizeInv, CarriedInv, ExactSize
<1> QED BY <1>8, <1>9, <1>10 DEF SizeInv

LEMMA FailSize == IInv /\ SizeInv /\ Fail => SizeInv'
<1> SUFFICES ASSUME IInv, SizeInv, Fail PROVE SizeInv'
  OBVIOUS
<1>1. call \in CallType
  BY DEF IInv, TypeInv, Fail, NoCall
<1>2. /\ call.step # "none" /\ call'.step = "leave" /\ call'.status = "outOfMemory"
      /\ call'.tau = call.tau
      /\ req' = req /\ runTau' = runTau /\ summaries' = summaries
  BY <1>1 DEF Fail, CallType
<1>3. CarriedInv'
  BY <1>2 DEF SizeInv, CarriedInv, ExactSize
<1>4. TargetInv' /\ RowsInv' /\ AnswersComplete'
  BY <1>2 DEF TargetInv, RowsInv, SizeInv, AnswersComplete
<1> QED BY <1>3, <1>4 DEF SizeInv

LEMMA LeaveSize == IInv /\ SizeInv /\ Leave => SizeInv'
<1> SUFFICES ASSUME IInv, SizeInv, Leave PROVE SizeInv'
  OBVIOUS
<1>1. call \in CallType
  BY DEF IInv, TypeInv, Leave, NoCall
<1>2. /\ call.step = "leave" /\ call'.step = "check"
      /\ call'.status = "success" => call.status = "success"
      /\ call'.tau = call.tau /\ call'.rows = call.rows /\ call'.mode = call.mode
      /\ call'.real = call.real /\ call'.protected = call.protected
      /\ req' = req /\ runTau' = runTau /\ summaries' = summaries
  BY <1>1 DEF Leave, CallType
<1>3. CarriedInv'
  BY <1>2 DEF SizeInv, CarriedInv, ExactSize
<1>4. RowsInv'
  BY <1>2 DEF SizeInv, RowsInv, Sized, ExactSize, StatsOnly
<1>5. TargetInv' /\ AnswersComplete'
  BY <1>2 DEF TargetInv, SizeInv, AnswersComplete
<1> QED BY <1>3, <1>4, <1>5 DEF SizeInv

(* The steps that end a call or a pass without a result. *)
LEMMA BetweenSize ==
  ASSUME SizeInv, call' = NoCall, req' = req, runTau' \in {runTau, req.tau},
         summaries' \in {summaries, <<>>}
  PROVE  SizeInv'
<1>1. CarriedInv'
  BY DEF SizeInv, CarriedInv, ExactSize, NoCall
<1>2. TargetInv' /\ RowsInv'
  BY DEF TargetInv, RowsInv, NoCall
<1>3. AnswersComplete'
  BY DEF SizeInv, AnswersComplete
<1> QED BY <1>1, <1>2, <1>3 DEF SizeInv

(* What a measured call returned is remembered, and JFYan's rows may       *)
(* become the size of the calls after it.                                  *)
LEMMA CheckSize == IInv /\ SizeInv /\ Check => SizeInv'
<1> SUFFICES ASSUME IInv, SizeInv, Check PROVE SizeInv'
  OBVIOUS
<1> DEFINE ok == expectedRowsMatch(call, StatsOnly(call))
<1>1. /\ call.step = "check" /\ call.status = "success"
      /\ summaries' = Append(summaries, [call |-> call, ok |-> ok])
      /\ call' = NoCall /\ runTau' = Carried /\ req' = req
  BY DEF Check
<1> HIDE DEF ok
<1>2. /\ Sized => call.rows >= req.exact \/ StatsOnly(call)
      /\ req.tau = 0 /\ ~req.materialize /\ call.mode = "JFYan" => call.rows = ExactSize
  BY <1>1 DEF SizeInv, RowsInv
<1>3. CarriedInv'
  <2>1. req.tau = 0 => Carried \in {0, ExactSize} /\ (req.materialize => Carried = 0)
    BY <1>2 DEF SizeInv, CarriedInv, Carried
  <2> HIDE DEF Carried
  <2> QED BY <1>1, <2>1 DEF CarriedInv, ExactSize, NoCall
<1>4. TargetInv' /\ RowsInv'
  BY <1>1 DEF TargetInv, RowsInv, NoCall
<1>5. AnswersComplete'
  <2>1. summaries \in Seq([call : CallType, ok : BOOLEAN])
    BY DEF IInv, TypeInv
  <2>2. ASSUME Sized, NEW i \in DOMAIN summaries'
        PROVE  summaries'[i].call.rows >= req.exact \/ StatsOnly(summaries'[i].call)
    <3>1. CASE i \in DOMAIN summaries
      <4>1. summaries'[i] = summaries[i]
        BY <1>1, <2>1, <3>1
      <4> QED BY <2>2, <3>1, <4>1 DEF SizeInv, AnswersComplete, Sized
    <3>2. CASE i = Len(summaries) + 1
      <4>1. summaries'[i].call = call
        BY <1>1, <2>1, <3>2
      <4> QED BY <1>2, <2>2, <4>1
    <3> QED BY <1>1, <2>1, <2>2, <3>1, <3>2
  <2> QED BY <1>1, <2>2 DEF AnswersComplete, Sized, StatsOnly
<1> QED BY <1>3, <1>4, <1>5 DEF SizeInv

LEMMA StutterSize == SizeInv /\ UNCHANGED vars => SizeInv'
  BY DEF vars, SizeInv, CarriedInv, TargetInv, RowsInv, AnswersComplete,
         Sized, ExactSize, PaddedSize, StatsOnly

-----------------------------------------------------------------------------
(* The inductive invariant about sizes, relative to that of SessionProofs. *)
THEOREM SizeInvariant == Spec => []SizeInv
<1>1. IInv /\ SizeInv /\ [Next]_vars => SizeInv'
  <2> SUFFICES ASSUME IInv, SizeInv, [Next]_vars PROVE SizeInv'
    OBVIOUS
  <2>1. CASE Abort \/ CheckWarmup \/ NextRound
    <3>1. call' = NoCall
      BY <2>1 DEF Abort, CheckWarmup, NextRound
    <3>2. /\ req' = req /\ runTau' \in {runTau, req.tau}
          /\ summaries' \in {summaries, <<>>}
      BY <2>1 DEF Abort, CheckWarmup, NextRound
    <3> QED BY <3>1, <3>2, BetweenSize
  <2>2. CASE Finish
    <3>1. call' = NoCall /\ req' = req /\ runTau' = runTau /\ summaries' = summaries
      BY <2>2 DEF Finish
    <3> QED BY <3>1, BetweenSize
  <2>3. CASE UNCHANGED vars
    BY <2>3, StutterSize
  <2> QED BY <2>1, <2>2, <2>3, StartCallSize, SizeSize, JoinSizes, FailSize, LeaveSize,
             CheckSize DEF Next
<1> QED BY <1>1, InitSize, SessionInvariant, PTL DEF Spec

(* Without -tau, every mode in every round joins for the same size.        *)
THEOREM SizedAlikeTheorem == Spec => []SizedAlike
<1>1. SizeInv => SizedAlike
  BY DEF SizeInv, TargetInv, SizedAlike, ExactSize, PaddedSize
<1> QED BY <1>1, SizeInvariant, PTL

(* No measured result lacks answers, for sizes that the program chose or   *)
(* padded.                                                                 *)
THEOREM AnswersCompleteTheorem == Spec => []AnswersComplete
<1>1. SizeInv => AnswersComplete
  BY DEF SizeInv
<1> QED BY <1>1, SizeInvariant, PTL
=============================================================================
