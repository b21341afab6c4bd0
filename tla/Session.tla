-------------------------------- MODULE Session --------------------------------
(***************************************************************************)
(* One run of the program: main in App.cpp, which calls the enclave once   *)
(* per mode (and per thread count of a sweep), and the body of the ECALLs, *)
(* which decides how many rows to return, runs the join and reports.       *)
(*                                                                         *)
(* The joins are represented by the number of rows they return; modules    *)
(* BottomUp, JFYanDown and OutputSize are about the rest.  The process is  *)
(* serial: what makes a run hard is what one call leaves behind for the    *)
(* next (the profile switches, the size carried from JFYan to the other    *)
(* modes, the verdict) and the many ways a call may end.                   *)
(***************************************************************************)
EXTENDS Integers, Sequences, SequencesExt, FiniteSetsExt

CONSTANTS
  Requests,   \* the command lines and data sets considered
  MaxRows,    \* MaxMaterializedProtectedRows, MaxMaterializedJoinOnlyRows
  MaxCells    \* -m: cells of the result buffer; the results have one column

Modes == {"JFYan", "ParYan", "ObliYan", "NonObliJFYan"}

(* A request: what the command line asks for (modes, kind, tau,            *)
(* materialize, memory, warmup, and sweep = how many thread counts), the   *)
(* size of the join, what the data set says it is (-1 if it does not), and *)
(* what the RRS engine says of it: its noise, or that it has none.         *)
ASSUME RequestAssumption ==
  /\ MaxRows \in Nat \ {0} /\ MaxCells \in Nat \ {0}
  /\ \A r \in Requests :
       /\ r.modes \in Seq(Modes) /\ r.modes # <<>>
       /\ r.kind \in {"copy", "bench", "profile", "stage"}
       /\ r.tau \in Nat /\ r.exact \in Nat /\ r.expected \in Nat \cup {-1}
       /\ r.materialize \in BOOLEAN /\ r.memory \in BOOLEAN /\ r.warmup \in BOOLEAN
       /\ r.memory => r.kind \in {"profile", "stage"}
       /\ r.sweep \in Nat
       /\ r.rrs \in {"available", "unavailable", "tooExpensive"} /\ r.noise \in Nat \ {0}

VARIABLES
  req,        \* the request
  round,      \* passes over the modes still to make, this one included
  todo,       \* modes still to run in this pass
  warming,    \* is the current call the warm-up?
  runTau,     \* runTauOrOutSize
  call,       \* the ECALL: step, mode, tau, status, target, rows, metrics
  switches,   \* enclave globals: profile log, timing, memory run, phase
  summaries,  \* the calls of the pass that returned, with their verdict
  failed,     \* resultCheckFailed
  exit        \* the exit code, or -1 while the program runs

vars == <<req, round, todo, warming, runTau, call, switches, summaries, failed, exit>>

Off == [log |-> FALSE, timing |-> FALSE, memory |-> FALSE, phase |-> "Unscoped"]

NoCall == [step |-> "none"]

Profiled(r) == r.kind \in {"profile", "stage"}

(* Warm-up and sweep never copy the result out. *)
Kind == IF req.kind = "copy" /\ (warming \/ req.sweep > 0) THEN "bench" ELSE req.kind

-----------------------------------------------------------------------------
Init ==
  /\ req \in Requests
  /\ round = Max({1, req.sweep})
  /\ todo = req.modes
  /\ warming = req.warmup
  /\ runTau = req.tau
  /\ call = NoCall
  /\ switches = Off
  /\ summaries = <<>>
  /\ failed = FALSE
  /\ exit = -1

(* runMode up to the ECALL, and the ECALL's first lines: the switches are  *)
(* set before anything can fail.                                           *)
StartCall ==
  /\ exit = -1 /\ call = NoCall /\ (warming \/ todo # <<>>)
  /\ call' = [step |-> "size", mode |-> IF warming THEN "JFYan" ELSE Head(todo),
              tau |-> IF warming THEN req.tau ELSE runTau, status |-> "success",
              target |-> 0, rows |-> 0, real |-> -1, protected |-> -1]
  /\ switches' = [switches EXCEPT !.log = Kind = "profile",
                                  !.timing = Kind \in {"profile", "stage"}]
  /\ UNCHANGED <<req, round, todo, warming, runTau, summaries, failed, exit>>

(* Stage metrics exist in the profiling calls only. *)
Metrics(c, real, protected) ==
  IF Profiled(req) THEN [c EXCEPT !.real = real, !.protected = protected] ELSE c

(* mutant: the size of the command line replaces the exact one *)
ProtectedAsTold == Max({1, IF call.tau > 0 THEN call.tau ELSE req.exact + req.noise})

(* computeDOPaddingStats, see OutputSize. *)
Protected ==
  Max({1, req.exact, IF call.tau > 0 THEN call.tau ELSE req.exact + req.noise})

(* mutant: a size of zero is kept *)
UnpaddedZero == IF call.tau > 0 THEN call.tau ELSE req.exact

(* The size without padding: the public one, or the exact one and at least *)
(* one row.                                                                *)
Unpadded == IF call.tau > 0 THEN call.tau ELSE Max({1, req.exact})

(* The ECALL returns before the join starts. *)
Refuse(status) ==
  /\ call' = [Metrics(call, req.exact, Protected) EXCEPT !.step = "leave", !.status = status]
  /\ UNCHANGED switches

(* memoryProfileBeginRun, resetPrimitiveProfile and the first phase. *)
GoOn(target, protected) ==
  /\ call' = [Metrics(call, IF call.tau > 0 /\ ~req.materialize THEN call.tau ELSE req.exact, protected)
                EXCEPT !.step = "join", !.target = target]
  /\ switches' = [switches EXCEPT !.memory = Profiled(req) /\ req.memory,
                                  !.phase = IF call.mode = "NonObliJFYan" THEN "Unscoped" ELSE "Scoped"]

(* The padding decision of runJoin and runJoinProfile.  A protected size   *)
(* above the limit is an error for a plain call; a profiling call goes on  *)
(* with the exact size, or returns its statistics only when that is too    *)
(* large as well.                                                          *)
Size ==
  /\ call.step = "size"
  /\ \/ ~req.materialize /\ GoOn(Unpadded, Unpadded)
     \/ req.materialize /\ call.tau = 0 /\ req.rrs # "available" /\ Refuse("unexpected")
     \/ /\ req.materialize /\ (call.tau > 0 \/ req.rrs = "available")
        /\ \/ Protected <= MaxRows /\ GoOn(Protected, Protected)
           \/ Protected > MaxRows /\ ~Profiled(req) /\ Refuse("outOfMemory")
           \/ /\ Protected > MaxRows /\ Profiled(req)
              /\ IF req.exact > MaxRows THEN Refuse("success")
                 ELSE GoOn(Max({1, req.exact}), Protected)
  /\ UNCHANGED <<req, round, todo, warming, runTau, summaries, failed, exit>>

(* How many rows a join returns for a target: JFYan pads up to it but      *)
(* never drops a row, ParYan takes its own count if that is larger,        *)
(* ObliYan cuts every two-way join at the target, NonObliJFYan ignores it. *)
Rows(m, target) ==
  IF m = "NonObliJFYan" THEN req.exact
  ELSE IF m = "ObliYan" THEN target
  ELSE Max({target, req.exact})

(* The join itself; it leaves the phase unscoped and ends the memory run.  *)
Join ==
  /\ call.step = "join"
  /\ call' = [call EXCEPT !.step = "leave", !.rows = Rows(call.mode, call.target)]
  /\ switches' = [switches EXCEPT !.memory = FALSE, !.phase = "Unscoped"]
  /\ UNCHANGED <<req, round, todo, warming, runTau, summaries, failed, exit>>

(* mutant: the handlers leave the memory run open *)
FailOpen ==
  /\ call.step \in {"size", "join"}
  /\ call' = [call EXCEPT !.step = "leave", !.status = "outOfMemory"]
  /\ switches' = [switches EXCEPT !.phase = "Unscoped"]
  /\ UNCHANGED <<req, round, todo, warming, runTau, summaries, failed, exit>>

(* An exception anywhere in the ECALL: bad_alloc is the usual one. *)
Fail ==
  /\ call.step \in {"size", "join"}
  /\ call' = [call EXCEPT !.step = "leave", !.status = "outOfMemory"]
  /\ switches' = [switches EXCEPT !.memory = FALSE, !.phase = "Unscoped"]
  /\ UNCHANGED <<req, round, todo, warming, runTau, summaries, failed, exit>>

(* The end of the ECALL: the switches are reset, and a result that does    *)
(* not fit the buffer is an error.                                         *)
Leave ==
  /\ call.step = "leave"
  /\ call' = [call EXCEPT !.step = "check",
                !.status = IF call.status = "success" /\ Kind = "copy" /\ call.rows > MaxCells
                           THEN "outOfMemory" ELSE call.status]
  /\ switches' = [switches EXCEPT !.log = FALSE, !.timing = FALSE]
  /\ UNCHANGED <<req, round, todo, warming, runTau, summaries, failed, exit>>

-----------------------------------------------------------------------------
(* isDOPaddingStatsOnly: the call returned its statistics and no rows. *)
StatsOnly(c) == c.rows = 0 /\ c.real > 0 /\ c.protected > MaxRows

(* expectedRowsMatch; flag is the field paddingStatsOnly of the summary.   *)
(* Once the flag is set there are no rows, so its second use in the code   *)
(* is never reached.                                                       *)
expectedRowsMatch(c, flag) ==
  \/ req.expected < 0
  \/ flag /\ c.real = req.expected
  \/ ~flag /\ IF req.materialize THEN c.rows >= req.expected ELSE c.rows = req.expected

(* A failed call ends the program, in every branch. *)
Abort ==
  /\ call.step = "check" /\ call.status # "success"
  /\ exit' = 1 /\ call' = NoCall
  /\ UNCHANGED <<req, round, todo, warming, runTau, switches, summaries, failed>>

(* mutant: the warm-up is made again *)
WarmupAgain ==
  /\ call.step = "check" /\ call.status = "success" /\ warming
  /\ call' = NoCall
  /\ exit' = IF expectedRowsMatch(call, FALSE) THEN exit ELSE 1
  /\ UNCHANGED <<req, round, todo, warming, runTau, switches, summaries, failed>>

(* The check of the warm-up: paddingStatsOnly still has its initial value. *)
CheckWarmup ==
  /\ call.step = "check" /\ call.status = "success" /\ warming
  /\ call' = NoCall
  /\ IF expectedRowsMatch(call, FALSE)
     THEN warming' = FALSE /\ UNCHANGED exit
     ELSE exit' = 1 /\ UNCHANGED warming
  /\ UNCHANGED <<req, round, todo, runTau, switches, summaries, failed>>

(* The size for the modes after this one: JFYan's rows replace a size that *)
(* nobody gave, unless the data set knows it or the output is padded.      *)
Carried ==
  IF ~req.materialize /\ req.expected < 0 /\ runTau = 0 /\ call.mode = "JFYan"
  THEN call.rows ELSE runTau

(* mutant: the last mode decides *)
CheckLast ==
  /\ call.step = "check" /\ call.status = "success" /\ ~warming
  /\ LET ok == expectedRowsMatch(call, StatsOnly(call))
     IN  /\ summaries' = Append(summaries, [call |-> call, ok |-> ok])
         /\ failed' = ~ok
         /\ exit' = IF ok \/ req.sweep = 0 THEN exit ELSE 1
  /\ call' = NoCall /\ todo' = Tail(todo) /\ runTau' = Carried
  /\ UNCHANGED <<req, round, warming, switches>>

(* The rest of the loop body over the modes.  A sweep stops at the first   *)
(* result that does not match, a single pass remembers it.                 *)
Check ==
  /\ call.step = "check" /\ call.status = "success" /\ ~warming
  /\ LET ok == expectedRowsMatch(call, StatsOnly(call))
     IN  /\ summaries' = Append(summaries, [call |-> call, ok |-> ok])
         /\ failed' = (failed \/ ~ok)
         /\ exit' = IF ok \/ req.sweep = 0 THEN exit ELSE 1
  /\ call' = NoCall /\ todo' = Tail(todo) /\ runTau' = Carried
  /\ UNCHANGED <<req, round, warming, switches>>

(* The next thread count starts again from the size of the command line.   *)
NextRound ==
  /\ exit = -1 /\ call = NoCall /\ ~warming /\ todo = <<>> /\ round > 1
  /\ round' = round - 1 /\ todo' = req.modes /\ runTau' = req.tau /\ summaries' = <<>>
  /\ UNCHANGED <<req, warming, call, switches, failed, exit>>

Finish ==
  /\ exit = -1 /\ call = NoCall /\ ~warming /\ todo = <<>> /\ round = 1
  /\ exit' = IF failed /\ req.sweep = 0 THEN 1 ELSE 0
  /\ UNCHANGED <<req, round, todo, warming, runTau, call, switches, summaries, failed>>

Next ==
  \/ StartCall \/ Size \/ Join \/ Fail \/ Leave
  \/ Abort \/ CheckWarmup \/ Check \/ NextRound \/ Finish

Spec == Init /\ [][Next]_vars /\ WF_vars(Next)

-----------------------------------------------------------------------------
(* Whatever way a call ends, by a result, a refusal or an exception, it    *)
(* leaves the enclave's globals as a fresh enclave has them.               *)
QuietBetweenCalls == call.step \in {"none", "check"} => switches = Off

(* Runs without -tau compare like with like: in every round every mode,    *)
(* the warm-up included, joins for the size a first call would compute,    *)
(* although later modes are given JFYan's row count in its place.          *)
SizedAlike ==
  call.step = "join" /\ req.tau = 0 =>
    LET exact  == Max({1, req.exact})
        padded == req.exact + req.noise
    IN  call.target = IF req.materialize /\ padded <= MaxRows THEN padded ELSE exact

(* Exit code 0: every measured result of the last pass matched what the    *)
(* data set expects, whichever mode came last.                             *)
VerdictSound == exit = 0 => \A i \in DOMAIN summaries : summaries[i].ok

(* With padding, and in runs that size the output themselves, no mode      *)
(* returns fewer rows than the join has, except when it returns none and   *)
(* says so in its metrics.                                                 *)
AnswersComplete ==
  req.materialize \/ req.tau = 0 =>
    \A i \in DOMAIN summaries :
      LET c == summaries[i].call IN c.rows >= req.exact \/ StatsOnly(c)

(* Every run ends with an exit code. *)
Terminates == <>(exit # -1)

(* The usage text: "--warmup-jfyan runs one unreported JFYan warm-up in    *)
(* the same enclave before the requested measurements": it does not stop   *)
(* the program on a result that the measurement itself would accept.       *)
WarmupUnreported ==
  warming /\ call.step = "check" /\ call.status = "success" =>
    (expectedRowsMatch(call, StatsOnly(call)) => expectedRowsMatch(call, FALSE))
===============================================================================
