------------------------------ MODULE Process ------------------------------
(***************************************************************************)
(* ArchProcess: a command inside PRoot, whose stdout (and stderr, with     *)
(* panic_on_error) is a pipe that holds only so much, and the ways its     *)
(* callers take the result: exec() alone, wait(), wait_with_output(),      *)
(* with_log() and exec_with_panic_on_error().                              *)
(***************************************************************************)
EXTENDS Retaining, Naturals, Sequences, SequencesExt

CONSTANTS
  Capacity, \* how many lines a pipe holds
  MaxLines  \* bound on the lines a command writes

ASSUME CapacityAssumption == Capacity \in Nat \ {0}
ASSUME MaxLinesAssumption == MaxLines \in Nat

Calls == {"exec", "wait", "wait_with_output", "with_log", "panic_on_error"}

(* What the command writes: lines, of which some are not UTF-8 and one on
   stderr may be PRoot's own error. *)
Lines == [stream : {"out", "err"}, text : {"line", "not UTF-8"}] \cup
         [stream : {"err"}, text : {"proot error"}]

VARIABLES
  call,    \* which of the calls is made
  script,  \* all the command writes
  left,    \* what it still has to write
  out, err, \* the lines in the two pipes
  child,   \* "running", "exited" by itself or "killed" by a closed pipe
  caller,  \* "calling", "returned" or "panicked"
  seen     \* what the caller read: logged, or collected

vars == <<call, script, left, out, err, child, caller, seen>>

TypeOK ==
  /\ call \in Calls /\ script \in Seq(Lines) /\ left \in Seq(Lines)
  /\ out \in Seq(Lines) /\ Len(out) <= Capacity
  /\ err \in Seq(Lines) /\ Len(err) <= Capacity
  /\ child \in {"running", "exited", "killed"}
  /\ caller \in {"calling", "returned", "panicked"} /\ seen \in Seq(Lines)

(* spawn(). *)
Init ==
  /\ call \in Calls /\ script \in BoundedSeq(Lines, MaxLines) /\ left = script
  /\ out = <<>> /\ err = <<>> /\ seen = <<>>
  /\ child = "running" /\ caller = "calling"

(* stderr is the app's own unless errors are to be looked for. *)
Piped(stream) == stream = "out" \/ call = "panic_on_error"

(* Mutant: the reader of exec_with_panic_on_error is given stdout. *)
Reads_Swapped(stream) ==
  \/ stream = "out" /\ call \in {"with_log", "wait_with_output", "panic_on_error"}

(* The pipes the call reads to their end. *)
Reads(stream) ==
  \/ stream = "out" /\ call \in {"with_log", "wait_with_output"}
  \/ stream = "err" /\ call = "panic_on_error"

-----------------------------------------------------------------------------
(* The command. *)

Pipe(stream) == IF stream = "out" THEN out ELSE err

(* Mutant: a pipe that grows. *)
HasRoom_Always(stream) == TRUE

HasRoom(stream) == Len(Pipe(stream)) < Capacity

(* A write blocks on a full pipe and kills on one that nobody will read. *)
Write ==
  /\ child = "running" /\ left # <<>>
  /\ LET line == Head(left) IN
     \/ /\ ~ Piped(line.stream)
        /\ UNCHANGED <<out, err, child>>
     \/ /\ Piped(line.stream) /\ caller = "calling" /\ HasRoom(line.stream)
        /\ IF line.stream = "out" THEN out' = Append(out, line) /\ UNCHANGED err
                                  ELSE err' = Append(err, line) /\ UNCHANGED out
        /\ UNCHANGED child
     \/ /\ Piped(line.stream) /\ caller # "calling"
        /\ child' = "killed" /\ UNCHANGED <<out, err>>
  /\ left' = Tail(left)
  /\ UNCHANGED <<call, script, caller, seen>>

Exit ==
  /\ child = "running" /\ left = <<>>
  /\ child' = "exited"
  /\ UNCHANGED <<call, script, left, out, err, caller, seen>>

-----------------------------------------------------------------------------
(* The caller. *)

(* with_log() unwraps each line, the other two read bytes. *)
Read ==
  /\ caller = "calling"
  /\ \E stream \in {"out", "err"} :
       /\ Reads(stream) /\ Pipe(stream) # <<>>
       /\ IF stream = "out" THEN out' = Tail(out) /\ UNCHANGED err
                            ELSE err' = Tail(err) /\ UNCHANGED out
       /\ IF call = "with_log" /\ Head(Pipe(stream)).text = "not UTF-8"
          THEN caller' = "panicked" /\ UNCHANGED seen
          ELSE seen' = Append(seen, Head(Pipe(stream))) /\ UNCHANGED caller
  /\ UNCHANGED <<call, script, left, child>>

(* Mutant: what is still in the pipe when the command exits is not read. *)
AtEnd_NotDrained == child # "running"

(* The end of a pipe comes when it is empty and its writer is gone. *)
AtEnd ==
  /\ child # "running"
  /\ \A stream \in {"out", "err"} : Reads(stream) => Pipe(stream) = <<>>

(* exec_with_panic_on_error() looks at the text as a whole.  exec() alone drops
   the Child at once, which closes its pipes. *)
Return ==
  /\ caller = "calling"
  /\ call = "exec" \/ AtEnd
  /\ caller' = IF /\ call = "panic_on_error"
                  /\ \E i \in DOMAIN seen : seen[i].text # "line"
               THEN "panicked" ELSE "returned"
  /\ UNCHANGED <<call, script, left, out, err, child, seen>>

Next == Write \/ Exit \/ Read \/ Return

(* The command and the caller go on as far as the pipes let them. *)
Spec == Init /\ [][Next]_vars
        /\ WF_vars(Write) /\ WF_vars(Exit) /\ WF_vars(Read) /\ WF_vars(Return)

-----------------------------------------------------------------------------
(* Properties. *)

(* What of the first n lines of the script goes to a stream, and all of it. *)
Part(stream, n) == Retain(script, {i \in 1 .. n : script[i].stream = stream})
On(stream) == Part(stream, Len(script))

(* wait() and exec_with_panic_on_error() do not read the stdout they pipe. *)
Fits == call \in {"wait", "panic_on_error"} => Len(On("out")) <= Capacity

(* A call comes back exactly with the limit that those two leave on what a
   command may print (process.rs:84, 138-147, 160-163): beyond it the command
   waits for room and the call for the command, for ever. *)
CallReturns ==
  /\ Fits => <>(caller # "calling")
  /\ ~ Fits => [](caller = "calling")

(* Every line is logged, or collected, in order and up to the last one, also
   those the command wrote just before it exited. *)
AllSeen ==
  /\ caller = "returned" /\ call \in {"with_log", "wait_with_output"} =>
       seen = On("out")
  /\ caller = "returned" /\ call = "panic_on_error" => seen = On("err")
=============================================================================
