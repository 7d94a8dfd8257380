---------------------------- MODULE ProcessProofs ----------------------------
(***************************************************************************)
(* Machine-checked proofs about module Process, for every script a command *)
(* may write, every capacity of the pipes and every schedule.              *)
(*                                                                         *)
(* The argument is a conservation law: as long as the call goes on, what   *)
(* was read from a pipe followed by what is in it is what the command has  *)
(* written to it so far (Conserved).  A call that waits for the end of the *)
(* command therefore has all of it, or never comes back.                   *)
(***************************************************************************)
EXTENDS Process, DataLemmas

(* How many lines are written. *)
Written == Len(script) - Len(left)

(* What the call has read of a stream. *)
Taken(stream) == IF Reads(stream) THEN seen ELSE <<>>

(* What it still has to write is the end of the script. *)
LeftIsRest ==
  /\ Len(left) <= Len(script)
  /\ \A j \in 1 .. Len(left) : left[j] = script[Written + j]

Conserved ==
  \A stream \in {"out", "err"} :
    caller = "calling" /\ Piped(stream) =>
      Taken(stream) \o Pipe(stream) = Part(stream, Written)

(* A command is only killed by a call that is over, and exits with nothing left
   to write; a call that is over took all of it, unless it panicked. *)
EndKnown ==
  /\ caller = "calling" => child # "killed"
  /\ child = "exited" => left = <<>>
  /\ caller # "calling" => Fits
  /\ caller = "returned" => \A stream \in {"out", "err"} :
                              Reads(stream) => seen = On(stream)

ProcessInv == TypeOK /\ LeftIsRest /\ Conserved /\ EndKnown

-----------------------------------------------------------------------------
(* The parts of the script. *)

(* Of no lines nothing goes to a stream. *)
LEMMA PartNone ==
  ASSUME NEW stream
  PROVE  Part(stream, 0) = <<>>
<1>1. {i \in 1 .. 0 : script[i].stream = stream} = {}
  OBVIOUS
<1> QED
  BY <1>1, RetainNone DEF Part

(* A line of another stream adds nothing to the part, one of its own is the
   next of it. *)
LEMMA PartStep ==
  ASSUME NEW stream, NEW n \in Nat, script[n + 1] \in Lines,
         Part(stream, n) \in Seq(Lines)
  PROVE  Part(stream, n + 1) = IF script[n + 1].stream = stream
                               THEN Append(Part(stream, n), script[n + 1])
                               ELSE Part(stream, n)
<1> DEFINE K == {i \in 1 .. n : script[i].stream = stream}
           L == {i \in 1 .. n + 1 : script[i].stream = stream}
<1>1. \A i : i \in 1 .. n + 1 <=> i \in 1 .. n \/ i = n + 1
  OBVIOUS
<1>2. CASE script[n + 1].stream = stream
  <2>1. L = K \cup {n + 1}
    BY <1>1, <1>2
  <2>2. K \in SUBSET (1 .. n) /\ Retain(script, K) \in Seq(Lines)
    BY DEF Part
  <2> HIDE DEF K, L
  <2>3. Retain(script, L) = Append(Retain(script, K), script[n + 1])
    BY <2>1, <2>2, RetainGrows
  <2> QED
    BY <1>2, <2>3 DEF Part, K, L
<1>3. CASE script[n + 1].stream # stream
  <2>1. L = K
    BY <1>1, <1>3
  <2> QED
    BY <1>3, <2>1 DEF Part
<1> QED
  BY <1>2, <1>3

-----------------------------------------------------------------------------
(* The invariant. *)

(* A command that has not begun has written nothing. *)
LEMMA InitProcess ==
  ASSUME Init
  PROVE  ProcessInv
<1>1. script \in Seq(Lines)
  BY MaxLinesAssumption DEF Init, BoundedSeq, SeqOf
<1>2. Len(script) \in Nat /\ <<>> \in Seq(Lines) /\ Len(<<>>) = 0
  BY <1>1, LenProperties, EmptySeq
<1>3. TypeOK
  BY <1>1, <1>2, CapacityAssumption DEF Init, TypeOK
<1>4. Written = 0 /\ LeftIsRest
  BY <1>1, <1>2 DEF Init, Written, LeftIsRest
<1>5. Conserved
  <2>1. \A stream : Taken(stream) = <<>> /\ Pipe(stream) = <<>>
    BY DEF Init, Taken, Pipe
  <2>2. <<>> \o <<>> = <<>>
    BY <1>2, ConcatEmptySeq
  <2> QED
    BY <1>4, <2>1, <2>2, PartNone DEF Conserved
<1>6. EndKnown
  BY DEF Init, EndKnown
<1> QED
  BY <1>3, <1>4, <1>5, <1>6 DEF ProcessInv

(* The first line left is the next of the script. *)
LEMMA NextLine ==
  ASSUME TypeOK, LeftIsRest, left # <<>>
  PROVE  /\ Written \in Nat /\ Written + 1 \in 1 .. Len(script)
         /\ Head(left) = script[Written + 1] /\ Head(left) \in Lines
         /\ Tail(left) \in Seq(Lines) /\ Len(Tail(left)) = Len(left) - 1
         /\ \A j \in 1 .. Len(Tail(left)) : Tail(left)[j] = script[Written + 1 + j]
<1>1. left \in Seq(Lines) /\ script \in Seq(Lines)
  BY DEF TypeOK
<1>2. Len(left) \in Nat \ {0} /\ Len(script) \in Nat
  BY <1>1, EmptySeq, LenProperties
<1>3. /\ Tail(left) \in Seq(Lines) /\ Len(Tail(left)) = Len(left) - 1
      /\ Head(left) \in Lines
      /\ \A j \in 1 .. Len(Tail(left)) : Tail(left)[j] = left[j + 1]
  BY <1>1, HeadTailProperties
<1>4. Head(left) = left[1]
  BY <1>1
<1>5. \A j \in 1 .. Len(Tail(left)) : left[j + 1] = script[Written + (j + 1)]
  BY <1>2, <1>3 DEF LeftIsRest
<1>6. Written \in Nat /\ Written + 1 \in 1 .. Len(script)
  BY <1>2 DEF LeftIsRest, Written
<1> QED
  BY <1>2, <1>3, <1>4, <1>5, <1>6 DEF LeftIsRest

(* Lines are moved from the script to a pipe and from there to the caller. *)
LEMMA TypeStep ==
  ASSUME TypeOK, Next
  PROVE  TypeOK'
<1> DEFINE Fit(q) == q \in Seq(Lines) /\ Len(q) <= Capacity
<1>1. \A q, line : Fit(q) /\ Len(q) < Capacity /\ line \in Lines => Fit(Append(q, line))
  BY CapacityAssumption, LenProperties
<1>2. \A q \in Seq(Lines) : q # <<>> => Head(q) \in Lines /\ Tail(q) \in Seq(Lines)
                                         /\ Len(Tail(q)) = Len(q) - 1 /\ Len(q) \in Nat
  BY HeadTailProperties, LenProperties
<1>3. \A q : Fit(q) /\ q # <<>> => Fit(Tail(q))
  BY <1>2, CapacityAssumption
<1>4. \A line \in Lines : line.stream \in {"out", "err"}
  BY DEF Lines
<1> HIDE DEF Fit
<1>5. TypeOK <=>
        /\ call \in Calls /\ script \in Seq(Lines) /\ left \in Seq(Lines)
        /\ Fit(out) /\ Fit(err)
        /\ child \in {"running", "exited", "killed"}
        /\ caller \in {"calling", "returned", "panicked"} /\ seen \in Seq(Lines)
  BY DEF TypeOK, Fit
<1>6. TypeOK' <=>
        /\ call' \in Calls /\ script' \in Seq(Lines) /\ left' \in Seq(Lines)
        /\ Fit(out') /\ Fit(err')
        /\ child' \in {"running", "exited", "killed"}
        /\ caller' \in {"calling", "returned", "panicked"} /\ seen' \in Seq(Lines)
  BY DEF TypeOK, Fit
<1>7. CASE Write
  BY <1>1, <1>2, <1>4, <1>5, <1>6, <1>7 DEF Write, HasRoom, Pipe
<1>8. CASE Exit
  BY <1>5, <1>6, <1>8 DEF Exit
<1>9. CASE Read
  <2> PICK stream \in {"out", "err"} :
             /\ Reads(stream) /\ Pipe(stream) # <<>>
             /\ IF stream = "out" THEN out' = Tail(out) /\ UNCHANGED err
                                  ELSE err' = Tail(err) /\ UNCHANGED out
             /\ \/ caller' = "panicked" /\ UNCHANGED seen
                \/ seen' = Append(seen, Head(Pipe(stream))) /\ UNCHANGED caller
    BY <1>9 DEF Read
  <2>1. Fit(out') /\ Fit(err') /\ Head(Pipe(stream)) \in Lines
    <3>1. Fit(out) /\ Fit(err) /\ out \in Seq(Lines) /\ err \in Seq(Lines)
      BY <1>5 DEF Fit
    <3> QED
      BY <1>2, <1>3, <3>1 DEF Pipe
  <2>2. seen' \in Seq(Lines) /\ caller' \in {"calling", "returned", "panicked"}
    <3>1. Append(seen, Head(Pipe(stream))) \in Seq(Lines)
      BY <1>5, <2>1
    <3> QED
      BY <1>5, <3>1
  <2> QED
    BY <1>5, <1>6, <1>9, <2>1, <2>2 DEF Read
<1>10. CASE Return
  BY <1>5, <1>6, <1>10 DEF Return
<1> QED
  BY <1>7, <1>8, <1>9, <1>10 DEF Next

(* The command writes its script from the front. *)
LEMMA LeftStep ==
  ASSUME TypeOK, LeftIsRest, Next
  PROVE  LeftIsRest'
<1>1. CASE Write
  <2>1. left # <<>> /\ left' = Tail(left) /\ script' = script
    BY <1>1 DEF Write
  <2>2. Len(left) \in Nat /\ Len(script) \in Nat
    BY LenProperties DEF TypeOK
  <2>3. Written' = Written + 1 /\ Len(left') <= Len(script)
    BY <2>1, <2>2, NextLine DEF Written, LeftIsRest
  <2> QED
    BY <2>1, <2>3, NextLine DEF LeftIsRest
<1>2. CASE Exit \/ Read \/ Return
  BY <1>2 DEF Exit, Read, Return, LeftIsRest, Written
<1> QED
  BY <1>1, <1>2 DEF Next

(* A line goes from the script to its pipe, and from the pipe to the call. *)
LEMMA ConservedStep ==
  ASSUME TypeOK, LeftIsRest, Conserved, EndKnown, Next
  PROVE  Conserved'
<1> SUFFICES ASSUME NEW stream \in {"out", "err"}, (caller = "calling")', Piped(stream)'
             PROVE  (Taken(stream) \o Pipe(stream))' = Part(stream, Written)'
  BY DEF Conserved
<1>1. caller = "calling" /\ script' = script /\ call' = call
  BY DEF Next, Write, Exit, Read, Return
<1>2. Piped(stream) /\ Taken(stream) \o Pipe(stream) = Part(stream, Written)
  BY <1>1 DEF Conserved, Piped
<1>3. \A n : Part(stream, n)' = Part(stream, n)
  BY <1>1 DEF Part
<1>4. /\ Taken(stream) \in Seq(Lines) /\ Pipe(stream) \in Seq(Lines)
      /\ Part(stream, Written) \in Seq(Lines)
  <2>1. Taken(stream) \in Seq(Lines) /\ Pipe(stream) \in Seq(Lines)
    BY DEF TypeOK, Taken, Pipe
  <2> QED
    BY <1>2, <2>1, ConcatProperties
<1>5. CASE Write
  <2>1. left # <<>> /\ left' = Tail(left) /\ seen' = seen
    BY <1>5 DEF Write
  <2>2. Len(left) \in Nat /\ Len(script) \in Nat
    BY LenProperties DEF TypeOK
  <2>3. Written' = Written + 1
    BY <1>1, <2>1, <2>2, NextLine DEF Written
  <2>4. /\ Head(left) = script[Written + 1] /\ script[Written + 1] \in Lines
        /\ Written \in Nat
    BY <2>1, NextLine
  <2>5. Taken(stream)' = Taken(stream)
    BY <1>1, <2>1 DEF Taken, Reads
  <2>6. Part(stream, Written)' = Part(stream, Written + 1)
    BY <1>1, <2>3 DEF Part
  <2>7. CASE Head(left).stream = stream
    <3>1. Pipe(stream)' = Append(Pipe(stream), Head(left))
      BY <1>1, <1>2, <1>5, <2>7 DEF Write, Pipe
    <3>2. Part(stream, Written + 1) = Append(Part(stream, Written), Head(left))
      BY <1>4, <2>4, <2>7, PartStep
    <3>3. Head(left) \in Lines
      BY <2>4
    <3>4. Taken(stream) \o Append(Pipe(stream), Head(left))
            = Append(Taken(stream) \o Pipe(stream), Head(left))
      BY <1>4, <3>3, ConcatAppend
    <3> QED
      BY <1>2, <2>5, <2>6, <3>1, <3>2, <3>4
  <2>8. CASE Head(left).stream # stream
    <3>1. Pipe(stream)' = Pipe(stream)
      BY <1>1, <1>5, <2>4, <2>8 DEF Write, Pipe, Lines
    <3>2. Part(stream, Written + 1) = Part(stream, Written)
      BY <1>4, <2>4, <2>8, PartStep
    <3> QED
      BY <1>2, <2>5, <2>6, <3>1, <3>2
  <2> QED
    BY <2>7, <2>8
<1>6. CASE Read
  <2>1. left' = left /\ Written' = Written
    BY <1>1, <1>6 DEF Read, Written
  <2> PICK from \in {"out", "err"} :
             /\ Reads(from) /\ Pipe(from) # <<>>
             /\ IF from = "out" THEN out' = Tail(out) /\ UNCHANGED err
                                ELSE err' = Tail(err) /\ UNCHANGED out
             /\ seen' = Append(seen, Head(Pipe(from)))
    BY <1>1, <1>6 DEF Read
  <2>2. CASE from = stream
    <3>1. Pipe(stream)' = Tail(Pipe(stream)) /\ Pipe(stream) # <<>>
      BY <2>2 DEF Pipe
    <3>2. Taken(stream) = seen /\ Taken(stream)' = Append(seen, Head(Pipe(stream)))
      BY <1>1, <2>2 DEF Taken, Reads
    <3>3. Append(seen, Head(Pipe(stream))) \o Tail(Pipe(stream)) = seen \o Pipe(stream)
      BY <1>4, <3>1, <3>2, MoveHead
    <3> QED
      BY <1>2, <1>3, <1>4, <2>1, <3>1, <3>2, <3>3 DEF Part
  <2>3. CASE from # stream
    <3>1. Pipe(stream)' = Pipe(stream)
      BY <2>3 DEF Pipe
    <3>2. Taken(stream)' = Taken(stream)
      BY <1>1, <2>3 DEF Taken, Reads
    <3> QED
      BY <1>2, <1>3, <2>1, <3>1, <3>2 DEF Part
  <2> QED
    BY <2>2, <2>3
<1>7. CASE Exit \/ Return
  BY <1>1, <1>2, <1>7 DEF Exit, Return, Taken, Reads, Pipe, Part, Written
<1> QED
  BY <1>5, <1>6, <1>7 DEF Next

(* With nothing left, all of the stream was written. *)
LEMMA AllWritten ==
  ASSUME TypeOK, left = <<>>
  PROVE  Written = Len(script)
<1>1. Len(left) = 0 /\ Len(script) \in Nat
  BY LenProperties DEF TypeOK
<1> QED
  BY <1>1 DEF Written

(* The command and the call each end at their own step. *)
LEMMA EndStep ==
  ASSUME TypeOK, Conserved, EndKnown, Next
  PROVE  EndKnown'
<1> DEFINE Ended == child = "exited" => left = <<>>
           Whole == \A stream \in {"out", "err"} : Reads(stream) => seen = On(stream)
<1>1. script' = script /\ call' = call
  BY DEF Next, Write, Exit, Read, Return
<1>2. Fits' = Fits
  BY <1>1 DEF Fits, On, Part
<1>3. CASE Write
  BY <1>1, <1>2, <1>3 DEF Write, EndKnown, Reads, On, Part
<1>4. CASE Exit
  BY <1>1, <1>2, <1>4 DEF Exit, EndKnown, Reads, On, Part
<1>5. CASE Read
  <2>1. caller = "calling" /\ child' = child /\ left' = left
    BY <1>5 DEF Read
  <2>2. caller' # "returned"
    BY <1>5 DEF Read
  <2>3. caller' # "calling" => call = "with_log"
    BY <1>5 DEF Read
  <2>4. caller' # "calling" => Fits'
    BY <1>2, <2>3 DEF Fits
  <2> QED
    BY <2>1, <2>2, <2>4 DEF EndKnown
<1>6. CASE Return
  <2>1. /\ caller = "calling" /\ child' = child /\ left' = left
        /\ caller' # "calling" /\ seen' = seen /\ child # "killed"
    BY <1>6 DEF Return, EndKnown
  <2>2. CASE call = "exec"
    BY <1>1, <1>2, <2>1, <2>2 DEF EndKnown, Fits, Reads
  <2>3. CASE call # "exec"
    <3>1. AtEnd /\ child = "exited" /\ left = <<>>
      BY <1>6, <2>1, <2>3 DEF Return, AtEnd, EndKnown, TypeOK
    <3>2. \A stream \in {"out", "err"} :
            Piped(stream) => Taken(stream) \o Pipe(stream) = On(stream)
      BY <2>1, <3>1, AllWritten DEF Conserved, On
    <3>3. \A a \in Seq(Lines) : a \o <<>> = a /\ <<>> \o a = a
      BY ConcatEmptySeq
    <3>4. seen \in Seq(Lines) /\ out \in Seq(Lines)
      BY DEF TypeOK
    <3>5. \A stream \in {"out", "err"} : Reads(stream) => seen = On(stream)
      BY <3>1, <3>2, <3>3, <3>4 DEF AtEnd, Reads, Piped, Taken
    <3>6. Fits
      <4>1. CASE call \in {"wait", "panic_on_error"}
        <5>1. out = On("out")
          BY <3>2, <3>3, <3>4, <4>1 DEF Piped, Taken, Reads, Pipe
        <5> QED
          BY <5>1 DEF TypeOK, Fits
      <4> QED
        BY <4>1 DEF Fits
    <3> QED
      BY <1>1, <1>2, <2>1, <3>1, <3>5, <3>6 DEF EndKnown, Reads, On, Part
  <2> QED
    BY <2>2, <2>3
<1> QED
  BY <1>3, <1>4, <1>5, <1>6 DEF Next

-----------------------------------------------------------------------------
(* Theorems. *)

(* Whatever the command writes, and however it and its caller take turns. *)
THEOREM ProcessInvariance == Spec => []ProcessInv
<1>1. ASSUME ProcessInv, [Next]_vars PROVE ProcessInv'
  <2>1. CASE Next
    BY <1>1, <2>1, TypeStep, LeftStep, ConservedStep, EndStep DEF ProcessInv
  <2>2. CASE UNCHANGED vars
    BY <1>1, <2>2 DEF vars, ProcessInv, TypeOK, LeftIsRest, Written, Conserved, EndKnown,
      Taken, Reads, Pipe, Piped, Part, On, Fits
  <2> QED
    BY <1>1, <2>1, <2>2
<1> QED
  BY InitProcess, <1>1, PTL DEF Spec

(* The process's state keeps its types, and no pipe holds more than it can
   (process.rs:60-90). *)
THEOREM ProcessTyped == Spec => []TypeOK
  BY ProcessInvariance, PTL DEF ProcessInv

(* with_log(), wait_with_output() and exec_with_panic_on_error() come back with
   every line of the stream they read, in the command's order, also with those
   it wrote just before it exited (process.rs:93-163). *)
THEOREM AllTaken == Spec => []AllSeen
<1>1. ProcessInv => AllSeen
  BY DEF ProcessInv, EndKnown, AllSeen, Reads
<1> QED
  BY <1>1, ProcessInvariance, PTL

(* wait() and exec_with_panic_on_error() never come back from a command that
   prints more than the pipe they leave unread can hold: the safety half of
   what CallReturns says (process.rs:84, 138-147, 160-163). *)
THEOREM TooMuchNeverReturns == Spec => [](~ Fits => caller = "calling")
<1>1. ProcessInv => (~ Fits => caller = "calling")
  BY DEF ProcessInv, EndKnown
<1> QED
  BY <1>1, ProcessInvariance, PTL
=============================================================================
