------------------------------ MODULE XdgProofs ------------------------------
(***************************************************************************)
(* Machine-checked proofs about module XdgShell, for all surfaces, sizes   *)
(* and starts of the serial counter, and as many configures as a session   *)
(* can send before the order of serials starts to lie.                     *)
(*                                                                         *)
(* The argument is about the age of a serial: how many were issued since.  *)
(* Ages up to Far - 2 order serials as Serial::partial_cmp does, although  *)
(* the numbers wrap around.  XdgInv says of each surface how old what it   *)
(* was told is, what of it is acknowledged, and what waits at its client.  *)
(***************************************************************************)
EXTENDS XdgShell, SequenceTheorems, FiniteSetTheorems, TLAPS

-----------------------------------------------------------------------------
(* Serials. *)

(* Half of the serials are farther ahead than behind. *)
LEMMA MaxValueOdd == Far \in Nat /\ Far >= 1 /\ MaxValue = 2 * Far + 1
  BY MaxValueAssumption DEF Far

(* The counter wraps around, and a serial is never 0. *)
LEMMA AdvanceValue ==
  ASSUME NEW c \in 0 .. MaxValue
  PROVE  /\ NextSerial(c) \in 1 .. MaxValue
         /\ Advance(c) = IF NextSerial(c) = MaxValue THEN 0 ELSE NextSerial(c) + 1
         /\ Advance(c) \in 0 .. MaxValue
<1>1. NextSerial(c) \in 1 .. MaxValue /\ MaxValue \in Nat
  BY MaxValueAssumption DEF NextSerial
<1>2. CASE NextSerial(c) = MaxValue
  <2>1. \A m \in Nat \ {0} : m % m = 0
    OBVIOUS
  <2> QED
    BY <1>1, <1>2, <2>1 DEF Advance
<1>3. CASE NextSerial(c) # MaxValue
  <2>1. \A m \in Nat \ {0}, k \in Nat : k < m => k % m = k
    OBVIOUS
  <2> QED
    BY <1>1, <1>3, <2>1 DEF Advance
<1> QED
  BY <1>2, <1>3

(* How many serials were taken from the counter since n was, n included. *)
Age(n, c) == IF n < NextSerial(c) THEN NextSerial(c) - n ELSE NextSerial(c) - n + MaxValue

(* One of the last k serials. *)
Recent(n, c, k) == n \in 1 .. MaxValue /\ Age(n, c) <= k

(* Every serial has an age. *)
LEMMA AgeType ==
  ASSUME NEW c \in 0 .. MaxValue, NEW n \in 1 .. MaxValue
  PROVE  Age(n, c) \in 1 .. MaxValue
  BY AdvanceValue, MaxValueAssumption DEF Age

(* The serial taken is the youngest, and the others are a step older. *)
LEMMA AgeAdvances ==
  ASSUME NEW c \in 0 .. MaxValue
  PROVE  /\ Age(NextSerial(c), Advance(c)) = 1
         /\ \A n \in 1 .. MaxValue :
              Age(n, c) < MaxValue => Age(n, Advance(c)) = Age(n, c) + 1
<1>1. /\ NextSerial(c) \in 1 .. MaxValue
      /\ NextSerial(Advance(c)) = IF NextSerial(c) = MaxValue THEN 1 ELSE NextSerial(c) + 1
  BY AdvanceValue DEF NextSerial
<1> QED
  BY <1>1, MaxValueAssumption DEF Age

(* Among the last Far - 2, older by the order of serials is older by age, also
   when the counter wrapped around between the two. *)
LEMMA OlderIsAge ==
  ASSUME NEW c \in 0 .. MaxValue, NEW k \in 0 .. Far - 2,
         NEW a, NEW b, Recent(a, c, k), Recent(b, c, k)
  PROVE  /\ Older(a, b) <=> Age(a, c) > Age(b, c)
         /\ Age(a, c) = Age(b, c) => a = b
<1>1. NextSerial(c) \in 1 .. MaxValue
  BY AdvanceValue
<1>2. /\ a \in 1 .. MaxValue /\ b \in 1 .. MaxValue
      /\ Age(a, c) <= k /\ Age(b, c) <= k
  BY DEF Recent
<1>3. Age(a, c) \in 1 .. MaxValue /\ Age(b, c) \in 1 .. MaxValue
  BY <1>2, AgeType
<1>4. Age(a, c) <= Far - 2 /\ Age(b, c) <= Far - 2
  BY <1>2, <1>3, MaxValueOdd
<1> QED
  BY <1>1, <1>2, <1>4, MaxValueOdd DEF Age, Older, Distance

-----------------------------------------------------------------------------
(* Retaining. *)

(* What lies behind a position of a sequence, taken by its positions. *)
LEMMA RetainSuffix ==
  ASSUME NEW S, NEW q \in Seq(S), NEW m \in 0 .. Len(q)
  PROVE  Retain(q, m + 1 .. Len(q)) = SubSeq(q, m + 1, Len(q))
<1> DEFINE K == m + 1 .. Len(q)
           Nth(j) == CHOOSE i \in K : Cardinality({k \in K : k <= i}) = j
<1>1. m \in Nat /\ Len(q) \in Nat /\ m <= Len(q)
  OBVIOUS
<1>2. \A i \in m .. Len(q) : Cardinality(m + 1 .. i) = i - m
  <2> SUFFICES ASSUME NEW i \in m .. Len(q) PROVE Cardinality(m + 1 .. i) = i - m
    OBVIOUS
  <2>1. m + 1 \in Int /\ i \in Int
    BY <1>1
  <2>2. Cardinality(m + 1 .. i) = IF m + 1 > i THEN 0 ELSE i - (m + 1) + 1
    BY <2>1, FS_Interval
  <2> QED
    BY <1>1, <2>2
<1>3. \A i \in K : Cardinality({k \in K : k <= i}) = i - m
  <2> SUFFICES ASSUME NEW i \in K PROVE Cardinality({k \in K : k <= i}) = i - m
    OBVIOUS
  <2>1. {k \in K : k <= i} = m + 1 .. i
    BY <1>1
  <2>2. i \in m .. Len(q)
    BY <1>1
  <2> QED
    BY <1>2, <2>1, <2>2
<1>4. \A j \in 1 .. Len(q) - m : Nth(j) = m + j
  <2> SUFFICES ASSUME NEW j \in 1 .. Len(q) - m PROVE Nth(j) = m + j
    OBVIOUS
  <2>1. m + j \in K /\ \A i \in K : Cardinality({k \in K : k <= i}) = j <=> i = m + j
    BY <1>1, <1>3
  <2> HIDE DEF K
  <2> QED
    BY <2>1
<1>5. Retain(q, K) = [j \in 1 .. Len(q) - m |-> q[m + j]]
  <2>1. Cardinality(K) = Len(q) - m
    BY <1>1, <1>2
  <2>2. Retain(q, K) = [j \in 1 .. Cardinality(K) |-> q[Nth(j)]]
    BY DEF Retain
  <2> HIDE DEF K, Nth
  <2> QED
    BY <1>4, <2>1, <2>2
<1>6. SubSeq(q, m + 1, Len(q)) = [j \in 1 .. Len(q) - m |-> q[m + j]]
  BY <1>1
<1> QED
  BY <1>5, <1>6

-----------------------------------------------------------------------------
(* What is known of one surface. *)

(* What the surface was told and the server has not forgotten. *)
Told(a) == ({a.current, a.last_acked} \cup ToSet(a.pending_configures)) \ {Nothing}

(* With a toplevel that was made at serial b.serial and told b.size: the
   configures are recent, not older than the toplevel and of that size. *)
ToldRecently(a, b, c, k) ==
  \A x \in Told(a) :
    /\ Recent(x.serial, c, k) /\ Recent(b.serial, c, k) /\ x.size = b.size
    /\ Age(x.serial, c) <= Age(b.serial, c)

(* What is current is not younger than what is acknowledged, and both are older
   than what is pending, in order. *)
ToldInOrder(a, c) ==
  LET q == a.pending_configures
  IN /\ \A i, j \in DOMAIN q : i < j => Age(q[i].serial, c) > Age(q[j].serial, c)
     /\ a.last_acked # Nothing =>
          \A i \in DOMAIN q : Age(a.last_acked.serial, c) > Age(q[i].serial, c)
     /\ a.current # Nothing =>
          /\ a.last_acked # Nothing
          /\ \/ a.current = a.last_acked
             \/ Age(a.current.serial, c) > Age(a.last_acked.serial, c)

(* The serials of what is pending. *)
Serials(a) == [i \in DOMAIN a.pending_configures |-> a.pending_configures[i].serial]

(* The client has still to come to what is pending; a toplevel was always told
   something, and no other surface ever is. *)
Waiting(a, box) ==
  box = Serials(a)
OnlyToplevels(a, toplevel) ==
  IF toplevel THEN a.pending_configures # <<>> \/ a.last_acked # Nothing
  ELSE Told(a) = {}

Sound(a, box, toplevel, b, c, k) ==
  /\ ToldRecently(a, b, c, k) /\ ToldInOrder(a, c)
  /\ Waiting(a, box) /\ OnlyToplevels(a, toplevel)

Toplevel(s) == role[s] = "toplevel" /\ object[s]

(* What the inbox holds of the present role object, for all that is known of it
   when it may hold configures of an earlier one. *)
Box(s) == IF s \in stale THEN Serials(att[s]) ELSE inbox[s]

SurfacesSound ==
  \A s \in Surfaces : Sound(att[s], Box(s), Toplevel(s), born[s], counter, taken)

XdgInv == TypeOK /\ refused \subseteq stale /\ SurfacesSound

(* The parts of Told, one by one. *)
LEMMA ToldParts ==
  ASSUME NEW a \in Attributes
  PROVE  /\ \A x \in Told(a) : x \in Configure
         /\ a.current # Nothing => a.current \in Told(a)
         /\ a.last_acked # Nothing => a.last_acked \in Told(a)
         /\ \A i \in DOMAIN a.pending_configures :
              /\ a.pending_configures[i] \in Told(a)
              /\ a.pending_configures[i].serial \in 1 .. MaxValue
         /\ \A x \in Told(a) : \/ x = a.current \/ x = a.last_acked
                               \/ \E i \in DOMAIN a.pending_configures :
                                    x = a.pending_configures[i]
<1>1. /\ a.current \in Configure \cup {Nothing} /\ a.last_acked \in Configure \cup {Nothing}
      /\ a.pending_configures \in Seq(Configure)
  BY DEF Attributes
<1>2. \A x \in Configure : x.serial \in 1 .. MaxValue /\ x # Nothing
  BY DEF Configure, Nothing
<1>3. \A i \in DOMAIN a.pending_configures : a.pending_configures[i] \in Configure
  BY <1>1
<1> QED
  BY <1>1, <1>2, <1>3 DEF Told, ToSet

(* A surface without a role object was told nothing. *)
LEMMA DefaultSound ==
  ASSUME NEW b, NEW c, NEW k
  PROVE  /\ DefaultAttributes \in Attributes
         /\ Sound(DefaultAttributes, <<>>, FALSE, b, c, k)
<1>1. Told(DefaultAttributes) = {}
  BY DEF Told, ToSet, DefaultAttributes
<1>2. DefaultAttributes \in Attributes
  BY DEF DefaultAttributes, Attributes
<1>3. ToldInOrder(DefaultAttributes, c) /\ Waiting(DefaultAttributes, <<>>)
  BY DEF ToldInOrder, Waiting, Serials, DefaultAttributes
<1> QED
  BY <1>1, <1>2, <1>3 DEF Sound, ToldRecently, OnlyToplevels

(* A serial taken elsewhere makes everything a step older. *)
LEMMA SoundLater ==
  ASSUME NEW c \in 0 .. MaxValue, NEW k \in Nat, k < MaxTaken,
         NEW a \in Attributes, NEW box, NEW t, NEW b, Sound(a, box, t, b, c, k)
  PROVE  Sound(a, box, t, b, Advance(c), k + 1)
<1>1. k < Far - 2 /\ Far \in Nat /\ MaxValue = 2 * Far + 1
  BY MaxTakenAssumption, MaxValueOdd
<1>2. \A n : Recent(n, c, k) => /\ Age(n, Advance(c)) = Age(n, c) + 1
                                /\ Recent(n, Advance(c), k + 1)
                                /\ Age(n, c) \in Nat
  <2> SUFFICES ASSUME NEW n, Recent(n, c, k)
               PROVE  /\ Age(n, Advance(c)) = Age(n, c) + 1
                      /\ Recent(n, Advance(c), k + 1) /\ Age(n, c) \in Nat
    OBVIOUS
  <2>1. n \in 1 .. MaxValue /\ Age(n, c) <= k
    BY DEF Recent
  <2>2. Age(n, c) \in 1 .. MaxValue
    BY <2>1, AgeType
  <2>3. Age(n, c) < MaxValue
    BY <1>1, <2>1, <2>2
  <2>4. Age(n, Advance(c)) = Age(n, c) + 1
    BY <2>1, <2>3, AgeAdvances
  <2> QED
    BY <2>1, <2>2, <2>4 DEF Recent
<1>3. \A x \in Told(a) : Recent(x.serial, c, k) /\ Recent(b.serial, c, k)
  BY DEF Sound, ToldRecently
<1>4. ToldRecently(a, b, Advance(c), k + 1)
  BY <1>2, <1>3 DEF Sound, ToldRecently
<1>5. ToldInOrder(a, Advance(c))
  <2>1. \A x, y \in Told(a) : Age(x.serial, c) > Age(y.serial, c)
                              => Age(x.serial, Advance(c)) > Age(y.serial, Advance(c))
    BY <1>2, <1>3
  <2> QED
    BY <2>1, ToldParts DEF Sound, ToldInOrder
<1> QED
  BY <1>4, <1>5 DEF Sound

(* A configure sent to a toplevel is its youngest; the first one is sent when
   nothing is left of what the surface was told before. *)
LEMMA SoundSend ==
  ASSUME NEW c \in 0 .. MaxValue, NEW k \in Nat, k < MaxTaken,
         NEW a \in Attributes, NEW box, NEW t \in BOOLEAN, NEW b0, NEW b,
         Sound(a, box, t, b0, c, k), b.size \in Sizes,
         IF t THEN b = b0 ELSE b.serial = NextSerial(c),
         NEW e \in Attributes,
         e.pending_configures = Append(a.pending_configures,
                                       [serial |-> NextSerial(c), size |-> b.size]),
         e.last_acked = a.last_acked, e.current = a.current
  PROVE  Sound(e, Append(box, NextSerial(c)), TRUE, b, Advance(c), k + 1)
<1> DEFINE x == [serial |-> NextSerial(c), size |-> b.size]
           q == a.pending_configures
           d == Advance(c)
<1>1. /\ Recent(x.serial, d, k + 1) /\ Age(x.serial, d) = 1 /\ x # Nothing
      /\ x.serial = NextSerial(c) /\ x.size = b.size
  <2>1. NextSerial(c) \in 1 .. MaxValue /\ Age(NextSerial(c), d) = 1
    BY AdvanceValue, AgeAdvances
  <2>2. x # Nothing
    BY <2>1 DEF Nothing
  <2> QED
    BY <2>1, <2>2 DEF Recent
<1>d. d \in 0 .. MaxValue
  BY AdvanceValue
<1>2. Sound(a, box, t, b0, d, k + 1)
  BY SoundLater
<1>3. q \in Seq(Configure) /\ Len(q) \in Nat /\ e.pending_configures = Append(q, x)
  BY DEF Attributes
<1>4. /\ DOMAIN e.pending_configures = 1 .. Len(q) + 1
      /\ DOMAIN q = 1 .. Len(q)
      /\ \A i \in 1 .. Len(q) : e.pending_configures[i] = q[i]
      /\ e.pending_configures[Len(q) + 1] = x
  BY <1>3
<1> HIDE DEF x, q
<1>5. Told(e) = Told(a) \cup {x}
  <2>1. ToSet(e.pending_configures) = ToSet(q) \cup {x}
    <3> DEFINE p == e.pending_configures
    <3>1. /\ DOMAIN p = DOMAIN q \cup {Len(q) + 1} /\ Len(q) + 1 \in DOMAIN p
          /\ \A i \in DOMAIN q : p[i] = q[i]
          /\ p[Len(q) + 1] = x
      BY <1>3, <1>4
    <3> HIDE DEF p
    <3>2. ToSet(p) = ToSet(q) \cup {x}
      BY <3>1 DEF ToSet
    <3> QED
      BY <3>2 DEF p
  <2> QED
    BY <1>1, <2>1 DEF Told, q
\* The old configures of a toplevel were older than this one is going to be.
<1>6. \A y \in Told(a) : Age(y.serial, d) > 1
  <2> SUFFICES ASSUME NEW y \in Told(a) PROVE Age(y.serial, d) > 1
    OBVIOUS
  <2>1. y.serial \in 1 .. MaxValue /\ Age(y.serial, c) <= k
    BY DEF Sound, ToldRecently, Recent
  <2>2. Age(y.serial, c) \in 1 .. MaxValue
    BY <2>1, AgeType
  <2>3. Age(y.serial, c) < MaxValue
    BY <2>1, <2>2, MaxTakenAssumption, MaxValueOdd
  <2>4. Age(y.serial, d) = Age(y.serial, c) + 1
    BY <2>1, <2>3, AgeAdvances
  <2> QED
    BY <2>2, <2>4
<1>7. ToldRecently(e, b, d, k + 1)
  <2>1. CASE t
    <3>1. Told(a) # {} /\ b = b0
      BY <2>1, ToldParts DEF Sound, OnlyToplevels, Attributes
    <3>2. \A y \in Told(a) : /\ Recent(y.serial, d, k + 1) /\ Recent(b.serial, d, k + 1)
                             /\ y.size = b.size /\ Age(y.serial, d) <= Age(b.serial, d)
      BY <1>2, <3>1 DEF Sound, ToldRecently
    <3>3. Recent(b.serial, d, k + 1) /\ Age(b.serial, d) >= 1
      <4>1. Recent(b.serial, d, k + 1)
        BY <3>1, <3>2
      <4>2. Age(b.serial, d) \in 1 .. MaxValue
        BY <1>d, <4>1, AgeType DEF Recent
      <4> QED
        BY <4>1, <4>2
    <3> QED
      BY <1>1, <1>5, <3>2, <3>3 DEF ToldRecently
  <2>2. CASE ~ t
    BY <1>1, <1>5, <2>2 DEF Sound, OnlyToplevels, ToldRecently
  <2> QED
    BY <2>1, <2>2
<1>8. ToldInOrder(e, d)
  <2>1. \A i \in 1 .. Len(q) : Age(q[i].serial, d) > 1
    BY <1>4, <1>6, ToldParts DEF q
  <2>2. a.last_acked # Nothing => Age(a.last_acked.serial, d) > 1
    BY <1>6, ToldParts
  <2>3. ToldInOrder(a, d)
    BY <1>2 DEF Sound
  <2>4. \A i, j \in 1 .. Len(q) : i < j => Age(q[i].serial, d) > Age(q[j].serial, d)
    BY <1>4, <2>3 DEF ToldInOrder, q
  <2>5. \A i, j \in 1 .. Len(q) + 1 : i < j =>
          Age(e.pending_configures[i].serial, d) > Age(e.pending_configures[j].serial, d)
    <3> SUFFICES ASSUME NEW i \in 1 .. Len(q) + 1, NEW j \in 1 .. Len(q) + 1, i < j
                 PROVE  Age(e.pending_configures[i].serial, d)
                          > Age(e.pending_configures[j].serial, d)
      OBVIOUS
    <3>1. i \in 1 .. Len(q) /\ e.pending_configures[i] = q[i]
      BY <1>3, <1>4
    <3>2. CASE j = Len(q) + 1
      BY <1>1, <1>4, <2>1, <3>1, <3>2
    <3>3. CASE j # Len(q) + 1
      <4>1. j \in 1 .. Len(q) /\ e.pending_configures[j] = q[j]
        BY <1>3, <1>4, <3>3
      <4> QED
        BY <2>4, <3>1, <4>1
    <3> QED
      BY <3>2, <3>3
  <2>6. e.last_acked # Nothing =>
          \A i \in 1 .. Len(q) + 1 :
            Age(e.last_acked.serial, d) > Age(e.pending_configures[i].serial, d)
    <3> SUFFICES ASSUME a.last_acked # Nothing, NEW i \in 1 .. Len(q) + 1
                 PROVE  Age(a.last_acked.serial, d) > Age(e.pending_configures[i].serial, d)
      OBVIOUS
    <3>1. CASE i = Len(q) + 1
      BY <1>1, <1>4, <2>2, <3>1
    <3>2. CASE i # Len(q) + 1
      <4>1. i \in 1 .. Len(q) /\ e.pending_configures[i] = q[i]
        BY <1>3, <1>4, <3>2
      <4> QED
        BY <1>4, <2>3, <4>1 DEF ToldInOrder, q
    <3> QED
      BY <3>1, <3>2
  <2> QED
    BY <1>4, <2>3, <2>5, <2>6 DEF ToldInOrder
<1>9. Waiting(e, Append(box, NextSerial(c)))
  <2>1. box = [i \in 1 .. Len(q) |-> q[i].serial]
    BY <1>4 DEF Sound, Waiting, Serials, q
  <2>2. \A i \in 1 .. Len(q) : q[i].serial \in 1 .. MaxValue
    BY <1>4, ToldParts DEF q
  <2>3. box \in Seq(1 .. MaxValue) /\ Len(box) = Len(q)
    BY <1>3, <2>1, <2>2, IsASeq
  <2>4. Append(box, NextSerial(c)) =
          [i \in 1 .. Len(q) + 1 |-> IF i <= Len(q) THEN q[i].serial ELSE x.serial]
    BY <1>1, <1>3, <2>1, <2>3
  <2> QED
    BY <1>3, <1>4, <2>4 DEF Waiting, Serials
<1>10. OnlyToplevels(e, TRUE)
  BY <1>3 DEF OnlyToplevels
<1> QED
  BY <1>7, <1>8, <1>9, <1>10 DEF Sound

(* Acknowledging the i-th pending configure finds that one, and leaves those
   behind it. *)
LEMMA SoundAck ==
  ASSUME NEW c \in 0 .. MaxValue, NEW k \in 0 .. MaxTaken,
         NEW a \in Attributes, NEW box, NEW t, NEW b, Sound(a, box, t, b, c, k),
         NEW i \in DOMAIN box
  PROVE  /\ \E j \in DOMAIN a.pending_configures : a.pending_configures[j].serial = box[i]
         /\ AckConfigure(a, box[i]) \in Attributes
         /\ SubSeq(box, i + 1, Len(box)) \in Seq(1 .. MaxValue)
         /\ Sound(AckConfigure(a, box[i]), SubSeq(box, i + 1, Len(box)), t, b, c, k)
<1> DEFINE q == a.pending_configures
           e == AckConfigure(a, box[i])
           rest == SubSeq(q, i + 1, Len(q))
<1>1. /\ q \in Seq(Configure) /\ Len(q) \in Nat /\ DOMAIN q = 1 .. Len(q)
      /\ box = [j \in 1 .. Len(q) |-> q[j].serial] /\ i \in 1 .. Len(q)
      /\ box[i] = q[i].serial
  BY DEF Attributes, Sound, Waiting, Serials
<1>2. \A j \in 1 .. Len(q) : Recent(q[j].serial, c, k) /\ q[j] \in Told(a) /\ q[j] \in Configure
  BY <1>1, ToldParts DEF Sound, ToldRecently
<1>3. \A j, m \in 1 .. Len(q) : j < m => Age(q[j].serial, c) > Age(q[m].serial, c)
  BY <1>1 DEF Sound, ToldInOrder
<1>4. \A j \in 1 .. Len(q) : Age(q[j].serial, c) \in Nat
  BY <1>2, AgeType DEF Recent
<1>5. k \in 0 .. Far - 2
  BY MaxTakenAssumption, MaxValueOdd
<1>6. \A j \in 1 .. Len(q) : Older(q[i].serial, q[j].serial) <=> j > i
  BY <1>1, <1>2, <1>3, <1>4, <1>5, OlderIsAge
<1>7. \A j \in 1 .. Len(q) : q[j].serial = q[i].serial => j = i
  BY <1>1, <1>3, <1>4
<1>8. Find(q, q[i].serial) = i
  <2>1. \A j \in DOMAIN q : /\ q[j].serial = q[i].serial
                            /\ \A m \in 1 .. j - 1 : q[m].serial # q[i].serial
                            <=> j = i
    BY <1>1, <1>7
  <2> HIDE DEF q
  <2> QED
    BY <1>1, <2>1 DEF Find
<1>9. Retain(q, {j \in DOMAIN q : Older(q[i].serial, q[j].serial)}) = rest
  <2>1. {j \in DOMAIN q : Older(q[i].serial, q[j].serial)} = i + 1 .. Len(q)
    BY <1>1, <1>6
  <2>2. i \in 0 .. Len(q)
    BY <1>1
  <2> HIDE DEF q
  <2> QED
    BY <1>1, <2>1, <2>2, RetainSuffix
<1>10. e = [a EXCEPT !.last_acked = q[i], !.pending_configures = rest]
  BY <1>1, <1>8, <1>9 DEF AckConfigure
<1>11. /\ rest \in Seq(Configure) /\ Len(rest) = Len(q) - i
       /\ DOMAIN rest = 1 .. Len(q) - i
       /\ \A j \in 1 .. Len(q) - i : rest[j] = q[i + j] /\ i + j \in 1 .. Len(q)
  <2>1. i \in Nat /\ i + 1 >= 1 /\ i <= Len(q) /\ Len(q) - (i + 1) + 1 = Len(q) - i
    BY <1>1
  <2> HIDE DEF q
  <2>2. rest = [j \in 1 .. Len(q) - i |-> q[i + 1 + j - 1]]
    BY <1>1, <2>1
  <2>3. \A j \in 1 .. Len(q) - i : i + 1 + j - 1 = i + j /\ i + j \in 1 .. Len(q)
    BY <2>1, <1>1
  <2>4. rest \in Seq(Configure)
    BY <1>1, <2>1
  <2>5. DOMAIN rest = 1 .. Len(q) - i /\ Len(q) - i \in Nat
    BY <2>1, <2>2, <1>1
  <2>6. Len(rest) = Len(q) - i
    BY <2>4, <2>5
  <2> QED
    BY <2>2, <2>3, <2>4, <2>5, <2>6
<1> HIDE DEF e, rest
<1>12. /\ e \in Attributes /\ e.pending_configures = rest
       /\ e.last_acked = q[i] /\ e.current = a.current
  BY <1>1, <1>2, <1>10, <1>11 DEF Attributes
<1>13. Told(e) \subseteq Told(a)
  <2>1. \A j \in DOMAIN rest : rest[j] \in Told(a)
    BY <1>2, <1>11
  <2>2. \A x \in Told(e) : x # Nothing
    BY DEF Told
  <2> QED
    BY <1>1, <1>2, <1>12, <2>1, <2>2, ToldParts
<1>14. ToldRecently(e, b, c, k)
  BY <1>13 DEF Sound, ToldRecently
<1>15. ToldInOrder(e, c)
  <2>1. \A j \in 1 .. Len(q) - i : i + j \in 1 .. Len(q) /\ i < i + j
    BY <1>1
  <2>2. \A j, m \in DOMAIN rest : j < m => Age(rest[j].serial, c) > Age(rest[m].serial, c)
    <3> SUFFICES ASSUME NEW j \in 1 .. Len(q) - i, NEW m \in 1 .. Len(q) - i, j < m
                 PROVE  Age(rest[j].serial, c) > Age(rest[m].serial, c)
      BY <1>11
    <3>1. i + j < i + m
      BY <1>1
    <3> QED
      BY <1>3, <1>11, <2>1, <3>1
  <2>3. \A j \in DOMAIN rest : Age(q[i].serial, c) > Age(rest[j].serial, c)
    BY <1>1, <1>3, <1>11, <2>1
  <2>4. a.current # Nothing => Age(a.current.serial, c) > Age(q[i].serial, c)
    <3> SUFFICES ASSUME a.current # Nothing
                 PROVE  Age(a.current.serial, c) > Age(q[i].serial, c)
      OBVIOUS
    <3>1. /\ a.last_acked # Nothing
          /\ Age(a.last_acked.serial, c) > Age(q[i].serial, c)
          /\ \/ a.current = a.last_acked
             \/ Age(a.current.serial, c) > Age(a.last_acked.serial, c)
      BY <1>1 DEF Sound, ToldInOrder
    <3>2. Age(q[i].serial, c) \in Nat
      BY <1>1, <1>4
    <3>3. \A x \in Told(a) : Age(x.serial, c) \in Nat
      BY AgeType DEF Sound, ToldRecently, Recent
    <3>4. Age(a.last_acked.serial, c) \in Nat /\ Age(a.current.serial, c) \in Nat
      BY <3>1, <3>3, ToldParts
    <3> QED
      BY <3>1, <3>2, <3>4
  <2>5. q[i] # Nothing
    BY <1>1, <1>2 DEF Told
  <2> QED
    BY <1>12, <2>2, <2>3, <2>4, <2>5 DEF ToldInOrder
<1>16. /\ SubSeq(box, i + 1, Len(box)) \in Seq(1 .. MaxValue)
       /\ Waiting(e, SubSeq(box, i + 1, Len(box)))
  <2>1. \A j \in 1 .. Len(q) : q[j].serial \in 1 .. MaxValue
    BY <1>2 DEF Recent
  <2>2. box \in Seq(1 .. MaxValue) /\ Len(box) = Len(q)
    BY <1>1, <2>1, IsASeq
  <2>3. SubSeq(box, i + 1, Len(box)) = [j \in 1 .. Len(q) - i |-> q[i + j].serial]
    <3>1. SubSeq(box, i + 1, Len(box)) = [j \in 1 .. Len(box) - i |-> box[i + j]]
      <4>1. i \in Nat /\ i <= Len(box)
        BY <1>1, <2>2
      <4> QED
        BY <2>2, <4>1
    <3>2. \A j \in 1 .. Len(q) - i : box[i + j] = q[i + j].serial
      BY <1>1, <1>11
    <3> HIDE DEF q
    <3> QED
      BY <2>2, <3>1, <3>2
  <2>4. SubSeq(box, i + 1, Len(box)) \in Seq(1 .. MaxValue)
    BY <1>1, <2>2
  <2> QED
    BY <1>11, <1>12, <2>3, <2>4 DEF Waiting, Serials
<1>17. OnlyToplevels(e, t)
  <2>1. t
    BY <1>1, <1>2 DEF Sound, OnlyToplevels
  <2>2. q[i] # Nothing
    BY <1>1, <1>2 DEF Told
  <2> QED
    BY <1>12, <2>1, <2>2 DEF OnlyToplevels
<1> QED
  BY <1>1, <1>12, <1>14, <1>15, <1>16, <1>17 DEF Sound, e

(* A commit makes current what is current or acknowledged. *)
LEMMA SoundCommit ==
  ASSUME NEW c, NEW k, NEW a, NEW box, NEW t, NEW b, Sound(a, box, t, b, c, k),
         NEW e, e.pending_configures = a.pending_configures,
         e.last_acked = a.last_acked,
         \/ e.current = a.current
         \/ e.current = a.last_acked /\ a.last_acked # Nothing
  PROVE  Sound(e, box, t, b, c, k)
<1>1. Told(e) \subseteq Told(a)
  BY DEF Told
<1>2. Told(a) = {} => Told(e) = {}
  BY <1>1
<1>3. ToldRecently(e, b, c, k)
  BY <1>1 DEF Sound, ToldRecently
<1>4. ToldInOrder(e, c)
  BY DEF Sound, ToldInOrder
<1>5. Waiting(e, box)
  BY DEF Sound, Waiting, Serials
<1>6. OnlyToplevels(e, t)
  BY <1>2 DEF Sound, OnlyToplevels
<1> QED
  BY <1>3, <1>4, <1>5, <1>6 DEF Sound

(* There is only one box with which all is sound. *)
LEMMA BoxSound ==
  ASSUME NEW c, NEW k, NEW a, NEW box, NEW t, NEW b, Sound(a, box, t, b, c, k)
  PROVE  box = Serials(a)
  BY DEF Sound, Waiting

-----------------------------------------------------------------------------
(* The steps. *)

(* A surface without a toplevel waits for nothing. *)
LEMMA NothingPending ==
  ASSUME TypeOK, SurfacesSound, NEW s \in Surfaces, ~ Toplevel(s)
  PROVE  /\ Serials(att[s]) = <<>>
         /\ s \notin stale => inbox[s] = <<>>
<1>1. Told(att[s]) = {} /\ Box(s) = Serials(att[s]) /\ att[s] \in Attributes
  BY BoxSound DEF SurfacesSound, Sound, OnlyToplevels, TypeOK
<1>2. att[s].pending_configures \in Seq(Configure) /\ DOMAIN att[s].pending_configures = {}
  BY <1>1, ToldParts DEF Attributes
<1>3. Serials(att[s]) = <<>>
  BY <1>2 DEF Serials
<1> QED
  BY <1>1, <1>3 DEF Box

(* What a configure changes: its surface's, and the age of everything else. *)
LEMMA ConfigureSent ==
  ASSUME TypeOK, SurfacesSound, NEW s \in Surfaces, NEW x \in Sizes, SendConfigure(s, x)
  PROVE  /\ counter' = Advance(counter) /\ counter' \in 0 .. MaxValue
         /\ taken < MaxTaken /\ taken' = taken + 1 /\ taken' \in 0 .. MaxTaken
         /\ att' \in [Surfaces -> Attributes] /\ inbox' \in [Surfaces -> Seq(1 .. MaxValue)]
         /\ \A t \in Surfaces \ {s} : att'[t] = att[t] /\ inbox'[t] = inbox[t]
         /\ \A t \in Surfaces \ {s} :
              Sound(att[t], Box(t), Toplevel(t), born[t], counter', taken')
         /\ att'[s].pending_configures = Append(att[s].pending_configures,
                                                [serial |-> NextSerial(counter), size |-> x])
         /\ att'[s].last_acked = att[s].last_acked /\ att'[s].current = att[s].current
         /\ inbox'[s] = Append(inbox[s], NextSerial(counter))
<1> DEFINE y == [serial |-> NextSerial(counter), size |-> x]
           e == [att[s] EXCEPT !.pending_configures = Append(@, y),
                               !.initial_configure_sent = TRUE]
<1>1. /\ counter \in 0 .. MaxValue /\ taken \in 0 .. MaxTaken /\ MaxTaken \in Nat
      /\ att \in [Surfaces -> Attributes] /\ inbox \in [Surfaces -> Seq(1 .. MaxValue)]
  BY MaxTakenAssumption DEF TypeOK
<1>2. counter' = Advance(counter) /\ taken < MaxTaken /\ taken' = taken + 1
  BY DEF SendConfigure
<1>3. NextSerial(counter) \in 1 .. MaxValue /\ counter' \in 0 .. MaxValue
  BY <1>1, <1>2, AdvanceValue
<1>4. y \in Configure
  BY <1>3 DEF Configure
<1> HIDE DEF y
<1>5. /\ e \in Attributes /\ e.pending_configures = Append(att[s].pending_configures, y)
      /\ e.last_acked = att[s].last_acked /\ e.current = att[s].current
  <2>1. att[s] \in Attributes
    BY <1>1
  <2>2. Append(att[s].pending_configures, y) \in Seq(Configure)
    BY <1>4, <2>1 DEF Attributes
  <2>3. e = [att[s] EXCEPT !.pending_configures = Append(att[s].pending_configures, y),
                           !.initial_configure_sent = TRUE]
    BY <2>1 DEF Attributes
  <2> QED
    BY <2>1, <2>2, <2>3 DEF Attributes
<1>6. att' = [att EXCEPT ![s] = e]
  BY <1>1 DEF SendConfigure, y
<1> HIDE DEF e
<1>7. att' \in [Surfaces -> Attributes] /\ att'[s] = e /\ \A t \in Surfaces \ {s} : att'[t] = att[t]
  BY <1>1, <1>5, <1>6
<1>8. inbox' = [inbox EXCEPT ![s] = Append(@, NextSerial(counter))]
  BY DEF SendConfigure
<1>9. /\ inbox' \in [Surfaces -> Seq(1 .. MaxValue)]
      /\ inbox'[s] = Append(inbox[s], NextSerial(counter))
      /\ \A t \in Surfaces \ {s} : inbox'[t] = inbox[t]
  BY <1>1, <1>3, <1>8
<1>10. \A t \in Surfaces \ {s} :
         Sound(att[t], Box(t), Toplevel(t), born[t], counter', taken')
  BY <1>1, <1>2, SoundLater DEF SurfacesSound
<1> QED
  BY <1>1, <1>2, <1>3, <1>5, <1>7, <1>9, <1>10 DEF y

(* What the box of the configured surface has become, and that of the others. *)
LEMMA BoxSent ==
  ASSUME TypeOK, SurfacesSound, NEW s \in Surfaces, NEW x \in Sizes, SendConfigure(s, x),
         stale' = stale, NEW t, NEW b, NEW c, NEW k,
         Sound(att'[s], Append(Box(s), NextSerial(counter)), t, b, c, k)
  PROVE  /\ Sound(att'[s], Box(s)', t, b, c, k)
         /\ \A r \in Surfaces \ {s} : Box(r)' = Box(r)
<1>1. /\ inbox'[s] = Append(inbox[s], NextSerial(counter))
      /\ \A r \in Surfaces \ {s} : att'[r] = att[r] /\ inbox'[r] = inbox[r]
  BY ConfigureSent
<1>2. Box(s)' = Append(Box(s), NextSerial(counter))
  <2>1. CASE s \in stale
    <3>1. Box(s)' = Serials(att'[s])
      BY <2>1 DEF Box
    <3> QED
      BY <3>1, BoxSound
  <2>2. CASE s \notin stale
    BY <1>1, <2>2 DEF Box
  <2> QED
    BY <2>1, <2>2
<1> QED
  BY <1>1, <1>2 DEF Box

(* A toplevel is made on a surface that was told nothing, or nothing any more. *)
LEMMA GetToplevelStep ==
  ASSUME TypeOK, SurfacesSound, NEW s \in Surfaces, GetToplevel(s)
  PROVE  TypeOK' /\ SurfacesSound'
<1>1. /\ size \in Sizes /\ SendConfigure(s, size) /\ ~ object[s] /\ stale' = stale
      /\ role' = [role EXCEPT ![s] = "toplevel"] /\ object' = [object EXCEPT ![s] = TRUE]
      /\ born' = [born EXCEPT ![s] = [size |-> size, serial |-> NextSerial(counter)]]
  BY DEF GetToplevel, CanGetRole, NewToplevel, TypeOK
<1>2. NextSerial(counter) \in 1 .. MaxValue
  BY AdvanceValue DEF TypeOK
<1>3. TypeOK'
  <2>1. /\ counter' \in 0 .. MaxValue /\ taken' \in 0 .. MaxTaken
        /\ att' \in [Surfaces -> Attributes] /\ inbox' \in [Surfaces -> Seq(1 .. MaxValue)]
    BY <1>1, ConfigureSent
  <2>2. [size |-> size, serial |-> NextSerial(counter)]
          \in [size : Sizes \cup {0}, serial : 0 .. MaxValue]
    BY <1>1, <1>2
  <2>3. born' \in [Surfaces -> [size : Sizes \cup {0}, serial : 0 .. MaxValue]]
    BY <1>1, <2>2 DEF TypeOK
  <2>4. /\ role' \in [Surfaces -> Roles \cup {"none"}] /\ object' \in [Surfaces -> BOOLEAN]
    BY <1>1 DEF TypeOK, Roles
  <2>5. /\ phase' \in [Surfaces -> Phases] /\ ready' \in [Surfaces -> BOOLEAN]
        /\ UNCHANGED <<size, drawn, stale, refused>>
    BY DEF GetToplevel, TypeOK, Phases
  <2> QED
    BY <2>1, <2>3, <2>4, <2>5 DEF TypeOK
<1>4. /\ Sound(att'[s], Box(s)', Toplevel(s)', born'[s], counter', taken')
      /\ \A t \in Surfaces \ {s} : Box(t)' = Box(t)
  <2>1. /\ Sound(att[s], Box(s), FALSE, born[s], counter, taken)
        /\ counter \in 0 .. MaxValue /\ taken \in Nat /\ att[s] \in Attributes
    <3>1. Toplevel(s) = FALSE
      BY <1>1 DEF Toplevel
    <3>2. taken \in Nat
      BY MaxTakenAssumption DEF TypeOK
    <3> QED
      BY <3>1, <3>2 DEF TypeOK, SurfacesSound
  <2>2. born'[s].size = size /\ born'[s].serial = NextSerial(counter)
    BY <1>1 DEF TypeOK
  <2>3. Toplevel(s)' = TRUE
    BY <1>1 DEF Toplevel, TypeOK
  <2>4. /\ counter' = Advance(counter) /\ taken < MaxTaken /\ taken' = taken + 1
        /\ att'[s].pending_configures = Append(att[s].pending_configures,
                                               [serial |-> NextSerial(counter), size |-> size])
        /\ att'[s].last_acked = att[s].last_acked /\ att'[s].current = att[s].current
        /\ att'[s] \in Attributes
    BY <1>1, ConfigureSent
  <2>5. Sound(att'[s], Append(Box(s), NextSerial(counter)), TRUE, born'[s],
              Advance(counter), taken + 1)
    BY <1>1, <2>1, <2>2, <2>4, SoundSend
  <2> QED
    BY <1>1, <2>3, <2>4, <2>5, BoxSent
<1>5. \A t \in Surfaces \ {s} :
        Sound(att'[t], Box(t)', Toplevel(t)', born'[t], counter', taken')
  <2> SUFFICES ASSUME NEW t \in Surfaces \ {s}
               PROVE  Sound(att'[t], Box(t)', Toplevel(t)', born'[t], counter', taken')
    OBVIOUS
  <2>1. Toplevel(t)' = Toplevel(t) /\ born'[t] = born[t]
    BY <1>1 DEF Toplevel, TypeOK
  <2>2. /\ att'[t] = att[t] /\ Box(t)' = Box(t)
        /\ Sound(att[t], Box(t), Toplevel(t), born[t], counter', taken')
    BY <1>1, <1>4, ConfigureSent
  <2> QED
    BY <2>1, <2>2
<1> QED
  BY <1>3, <1>4, <1>5 DEF SurfacesSound

(* What was last told to a toplevel is what it was told first. *)
LEMMA SizeAccumulates ==
  ASSUME NEW a \in Attributes, NEW box, NEW b, NEW c, NEW k, Sound(a, box, TRUE, b, c, k)
  PROVE  CurrentServerState(a) = b.size /\ b.size \in Sizes
<1>1. \A x \in Told(a) : x.size = b.size /\ x.size \in Sizes
  BY ToldParts DEF Sound, ToldRecently, Configure
<1>2. CASE a.pending_configures # <<>>
  <2>1. a.pending_configures \in Seq(Configure) /\ Len(a.pending_configures) \in Nat
    BY DEF Attributes
  <2>2. Len(a.pending_configures) \in DOMAIN a.pending_configures
    BY <1>2, <2>1
  <2>3. a.pending_configures[Len(a.pending_configures)] \in Told(a)
    BY <2>2, ToldParts
  <2> QED
    BY <1>1, <1>2, <2>3 DEF CurrentServerState, Last
<1>3. CASE a.pending_configures = <<>>
  <2>1. a.last_acked # Nothing
    BY <1>3 DEF Sound, OnlyToplevels
  <2>2. a.last_acked \in Told(a)
    BY <2>1, ToldParts
  <2> QED
    BY <1>1, <1>3, <2>1, <2>2 DEF CurrentServerState
<1> QED
  BY <1>2, <1>3

(* A request to be maximized is answered with one more configure. *)
LEMMA MaximizeStep ==
  ASSUME TypeOK, SurfacesSound, NEW s \in Surfaces, MaximizeRequest(s)
  PROVE  TypeOK' /\ SurfacesSound'
<1>1. /\ Toplevel(s) = TRUE /\ SendConfigure(s, CurrentServerState(att[s]))
      /\ UNCHANGED <<size, role, object, drawn, phase, ready, stale, refused, born>>
  BY DEF MaximizeRequest, Toplevel, TypeOK
<1>2. /\ Sound(att[s], Box(s), TRUE, born[s], counter, taken) /\ att[s] \in Attributes
      /\ counter \in 0 .. MaxValue /\ taken \in Nat
  <2>1. Sound(att[s], Box(s), TRUE, born[s], counter, taken)
    BY <1>1 DEF SurfacesSound
  <2>2. taken \in Nat
    BY MaxTakenAssumption DEF TypeOK
  <2> QED
    BY <2>1, <2>2 DEF TypeOK
<1>3. CurrentServerState(att[s]) = born[s].size /\ born[s].size \in Sizes
  BY <1>2, SizeAccumulates
<1>4. SendConfigure(s, born[s].size)
  BY <1>1, <1>3
<1>5. TypeOK'
  BY <1>1, <1>3, <1>4, ConfigureSent DEF TypeOK
<1>6. /\ Sound(att'[s], Box(s)', TRUE, born[s], counter', taken')
      /\ \A t \in Surfaces \ {s} : Box(t)' = Box(t)
  <2>1. /\ counter' = Advance(counter) /\ taken < MaxTaken /\ taken' = taken + 1
        /\ att'[s].pending_configures =
             Append(att[s].pending_configures,
                    [serial |-> NextSerial(counter), size |-> born[s].size])
        /\ att'[s].last_acked = att[s].last_acked /\ att'[s].current = att[s].current
        /\ att'[s] \in Attributes
    BY <1>3, <1>4, ConfigureSent
  <2>2. Sound(att'[s], Append(Box(s), NextSerial(counter)), TRUE, born[s],
              Advance(counter), taken + 1)
    BY <1>2, <1>3, <2>1, SoundSend
  <2> QED
    BY <1>1, <1>3, <1>4, <2>1, <2>2, BoxSent
<1>7. \A t \in Surfaces \ {s} :
        Sound(att'[t], Box(t)', Toplevel(t), born[t], counter', taken')
  BY <1>3, <1>4, <1>6, ConfigureSent
<1>8. \A t \in Surfaces : Toplevel(t)' = Toplevel(t) /\ born'[t] = born[t]
  BY <1>1 DEF Toplevel
<1> QED
  BY <1>1, <1>5, <1>6, <1>7, <1>8 DEF SurfacesSound

(* A step that sends nothing and is about one surface. *)
LEMMA OneSurface ==
  ASSUME SurfacesSound, NEW s \in Surfaces, counter' = counter, taken' = taken,
         \A t \in Surfaces \ {s} : /\ att'[t] = att[t] /\ inbox'[t] = inbox[t]
                                   /\ role'[t] = role[t] /\ object'[t] = object[t]
                                   /\ born'[t] = born[t]
                                   /\ (t \in stale' <=> t \in stale),
         Sound(att'[s], Box(s)', Toplevel(s)', born'[s], counter, taken)
  PROVE  SurfacesSound'
<1>1. \A t \in Surfaces \ {s} : Toplevel(t)' = Toplevel(t) /\ Box(t)' = Box(t)
  BY DEF Toplevel, Box
<1>2. \A t \in Surfaces \ {s} :
        Sound(att'[t], Box(t)', Toplevel(t)', born'[t], counter', taken')
  BY <1>1 DEF SurfacesSound
<1> QED
  BY <1>2 DEF SurfacesSound

(* A popup is told nothing. *)
LEMMA GetPopupStep ==
  ASSUME TypeOK, SurfacesSound, NEW s \in Surfaces, GetPopup(s)
  PROVE  TypeOK' /\ SurfacesSound'
<1>1. /\ UNCHANGED <<size, counter, taken, drawn, inbox, stale, refused, born>> /\ ~ object[s]
      /\ role' = [role EXCEPT ![s] = "popup"] /\ object' = [object EXCEPT ![s] = TRUE]
      /\ att' = [att EXCEPT ![s] = DefaultAttributes]
      /\ phase' = [phase EXCEPT ![s] = "new"] /\ ready' = [ready EXCEPT ![s] = FALSE]
  BY DEF GetPopup, CanGetRole
<1>2. TypeOK'
  BY <1>1, DefaultSound DEF TypeOK, Roles, Phases
\* The surface's last object took its configures with it.
<1>3. s \notin stale => inbox[s] = <<>>
  BY <1>1, NothingPending DEF Toplevel
<1>4. Toplevel(s)' = FALSE
  BY <1>1 DEF Toplevel, TypeOK
<1>5. Sound(att'[s], Box(s)', Toplevel(s)', born'[s], counter, taken)
  <2>1. att'[s] = DefaultAttributes /\ (s \notin stale' => inbox'[s] = <<>>)
    BY <1>1, <1>3 DEF TypeOK
  <2>2. Sound(DefaultAttributes, <<>>, FALSE, born'[s], counter, taken)
    BY DefaultSound
  <2>3. Box(s)' = <<>>
    BY <2>1, <2>2, BoxSound DEF Box
  <2> QED
    BY <1>4, <2>1, <2>2, <2>3
<1> QED
  BY <1>1, <1>2, <1>5, OneSurface DEF TypeOK

(* What lies behind a position is of the same kind. *)
LEMMA SuffixType ==
  ASSUME NEW S, NEW q \in Seq(S), NEW i \in DOMAIN q
  PROVE  SubSeq(q, i + 1, Len(q)) \in Seq(S)
<1>1. i \in 1 .. Len(q) /\ Len(q) \in Nat
  OBVIOUS
<1>2. i + 1 \in Int /\ Len(q) \in Int
  BY <1>1
<1>3. \A j \in i + 1 .. Len(q) : q[j] \in S
  BY <1>1
<1> QED
  BY <1>2, <1>3, SubSeqProperties

(* An acknowledgement finds its configure and takes the older ones along, or is
   of an object that is gone, and was in the inbox since. *)
LEMMA AckStep ==
  ASSUME TypeOK, SurfacesSound, refused \subseteq stale, NEW s \in Surfaces, Ack(s)
  PROVE  TypeOK' /\ SurfacesSound' /\ (refused \subseteq stale)'
<1>1. PICK i \in DOMAIN inbox[s] :
        /\ inbox' = [inbox EXCEPT ![s] = SubSeq(@, i + 1, Len(@))]
        /\ ready' = [ready EXCEPT ![s] = TRUE]
        /\ IF \E j \in DOMAIN att[s].pending_configures :
                att[s].pending_configures[j].serial = inbox[s][i]
           THEN /\ att' = [att EXCEPT ![s] = AckConfigure(@, inbox[s][i])]
                /\ UNCHANGED refused
           ELSE refused' = refused \cup {s} /\ UNCHANGED att
        /\ UNCHANGED <<size, counter, taken, role, object, drawn, phase, stale, born>>
  BY DEF Ack
<1>2. /\ Sound(att[s], Box(s), Toplevel(s), born[s], counter, taken)
      /\ att[s] \in Attributes /\ counter \in 0 .. MaxValue /\ taken \in 0 .. MaxTaken
      /\ inbox[s] \in Seq(1 .. MaxValue)
  BY DEF SurfacesSound, TypeOK
<1> DEFINE n == inbox[s][i]
           found == \E j \in DOMAIN att[s].pending_configures :
                      att[s].pending_configures[j].serial = n
<1>3. SubSeq(inbox[s], i + 1, Len(inbox[s])) \in Seq(1 .. MaxValue)
  BY <1>2, SuffixType
<1>4. inbox' \in [Surfaces -> Seq(1 .. MaxValue)]
  BY <1>1, <1>3 DEF TypeOK
<1>5. inbox'[s] = SubSeq(inbox[s], i + 1, Len(inbox[s]))
  BY <1>1 DEF TypeOK
\* The position of the serial in what is pending is that in the box.
<1>6. ASSUME found
      PROVE  /\ AckConfigure(att[s], n) \in Attributes
             /\ \E box : Sound(AckConfigure(att[s], n), box, Toplevel(s), born[s], counter, taken)
             /\ s \notin stale =>
                  Sound(AckConfigure(att[s], n), inbox'[s], Toplevel(s), born[s], counter, taken)
  <2>1. PICK j \in DOMAIN att[s].pending_configures : att[s].pending_configures[j].serial = n
    BY <1>6
  <2>2. Box(s) = Serials(att[s]) /\ j \in DOMAIN Box(s) /\ Box(s)[j] = n
    BY <1>2, <2>1, BoxSound DEF Serials
  <2>3. /\ AckConfigure(att[s], n) \in Attributes
        /\ Sound(AckConfigure(att[s], n), SubSeq(Box(s), j + 1, Len(Box(s))),
                 Toplevel(s), born[s], counter, taken)
    BY <1>2, <2>2, SoundAck
  <2>4. CASE s \notin stale
    <3>1. Box(s) = inbox[s] /\ i \in DOMAIN Box(s) /\ Box(s)[i] = n
      BY <2>4 DEF Box
    <3>2. Sound(AckConfigure(att[s], n), SubSeq(Box(s), i + 1, Len(Box(s))),
                Toplevel(s), born[s], counter, taken)
      BY <1>2, <3>1, SoundAck
    <3> QED
      BY <1>5, <2>3, <3>1, <3>2
  <2> QED
    BY <2>3, <2>4
\* Without stale configures it is always found.
<1>7. ASSUME ~ found PROVE s \in stale
  <2> SUFFICES ASSUME s \notin stale PROVE FALSE
    OBVIOUS
  <2>1. Box(s) = inbox[s]
    BY DEF Box
  <2>2. i \in DOMAIN Box(s) /\ Box(s)[i] = n
    BY <2>1
  <2>3. \E j \in DOMAIN att[s].pending_configures :
          att[s].pending_configures[j].serial = Box(s)[i]
    BY <1>2, <2>2, SoundAck
  <2> QED
    BY <1>7, <2>2, <2>3
<1>8. CASE found
  <2>1. att' = [att EXCEPT ![s] = AckConfigure(att[s], n)] /\ refused' = refused /\ stale' = stale
    BY <1>1, <1>8
  <2>2. att'[s] = AckConfigure(att[s], n) /\ att' \in [Surfaces -> Attributes]
    BY <1>6, <1>8, <2>1 DEF TypeOK
  <2>3. TypeOK'
    BY <1>1, <1>4, <2>1, <2>2 DEF TypeOK
  <2>4. Sound(att'[s], Box(s)', Toplevel(s), born[s], counter, taken)
    <3>1. CASE s \in stale
      <4>1. PICK box : Sound(att'[s], box, Toplevel(s), born[s], counter, taken)
        BY <1>6, <1>8, <2>2
      <4>2. Box(s)' = box
        BY <2>1, <3>1, <4>1, BoxSound DEF Box
      <4> QED
        BY <4>1, <4>2
    <3>2. CASE s \notin stale
      BY <1>6, <1>8, <2>1, <2>2, <3>2 DEF Box
    <3> QED
      BY <3>1, <3>2
  <2>5. Toplevel(s)' = Toplevel(s) /\ born' = born
    BY <1>1 DEF Toplevel
  <2>6. Sound(att'[s], Box(s)', Toplevel(s)', born'[s], counter, taken)
    BY <2>4, <2>5
  <2>7. \A t \in Surfaces \ {s} : /\ att'[t] = att[t] /\ inbox'[t] = inbox[t]
                                  /\ role'[t] = role[t] /\ object'[t] = object[t]
                                  /\ born'[t] = born[t] /\ (t \in stale' <=> t \in stale)
    BY <1>1, <2>1 DEF TypeOK
  <2>8. SurfacesSound'
    BY <1>1, <2>6, <2>7, OneSurface
  <2> QED
    BY <2>1, <2>3, <2>8
<1>9. CASE ~ found
  <2>1. /\ s \in stale /\ refused' = refused \cup {s}
        /\ UNCHANGED <<att, stale, counter, taken, role, object, born>>
    BY <1>1, <1>7, <1>9
  <2>2. TypeOK' /\ (refused \subseteq stale)'
    BY <1>1, <1>4, <2>1 DEF TypeOK
  <2>3. \A t \in Surfaces : Box(t)' = Box(t) /\ Toplevel(t)' = Toplevel(t)
    BY <1>1, <2>1 DEF Box, Toplevel, TypeOK
  <2>4. SurfacesSound'
    BY <2>1, <2>3 DEF SurfacesSound
  <2> QED
    BY <2>2, <2>4
<1> QED
  BY <1>8, <1>9

(* The commit hook makes current what was acknowledged, and no more. *)
LEMMA HookType ==
  ASSUME TypeOK, NEW s \in Surfaces
  PROVE  /\ CommitHook(s) \in Attributes
         /\ CommitHook(s).pending_configures = att[s].pending_configures
         /\ CommitHook(s).last_acked = att[s].last_acked
         /\ \/ CommitHook(s).current = att[s].current
            \/ CommitHook(s).current = att[s].last_acked /\ att[s].last_acked # Nothing
<1> DEFINE a == att[s]
           told == a.initial_configure_sent /\ ~ (a.has_buffer /\ drawn[s] = "no")
           buffer == IF drawn[s] = "unknown" THEN a.has_buffer ELSE drawn[s] = "yes"
           shown == IF a.last_acked # Nothing /\ (role[s] = "toplevel" \/ told)
                    THEN a.last_acked ELSE a.current
<1>1. a \in Attributes
  BY DEF TypeOK
<1>2. told \in BOOLEAN /\ buffer \in BOOLEAN
  BY <1>1 DEF Attributes
<1>3. /\ shown \in Configure \cup {Nothing}
      /\ shown = a.current \/ (shown = a.last_acked /\ a.last_acked # Nothing)
  BY <1>1 DEF Attributes
<1>4. CommitHook(s) = [a EXCEPT !.initial_configure_sent = told,
                                !.has_buffer = buffer, !.current = shown]
  BY <1>1 DEF CommitHook, Attributes
<1> HIDE DEF a, told, buffer, shown
<1>5. /\ CommitHook(s) \in Attributes
      /\ CommitHook(s).pending_configures = a.pending_configures
      /\ CommitHook(s).last_acked = a.last_acked /\ CommitHook(s).current = shown
  BY <1>1, <1>2, <1>3, <1>4 DEF Attributes
<1> QED
  BY <1>3, <1>5 DEF a

(* Every kind of commit runs the hook. *)
LEMMA CommitStep ==
  ASSUME TypeOK, SurfacesSound, NEW s \in Surfaces, NEW buffer \in {"no", "yes"},
         Commit(s, buffer), phase' \in [Surfaces -> Phases],
         ready' \in [Surfaces -> BOOLEAN]
  PROVE  TypeOK' /\ SurfacesSound' /\ UNCHANGED <<refused, stale>>
<1> DEFINE e == IF role[s] = "none" THEN att[s] ELSE CommitHook(s)
<1>1. /\ att' = [att EXCEPT ![s] = e] /\ drawn' = [drawn EXCEPT ![s] = buffer]
      /\ UNCHANGED <<size, counter, taken, role, object, inbox, stale, refused, born>>
  BY DEF Commit
<1>2. e \in Attributes
  BY HookType DEF TypeOK
<1> HIDE DEF e
<1>3. TypeOK'
  BY <1>1, <1>2 DEF TypeOK
<1>4. Sound(e, Box(s), Toplevel(s), born[s], counter, taken)
  <2>1. Sound(att[s], Box(s), Toplevel(s), born[s], counter, taken)
    BY DEF SurfacesSound
  <2>2. /\ e.pending_configures = att[s].pending_configures
        /\ e.last_acked = att[s].last_acked
        /\ e.current = att[s].current \/ (e.current = att[s].last_acked /\ att[s].last_acked # Nothing)
    BY HookType DEF e
  <2> QED
    BY <2>1, <2>2, SoundCommit
<1>5. Sound(att'[s], Box(s)', Toplevel(s)', born'[s], counter, taken)
  <2>1. Toplevel(s)' = Toplevel(s) /\ att'[s] = e
    BY <1>1 DEF Toplevel, TypeOK
  <2>2. Box(s)' = Box(s)
    <3>1. CASE s \in stale
      BY <1>1, <1>4, <2>1, <3>1, BoxSound DEF Box
    <3>2. CASE s \notin stale
      BY <1>1, <3>2 DEF Box
    <3> QED
      BY <3>1, <3>2
  <2> QED
    BY <1>1, <1>4, <2>1, <2>2
<1> QED
  BY <1>1, <1>3, <1>5, OneSurface DEF TypeOK

(* With its role object a surface loses all it was told; what stays in the inbox
   is of no use. *)
LEMMA DestroyStep ==
  ASSUME TypeOK, SurfacesSound, refused \subseteq stale, NEW s \in Surfaces,
         NEW kept \in BOOLEAN, DestroyRole(s, kept)
  PROVE  TypeOK' /\ SurfacesSound' /\ (refused \subseteq stale)'
<1>1. /\ object' = [object EXCEPT ![s] = FALSE]
      /\ att' = [att EXCEPT ![s] = DefaultAttributes]
      /\ inbox' = [inbox EXCEPT ![s] = IF kept THEN inbox[s] ELSE <<>>]
      /\ stale' = IF kept /\ inbox[s] # <<>> THEN stale \cup {s} ELSE stale \ {s}
      /\ phase' = [phase EXCEPT ![s] = "none"]
      /\ UNCHANGED <<size, counter, taken, role, drawn, ready, refused, born>>
      /\ s \notin refused
  BY DEF DestroyRole, Destroyed, Connected
<1>2. TypeOK'
  <2>1. DefaultAttributes \in Attributes
    BY DefaultSound
  <2>2. <<>> \in Seq(1 .. MaxValue) /\ inbox[s] \in Seq(1 .. MaxValue)
    BY DEF TypeOK
  <2>3. att' \in [Surfaces -> Attributes] /\ inbox' \in [Surfaces -> Seq(1 .. MaxValue)]
    BY <1>1, <2>1, <2>2 DEF TypeOK
  <2>4. /\ object' \in [Surfaces -> BOOLEAN] /\ phase' \in [Surfaces -> Phases]
        /\ stale' \subseteq Surfaces
    BY <1>1 DEF TypeOK, Phases
  <2> QED
    BY <1>1, <2>3, <2>4 DEF TypeOK
<1>3. /\ att'[s] = DefaultAttributes /\ Toplevel(s)' = FALSE
      /\ s \notin stale' => inbox'[s] = <<>>
  BY <1>1 DEF TypeOK, Toplevel
<1>4. Sound(DefaultAttributes, <<>>, FALSE, born'[s], counter, taken)
  BY DefaultSound
<1>5. Box(s)' = <<>>
  BY <1>3, <1>4, BoxSound DEF Box
<1>6. Sound(att'[s], Box(s)', Toplevel(s)', born'[s], counter, taken)
  BY <1>3, <1>4, <1>5
<1>7. \A t \in Surfaces \ {s} : /\ att'[t] = att[t] /\ inbox'[t] = inbox[t]
                                /\ role'[t] = role[t] /\ object'[t] = object[t]
                                /\ born'[t] = born[t] /\ (t \in stale' <=> t \in stale)
  BY <1>1 DEF TypeOK
<1>8. SurfacesSound'
  BY <1>1, <1>6, <1>7, OneSurface
<1> QED
  BY <1>1, <1>2, <1>8

(* A surface without an object forgets what it was not going to acknowledge. *)
LEMMA DiscardStep ==
  ASSUME TypeOK, SurfacesSound, refused \subseteq stale, NEW s \in Surfaces, Discard(s)
  PROVE  TypeOK' /\ SurfacesSound' /\ (refused \subseteq stale)'
<1>1. /\ s \notin refused /\ ~ object[s]
      /\ inbox' = [inbox EXCEPT ![s] = <<>>] /\ stale' = stale \ {s}
      /\ UNCHANGED <<size, counter, taken, role, object, att, drawn, phase, ready,
                     refused, born>>
  BY DEF Discard, Connected
<1>2. TypeOK'
  <2>1. <<>> \in Seq(1 .. MaxValue)
    OBVIOUS
  <2> QED
    BY <1>1, <2>1 DEF TypeOK
<1>3. Serials(att[s]) = <<>>
  BY <1>1, NothingPending DEF Toplevel
<1>4. Box(s) = Serials(att[s])
  BY BoxSound DEF SurfacesSound
<1>5. Box(s)' = Box(s)
  BY <1>1, <1>3, <1>4 DEF Box, TypeOK
<1>6. Sound(att'[s], Box(s)', Toplevel(s)', born'[s], counter, taken)
  <2>1. Sound(att[s], Box(s), Toplevel(s), born[s], counter, taken)
    BY DEF SurfacesSound
  <2>2. Toplevel(s)' = Toplevel(s)
    BY <1>1 DEF Toplevel
  <2> QED
    BY <1>1, <1>5, <2>1, <2>2
<1>7. \A t \in Surfaces \ {s} : /\ att'[t] = att[t] /\ inbox'[t] = inbox[t]
                                /\ role'[t] = role[t] /\ object'[t] = object[t]
                                /\ born'[t] = born[t] /\ (t \in stale' <=> t \in stale)
  BY <1>1 DEF TypeOK
<1>8. SurfacesSound'
  BY <1>1, <1>6, <1>7, OneSurface
<1> QED
  BY <1>1, <1>2, <1>8

(* Input makes every serial a step older. *)
LEMMA TakeSerialStep ==
  ASSUME TypeOK, SurfacesSound, TakeSerial
  PROVE  TypeOK' /\ SurfacesSound'
<1>1. /\ taken < MaxTaken /\ taken' = taken + 1 /\ counter' = Advance(counter)
      /\ UNCHANGED <<size, role, object, att, drawn, inbox, phase, ready, stale,
                     refused, born>>
  BY DEF TakeSerial
<1>2. /\ counter \in 0 .. MaxValue /\ taken \in Nat /\ MaxTaken \in Nat
      /\ \A t \in Surfaces : att[t] \in Attributes
  BY MaxTakenAssumption DEF TypeOK
<1>3. counter' \in 0 .. MaxValue
  BY <1>1, <1>2, AdvanceValue
<1>4. TypeOK'
  BY <1>1, <1>2, <1>3 DEF TypeOK
<1>5. \A t \in Surfaces :
        Sound(att[t], Box(t), Toplevel(t), born[t], Advance(counter), taken + 1)
  BY <1>1, <1>2, SoundLater DEF SurfacesSound
<1>6. \A t \in Surfaces : Box(t)' = Box(t) /\ Toplevel(t)' = Toplevel(t)
  BY <1>1 DEF Box, Toplevel
<1> QED
  BY <1>1, <1>4, <1>5, <1>6 DEF SurfacesSound

(* No surface has a role yet. *)
LEMMA InitXdg == Init => XdgInv
<1> SUFFICES ASSUME Init PROVE XdgInv
  OBVIOUS
<1>1. TypeOK
  <2>1. DefaultAttributes \in Attributes
    BY DefaultSound
  <2>2. /\ att \in [Surfaces -> Attributes] /\ inbox \in [Surfaces -> Seq(1 .. MaxValue)]
        /\ born \in [Surfaces -> [size : Sizes \cup {0}, serial : 0 .. MaxValue]]
    BY <2>1, MaxValueAssumption DEF Init
  <2>3. /\ size \in Sizes /\ counter \in 0 .. MaxValue /\ taken \in 0 .. MaxTaken
    BY StartAssumption, MaxTakenAssumption DEF Init
  <2> QED
    BY <2>2, <2>3 DEF Init, TypeOK, Roles, Phases
<1>2. \A s \in Surfaces : Sound(att[s], Box(s), Toplevel(s), born[s], counter, taken)
  <2> SUFFICES ASSUME NEW s \in Surfaces
               PROVE  Sound(att[s], Box(s), Toplevel(s), born[s], counter, taken)
    OBVIOUS
  <2>1. att[s] = DefaultAttributes /\ Box(s) = <<>> /\ Toplevel(s) = FALSE
    BY DEF Init, Toplevel, Box
  <2>2. Sound(DefaultAttributes, <<>>, FALSE, born[s], counter, taken)
    BY DefaultSound
  <2> QED
    BY <2>1, <2>2
<1> QED
  BY <1>1, <1>2 DEF Init, XdgInv, SurfacesSound

(* All requests of the clients and all steps of the app. *)
LEMMA XdgStep == XdgInv /\ [Next]_vars => XdgInv'
<1> SUFFICES ASSUME TypeOK, SurfacesSound, refused \subseteq stale, [Next]_vars
             PROVE  TypeOK' /\ SurfacesSound' /\ (refused \subseteq stale)'
  BY DEF XdgInv
<1>1. ASSUME NEW s \in Surfaces, GetToplevel(s) \/ GetPopup(s) \/ MaximizeRequest(s)
      PROVE  TypeOK' /\ SurfacesSound' /\ (refused \subseteq stale)'
  BY <1>1, GetToplevelStep, GetPopupStep, MaximizeStep
  DEF GetToplevel, GetPopup, MaximizeRequest
<1>2. ASSUME NEW s \in Surfaces, CommitInitial(s) \/ CommitBuffer(s) \/ CommitNoBuffer(s)
      PROVE  TypeOK' /\ SurfacesSound' /\ (refused \subseteq stale)'
  <2>1. /\ Commit(s, "no") \/ Commit(s, "yes")
        /\ phase' \in [Surfaces -> Phases] /\ ready' \in [Surfaces -> BOOLEAN]
    BY <1>2 DEF CommitInitial, CommitBuffer, CommitNoBuffer, TypeOK, Phases
  <2> QED
    BY <2>1, CommitStep
<1>3. ASSUME NEW x \in Sizes, Resumed(x)
      PROVE  TypeOK' /\ SurfacesSound' /\ (refused \subseteq stale)'
  BY <1>3 DEF Resumed, TypeOK, SurfacesSound, Toplevel, Box
<1>4. CASE UNCHANGED vars
  BY <1>4 DEF vars, TypeOK, SurfacesSound, Toplevel, Box
<1>5. CASE TakeSerial
  BY <1>5, TakeSerialStep DEF TakeSerial
<1> QED
  BY <1>1, <1>2, <1>3, <1>4, <1>5, AckStep, DestroyStep, DiscardStep DEF Next

-----------------------------------------------------------------------------
(* The theorems. *)

(* Windows of the clients: the inductive invariant of XdgShell holds in every
   reachable state. *)
THEOREM XdgInvariance == Spec => []XdgInv
  BY InitXdg, XdgStep, PTL DEF Spec

(* The role attributes, the clients' queues and the counter keep their types; a
   serial that is 0 is never sent. *)
THEOREM XdgTyped == Spec => []TypeOK
<1>1. XdgInv => TypeOK
  BY DEF XdgInv
<1> QED
  BY XdgInvariance, <1>1, PTL

(* No client that acknowledges in order, and none of a role object it destroyed,
   is ever refused, for the server waits for exactly the configures the client
   has still to come to. *)
THEOREM AcksTaken == Spec => []AcksAccepted
<1>1. XdgInv => AcksAccepted
  BY DEF XdgInv, SurfacesSound, Sound, Waiting, Serials, Box, AcksAccepted
<1> QED
  BY XdgInvariance, <1>1, PTL

(* Current, acknowledged and pending configures keep the order in which they
   were taken, from every start of the counter and over its wrap-around. *)
THEOREM ConfiguresInOrder == Spec => []ConfiguresOrdered
<1>1. XdgInv => ConfiguresOrdered
  <2> SUFFICES ASSUME XdgInv, NEW s \in Surfaces
               PROVE  LET a == att[s]
                          known == <<a.current, a.last_acked>> \o a.pending_configures
                      IN \A i, j \in DOMAIN known :
                           i < j /\ known[i] # Nothing =>
                             \/ Older(known[i].serial, known[j].serial)
                             \/ j = 2 /\ known[i] = known[j]
    BY DEF ConfiguresOrdered
  <2> DEFINE a == att[s]
             q == a.pending_configures
             two == <<a.current, a.last_acked>>
             known == two \o q
  <2>1. /\ a \in Attributes /\ counter \in 0 .. MaxValue /\ taken \in 0 .. Far - 2
        /\ Sound(a, Box(s), Toplevel(s), born[s], counter, taken)
    BY MaxTakenAssumption, MaxValueOdd DEF XdgInv, TypeOK, SurfacesSound
  <2>2. \A x, y \in Told(a) : Age(x.serial, counter) > Age(y.serial, counter)
                              => Older(x.serial, y.serial)
    BY <2>1, OlderIsAge DEF Sound, ToldRecently
  <2>3. /\ two \in Seq(Configure \cup {Nothing}) /\ Len(two) = 2
        /\ two[1] = a.current /\ two[2] = a.last_acked
        /\ q \in Seq(Configure) /\ q \in Seq(Configure \cup {Nothing})
        /\ Len(q) \in Nat /\ DOMAIN q = 1 .. Len(q)
    BY <2>1 DEF Attributes
  <2>4. /\ \A x \in Told(a) : Age(x.serial, counter) \in Nat
        /\ \A i \in 1 .. Len(q) : q[i] \in Told(a)
        /\ a.current # Nothing => a.current \in Told(a)
        /\ a.last_acked # Nothing => a.last_acked \in Told(a)
    <3>1. \A x \in Told(a) : Recent(x.serial, counter, taken)
      BY <2>1 DEF Sound, ToldRecently
    <3>2. \A x \in Told(a) : Age(x.serial, counter) \in 1 .. MaxValue
      BY <2>1, <3>1, AgeType DEF Recent
    <3> HIDE DEF a
    <3> QED
      BY <2>1, <2>3, <3>2, ToldParts, MaxValueAssumption
  <2>5. ToldInOrder(a, counter)
    BY <2>1 DEF Sound
  <2> HIDE DEF a, two
  <2>6. /\ DOMAIN known = 1 .. 2 + Len(q)
        /\ known[1] = a.current /\ known[2] = a.last_acked
        /\ \A i \in 3 .. 2 + Len(q) : known[i] = q[i - 2] /\ i - 2 \in 1 .. Len(q)
    <3> HIDE DEF q
    <3>1. /\ Len(two \o q) = 2 + Len(q) /\ DOMAIN (two \o q) = 1 .. 2 + Len(q)
          /\ \A i \in 1 .. 2 + Len(q) : (two \o q)[i] = IF i <= 2 THEN two[i] ELSE q[i - 2]
      <4>1. PICK S : two \in Seq(S) /\ q \in Seq(S)
        BY <2>3
      <4>2. /\ Len(two \o q) = Len(two) + Len(q)
            /\ \A i \in 1 .. Len(two) + Len(q) :
                 (two \o q)[i] = IF i <= Len(two) THEN two[i] ELSE q[i - Len(two)]
        BY <4>1, ConcatProperties
      <4>3. DOMAIN (two \o q) = 1 .. Len(two \o q)
        BY <4>1
      <4> QED
        BY <2>3, <4>2, <4>3
    <3>2. \A i \in 3 .. 2 + Len(q) : i - 2 \in 1 .. Len(q)
      BY <2>3
    <3> QED
      BY <2>3, <3>1, <3>2
  <2> HIDE DEF known, q
  <2>7. ASSUME NEW i \in DOMAIN known, NEW j \in DOMAIN known, i < j, known[i] # Nothing
        PROVE  \/ Older(known[i].serial, known[j].serial)
               \/ j = 2 /\ known[i] = known[j]
    <3>1. CASE i = 1 /\ j = 2
      BY <2>2, <2>4, <2>5, <2>6, <2>7, <3>1 DEF ToldInOrder, q
    <3>2. CASE i = 1 /\ j > 2
      <4>1. j \in 3 .. 2 + Len(q) /\ a.current # Nothing /\ a.last_acked # Nothing
        BY <2>3, <2>5, <2>6, <2>7, <3>2 DEF ToldInOrder
      <4>2. /\ known[j] = q[j - 2] /\ j - 2 \in 1 .. Len(q)
            /\ Age(a.last_acked.serial, counter) > Age(q[j - 2].serial, counter)
        BY <2>3, <2>5, <2>6, <4>1 DEF ToldInOrder, q
      <4>3. Age(a.current.serial, counter) > Age(q[j - 2].serial, counter)
        BY <2>4, <2>5, <4>1, <4>2 DEF ToldInOrder
      <4> QED
        BY <2>2, <2>4, <2>6, <3>2, <4>1, <4>2, <4>3
    <3>3. CASE i = 2
      <4>1. j \in 3 .. 2 + Len(q) /\ a.last_acked # Nothing
        BY <2>3, <2>6, <2>7, <3>3
      <4>2. /\ known[j] = q[j - 2] /\ j - 2 \in 1 .. Len(q)
            /\ Age(a.last_acked.serial, counter) > Age(q[j - 2].serial, counter)
        BY <2>3, <2>5, <2>6, <4>1 DEF ToldInOrder, q
      <4> QED
        BY <2>2, <2>4, <2>6, <3>3, <4>1, <4>2
    <3>4. CASE i > 2
      <4>1. i \in 3 .. 2 + Len(q) /\ j \in 3 .. 2 + Len(q)
        BY <2>3, <2>6, <2>7, <3>4
      <4>2. i - 2 \in 1 .. Len(q) /\ j - 2 \in 1 .. Len(q) /\ i - 2 < j - 2
        BY <2>6, <2>7, <4>1
      <4>3. Age(q[i - 2].serial, counter) > Age(q[j - 2].serial, counter)
        BY <2>3, <2>5, <4>2 DEF ToldInOrder, q
      <4> QED
        BY <2>2, <2>4, <2>6, <4>1, <4>2, <4>3
    <3> QED
      BY <2>3, <2>6, <2>7, <3>1, <3>2, <3>3, <3>4
  <2> QED
    BY <2>7 DEF known, two, q, a
<1> QED
  BY XdgInvariance, <1>1, PTL

(* A toplevel never loses the size it was made with, and takes nothing from the
   one its surface had before. *)
THEOREM SizesKept == Spec => []SizeKept
<1>1. XdgInv => SizeKept
  <2> SUFFICES ASSUME XdgInv, NEW s \in Surfaces, NEW c \in Told(att[s])
               PROVE  c.size = born[s].size /\ ~ Older(c.serial, born[s].serial)
    BY DEF SizeKept, Told
  <2>1. /\ counter \in 0 .. MaxValue /\ taken \in 0 .. Far - 2
        /\ Sound(att[s], Box(s), Toplevel(s), born[s], counter, taken)
    BY MaxTakenAssumption, MaxValueOdd DEF XdgInv, TypeOK, SurfacesSound
  <2>2. /\ Recent(c.serial, counter, taken) /\ Recent(born[s].serial, counter, taken)
        /\ c.size = born[s].size
        /\ Age(c.serial, counter) <= Age(born[s].serial, counter)
    BY <2>1 DEF Sound, ToldRecently
  <2>3. Age(c.serial, counter) \in 1 .. MaxValue /\ Age(born[s].serial, counter) \in 1 .. MaxValue
    BY <2>1, <2>2, AgeType DEF Recent
  <2> QED
    BY <2>1, <2>2, <2>3, OlderIsAge
<1> QED
  BY XdgInvariance, <1>1, PTL
=============================================================================
