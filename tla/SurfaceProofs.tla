--------------------------- MODULE SurfaceProofs ---------------------------
(***************************************************************************)
(* Machine-checked proofs about module SurfaceTree, for chains of any      *)
(* length, any set of buffers and any number of requests.                  *)
(*                                                                         *)
(* The callbacks of a surface are cut, in order, into what is answered,    *)
(* current, cached and pending (Carried); of its buffers it is said where  *)
(* each is and that none is in two places (Kept, Apart).  Every operation  *)
(* on the state of the surfaces keeps both, and the loops that make a      *)
(* commit out of such operations are followed step by step (FoldRun of     *)
(* DataLemmas).                                                            *)
(***************************************************************************)
EXTENDS SurfaceTree, DataLemmas

(* The numbers after m up to n, in their order. *)
Seg(m, n) == [j \in 1 .. n - m |-> m + j]

(* A commit brings the callbacks after m up to n. *)
Brings(state, m, n) == m <= n /\ state.frames = Seg(m, n)

(* The first of the cuts lies after what is current, the last after what is
   pending, and between two of them is what one cached commit brings. *)
Carried(commits, pend, cur, a, d, cut) ==
  LET n == Len(commits)
  IN /\ cut \in [0 .. n + 1 -> 0 .. a] /\ cut[n + 1] = a
     /\ \A i \in 1 .. n : Brings(commits[i].state, cut[i - 1], cut[i])
     /\ Brings(pend, cut[n], a)
     /\ Len(d) <= cut[0] /\ d = Seg(0, Len(d))
     /\ cur.frames = Seg(Len(d), cut[0])

(* The buffer a cached commit brings. *)
Cached(commits, i) == commits[i].state.buffer

(* A buffer that can be read is idle, about to be shown, shown or cached. *)
Kept(commits, next, sh, free) ==
  \A b \in Buffers \ Unreadable :
    b \in free \/ b = next \/ b = sh \/ \E i \in 1 .. Len(commits) : Cached(commits, i) = b

(* No buffer is in two places. *)
Apart(commits, next, sh, free) ==
  /\ \A i \in 1 .. Len(commits) :
       Cached(commits, i) \in Buffers =>
         /\ Cached(commits, i) \notin free \cup {next, sh}
         /\ \A j \in 1 .. Len(commits) : Cached(commits, j) = Cached(commits, i) => j = i
  /\ next \in Buffers => next # sh /\ next \notin free
  /\ sh \notin free

Commits == [id : Nat, state : States]

-----------------------------------------------------------------------------
(* Cuts. *)

(* A segment goes on with the next. *)
LEMMA SegConcat ==
  ASSUME NEW l \in Nat, NEW m \in Nat, NEW n \in Nat, l <= m, m <= n
  PROVE  /\ Seg(l, m) \o Seg(m, n) = Seg(l, n)
         /\ Seg(l, m) \in Seq(Nat) /\ Len(Seg(l, m)) = m - l
<1>1. \A x \in Nat, y \in Nat : x <= y =>
        /\ Seg(x, y) \in Seq(Nat) /\ Len(Seg(x, y)) = y - x
        /\ \A j \in 1 .. y - x : Seg(x, y)[j] = x + j
  <2> SUFFICES ASSUME NEW x \in Nat, NEW y \in Nat, x <= y
               PROVE  /\ Seg(x, y) \in Seq(Nat) /\ Len(Seg(x, y)) = y - x
                      /\ \A j \in 1 .. y - x : Seg(x, y)[j] = x + j
    OBVIOUS
  <2>1. y - x \in Nat /\ \A j \in 1 .. y - x : x + j \in Nat
    OBVIOUS
  <2>2. Seg(x, y) \in Seq(Nat)
    BY <2>1 DEF Seg
  <2>3. DOMAIN Seg(x, y) = 1 .. y - x
    BY DEF Seg
  <2> QED
    BY <2>1, <2>2, <2>3 DEF Seg
<1> DEFINE q == Seg(l, m) \o Seg(m, n)
<1>2. /\ q \in Seq(Nat) /\ Len(q) = n - l
      /\ \A i \in 1 .. Len(q) : q[i] = IF i <= m - l THEN Seg(l, m)[i] ELSE Seg(m, n)[i - (m - l)]
  <2>1. /\ Len(Seg(l, m)) = m - l /\ Len(Seg(m, n)) = n - m
        /\ Seg(l, m) \in Seq(Nat) /\ Seg(m, n) \in Seq(Nat)
    BY <1>1
  <2>2. /\ q \in Seq(Nat) /\ Len(q) = (m - l) + (n - m)
        /\ \A i \in 1 .. Len(q) : q[i] = IF i <= m - l THEN Seg(l, m)[i]
                                          ELSE Seg(m, n)[i - (m - l)]
    <3>1. /\ q \in Seq(Nat) /\ Len(q) = Len(Seg(l, m)) + Len(Seg(m, n))
          /\ \A i \in 1 .. Len(Seg(l, m)) + Len(Seg(m, n)) :
               q[i] = IF i <= Len(Seg(l, m)) THEN Seg(l, m)[i]
                      ELSE Seg(m, n)[i - Len(Seg(l, m))]
      BY <2>1, ConcatProperties
    <3> HIDE DEF q
    <3> QED
      BY <2>1, <3>1
  <2>3. (m - l) + (n - m) = n - l
    OBVIOUS
  <2> QED
    BY <2>2, <2>3
<1>3. ASSUME NEW i \in 1 .. Len(q) PROVE q[i] = Seg(l, n)[i]
  <2>1. i \in 1 .. n - l /\ Seg(l, n)[i] = l + i
    BY <1>1, <1>2
  <2>2. CASE i <= m - l
    <3>1. i \in 1 .. m - l
      BY <2>1, <2>2
    <3> QED
      BY <1>1, <1>2, <2>1, <2>2, <3>1
  <2>3. CASE ~ (i <= m - l)
    <3>1. i - (m - l) \in 1 .. n - m /\ m + (i - (m - l)) = l + i
      BY <2>1, <2>3
    <3> QED
      BY <1>1, <1>2, <2>1, <2>3, <3>1
  <2> QED
    BY <2>2, <2>3
<1>4. Seg(l, n) \in Seq(Nat) /\ Len(Seg(l, n)) = n - l
  BY <1>1
<1>5. q = Seg(l, n)
  <2> HIDE DEF q
  <2> QED
    BY <1>2, <1>3, <1>4, SeqEqual
<1> QED
  BY <1>1, <1>5

(* No number, one number. *)
LEMMA SegOne ==
  ASSUME NEW m \in Nat
  PROVE  Seg(m, m) = <<>> /\ Seg(m, m + 1) = <<m + 1>>
<1>1. m - m = 0 /\ (m + 1) - m = 1
  OBVIOUS
<1>2. DOMAIN Seg(m, m) = 1 .. 0 /\ DOMAIN Seg(m, m + 1) = 1 .. 1
  BY <1>1 DEF Seg
<1>3. Seg(m, m) = <<>>
  BY <1>1 DEF Seg
<1>4. Seg(m, m + 1) = <<m + 1>>
  BY <1>1 DEF Seg
<1> QED
  BY <1>3, <1>4

(* The cuts before and after. *)
LEMMA CutValues ==
  ASSUME NEW commits \in Seq(Commits), NEW pend, NEW cur,
         NEW a \in Nat, NEW d, NEW cut, Carried(commits, pend, cur, a, d, cut)
  PROVE  /\ \A i \in 0 .. Len(commits) + 1 : cut[i] \in Nat /\ cut[i] <= a
         /\ \A i \in 0 .. Len(commits) : cut[i] \in Nat
         /\ cut[0] \in Nat /\ cut[Len(commits)] \in Nat /\ cut[0] <= a /\ Len(commits) \in Nat
<1>1. /\ Len(commits) \in Nat
      /\ \A i \in 0 .. Len(commits) + 1 : cut[i] \in Nat /\ cut[i] <= a
  BY DEF Carried
<1>2. /\ \A i \in 0 .. Len(commits) : i \in 0 .. Len(commits) + 1
      /\ 0 \in 0 .. Len(commits) /\ Len(commits) \in 0 .. Len(commits)
  BY <1>1
<1> QED
  BY <1>1, <1>2

-----------------------------------------------------------------------------
(* The operations on one surface. *)

(* MakeCurrent: the first cut moves over what the oldest commit brings. *)
LEMMA PopCarried ==
  ASSUME NEW commits \in Seq(Commits), commits # <<>>, NEW pend, NEW cur \in States,
         NEW a \in Nat, NEW d, NEW cut,
         Carried(commits, pend, cur, a, d, cut), Len(d) \in Nat
  PROVE  \E cut2 : Carried(Tail(commits), pend, Merge(Head(commits).state, cur), a, d, cut2)
<1> DEFINE n == Len(commits)
           rest == Tail(commits)
           new == Head(commits).state
           both == Merge(new, cur)
           cut2 == [i \in 0 .. n |-> cut[i + 1]]
<1>1. /\ n \in Nat \ {0} /\ rest \in Seq(Commits) /\ Len(rest) = n - 1
      /\ \A i \in 1 .. n - 1 : rest[i] = commits[i + 1]
      /\ new = commits[1].state
  BY EmptySeq, HeadTailProperties
<1>2. \A i \in 0 .. n + 1 : cut[i] \in 0 .. a
  BY DEF Carried
<1>3. Brings(new, cut[0], cut[1]) /\ cut[0] \in Nat /\ cut[1] \in Nat
  <2>1. 1 \in 1 .. n /\ 0 \in 0 .. n + 1 /\ 1 \in 0 .. n + 1 /\ 1 - 1 = 0
    BY <1>1
  <2> QED
    BY <1>1, <1>2, <2>1 DEF Carried
<1>4. cut[0] <= cut[1] /\ new.frames = Seg(cut[0], cut[1])
  BY <1>3 DEF Brings
<1>5. cut2 \in [0 .. (n - 1) + 1 -> 0 .. a] /\ cut2[(n - 1) + 1] = a
  <2>1. (n - 1) + 1 = n /\ n \in 0 .. n /\ \A i \in 0 .. n : i + 1 \in 0 .. n + 1
    BY <1>1
  <2>2. cut[n + 1] = a
    BY DEF Carried
  <2> QED
    BY <1>2, <2>1, <2>2
<1>6. \A i \in 1 .. n - 1 : Brings(rest[i].state, cut2[i - 1], cut2[i])
  <2>1. \A i \in 1 .. n - 1 : /\ i + 1 \in 1 .. n /\ (i + 1) - 1 = i /\ i \in 0 .. n
                              /\ i - 1 \in 0 .. n /\ (i - 1) + 1 = i
    BY <1>1
  <2>2. \A i \in 1 .. n : Brings(commits[i].state, cut[i - 1], cut[i])
    BY DEF Carried
  <2> QED
    BY <1>1, <2>1, <2>2
<1>7. Brings(pend, cut2[n - 1], a)
  <2>1. n - 1 \in 0 .. n /\ (n - 1) + 1 = n
    BY <1>1
  <2> QED
    BY <2>1 DEF Carried
<1>8. cut2[0] = cut[1]
  BY <1>1
<1>9. both.frames = Seg(Len(d), cut[1])
  <2>1. Len(d) <= cut[0] /\ cur.frames = Seg(Len(d), cut[0])
    BY DEF Carried
  <2>2. both.frames = cur.frames \o new.frames
    BY DEF Merge
  <2>3. Seg(Len(d), cut[0]) \o Seg(cut[0], cut[1]) = Seg(Len(d), cut[1])
    BY <1>3, <1>4, <2>1, SegConcat
  <2> QED
    BY <1>4, <2>1, <2>2, <2>3
<1>10. Len(d) <= cut[1] /\ d = Seg(0, Len(d))
  BY <1>3, <1>4 DEF Carried
<1> HIDE DEF n, cut2, both, new, rest
<1>11. Carried(rest, pend, both, a, d, cut2)
  BY <1>1, <1>5, <1>6, <1>7, <1>8, <1>9, <1>10 DEF Carried
<1> QED
  BY <1>11 DEF both, new, rest

(* Snapshot: one more cut, after what was pending. *)
LEMMA PushCarried ==
  ASSUME NEW commits \in Seq(Commits), NEW pend \in States, NEW cur,
         NEW a \in Nat, NEW d, NEW cut, NEW id \in Nat,
         Carried(commits, pend, cur, a, d, cut)
  PROVE  \E cut2 : Carried(Append(commits, [id |-> id, state |-> pend]), Nothing, cur, a, d, cut2)
<1> DEFINE n == Len(commits)
           e == [id |-> id, state |-> pend]
           more == Append(commits, e)
           cut2 == [i \in 0 .. n + 2 |-> IF i <= n + 1 THEN cut[i] ELSE a]
<1>1. e \in Commits /\ e.state = pend
  BY DEF Commits
<1>2. /\ n \in Nat /\ more \in Seq(Commits) /\ Len(more) = n + 1 /\ more[n + 1] = e
      /\ \A i \in 1 .. n : more[i] = commits[i]
  BY <1>1, AppendProperties
<1>3. /\ \A i \in 0 .. n + 1 : cut[i] \in 0 .. a
      /\ cut[n + 1] = a
      /\ \A i \in 1 .. n : Brings(commits[i].state, cut[i - 1], cut[i])
      /\ Brings(pend, cut[n], a)
  BY DEF Carried
<1>4. \A i \in 0 .. n + 1 : cut2[i] = cut[i]
  BY <1>2
<1>5. cut2 \in [0 .. (n + 1) + 1 -> 0 .. a] /\ cut2[(n + 1) + 1] = a
  <2>1. (n + 1) + 1 = n + 2 /\ n + 2 \in 0 .. n + 2 /\ ~ (n + 2 <= n + 1) /\ a \in 0 .. a
    BY <1>2
  <2>2. \A i \in 0 .. n + 2 : i <= n + 1 => i \in 0 .. n + 1
    BY <1>2
  <2> QED
    BY <1>3, <2>1, <2>2
<1>6. \A i \in 1 .. n + 1 : Brings(more[i].state, cut2[i - 1], cut2[i])
  <2> SUFFICES ASSUME NEW i \in 1 .. n + 1
               PROVE  Brings(more[i].state, cut2[i - 1], cut2[i])
    OBVIOUS
  <2>0. i \in 0 .. n + 1 /\ i - 1 \in 0 .. n + 1
    BY <1>2
  <2>1. cut2[i - 1] = cut[i - 1] /\ cut2[i] = cut[i]
    BY <1>4, <2>0
  <2>2. CASE i = n + 1
    <3>1. i - 1 = n
      BY <1>2, <2>2
    <3> HIDE DEF cut2, more, e
    <3> QED
      BY <1>1, <1>2, <1>3, <2>1, <2>2, <3>1
  <2>3. CASE i # n + 1
    <3>1. i \in 1 .. n
      BY <1>2, <2>3
    <3> HIDE DEF cut2, more, e
    <3> QED
      BY <1>2, <1>3, <2>1, <3>1
  <2> QED
    BY <2>2, <2>3
<1>7. cut2[0] = cut[0] /\ cut2[n + 1] = a
  <2>1. 0 \in 0 .. n + 1 /\ n + 1 \in 0 .. n + 1
    BY <1>2
  <2> QED
    BY <1>3, <1>4, <2>1
<1>8. Brings(Nothing, cut2[n + 1], a)
  <2>1. Seg(a, a) = <<>> /\ a <= a
    BY SegOne
  <2> HIDE DEF cut2
  <2> QED
    BY <1>7, <2>1 DEF Brings, Nothing
<1> HIDE DEF n, more, cut2
<1>9. Carried(more, Nothing, cur, a, d, cut2)
  <2>1. /\ Len(d) <= cut[0] /\ d = Seg(0, Len(d)) /\ cur.frames = Seg(Len(d), cut[0])
    BY DEF Carried
  <2> QED
    BY <1>2, <1>5, <1>6, <1>7, <1>8, <2>1 DEF Carried
<1> QED
  BY <1>9 DEF more

(* wl_surface.attach: another buffer, the same callbacks. *)
LEMMA SameFrames ==
  ASSUME NEW commits, NEW pend, NEW pend2, NEW cur, NEW cur2, NEW a, NEW d, NEW cut,
         pend2.frames = pend.frames, cur2.frames = cur.frames,
         Carried(commits, pend, cur, a, d, cut)
  PROVE  Carried(commits, pend2, cur2, a, d, cut)
  BY DEF Carried, Brings

(* Frame: the last cut moves by one. *)
LEMMA FrameCarried ==
  ASSUME NEW commits \in Seq(Commits), NEW pend \in States, NEW cur,
         NEW a \in Nat, NEW d, NEW cut, Carried(commits, pend, cur, a, d, cut)
  PROVE  \E cut2 : Carried(commits, [pend EXCEPT !.frames = Append(@, a + 1)], cur,
                           a + 1, d, cut2)
<1> DEFINE n == Len(commits)
           cut2 == [cut EXCEPT ![n + 1] = a + 1]
           pend2 == [pend EXCEPT !.frames = Append(@, a + 1)]
<1>1. n \in Nat /\ cut \in [0 .. n + 1 -> 0 .. a] /\ n + 1 \in 0 .. n + 1
  BY DEF Carried
<1>2. Brings(pend, cut[n], a) /\ cut[n] \in Nat
  BY CutValues DEF Carried
<1>3. cut[n] <= a /\ pend.frames = Seg(cut[n], a)
  BY <1>2 DEF Brings
<1>4. cut2 \in [0 .. n + 1 -> 0 .. a + 1] /\ cut2[n + 1] = a + 1
  <2>1. \A i \in 0 .. n + 1 : cut2[i] \in 0 .. a + 1
    BY <1>1
  <2> QED
    BY <1>1, <2>1
<1>5. \A i \in 0 .. n : i \in 0 .. n + 1 /\ i # n + 1 /\ cut2[i] = cut[i]
  BY <1>1
<1>6. ASSUME NEW i \in 1 .. n PROVE Brings(commits[i].state, cut2[i - 1], cut2[i])
  <2>1. i \in 0 .. n /\ i - 1 \in 0 .. n
    BY <1>1
  <2>2. cut2[i - 1] = cut[i - 1] /\ cut2[i] = cut[i]
    BY <1>5, <2>1
  <2> HIDE DEF cut2
  <2> QED
    BY <2>2 DEF Carried
<1>7. cut2[0] = cut[0] /\ cut2[n] = cut[n]
  <2>1. 0 \in 0 .. n /\ n \in 0 .. n
    BY <1>1
  <2> QED
    BY <1>3, <1>5, <2>1
<1>8. Brings(pend2, cut2[n], a + 1)
  <2>1. pend2.frames = Append(Seg(cut[n], a), a + 1)
    BY <1>3 DEF States
  <2>0. a + 1 \in Nat /\ a <= a + 1 /\ a <= a /\ cut[n] <= a
    BY <1>3
  <2>2. Seg(cut[n], a) \in Seq(Nat) /\ Seg(a, a + 1) = <<a + 1>>
    <3>1. Seg(cut[n], a) \in Seq(Nat)
      BY <1>2, <2>0, SegConcat
    <3> QED
      BY <3>1, SegOne
  <2>3. Append(Seg(cut[n], a), a + 1) = Seg(cut[n], a) \o <<a + 1>>
    BY <2>2, AppendIsConcat
  <2>4. Seg(cut[n], a) \o Seg(a, a + 1) = Seg(cut[n], a + 1)
    BY <1>2, <2>0, SegConcat
  <2>5. cut[n] <= a + 1
    BY <1>2, <1>3
  <2> HIDE DEF cut2, pend2
  <2> QED
    BY <1>7, <2>1, <2>2, <2>3, <2>4, <2>5 DEF Brings
<1> HIDE DEF cut2, pend2
<1>9. Carried(commits, pend2, cur, a + 1, d, cut2)
  BY <1>4, <1>6, <1>7, <1>8 DEF Carried
<1> QED
  BY <1>9 DEF pend2

(* Redraw: what is current is answered. *)
LEMMA AnswerCarried ==
  ASSUME NEW commits \in Seq(Commits), NEW pend, NEW cur \in States,
         NEW a \in Nat, NEW d, NEW cut, Len(d) \in Nat,
         Carried(commits, pend, cur, a, d, cut)
  PROVE  Carried(commits, pend, [cur EXCEPT !.frames = <<>>], a,
                 d \o cur.frames, cut)
<1> DEFINE d2 == d \o cur.frames
           cur2 == [cur EXCEPT !.frames = <<>>]
<1>1. /\ cut[0] \in Nat /\ Len(d) <= cut[0] /\ d = Seg(0, Len(d))
      /\ cur.frames = Seg(Len(d), cut[0])
  BY CutValues DEF Carried
<1>2. d2 = Seg(0, cut[0])
  <2>1. 0 \in Nat /\ 0 <= Len(d)
    OBVIOUS
  <2>2. Seg(0, Len(d)) \o Seg(Len(d), cut[0]) = Seg(0, cut[0])
    BY <1>1, <2>1, SegConcat
  <2> QED
    BY <1>1, <2>2
<1>3. Len(d2) = cut[0]
  <2>0. 0 \in Nat /\ 0 <= cut[0] /\ cut[0] <= cut[0]
    BY <1>1
  <2>1. Len(Seg(0, cut[0])) = cut[0] - 0
    BY <1>1, <2>0, SegConcat
  <2> HIDE DEF d2
  <2> QED
    BY <1>1, <1>2, <2>1
<1>4. cur2.frames = Seg(Len(d2), cut[0]) /\ cur2.buffer = cur.buffer
  <2>1. cur2.frames = <<>> /\ cur2.buffer = cur.buffer
    BY DEF States
  <2> HIDE DEF d2, cur2
  <2> QED
    BY <1>1, <1>3, <2>1, SegOne
<1> HIDE DEF d2, cur2
<1>5. Carried(commits, pend, cur2, a, d2, cut)
  BY <1>1, <1>2, <1>3, <1>4 DEF Carried
<1> QED
  BY <1>5 DEF cur2, d2

-----------------------------------------------------------------------------
(* What the cuts say of a surface as a whole. *)

(* The callbacks of the cached commits are the numbers from the first cut to the
   last but one. *)
LEMMA CachedFrames ==
  ASSUME NEW commits \in Seq(Commits), NEW pend, NEW cur, NEW a \in Nat,
         NEW d, NEW cut, Carried(commits, pend, cur, a, d, cut)
  PROVE  /\ FramesOf(commits) = Seg(cut[0], cut[Len(commits)])
         /\ cut[0] <= cut[Len(commits)]
<1> DEFINE n == Len(commits)
           seqs == [i \in DOMAIN commits |-> commits[i].state.frames]
           Runs(g) == g = [i \in 1 .. n |-> IF i = 1 THEN seqs[i] ELSE g[i - 1] \o seqs[i]]
           f == [i \in 1 .. n |-> Seg(cut[0], cut[i])]
           run == CHOOSE g : Runs(g)
<1>1. n \in Nat /\ DOMAIN commits = 1 .. n
  OBVIOUS
<1>2. \A i \in 0 .. n : cut[i] \in Nat
  BY CutValues
<1>3. ASSUME NEW i \in 1 .. n
      PROVE  seqs[i] = Seg(cut[i - 1], cut[i]) /\ cut[i - 1] <= cut[i]
  <2>1. Brings(commits[i].state, cut[i - 1], cut[i]) /\ i - 1 \in 0 .. n
    BY DEF Carried
  <2>2. cut[i - 1] \in Nat
    BY <1>2, <2>1
  <2> QED
    BY <1>1, <2>1, <2>2 DEF Brings
<1>4. \A i \in 0 .. n : cut[0] <= cut[i]
  <2> DEFINE T == {i \in 0 .. n : cut[0] <= cut[i]}
  <2>1. 0 \in T
    BY <1>1, <1>2
  <2>2. ASSUME NEW i \in 0 .. n - 1, i \in T PROVE i + 1 \in T
    <3>1. i + 1 \in 1 .. n /\ (i + 1) - 1 = i /\ i \in 0 .. n /\ i + 1 \in 0 .. n /\ 0 \in 0 .. n
      BY <1>1
    <3>2. cut[i] <= cut[i + 1]
      BY <1>3, <3>1
    <3>3. cut[0] \in Nat /\ cut[i] \in Nat /\ cut[i + 1] \in Nat
      BY <1>2, <3>1
    <3> QED
      BY <2>2, <3>1, <3>2, <3>3
  <2>3. \A i \in 0 .. n : i \in T
    <3> HIDE DEF T, n
    <3> QED
      BY <1>1, <2>1, <2>2, SetInductionUpTo
  <2> QED
    BY <2>3
<1>5. ASSUME NEW i \in 1 .. n
      PROVE  Seg(cut[0], cut[i - 1]) \o seqs[i] = Seg(cut[0], cut[i])
  <2>1. i - 1 \in 0 .. n /\ 0 \in 0 .. n /\ i \in 0 .. n
    BY <1>1
  <2>2. cut[0] \in Nat /\ cut[i - 1] \in Nat /\ cut[i] \in Nat /\ cut[0] <= cut[i - 1]
    BY <1>2, <1>4, <2>1
  <2>3. seqs[i] = Seg(cut[i - 1], cut[i]) /\ cut[i - 1] <= cut[i]
    BY <1>3
  <2>4. Seg(cut[0], cut[i - 1]) \o Seg(cut[i - 1], cut[i]) = Seg(cut[0], cut[i])
    BY <2>2, <2>3, SegConcat
  <2> HIDE DEF seqs
  <2> QED
    BY <2>3, <2>4
<1>6. Runs(f)
  <2> SUFFICES ASSUME NEW i \in 1 .. n
               PROVE  f[i] = IF i = 1 THEN seqs[i] ELSE f[i - 1] \o seqs[i]
    OBVIOUS
  <2>1. CASE i = 1
    <3>1. f[i] = Seg(cut[0], cut[i]) /\ i - 1 = 0
      BY <2>1
    <3>2. seqs[i] = Seg(cut[i - 1], cut[i])
      BY <1>3
    <3> HIDE DEF f, seqs
    <3> QED
      BY <2>1, <3>1, <3>2
  <2>2. CASE i # 1
    <3>1. i - 1 \in 1 .. n /\ f[i - 1] = Seg(cut[0], cut[i - 1]) /\ f[i] = Seg(cut[0], cut[i])
      BY <1>1, <2>2
    <3> HIDE DEF f, seqs
    <3> QED
      BY <1>5, <2>2, <3>1
  <2> QED
    BY <2>1, <2>2
<1>7. Runs(run)
  <2> HIDE DEF f, Runs
  <2> QED
    BY <1>6
<1>8. \A i \in 0 .. n : i # 0 => run[i] = Seg(cut[0], cut[i])
  <2> DEFINE T == {i \in 0 .. n : i # 0 => run[i] = Seg(cut[0], cut[i])}
  <2>1. 0 \in T
    BY <1>1
  <2>2. ASSUME NEW i \in 0 .. n - 1, i \in T PROVE i + 1 \in T
    <3>1. i + 1 \in 1 .. n /\ (i + 1) - 1 = i /\ i \in 0 .. n /\ i + 1 \in 0 .. n /\ 0 \in 0 .. n
      BY <1>1
    <3>2. run[i + 1] = IF i + 1 = 1 THEN seqs[i + 1] ELSE run[i] \o seqs[i + 1]
      <4> HIDE DEF run, seqs
      <4> QED
        BY <1>7, <3>1
    <3>3. Seg(cut[0], cut[i]) \o seqs[i + 1] = Seg(cut[0], cut[i + 1])
      <4> HIDE DEF seqs
      <4> QED
        BY <1>5, <3>1
    <3>4. CASE i = 0
      <4>1. seqs[i + 1] = Seg(cut[0], cut[i + 1])
        <5> HIDE DEF seqs
        <5> QED
          BY <1>3, <3>1, <3>4
      <4> HIDE DEF run, seqs
      <4> QED
        BY <3>1, <3>2, <3>4, <4>1
    <3>5. CASE i # 0
      <4> HIDE DEF run, seqs
      <4>1. i + 1 # 1 /\ run[i] = Seg(cut[0], cut[i])
        BY <2>2, <3>1, <3>5
      <4> QED
        BY <3>1, <3>2, <3>3, <4>1
    <3> QED
      BY <3>4, <3>5
  <2>3. \A i \in 0 .. n : i \in T
    <3> HIDE DEF T, n
    <3> QED
      BY <1>1, <2>1, <2>2, SetInductionUpTo
  <2> QED
    BY <2>3
<1>9. FramesOf(commits) = IF n = 0 THEN seqs ELSE run[n]
  <2>1. Len(seqs) = n
    BY <1>1
  <2>2. FramesOf(commits) = FlattenSeq(seqs)
    BY DEF FramesOf
  <2> HIDE DEF seqs
  <2> QED
    BY <2>1, <2>2 DEF FlattenSeq
<1>10. CASE n = 0
  <2>1. seqs = <<>> /\ Seg(cut[0], cut[0]) = <<>>
    <3>1. cut[0] \in Nat
      BY <1>1, <1>2
    <3> QED
      BY <1>1, <1>10, <3>1, SegOne
  <2> HIDE DEF seqs, run
  <2> QED
    BY <1>1, <1>4, <1>9, <1>10, <2>1
<1>11. CASE n # 0
  <2>1. n \in 0 .. n
    BY <1>1
  <2> HIDE DEF seqs, run
  <2> QED
    BY <1>4, <1>8, <1>9, <1>11, <2>1
<1> QED
  BY <1>10, <1>11

(* A surface's callbacks are all there and in their order. *)
InOrder(commits, pend, cur, a, d) ==
  d \o cur.frames \o FramesOf(commits) \o pend.frames = [i \in 1 .. a |-> i]

(* The callbacks follow from the cuts. *)
LEMMA CarriedCallbacks ==
  ASSUME NEW commits \in Seq(Commits), NEW pend, NEW cur, NEW a \in Nat,
         NEW d, NEW cut, Carried(commits, pend, cur, a, d, cut), Len(d) \in Nat
  PROVE  InOrder(commits, pend, cur, a, d)
<1> DEFINE m == cut[0]
           k == cut[Len(commits)]
<1>1. m \in Nat /\ k \in Nat /\ m <= k /\ FramesOf(commits) = Seg(m, k)
  BY CutValues, CachedFrames
<1>2. Len(d) <= m /\ d = Seg(0, Len(d)) /\ cur.frames = Seg(Len(d), m)
  BY DEF Carried
<1>3. Brings(pend, k, a)
  BY DEF Carried
<1>4. pend.frames = Seg(k, a) /\ k <= a
  BY <1>3 DEF Brings
<1> HIDE DEF m, k
<1>5. 0 \in Nat /\ 0 <= Len(d) /\ 0 <= m /\ 0 <= k
  BY <1>1
<1>6. Seg(0, Len(d)) \o Seg(Len(d), m) = Seg(0, m)
  BY <1>1, <1>2, <1>5, SegConcat
<1>7. Seg(0, m) \o Seg(m, k) = Seg(0, k)
  BY <1>1, <1>5, SegConcat
<1>8. Seg(0, k) \o Seg(k, a) = Seg(0, a)
  BY <1>1, <1>4, <1>5, SegConcat
<1>9. d \o cur.frames \o FramesOf(commits) \o pend.frames = Seg(0, a)
  BY <1>1, <1>2, <1>4, <1>6, <1>7, <1>8
<1>10. Seg(0, a) = [i \in 1 .. a |-> i]
  BY DEF Seg
<1> QED
  BY <1>9, <1>10 DEF InOrder

-----------------------------------------------------------------------------
(* The buffers of one surface. *)

(* Snapshot: the buffer that was pending is cached. *)
LEMMA PushKept ==
  ASSUME NEW commits \in Seq(Commits), NEW e \in Commits, NEW next, NEW sh,
         NEW free \in SUBSET Buffers
  PROVE  /\ Kept(commits, next, sh, free) =>
              Kept(Append(commits, e), next, sh, free \ {e.state.buffer})
         /\ Apart(commits, next, sh, free) /\ e.state.buffer \notin Buffers \ free
              => Apart(Append(commits, e), next, sh, free \ {e.state.buffer})
<1> DEFINE n == Len(commits)
           more == Append(commits, e)
           b == e.state.buffer
<1>1. /\ n \in Nat /\ Len(more) = n + 1
      /\ \A i \in 1 .. n : Cached(more, i) = Cached(commits, i)
      /\ Cached(more, n + 1) = b
      /\ 1 .. n + 1 = (1 .. n) \cup {n + 1} /\ n + 1 \notin 1 .. n
  BY AppendProperties DEF Cached
<1> HIDE DEF n, more, b
<1>2. ASSUME Kept(commits, next, sh, free)
      PROVE  Kept(more, next, sh, free \ {b})
  <2> SUFFICES ASSUME NEW c \in Buffers \ Unreadable
               PROVE  c \in free \ {b} \/ c = next \/ c = sh
                        \/ \E i \in 1 .. n + 1 : Cached(more, i) = c
    BY <1>1 DEF Kept
  <2>1. c \in free \/ c = next \/ c = sh \/ \E i \in 1 .. n : Cached(commits, i) = c
    BY <1>2 DEF Kept, n
  <2> QED
    BY <1>1, <2>1
<1>3. ASSUME Apart(commits, next, sh, free), b \notin Buffers \ free
      PROVE  Apart(more, next, sh, free \ {b})
  <2>1. ASSUME NEW i \in 1 .. n + 1, Cached(more, i) \in Buffers
        PROVE  /\ Cached(more, i) \notin (free \ {b}) \cup {next, sh}
               /\ \A j \in 1 .. n + 1 : Cached(more, j) = Cached(more, i) => j = i
    <3>1. /\ \A k \in 1 .. n : Cached(commits, k) \in Buffers =>
               /\ Cached(commits, k) \notin free \cup {next, sh}
               /\ \A j \in 1 .. n : Cached(commits, j) = Cached(commits, k) => j = k
          /\ (next \in Buffers => next # sh /\ next \notin free) /\ sh \notin free
      BY <1>3 DEF Apart, n
    <3>2. CASE i \in 1 .. n
      <4>1. Cached(commits, i) \in Buffers \ (free \cup {next, sh})
        BY <1>1, <2>1, <3>1, <3>2
      <4>2. Cached(commits, i) # b
        BY <1>3, <4>1
      <4> QED
        BY <1>1, <2>1, <3>1, <3>2, <4>1, <4>2
    <3>3. CASE i = n + 1
      <4>1. b \in Buffers \cap free
        BY <1>1, <1>3, <2>1, <3>3
      <4>2. b \notin {next, sh}
        BY <3>1, <4>1
      <4>3. \A j \in 1 .. n : Cached(commits, j) # b
        BY <3>1, <4>1
      <4> QED
        BY <1>1, <3>3, <4>1, <4>2, <4>3
    <3> QED
      BY <1>1, <3>2, <3>3
  <2>2. /\ next \in Buffers => next # sh /\ next \notin free \ {b}
        /\ sh \notin free \ {b}
    BY <1>3 DEF Apart
  <2> QED
    BY <1>1, <2>1, <2>2 DEF Apart
<1> QED
  BY <1>2, <1>3 DEF more, b

(* What becomes current and what is idle then. *)
NextBuffer(new, old) == IF new # "none" THEN new ELSE old
FreedBy(new, old, free) == IF new \in {"none", old} THEN free ELSE free \cup ({old} \cap Buffers)

(* MakeCurrent: the buffer of the oldest commit is about to be shown, and the one
   it replaces is idle. *)
LEMMA PopKept ==
  ASSUME NEW commits \in Seq(Commits), commits # <<>>, NEW old, NEW sh,
         NEW free \in SUBSET Buffers
  PROVE  LET new == Head(commits).state.buffer
             next == NextBuffer(new, old)
             free2 == FreedBy(new, old, free)
         IN /\ Kept(commits, old, sh, free) => Kept(Tail(commits), next, sh, free2)
            /\ Apart(commits, old, sh, free) => Apart(Tail(commits), next, sh, free2)
<1> DEFINE n == Len(commits)
           rest == Tail(commits)
           new == Head(commits).state.buffer
           next == NextBuffer(new, old)
           free2 == FreedBy(new, old, free)
<1>1. /\ n \in Nat \ {0} /\ Len(rest) = n - 1 /\ new = Cached(commits, 1)
      /\ \A i \in 1 .. n - 1 : Cached(rest, i) = Cached(commits, i + 1)
  BY EmptySeq, HeadTailProperties DEF Cached
<1>2. /\ 1 \in 1 .. n /\ \A i \in 1 .. n - 1 : i + 1 \in 1 .. n /\ i + 1 # 1
      /\ \A i \in 1 .. n : i = 1 \/ (i - 1 \in 1 .. n - 1 /\ (i - 1) + 1 = i)
      /\ \A i, j \in 1 .. n - 1 : i + 1 = j + 1 => i = j
  BY <1>1
<1>3. "none" \notin Buffers
  BY BuffersAssumption
<1> HIDE DEF n, rest, new, next, free2
<1>4. ASSUME Kept(commits, old, sh, free)
      PROVE  Kept(rest, next, sh, free2)
  <2> SUFFICES ASSUME NEW c \in Buffers \ Unreadable
               PROVE  c \in free2 \/ c = next \/ c = sh
                        \/ \E i \in 1 .. n - 1 : Cached(rest, i) = c
    BY <1>1 DEF Kept
  <2>1. c \in free \/ c = old \/ c = sh \/ \E i \in 1 .. n : Cached(commits, i) = c
    BY <1>4 DEF Kept, n
  <2>2. CASE c \in free \/ c = old \/ c = sh
    BY <2>2 DEF next, free2, NextBuffer, FreedBy
  <2>3. CASE \E i \in 1 .. n : Cached(commits, i) = c
    <3>1. PICK i \in 1 .. n : Cached(commits, i) = c
      BY <2>3
    <3>2. CASE i = 1
      BY <1>1, <1>3, <3>1, <3>2 DEF next, NextBuffer
    <3>3. CASE i # 1
      BY <1>1, <1>2, <3>1, <3>3
    <3> QED
      BY <3>2, <3>3
  <2> QED
    BY <2>1, <2>2, <2>3
<1>5. ASSUME Apart(commits, old, sh, free)
      PROVE  Apart(rest, next, sh, free2)
  <2>1. /\ \A k \in 1 .. n : Cached(commits, k) \in Buffers =>
             /\ Cached(commits, k) \notin free \cup {old, sh}
             /\ \A j \in 1 .. n : Cached(commits, j) = Cached(commits, k) => j = k
        /\ (old \in Buffers => old # sh /\ old \notin free) /\ sh \notin free
    BY <1>5 DEF Apart, n
  <2>2. next \in {new, old} /\ (new # "none" => next = new)
    BY DEF next, NextBuffer
  <2>3. /\ free2 \subseteq free \cup ({old} \cap Buffers)
        /\ next = old => free2 = free
    BY <1>3 DEF next, free2, NextBuffer, FreedBy
  <2>4. new \in Buffers => new \notin free \cup {old, sh}
    BY <1>1, <1>2, <2>1
  <2>5. ASSUME NEW i \in 1 .. n - 1, Cached(rest, i) \in Buffers
        PROVE  /\ Cached(rest, i) \notin free2 \cup {next, sh}
               /\ \A j \in 1 .. n - 1 : Cached(rest, j) = Cached(rest, i) => j = i
    <3>1. Cached(commits, i + 1) = Cached(rest, i) /\ i + 1 \in 1 .. n /\ i + 1 # 1
      BY <1>1, <1>2
    <3>2. Cached(rest, i) \notin free \cup {old, sh}
      BY <2>1, <2>5, <3>1
    <3>3. Cached(rest, i) # new
      BY <1>1, <1>2, <2>1, <2>5, <3>1
    <3>4. ASSUME NEW j \in 1 .. n - 1, Cached(rest, j) = Cached(rest, i) PROVE j = i
      <4>1. Cached(commits, j + 1) = Cached(commits, i + 1) /\ j + 1 \in 1 .. n
        BY <1>1, <1>2, <3>1, <3>4
      <4>2. j + 1 = i + 1
        BY <2>1, <2>5, <3>1, <4>1
      <4> QED
        BY <1>2, <4>2
    <3> QED
      BY <2>2, <2>3, <3>2, <3>3, <3>4
  <2>6. /\ next \in Buffers => next # sh /\ next \notin free2
        /\ sh \notin free2
    BY <2>1, <2>2, <2>3, <2>4
  <2> QED
    BY <1>1, <2>5, <2>6 DEF Apart
<1> QED
  BY <1>4, <1>5 DEF rest, new, next, free2

(* UpdateBuffer: the one shown before is idle, unless it goes on to be shown. *)
LEMMA ShowKept ==
  ASSUME NEW commits, NEW next, next # "none", NEW sh, NEW free
  PROVE  LET free2 == free \cup ({sh} \ {"none", next})
         IN /\ Kept(commits, next, sh, free) => Kept(commits, "none", Show(next), free2)
            /\ Apart(commits, next, sh, free) /\ "none" \notin free
                 => Apart(commits, "none", Show(next), free2)
<1> DEFINE free2 == free \cup ({sh} \ {"none", next})
<1>1. "none" \notin Buffers /\ Show(next) \in {next, "none"}
  BY BuffersAssumption DEF Show
<1>2. ASSUME Kept(commits, next, sh, free)
      PROVE  Kept(commits, "none", Show(next), free2)
  <2> SUFFICES ASSUME NEW c \in Buffers \ Unreadable
               PROVE  c \in free2 \/ c = Show(next)
                        \/ \E i \in 1 .. Len(commits) : Cached(commits, i) = c
    BY DEF Kept
  <2>1. c \in free \/ c = next \/ c = sh \/ \E i \in 1 .. Len(commits) : Cached(commits, i) = c
    BY <1>2 DEF Kept
  <2>2. c = next => c = Show(next)
    BY DEF Show
  <2>3. c # "none"
    BY <1>1
  <2> QED
    BY <2>1, <2>2, <2>3
<1>3. ASSUME Apart(commits, next, sh, free), "none" \notin free
      PROVE  Apart(commits, "none", Show(next), free2)
  <2>1. ASSUME NEW i \in 1 .. Len(commits), Cached(commits, i) \in Buffers
        PROVE  /\ Cached(commits, i) \notin free2 \cup {"none", Show(next)}
               /\ \A j \in 1 .. Len(commits) : Cached(commits, j) = Cached(commits, i) => j = i
    <3>1. /\ Cached(commits, i) \notin free \cup {next, sh}
          /\ \A j \in 1 .. Len(commits) : Cached(commits, j) = Cached(commits, i) => j = i
      BY <1>3, <2>1 DEF Apart
    <3> QED
      BY <1>1, <2>1, <3>1
  <2>2. Show(next) \notin free2
    <3>1. CASE next \in Buffers
      BY <1>1, <1>3, <3>1 DEF Apart
    <3>2. CASE next \notin Buffers
      BY <1>3, <3>2 DEF Show
    <3> QED
      BY <3>1, <3>2
  <2> QED
    BY <1>1, <2>1, <2>2 DEF Apart
<1> QED
  BY <1>2, <1>3

-----------------------------------------------------------------------------
(* The state of all surfaces. *)

Worlds ==
  [pending : [Surfaces -> States], cache : [Surfaces -> Seq(Commits)],
   current : [Surfaces -> States], txid : [Surfaces -> Nat],
   tx : [Surfaces -> Seq(Surfaces \X Nat)], shown : [Surfaces -> Buffers \cup {"none"}],
   idle : [Surfaces -> SUBSET Buffers], reused : SUBSET Surfaces]

(* No commit of a cache has a later id. *)
AllBy(commits, id) == \A i \in DOMAIN commits : commits[i].id <= id

(* What waits in the transaction of surface m: itself and what is below it, each
   once. *)
TxOf(m) == {q \in Seq(Surfaces \X Nat) :
              /\ \A i \in DOMAIN q : m <= q[i][1]
              /\ \A i, j \in DOMAIN q : q[i][1] = q[j][1] => i = j}

Held(w, s) ==
  \E cut : Carried(w.cache[s], w.pending[s], w.current[s], asked[s], done[s], cut)

(* Its buffers are all somewhere, and in one place if the client heeds releases. *)
Stored(w, s) ==
  /\ Kept(w.cache[s], w.current[s].buffer, w.shown[s], w.idle[s])
  /\ s \notin w.reused => Apart(w.cache[s], w.current[s].buffer, w.shown[s], w.idle[s])

Sound(w, s) == Held(w, s) /\ Stored(w, s) /\ AllBy(w.cache[s], w.txid[s])

Good(w) ==
  /\ w \in Worlds
  /\ \A s \in Surfaces : Sound(w, s) /\ w.tx[s] \in TxOf(s)

(* What clients did. *)
Client ==
  /\ requests \in [Kinds -> Nat] /\ asked \in [Surfaces -> Nat]
  /\ done \in [Surfaces -> Seq(Nat)]

(* The inductive invariant. *)
SurfaceInv == Client /\ sync \in [Surfaces -> BOOLEAN] /\ Good(World)

(* An application only takes from the caches, and only shows other buffers of
   the surfaces from low on. *)
Later(v, w, low) ==
  /\ v.pending = w.pending /\ v.txid = w.txid /\ v.tx = w.tx
  /\ \A d \in Surfaces :
       /\ Len(v.cache[d]) <= Len(w.cache[d])
       /\ \A id \in Nat : AllBy(w.cache[d], id) => AllBy(v.cache[d], id)
       /\ d < low => v.current[d].buffer = w.current[d].buffer /\ v.shown[d] = w.shown[d]

(* Surfaces that do not differ are as sound. *)
LEMMA SameSound ==
  ASSUME NEW w, NEW v, NEW s,
         v.cache[s] = w.cache[s], v.pending[s] = w.pending[s], v.current[s] = w.current[s],
         v.shown[s] = w.shown[s], v.idle[s] = w.idle[s], w.reused \subseteq v.reused,
         v.txid[s] = w.txid[s], Sound(w, s)
  PROVE  Sound(v, s)
  BY DEF Sound, Held, Stored

(* The values at a surface. *)
LEMMA WorldParts ==
  ASSUME NEW w \in Worlds, NEW s \in Surfaces
  PROVE  /\ w.pending[s] \in States /\ w.cache[s] \in Seq(Commits)
         /\ w.current[s] \in States /\ w.txid[s] \in Nat
         /\ w.tx[s] \in Seq(Surfaces \X Nat) /\ w.shown[s] \in Buffers \cup {"none"}
         /\ w.idle[s] \in SUBSET Buffers /\ Len(w.cache[s]) \in Nat
<1>1. w.cache[s] \in Seq(Commits)
  BY DEF Worlds
<1> QED
  BY <1>1 DEF Worlds

(* The values of the client at a surface. *)
LEMMA ClientParts ==
  ASSUME Client, NEW s \in Surfaces
  PROVE  asked[s] \in Nat /\ done[s] \in Seq(Nat) /\ Len(done[s]) \in Nat
<1>1. done[s] \in Seq(Nat)
  BY DEF Client
<1> QED
  BY <1>1 DEF Client

(* One application after the other. *)
LEMMA LaterThen ==
  ASSUME NEW u \in Worlds, NEW v \in Worlds, NEW w \in Worlds, NEW low \in Nat,
         NEW higher \in Nat, low <= higher, Later(u, v, higher), Later(v, w, low)
  PROVE  Later(u, w, low)
<1>1. ASSUME NEW d \in Surfaces
      PROVE  /\ Len(u.cache[d]) <= Len(w.cache[d])
             /\ \A id \in Nat : AllBy(w.cache[d], id) => AllBy(u.cache[d], id)
             /\ d < low => u.current[d].buffer = w.current[d].buffer /\ u.shown[d] = w.shown[d]
  <2>1. /\ Len(u.cache[d]) \in Nat /\ Len(v.cache[d]) \in Nat /\ Len(w.cache[d]) \in Nat
        /\ d \in Nat
    BY WorldParts, DepthAssumption DEF Surfaces
  <2>2. d < low => d < higher
    BY <2>1
  <2> QED
    BY <2>1, <2>2 DEF Later
<1> QED
  BY <1>1 DEF Later

(* MakeCurrent keeps the surfaces sound. *)
LEMMA MakeCurrentGood ==
  ASSUME Client, NEW w, Good(w), NEW s \in Surfaces, w.cache[s] # <<>>
  PROVE  /\ Good(MakeCurrent(w, s)) /\ Later(MakeCurrent(w, s), w, s)
         /\ Len(MakeCurrent(w, s).cache[s]) = Len(w.cache[s]) - 1
<1> DEFINE new == Head(w.cache[s]).state
           free == FreedBy(new.buffer, w.current[s].buffer, w.idle[s])
           v == MakeCurrent(w, s)
<1>1. w \in Worlds /\ Sound(w, s)
  BY DEF Good
<1>2. /\ v.cache = [w.cache EXCEPT ![s] = Tail(w.cache[s])]
      /\ v.current = [w.current EXCEPT ![s] = Merge(new, w.current[s])]
      /\ v.idle = [w.idle EXCEPT ![s] = free]
      /\ v.pending = w.pending /\ v.txid = w.txid /\ v.tx = w.tx /\ v.shown = w.shown
      /\ v.reused = w.reused
      /\ v = [w EXCEPT !.cache = v.cache, !.current = v.current, !.idle = v.idle]
  BY <1>1 DEF MakeCurrent, Worlds, FreedBy
<1> HIDE DEF v
<1>3. /\ Tail(w.cache[s]) \in Seq(Commits) /\ Head(w.cache[s]) \in Commits
      /\ Len(Tail(w.cache[s])) = Len(w.cache[s]) - 1
      /\ \A i \in 1 .. Len(w.cache[s]) - 1 : Tail(w.cache[s])[i] = w.cache[s][i + 1]
  BY <1>1, WorldParts, HeadTailProperties
<1>4. new \in States /\ w.current[s] \in States
  BY <1>1, <1>3, WorldParts DEF Commits
<1>5. Merge(new, w.current[s]) \in States
  <2>1. /\ new.frames \in Seq(Nat) /\ w.current[s].frames \in Seq(Nat)
        /\ new.buffer \in Assignments /\ w.current[s].buffer \in Assignments
    BY <1>4 DEF States
  <2>2. w.current[s].frames \o new.frames \in Seq(Nat)
    BY <2>1, ConcatProperties
  <2> HIDE DEF new
  <2> QED
    BY <2>1, <2>2 DEF Merge, States
<1>6. free \in SUBSET Buffers
  BY <1>1, WorldParts DEF FreedBy
<1> HIDE DEF new, free
<1>7. v \in Worlds
  <2>1. /\ v.cache \in [Surfaces -> Seq(Commits)] /\ v.current \in [Surfaces -> States]
        /\ v.idle \in [Surfaces -> SUBSET Buffers]
    BY <1>1, <1>2, <1>3, <1>5, <1>6 DEF Worlds
  <2> QED
    BY <1>1, <1>2, <2>1 DEF Worlds
<1>8. /\ v.cache[s] = Tail(w.cache[s]) /\ v.current[s] = Merge(new, w.current[s])
      /\ v.idle[s] = free
      /\ \A d \in Surfaces \ {s} : /\ v.cache[d] = w.cache[d] /\ v.current[d] = w.current[d]
                                   /\ v.idle[d] = w.idle[d]
  BY <1>1, <1>2 DEF Worlds
<1>9. AllBy(v.cache[s], w.txid[s]) /\ \A id \in Nat : AllBy(w.cache[s], id) => AllBy(v.cache[s], id)
  <2>1. ASSUME NEW id \in Nat, AllBy(w.cache[s], id) PROVE AllBy(v.cache[s], id)
    <3>1. /\ w.cache[s] \in Seq(Commits) /\ Len(w.cache[s]) \in Nat
          /\ DOMAIN w.cache[s] = 1 .. Len(w.cache[s])
          /\ DOMAIN v.cache[s] = 1 .. Len(w.cache[s]) - 1
      <4>1. w.cache[s] \in Seq(Commits) /\ v.cache[s] \in Seq(Commits)
        BY <1>1, <1>7, WorldParts
      <4>2. Len(v.cache[s]) = Len(w.cache[s]) - 1
        BY <1>3, <1>8
      <4> QED
        BY <4>1, <4>2
    <3>2. ASSUME NEW i \in 1 .. Len(w.cache[s]) - 1 PROVE v.cache[s][i].id <= id
      <4>1. i + 1 \in 1 .. Len(w.cache[s]) /\ v.cache[s][i] = w.cache[s][i + 1]
        BY <1>3, <1>8, <3>1
      <4> QED
        BY <2>1, <3>1, <4>1 DEF AllBy
    <3> QED
      BY <3>1, <3>2 DEF AllBy
  <2> QED
    BY <1>1, <2>1, WorldParts DEF Sound
<1>10. Held(v, s)
  <2>1. PICK cut : Carried(w.cache[s], w.pending[s], w.current[s], asked[s], done[s], cut)
    BY <1>1 DEF Sound, Held
  <2>2. /\ w.cache[s] \in Seq(Commits) /\ w.current[s] \in States
        /\ asked[s] \in Nat /\ Len(done[s]) \in Nat
    BY <1>1, WorldParts, ClientParts
  <2>3. \E cut2 : Carried(Tail(w.cache[s]), w.pending[s], Merge(new, w.current[s]),
                          asked[s], done[s], cut2)
    BY <2>1, <2>2, PopCarried DEF new
  <2> QED
    BY <1>2, <1>8, <2>3 DEF Held
<1>13. Stored(v, s)
  <2>1. v.current[s].buffer = NextBuffer(new.buffer, w.current[s].buffer)
    BY <1>8 DEF Merge, NextBuffer
  <2>2. w.cache[s] \in Seq(Commits) /\ w.idle[s] \in SUBSET Buffers
    BY <1>1, WorldParts
  <2>3. LET next == NextBuffer(new.buffer, w.current[s].buffer)
        IN /\ Kept(w.cache[s], w.current[s].buffer, w.shown[s], w.idle[s]) =>
                 Kept(Tail(w.cache[s]), next, w.shown[s], free)
           /\ Apart(w.cache[s], w.current[s].buffer, w.shown[s], w.idle[s]) =>
                 Apart(Tail(w.cache[s]), next, w.shown[s], free)
    BY <2>2, PopKept DEF new, free
  <2> QED
    BY <1>1, <1>2, <1>8, <2>1, <2>3 DEF Sound, Stored
<1>11. Good(v)
  <2>1. ASSUME NEW d \in Surfaces PROVE Sound(v, d) /\ v.tx[d] \in TxOf(d)
    <3>1. Sound(w, d) /\ w.tx[d] \in TxOf(d)
      BY DEF Good
    <3>2. CASE d = s
      BY <1>2, <1>9, <1>10, <1>13, <3>1, <3>2 DEF Sound
    <3>3. CASE d # s
      <4>1. /\ v.cache[d] = w.cache[d] /\ v.pending[d] = w.pending[d]
            /\ v.current[d] = w.current[d] /\ v.shown[d] = w.shown[d]
            /\ v.idle[d] = w.idle[d] /\ w.reused \subseteq v.reused
            /\ v.txid[d] = w.txid[d] /\ v.tx[d] = w.tx[d]
        BY <1>2, <1>8, <3>3
      <4> QED
        BY <3>1, <4>1, SameSound
    <3> QED
      BY <3>2, <3>3
  <2> QED
    BY <1>7, <2>1 DEF Good
<1>12. Later(v, w, s)
  <2>1. ASSUME NEW d \in Surfaces
        PROVE  /\ Len(v.cache[d]) <= Len(w.cache[d])
               /\ \A id \in Nat : AllBy(w.cache[d], id) => AllBy(v.cache[d], id)
               /\ d < s => v.current[d].buffer = w.current[d].buffer /\ v.shown[d] = w.shown[d]
    <3>1. Len(w.cache[d]) \in Nat /\ ~ (s < s)
      BY <1>1, WorldParts, DepthAssumption DEF Surfaces
    <3>2. CASE d = s
      <4>1. Len(v.cache[s]) <= Len(w.cache[s])
        BY <1>3, <1>8, <3>1
      <4> QED
        BY <1>9, <3>1, <3>2, <4>1
    <3>3. CASE d # s
      BY <1>2, <1>8, <3>1, <3>3
    <3> QED
      BY <3>2, <3>3
  <2> QED
    BY <1>2, <2>1 DEF Later
<1> QED
  BY <1>3, <1>8, <1>11, <1>12 DEF v

(* One round of the loop of apply_state(). *)
PopDue(w, s, id) ==
  IF w.cache[s] = <<>> \/ Head(w.cache[s]).id > id THEN w ELSE MakeCurrent(w, s)

(* apply_state() keeps the surfaces sound, and empties a cache without later
   commits. *)
LEMMA ApplyStateGood ==
  ASSUME Client, NEW w, Good(w), NEW s \in Surfaces, NEW id \in Nat
  PROVE  /\ Good(ApplyState(w, s, id)) /\ Later(ApplyState(w, s, id), w, s)
         /\ AllBy(w.cache[s], id) => ApplyState(w, s, id).cache[s] = <<>>
<1> DEFINE q == w.cache[s]
           n == Len(q)
           V == {v \in Worlds : Good(v) /\ Later(v, w, s)}
           step == [p \in V \X (1 .. n) |-> PopDue(p[1], s, id)]
           Runs(g) == g = [S \in SUBSET (1 .. n) |->
                             IF S = {} THEN w ELSE PopDue(g[S \ {Max(S)}], s, id)]
           iter == CHOOSE g : Runs(g)
<1>1. w \in Worlds /\ n \in Nat /\ DOMAIN q = 1 .. n /\ s \in Nat
  <2>1. w \in Worlds
    BY DEF Good
  <2>2. q \in Seq(Commits)
    BY <2>1, WorldParts
  <2> QED
    BY <2>1, <2>2, DepthAssumption DEF Surfaces
<1>2. w \in V
  BY <1>1 DEF Later
<1>3. ASSUME NEW v \in V
      PROVE  /\ PopDue(v, s, id) \in V
             /\ AllBy(v.cache[s], id) =>
                  PopDue(v, s, id).cache[s] = <<>>
                    \/ Len(PopDue(v, s, id).cache[s]) = Len(v.cache[s]) - 1
  <2>1. CASE v.cache[s] = <<>> \/ Head(v.cache[s]).id > id
    <3>1. PopDue(v, s, id) = v
      BY <2>1 DEF PopDue
    <3>2. ASSUME AllBy(v.cache[s], id), v.cache[s] # <<>> PROVE FALSE
      <4>1. v.cache[s] \in Seq(Commits)
        BY WorldParts
      <4>2. Head(v.cache[s]) = v.cache[s][1] /\ 1 \in DOMAIN v.cache[s] /\ v.cache[s][1] \in Commits
        BY <3>2, <4>1
      <4>3. v.cache[s][1].id \in Nat /\ v.cache[s][1].id <= id
        BY <3>2, <4>2 DEF AllBy, Commits
      <4> QED
        BY <2>1, <3>2, <4>2, <4>3
    <3> QED
      BY <3>1, <3>2
  <2>2. CASE ~ (v.cache[s] = <<>> \/ Head(v.cache[s]).id > id)
    <3> DEFINE u == MakeCurrent(v, s)
    <3>1. PopDue(v, s, id) = u
      BY <2>2 DEF PopDue
    <3>2. Good(u) /\ Later(u, v, s) /\ Len(u.cache[s]) = Len(v.cache[s]) - 1
      BY <2>2, MakeCurrentGood
    <3> HIDE DEF u
    <3>3. u \in Worlds
      BY <3>2 DEF Good
    <3>4. Later(u, w, s)
      BY <1>1, <3>2, <3>3, LaterThen
    <3> QED
      BY <3>1, <3>2, <3>3, <3>4
  <2> QED
    BY <2>1, <2>2
<1> HIDE DEF V
<1>4. step \in [V \X (1 .. n) -> V]
  BY <1>3
<1>5. Runs(iter)
  <2>1. PICK g : Recursion(g, w, n, step) /\ \A S \in SUBSET (1 .. n) : g[S] \in V
    <3>1. n \in Nat
      BY <1>1
    <3> HIDE DEF step, n
    <3> QED
      BY <1>2, <1>4, <3>1, FoldSolves
  <2>2. ASSUME NEW S \in SUBSET (1 .. n), S # {}
        PROVE  step[<<g[S \ {Max(S)}], Max(S)>>] = PopDue(g[S \ {Max(S)}], s, id)
    <3>1. Max(S) \in S
      BY <1>1, <2>2, MaxIn
    <3>2. g[S \ {Max(S)}] \in V /\ Max(S) \in 1 .. n
      BY <2>1, <3>1
    <3> QED
      BY <3>2
  <2>3. Runs(g)
    <3> HIDE DEF step
    <3> QED
      BY <2>1, <2>2 DEF Recursion
  <2> HIDE DEF Runs
  <2> QED
    BY <2>3
<1>6. ApplyState(w, s, id) = iter[1 .. n]
  BY <1>1 DEF ApplyState, FoldLeft, MapThenFoldSet, PopDue
<1>7. PICK run \in [0 .. n -> V] : Goes(run, w, n, step) /\ run[n] = iter[1 .. n]
  <2>1. iter[{}] = w
    BY <1>5
  <2>2. ASSUME NEW S \in SUBSET (1 .. n), S # {}, iter[S \ {Max(S)}] \in V
        PROVE  iter[S] = step[<<iter[S \ {Max(S)}], Max(S)>>]
    <3>1. Max(S) \in 1 .. n
      BY <1>1, <2>2, MaxIn
    <3>2. iter[S] = PopDue(iter[S \ {Max(S)}], s, id)
      <4> HIDE DEF iter
      <4> QED
        BY <1>5, <2>2
    <3> HIDE DEF iter
    <3> QED
      BY <2>2, <3>1, <3>2
  <2>3. n \in Nat
    BY <1>1
  <2> HIDE DEF iter, step, n
  <2>4. Obeys(iter, V, w, n, step)
    BY <2>1, <2>2 DEF Obeys
  <2>5. \E run : Path(run, V, w, n, step, iter[1 .. n])
    BY <1>2, <1>4, <2>3, <2>4, FoldRun
  <2> QED
    BY <2>5 DEF Path
<1>8. \A k \in 0 .. n - 1 : run[k] \in V /\ run[k + 1] = PopDue(run[k], s, id)
  <2> SUFFICES ASSUME NEW k \in 0 .. n - 1
               PROVE  run[k] \in V /\ run[k + 1] = PopDue(run[k], s, id)
    OBVIOUS
  <2>1. k \in 0 .. n /\ k + 1 \in 1 .. n
    BY <1>1
  <2> QED
    BY <1>7, <2>1 DEF Goes
<1>9. ASSUME AllBy(q, id) PROVE run[n].cache[s] = <<>>
  <2> DEFINE T == {k \in 0 .. n : Len(run[k].cache[s]) <= n - k}
  <2>1. 0 \in T
    BY <1>1, <1>7 DEF Goes
  <2>2. ASSUME NEW k \in 0 .. n - 1, k \in T PROVE k + 1 \in T
    <3>1. k \in 0 .. n /\ k + 1 \in 0 .. n /\ run[k] \in V /\ run[k + 1] \in V
      BY <1>1, <1>7
    <3>2. Len(run[k].cache[s]) \in Nat /\ Len(run[k + 1].cache[s]) \in Nat
      BY <3>1, WorldParts DEF V
    <3>3. AllBy(run[k].cache[s], id)
      BY <1>9, <3>1 DEF V, Later
    <3>4. \/ run[k + 1].cache[s] = <<>>
          \/ Len(run[k + 1].cache[s]) = Len(run[k].cache[s]) - 1
      BY <1>3, <1>8, <3>1, <3>3
    <3>5. Len(run[k + 1].cache[s]) <= n - (k + 1)
      <4>1. CASE run[k + 1].cache[s] = <<>>
        BY <1>1, <4>1
      <4>2. CASE Len(run[k + 1].cache[s]) = Len(run[k].cache[s]) - 1
        <5>1. Len(run[k].cache[s]) <= n - k
          BY <2>2
        <5> QED
          BY <1>1, <3>2, <4>2, <5>1
      <4> QED
        BY <3>4, <4>1, <4>2
    <3> QED
      BY <3>1, <3>5
  <2>3. \A k \in 0 .. n : k \in T
    <3> HIDE DEF T, n
    <3> QED
      BY <1>1, <2>1, <2>2, SetInductionUpTo
  <2>4. Len(run[n].cache[s]) <= 0 /\ run[n] \in V
    <3>1. n \in 0 .. n
      BY <1>1
    <3>2. Len(run[n].cache[s]) <= n - n
      BY <2>3, <3>1
    <3> QED
      BY <1>1, <1>7, <3>1, <3>2
  <2>5. run[n].cache[s] \in Seq(Commits)
    BY <2>4, WorldParts DEF V
  <2> QED
    BY <2>4, <2>5, EmptySeq
<1>10. run[n] \in V
  BY <1>1, <1>7
<1> HIDE DEF iter, n
<1> QED
  BY <1>6, <1>7, <1>9, <1>10 DEF V

(* update_buffer() of a tree keeps the surfaces sound. *)
LEMMA UpdateGood ==
  ASSUME Client, NEW w, Good(w), NEW s \in Surfaces
  PROVE  /\ Good(UpdateBuffer(w, s .. Depth)) /\ Later(UpdateBuffer(w, s .. Depth), w, s)
         /\ UpdateBuffer(w, s .. Depth).cache = w.cache
<1> DEFINE tree == s .. Depth
           new == {d \in tree : w.current[d].buffer # "none"}
           free == [d \in Surfaces |-> w.idle[d] \cup ({w.shown[d]} \ {"none", w.current[d].buffer})]
           v == UpdateBuffer(w, tree)
<1>1. w \in Worlds /\ \A d \in Surfaces : Sound(w, d) /\ w.tx[d] \in TxOf(d)
  BY DEF Good
<1>2. tree \subseteq Surfaces
  BY DepthAssumption DEF Surfaces
<1>3. /\ v.shown = [d \in Surfaces |-> IF d \in new THEN Show(w.current[d].buffer) ELSE w.shown[d]]
      /\ v.idle = [d \in Surfaces |-> IF d \in new
                      THEN w.idle[d] \cup ({w.shown[d]} \ {"none", w.current[d].buffer})
                      ELSE w.idle[d]]
      /\ v.current = [d \in Surfaces |-> IF d \in new THEN [w.current[d] EXCEPT !.buffer = "none"]
                                         ELSE w.current[d]]
      /\ v.pending = w.pending /\ v.cache = w.cache /\ v.txid = w.txid /\ v.tx = w.tx
      /\ v.reused = w.reused
      /\ v = [w EXCEPT !.shown = v.shown, !.idle = v.idle, !.current = v.current]
  BY <1>1 DEF UpdateBuffer, Worlds
<1> HIDE DEF v
<1>4. ASSUME NEW d \in Surfaces
      PROVE  /\ v.cache[d] = w.cache[d] /\ v.pending[d] = w.pending[d] /\ v.txid[d] = w.txid[d]
             /\ v.tx[d] = w.tx[d] /\ v.reused = w.reused
             /\ d \in new => /\ v.shown[d] = Show(w.current[d].buffer)
                             /\ v.idle[d] = free[d]
                             /\ v.current[d] = [w.current[d] EXCEPT !.buffer = "none"]
             /\ d \notin new => /\ v.shown[d] = w.shown[d] /\ v.idle[d] = w.idle[d]
                                /\ v.current[d] = w.current[d]
  <2> HIDE DEF new
  <2>1. /\ v.cache[d] = w.cache[d] /\ v.pending[d] = w.pending[d] /\ v.txid[d] = w.txid[d]
        /\ v.tx[d] = w.tx[d] /\ v.reused = w.reused
    BY <1>3
  <2>2. v.shown[d] = IF d \in new THEN Show(w.current[d].buffer) ELSE w.shown[d]
    BY <1>3
  <2>3. v.idle[d] = IF d \in new
                    THEN w.idle[d] \cup ({w.shown[d]} \ {"none", w.current[d].buffer})
                    ELSE w.idle[d]
    BY <1>3
  <2>4. v.current[d] = IF d \in new THEN [w.current[d] EXCEPT !.buffer = "none"]
                       ELSE w.current[d]
    BY <1>3
  <2>5. free[d] = w.idle[d] \cup ({w.shown[d]} \ {"none", w.current[d].buffer})
    OBVIOUS
  <2> HIDE DEF free
  <2> QED
    BY <2>1, <2>2, <2>3, <2>4, <2>5
<1> HIDE DEF new
<1>5. v \in Worlds
  <2>1. ASSUME NEW d \in Surfaces
        PROVE  /\ v.shown[d] \in Buffers \cup {"none"} /\ v.idle[d] \in SUBSET Buffers
               /\ v.current[d] \in States
    <3>1. /\ w.current[d] \in States /\ w.shown[d] \in Buffers \cup {"none"}
          /\ w.idle[d] \in SUBSET Buffers
      BY <1>1, WorldParts
    <3>2. [w.current[d] EXCEPT !.buffer = "none"] \in States
      BY <3>1 DEF States, Assignments
    <3>3. Show(w.current[d].buffer) \in Buffers \cup {"none"} /\ free[d] \in SUBSET Buffers
      BY <3>1 DEF Show
    <3> HIDE DEF free
    <3> QED
      BY <1>4, <3>1, <3>2, <3>3
  <2>2. /\ v.shown \in [Surfaces -> Buffers \cup {"none"}]
        /\ v.idle \in [Surfaces -> SUBSET Buffers]
        /\ v.current \in [Surfaces -> States]
    BY <1>3, <2>1
  <2> QED
    BY <1>1, <1>3, <2>2 DEF Worlds
<1>6. ASSUME NEW d \in Surfaces PROVE Sound(v, d)
  <2>1. CASE d \notin new
    BY <1>1, <1>4, <2>1, SameSound
  <2>2. CASE d \in new
    <3>1. PICK cut : Carried(w.cache[d], w.pending[d], w.current[d], asked[d], done[d], cut)
      BY <1>1 DEF Sound, Held
    <3>2. w.current[d] \in States /\ w.idle[d] \in SUBSET Buffers
      BY <1>1, WorldParts
    <3>3. w.current[d].buffer # "none" /\ "none" \notin w.idle[d]
      BY <2>2, <3>2, BuffersAssumption DEF new
    <3>4. /\ [w.current[d] EXCEPT !.buffer = "none"].frames = w.current[d].frames
          /\ [w.current[d] EXCEPT !.buffer = "none"].buffer = "none"
      BY <3>2 DEF States
    <3>5. Carried(w.cache[d], w.pending[d], [w.current[d] EXCEPT !.buffer = "none"],
                  asked[d], done[d], cut)
      BY <3>1, <3>4 DEF Carried
    <3>6. Held(v, d)
      BY <1>4, <2>2, <3>5 DEF Held
    <3>7. /\ Kept(w.cache[d], w.current[d].buffer, w.shown[d], w.idle[d]) =>
               Kept(w.cache[d], "none", Show(w.current[d].buffer), free[d])
          /\ Apart(w.cache[d], w.current[d].buffer, w.shown[d], w.idle[d]) =>
               Apart(w.cache[d], "none", Show(w.current[d].buffer), free[d])
      BY <3>3, ShowKept
    <3> HIDE DEF free
    <3>8. v.current[d].buffer = "none" /\ v.shown[d] = Show(w.current[d].buffer)
          /\ v.idle[d] = free[d] /\ v.cache[d] = w.cache[d] /\ v.reused = w.reused
      BY <1>4, <2>2, <3>4
    <3>9. Stored(v, d)
      BY <1>1, <3>7, <3>8 DEF Sound, Stored
    <3> QED
      BY <1>1, <1>4, <3>6, <3>9 DEF Sound
  <2> QED
    BY <2>1, <2>2
<1>7. Good(v)
  BY <1>1, <1>3, <1>5, <1>6 DEF Good
<1>8. Later(v, w, s)
  <2>1. ASSUME NEW d \in Surfaces
        PROVE  /\ Len(v.cache[d]) <= Len(w.cache[d])
               /\ \A id \in Nat : AllBy(w.cache[d], id) => AllBy(v.cache[d], id)
               /\ d < s => v.current[d].buffer = w.current[d].buffer /\ v.shown[d] = w.shown[d]
    <3>1. Len(w.cache[d]) \in Nat
      BY <1>1, WorldParts
    <3>2. d < s => d \notin new
      BY DepthAssumption DEF Surfaces, new
    <3>3. v.cache[d] = w.cache[d]
      BY <1>4
    <3>4. d < s => v.current[d].buffer = w.current[d].buffer /\ v.shown[d] = w.shown[d]
      BY <1>4, <3>2
    <3> HIDE DEF free
    <3> QED
      BY <3>1, <3>3, <3>4
  <2> QED
    BY <1>3, <2>1 DEF Later
<1> QED
  BY <1>3, <1>7, <1>8 DEF v

(* So does the commit handler. *)
LEMMA OnCommitGood ==
  ASSUME Client, NEW w, Good(w), NEW s \in Surfaces
  PROVE  /\ Good(OnCommit(w, s)) /\ Later(OnCommit(w, s), w, s)
         /\ OnCommit(w, s).cache = w.cache
<1>1. Good(w) /\ Later(w, w, s)
  <2>1. w \in Worlds
    BY DEF Good
  <2>2. \A d \in Surfaces : Len(w.cache[d]) <= Len(w.cache[d])
    <3> SUFFICES ASSUME NEW d \in Surfaces PROVE Len(w.cache[d]) <= Len(w.cache[d])
      OBVIOUS
    <3>1. Len(w.cache[d]) \in Nat
      BY <2>1, WorldParts
    <3> QED
      BY <3>1
  <2> QED
    BY <2>2 DEF Later
<1>2. CASE IsSync(s)
  BY <1>1, <1>2 DEF OnCommit
<1>3. CASE ~ IsSync(s)
  BY <1>3, UpdateGood DEF OnCommit
<1> QED
  BY <1>2, <1>3

(* One entry of a transaction applied. *)
TxStep(w, e) == OnCommit(ApplyState(w, e[1], e[2]), e[1])

(* Applying an entry empties the cache of its surface if that has no later
   commits. *)
LEMMA TxStepGood ==
  ASSUME Client, NEW w, Good(w), NEW e \in Surfaces \X Nat
  PROVE  /\ Good(TxStep(w, e)) /\ Later(TxStep(w, e), w, e[1])
         /\ AllBy(w.cache[e[1]], e[2]) => TxStep(w, e).cache[e[1]] = <<>>
<1> DEFINE u == ApplyState(w, e[1], e[2])
           v == OnCommit(u, e[1])
<1>1. e[1] \in Surfaces /\ e[2] \in Nat /\ e[1] \in Nat /\ e[1] <= e[1]
  BY DepthAssumption DEF Surfaces
<1>2. /\ Good(u) /\ Later(u, w, e[1])
      /\ AllBy(w.cache[e[1]], e[2]) => u.cache[e[1]] = <<>>
  BY <1>1, ApplyStateGood
<1> HIDE DEF u
<1>3. Good(v) /\ Later(v, u, e[1]) /\ v.cache = u.cache
  BY <1>1, <1>2, OnCommitGood
<1> HIDE DEF v
<1>4. w \in Worlds /\ u \in Worlds /\ v \in Worlds
  BY <1>2, <1>3 DEF Good
<1>5. Later(v, w, e[1])
  BY <1>1, <1>2, <1>3, <1>4, LaterThen
<1> QED
  BY <1>2, <1>3, <1>5 DEF TxStep, u, v

(* Transaction::apply keeps the surfaces sound, leaves alone what is above, and
   empties the caches it covers. *)
LEMMA ApplyTxGood ==
  ASSUME Client, NEW w, Good(w), NEW s \in Surfaces
  PROVE  LET w0 == [w EXCEPT !.tx[s] = <<>>]
             v == ApplyTx(w, s)
         IN /\ Good(v) /\ Later(v, w0, s)
            /\ \A i \in DOMAIN w.tx[s] :
                 AllBy(w.cache[w.tx[s][i][1]], w.tx[s][i][2]) =>
                   v.cache[w.tx[s][i][1]] = <<>>
<1> DEFINE q == w.tx[s]
           n == Len(q)
           w0 == [w EXCEPT !.tx[s] = <<>>]
           V == {v \in Worlds : Good(v) /\ Later(v, w0, s)}
           step == [p \in V \X (1 .. n) |-> TxStep(p[1], q[p[2]])]
           Runs(g) == g = [S \in SUBSET (1 .. n) |->
                             IF S = {} THEN w0 ELSE TxStep(g[S \ {Max(S)}], q[Max(S)])]
           iter == CHOOSE g : Runs(g)
<1>1. /\ w \in Worlds /\ q \in Seq(Surfaces \X Nat) /\ n \in Nat /\ DOMAIN q = 1 .. n
      /\ s \in Nat
      /\ \A i \in 1 .. n : /\ q[i] \in Surfaces \X Nat /\ s <= q[i][1]
                           /\ q[i][1] \in Surfaces /\ q[i][1] \in Nat /\ q[i][2] \in Nat
  <2>1. w \in Worlds /\ w.tx[s] \in TxOf(s)
    BY DEF Good
  <2>2. q \in Seq(Surfaces \X Nat) /\ \A i \in DOMAIN q : s <= q[i][1]
    BY <2>1 DEF TxOf
  <2> HIDE DEF q
  <2>3. n \in Nat /\ DOMAIN q = 1 .. n /\ \A i \in 1 .. n : q[i] \in Surfaces \X Nat
    BY <2>2
  <2>4. \A e \in Surfaces \X Nat : e[1] \in Surfaces /\ e[1] \in Nat /\ e[2] \in Nat
    BY DepthAssumption DEF Surfaces
  <2>5. s \in Nat
    BY DepthAssumption DEF Surfaces
  <2> QED
    BY <2>1, <2>2, <2>3, <2>4, <2>5
<1>2. Good(w0) /\ w0 \in Worlds /\ w0.cache = w.cache
  <2>1. /\ w0.tx = [w.tx EXCEPT ![s] = <<>>] /\ w0.cache = w.cache /\ w0.pending = w.pending
        /\ w0.current = w.current /\ w0.txid = w.txid /\ w0.shown = w.shown
        /\ w0.idle = w.idle /\ w0.reused = w.reused /\ w0 = [w EXCEPT !.tx = w0.tx]
    BY <1>1 DEF Worlds
  <2>2. <<>> \in TxOf(s) /\ <<>> \in Seq(Surfaces \X Nat)
    BY DEF TxOf
  <2> HIDE DEF w0
  <2>3. w0 \in Worlds
    <3>1. w0.tx \in [Surfaces -> Seq(Surfaces \X Nat)]
      BY <1>1, <2>1, <2>2 DEF Worlds
    <3> QED
      BY <1>1, <2>1, <3>1 DEF Worlds
  <2>4. ASSUME NEW d \in Surfaces PROVE Sound(w0, d) /\ w0.tx[d] \in TxOf(d)
    <3>1. Sound(w, d) /\ w.tx[d] \in TxOf(d)
      BY DEF Good
    <3>2. Sound(w0, d)
      BY <2>1, <3>1, SameSound
    <3>3. w0.tx[d] = IF d = s THEN <<>> ELSE w.tx[d]
      BY <1>1, <2>1 DEF Worlds
    <3> QED
      BY <2>2, <3>1, <3>2, <3>3
  <2> QED
    BY <2>1, <2>3, <2>4 DEF Good
<1> HIDE DEF w0
<1>3. w0 \in V
  <2>1. \A d \in Surfaces : Len(w0.cache[d]) <= Len(w0.cache[d])
    <3> SUFFICES ASSUME NEW d \in Surfaces PROVE Len(w0.cache[d]) <= Len(w0.cache[d])
      OBVIOUS
    <3>1. Len(w0.cache[d]) \in Nat
      BY <1>2, WorldParts
    <3> QED
      BY <3>1
  <2> QED
    BY <1>2, <2>1 DEF Later
<1> HIDE DEF q
<1>4. ASSUME NEW v \in V, NEW i \in 1 .. n
      PROVE  /\ TxStep(v, q[i]) \in V /\ Later(TxStep(v, q[i]), v, q[i][1])
             /\ AllBy(v.cache[q[i][1]], q[i][2]) => TxStep(v, q[i]).cache[q[i][1]] = <<>>
  <2> DEFINE u == TxStep(v, q[i])
  <2>1. /\ Good(u) /\ Later(u, v, q[i][1])
        /\ AllBy(v.cache[q[i][1]], q[i][2]) => u.cache[q[i][1]] = <<>>
    BY <1>1, TxStepGood
  <2> HIDE DEF u
  <2>2. u \in Worlds
    BY <2>1 DEF Good
  <2>3. Later(u, w0, s)
    <3>1. v \in Worlds /\ Later(v, w0, s) /\ w0 \in Worlds
      BY <1>2
    <3>2. s \in Nat /\ q[i][1] \in Nat /\ s <= q[i][1]
      BY <1>1
    <3> QED
      BY <2>1, <2>2, <3>1, <3>2, LaterThen
  <2>4. u \in V
    BY <2>1, <2>2, <2>3
  <2> QED
    BY <2>1, <2>4 DEF u
<1> HIDE DEF V
<1>5. step \in [V \X (1 .. n) -> V]
  BY <1>4
<1>6. Runs(iter)
  <2>1. PICK g : Recursion(g, w0, n, step) /\ \A S \in SUBSET (1 .. n) : g[S] \in V
    <3>1. n \in Nat
      BY <1>1
    <3> HIDE DEF step, n
    <3> QED
      BY <1>3, <1>5, <3>1, FoldSolves
  <2>2. ASSUME NEW S \in SUBSET (1 .. n), S # {}
        PROVE  step[<<g[S \ {Max(S)}], Max(S)>>] = TxStep(g[S \ {Max(S)}], q[Max(S)])
    <3>1. Max(S) \in S
      BY <1>1, <2>2, MaxIn
    <3>2. g[S \ {Max(S)}] \in V /\ Max(S) \in 1 .. n
      BY <2>1, <3>1
    <3> QED
      BY <3>2
  <2>3. Runs(g)
    <3> HIDE DEF step
    <3> QED
      BY <2>1, <2>2 DEF Recursion
  <2> HIDE DEF Runs
  <2> QED
    BY <2>3
<1>7. ApplyTx(w, s) = iter[1 .. n]
  BY <1>1 DEF ApplyTx, FoldLeft, MapThenFoldSet, TxStep, w0, q
<1>8. PICK run \in [0 .. n -> V] : Goes(run, w0, n, step) /\ run[n] = iter[1 .. n]
  <2>1. iter[{}] = w0
    BY <1>6
  <2>2. ASSUME NEW S \in SUBSET (1 .. n), S # {}, iter[S \ {Max(S)}] \in V
        PROVE  iter[S] = step[<<iter[S \ {Max(S)}], Max(S)>>]
    <3>1. Max(S) \in 1 .. n
      BY <1>1, <2>2, MaxIn
    <3>2. iter[S] = TxStep(iter[S \ {Max(S)}], q[Max(S)])
      <4> HIDE DEF iter
      <4> QED
        BY <1>6, <2>2
    <3> HIDE DEF iter
    <3> QED
      BY <2>2, <3>1, <3>2
  <2>3. n \in Nat
    BY <1>1
  <2> HIDE DEF iter, step, n
  <2>4. Obeys(iter, V, w0, n, step)
    BY <2>1, <2>2 DEF Obeys
  <2>5. \E run : Path(run, V, w0, n, step, iter[1 .. n])
    BY <1>3, <1>5, <2>3, <2>4, FoldRun
  <2> QED
    BY <2>5 DEF Path
<1>9. ASSUME NEW k \in 0 .. n - 1
      PROVE  /\ k \in 0 .. n /\ k + 1 \in 0 .. n /\ k + 1 \in 1 .. n
             /\ run[k] \in V /\ run[k + 1] \in V /\ run[k + 1] = TxStep(run[k], q[k + 1])
  <2>1. k \in 0 .. n /\ k + 1 \in 0 .. n /\ k + 1 \in 1 .. n
    BY <1>1
  <2> QED
    BY <1>8, <2>1 DEF Goes
<1> HIDE DEF iter, step
<1>10. \A k \in 0 .. n : \A i \in 1 .. k :
         AllBy(w.cache[q[i][1]], q[i][2]) => run[k].cache[q[i][1]] = <<>>
  <2> DEFINE T == {k \in 0 .. n : \A i \in 1 .. k :
                     AllBy(w.cache[q[i][1]], q[i][2]) => run[k].cache[q[i][1]] = <<>>}
  <2>1. 0 \in T
    BY <1>1
  <2>2. ASSUME NEW k \in 0 .. n - 1, k \in T PROVE k + 1 \in T
    <3>1. /\ k + 1 \in 0 .. n /\ k + 1 \in 1 .. n /\ run[k] \in V /\ run[k + 1] \in V
          /\ run[k + 1] = TxStep(run[k], q[k + 1])
      BY <1>9
    <3>2. /\ Later(run[k + 1], run[k], q[k + 1][1])
          /\ AllBy(run[k].cache[q[k + 1][1]], q[k + 1][2]) =>
               run[k + 1].cache[q[k + 1][1]] = <<>>
      BY <1>4, <3>1
    <3>3. ASSUME NEW i \in 1 .. k + 1, AllBy(w.cache[q[i][1]], q[i][2])
          PROVE  run[k + 1].cache[q[i][1]] = <<>>
      <4>1. CASE i = k + 1
        <5>1. AllBy(run[k].cache[q[i][1]], q[i][2])
          <6>1. Later(run[k], w0, s)
            BY <3>1 DEF V
          <6> QED
            BY <1>1, <1>2, <3>1, <3>3, <4>1, <6>1 DEF Later
        <5> QED
          BY <3>2, <4>1, <5>1
      <4>2. CASE i # k + 1
        <5>1. i \in 1 .. k /\ i \in 1 .. n
          BY <1>1, <4>2
        <5>2. run[k].cache[q[i][1]] = <<>> /\ q[i][1] \in Surfaces
          BY <1>1, <2>2, <3>3, <5>1
        <5>3. Len(run[k + 1].cache[q[i][1]]) <= 0
          <6>1. Len(run[k + 1].cache[q[i][1]]) <= Len(run[k].cache[q[i][1]])
            BY <3>2, <5>2 DEF Later
          <6> QED
            BY <5>2, <6>1
        <5>4. run[k + 1].cache[q[i][1]] \in Seq(Commits)
          BY <3>1, <5>2, WorldParts DEF V
        <5> QED
          BY <5>3, <5>4, EmptySeq
      <4> QED
        BY <4>1, <4>2
    <3> QED
      BY <3>1, <3>3
  <2>3. \A k \in 0 .. n : k \in T
    <3>1. n \in Nat
      BY <1>1
    <3> HIDE DEF T, n
    <3> QED
      BY <2>1, <2>2, <3>1, SetInductionUpTo
  <2> QED
    BY <2>3
<1>11. run[n] \in V /\ n \in 0 .. n
  BY <1>1, <1>8
<1>12. Good(run[n]) /\ Later(run[n], w0, s)
  BY <1>11 DEF V
<1>13. \A i \in DOMAIN q : AllBy(w.cache[q[i][1]], q[i][2]) => run[n].cache[q[i][1]] = <<>>
  BY <1>1, <1>10, <1>11
<1> HIDE DEF n
<1> QED
  BY <1>7, <1>8, <1>12, <1>13 DEF w0, q

-----------------------------------------------------------------------------
(* Transactions. *)

(* A transaction has an entry for a surface, by an id or a later one. *)
Has(q, d, id) == \E i \in DOMAIN q : q[i][1] = d /\ id <= q[i][2]

(* insert() finds the entry of the surface or makes one, and loses none. *)
LEMMA InsertKeeps ==
  ASSUME NEW m \in Nat, NEW q \in TxOf(m), NEW d \in Surfaces, m <= d, NEW id \in Nat
  PROVE  /\ Insert(q, d, id) \in TxOf(m) /\ Has(Insert(q, d, id), d, id)
         /\ \A e \in Surfaces, k \in Nat : Has(q, e, k) => Has(Insert(q, d, id), e, k)
<1> DEFINE r == Insert(q, d, id)
<1>1. /\ q \in Seq(Surfaces \X Nat) /\ \A i \in DOMAIN q : m <= q[i][1]
      /\ \A i, j \in DOMAIN q : q[i][1] = q[j][1] => i = j
  BY DEF TxOf
<1>2. /\ Len(q) \in Nat /\ DOMAIN q = 1 .. Len(q)
      /\ \A i \in DOMAIN q : q[i] \in Surfaces \X Nat /\ q[i][1] \in Surfaces /\ q[i][2] \in Nat
  BY <1>1
<1>3. <<d, id>> \in Surfaces \X Nat /\ <<d, id>>[1] = d /\ <<d, id>>[2] = id
  OBVIOUS
<1>4. CASE \E i \in DOMAIN q : q[i][1] = d
  <2>1. r = [i \in DOMAIN q |-> IF q[i][1] = d /\ q[i][2] < id THEN <<d, id>> ELSE q[i]]
    BY <1>4 DEF Insert
  <2>2. DOMAIN r = DOMAIN q
    BY <2>1
  <2>3. \A i \in DOMAIN q : /\ r[i] \in Surfaces \X Nat /\ r[i][1] = q[i][1]
                            /\ q[i][2] <= r[i][2]
                            /\ q[i][1] = d => id <= r[i][2]
    <3> SUFFICES ASSUME NEW i \in DOMAIN q
                 PROVE  /\ r[i] \in Surfaces \X Nat /\ r[i][1] = q[i][1]
                        /\ q[i][2] <= r[i][2]
                        /\ q[i][1] = d => id <= r[i][2]
      OBVIOUS
    <3>1. r[i] = IF q[i][1] = d /\ q[i][2] < id THEN <<d, id>> ELSE q[i]
      BY <2>1
    <3> HIDE DEF r
    <3>2. CASE q[i][1] = d /\ q[i][2] < id
      BY <1>2, <1>3, <3>1, <3>2
    <3>3. CASE ~ (q[i][1] = d /\ q[i][2] < id)
      BY <1>2, <3>1, <3>3
    <3> QED
      BY <3>2, <3>3
  <2> HIDE DEF r
  <2>4. r \in Seq(Surfaces \X Nat)
    <3>1. r \in [1 .. Len(q) -> Surfaces \X Nat]
      <4>1. r = [i \in DOMAIN q |-> r[i]]
        BY <2>1
      <4> QED
        BY <1>2, <2>3, <4>1
    <3> QED
      BY <1>2, <3>1
  <2>5. r \in TxOf(m)
    BY <1>1, <2>2, <2>3, <2>4 DEF TxOf
  <2>6. Has(r, d, id)
    BY <1>4, <2>2, <2>3 DEF Has
  <2>7. ASSUME NEW e \in Surfaces, NEW k \in Nat, Has(q, e, k) PROVE Has(r, e, k)
    <3>1. PICK i \in DOMAIN q : q[i][1] = e /\ k <= q[i][2]
      BY <2>7 DEF Has
    <3>2. r[i][1] = e /\ q[i][2] <= r[i][2] /\ r[i][2] \in Nat /\ q[i][2] \in Nat
      BY <1>2, <2>3, <3>1
    <3>3. k <= r[i][2]
      BY <3>1, <3>2
    <3> QED
      BY <2>2, <3>2, <3>3 DEF Has
  <2> QED
    BY <2>5, <2>6, <2>7 DEF r
<1>5. CASE ~ \E i \in DOMAIN q : q[i][1] = d
  <2> DEFINE n == Len(q)
  <2>1. r = Append(q, <<d, id>>)
    BY <1>5 DEF Insert
  <2> HIDE DEF r
  <2>2. /\ r \in Seq(Surfaces \X Nat) /\ Len(r) = n + 1 /\ r[n + 1] = <<d, id>>
        /\ \A i \in 1 .. n : r[i] = q[i]
    BY <1>1, <1>3, <2>1, AppendProperties
  <2>3. DOMAIN r = 1 .. n + 1 /\ n \in Nat /\ DOMAIN q = 1 .. n
    BY <1>2, <2>2
  <2>4. /\ \A i \in 1 .. n : i \in 1 .. n + 1
        /\ n + 1 \in 1 .. n + 1 /\ n + 1 \notin 1 .. n
        /\ \A i \in 1 .. n + 1 : i = n + 1 \/ i \in 1 .. n
    BY <2>3
  <2> HIDE DEF n
  <2>5. \A i \in DOMAIN r : m <= r[i][1]
    BY <1>1, <1>3, <2>2, <2>3, <2>4
  <2>6. \A i, j \in DOMAIN r : r[i][1] = r[j][1] => i = j
    <3>1. \A i \in 1 .. n : r[i][1] = q[i][1] /\ q[i][1] # d
      BY <1>5, <2>2, <2>3
    <3>2. r[n + 1][1] = d
      BY <1>3, <2>2
    <3>3. \A i, j \in 1 .. n : r[i][1] = r[j][1] => i = j
      BY <1>1, <2>3, <3>1
    <3> QED
      BY <2>3, <2>4, <3>1, <3>2, <3>3
  <2>7. r \in TxOf(m)
    BY <2>2, <2>5, <2>6 DEF TxOf
  <2>8. Has(r, d, id)
    <3>1. n + 1 \in DOMAIN r /\ r[n + 1][1] = d /\ r[n + 1][2] = id /\ id <= id
      BY <1>3, <2>2, <2>3, <2>4
    <3> QED
      BY <3>1 DEF Has
  <2>9. \A e \in Surfaces, k \in Nat : Has(q, e, k) => Has(r, e, k)
    BY <2>2, <2>3, <2>4 DEF Has
  <2> QED
    BY <2>7, <2>8, <2>9 DEF r
<1> QED
  BY <1>4, <1>5

(* merge_into() has what either has. *)
LEMMA MergeKeeps ==
  ASSUME NEW m \in Nat, NEW t \in TxOf(m), NEW into \in TxOf(m)
  PROVE  /\ MergeTx(t, into) \in TxOf(m)
         /\ \A e \in Surfaces, k \in Nat :
              Has(t, e, k) \/ Has(into, e, k) => Has(MergeTx(t, into), e, k)
<1> DEFINE n == Len(t)
           V == {q \in TxOf(m) : \A e \in Surfaces, k \in Nat : Has(into, e, k) => Has(q, e, k)}
           step == [p \in V \X (1 .. n) |-> Insert(p[1], t[p[2]][1], t[p[2]][2])]
           Runs(g) == g = [S \in SUBSET (1 .. n) |->
                             IF S = {} THEN into
                             ELSE Insert(g[S \ {Max(S)}], t[Max(S)][1], t[Max(S)][2])]
           iter == CHOOSE g : Runs(g)
<1>1. /\ t \in Seq(Surfaces \X Nat) /\ n \in Nat /\ DOMAIN t = 1 .. n
      /\ \A i \in 1 .. n : t[i][1] \in Surfaces /\ m <= t[i][1] /\ t[i][2] \in Nat
  <2>1. t \in Seq(Surfaces \X Nat) /\ \A i \in DOMAIN t : m <= t[i][1]
    BY DEF TxOf
  <2>2. n \in Nat /\ DOMAIN t = 1 .. n /\ \A i \in 1 .. n : t[i] \in Surfaces \X Nat
    BY <2>1
  <2> QED
    BY <2>1, <2>2
<1>2. into \in V
  OBVIOUS
<1>3. ASSUME NEW q \in V, NEW i \in 1 .. n
      PROVE  /\ Insert(q, t[i][1], t[i][2]) \in V
             /\ Has(Insert(q, t[i][1], t[i][2]), t[i][1], t[i][2])
             /\ \A e \in Surfaces, k \in Nat :
                  Has(q, e, k) => Has(Insert(q, t[i][1], t[i][2]), e, k)
  <2>1. /\ Insert(q, t[i][1], t[i][2]) \in TxOf(m)
        /\ Has(Insert(q, t[i][1], t[i][2]), t[i][1], t[i][2])
        /\ \A e \in Surfaces, k \in Nat :
             Has(q, e, k) => Has(Insert(q, t[i][1], t[i][2]), e, k)
    <3>1. q \in TxOf(m)
      OBVIOUS
    <3> QED
      BY <1>1, <3>1, InsertKeeps
  <2> QED
    BY <2>1
<1> HIDE DEF V
<1>4. step \in [V \X (1 .. n) -> V]
  BY <1>3
<1>5. Runs(iter)
  <2>1. PICK g : Recursion(g, into, n, step) /\ \A S \in SUBSET (1 .. n) : g[S] \in V
    <3>1. n \in Nat
      BY <1>1
    <3> HIDE DEF step, n
    <3> QED
      BY <1>2, <1>4, <3>1, FoldSolves
  <2>2. ASSUME NEW S \in SUBSET (1 .. n), S # {}
        PROVE  step[<<g[S \ {Max(S)}], Max(S)>>]
                 = Insert(g[S \ {Max(S)}], t[Max(S)][1], t[Max(S)][2])
    <3>1. Max(S) \in S
      BY <1>1, <2>2, MaxIn
    <3>2. g[S \ {Max(S)}] \in V /\ Max(S) \in 1 .. n
      BY <2>1, <3>1
    <3> QED
      BY <3>2
  <2>3. Runs(g)
    <3> HIDE DEF step
    <3> QED
      BY <2>1, <2>2 DEF Recursion
  <2> HIDE DEF Runs
  <2> QED
    BY <2>3
<1>6. MergeTx(t, into) = iter[1 .. n]
  BY <1>1 DEF MergeTx, FoldLeft, MapThenFoldSet
<1>7. PICK run \in [0 .. n -> V] : Goes(run, into, n, step) /\ run[n] = iter[1 .. n]
  <2>1. iter[{}] = into
    BY <1>5
  <2>2. ASSUME NEW S \in SUBSET (1 .. n), S # {}, iter[S \ {Max(S)}] \in V
        PROVE  iter[S] = step[<<iter[S \ {Max(S)}], Max(S)>>]
    <3>1. Max(S) \in 1 .. n
      BY <1>1, <2>2, MaxIn
    <3>2. iter[S] = Insert(iter[S \ {Max(S)}], t[Max(S)][1], t[Max(S)][2])
      <4> HIDE DEF iter
      <4> QED
        BY <1>5, <2>2
    <3> HIDE DEF iter
    <3> QED
      BY <2>2, <3>1, <3>2
  <2>3. n \in Nat
    BY <1>1
  <2> HIDE DEF iter, step, n
  <2>4. Obeys(iter, V, into, n, step)
    BY <2>1, <2>2 DEF Obeys
  <2>5. \E run : Path(run, V, into, n, step, iter[1 .. n])
    BY <1>2, <1>4, <2>3, <2>4, FoldRun
  <2> QED
    BY <2>5 DEF Path
<1>8. ASSUME NEW k \in 0 .. n - 1
      PROVE  /\ k \in 0 .. n /\ k + 1 \in 0 .. n /\ k + 1 \in 1 .. n
             /\ run[k] \in V /\ run[k + 1] = Insert(run[k], t[k + 1][1], t[k + 1][2])
  <2>1. k \in 0 .. n /\ k + 1 \in 0 .. n /\ k + 1 \in 1 .. n
    BY <1>1
  <2> QED
    BY <1>7, <2>1 DEF Goes
<1> HIDE DEF iter, step
<1>9. \A k \in 0 .. n : \A i \in 1 .. k : Has(run[k], t[i][1], t[i][2])
  <2> DEFINE T == {k \in 0 .. n : \A i \in 1 .. k : Has(run[k], t[i][1], t[i][2])}
  <2>1. 0 \in T
    BY <1>1
  <2>2. ASSUME NEW k \in 0 .. n - 1, k \in T PROVE k + 1 \in T
    <3>1. /\ k + 1 \in 0 .. n /\ k + 1 \in 1 .. n /\ run[k] \in V
          /\ run[k + 1] = Insert(run[k], t[k + 1][1], t[k + 1][2])
      BY <1>8
    <3>2. /\ Has(run[k + 1], t[k + 1][1], t[k + 1][2])
          /\ \A e \in Surfaces, j \in Nat : Has(run[k], e, j) => Has(run[k + 1], e, j)
      BY <1>3, <3>1
    <3>3. ASSUME NEW i \in 1 .. k + 1 PROVE Has(run[k + 1], t[i][1], t[i][2])
      <4>1. CASE i = k + 1
        BY <3>2, <4>1
      <4>2. CASE i # k + 1
        <5>1. i \in 1 .. k /\ i \in 1 .. n
          BY <1>1, <4>2
        <5>2. Has(run[k], t[i][1], t[i][2]) /\ t[i][1] \in Surfaces /\ t[i][2] \in Nat
          BY <1>1, <2>2, <5>1
        <5> QED
          BY <3>2, <5>2
      <4> QED
        BY <4>1, <4>2
    <3> QED
      BY <3>1, <3>3
  <2>3. \A k \in 0 .. n : k \in T
    <3>1. n \in Nat
      BY <1>1
    <3> HIDE DEF T, n
    <3> QED
      BY <2>1, <2>2, <3>1, SetInductionUpTo
  <2> QED
    BY <2>3
<1>10. run[n] \in V /\ n \in 0 .. n
  BY <1>1, <1>7
<1>11. ASSUME NEW e \in Surfaces, NEW k \in Nat, Has(t, e, k) PROVE Has(run[n], e, k)
  <2>1. PICK i \in 1 .. n : t[i][1] = e /\ k <= t[i][2]
    BY <1>1, <1>11 DEF Has
  <2>2. Has(run[n], t[i][1], t[i][2])
    BY <1>9, <1>10
  <2>3. PICK j \in DOMAIN run[n] : run[n][j][1] = e /\ t[i][2] <= run[n][j][2]
    BY <2>1, <2>2 DEF Has
  <2>4. t[i][2] \in Nat /\ run[n][j][2] \in Nat
    <3>1. run[n] \in Seq(Surfaces \X Nat)
      BY <1>10 DEF V, TxOf
    <3>2. run[n][j] \in Surfaces \X Nat
      BY <2>3, <3>1
    <3> QED
      BY <1>1, <3>2
  <2>5. k <= run[n][j][2]
    BY <2>1, <2>3, <2>4
  <2> QED
    BY <2>3, <2>5 DEF Has
<1>12. /\ run[n] \in TxOf(m)
       /\ \A e \in Surfaces, k \in Nat : Has(into, e, k) => Has(run[n], e, k)
  BY <1>10 DEF V
<1> QED
  BY <1>6, <1>7, <1>11, <1>12

(* The transaction of surface x covers surface d: applied, it empties its cache. *)
Covers(w, x, d) == \E id \in Nat : Has(w.tx[x], d, id) /\ AllBy(w.cache[d], id)

(* What is shown of the surfaces is the same. *)
Still(v, w) == v.current = w.current /\ v.shown = w.shown

(* The commit of one surface. *)
LEMMA SnapshotGood ==
  ASSUME Client, NEW w, Good(w), NEW s \in Surfaces
  PROVE  /\ Good(Snapshot(w, s)) /\ Still(Snapshot(w, s), w)
         /\ Snapshot(w, s).tx = w.tx /\ Snapshot(w, s).txid = w.txid
         /\ \A d \in Surfaces \ {s} : Snapshot(w, s).cache[d] = w.cache[d]
<1> DEFINE e == [id |-> w.txid[s], state |-> w.pending[s]]
           b == w.pending[s].buffer
           v == Snapshot(w, s)
<1>1. w \in Worlds /\ \A d \in Surfaces : Sound(w, d) /\ w.tx[d] \in TxOf(d)
  BY DEF Good
<1>2. /\ w.cache[s] \in Seq(Commits) /\ w.pending[s] \in States /\ w.txid[s] \in Nat
      /\ Len(w.cache[s]) \in Nat
  BY <1>1, WorldParts
<1>3. e \in Commits
  BY <1>2 DEF Commits
<1>4. /\ v.cache = [w.cache EXCEPT ![s] = Append(w.cache[s], e)]
      /\ v.pending = [w.pending EXCEPT ![s] = Nothing]
      /\ v.idle = [w.idle EXCEPT ![s] = w.idle[s] \ {b}]
      /\ v.reused = w.reused \cup (IF b \in Buffers \ w.idle[s] THEN {s} ELSE {})
      /\ v.current = w.current /\ v.shown = w.shown
      /\ v.tx = w.tx /\ v.txid = w.txid
      /\ v = [w EXCEPT !.cache = v.cache, !.pending = v.pending, !.idle = v.idle,
                      !.reused = v.reused]
  BY <1>1 DEF Snapshot, Worlds
<1> HIDE DEF v
<1>5. /\ Append(w.cache[s], e) \in Seq(Commits)
      /\ DOMAIN Append(w.cache[s], e) = 1 .. Len(w.cache[s]) + 1
      /\ Append(w.cache[s], e)[Len(w.cache[s]) + 1] = e
      /\ \A i \in 1 .. Len(w.cache[s]) : Append(w.cache[s], e)[i] = w.cache[s][i]
  BY <1>2, <1>3, AppendProperties
<1>6. e.id = w.txid[s] /\ e.state = w.pending[s] /\ e.state.buffer = b
  OBVIOUS
<1> HIDE DEF e, b
<1>7. v \in Worlds
  <2>1. Nothing \in States
    BY DEF Nothing, States, Assignments
  <2>2. /\ v.cache \in [Surfaces -> Seq(Commits)] /\ v.pending \in [Surfaces -> States]
        /\ v.idle \in [Surfaces -> SUBSET Buffers] /\ v.reused \in SUBSET Surfaces
    BY <1>1, <1>4, <1>5, <2>1 DEF Worlds
  <2> QED
    BY <1>1, <1>4, <2>2 DEF Worlds
<1>8. /\ v.cache[s] = Append(w.cache[s], e) /\ v.pending[s] = Nothing
      /\ v.idle[s] = w.idle[s] \ {b} /\ w.reused \subseteq v.reused
      /\ \A d \in Surfaces \ {s} : /\ v.cache[d] = w.cache[d] /\ v.pending[d] = w.pending[d]
                                   /\ v.idle[d] = w.idle[d]
  BY <1>1, <1>4 DEF Worlds
<1>9. AllBy(v.cache[s], v.txid[s])
  <2>1. \A i \in DOMAIN w.cache[s] : w.cache[s][i].id <= w.txid[s]
    BY <1>1 DEF Sound, AllBy
  <2>2. ASSUME NEW i \in 1 .. Len(w.cache[s]) + 1
        PROVE  Append(w.cache[s], e)[i].id <= w.txid[s]
    <3>1. CASE i = Len(w.cache[s]) + 1
      BY <1>2, <1>5, <1>6, <3>1
    <3>2. CASE i # Len(w.cache[s]) + 1
      <4>1. i \in 1 .. Len(w.cache[s]) /\ i \in DOMAIN w.cache[s]
        BY <1>2, <3>2
      <4> QED
        BY <1>5, <2>1, <4>1
    <3> QED
      BY <3>1, <3>2
  <2> QED
    BY <1>4, <1>5, <1>8, <2>2 DEF AllBy
<1>10. Held(v, s)
  <2>1. PICK cut : Carried(w.cache[s], w.pending[s], w.current[s], asked[s], done[s], cut)
    BY <1>1 DEF Sound, Held
  <2>2. asked[s] \in Nat
    BY ClientParts
  <2>3. \E cut2 : Carried(Append(w.cache[s], e), Nothing, w.current[s], asked[s], done[s], cut2)
    BY <1>2, <2>1, <2>2, PushCarried DEF e
  <2> QED
    BY <1>4, <1>8, <2>3 DEF Held
<1>13. Stored(v, s)
  <2>1. w.idle[s] \in SUBSET Buffers
    BY <1>1, WorldParts
  <2>2. /\ Kept(w.cache[s], w.current[s].buffer, w.shown[s], w.idle[s]) =>
             Kept(Append(w.cache[s], e), w.current[s].buffer, w.shown[s], w.idle[s] \ {b})
        /\ Apart(w.cache[s], w.current[s].buffer, w.shown[s], w.idle[s])
             /\ b \notin Buffers \ w.idle[s]
             => Apart(Append(w.cache[s], e), w.current[s].buffer, w.shown[s], w.idle[s] \ {b})
    BY <1>2, <1>3, <1>6, <2>1, PushKept
  <2>3. s \notin v.reused => s \notin w.reused /\ b \notin Buffers \ w.idle[s]
    BY <1>4
  <2> QED
    BY <1>1, <1>4, <1>8, <2>2, <2>3 DEF Sound, Stored
<1>11. ASSUME NEW d \in Surfaces PROVE Sound(v, d) /\ v.tx[d] \in TxOf(d)
  <2>1. Sound(w, d) /\ w.tx[d] \in TxOf(d)
    BY <1>1
  <2>2. CASE d = s
    BY <1>4, <1>9, <1>10, <1>13, <2>1, <2>2 DEF Sound
  <2>3. CASE d # s
    <3>1. /\ v.cache[d] = w.cache[d] /\ v.pending[d] = w.pending[d]
          /\ v.current[d] = w.current[d] /\ v.shown[d] = w.shown[d]
          /\ v.idle[d] = w.idle[d] /\ w.reused \subseteq v.reused
          /\ v.txid[d] = w.txid[d] /\ v.tx[d] = w.tx[d]
      BY <1>4, <1>8, <2>3
    <3> QED
      BY <2>1, <3>1, SameSound
  <2> QED
    BY <2>2, <2>3
<1>12. Good(v)
  BY <1>7, <1>11 DEF Good
<1> QED
  BY <1>4, <1>8, <1>12 DEF Still, v

(* A change of the transactions, and of the ids they go by, that leaves every
   surface its own. *)
Changes(v, w) ==
  /\ v \in Worlds
  /\ v.cache = w.cache /\ v.pending = w.pending /\ v.current = w.current
  /\ v.shown = w.shown /\ v.idle = w.idle /\ v.reused = w.reused
  /\ \A d \in Surfaces : v.tx[d] \in TxOf(d) /\ w.txid[d] <= v.txid[d]

(* It keeps the surfaces sound. *)
LEMMA TxGood ==
  ASSUME Client, NEW w, Good(w), NEW v, Changes(v, w)
  PROVE  Good(v) /\ Still(v, w)
<1>1. w \in Worlds /\ \A d \in Surfaces : Sound(w, d)
  BY DEF Good
<1>2. /\ v.cache = w.cache /\ v.pending = w.pending /\ v.current = w.current
      /\ v.shown = w.shown /\ v.idle = w.idle /\ v.reused = w.reused /\ v \in Worlds
      /\ \A d \in Surfaces : v.tx[d] \in TxOf(d) /\ w.txid[d] <= v.txid[d]
  BY DEF Changes
<1>3. ASSUME NEW d \in Surfaces PROVE Sound(v, d)
  <2>1. Held(w, d) /\ Stored(w, d) /\ AllBy(w.cache[d], w.txid[d])
    BY <1>1 DEF Sound
  <2>2. Held(v, d) /\ Stored(v, d)
    BY <1>2, <2>1 DEF Held, Stored
  <2>3. ASSUME NEW i \in DOMAIN w.cache[d] PROVE w.cache[d][i].id <= v.txid[d]
    <3>1. w.cache[d] \in Seq(Commits) /\ w.txid[d] \in Nat
      BY <1>1, WorldParts
    <3>2. w.cache[d][i] \in Commits
      BY <3>1
    <3>3. w.cache[d][i].id \in Nat /\ w.cache[d][i].id <= w.txid[d]
      BY <2>1, <3>2 DEF Commits, AllBy
    <3>4. w.txid[d] <= v.txid[d] /\ v.txid[d] \in Nat
      BY <1>2, WorldParts
    <3> QED
      BY <3>1, <3>3, <3>4
  <2>4. AllBy(v.cache[d], v.txid[d])
    BY <1>2, <2>3 DEF AllBy
  <2> QED
    BY <2>2, <2>4 DEF Sound
<1> QED
  BY <1>2, <1>3 DEF Good, Still

(* A surface hands its transaction to its parent, which then covers what either
   of them did. *)
LEMMA HandUpGood ==
  ASSUME Client, NEW w, Good(w), NEW s \in Surfaces, s # 1
  PROVE  /\ Good(HandUp(w, s)) /\ Still(HandUp(w, s), w)
         /\ HandUp(w, s).cache = w.cache
         /\ \A d \in Surfaces \ {s} : HandUp(w, s).txid[d] = w.txid[d]
         /\ \A d \in Surfaces : Covers(w, s, d) \/ Covers(w, s - 1, d) =>
                                  Covers(HandUp(w, s), s - 1, d)
<1> DEFINE v == HandUp(w, s)
           q == MergeTx(w.tx[s], w.tx[s - 1])
<1>1. /\ w \in Worlds /\ \A d \in Surfaces : w.tx[d] \in TxOf(d)
      /\ s - 1 \in Surfaces /\ s \in Nat /\ s - 1 \in Nat /\ s - 1 # s
  BY DepthAssumption DEF Good, Surfaces
<1>2. /\ v.tx = [w.tx EXCEPT ![s - 1] = q, ![s] = <<>>]
      /\ v.txid = [w.txid EXCEPT ![s] = w.txid[s] + 1]
      /\ v.cache = w.cache /\ v.pending = w.pending /\ v.current = w.current
      /\ v.shown = w.shown /\ v.idle = w.idle /\ v.reused = w.reused
      /\ v = [w EXCEPT !.tx = v.tx, !.txid = v.txid]
  BY <1>1 DEF HandUp, Worlds
<1> HIDE DEF v
<1>3. w.tx[s] \in TxOf(s - 1)
  <2>1. w.tx[s] \in Seq(Surfaces \X Nat) /\ w.tx[s] \in TxOf(s)
    BY <1>1, WorldParts
  <2>2. ASSUME NEW i \in DOMAIN w.tx[s] PROVE s - 1 <= w.tx[s][i][1]
    <3>1. s <= w.tx[s][i][1] /\ w.tx[s][i] \in Surfaces \X Nat
      BY <2>1 DEF TxOf
    <3>2. w.tx[s][i][1] \in Nat
      BY <3>1, DepthAssumption DEF Surfaces
    <3> QED
      BY <1>1, <3>1, <3>2
  <2> QED
    BY <2>1, <2>2 DEF TxOf
<1>4. /\ q \in TxOf(s - 1)
      /\ \A d \in Surfaces, k \in Nat : Has(w.tx[s], d, k) \/ Has(w.tx[s - 1], d, k) =>
                                          Has(q, d, k)
  BY <1>1, <1>3, MergeKeeps
<1> HIDE DEF q
<1>5. /\ w.tx \in [Surfaces -> Seq(Surfaces \X Nat)] /\ w.txid \in [Surfaces -> Nat]
      /\ q \in Seq(Surfaces \X Nat) /\ <<>> \in TxOf(s) /\ <<>> \in Seq(Surfaces \X Nat)
  BY <1>1, <1>4 DEF Worlds, TxOf
<1>6. /\ v.tx[s - 1] = q /\ v.tx[s] = <<>> /\ \A d \in Surfaces \ {s, s - 1} : v.tx[d] = w.tx[d]
      /\ v.tx \in [Surfaces -> Seq(Surfaces \X Nat)]
  BY <1>1, <1>2, <1>5
<1>7. /\ v.txid \in [Surfaces -> Nat]
      /\ \A d \in Surfaces : w.txid[d] <= v.txid[d] /\ (d # s => v.txid[d] = w.txid[d])
  <2>1. w.txid[s] + 1 \in Nat
    BY <1>5
  <2> QED
    BY <1>2, <1>5, <2>1
<1>8. Changes(v, w)
  <2>1. v \in Worlds
    BY <1>1, <1>2, <1>6, <1>7 DEF Worlds
  <2>2. ASSUME NEW d \in Surfaces PROVE v.tx[d] \in TxOf(d)
    BY <1>1, <1>4, <1>5, <1>6
  <2> QED
    BY <1>2, <1>7, <2>1, <2>2 DEF Changes
<1>9. Good(v) /\ Still(v, w)
  BY <1>8, TxGood
<1>10. ASSUME NEW d \in Surfaces, Covers(w, s, d) \/ Covers(w, s - 1, d)
       PROVE  Covers(v, s - 1, d)
  BY <1>2, <1>4, <1>6, <1>10 DEF Covers
<1> QED
  BY <1>2, <1>7, <1>9, <1>10 DEF v

(* A surface enters its own transaction. *)
Enter(w, s, next) ==
  [w EXCEPT !.tx[s] = Insert(@, s, w.txid[s]), !.txid[s] = next]

(* Its transaction then covers it, and what it covered. *)
LEMMA EnterGood ==
  ASSUME Client, NEW w, Good(w), NEW s \in Surfaces, NEW next \in Nat, w.txid[s] <= next
  PROVE  /\ Good(Enter(w, s, next)) /\ Still(Enter(w, s, next), w)
         /\ Enter(w, s, next).cache = w.cache
         /\ \A d \in Surfaces \ {s} : Enter(w, s, next).txid[d] = w.txid[d]
         /\ Covers(Enter(w, s, next), s, s)
         /\ \A d \in Surfaces : Covers(w, s, d) => Covers(Enter(w, s, next), s, d)
<1> DEFINE q == Insert(w.tx[s], s, w.txid[s])
           v == Enter(w, s, next)
<1>1. /\ w \in Worlds /\ \A d \in Surfaces : w.tx[d] \in TxOf(d) /\ Sound(w, d)
      /\ s \in Nat /\ s <= s
  BY DepthAssumption DEF Good, Surfaces
<1>2. /\ v.tx = [w.tx EXCEPT ![s] = q]
      /\ v.txid = [w.txid EXCEPT ![s] = next]
      /\ v.cache = w.cache /\ v.pending = w.pending /\ v.current = w.current
      /\ v.shown = w.shown /\ v.idle = w.idle /\ v.reused = w.reused
      /\ v = [w EXCEPT !.tx = v.tx, !.txid = v.txid]
  BY <1>1 DEF Enter, Worlds
<1> HIDE DEF v
<1>3. w.txid[s] \in Nat /\ w.tx[s] \in TxOf(s)
  BY <1>1, WorldParts
<1>4. /\ q \in TxOf(s) /\ Has(q, s, w.txid[s])
      /\ \A e \in Surfaces, k \in Nat : Has(w.tx[s], e, k) => Has(q, e, k)
  BY <1>1, <1>3, InsertKeeps
<1> HIDE DEF q
<1>5. /\ w.tx \in [Surfaces -> Seq(Surfaces \X Nat)] /\ w.txid \in [Surfaces -> Nat]
      /\ q \in Seq(Surfaces \X Nat)
  BY <1>1, <1>4 DEF Worlds, TxOf
<1>6. /\ v.tx[s] = q /\ \A d \in Surfaces \ {s} : v.tx[d] = w.tx[d]
      /\ v.tx \in [Surfaces -> Seq(Surfaces \X Nat)]
  BY <1>2, <1>5
<1>7. /\ v.txid \in [Surfaces -> Nat]
      /\ \A d \in Surfaces : w.txid[d] <= v.txid[d] /\ (d # s => v.txid[d] = w.txid[d])
  BY <1>2, <1>5
<1>8. Changes(v, w)
  <2>1. v \in Worlds
    BY <1>1, <1>2, <1>6, <1>7 DEF Worlds
  <2>2. ASSUME NEW d \in Surfaces PROVE v.tx[d] \in TxOf(d)
    BY <1>1, <1>4, <1>6
  <2> QED
    BY <1>2, <1>7, <2>1, <2>2 DEF Changes
<1>9. Good(v) /\ Still(v, w)
  BY <1>8, TxGood
<1>10. Covers(v, s, s)
  <2>1. AllBy(w.cache[s], w.txid[s])
    BY <1>1 DEF Sound
  <2> QED
    BY <1>2, <1>3, <1>4, <1>6, <2>1 DEF Covers
<1>11. ASSUME NEW d \in Surfaces, Covers(w, s, d) PROVE Covers(v, s, d)
  BY <1>2, <1>4, <1>6, <1>11 DEF Covers
<1> QED
  BY <1>2, <1>7, <1>9, <1>10, <1>11 DEF v

(* commit_sync_surface_tree() of one surface: its parent covers it, and all that
   it covered. *)
LEMMA CommitSyncGood ==
  ASSUME Client, NEW w, Good(w), NEW s \in Surfaces, s # 1
  PROVE  /\ Good(CommitSync(w, s)) /\ Still(CommitSync(w, s), w)
         /\ \A d \in Surfaces \ {s} : /\ CommitSync(w, s).txid[d] = w.txid[d]
                                      /\ CommitSync(w, s).cache[d] = w.cache[d]
         /\ Covers(CommitSync(w, s), s - 1, s)
         /\ \A d \in Surfaces \ {s} : Covers(w, s, d) => Covers(CommitSync(w, s), s - 1, d)
<1> DEFINE u == Snapshot(w, s)
           e == Enter(u, s, w.txid[s])
           v == HandUp(e, s)
<1>1. w \in Worlds /\ w.txid[s] \in Nat
  BY WorldParts DEF Good
<1>2. /\ Good(u) /\ Still(u, w) /\ u.tx = w.tx /\ u.txid = w.txid
      /\ \A d \in Surfaces \ {s} : u.cache[d] = w.cache[d]
  BY SnapshotGood
<1> HIDE DEF u
<1>3. [u EXCEPT !.tx[s] = Insert(@, s, w.txid[s])] = e
  <2>1. u \in Worlds
    BY <1>2 DEF Good
  <2>2. [u.txid EXCEPT ![s] = w.txid[s]] = u.txid
    BY <1>1, <1>2 DEF Worlds
  <2> QED
    BY <1>2, <2>1, <2>2 DEF Worlds, Enter
<1>4. /\ Good(e) /\ Still(e, u) /\ e.cache = u.cache
      /\ \A d \in Surfaces \ {s} : e.txid[d] = u.txid[d]
      /\ Covers(e, s, s) /\ \A d \in Surfaces : Covers(u, s, d) => Covers(e, s, d)
  <2>1. u.txid[s] <= w.txid[s]
    BY <1>1, <1>2
  <2> QED
    BY <1>1, <1>2, <2>1, EnterGood
<1>6. CommitSync(w, s) = v
  BY <1>3 DEF CommitSync, u
<1> HIDE DEF e
<1>5. /\ Good(v) /\ Still(v, e) /\ v.cache = e.cache
      /\ \A d \in Surfaces \ {s} : v.txid[d] = e.txid[d]
      /\ \A d \in Surfaces : Covers(e, s, d) => Covers(v, s - 1, d)
  BY <1>4, HandUpGood
<1> HIDE DEF v
<1>7. \A d \in Surfaces \ {s} : Covers(w, s, d) => Covers(u, s, d)
  BY <1>2 DEF Covers
<1> QED
  BY <1>2, <1>4, <1>5, <1>6, <1>7 DEF Still

(* The subsurfaces of s, the lowest of the chain first. *)
Below(s) == [i \in 1 .. Depth - s |-> Depth + 1 - i]

(* When all of them are done, the transaction of s covers each. *)
LEMMA ChainGood ==
  ASSUME Client, NEW w, Good(w), NEW s \in Surfaces
  PROVE  LET v == FoldLeft(CommitSync, w, Below(s))
         IN /\ Good(v) /\ Still(v, w) /\ v.cache[s] = w.cache[s] /\ v.txid[s] = w.txid[s]
            /\ \A d \in s + 1 .. Depth : Covers(v, s, d)
<1> DEFINE n == Depth - s
           q == Below(s)
           V == {v \in Worlds : /\ Good(v) /\ Still(v, w)
                                /\ v.cache[s] = w.cache[s] /\ v.txid[s] = w.txid[s]}
           step == [p \in V \X (1 .. n) |-> CommitSync(p[1], q[p[2]])]
           Runs(g) == g = [S \in SUBSET (1 .. n) |->
                             IF S = {} THEN w ELSE CommitSync(g[S \ {Max(S)}], q[Max(S)])]
           iter == CHOOSE g : Runs(g)
<1>1. /\ n \in Nat /\ s \in Nat /\ Depth \in Nat /\ DOMAIN q = 1 .. n /\ w \in Worlds
      /\ \A i \in 1 .. n : /\ q[i] = Depth + 1 - i /\ q[i] \in Surfaces /\ q[i] # 1
                           /\ q[i] # s /\ q[i] - 1 = Depth - i
  <2>1. n \in Nat /\ s \in Nat /\ 1 <= s /\ Depth \in Nat /\ w \in Worlds
    BY DepthAssumption DEF Surfaces, Good
  <2>2. DOMAIN q = 1 .. n /\ \A i \in 1 .. n : q[i] = Depth + 1 - i
    BY DEF Below
  <2>3. \A i \in 1 .. n : /\ Depth + 1 - i \in 1 .. Depth /\ Depth + 1 - i # 1
                          /\ Depth + 1 - i # s /\ (Depth + 1 - i) - 1 = Depth - i
    BY <2>1
  <2> QED
    BY <2>1, <2>2, <2>3 DEF Surfaces
<1> HIDE DEF q
<1>2. w \in V
  BY <1>1 DEF Still
<1>3. ASSUME NEW v \in V, NEW i \in 1 .. n
      PROVE  /\ CommitSync(v, q[i]) \in V
             /\ Covers(CommitSync(v, q[i]), q[i] - 1, q[i])
             /\ \A d \in Surfaces \ {q[i]} :
                  Covers(v, q[i], d) => Covers(CommitSync(v, q[i]), q[i] - 1, d)
  <2> DEFINE u == CommitSync(v, q[i])
  <2>1. Good(v) /\ q[i] \in Surfaces /\ q[i] # 1
    BY <1>1
  <2>2. /\ Good(u) /\ Still(u, v)
        /\ \A d \in Surfaces \ {q[i]} : u.txid[d] = v.txid[d] /\ u.cache[d] = v.cache[d]
        /\ Covers(u, q[i] - 1, q[i])
        /\ \A d \in Surfaces \ {q[i]} : Covers(v, q[i], d) => Covers(u, q[i] - 1, d)
    BY <2>1, CommitSyncGood
  <2> HIDE DEF u
  <2>3. u \in Worlds
    BY <2>2 DEF Good
  <2>4. u.txid[s] = v.txid[s] /\ u.cache[s] = v.cache[s]
    BY <1>1, <2>2
  <2>5. Still(u, w)
    BY <2>2 DEF Still
  <2>6. u \in V
    BY <2>2, <2>3, <2>4, <2>5
  <2> QED
    BY <2>2, <2>6 DEF u
<1> HIDE DEF V
<1>4. step \in [V \X (1 .. n) -> V]
  BY <1>3
<1>5. Runs(iter)
  <2>1. PICK g : Recursion(g, w, n, step) /\ \A S \in SUBSET (1 .. n) : g[S] \in V
    <3>1. n \in Nat
      BY <1>1
    <3> HIDE DEF step, n
    <3> QED
      BY <1>2, <1>4, <3>1, FoldSolves
  <2>2. ASSUME NEW S \in SUBSET (1 .. n), S # {}
        PROVE  step[<<g[S \ {Max(S)}], Max(S)>>] = CommitSync(g[S \ {Max(S)}], q[Max(S)])
    <3>1. Max(S) \in S
      BY <1>1, <2>2, MaxIn
    <3>2. g[S \ {Max(S)}] \in V /\ Max(S) \in 1 .. n
      BY <2>1, <3>1
    <3> QED
      BY <3>2
  <2>3. Runs(g)
    <3> HIDE DEF step
    <3> QED
      BY <2>1, <2>2 DEF Recursion
  <2> HIDE DEF Runs
  <2> QED
    BY <2>3
<1>6. FoldLeft(CommitSync, w, Below(s)) = iter[1 .. n]
  BY <1>1 DEF FoldLeft, MapThenFoldSet, q
<1>7. PICK run \in [0 .. n -> V] : Goes(run, w, n, step) /\ run[n] = iter[1 .. n]
  <2>1. iter[{}] = w
    BY <1>5
  <2>2. ASSUME NEW S \in SUBSET (1 .. n), S # {}, iter[S \ {Max(S)}] \in V
        PROVE  iter[S] = step[<<iter[S \ {Max(S)}], Max(S)>>]
    <3>1. Max(S) \in 1 .. n
      BY <1>1, <2>2, MaxIn
    <3>2. iter[S] = CommitSync(iter[S \ {Max(S)}], q[Max(S)])
      <4> HIDE DEF iter
      <4> QED
        BY <1>5, <2>2
    <3> HIDE DEF iter
    <3> QED
      BY <2>2, <3>1, <3>2
  <2>3. n \in Nat
    BY <1>1
  <2> HIDE DEF iter, step, n
  <2>4. Obeys(iter, V, w, n, step)
    BY <2>1, <2>2 DEF Obeys
  <2>5. \E run : Path(run, V, w, n, step, iter[1 .. n])
    BY <1>2, <1>4, <2>3, <2>4, FoldRun
  <2> QED
    BY <2>5 DEF Path
<1>8. ASSUME NEW k \in 0 .. n - 1
      PROVE  /\ k \in 0 .. n /\ k + 1 \in 0 .. n /\ k + 1 \in 1 .. n
             /\ run[k] \in V /\ run[k + 1] = CommitSync(run[k], q[k + 1])
  <2>1. k \in 0 .. n /\ k + 1 \in 0 .. n /\ k + 1 \in 1 .. n
    BY <1>1
  <2> QED
    BY <1>7, <2>1 DEF Goes
<1> HIDE DEF iter, step
<1>9. \A k \in 0 .. n : \A d \in Depth + 1 - k .. Depth : Covers(run[k], Depth - k, d)
  <2> DEFINE T == {k \in 0 .. n :
                     \A d \in Depth + 1 - k .. Depth : Covers(run[k], Depth - k, d)}
  <2>1. 0 \in T
    BY <1>1
  <2>2. ASSUME NEW k \in 0 .. n - 1, k \in T PROVE k + 1 \in T
    <3>1. /\ k + 1 \in 0 .. n /\ k + 1 \in 1 .. n /\ run[k] \in V
          /\ run[k + 1] = CommitSync(run[k], q[k + 1])
      BY <1>8
    <3>2. q[k + 1] = Depth - k /\ q[k + 1] - 1 = Depth - (k + 1)
      <4>1. Depth + 1 - (k + 1) = Depth - k
        BY <1>1
      <4> QED
        BY <1>1, <3>1, <4>1
    <3>3. /\ Covers(run[k + 1], Depth - (k + 1), Depth - k)
          /\ \A d \in Surfaces \ {Depth - k} :
               Covers(run[k], Depth - k, d) => Covers(run[k + 1], Depth - (k + 1), d)
      BY <1>3, <3>1, <3>2
    <3>4. ASSUME NEW d \in Depth + 1 - (k + 1) .. Depth
          PROVE  Covers(run[k + 1], Depth - (k + 1), d)
      <4>1. CASE d = Depth - k
        BY <3>3, <4>1
      <4>2. CASE d # Depth - k
        <5>1. d \in Depth + 1 - k .. Depth /\ d \in Surfaces
          BY <1>1, <4>2 DEF Surfaces
        <5>2. Covers(run[k], Depth - k, d)
          BY <2>2, <5>1
        <5> QED
          BY <3>3, <4>2, <5>1, <5>2
      <4> QED
        BY <4>1, <4>2
    <3> QED
      BY <3>1, <3>4
  <2>3. \A k \in 0 .. n : k \in T
    <3>1. n \in Nat
      BY <1>1
    <3> HIDE DEF T, n
    <3> QED
      BY <2>1, <2>2, <3>1, SetInductionUpTo
  <2> QED
    BY <2>3
<1>10. run[n] \in V /\ n \in 0 .. n /\ Depth - n = s /\ Depth + 1 - n = s + 1
  BY <1>1, <1>7
<1>11. \A d \in s + 1 .. Depth : Covers(run[n], s, d)
  BY <1>9, <1>10
<1> QED
  BY <1>6, <1>7, <1>10, <1>11 DEF V

(* The loop over the children. *)
LEMMA ChildrenGood ==
  ASSUME Client, NEW w, Good(w), NEW s \in Surfaces
  PROVE  LET v == TakeChildren(w, s)
         IN /\ Good(v) /\ Still(v, w) /\ v.cache[s] = w.cache[s] /\ v.txid[s] = w.txid[s]
            /\ ~ IsSync(s) /\ s < Depth /\ sync[s + 1] =>
                 \A d \in s + 1 .. Depth : Covers(v, s, d)
<1> DEFINE v == TakeChildren(w, s)
<1>1. Still(w, w) /\ s \in Nat /\ Depth \in Nat
  BY DepthAssumption DEF Still, Surfaces
<1>2. CASE ~ (s < Depth)
  <2>1. v = w
    BY <1>2 DEF TakeChildren
  <2> HIDE DEF v
  <2> QED
    BY <1>1, <1>2, <2>1 DEF v
<1>3. CASE s < Depth /\ IsSync(s)
  <2>1. s + 1 \in Surfaces /\ s + 1 # 1 /\ s \in Surfaces \ {s + 1}
    BY <1>1, <1>3 DEF Surfaces
  <2>2. v = HandUp(w, s + 1)
    BY <1>3 DEF TakeChildren
  <2> HIDE DEF v
  <2>3. /\ Good(v) /\ Still(v, w) /\ v.cache = w.cache
        /\ \A d \in Surfaces \ {s + 1} : v.txid[d] = w.txid[d]
    BY <2>1, <2>2, HandUpGood
  <2>4. v.txid[s] = w.txid[s] /\ v.cache[s] = w.cache[s]
    BY <2>1, <2>3
  <2> QED
    BY <1>3, <2>3, <2>4 DEF v
<1>4. CASE s < Depth /\ ~ IsSync(s) /\ sync[s + 1]
  <2>1. v = FoldLeft(CommitSync, w, Below(s))
    BY <1>4 DEF TakeChildren, Below
  <2> HIDE DEF v
  <2>2. /\ Good(v) /\ Still(v, w) /\ v.cache[s] = w.cache[s] /\ v.txid[s] = w.txid[s]
        /\ \A d \in s + 1 .. Depth : Covers(v, s, d)
    BY <2>1, ChainGood
  <2> QED
    BY <2>2 DEF v
<1>5. CASE s < Depth /\ ~ IsSync(s) /\ ~ sync[s + 1]
  <2>1. v = w
    BY <1>5 DEF TakeChildren
  <2> QED
    BY <1>1, <1>5, <2>1
<1> QED
  BY <1>2, <1>3, <1>4, <1>5

-----------------------------------------------------------------------------
(* Requests. *)

(* The state a commit leads to. *)
Entered(s) == Enter(TakeChildren(Snapshot(World, s), s), s, txid[s] + 1)
Committed(s) == Settle(Entered(s), s)

(* Before anything is applied, nothing that is shown differs, and the transaction
   of a surface nothing holds back covers it and the subsurfaces that wait for it. *)
LEMMA EnteredGood ==
  ASSUME Client, Good(World), NEW s \in Surfaces
  PROVE  /\ Good(Entered(s)) /\ Still(Entered(s), World)
         /\ Covers(Entered(s), s, s)
         /\ ~ IsSync(s) /\ s < Depth /\ sync[s + 1] =>
              \A d \in s + 1 .. Depth : Covers(Entered(s), s, d)
         /\ TakeChildren(Snapshot(World, s), s).txid[s] = txid[s]
<1> DEFINE u == Snapshot(World, s)
           m == TakeChildren(u, s)
           e == Enter(m, s, txid[s] + 1)
<1>1. World \in Worlds /\ World.txid = txid /\ txid[s] \in Nat
  <2>1. World \in Worlds /\ World.txid = txid
    BY DEF Good, World
  <2>2. World.txid[s] \in Nat
    BY <2>1, WorldParts
  <2> QED
    BY <2>1, <2>2
<1>2. Good(u) /\ Still(u, World) /\ u.txid = txid
  BY <1>1, SnapshotGood
<1> HIDE DEF u
<1>3. /\ Good(m) /\ Still(m, u) /\ m.txid[s] = u.txid[s]
      /\ ~ IsSync(s) /\ s < Depth /\ sync[s + 1] => \A d \in s + 1 .. Depth : Covers(m, s, d)
  BY <1>2, ChildrenGood
<1> HIDE DEF m
<1>4. m.txid[s] = txid[s] /\ m.txid[s] <= txid[s] + 1 /\ txid[s] + 1 \in Nat
  BY <1>1, <1>2, <1>3
<1>5. /\ Good(e) /\ Still(e, m) /\ Covers(e, s, s)
      /\ \A d \in Surfaces : Covers(m, s, d) => Covers(e, s, d)
  BY <1>3, <1>4, EnterGood
<1>6. Entered(s) = e
  BY DEF Entered, u, m
<1> HIDE DEF e
<1>7. \A d \in s + 1 .. Depth : d \in Surfaces
  BY DepthAssumption DEF Surfaces
<1>8. ~ IsSync(s) /\ s < Depth /\ sync[s + 1] => \A d \in s + 1 .. Depth : Covers(e, s, d)
  BY <1>3, <1>5, <1>7
<1>9. Still(e, World)
  BY <1>2, <1>3, <1>5 DEF Still
<1> QED
  BY <1>4, <1>5, <1>6, <1>8, <1>9 DEF u, m

(* A commit keeps the surfaces sound.  One that waits shows nothing else; one that
   does not touches no surface above it and leaves nothing cached of itself and of
   the subsurfaces that wait for it. *)
LEMMA CommittedGood ==
  ASSUME Client, Good(World), NEW s \in Surfaces
  PROVE  /\ Good(Committed(s))
         /\ IsSync(s) => Still(Committed(s), World)
         /\ ~ IsSync(s) =>
              /\ \A d \in Surfaces : d < s =>
                   /\ Committed(s).current[d].buffer = current[d].buffer
                   /\ Committed(s).shown[d] = shown[d]
              /\ \A d \in s .. Depth : d = s \/ sync[s + 1] => Committed(s).cache[d] = <<>>
<1> DEFINE e == Entered(s)
           v == Committed(s)
           e0 == [e EXCEPT !.tx[s] = <<>>]
<1>1. /\ Good(e) /\ Still(e, World) /\ Covers(e, s, s)
      /\ ~ IsSync(s) /\ s < Depth /\ sync[s + 1] => \A d \in s + 1 .. Depth : Covers(e, s, d)
  BY EnteredGood
<1>2. World.current = current /\ World.shown = shown
  BY DEF World
<1> HIDE DEF e
<1>3. CASE IsSync(s)
  <2>1. v = e
    BY <1>3 DEF Committed, Settle, e
  <2> HIDE DEF v
  <2> QED
    BY <1>1, <1>3, <2>1 DEF v
<1>4. CASE ~ IsSync(s)
  <2>1. v = ApplyTx(e, s)
    BY <1>4 DEF Committed, Settle, e
  <2> HIDE DEF v
  <2>2. /\ Good(v) /\ Later(v, e0, s)
        /\ \A i \in DOMAIN e.tx[s] :
             AllBy(e.cache[e.tx[s][i][1]], e.tx[s][i][2]) => v.cache[e.tx[s][i][1]] = <<>>
    BY <1>1, <2>1, ApplyTxGood
  <2>3. e0.current = current /\ e0.shown = shown
    <3>1. e \in Worlds
      BY <1>1 DEF Good
    <3>2. e0.current = e.current /\ e0.shown = e.shown
      BY <3>1 DEF Worlds
    <3> QED
      BY <1>1, <1>2, <3>2 DEF Still
  <2> HIDE DEF e0
  <2>4. \A d \in Surfaces : d < s => v.current[d].buffer = current[d].buffer /\ v.shown[d] = shown[d]
    BY <2>2, <2>3 DEF Later
  <2>5. ASSUME NEW d, Covers(e, s, d) PROVE v.cache[d] = <<>>
    <3>1. PICK id \in Nat : Has(e.tx[s], d, id) /\ AllBy(e.cache[d], id)
      BY <2>5 DEF Covers
    <3>2. PICK i \in DOMAIN e.tx[s] : e.tx[s][i][1] = d /\ id <= e.tx[s][i][2]
      BY <3>1 DEF Has
    <3>3. AllBy(e.cache[d], e.tx[s][i][2])
      <4>1. e \in Worlds /\ e.tx[s] \in Seq(Surfaces \X Nat)
        BY <1>1, WorldParts DEF Good
      <4>2. e.tx[s][i] \in Surfaces \X Nat
        BY <3>2, <4>1
      <4>3. d \in Surfaces /\ e.tx[s][i][2] \in Nat
        BY <3>2, <4>2
      <4>4. e.cache[d] \in Seq(Commits)
        BY <4>1, <4>3, WorldParts
      <4>5. ASSUME NEW k \in DOMAIN e.cache[d] PROVE e.cache[d][k].id <= e.tx[s][i][2]
        <5>1. e.cache[d][k].id \in Nat
          <6>1. e.cache[d][k] \in Commits
            BY <4>4
          <6> QED
            BY <6>1 DEF Commits
        <5>2. e.cache[d][k].id <= id
          BY <3>1 DEF AllBy
        <5> QED
          BY <3>2, <4>3, <5>1, <5>2
      <4> QED
        BY <4>5 DEF AllBy
    <3> QED
      BY <2>2, <3>2, <3>3
  <2>6. ASSUME NEW d \in s .. Depth, d = s \/ sync[s + 1] PROVE v.cache[d] = <<>>
    <3>1. CASE d = s
      BY <1>1, <2>5, <3>1
    <3>2. CASE d # s
      <4>1. s < Depth /\ d \in s + 1 .. Depth
        BY <3>2, DepthAssumption DEF Surfaces
      <4> QED
        BY <1>1, <1>4, <2>5, <2>6, <3>2, <4>1
    <3> QED
      BY <3>1, <3>2
  <2> QED
    BY <1>4, <2>2, <2>4, <2>6 DEF v
<1> QED
  BY <1>3, <1>4

(* A request is counted. *)
LEMMA RequestTyped ==
  ASSUME Client, NEW kind \in Kinds, Request(kind)
  PROVE  requests' \in [Kinds -> Nat]
  BY DEF Client, Request

(* Commit(s) leads to it. *)
LEMMA CommitLeads ==
  ASSUME Client, Good(World), NEW s \in Surfaces, Commit(s)
  PROVE  /\ World' = Committed(s) /\ asked' = asked /\ done' = done /\ sync' = sync
         /\ requests' \in [Kinds -> Nat] /\ current' = Committed(s).current /\ shown' = Committed(s).shown
         /\ cache' = Committed(s).cache
<1> DEFINE m == TakeChildren(Snapshot(World, s), s)
           w == Settle([m EXCEPT !.tx[s] = Insert(@, s, txid[s]), !.txid[s] = txid[s] + 1], s)
<1>1. m.txid[s] = txid[s]
  BY EnteredGood
<1>2. [m EXCEPT !.tx[s] = Insert(@, s, txid[s]), !.txid[s] = txid[s] + 1] = Entered(s)
  BY <1>1 DEF Entered, Enter
<1>3. w = Committed(s)
  BY <1>2 DEF Committed
<1>4. /\ pending' = w.pending /\ cache' = w.cache /\ current' = w.current
      /\ txid' = w.txid /\ tx' = w.tx /\ shown' = w.shown /\ idle' = w.idle
      /\ reused' = w.reused /\ asked' = asked /\ done' = done /\ sync' = sync
  BY DEF Commit
<1>7. requests' \in [Kinds -> Nat]
  BY RequestTyped DEF Commit, Kinds
<1> HIDE DEF w
<1>5. w \in Worlds
  BY <1>3, CommittedGood DEF Good
<1>6. World' = w
  BY <1>4, <1>5 DEF World, Worlds
<1> QED
  BY <1>3, <1>4, <1>6, <1>7

-----------------------------------------------------------------------------
(* The inductive invariant. *)

(* What a request does not touch is as sound as it was. *)
LEMMA InvFrom ==
  ASSUME Client, NEW v, Good(v), World' = v, asked' = asked, done' = done,
         requests' \in [Kinds -> Nat], sync' \in [Surfaces -> BOOLEAN]
  PROVE  SurfaceInv'
<1>1. Client'
  BY DEF Client
<1>2. Good(World)'
  BY DEF Good, Sound, Held, Stored
<1> QED
  BY <1>1, <1>2 DEF SurfaceInv

(* Initially nothing has come and nothing is shown. *)
LEMMA InitInv == Init => SurfaceInv
<1> SUFFICES ASSUME Init PROVE SurfaceInv
  OBVIOUS
<1>1. Nothing \in States
  BY DEF Nothing, States, Assignments
<1>2. Client /\ sync \in [Surfaces -> BOOLEAN] /\ World \in Worlds
  BY <1>1 DEF Init, Client, World, Worlds
<1>3. ASSUME NEW s \in Surfaces PROVE Sound(World, s) /\ World.tx[s] \in TxOf(s)
  <2> DEFINE cut == [i \in 0 .. 1 |-> 0]
  <2>1. /\ World.cache[s] = <<>> /\ World.pending[s] = Nothing /\ World.current[s] = Nothing
        /\ World.shown[s] = "none" /\ World.idle[s] = Buffers /\ World.txid[s] = 0
        /\ World.tx[s] = <<>> /\ asked[s] = 0 /\ done[s] = <<>>
    BY DEF Init, World
  <2>2. cut \in [0 .. 0 + 1 -> 0 .. 0] /\ cut[0 + 1] = 0 /\ cut[0] = 0
    OBVIOUS
  <2> HIDE DEF cut
  <2>3. Seg(0, 0) = <<>>
    BY SegOne
  <2>4. Brings(Nothing, 0, 0)
    BY <2>3 DEF Brings, Nothing
  <2>5. Carried(<<>>, Nothing, Nothing, 0, <<>>, cut)
    BY <2>2, <2>3, <2>4 DEF Carried, Nothing
  <2>6. Held(World, s)
    BY <2>1, <2>5 DEF Held
  <2>7. AllBy(World.cache[s], World.txid[s]) /\ World.tx[s] \in TxOf(s)
    BY <2>1 DEF AllBy, TxOf
  <2>8. Nothing.buffer = "none" /\ "none" \notin Buffers /\ Len(<<>>) = 0
    BY BuffersAssumption DEF Nothing
  <2>9. Stored(World, s)
    BY <2>1, <2>8 DEF Stored, Kept, Apart
  <2> QED
    BY <2>6, <2>7, <2>9 DEF Sound
<1> QED
  BY <1>2, <1>3 DEF SurfaceInv, Good

(* A request that changes only what is pending, of one surface. *)
LEMMA PendingInv ==
  ASSUME SurfaceInv, NEW s \in Surfaces, NEW next \in States, NEW more \in Nat,
         pending' = [pending EXCEPT ![s] = next], asked' = [asked EXCEPT ![s] = more],
         requests' \in [Kinds -> Nat],
         UNCHANGED <<sync, cache, current, txid, tx, shown, idle, reused, done>>,
         \A cut : Carried(cache[s], pending[s], current[s], asked[s], done[s], cut) =>
                   \E cut2 : Carried(cache[s], next, current[s], more, done[s], cut2)
  PROVE  SurfaceInv'
<1>1. /\ Client /\ sync \in [Surfaces -> BOOLEAN] /\ Good(World) /\ World \in Worlds
      /\ \A d \in Surfaces : Sound(World, d) /\ World.tx[d] \in TxOf(d)
  BY DEF SurfaceInv, Good
<1>2. /\ World.pending = pending /\ World.cache = cache /\ World.current = current
      /\ World.shown = shown /\ World.idle = idle /\ World.reused = reused
      /\ World.txid = txid /\ World.tx = tx
  BY DEF World
<1>3. /\ pending \in [Surfaces -> States] /\ asked \in [Surfaces -> Nat]
  BY <1>1, <1>2 DEF Worlds, Client
<1>4. Client'
  BY <1>1, <1>3 DEF Client
<1>5. pending' \in [Surfaces -> States] /\ pending'[s] = next /\ asked'[s] = more
  BY <1>3
<1>6. World' \in Worlds
  BY <1>1, <1>2, <1>5 DEF World, Worlds
<1>7. ASSUME NEW d \in Surfaces PROVE Sound(World, d)' /\ World'.tx[d] \in TxOf(d)
  <2>1. /\ World'.cache[d] = cache[d] /\ World'.current[d] = current[d]
        /\ World'.shown[d] = shown[d] /\ World'.idle[d] = idle[d] /\ World'.reused = reused
        /\ World'.txid[d] = txid[d] /\ World'.tx[d] = tx[d] /\ World'.pending[d] = pending'[d]
        /\ done'[d] = done[d]
    BY DEF World
  <2>2. /\ AllBy(cache[d], txid[d]) /\ tx[d] \in TxOf(d) /\ Stored(World, d)
        /\ \E cut : Carried(cache[d], pending[d], current[d], asked[d], done[d], cut)
    BY <1>1, <1>2 DEF Sound, Held
  <2>3. Stored(World, d)'
    BY <1>2, <2>1, <2>2 DEF Stored
  <2>4. \E cut : Carried(World'.cache[d], World'.pending[d], World'.current[d],
                         asked'[d], done'[d], cut)
    <3>1. CASE d = s
      BY <1>5, <2>1, <2>2, <3>1
    <3>2. CASE d # s
      <4>1. pending'[d] = pending[d] /\ asked'[d] = asked[d]
        BY <1>3, <3>2
      <4> QED
        BY <2>1, <2>2, <4>1
    <3> QED
      BY <3>1, <3>2
  <2> QED
    BY <2>1, <2>2, <2>3, <2>4 DEF Sound, Held
<1> QED
  BY <1>1, <1>4, <1>6, <1>7 DEF SurfaceInv, Good

(* wl_surface.attach. *)
LEMMA AttachInv ==
  ASSUME SurfaceInv, NEW s \in Surfaces, NEW b \in Buffers \cup {"removed"}, Attach(s, b)
  PROVE  SurfaceInv'
<1> DEFINE next == [pending[s] EXCEPT !.buffer = b]
<1>1. Client /\ World \in Worlds /\ World.pending = pending
  BY DEF SurfaceInv, Good, World
<1>2. pending \in [Surfaces -> States] /\ asked \in [Surfaces -> Nat]
  BY <1>1 DEF Worlds, Client
<1>3. next \in States /\ next.frames = pending[s].frames
  BY <1>2 DEF States, Assignments
<1>4. /\ pending' = [pending EXCEPT ![s] = next] /\ asked' = [asked EXCEPT ![s] = asked[s]]
      /\ UNCHANGED <<sync, cache, current, txid, tx, shown, idle, reused, done>>
  BY <1>2 DEF Attach
<1>5. requests' \in [Kinds -> Nat]
  BY <1>1, RequestTyped DEF Attach, Kinds
<1> HIDE DEF next
<1>6. \A cut : Carried(cache[s], pending[s], current[s], asked[s], done[s], cut) =>
                \E cut2 : Carried(cache[s], next, current[s], asked[s], done[s], cut2)
  BY <1>3, SameFrames
<1>7. asked[s] \in Nat
  BY <1>2
<1> QED
  BY <1>3, <1>4, <1>5, <1>6, <1>7, PendingInv

(* wl_surface.frame. *)
LEMMA FrameInv ==
  ASSUME SurfaceInv, NEW s \in Surfaces, Frame(s)
  PROVE  SurfaceInv'
<1> DEFINE next == [pending[s] EXCEPT !.frames = Append(@, asked[s] + 1)]
           more == asked[s] + 1
<1>1. Client /\ World \in Worlds /\ World.pending = pending /\ World.cache = cache
  BY DEF SurfaceInv, Good, World
<1>2. pending \in [Surfaces -> States] /\ asked \in [Surfaces -> Nat]
  BY <1>1 DEF Worlds, Client
<1>3. next \in States /\ more \in Nat
  <2>1. pending[s].frames \in Seq(Nat) /\ more \in Nat
    BY <1>2 DEF States
  <2>2. Append(pending[s].frames, asked[s] + 1) \in Seq(Nat)
    BY <2>1, AppendProperties
  <2> QED
    BY <1>2, <2>1, <2>2 DEF States
<1>4. /\ pending' = [pending EXCEPT ![s] = next] /\ asked' = [asked EXCEPT ![s] = more]
      /\ UNCHANGED <<sync, cache, current, txid, tx, shown, idle, reused, done>>
  <2>1. asked'[s] = asked[s] + 1
    BY <1>2 DEF Frame
  <2> QED
    BY <1>2, <2>1 DEF Frame
<1>5. requests' \in [Kinds -> Nat]
  BY <1>1, RequestTyped DEF Frame, Kinds
<1>6. ASSUME NEW cut, Carried(cache[s], pending[s], current[s], asked[s], done[s], cut)
      PROVE  \E cut2 : Carried(cache[s], next, current[s], more, done[s], cut2)
  <2>1. cache[s] \in Seq(Commits) /\ pending[s] \in States /\ asked[s] \in Nat
    BY <1>1, <1>2, WorldParts
  <2> QED
    BY <1>6, <2>1, FrameCarried
<1> HIDE DEF next, more
<1> QED
  BY <1>3, <1>4, <1>5, <1>6, PendingInv

(* A Redraw. *)
LEMMA RedrawInv ==
  ASSUME SurfaceInv, Redraw
  PROVE  SurfaceInv'
<1>1. /\ Client /\ sync \in [Surfaces -> BOOLEAN] /\ Good(World) /\ World \in Worlds
      /\ \A d \in Surfaces : Sound(World, d) /\ World.tx[d] \in TxOf(d)
  BY DEF SurfaceInv, Good
<1>2. /\ World.pending = pending /\ World.cache = cache /\ World.current = current
      /\ World.shown = shown /\ World.idle = idle /\ World.reused = reused
      /\ World.txid = txid /\ World.tx = tx
  BY DEF World
<1>3. /\ requests' = requests /\ asked' = asked /\ sync' = sync /\ pending' = pending /\ cache' = cache
      /\ txid' = txid /\ tx' = tx /\ shown' = shown /\ idle' = idle
      /\ reused' = reused /\ done' = [d \in Surfaces |-> done[d] \o current[d].frames]
      /\ current' = [d \in Surfaces |-> [current[d] EXCEPT !.frames = <<>>]]
  BY DEF Redraw
<1>4. ASSUME NEW d \in Surfaces
      PROVE  /\ done'[d] = done[d] \o current[d].frames /\ done'[d] \in Seq(Nat)
             /\ current'[d] = [current[d] EXCEPT !.frames = <<>>] /\ current'[d] \in States
  <2>1. current[d] \in States /\ done[d] \in Seq(Nat)
    BY <1>1, <1>2, WorldParts, ClientParts
  <2>2. current[d].frames \in Seq(Nat) /\ <<>> \in Seq(Nat)
    BY <2>1 DEF States
  <2>3. [current[d] EXCEPT !.frames = <<>>] \in States
    BY <2>1, <2>2 DEF States
  <2>4. done[d] \o current[d].frames \in Seq(Nat)
    BY <2>1, <2>2, ConcatProperties
  <2> QED
    BY <1>3, <2>3, <2>4
<1>5. done' \in [Surfaces -> Seq(Nat)] /\ current' \in [Surfaces -> States]
  BY <1>3, <1>4
<1>6. Client'
  BY <1>1, <1>3, <1>5 DEF Client
<1>7. World' \in Worlds
  BY <1>1, <1>2, <1>3, <1>5 DEF World, Worlds
<1>8. ASSUME NEW d \in Surfaces PROVE Sound(World, d)' /\ World'.tx[d] \in TxOf(d)
  <2>1. /\ World'.cache[d] = cache[d] /\ World'.current[d] = current'[d]
        /\ World'.shown[d] = shown[d] /\ World'.idle[d] = idle[d] /\ World'.reused = reused
        /\ World'.txid[d] = txid[d] /\ World'.tx[d] = tx[d] /\ World'.pending[d] = pending[d]
        /\ asked'[d] = asked[d]
    BY <1>3 DEF World
  <2>2. AllBy(cache[d], txid[d]) /\ tx[d] \in TxOf(d) /\ Stored(World, d)
    BY <1>1, <1>2 DEF Sound
  <2>3. PICK cut : Carried(cache[d], pending[d], current[d],
                           asked[d], done[d], cut)
    BY <1>1, <1>2 DEF Sound, Held
  <2>4. /\ cache[d] \in Seq(Commits) /\ current[d] \in States /\ asked[d] \in Nat
        /\ Len(done[d]) \in Nat
    BY <1>1, <1>2, WorldParts, ClientParts
  <2>5. Carried(cache[d], pending[d], current'[d], asked[d], done'[d], cut)
    <3>1. Carried(cache[d], pending[d], [current[d] EXCEPT !.frames = <<>>], asked[d], done[d] \o current[d].frames, cut)
      BY <2>3, <2>4, AnswerCarried, SMTT(30)
    <3> QED
      BY <1>4, <3>1
  <2>6. \E c : Carried(World'.cache[d], World'.pending[d], World'.current[d], asked'[d], done'[d], c)
    BY <2>1, <2>5
  <2>7. current'[d].buffer = current[d].buffer
    BY <1>4, <2>4 DEF States
  <2>8. Stored(World, d)'
    BY <1>2, <2>1, <2>2, <2>7 DEF Stored
  <2> QED
    BY <2>1, <2>2, <2>6, <2>8 DEF Sound, Held
<1> QED
  BY <1>1, <1>3, <1>6, <1>7, <1>8 DEF SurfaceInv, Good

(* Every step preserves the invariant. *)
LEMMA StepInv == SurfaceInv /\ [Next]_vars => SurfaceInv'
<1> SUFFICES ASSUME SurfaceInv, [Next]_vars PROVE SurfaceInv'
  OBVIOUS
<1>1. Client /\ Good(World) /\ sync \in [Surfaces -> BOOLEAN]
  BY DEF SurfaceInv
<1>2. ASSUME NEW s \in Surfaces, NEW b \in Buffers \cup {"removed"}, Attach(s, b)
      PROVE  SurfaceInv'
  BY <1>2, AttachInv
<1>7. ASSUME NEW s \in Surfaces, Frame(s) PROVE SurfaceInv'
  BY <1>7, FrameInv
<1>3. ASSUME NEW s \in Surfaces, Commit(s) PROVE SurfaceInv'
  <2> DEFINE v == Committed(s)
  <2>1. /\ Good(v) /\ World' = v /\ asked' = asked /\ done' = done /\ sync' = sync
        /\ requests' \in [Kinds -> Nat]
    BY <1>1, <1>3, CommittedGood, CommitLeads
  <2> HIDE DEF v
  <2> QED
    BY <1>1, <2>1, InvFrom
<1>4. ASSUME NEW s \in Surfaces, NEW on \in BOOLEAN, SetSync(s, on) PROVE SurfaceInv'
  <2>1. /\ World' = World /\ asked' = asked /\ done' = done
        /\ requests' \in [Kinds -> Nat]
    BY <1>1, <1>4, RequestTyped DEF SetSync, World, Kinds
  <2>2. sync' \in [Surfaces -> BOOLEAN]
    BY <1>1, <1>4 DEF SetSync
  <2> HIDE DEF World
  <2>3. Good(World)
    BY <1>1
  <2> QED
    BY <1>1, <2>1, <2>2, <2>3, InvFrom
<1>5. CASE Redraw
  BY <1>5, RedrawInv
<1>6. CASE UNCHANGED vars
  <2>1. /\ World' = World /\ asked' = asked /\ done' = done /\ sync' = sync
        /\ requests' \in [Kinds -> Nat]
    BY <1>1, <1>6 DEF vars, World, Client
  <2> QED
    BY <1>1, <2>1, InvFrom
<1> QED
  BY <1>2, <1>3, <1>4, <1>5, <1>6, <1>7 DEF Next

-----------------------------------------------------------------------------
(* Theorems. *)

(* The surfaces stay sound: the attributes a client sends pass in their order
   through the pending, cached and current state (cache.rs:102-131), and each
   transaction holds what is below its surface once (transaction.rs:117-129). *)
THEOREM SurfaceInvariance == Spec => []SurfaceInv
  BY InitInv, StepInv, PTL DEF Spec

(* Every variable keeps its type, and no transaction names a surface twice, however
   often transactions are merged (transaction.rs:174-205). *)
THEOREM SurfaceTyped == Spec => []TypeOK
<1>1. SurfaceInv => TypeOK
  <2> SUFFICES ASSUME SurfaceInv PROVE TypeOK
    OBVIOUS
  <2>1. Client /\ World \in Worlds /\ \A s \in Surfaces : World.tx[s] \in TxOf(s)
    BY DEF SurfaceInv, Good
  <2>2. /\ pending \in [Surfaces -> States] /\ current \in [Surfaces -> States]
        /\ cache \in [Surfaces -> Seq(Commits)] /\ txid \in [Surfaces -> Nat]
        /\ tx \in [Surfaces -> Seq(Surfaces \X Nat)] /\ shown \in [Surfaces -> Buffers \cup {"none"}]
        /\ idle \in [Surfaces -> SUBSET Buffers] /\ reused \subseteq Surfaces
    BY <2>1 DEF World, Worlds
  <2>3. ASSUME NEW s \in Surfaces PROVE IsInjective([i \in DOMAIN tx[s] |-> tx[s][i][1]])
    <3>1. \A i, j \in DOMAIN tx[s] : tx[s][i][1] = tx[s][j][1] => i = j
      BY <2>1 DEF World, TxOf
    <3> QED
      BY <3>1 DEF IsInjective
  <2> QED
    BY <2>1, <2>2, <2>3 DEF TypeOK, SurfaceInv, Client, Commits
<1> QED
  BY <1>1, SurfaceInvariance, PTL

(* No frame callback is lost, answered twice or overtaken on its way through the
   cache to send_frames_surface_tree() (handlers.rs:112-148, cache.rs:103-131). *)
THEOREM CallbacksKept == Spec => []CallbacksConserved
<1>1. SurfaceInv => CallbacksConserved
  <2> SUFFICES ASSUME SurfaceInv, NEW s \in Surfaces
               PROVE  done[s] \o current[s].frames \o FramesOf(cache[s]) \o pending[s].frames
                        = [i \in 1 .. asked[s] |-> i]
    BY DEF CallbacksConserved
  <2>1. Client /\ World \in Worlds /\ Sound(World, s)
    BY DEF SurfaceInv, Good
  <2>2. PICK cut : Carried(cache[s], pending[s], current[s], asked[s],
                           done[s], cut)
    BY <2>1 DEF Sound, Held, World
  <2>3. cache[s] \in Seq(Commits)
    BY <2>1, WorldParts DEF World
  <2>4. asked[s] \in Nat /\ Len(done[s]) \in Nat
    BY <2>1, ClientParts
  <2>5. InOrder(cache[s], pending[s], current[s], asked[s], done[s])
    BY <2>2, <2>3, <2>4, CarriedCallbacks
  <2> QED
    BY <2>5 DEF InOrder
<1> QED
  BY <1>1, SurfaceInvariance, PTL

(* No readable buffer is lost, and none is both idle and the server's while the
   client commits only idle ones: merge_into() releases the one that is replaced
   before it was shown, update_buffer() the one that was shown, and neither the
   one that comes again (handlers.rs:126-138, wayland.rs:151-185). *)
THEOREM BuffersKept == Spec => []BuffersAccounted
<1>1. SurfaceInv => BuffersAccounted
  <2> SUFFICES ASSUME SurfaceInv, NEW s \in Surfaces
               PROVE  LET cached == {cache[s][i].state.buffer : i \in DOMAIN cache[s]}
                          held == (cached \cup {current[s].buffer, shown[s]}) \cap Buffers
                      IN /\ Buffers \ Unreadable \subseteq held \cup idle[s]
                         /\ s \notin reused => held \cap idle[s] = {}
    BY DEF BuffersAccounted
  <2>1. World \in Worlds /\ Sound(World, s)
    BY DEF SurfaceInv, Good
  <2>2. /\ Kept(cache[s], current[s].buffer, shown[s], idle[s])
        /\ s \notin reused => Apart(cache[s], current[s].buffer, shown[s], idle[s])
    BY <2>1 DEF Sound, Stored, World
  <2>3. DOMAIN cache[s] = 1 .. Len(cache[s])
    <3>1. cache[s] \in Seq(Commits)
      BY <2>1, WorldParts DEF World
    <3> QED
      BY <3>1
  <2> QED
    BY <2>2, <2>3 DEF Kept, Apart, Cached
<1> QED
  BY <1>1, SurfaceInvariance, PTL

(* What a surface that is held back shows changes only in a commit of an ancestor
   that is not (tree.rs:302-329, wayland.rs:370). *)
THEOREM NothingTears == Spec => NoTearing
<1> DEFINE Step == \A s \in Surfaces :
                     IsSync(s) /\ <<current[s].buffer, shown[s]>>' # <<current[s].buffer, shown[s]>> =>
                       \E r \in 1 .. s - 1 : ~ IsSync(r) /\ Commit(r)
<1>1. SurfaceInv /\ [Next]_vars => [Step]_vars
  <2> SUFFICES ASSUME SurfaceInv, Next, NEW s \in Surfaces, IsSync(s),
                      current[s].buffer' # current[s].buffer \/ shown[s]' # shown[s]
               PROVE  \E r \in 1 .. s - 1 : ~ IsSync(r) /\ Commit(r)
    OBVIOUS
  <2>1. Client /\ Good(World) /\ World \in Worlds /\ World.current = current
    BY DEF SurfaceInv, Good, World
  <2>2. ~ Redraw
    <3> SUFFICES ASSUME Redraw PROVE FALSE
      OBVIOUS
    <3>1. current'[s] = [current[s] EXCEPT !.frames = <<>>] /\ shown' = shown
      BY DEF Redraw
    <3>2. current[s] \in States
      BY <2>1, WorldParts
    <3>3. current'[s].buffer = current[s].buffer
      BY <3>1, <3>2 DEF States
    <3> QED
      BY <3>1, <3>3
  <2>3. PICK r \in Surfaces : Commit(r)
    BY <2>2 DEF Next, Attach, Frame, SetSync
  <2>4. /\ current' = Committed(r).current /\ shown' = Committed(r).shown
        /\ IsSync(r) => Still(Committed(r), World)
        /\ ~ IsSync(r) => \A d \in Surfaces : d < r =>
             Committed(r).current[d].buffer = current[d].buffer /\ Committed(r).shown[d] = shown[d]
    BY <2>1, <2>3, CommittedGood, CommitLeads
  <2>5. ~ IsSync(r)
    BY <2>4 DEF Still, World
  <2>6. ~ (s < r) /\ s # r
    BY <2>4, <2>5
  <2>7. r \in 1 .. s - 1
    BY <2>6, DepthAssumption DEF Surfaces
  <2> QED
    BY <2>3, <2>5, <2>7
<1> QED
  BY <1>1, SurfaceInvariance, PTL DEF Spec, NoTearing

(* A commit of a surface nothing holds back leaves nothing cached of those that wait
   for it: its transaction took in theirs, with the latest id of each
   (tree.rs:255-306, transaction.rs:11-27). *)
THEOREM TreeAppliedTogether == Spec => AppliedTogether
<1> DEFINE Step == \A r \in Surfaces :
                     ~ IsSync(r) /\ Commit(r) =>
                       \A d \in r .. Depth : (\A e \in r + 1 .. d : sync[e]) => cache'[d] = <<>>
<1>1. SurfaceInv /\ [Next]_vars => [Step]_vars
  <2> SUFFICES ASSUME SurfaceInv, NEW r \in Surfaces, ~ IsSync(r), Commit(r),
                      NEW d \in r .. Depth, \A e \in r + 1 .. d : sync[e]
               PROVE  cache'[d] = <<>>
    OBVIOUS
  <2>1. Client /\ Good(World)
    BY DEF SurfaceInv
  <2>2. /\ cache' = Committed(r).cache
        /\ \A k \in r .. Depth : k = r \/ sync[r + 1] => Committed(r).cache[k] = <<>>
    BY <2>1, CommittedGood, CommitLeads
  <2>3. d = r \/ sync[r + 1]
    <3>1. d # r => r + 1 \in r + 1 .. d
      BY DepthAssumption DEF Surfaces
    <3> QED
      BY <3>1
  <2> QED
    BY <2>2, <2>3
<1> QED
  BY <1>1, SurfaceInvariance, PTL DEF Spec, AppliedTogether
=============================================================================
