-------------------------- MODULE EventLoopProofs ---------------------------
(***************************************************************************)
(* Proofs about EventLoop for any set of handles, any clock and any number *)
(* of calls.                                                               *)
(*                                                                         *)
(* The inductive IInv has a layer for each thing the loop keeps: the life  *)
(* of a handle, the count, the tree of timers, the lists of watchers, the  *)
(* requests of async handles, the iterators and the timeout.  Each has a   *)
(* section: lemmas on the data it is kept in, the calls, the loop's steps. *)
(***************************************************************************)
EXTENDS EventLoop, FiniteSetTheorems, SequenceTheorems, TLAPS

-----------------------------------------------------------------------------
(* The invariant.                                                          *)

\* The types of the variables, by who changes them.
HandleTypes ==
  /\ ref \subseteq Handles /\ active \subseteq Handles /\ closing \subseteq Handles
  /\ closed \subseteq Handles /\ handle_queue \subseteq Handles
  /\ endgame \in Seq(Handles)

TimerTypes == timers \in Seq(Timers) /\ due \in [Timers -> 0..TimeMax]

WatchTypes ==
  /\ next \in [Kinds -> Watchers \cup {NoHandle}]
  /\ todo \subseteq Watchers

AsyncTypes ==
  /\ async_sent \subseteq Asyncs /\ posting \subseteq Asyncs /\ unseen \subseteq Asyncs
  /\ iocp \in Seq(Asyncs) /\ pending \in Seq(Asyncs) /\ batch \in Seq(Asyncs)

RunTypes ==
  /\ repeat \in [Timers -> 0..TimeMax] /\ has_cb \subseteq Timers
  /\ empty \in Nat /\ ops \in Nat /\ resumes \in Nat
  /\ time \in 0..Clock /\ timeout \in 0..DwordMax
  /\ pc \in Pcs /\ mode \in {"DEFAULT", "ONCE", "NOWAIT"}
  /\ cb \in Handles \cup {NoHandle}
  /\ zeroStarted \subseteq Timers

FlagTypes == stop_flag \in BOOLEAN /\ ran_pending \in BOOLEAN /\ progress \in BOOLEAN

\* The life of a handle: it is active only while open, it is closed only when
\* it was closing, and its endgame is queued only when no wake-up is out.
LifeOK ==
  /\ HandleTypes
  /\ active \subseteq handle_queue \ closing
  /\ closed \subseteq closing /\ closing \subseteq handle_queue \cup closed
  /\ closed \cap handle_queue = {}
  /\ IsInjective(endgame)
  /\ Range(endgame) \subseteq (handle_queue \cap closing) \ async_sent
  /\ async_sent \subseteq handle_queue

\* The tree is in the order of the due times.
Sorted(q, f) == \A i, j \in 1..Len(q) : i < j => f[q[i]] <= f[q[j]]

\* The timers and lists hold what is active (Registered).
TreeOK == TimerTypes /\ Range(timers) = active \cap Timers /\ IsInjective(timers)
            /\ Sorted(timers, due)

ListOK ==
  /\ list \in [Kinds -> Seq(Watchers)]
  /\ \A k \in Kinds : /\ Range(list[k]) = {h \in active \cap Watchers : KindOf(h) = k}
                      /\ IsInjective(list[k])

\* The request of an async handle is in one place: with the thread that posts
\* it, in the completion port, in the loop's queue or in the batch at hand.
SentOK ==
  /\ AsyncTypes
  /\ async_sent = posting \cup Range(iocp) \cup Range(pending) \cup Range(batch)
  /\ IsInjective(iocp) /\ IsInjective(pending) /\ IsInjective(batch)
  /\ posting \cap (Range(iocp) \cup Range(pending) \cup Range(batch)) = {}
  /\ Range(iocp) \cap (Range(pending) \cup Range(batch)) = {}
  /\ Range(pending) \cap Range(batch) = {}
  /\ unseen \ closing \subseteq async_sent
  /\ pc # "reqs" => batch = <<>>

\* What a running invocation owes a call is what lies in its list from the
\* iterator on; no other list has an iterator.
From(q, i) == {q[j] : j \in i..Len(q)}

Owes(q, n, rest) ==
  \/ n = NoHandle /\ rest = {}
  \/ \E i \in 1..Len(q) : n = q[i] /\ rest = From(q, i)

WatchOK ==
  /\ WatchTypes
  /\ \A k \in Kinds : IF pc = k THEN Owes(list[k], next[k], todo)
                      ELSE next[k] = NoHandle

\* The loop's thread does not run callbacks outside the phases that call them.
SleepOK ==
  /\ pc \in {"out", "poll", "closed"} => cb = NoHandle
  /\ SleepsToFirstTimer

IInv == /\ LifeOK /\ ActiveCount /\ TreeOK /\ ListOK /\ SentOK /\ WatchOK
        /\ RunTypes /\ FlagTypes /\ SleepOK

-----------------------------------------------------------------------------
(* Queues, lists and the tree, all of them sequences.                      *)

\* The elements of a sequence, by their places.
LEMMA Places ==
  ASSUME NEW S, NEW q \in Seq(S)
  PROVE  /\ Len(q) \in Nat /\ DOMAIN q = 1..Len(q)
         /\ \A i \in 1..Len(q) : q[i] \in S /\ q[i] \in Range(q)
         /\ \A x \in Range(q) : x \in S /\ \E i \in 1..Len(q) : q[i] = x
         /\ IsInjective(q) <=> \A i, j \in 1..Len(q) : q[i] = q[j] => i = j
         /\ q = <<>> <=> Len(q) = 0
<1>1. Len(q) \in Nat /\ DOMAIN q = 1..Len(q)
  BY LenProperties
<1>2. \A i \in 1..Len(q) : q[i] \in S
  BY ElementOfSeq
<1>3. \A i \in 1..Len(q) : q[i] \in Range(q)
  BY <1>1 DEF Range
<1>4. \A x \in Range(q) : \E i \in 1..Len(q) : q[i] = x
  BY <1>1 DEF Range
<1>5. IsInjective(q) <=> \A i, j \in 1..Len(q) : q[i] = q[j] => i = j
  BY <1>1 DEF IsInjective
<1>6. q = <<>> <=> Len(q) = 0
  BY EmptySeq
<1> QED
  BY <1>1, <1>2, <1>3, <1>4, <1>5, <1>6

\* No element is in the empty sequence.
LEMMA EmptyQueue ==
  /\ \A S : <<>> \in Seq(S)
  /\ Len(<<>>) = 0 /\ Range(<<>>) = {} /\ IsInjective(<<>>)
<1>1. \A S : <<>> \in Seq(S)
  BY EmptySeq
<1>2. Len(<<>>) = 0
  BY EmptySeq
<1>3. Range(<<>>) = {}
  BY <1>1, <1>2, Places
<1>4. IsInjective(<<>>)
  <2>1. \A i, j \in 1..Len(<<>>) : <<>>[i] = <<>>[j] => i = j
    BY <1>2
  <2>2. <<>> \in Seq({})
    BY <1>1
  <2> QED
    BY <2>1, <2>2, Places, Zenon
<1> QED
  BY <1>1, <1>2, <1>3, <1>4

\* w is the sequence a followed by b.
Joined(w, a, b) ==
  /\ Len(w) = Len(a) + Len(b)
  /\ \A i \in 1..Len(a) : w[i] = a[i]
  /\ \A i \in 1..Len(b) : w[Len(a) + i] = b[i]

LEMMA JoinQueues ==
  ASSUME NEW S, NEW a \in Seq(S), NEW b \in Seq(S)
  PROVE  /\ a \o b \in Seq(S)
         /\ Joined(a \o b, a, b)
         /\ Range(a \o b) = Range(a) \cup Range(b)
         /\ IsInjective(a) /\ IsInjective(b) /\ Range(a) \cap Range(b) = {}
              => IsInjective(a \o b)
<1>1. PICK w : w = a \o b
  OBVIOUS
<1>2. /\ w \in Seq(S) /\ Len(w) = Len(a) + Len(b)
      /\ \A k \in 1..(Len(a) + Len(b)) :
           w[k] = IF k <= Len(a) THEN a[k] ELSE b[k - Len(a)]
  BY <1>1, ConcatProperties, Zenon
<1>3. Len(a) \in Nat /\ Len(b) \in Nat
  BY Places, Zenon
<1>4. Joined(w, a, b)
  <2>1. ASSUME NEW i \in 1..Len(a) PROVE w[i] = a[i]
    <3>1. i \in 1..(Len(a) + Len(b)) /\ i <= Len(a)
      BY <1>3
    <3> QED
      BY <1>2, <3>1
  <2>2. ASSUME NEW i \in 1..Len(b) PROVE w[Len(a) + i] = b[i]
    <3>1. /\ Len(a) + i \in 1..(Len(a) + Len(b)) /\ ~(Len(a) + i <= Len(a))
          /\ (Len(a) + i) - Len(a) = i
      BY <1>3
    <3> QED
      BY <1>2, <3>1
  <2> QED
    BY <1>2, <2>1, <2>2 DEF Joined
<1>5. ASSUME NEW k \in 1..Len(w)
      PROVE  \/ k \in 1..Len(a) /\ w[k] = a[k]
             \/ k - Len(a) \in 1..Len(b) /\ w[k] = b[k - Len(a)]
  BY <1>2, <1>3
<1>6. Range(w) = Range(a) \cup Range(b)
  BY <1>1, RangeConcatenation, Zenon
<1>7. ASSUME IsInjective(a), IsInjective(b), Range(a) \cap Range(b) = {}
      PROVE  IsInjective(w)
  <2> SUFFICES ASSUME NEW j \in 1..Len(w), NEW k \in 1..Len(w), w[j] = w[k] PROVE j = k
    BY <1>2, Places
  <2>1. \A i, l \in 1..Len(a) : a[i] = a[l] => i = l
    BY <1>7, Places, Zenon
  <2>2. \A i, l \in 1..Len(b) : b[i] = b[l] => i = l
    BY <1>7, Places, Zenon
  <2>3. \A i \in 1..Len(a), l \in 1..Len(b) : a[i] # b[l]
    <3>1. \A i \in 1..Len(a) : a[i] \in Range(a)
      BY Places, Zenon
    <3>2. \A i \in 1..Len(b) : b[i] \in Range(b)
      BY Places, Zenon
    <3> QED
      BY <1>7, <3>1, <3>2
  <2>5. CASE j \in 1..Len(a) /\ w[j] = a[j]
    <3>1. k \in 1..Len(a) /\ w[k] = a[k]
      BY <1>5, <2>3, <2>5
    <3> QED
      BY <2>1, <2>5, <3>1
  <2>6. CASE j - Len(a) \in 1..Len(b) /\ w[j] = b[j - Len(a)]
    <3>1. k - Len(a) \in 1..Len(b) /\ w[k] = b[k - Len(a)]
      BY <1>5, <2>3, <2>6
    <3>2. j - Len(a) = k - Len(a)
      BY <2>2, <2>6, <3>1
    <3> QED
      BY <1>2, <1>3, <3>2
  <2> QED
    BY <1>5, <2>5, <2>6
<1> QED
  BY <1>1, <1>2, <1>4, <1>6, <1>7, Zenon

\* w is q without its i-th element.
CutFrom(w, q, i) ==
  /\ Len(w) = Len(q) - 1
  /\ \A k \in 1..(i - 1) : w[k] = q[k]
  /\ \A k \in i..(Len(q) - 1) : w[k] = q[k + 1]

\* The elements of a sequence up to the n-th, and those after it.
LEMMA SplitQueue ==
  ASSUME NEW S, NEW q \in Seq(S)
  PROVE  \A n \in 0..Len(q) : \E a, b \in Seq(S) :
           /\ a = SubSeq(q, 1, n) /\ b = SubSeq(q, n + 1, Len(q))
           /\ Joined(q, a, b) /\ Len(a) = n
<1> TAKE n \in 0..Len(q)
<1>0. /\ Len(q) \in Nat /\ n \in Nat /\ n <= Len(q)
      /\ \A k \in 1..Len(q) : q[k] \in S
  BY Places
<1>1. PICK a, b : a = SubSeq(q, 1, n) /\ b = SubSeq(q, n + 1, Len(q))
  BY Zenon
<1>2. \A k \in 1..n : q[k] \in S
  BY <1>0
<1>3. \A k \in (n + 1)..Len(q) : q[k] \in S
  BY <1>0
<1>4. /\ a \in Seq(S)
      /\ Len(a) = IF 1 <= n THEN n - 1 + 1 ELSE 0
      /\ \A k \in 1..(n - 1 + 1) : a[k] = q[1 + k - 1]
  BY <1>0, <1>1, <1>2, SubSeqProperties
<1>5. /\ b \in Seq(S)
      /\ Len(b) = IF n + 1 <= Len(q) THEN Len(q) - (n + 1) + 1 ELSE 0
      /\ \A k \in 1..(Len(q) - (n + 1) + 1) : b[k] = q[(n + 1) + k - 1]
  BY <1>0, <1>1, <1>3, SubSeqProperties
<1>6. Len(a) = n /\ \A k \in 1..n : a[k] = q[k]
  BY <1>0, <1>4
<1>7. Len(b) = Len(q) - n
  BY <1>0, <1>5
<1>8. ASSUME NEW k \in 1..Len(b) PROVE q[Len(a) + k] = b[k]
  <2>1. k \in 1..(Len(q) - (n + 1) + 1) /\ (n + 1) + k - 1 = Len(a) + k
    BY <1>0, <1>6, <1>7
  <2> QED
    BY <1>5, <2>1
<1>9. Joined(q, a, b)
  BY <1>0, <1>6, <1>7, <1>8 DEF Joined
<1> QED
  BY <1>1, <1>4, <1>5, <1>6, <1>9, Zenon

\* The two parts of a sequence without repetition have no element in common.
LEMMA PartsApart ==
  ASSUME NEW S, NEW w \in Seq(S), NEW a \in Seq(S), NEW b \in Seq(S), Joined(w, a, b)
  PROVE  /\ Range(w) = Range(a) \cup Range(b)
         /\ IsInjective(w) => /\ IsInjective(a) /\ IsInjective(b)
                              /\ Range(a) \cap Range(b) = {}
<1>0. Len(a) \in Nat /\ Len(b) \in Nat /\ Len(w) = Len(a) + Len(b)
  BY Places, Zenon DEF Joined
<1>1. \A i \in 1..Len(a) : i \in 1..Len(w) /\ w[i] = a[i]
  BY <1>0 DEF Joined
<1>2. \A i \in 1..Len(b) : Len(a) + i \in 1..Len(w) /\ w[Len(a) + i] = b[i]
  BY <1>0 DEF Joined
<1>3. ASSUME NEW x \in Range(a) PROVE x \in Range(w)
  <2>1. PICK i \in 1..Len(a) : a[i] = x
    BY Places
  <2> QED
    BY <1>1, <2>1, Places
<1>4. ASSUME NEW x \in Range(b) PROVE x \in Range(w)
  <2>1. PICK i \in 1..Len(b) : b[i] = x
    BY Places
  <2> QED
    BY <1>2, <2>1, Places
<1>5. ASSUME NEW x \in Range(w) PROVE x \in Range(a) \cup Range(b)
  <2>1. PICK i \in 1..Len(w) : w[i] = x
    BY Places
  <2>2. CASE i <= Len(a)
    <3>1. i \in 1..Len(a) /\ a[i] = x
      BY <1>0, <1>1, <2>1, <2>2
    <3> QED
      BY <3>1, Places
  <2>3. CASE ~(i <= Len(a))
    <3>1. i - Len(a) \in 1..Len(b) /\ Len(a) + (i - Len(a)) = i
      BY <1>0, <2>3
    <3>2. b[i - Len(a)] = x
      BY <1>2, <2>1, <3>1
    <3> QED
      BY <3>1, <3>2, Places
  <2> QED
    BY <2>2, <2>3
<1>6. ASSUME IsInjective(w)
      PROVE  IsInjective(a) /\ IsInjective(b) /\ Range(a) \cap Range(b) = {}
  <2>0. \A i, j \in 1..Len(w) : w[i] = w[j] => i = j
    BY <1>6, Places, Zenon
  <2>1. \A i, j \in 1..Len(a) : a[i] = a[j] => i = j
    BY <1>1, <2>0
  <2>2. ASSUME NEW i \in 1..Len(b), NEW j \in 1..Len(b), b[i] = b[j] PROVE i = j
    <3>1. Len(a) + i = Len(a) + j
      BY <1>2, <2>0, <2>2
    <3> QED
      BY <1>0, <3>1
  <2>3. ASSUME NEW x \in Range(a), x \in Range(b) PROVE FALSE
    <3>1. PICK i \in 1..Len(a), j \in 1..Len(b) : a[i] = x /\ b[j] = x
      BY <2>3, Places
    <3>2. i = Len(a) + j
      BY <1>1, <1>2, <2>0, <3>1
    <3> QED
      BY <1>0, <3>2
  <2> QED
    BY <2>1, <2>2, <2>3, Places
<1> QED
  BY <1>3, <1>4, <1>5, <1>6

\* RB_REMOVE and the unlinking of a watcher take out one element.
LEMMA RemoveOne ==
  ASSUME NEW S, NEW q \in Seq(S), NEW i \in 1..Len(q)
  PROVE  RemoveAt(q, i) \in Seq(S) /\ CutFrom(RemoveAt(q, i), q, i)
<1>0. Len(q) \in Nat /\ i \in Nat /\ 1 <= i /\ i <= Len(q)
  BY Places
<1>1. i - 1 \in 0..Len(q) /\ i \in 0..Len(q) /\ (i - 1) + 1 = i
  BY <1>0
<1>s. \A n \in 0..Len(q) : \E a, b \in Seq(S) :
        /\ a = SubSeq(q, 1, n) /\ b = SubSeq(q, n + 1, Len(q))
        /\ Joined(q, a, b) /\ Len(a) = n
  BY SplitQueue, Zenon
<1>2. PICK a, c \in Seq(S) :
        /\ a = SubSeq(q, 1, i - 1) /\ c = SubSeq(q, (i - 1) + 1, Len(q))
        /\ Joined(q, a, c) /\ Len(a) = i - 1
  BY <1>1, <1>s, Zenon
<1>3. PICK d, b \in Seq(S) :
        /\ d = SubSeq(q, 1, i) /\ b = SubSeq(q, i + 1, Len(q))
        /\ Joined(q, d, b) /\ Len(d) = i
  BY <1>1, <1>s, Zenon
<1>4. PICK w \in Seq(S) : w = a \o b /\ Joined(w, a, b)
  BY JoinQueues, Zenon
<1>5. RemoveAt(q, i) = w
  BY <1>2, <1>3, <1>4, Zenon DEF RemoveAt
<1>l. Len(b) \in Nat
  BY Places, Zenon
<1>m. Len(q) = Len(d) + Len(b) /\ Len(w) = Len(a) + Len(b)
  BY <1>3, <1>4, Zenon DEF Joined
<1>6. Len(b) = Len(q) - i /\ Len(w) = Len(q) - 1
  BY <1>0, <1>2, <1>3, <1>m, <1>l
<1>7. \A k \in 1..(i - 1) : w[k] = q[k]
  BY <1>0, <1>2, <1>4 DEF Joined
<1>8. ASSUME NEW k \in i..(Len(q) - 1) PROVE w[k] = q[k + 1]
  <2>1. k - (i - 1) \in 1..Len(b) /\ Len(a) + (k - (i - 1)) = k
    BY <1>0, <1>2, <1>6
  <2>2. Len(d) + (k - (i - 1)) = k + 1
    BY <1>0, <1>3
  <2>3. w[k] = b[k - (i - 1)]
    BY <1>4, <2>1 DEF Joined
  <2>4. q[k + 1] = b[k - (i - 1)]
    BY <1>3, <2>1, <2>2 DEF Joined
  <2> QED
    BY <2>3, <2>4
<1>9. CutFrom(w, q, i)
  BY <1>6, <1>7, <1>8 DEF CutFrom
<1> QED
  BY <1>4, <1>5, <1>9, Zenon

\* Every element but the i-th stays, and no other comes.
LEMMA CutContents ==
  ASSUME NEW S, NEW q \in Seq(S), NEW i \in 1..Len(q), IsInjective(q),
         NEW w \in Seq(S), CutFrom(w, q, i)
  PROVE  IsInjective(w) /\ Range(w) = Range(q) \ {q[i]}
<1>0. /\ Len(q) \in Nat /\ i \in Nat /\ 1 <= i /\ i <= Len(q)
      /\ Len(w) = Len(q) - 1
  BY Places DEF CutFrom
<1>1. \A j, k \in 1..Len(q) : q[j] = q[k] => j = k
  BY Places
<1>2. ASSUME NEW k \in 1..Len(w)
      PROVE  \/ k < i /\ k \in 1..Len(q) /\ w[k] = q[k]
             \/ ~(k < i) /\ k + 1 \in 1..Len(q) /\ k + 1 # i /\ w[k] = q[k + 1]
  <2>1. CASE k < i
    <3>1. k \in 1..(i - 1)
      BY <1>0, <2>1
    <3> QED
      BY <1>0, <2>1, <3>1 DEF CutFrom
  <2>2. CASE ~(k < i)
    <3>1. k \in i..(Len(q) - 1)
      BY <1>0, <2>2
    <3> QED
      BY <1>0, <2>2, <3>1 DEF CutFrom
  <2> QED
    BY <2>1, <2>2
<1>3. ASSUME NEW j \in 1..Len(w), NEW k \in 1..Len(w), w[j] = w[k] PROVE j = k
  <2>1. j \in Nat /\ k \in Nat
    BY <1>0
  <2>2. CASE j < i
    <3>1. j \in 1..Len(q) /\ w[j] = q[j]
      BY <1>0, <1>2, <2>2
    <3>2. CASE k < i
      BY <1>0, <1>1, <1>2, <1>3, <3>1, <3>2
    <3>3. CASE ~(k < i)
      <4>1. k + 1 \in 1..Len(q) /\ w[k] = q[k + 1]
        BY <1>0, <1>2, <3>3
      <4>2. j = k + 1
        BY <1>1, <1>3, <3>1, <4>1
      <4> QED
        BY <1>0, <2>1, <2>2, <3>3, <4>2
    <3> QED
      BY <3>2, <3>3
  <2>3. CASE ~(j < i)
    <3>1. j + 1 \in 1..Len(q) /\ w[j] = q[j + 1]
      BY <1>0, <1>2, <2>3
    <3>2. CASE k < i
      <4>1. k \in 1..Len(q) /\ w[k] = q[k]
        BY <1>0, <1>2, <3>2
      <4>2. j + 1 = k
        BY <1>1, <1>3, <3>1, <4>1
      <4> QED
        BY <1>0, <2>1, <2>3, <3>2, <4>2
    <3>3. CASE ~(k < i)
      <4>1. k + 1 \in 1..Len(q) /\ w[k] = q[k + 1]
        BY <1>0, <1>2, <3>3
      <4>2. j + 1 = k + 1
        BY <1>1, <1>3, <3>1, <4>1
      <4> QED
        BY <2>1, <4>2
    <3> QED
      BY <3>2, <3>3
  <2> QED
    BY <2>2, <2>3
<1>4. ASSUME NEW k \in 1..Len(w) PROVE w[k] \in Range(q) /\ w[k] # q[i]
  <2>1. k < i => k # i
    BY <1>0
  <2>2. PICK j \in 1..Len(q) : j # i /\ w[k] = q[j]
    BY <1>2, <2>1, Zenon
  <2> QED
    BY <1>1, <2>2, Places
<1>5. ASSUME NEW j \in 1..Len(q), j # i PROVE q[j] \in Range(w)
  <2>1. CASE j < i
    <3>1. j \in 1..Len(w) /\ j \in 1..(i - 1)
      BY <1>0, <2>1
    <3>2. w[j] = q[j]
      BY <3>1 DEF CutFrom
    <3> QED
      BY <3>1, <3>2, Places
  <2>2. CASE ~(j < i)
    <3>1. j - 1 \in 1..Len(w) /\ j - 1 \in i..(Len(q) - 1) /\ (j - 1) + 1 = j
      BY <1>0, <1>5, <2>2
    <3>2. w[j - 1] = q[j]
      BY <3>1 DEF CutFrom
    <3> QED
      BY <3>1, <3>2, Places
  <2> QED
    BY <2>1, <2>2
<1>6. IsInjective(w)
  BY <1>3, Places, Zenon
<1>7. ASSUME NEW x \in Range(w) PROVE x \in Range(q) \ {q[i]}
  <2>1. PICK k \in 1..Len(w) : w[k] = x
    BY Places
  <2> QED
    BY <1>4, <2>1
<1>8. ASSUME NEW x \in Range(q), x # q[i] PROVE x \in Range(w)
  <2>1. PICK j \in 1..Len(q) : q[j] = x
    BY Places
  <2> QED
    BY <1>5, <1>8, <2>1
<1> QED
  BY <1>6, <1>7, <1>8

\* Where an element is, and the sequence without it.
LEMMA WithoutQueue ==
  ASSUME NEW S, NEW q \in Seq(S), NEW h
  PROVE  /\ Without(q, h) \in Seq(S)
         /\ h \notin Range(q) => Without(q, h) = q
         /\ h \in Range(q) => /\ Position(q, h) \in 1..Len(q) /\ q[Position(q, h)] = h
                              /\ CutFrom(Without(q, h), q, Position(q, h))
         /\ IsInjective(q) => /\ IsInjective(Without(q, h))
                              /\ Range(Without(q, h)) = Range(q) \ {h}
<1>1. CASE h \notin Range(q)
  BY <1>1 DEF Without
<1>2. CASE h \in Range(q)
  <2>1. \E i \in 1..Len(q) : q[i] = h
    BY <1>2, Places
  <2>2. PICK i : i = Position(q, h)
    OBVIOUS
  <2>3. i \in 1..Len(q) /\ q[i] = h
    BY <2>1, <2>2 DEF Position
  <2>4. PICK w : w = RemoveAt(q, i)
    OBVIOUS
  <2>5. w \in Seq(S) /\ CutFrom(w, q, i)
    BY <2>3, <2>4, RemoveOne, Zenon
  <2>6. Without(q, h) = w
    BY <1>2, <2>2, <2>4 DEF Without
  <2>7. IsInjective(q) => IsInjective(w) /\ Range(w) = Range(q) \ {h}
    BY <2>3, <2>5, CutContents, Zenon
  <2> QED
    BY <1>2, <2>2, <2>3, <2>5, <2>6, <2>7, Zenon
<1> QED
  BY <1>1, <1>2

\* A sequence of one element.
LEMMA OneElement ==
  ASSUME NEW S, NEW h \in S
  PROVE  /\ <<h>> \in Seq(S) /\ Len(<<h>>) = 1 /\ <<h>>[1] = h
         /\ Range(<<h>>) = {h} /\ IsInjective(<<h>>)
<1>1. <<h>> \in Seq(S) /\ Len(<<h>>) = 1 /\ <<h>>[1] = h
  OBVIOUS
<1>2. PICK w : w = <<h>>
  OBVIOUS
<1>3. w \in Seq(S) /\ Len(w) = 1 /\ w[1] = h
  BY <1>1, <1>2
<1>4. Range(w) = {h}
  <2>1. h \in Range(w)
    <3>1. 1 \in 1..Len(w)
      BY <1>3
    <3> QED
      BY <1>3, <3>1, Places
  <2>2. ASSUME NEW x \in Range(w) PROVE x = h
    <3>1. PICK i \in 1..Len(w) : w[i] = x
      BY <1>3, Places
    <3> QED
      BY <1>3, <3>1
  <2> QED
    BY <2>1, <2>2
<1>5. IsInjective(w)
  <2>1. \A i, j \in 1..Len(w) : w[i] = w[j] => i = j
    BY <1>3
  <2> QED
    BY <1>3, <2>1, Places, Zenon
<1> QED
  BY <1>1, <1>2, <1>4, <1>5

\* A watcher is started, and an endgame queued, at the head of a list.
LEMMA PrependQueue ==
  ASSUME NEW S, NEW q \in Seq(S), NEW h \in S
  PROVE  /\ <<h>> \o q \in Seq(S)
         /\ Joined(<<h>> \o q, <<h>>, q)
         /\ Range(<<h>> \o q) = Range(q) \cup {h}
         /\ IsInjective(q) /\ h \notin Range(q) => IsInjective(<<h>> \o q)
<1>1. PICK e \in Seq(S) : e = <<h>> /\ Range(e) = {h} /\ IsInjective(e)
  BY OneElement, Zenon
<1>2. /\ e \o q \in Seq(S) /\ Joined(e \o q, e, q)
      /\ Range(e \o q) = Range(e) \cup Range(q)
      /\ IsInjective(e) /\ IsInjective(q) /\ Range(e) \cap Range(q) = {}
           => IsInjective(e \o q)
  BY JoinQueues, Zenon
<1>3. PICK w : w = e \o q
  OBVIOUS
<1>4. w \in Seq(S) /\ Joined(w, e, q) /\ Range(w) = Range(q) \cup {h}
  BY <1>1, <1>2, <1>3
<1>5. IsInjective(q) /\ h \notin Range(q) => IsInjective(w)
  BY <1>1, <1>2, <1>3
<1> QED
  BY <1>1, <1>3, <1>4, <1>5, Zenon

\* A packet is posted at the tail.
LEMMA AppendQueue ==
  ASSUME NEW S, NEW q \in Seq(S), NEW h \in S
  PROVE  /\ Append(q, h) \in Seq(S)
         /\ Range(Append(q, h)) = Range(q) \cup {h}
         /\ IsInjective(q) /\ h \notin Range(q) => IsInjective(Append(q, h))
<1>1. PICK e \in Seq(S) : e = <<h>> /\ Range(e) = {h} /\ IsInjective(e)
  BY OneElement, Zenon
<1>2. PICK w : w = q \o e
  OBVIOUS
<1>3. /\ w \in Seq(S) /\ Range(w) = Range(q) \cup Range(e)
      /\ IsInjective(q) /\ IsInjective(e) /\ Range(q) \cap Range(e) = {} => IsInjective(w)
  BY <1>2, JoinQueues, Zenon
<1>4. Append(q, h) = w
  BY <1>1, <1>2, AppendIsConcat, Zenon
<1>5. IsInjective(q) /\ h \notin Range(q) => IsInjective(w)
  BY <1>1, <1>3
<1>6. Range(w) = Range(q) \cup {h}
  BY <1>1, <1>3
<1> QED
  BY <1>3, <1>4, <1>5, <1>6, Zenon

\* A loop takes the first element off a queue.
LEMMA TailQueue ==
  ASSUME NEW S, NEW q \in Seq(S), q # <<>>
  PROVE  /\ Head(q) \in S /\ Head(q) = q[1] /\ Head(q) \in Range(q)
         /\ Len(q) \in Nat /\ Len(q) >= 1
         /\ Tail(q) \in Seq(S) /\ CutFrom(Tail(q), q, 1)
         /\ IsInjective(q) => /\ IsInjective(Tail(q))
                              /\ Range(Tail(q)) = Range(q) \ {Head(q)}
<1>1. PICK w : w = Tail(q)
  OBVIOUS
<1>2. /\ w \in Seq(S) /\ Len(w) = Len(q) - 1
      /\ \A i \in 1..Len(w) : w[i] = q[i + 1]
  BY <1>1, HeadTailProperties
<1>3. Len(q) \in Nat /\ Len(q) # 0
  BY Places
<1>4. 1 \in 1..Len(q) /\ Len(q) >= 1
  BY <1>3
<1>5. Head(q) = q[1] /\ q[1] \in Range(q) /\ q[1] \in S
  BY <1>4, Places
<1>6. CutFrom(w, q, 1)
  BY <1>2, <1>3 DEF CutFrom
<1>7. IsInjective(q) => IsInjective(w) /\ Range(w) = Range(q) \ {q[1]}
  BY <1>2, <1>4, <1>6, CutContents
<1> QED
  BY <1>1, <1>2, <1>3, <1>4, <1>5, <1>6, <1>7

-----------------------------------------------------------------------------
(* The order of the timers.                                                *)

\* Taking one element out leaves the others in order.
LEMMA CutSorted ==
  ASSUME NEW S, NEW f \in [S -> Int], NEW q \in Seq(S), NEW i \in 1..Len(q),
         NEW w \in Seq(S), CutFrom(w, q, i), Sorted(q, f)
  PROVE  Sorted(w, f)
<1>0. Len(q) \in Nat /\ i \in Nat /\ Len(w) = Len(q) - 1
  BY Places DEF CutFrom
<1>1. ASSUME NEW k \in 1..Len(w)
      PROVE  \E m \in 1..Len(q) : /\ w[k] = q[m]
                                  /\ (k < i /\ m = k) \/ (~(k < i) /\ m = k + 1)
  <2>1. CASE k < i
    <3>1. k \in 1..(i - 1) /\ k \in 1..Len(q)
      BY <1>0, <2>1
    <3> QED
      BY <2>1, <3>1 DEF CutFrom
  <2>2. CASE ~(k < i)
    <3>1. k \in i..(Len(q) - 1) /\ k + 1 \in 1..Len(q)
      BY <1>0, <2>2
    <3> QED
      BY <2>2, <3>1 DEF CutFrom
  <2> QED
    BY <2>1, <2>2
<1>2. ASSUME NEW j \in 1..Len(w), NEW k \in 1..Len(w), j < k PROVE f[w[j]] <= f[w[k]]
  <2>1. PICK m \in 1..Len(q) : w[j] = q[m] /\ ((j < i /\ m = j) \/ (~(j < i) /\ m = j + 1))
    BY <1>1
  <2>2. PICK n \in 1..Len(q) : w[k] = q[n] /\ ((k < i /\ n = k) \/ (~(k < i) /\ n = k + 1))
    BY <1>1
  <2>3. m < n
    <3>1. j \in Nat /\ k \in Nat
      BY <1>0
    <3>2. (j < i /\ m = j) \/ (~(j < i) /\ m = j + 1)
      BY <2>1, Zenon
    <3>3. (k < i /\ n = k) \/ (~(k < i) /\ n = k + 1)
      BY <2>2, Zenon
    <3>4. CASE j < i /\ ~(k < i)
      <4>1. m = j /\ n = k + 1
        BY <3>2, <3>3, <3>4
      <4> QED
        BY <1>2, <3>1, <4>1
    <3>5. CASE ~(j < i)
      <4>1. ~(k < i)
        BY <1>0, <1>2, <3>1, <3>5
      <4>2. m = j + 1 /\ n = k + 1
        BY <3>2, <3>3, <3>5, <4>1
      <4> QED
        BY <1>2, <3>1, <4>2
    <3>6. CASE j < i /\ k < i
      BY <1>2, <3>2, <3>3, <3>6
    <3> QED
      BY <3>4, <3>5, <3>6
  <2> QED
    BY <2>1, <2>2, <2>3 DEF Sorted
<1> QED
  BY <1>2 DEF Sorted

\* Both parts of a sorted sequence are sorted, the second not before the first.
LEMMA PartsSorted ==
  ASSUME NEW S, NEW f \in [S -> Int], NEW w \in Seq(S), NEW a \in Seq(S), NEW b \in Seq(S),
         Joined(w, a, b)
  PROVE  Sorted(w, f) <=> /\ Sorted(a, f) /\ Sorted(b, f)
                          /\ \A i \in 1..Len(a), j \in 1..Len(b) : f[a[i]] <= f[b[j]]
<1>0. Len(a) \in Nat /\ Len(b) \in Nat /\ Len(w) = Len(a) + Len(b)
  BY Places, Zenon DEF Joined
<1>1. \A i \in 1..Len(a) : i \in 1..Len(w) /\ w[i] = a[i]
  BY <1>0 DEF Joined
<1>2. \A i \in 1..Len(b) : Len(a) + i \in 1..Len(w) /\ w[Len(a) + i] = b[i]
  BY <1>0 DEF Joined
<1>3. ASSUME Sorted(w, f)
      PROVE  /\ Sorted(a, f) /\ Sorted(b, f)
             /\ \A i \in 1..Len(a), j \in 1..Len(b) : f[a[i]] <= f[b[j]]
  <2>1. Sorted(a, f)
    BY <1>1, <1>3 DEF Sorted
  <2>2. ASSUME NEW i \in 1..Len(b), NEW j \in 1..Len(b), i < j PROVE f[b[i]] <= f[b[j]]
    <3>1. Len(a) + i < Len(a) + j
      BY <1>0, <2>2
    <3>2. f[w[Len(a) + i]] <= f[w[Len(a) + j]]
      BY <1>2, <1>3, <3>1 DEF Sorted
    <3> QED
      BY <1>2, <3>2
  <2>3. ASSUME NEW i \in 1..Len(a), NEW j \in 1..Len(b) PROVE f[a[i]] <= f[b[j]]
    <3>1. i < Len(a) + j
      BY <1>0
    <3>2. f[w[i]] <= f[w[Len(a) + j]]
      BY <1>1, <1>2, <1>3, <3>1 DEF Sorted
    <3> QED
      BY <1>1, <1>2, <3>2
  <2> QED
    BY <2>1, <2>2, <2>3 DEF Sorted
<1>4. ASSUME Sorted(a, f), Sorted(b, f),
             \A i \in 1..Len(a), j \in 1..Len(b) : f[a[i]] <= f[b[j]]
      PROVE  Sorted(w, f)
  <2> SUFFICES ASSUME NEW i \in 1..Len(w), NEW j \in 1..Len(w), i < j
               PROVE  f[w[i]] <= f[w[j]]
    BY DEF Sorted
  <2>0. i \in Nat /\ j \in Nat
    BY <1>0
  <2>1. CASE j <= Len(a)
    <3>1. i \in 1..Len(a) /\ j \in 1..Len(a)
      BY <1>0, <2>1
    <3> QED
      BY <1>1, <1>4, <3>1 DEF Sorted
  <2>2. CASE i > Len(a)
    <3>1. PICK k \in 1..Len(b), l \in 1..Len(b) : i = Len(a) + k /\ j = Len(a) + l /\ k < l
      <4>1. /\ i - Len(a) \in 1..Len(b) /\ j - Len(a) \in 1..Len(b)
            /\ i = Len(a) + (i - Len(a)) /\ j = Len(a) + (j - Len(a))
            /\ i - Len(a) < j - Len(a)
        BY <1>0, <2>2
      <4> QED
        BY <4>1
    <3> QED
      BY <1>2, <1>4, <3>1 DEF Sorted
  <2>3. CASE i <= Len(a) /\ ~(j <= Len(a))
    <3>1. i \in 1..Len(a)
      BY <1>0, <2>3
    <3>2. PICK l \in 1..Len(b) : j = Len(a) + l
      <4>1. j - Len(a) \in 1..Len(b) /\ j = Len(a) + (j - Len(a))
        BY <1>0, <2>3
      <4> QED
        BY <4>1
    <3> QED
      BY <1>1, <1>2, <1>4, <3>1, <3>2
  <2> QED
    BY <1>0, <2>0, <2>1, <2>2, <2>3
<1> QED
  BY <1>3, <1>4

\* A set of places that has every place below one of its own is a prefix.
LEMMA PrefixCount ==
  ASSUME NEW n \in Nat, NEW P \in SUBSET (1..n),
         \A i \in P, j \in 1..n : j <= i => j \in P
  PROVE  /\ Cardinality(P) \in 0..n
         /\ \A i \in 1..n : i \in P <=> i <= Cardinality(P)
<1>1. IsFiniteSet(1..n) /\ Cardinality(1..n) = n
  BY FS_Interval
<1>2. IsFiniteSet(P) /\ Cardinality(P) <= n /\ Cardinality(P) \in Nat
  BY <1>1, FS_Subset, FS_CardinalityType
<1>3. ASSUME NEW i \in P PROVE i <= Cardinality(P)
  <2>1. 1..i \in SUBSET P /\ i \in Nat /\ i >= 1
    OBVIOUS
  <2>2. Cardinality(1..i) = i
    BY <2>1, FS_Interval
  <2>3. Cardinality(1..i) <= Cardinality(P)
    BY <1>2, <2>1, FS_Subset
  <2> QED
    BY <2>2, <2>3
<1>4. ASSUME NEW i \in 1..n, i \notin P PROVE Cardinality(P) < i
  <2>1. P \in SUBSET (1..(i - 1)) /\ i - 1 \in Nat
    <3>1. ASSUME NEW k \in P PROVE k \in 1..(i - 1)
      BY <1>4
    <3> QED
      BY <3>1
  <2>2. IsFiniteSet(1..(i - 1)) /\ Cardinality(1..(i - 1)) = i - 1
    BY <2>1, FS_Interval
  <2>3. Cardinality(P) <= Cardinality(1..(i - 1))
    BY <2>1, <2>2, FS_Subset
  <2> QED
    BY <1>2, <2>1, <2>2, <2>3
<1> QED
  BY <1>2, <1>3, <1>4

\* RB_INSERT keeps the tree in order.
LEMMA InsertTimer ==
  ASSUME NEW q \in Seq(Timers), NEW h \in Timers, NEW d \in Int,
         due \in [Timers -> Int], IsInjective(q), Sorted(q, due), h \notin Range(q)
  PROVE  /\ Insert(q, h, d) \in Seq(Timers)
         /\ IsInjective(Insert(q, h, d))
         /\ Range(Insert(q, h, d)) = Range(q) \cup {h}
         /\ Sorted(Insert(q, h, d), [due EXCEPT ![h] = d])
<1>0. Len(q) \in Nat /\ \A i \in 1..Len(q) : q[i] \in Timers
  BY Places
<1>1. PICK P \in SUBSET (1..Len(q)) : P = {i \in 1..Len(q) : due[q[i]] <= d}
  OBVIOUS
<1>2. \A i \in P, j \in 1..Len(q) : j <= i => j \in P
  <2> SUFFICES ASSUME NEW i \in P, NEW j \in 1..Len(q), j <= i PROVE due[q[j]] <= d
    BY <1>1
  <2>1. i \in 1..Len(q) /\ due[q[i]] <= d
    BY <1>1
  <2>2. due[q[j]] <= due[q[i]]
    <3>1. CASE j = i
      BY <1>0, <3>1
    <3>2. CASE j # i
      <4>1. j < i
        BY <1>0, <2>1, <3>2
      <4> QED
        BY <2>1, <4>1 DEF Sorted
    <3> QED
      BY <3>1, <3>2
  <2> QED
    BY <1>0, <2>1, <2>2
<1>3. PICK n : n = Cardinality(P)
  OBVIOUS
<1>4. n \in 0..Len(q) /\ \A i \in 1..Len(q) : i \in P <=> i <= n
  BY <1>0, <1>2, <1>3, PrefixCount, Zenon
<1>5. PICK a, b \in Seq(Timers) :
        /\ a = SubSeq(q, 1, n) /\ b = SubSeq(q, n + 1, Len(q))
        /\ Joined(q, a, b) /\ Len(a) = n
  BY <1>4, SplitQueue, Zenon
<1>6. PICK e \in Seq(Timers) :
        e = <<h>> /\ Len(e) = 1 /\ e[1] = h /\ Range(e) = {h} /\ IsInjective(e)
  BY OneElement, Zenon
<1>7. PICK v \in Seq(Timers) :
        /\ v = a \o e /\ Joined(v, a, e) /\ Range(v) = Range(a) \cup Range(e)
        /\ IsInjective(a) /\ IsInjective(e) /\ Range(a) \cap Range(e) = {} => IsInjective(v)
  BY JoinQueues, Zenon
<1>8. PICK w \in Seq(Timers) :
        /\ w = v \o b /\ Joined(w, v, b) /\ Range(w) = Range(v) \cup Range(b)
        /\ IsInjective(v) /\ IsInjective(b) /\ Range(v) \cap Range(b) = {} => IsInjective(w)
  BY JoinQueues, Zenon
<1>9. Insert(q, h, d) = w
  <2>1. Insert(q, h, d) = InsertAt(q, 1 + n, h)
    BY <1>1, <1>3, Zenon DEF Insert
  <2>2. (1 + n) - 1 = n /\ 1 + n = n + 1
    BY <1>0, <1>4
  <2>3. InsertAt(q, 1 + n, h) = SubSeq(q, 1, (1 + n) - 1) \o <<h>> \o SubSeq(q, 1 + n, Len(q))
    BY Zenon DEF InsertAt
  <2> QED
    BY <1>5, <1>6, <1>7, <1>8, <2>1, <2>2, <2>3, Zenon
<1>10. /\ Range(q) = Range(a) \cup Range(b) /\ IsInjective(a) /\ IsInjective(b)
       /\ Range(a) \cap Range(b) = {}
  <2>1. Joined(q, a, b)
    BY <1>5, Zenon
  <2>2. /\ Range(q) = Range(a) \cup Range(b)
        /\ IsInjective(q) => /\ IsInjective(a) /\ IsInjective(b)
                             /\ Range(a) \cap Range(b) = {}
    BY <2>1, PartsApart
  <2> QED
    BY <2>2
<1>11. Range(w) = Range(q) \cup {h}
  BY <1>6, <1>7, <1>8, <1>10
<1>12. IsInjective(w)
  BY <1>6, <1>7, <1>8, <1>10
<1>13. PICK f \in [Timers -> Int] : f = [due EXCEPT ![h] = d]
  OBVIOUS
<1>14. f[h] = d /\ \A x \in Timers : x # h => f[x] = due[x]
  BY <1>13
<1>15. /\ Sorted(a, due) /\ Sorted(b, due)
       /\ \A i \in 1..Len(a), j \in 1..Len(b) : due[a[i]] <= due[b[j]]
  BY <1>5, PartsSorted, Zenon
<1>16. \A i \in 1..Len(a) : a[i] \in Timers /\ f[a[i]] = due[a[i]] /\ f[a[i]] <= d
  <2> TAKE i \in 1..Len(a)
  <2>1. a[i] \in Range(a) /\ a[i] \in Timers
    BY Places
  <2>2. f[a[i]] = due[a[i]]
    BY <1>10, <1>14, <2>1
  <2>3. i \in 1..Len(q) /\ q[i] = a[i] /\ i <= n
    <3>1. q[i] = a[i] /\ Len(a) = n
      BY <1>5, Zenon DEF Joined
    <3> QED
      BY <1>0, <1>4, <3>1
  <2> QED
    BY <1>1, <1>4, <2>1, <2>2, <2>3
<1>17. \A i \in 1..Len(b) : b[i] \in Timers /\ f[b[i]] = due[b[i]] /\ d <= f[b[i]]
  <2> TAKE i \in 1..Len(b)
  <2>1. b[i] \in Range(b) /\ b[i] \in Timers
    BY Places
  <2>2. f[b[i]] = due[b[i]]
    BY <1>10, <1>14, <2>1
  <2>3. Len(b) \in Nat /\ Len(q) = Len(a) + Len(b) /\ Len(a) = n
    <3>1. Len(b) \in Nat
      BY Places, Zenon
    <3>2. Len(q) = Len(a) + Len(b) /\ Len(a) = n
      BY <1>5, Zenon DEF Joined
    <3> QED
      BY <3>1, <3>2
  <2>4. n + i \in 1..Len(q) /\ q[n + i] = b[i] /\ ~(n + i <= n)
    <3>1. q[Len(a) + i] = b[i]
      BY <1>5, Zenon DEF Joined
    <3> QED
      BY <1>0, <1>4, <2>3, <3>1
  <2>5. ~(due[b[i]] <= d)
    BY <1>1, <1>4, <2>4
  <2> QED
    BY <2>1, <2>2, <2>5
<1>18. Sorted(a, f) /\ Sorted(b, f) /\ Sorted(e, f)
  <2>1. Sorted(a, f)
    BY <1>15, <1>16 DEF Sorted
  <2>2. Sorted(b, f)
    BY <1>15, <1>17 DEF Sorted
  <2>3. Sorted(e, f)
    BY <1>6 DEF Sorted
  <2> QED
    BY <2>1, <2>2, <2>3
<1>19. Sorted(v, f)
  <2>1. \A i \in 1..Len(a), j \in 1..Len(e) : f[a[i]] <= f[e[j]]
    BY <1>6, <1>14, <1>16
  <2> QED
    BY <1>7, <1>18, <2>1, PartsSorted, Zenon
<1>20. Sorted(w, f)
  <2>1. \A i \in 1..Len(v), j \in 1..Len(b) : f[v[i]] <= f[b[j]]
    <3> TAKE i \in 1..Len(v), j \in 1..Len(b)
    <3>1. v[i] \in Range(v) /\ v[i] \in Timers
      BY Places
    <3>2. f[v[i]] <= d
      <4>1. CASE v[i] = h
        BY <1>14, <4>1
      <4>2. CASE v[i] # h
        <5>1. v[i] \in Range(a)
          BY <1>6, <1>7, <3>1, <4>2
        <5>2. PICK k \in 1..Len(a) : a[k] = v[i]
          <6>1. \A x \in Range(a) : \E k \in 1..Len(a) : a[k] = x
            <7> TAKE x \in Range(a)
            <7> QED
              BY Places
          <6> QED
            BY <5>1, <6>1
        <5> QED
          BY <1>16, <5>2
      <4> QED
        BY <4>1, <4>2
    <3>3. b[j] \in Timers /\ d <= f[b[j]]
      BY <1>17
    <3>4. PICK x, y \in Int : x = f[v[i]] /\ y = f[b[j]]
      BY <3>1, <3>3
    <3>5. x <= d /\ d <= y
      BY <3>2, <3>3, <3>4
    <3>6. x <= y
      BY <3>5
    <3> QED
      BY <3>4, <3>6
  <2> QED
    BY <1>8, <1>18, <1>19, <2>1, PartsSorted, Zenon
<1> QED
  BY <1>9, <1>11, <1>12, <1>13, <1>20, Zenon

\* Stopping a timer keeps the others in order.
LEMMA WithoutSorted ==
  ASSUME NEW f \in [Timers -> Int], NEW q \in Seq(Timers), NEW h, Sorted(q, f)
  PROVE  Sorted(Without(q, h), f)
<1>1. CASE h \notin Range(q)
  BY <1>1, WithoutQueue
<1>2. CASE h \in Range(q)
  <2>1. PICK w, i : w = Without(q, h) /\ i = Position(q, h)
    OBVIOUS
  <2>2. w \in Seq(Timers) /\ i \in 1..Len(q) /\ CutFrom(w, q, i)
    BY <1>2, <2>1, WithoutQueue, Zenon
  <2> QED
    BY <2>1, <2>2, CutSorted, Zenon
<1> QED
  BY <1>1, <1>2

-----------------------------------------------------------------------------
(* The life of a handle.                                                   *)

\* The types of handles have nothing in common, and there are finitely many.
LEMMA HandleKinds ==
  /\ IsFiniteSet(Handles) /\ NoHandle \notin Handles
  /\ Timers \subseteq Handles /\ Asyncs \subseteq Handles /\ Watchers \subseteq Handles
  /\ Timers \cap Asyncs = {} /\ Timers \cap Watchers = {} /\ Asyncs \cap Watchers = {}
  /\ \A h : KindOf(h) \in Kinds
  BY LoopAssumption DEF Handles, KindOf, Kinds

\* uv_want_endgame queues a handle that is not queued yet.
LEMMA WantEndgameQueues ==
  ASSUME endgame \in Seq(Handles), IsInjective(endgame), NEW h \in Handles, WantEndgame(h)
  PROVE  /\ endgame' \in Seq(Handles) /\ IsInjective(endgame')
         /\ Range(endgame') = Range(endgame) \cup {h}
<1>1. CASE h \in Range(endgame)
  BY <1>1 DEF WantEndgame
<1>2. CASE h \notin Range(endgame)
  BY <1>2, PrependQueue DEF WantEndgame
<1> QED
  BY <1>1, <1>2

LEMMA InitLife == Init => LifeOK
  BY EmptyQueue DEF Init, LifeOK, HandleTypes

LEMMA UserLife ==
  ASSUME IInv, UserCall
  PROVE  LifeOK'
<1> USE DEF IInv, LifeOK, HandleTypes
<1>a. endgame \in Seq(Handles) /\ IsInjective(endgame)
  OBVIOUS
<1>b. \A h \in Timers \cup Watchers : h \notin async_sent
  BY HandleKinds DEF SentOK, AsyncTypes
<1>1. ASSUME NEW h \in Handles, uv_handle_init(h) PROVE LifeOK'
  BY <1>1 DEF uv_handle_init
<1>2. ASSUME NEW h \in Handles, uv_ref(h) \/ uv_unref(h) PROVE LifeOK'
  BY <1>2 DEF uv_ref, uv_unref, asyncVars
<1>3. ASSUME NEW h \in Timers, uv_timer_start(h) \/ uv_timer_again(h) PROVE LifeOK'
  BY <1>3, HandleKinds DEF uv_timer_start, uv_timer_again, uv__handle_start, Open, asyncVars
<1>4. ASSUME NEW h \in Timers, uv_timer_stop(h) PROVE LifeOK'
  BY <1>4 DEF uv_timer_stop, uv__handle_stop, asyncVars
<1>5. ASSUME NEW h \in Timers, uv_timer_set_repeat(h) PROVE LifeOK'
  BY <1>5 DEF uv_timer_set_repeat, handleVars, asyncVars
<1>6. ASSUME NEW h \in Watchers, uv_watcher_start(h) PROVE LifeOK'
  BY <1>6, HandleKinds DEF uv_watcher_start, uv__handle_start, Open, asyncVars
<1>7. ASSUME NEW h \in Watchers, uv_watcher_stop(h) PROVE LifeOK'
  BY <1>7 DEF uv_watcher_stop, uv__handle_stop, asyncVars
<1>8. ASSUME NEW h \in Handles, uv__handle_closing(h), h \in Open,
             UNCHANGED <<ref, closed, handle_queue, async_sent>>,
             IF h \in async_sent THEN UNCHANGED endgame ELSE WantEndgame(h)
      PROVE  LifeOK'
  <2>1. CASE h \in async_sent
    BY <1>8, <2>1 DEF uv__handle_closing, Open
  <2>2. CASE h \notin async_sent
    <3>1. /\ endgame' \in Seq(Handles) /\ IsInjective(endgame')
          /\ Range(endgame') = Range(endgame) \cup {h}
      BY <1>a, <1>8, <2>2, WantEndgameQueues
    <3> QED
      BY <1>8, <2>2, <3>1 DEF uv__handle_closing, Open
  <2> QED
    BY <2>1, <2>2
<1>9. ASSUME NEW h \in Timers, uv_close_timer(h) PROVE LifeOK'
  BY <1>8, <1>9, <1>b, HandleKinds DEF uv_close_timer, asyncVars
<1>10. ASSUME NEW h \in Watchers, uv_close_watcher(h) PROVE LifeOK'
  BY <1>8, <1>10, <1>b, HandleKinds DEF uv_close_watcher, asyncVars
<1>11. ASSUME NEW h \in Asyncs, uv_async_close(h) PROVE LifeOK'
  BY <1>8, <1>11, HandleKinds DEF uv_async_close, asyncVars
<1>12. ASSUME NEW h \in Asyncs, uv_async_send(h) PROVE LifeOK'
  BY <1>12 DEF uv_async_send, handleVars, Open
<1>13. CASE uv_stop
  BY <1>13 DEF uv_stop, handleVars, asyncVars
<1> QED
  BY <1>1, <1>2, <1>3, <1>4, <1>5, <1>6, <1>7, <1>9, <1>10, <1>11, <1>12, <1>13
  DEF UserCall

\* What a step of the loop's thread or of a sending thread does to handles.
LEMMA LoopLife ==
  ASSUME IInv, [Next]_vars, ~UserCall
  PROVE  LifeOK'
<1> USE DEF IInv, LifeOK, HandleTypes
<1>a. endgame \in Seq(Handles) /\ IsInjective(endgame)
  OBVIOUS
<1>1. ASSUME NEW h \in Asyncs, AsyncPost(h) PROVE LifeOK'
  BY <1>1 DEF AsyncPost, handleVars
<1>2. CASE uv__wake_all_loops
  BY <1>2 DEF uv__wake_all_loops, handleVars, asyncVars
<1>3. CASE uv_run \/ uv_loop_close
  BY <1>3 DEF uv_run, uv_loop_close, handleVars, asyncVars
<1>4. CASE CallbackReturns
  BY <1>4 DEF CallbackReturns, handleVars, asyncVars
<1>5. ASSUME NEW p, FireTimer(p) PROVE LifeOK'
  BY <1>5 DEF FireTimer, uv__handle_stop, asyncVars
<1>6. ASSUME NEW k, Invoke(k) PROVE LifeOK'
  BY <1>6 DEF Invoke, handleVars, asyncVars
<1>7. CASE TimersDone
  BY <1>7 DEF TimersDone, handleVars
<1>8. CASE uv_process_async_wakeup_req
  <2>1. PICK h : h = Head(batch)
    OBVIOUS
  <2>2. h \in async_sent /\ h \in Handles
    BY <1>8, <2>1, TailQueue, HandleKinds DEF SentOK, AsyncTypes, uv_process_async_wakeup_req
  <2>3. /\ UNCHANGED <<ref, active, closing, closed, handle_queue>>
        /\ async_sent' = async_sent \ {h}
        /\ IF h \in closing THEN WantEndgame(h) ELSE UNCHANGED endgame
    BY <1>8, <2>1 DEF uv_process_async_wakeup_req, ClearSent
  <2>4. CASE h \in closing
    <3>1. /\ endgame' \in Seq(Handles) /\ IsInjective(endgame')
          /\ Range(endgame') = Range(endgame) \cup {h}
      BY <1>a, <2>2, <2>3, <2>4, WantEndgameQueues
    <3> QED
      BY <2>2, <2>3, <2>4, <3>1
  <2>5. CASE h \notin closing
    BY <2>3, <2>5
  <2> QED
    BY <2>4, <2>5
<1>9. CASE ReqsDone \/ IdleDone \/ PrepareDone \/ CheckDone
  BY <1>9 DEF ReqsDone, IdleDone, PrepareDone, CheckDone, handleVars, asyncVars
<1>10. CASE uv_poll
  BY <1>10 DEF uv_poll, handleVars
<1>11. CASE uv_process_endgames
  <2>1. PICK h : h = Head(endgame)
    OBVIOUS
  <2>2. /\ endgame # <<>> /\ endgame' = Tail(endgame)
        /\ UNCHANGED <<ref, active, closing, async_sent>>
        /\ IF h \in closing /\ h \notin async_sent
           THEN handle_queue' = handle_queue \ {h} /\ closed' = closed \cup {h}
           ELSE UNCHANGED <<handle_queue, closed>>
    BY <1>11, <2>1 DEF uv_process_endgames, asyncVars
  <2>3. /\ h \in Range(endgame) /\ endgame' \in Seq(Handles) /\ IsInjective(endgame')
        /\ Range(endgame') = Range(endgame) \ {h} /\ h \in Handles
    BY <1>a, <2>1, <2>2, TailQueue
  <2> QED
    BY <2>2, <2>3
<1>12. CASE EndgamesDone \/ OnceTimersDone
  BY <1>12 DEF EndgamesDone, OnceTimersDone, handleVars, asyncVars
<1>13. CASE UNCHANGED vars
  BY <1>13 DEF vars, handleVars, asyncVars
<1> QED
  BY <1>1, <1>2, <1>3, <1>4, <1>5, <1>6, <1>7, <1>8, <1>9, <1>10, <1>11, <1>12, <1>13
  DEF Next, LoopStep

LEMMA LifeStep == IInv /\ [Next]_vars => LifeOK'
  BY UserLife, LoopLife DEF Next

-----------------------------------------------------------------------------
(* The count of active handles.                                            *)

\* Adding an element to a set of handles, or taking one out.
LEMMA OneMoreOrLess ==
  ASSUME NEW A, A \subseteq Handles, NEW h
  PROVE  /\ IsFiniteSet(A) /\ Cardinality(A) \in Nat
         /\ h \notin A => Cardinality(A \cup {h}) = Cardinality(A) + 1
         /\ h \in A => Cardinality(A \ {h}) = Cardinality(A) - 1
<1>1. IsFiniteSet(A)
  BY HandleKinds, FS_Subset
<1> QED
  BY <1>1, FS_CardinalityType, FS_AddElement, FS_RemoveElement

\* The two sets of handles that the counter counts.
Closing == closing \ closed
Live == (active \cap ref) \ closing

LEMMA InitCount == Init => ActiveCount
<1> SUFFICES ASSUME Init PROVE ActiveCount
  OBVIOUS
<1>1. closing \ closed = {} /\ (active \cap ref) \ closing = {} /\ active_handles = 0
  BY DEF Init
<1> QED
  BY <1>1, FS_EmptySet DEF ActiveCount

LEMMA CountFrame ==
  ASSUME ActiveCount, Closing' = Closing, Live' = Live, active_handles' = active_handles
  PROVE  ActiveCount'
  BY DEF ActiveCount, Closing, Live

\* How a handle enters or leaves the two sets, and the counter follows.
LEMMA CountMoves ==
  ASSUME LifeOK, ActiveCount, NEW h
  PROVE  /\ active_handles \in Int
         /\ h \notin Live /\ Live' = Live \cup {h} /\ Closing' = Closing
              /\ active_handles' = active_handles + 1 => ActiveCount'
         /\ h \in Live /\ Live' = Live \ {h} /\ Closing' = Closing
              /\ active_handles' = active_handles - 1 => ActiveCount'
         /\ h \notin Closing /\ Live' = Live /\ Closing' = Closing \cup {h}
              /\ active_handles' = active_handles + 1 => ActiveCount'
         /\ h \in Closing /\ Live' = Live /\ Closing' = Closing \ {h}
              /\ active_handles' = active_handles - 1 => ActiveCount'
         /\ h \in Live /\ Live' = Live \ {h} /\ h \notin Closing /\ Closing' = Closing \cup {h}
              /\ active_handles' = active_handles => ActiveCount'
<1>0. Closing \subseteq Handles /\ Live \subseteq Handles
  BY DEF Closing, Live, LifeOK, HandleTypes
<1>1. PICK A, B : A = Closing /\ B = Live
  OBVIOUS
<1>2. PICK A1, B1 : A1 = Closing' /\ B1 = Live'
  OBVIOUS
<1>3. /\ Cardinality(A) \in Nat /\ Cardinality(B) \in Nat
      /\ active_handles = Cardinality(A) + Cardinality(B)
      /\ h \notin A => Cardinality(A \cup {h}) = Cardinality(A) + 1
      /\ h \in A => Cardinality(A \ {h}) = Cardinality(A) - 1
      /\ h \notin B => Cardinality(B \cup {h}) = Cardinality(B) + 1
      /\ h \in B => Cardinality(B \ {h}) = Cardinality(B) - 1
  BY <1>0, <1>1, OneMoreOrLess DEF ActiveCount, Closing, Live
<1>4. active_handles' = Cardinality(A1) + Cardinality(B1) => ActiveCount'
  BY <1>2 DEF ActiveCount, Closing, Live
<1>5. active_handles \in Int
  BY <1>3
<1>6. ASSUME h \notin B, B1 = B \cup {h}, A1 = A, active_handles' = active_handles + 1
      PROVE  ActiveCount'
  BY <1>3, <1>4, <1>6
<1>7. ASSUME h \in B, B1 = B \ {h}, A1 = A, active_handles' = active_handles - 1
      PROVE  ActiveCount'
  BY <1>3, <1>4, <1>7
<1>8. ASSUME h \notin A, B1 = B, A1 = A \cup {h}, active_handles' = active_handles + 1
      PROVE  ActiveCount'
  BY <1>3, <1>4, <1>8
<1>9. ASSUME h \in A, B1 = B, A1 = A \ {h}, active_handles' = active_handles - 1
      PROVE  ActiveCount'
  BY <1>3, <1>4, <1>9
<1>10. ASSUME h \in B, B1 = B \ {h}, h \notin A, A1 = A \cup {h},
              active_handles' = active_handles
       PROVE  ActiveCount'
  BY <1>3, <1>4, <1>10
<1> QED
  BY <1>1, <1>2, <1>5, <1>6, <1>7, <1>8, <1>9, <1>10, Zenon

LEMMA UserCount ==
  ASSUME IInv, UserCall
  PROVE  ActiveCount'
<1> USE DEF IInv, LifeOK, HandleTypes
<1>a. LifeOK /\ ActiveCount /\ active_handles \in Int
  BY CountMoves
<1>1. ASSUME NEW h \in Handles, uv_handle_init(h) PROVE ActiveCount'
  <2>1. h \notin Live /\ Closing' = Closing
    BY <1>1 DEF uv_handle_init, Closing, Live
  <2>2. CASE h \in Asyncs
    <3>1. Live' = Live \cup {h} /\ active_handles' = active_handles + 1
      BY <1>1, <2>2 DEF uv_handle_init, Live
    <3> QED
      BY <1>a, <2>1, <3>1, CountMoves
  <2>3. CASE h \notin Asyncs
    <3>1. Live' = Live /\ active_handles' = active_handles
      BY <1>1, <2>3 DEF uv_handle_init, Live
    <3> QED
      BY <1>a, <2>1, <3>1, CountFrame
  <2> QED
    BY <2>2, <2>3
<1>2. ASSUME NEW h \in Handles, uv_ref(h) PROVE ActiveCount'
  <2>1. Closing' = Closing
    BY <1>2 DEF uv_ref, Closing
  <2>2. CASE h \notin ref /\ h \notin closing /\ h \in active
    <3>1. h \notin Live /\ Live' = Live \cup {h} /\ active_handles' = active_handles + 1
      BY <1>2, <2>2 DEF uv_ref, Live, Bit
    <3> QED
      BY <1>a, <2>1, <3>1, CountMoves
  <2>3. CASE ~(h \notin ref /\ h \notin closing /\ h \in active)
    <3>1. Live' = Live /\ active_handles' = active_handles
      BY <1>2, <1>a, <2>3 DEF uv_ref, Live, Bit
    <3> QED
      BY <1>a, <2>1, <3>1, CountFrame
  <2> QED
    BY <2>2, <2>3
<1>3. ASSUME NEW h \in Handles, uv_unref(h) PROVE ActiveCount'
  <2>1. Closing' = Closing
    BY <1>3 DEF uv_unref, Closing
  <2>2. CASE h \in ref /\ h \notin closing /\ h \in active
    <3>1. h \in Live /\ Live' = Live \ {h} /\ active_handles' = active_handles - 1
      BY <1>3, <2>2 DEF uv_unref, Live, Bit
    <3> QED
      BY <1>a, <2>1, <3>1, CountMoves
  <2>3. CASE ~(h \in ref /\ h \notin closing /\ h \in active)
    <3>1. Live' = Live /\ active_handles' = active_handles
      BY <1>3, <1>a, <2>3 DEF uv_unref, Live, Bit
    <3> QED
      BY <1>a, <2>1, <3>1, CountFrame
  <2> QED
    BY <2>2, <2>3
<1>4. ASSUME NEW h \in Handles, uv__handle_start(h), h \in Open,
             UNCHANGED <<ref, closing, closed>>
      PROVE  ActiveCount'
  <2>1. Closing' = Closing
    BY <1>4 DEF Closing
  <2>2. CASE h \notin active /\ h \in ref
    <3>1. h \notin Live /\ Live' = Live \cup {h} /\ active_handles' = active_handles + 1
      BY <1>4, <2>2 DEF uv__handle_start, Live, Bit, Open
    <3> QED
      BY <1>a, <2>1, <3>1, CountMoves
  <2>3. CASE ~(h \notin active /\ h \in ref)
    <3>1. Live' = Live /\ active_handles' = active_handles
      BY <1>4, <1>a, <2>3 DEF uv__handle_start, Live, Bit
    <3> QED
      BY <1>a, <2>1, <3>1, CountFrame
  <2> QED
    BY <2>2, <2>3
<1>5. ASSUME NEW h, uv__handle_stop(h), UNCHANGED <<ref, closing, closed>>
      PROVE  ActiveCount'
  <2>1. Closing' = Closing
    BY <1>5 DEF Closing
  <2>2. CASE h \in active /\ h \in ref
    <3>1. h \in Live /\ Live' = Live \ {h} /\ active_handles' = active_handles - 1
      BY <1>5, <2>2 DEF uv__handle_stop, Live, Bit
    <3> QED
      BY <1>a, <2>1, <3>1, CountMoves
  <2>3. CASE ~(h \in active /\ h \in ref)
    <3>1. Live' = Live /\ active_handles' = active_handles
      BY <1>5, <1>a, <2>3 DEF uv__handle_stop, Live, Bit
    <3> QED
      BY <1>a, <2>1, <3>1, CountFrame
  <2> QED
    BY <2>2, <2>3
<1>6. ASSUME NEW h \in Handles, uv__handle_closing(h), h \in Open, UNCHANGED <<ref, closed>>
      PROVE  ActiveCount'
  <2>1. h \notin Closing /\ Closing' = Closing \cup {h}
    BY <1>6 DEF uv__handle_closing, Closing, Open
  <2>2. CASE h \in active /\ h \in ref
    <3>1. h \in Live /\ Live' = Live \ {h} /\ active_handles' = active_handles
      BY <1>6, <1>a, <2>2 DEF uv__handle_closing, Live, Bit
    <3> QED
      BY <1>a, <2>1, <3>1, CountMoves
  <2>3. CASE ~(h \in active /\ h \in ref)
    <3>1. Live' = Live /\ active_handles' = active_handles + 1
      BY <1>6, <2>3 DEF uv__handle_closing, Live, Bit
    <3> QED
      BY <1>a, <2>1, <3>1, CountMoves
  <2> QED
    BY <2>2, <2>3
<1>7. ASSUME NEW h \in Timers, uv_timer_start(h) \/ uv_timer_again(h) PROVE ActiveCount'
  BY <1>4, <1>7, HandleKinds DEF uv_timer_start, uv_timer_again
<1>8. ASSUME NEW h \in Watchers, uv_watcher_start(h) PROVE ActiveCount'
  BY <1>4, <1>8, HandleKinds DEF uv_watcher_start
<1>9. ASSUME NEW h, uv_timer_stop(h) \/ uv_watcher_stop(h) PROVE ActiveCount'
  BY <1>5, <1>9 DEF uv_timer_stop, uv_watcher_stop
<1>10. ASSUME NEW h \in Timers, uv_close_timer(h) PROVE ActiveCount'
  BY <1>6, <1>10, HandleKinds DEF uv_close_timer
<1>11. ASSUME NEW h \in Watchers, uv_close_watcher(h) PROVE ActiveCount'
  BY <1>6, <1>11, HandleKinds DEF uv_close_watcher
<1>12. ASSUME NEW h \in Asyncs, uv_async_close(h) PROVE ActiveCount'
  BY <1>6, <1>12, HandleKinds DEF uv_async_close
<1>13. CASE UNCHANGED handleVars
  BY <1>13, CountFrame DEF handleVars, Closing, Live
<1>14. ASSUME NEW h, uv_timer_set_repeat(h) \/ uv_async_send(h) \/ uv_stop
       PROVE  UNCHANGED handleVars
  BY <1>14 DEF uv_timer_set_repeat, uv_async_send, uv_stop
<1> QED
  BY <1>1, <1>2, <1>3, <1>7, <1>8, <1>9, <1>10, <1>11, <1>12, <1>13, <1>14 DEF UserCall

LEMMA LoopCount ==
  ASSUME IInv, [Next]_vars, ~UserCall
  PROVE  ActiveCount'
<1> USE DEF IInv, LifeOK, HandleTypes
<1>a. LifeOK /\ ActiveCount /\ active_handles \in Int
  BY CountMoves
<1>1. CASE UNCHANGED <<ref, active, closing, closed, active_handles>>
  BY <1>1, CountFrame DEF Closing, Live
<1>2. ASSUME NEW p, FireTimer(p) PROVE ActiveCount'
  <2>1. PICK h : h = Head(timers)
    OBVIOUS
  <2>2. /\ UNCHANGED <<ref, closing, closed>>
        /\ \/ uv__handle_stop(h)
           \/ UNCHANGED <<active, active_handles>>
    BY <1>2, <2>1 DEF FireTimer
  <2>3. CASE UNCHANGED <<active, active_handles>>
    BY <1>1, <2>2, <2>3
  <2>4. CASE uv__handle_stop(h) /\ h \in active /\ h \in ref
    <3>1. /\ h \in Live /\ Live' = Live \ {h} /\ active_handles' = active_handles - 1
          /\ Closing' = Closing
      BY <2>2, <2>4 DEF uv__handle_stop, Live, Closing, Bit
    <3> QED
      BY <1>a, <3>1, CountMoves
  <2>5. CASE uv__handle_stop(h) /\ ~(h \in active /\ h \in ref)
    <3>1. Live' = Live /\ active_handles' = active_handles /\ Closing' = Closing
      BY <1>a, <2>2, <2>5 DEF uv__handle_stop, Live, Closing, Bit
    <3> QED
      BY <1>a, <3>1, CountFrame
  <2> QED
    BY <2>2, <2>3, <2>4, <2>5
<1>3. CASE uv_process_endgames
  <2>1. PICK h : h = Head(endgame)
    OBVIOUS
  <2>2. h \in Range(endgame) /\ UNCHANGED <<ref, active, closing>>
    BY <1>3, <2>1, TailQueue DEF uv_process_endgames
  <2>3. h \in Closing
    BY <2>2 DEF Closing
  <2>4. closed' = closed \cup {h} /\ active_handles' = active_handles - 1
    BY <1>3, <2>1, <2>2 DEF uv_process_endgames
  <2>5. Closing' = Closing \ {h} /\ Live' = Live
    BY <2>2, <2>4 DEF Closing, Live
  <2> QED
    BY <1>a, <2>3, <2>4, <2>5, CountMoves
<1>4. ASSUME NEW h, NEW k, \/ AsyncPost(h) \/ uv__wake_all_loops \/ uv_run \/ uv_loop_close
             \/ CallbackReturns \/ Invoke(k) \/ TimersDone \/ uv_process_async_wakeup_req
             \/ ReqsDone \/ IdleDone \/ PrepareDone \/ uv_poll \/ CheckDone
             \/ EndgamesDone \/ OnceTimersDone \/ UNCHANGED vars
      PROVE  UNCHANGED <<ref, active, closing, closed, active_handles>>
  BY <1>4 DEF AsyncPost, uv__wake_all_loops, uv_run, uv_loop_close, CallbackReturns, Invoke,
     TimersDone, uv_process_async_wakeup_req, ReqsDone, IdleDone, PrepareDone, uv_poll,
     CheckDone, EndgamesDone, OnceTimersDone, vars, handleVars
<1> QED
  BY <1>1, <1>2, <1>3, <1>4 DEF Next, LoopStep

LEMMA CountStep == IInv /\ [Next]_vars => ActiveCount'
  BY UserCount, LoopCount DEF Next

-----------------------------------------------------------------------------
(* The tree of timers.                                                     *)

LEMMA InitTree == Init => TreeOK
<1> SUFFICES ASSUME Init PROVE TreeOK
  OBVIOUS
<1>1. timers = <<>> /\ active = {}
  BY DEF Init
<1>2. TimerTypes
  BY <1>1, EmptyQueue, LoopAssumption DEF Init, TimerTypes
<1>3. Sorted(<<>>, due)
  BY EmptyQueue DEF Sorted
<1> QED
  BY <1>1, <1>2, <1>3, EmptyQueue DEF TreeOK

\* get_clamped_due_time gives a uint64_t.
LEMMA DueTimeType ==
  ASSUME RunTypes, NEW t \in 0..TimeMax
  PROVE  DueTime(t) \in 0..TimeMax
<1>1. time \in Nat /\ TimeMax \in Nat
  BY LoopAssumption DEF RunTypes
<1> QED
  BY <1>1 DEF DueTime

LEMMA TreeFrame ==
  ASSUME TreeOK, UNCHANGED <<timers, due>>, active' \cap Timers = active \cap Timers
  PROVE  TreeOK'
  BY DEF TreeOK, TimerTypes

\* A timer goes from wherever it was to the place its new due time gives it.
LEMMA Restarted ==
  ASSUME TreeOK, NEW q \in Seq(Timers), NEW h \in Timers, NEW d \in 0..TimeMax,
         IsInjective(q), Sorted(q, due), Range(q) = (active \cap Timers) \ {h},
         timers' = Insert(q, h, d), due' = [due EXCEPT ![h] = d],
         active' \cap Timers = (active \cap Timers) \cup {h}
  PROVE  TreeOK'
<1>1. due \in [Timers -> 0..TimeMax] /\ 0..TimeMax \subseteq Int /\ d \in Int
  BY LoopAssumption DEF TreeOK, TimerTypes
<1>2. due \in [Timers -> Int] /\ h \notin Range(q)
  BY <1>1
<1>3. PICK w, f : w = Insert(q, h, d) /\ f = [due EXCEPT ![h] = d]
  OBVIOUS
<1>4. /\ w \in Seq(Timers) /\ IsInjective(w) /\ Range(w) = Range(q) \cup {h}
      /\ Sorted(w, f)
  BY <1>1, <1>2, <1>3, InsertTimer
<1>5. f \in [Timers -> 0..TimeMax]
  BY <1>1, <1>3
<1>6. timers' = w /\ due' = f
  BY <1>3
<1>7. Range(w) = active' \cap Timers
  BY <1>4
<1> QED
  BY <1>4, <1>5, <1>6, <1>7 DEF TreeOK, TimerTypes

\* A timer leaves the tree when it is stopped or closed.
LEMMA Stopped ==
  ASSUME TreeOK, NEW h \in Timers, timers' = TreeWithout(h), due' = due,
         active' = active \ {h}
  PROVE  TreeOK'
<1>1. due \in [Timers -> Int]
  BY LoopAssumption DEF TreeOK, TimerTypes
<1>2. PICK w : w = Without(timers, h)
  OBVIOUS
<1>3. /\ w \in Seq(Timers) /\ IsInjective(w) /\ Range(w) = Range(timers) \ {h}
  BY <1>2, WithoutQueue DEF TreeOK, TimerTypes
<1>4. Sorted(w, due)
  BY <1>1, <1>2, WithoutSorted DEF TreeOK, TimerTypes
<1>5. timers' = w
  BY <1>2 DEF TreeWithout
<1> QED
  BY <1>3, <1>4, <1>5 DEF TreeOK, TimerTypes

LEMMA UserTree ==
  ASSUME IInv, UserCall
  PROVE  TreeOK'
<1> USE DEF IInv
<1>1. ASSUME NEW h \in Handles, uv_handle_init(h) PROVE TreeOK'
  <2>1. active' \cap Timers = active \cap Timers
    BY <1>1, HandleKinds DEF uv_handle_init, LifeOK
  <2> QED
    BY <1>1, <2>1, TreeFrame DEF uv_handle_init
<1>2. ASSUME NEW h \in Timers, NEW d \in 0..TimeMax, uv__handle_start(h),
             timers' = Insert(TreeWithout(h), h, d), due' = [due EXCEPT ![h] = d]
      PROVE  TreeOK'
  <2>1. due \in [Timers -> Int]
    BY LoopAssumption DEF TreeOK, TimerTypes
  <2>2. PICK w : w = TreeWithout(h)
    OBVIOUS
  <2>3. /\ w \in Seq(Timers) /\ IsInjective(w) /\ Range(w) = (active \cap Timers) \ {h}
    BY <2>2, WithoutQueue DEF TreeOK, TimerTypes, TreeWithout
  <2>4. Sorted(w, due)
    BY <2>1, <2>2, WithoutSorted DEF TreeOK, TimerTypes, TreeWithout
  <2>5. active' \cap Timers = (active \cap Timers) \cup {h}
    BY <1>2 DEF uv__handle_start
  <2> QED
    BY <1>2, <2>2, <2>3, <2>4, <2>5, Restarted
<1>3. ASSUME NEW h \in Timers, uv_timer_start(h) PROVE TreeOK'
  <2>1. PICK t \in Timeouts : /\ timers' = Insert(TreeWithout(h), h, DueTime(t))
                              /\ due' = [due EXCEPT ![h] = DueTime(t)]
                              /\ uv__handle_start(h)
    BY <1>3 DEF uv_timer_start
  <2>2. DueTime(t) \in 0..TimeMax
    BY LoopAssumption, DueTimeType
  <2> QED
    BY <1>2, <2>1, <2>2
<1>4. ASSUME NEW h \in Timers, uv_timer_again(h) PROVE TreeOK'
  <2>1. DueTime(repeat[h]) \in 0..TimeMax
    BY DueTimeType DEF RunTypes
  <2> QED
    BY <1>2, <1>4, <2>1 DEF uv_timer_again
<1>5. ASSUME NEW h \in Timers, uv_timer_stop(h) PROVE TreeOK'
  BY <1>5, Stopped DEF uv_timer_stop, uv__handle_stop
<1>6. ASSUME NEW h \in Timers, uv_close_timer(h) PROVE TreeOK'
  BY <1>6, Stopped DEF uv_close_timer, uv__handle_closing
<1>7. ASSUME NEW h, uv_ref(h) \/ uv_unref(h) \/ uv_timer_set_repeat(h) \/ uv_async_send(h)
             \/ uv_stop
      PROVE  TreeOK'
  BY <1>7, TreeFrame DEF uv_ref, uv_unref, uv_timer_set_repeat, uv_async_send, uv_stop,
     handleVars, timerVars
<1>8. ASSUME NEW h \in Watchers,
             uv_watcher_start(h) \/ uv_watcher_stop(h) \/ uv_close_watcher(h)
      PROVE  TreeOK'
  <2>1. UNCHANGED timerVars /\ active' \cap Timers = active \cap Timers
    BY <1>8, HandleKinds DEF uv_watcher_start, uv_watcher_stop, uv_close_watcher,
       uv__handle_start, uv__handle_stop, uv__handle_closing
  <2> QED
    BY <2>1, TreeFrame DEF timerVars
<1>9. ASSUME NEW h \in Asyncs, uv_async_close(h) PROVE TreeOK'
  <2>1. UNCHANGED timerVars /\ active' \cap Timers = active \cap Timers
    BY <1>9, HandleKinds DEF uv_async_close, uv__handle_closing
  <2> QED
    BY <2>1, TreeFrame DEF timerVars
<1> QED
  BY <1>1, <1>3, <1>4, <1>5, <1>6, <1>7, <1>8, <1>9 DEF UserCall

\* uv_process_timers takes the first timer out, and puts it back if it repeats.
LEMMA FireTree ==
  ASSUME IInv, NEW p, FireTimer(p)
  PROVE  TreeOK'
<1> USE DEF IInv
<1>1. PICK h, w : h = Head(timers) /\ w = Tail(timers)
  OBVIOUS
<1>2. timers \in Seq(Timers) /\ timers # <<>> /\ IsInjective(timers)
      /\ Range(timers) = active \cap Timers
  BY DEF FireTimer, TimerDue, TreeOK, TimerTypes
<1>3. /\ h \in Timers /\ h \in active /\ w \in Seq(Timers)
      /\ CutFrom(w, timers, 1) /\ IsInjective(w) /\ Range(w) = (active \cap Timers) \ {h}
      /\ 1 \in 1..Len(timers)
  BY <1>1, <1>2, TailQueue
<1>4. due \in [Timers -> Int]
  BY LoopAssumption DEF TreeOK, TimerTypes
<1>5. Sorted(w, due)
  BY <1>2, <1>3, <1>4, CutSorted DEF TreeOK
<1>6. CASE repeat[h] = 0
  <2>1. timers' = w /\ due' = due /\ active' = active \ {h}
    BY <1>1, <1>6 DEF FireTimer, uv__handle_stop
  <2> QED
    BY <1>3, <1>5, <2>1 DEF TreeOK, TimerTypes
<1>7. CASE repeat[h] # 0
  <2>1. PICK d : d = DueTime(repeat[h])
    OBVIOUS
  <2>2. timers' = Insert(w, h, d) /\ due' = [due EXCEPT ![h] = d] /\ active' = active
    BY <1>1, <1>7, <2>1 DEF FireTimer
  <2>3. d \in 0..TimeMax
    BY <1>3, <2>1, DueTimeType DEF RunTypes
  <2>4. active' \cap Timers = (active \cap Timers) \cup {h}
    BY <1>3, <2>2
  <2> QED
    BY <1>3, <1>5, <2>2, <2>3, <2>4, Restarted
<1> QED
  BY <1>6, <1>7

\* Every other step of the loop leaves timers, lists and active flags alone.
LEMMA LoopLeaves ==
  ASSUME NEW h, NEW k, \/ AsyncPost(h) \/ uv__wake_all_loops \/ uv_run \/ uv_loop_close
             \/ CallbackReturns \/ Invoke(k) \/ TimersDone \/ uv_process_async_wakeup_req
             \/ ReqsDone \/ IdleDone \/ PrepareDone \/ uv_poll \/ CheckDone
             \/ uv_process_endgames \/ EndgamesDone \/ OnceTimersDone \/ UNCHANGED vars
  PROVE  UNCHANGED <<timers, due, list, active>>
  BY DEF AsyncPost, uv__wake_all_loops, uv_run, uv_loop_close, CallbackReturns, Invoke,
     TimersDone, uv_process_async_wakeup_req, ReqsDone, IdleDone, PrepareDone, uv_poll,
     CheckDone, uv_process_endgames, EndgamesDone, OnceTimersDone, vars, handleVars,
     timerVars, watchVars

LEMMA TreeStep == IInv /\ [Next]_vars => TreeOK'
<1> SUFFICES ASSUME IInv, [Next]_vars PROVE TreeOK'
  OBVIOUS
<1>1. CASE UNCHANGED <<timers, due, list, active>>
  BY <1>1, TreeFrame DEF IInv
<1> QED
  BY <1>1, UserTree, FireTree, LoopLeaves DEF Next, LoopStep

-----------------------------------------------------------------------------
(* The lists of watchers.                                                  *)

LEMMA InitList == Init => ListOK
<1> SUFFICES ASSUME Init PROVE ListOK
  OBVIOUS
<1>1. list = [k \in Kinds |-> <<>>] /\ active = {}
  BY DEF Init
<1>2. list \in [Kinds -> Seq(Watchers)]
  BY <1>1, EmptyQueue
<1>3. ASSUME NEW k \in Kinds
      PROVE  /\ Range(list[k]) = {h \in active \cap Watchers : KindOf(h) = k}
             /\ IsInjective(list[k])
  BY <1>1, EmptyQueue
<1> QED
  BY <1>2, <1>3 DEF ListOK

LEMMA ListFrame ==
  ASSUME ListOK, list' = list, active' \cap Watchers = active \cap Watchers
  PROVE  ListOK'
  BY DEF ListOK

\* One list changes, as its handle's flag does.
LEMMA ListChange ==
  ASSUME ListOK, NEW h \in Watchers, NEW w \in Seq(Watchers), IsInjective(w),
         list' = [list EXCEPT ![KindOf(h)] = w],
         \/ Range(w) = Range(list[KindOf(h)]) \cup {h} /\ active' = active \cup {h}
         \/ Range(w) = Range(list[KindOf(h)]) \ {h} /\ active' = active \ {h}
  PROVE  ListOK'
<1>1. list' \in [Kinds -> Seq(Watchers)]
  BY DEF ListOK
<1>2. ASSUME NEW k \in Kinds
      PROVE  /\ Range(list'[k]) = {x \in active' \cap Watchers : KindOf(x) = k}
             /\ IsInjective(list'[k])
  <2>1. KindOf(h) \in Kinds
    BY HandleKinds
  <2>2. CASE k = KindOf(h)
    <3>1. list'[k] = w
      BY <2>2 DEF ListOK
    <3>2. Range(list[k]) = {x \in active \cap Watchers : KindOf(x) = k}
      BY DEF ListOK
    <3>3. Range(w) = {x \in active' \cap Watchers : KindOf(x) = k}
      BY <2>2, <3>2
    <3> QED
      BY <3>1, <3>3
  <2>3. CASE k # KindOf(h)
    <3>1. list'[k] = list[k]
      BY <2>3 DEF ListOK
    <3>2. Range(list[k]) = {x \in active \cap Watchers : KindOf(x) = k} /\ IsInjective(list[k])
      BY DEF ListOK
    <3>3. Range(list[k]) = {x \in active' \cap Watchers : KindOf(x) = k}
      BY <2>3, <3>2
    <3> QED
      BY <3>1, <3>2, <3>3
  <2> QED
    BY <2>2, <2>3
<1> QED
  BY <1>1, <1>2 DEF ListOK

\* What a watcher's own list holds, and what becomes of it.
LEMMA OwnList ==
  ASSUME ListOK, NEW h \in Watchers
  PROVE  /\ KindOf(h) \in Kinds /\ list[KindOf(h)] \in Seq(Watchers)
         /\ IsInjective(list[KindOf(h)])
         /\ h \in Range(list[KindOf(h)]) <=> h \in active
  BY HandleKinds DEF ListOK

LEMMA UserList ==
  ASSUME IInv, UserCall
  PROVE  ListOK'
<1> USE DEF IInv
<1>1. ASSUME NEW h \in Handles, uv_handle_init(h) PROVE ListOK'
  <2>1. active' \cap Watchers = active \cap Watchers
    BY <1>1, HandleKinds DEF uv_handle_init, LifeOK
  <2> QED
    BY <1>1, <2>1, ListFrame DEF uv_handle_init, watchVars
<1>2. ASSUME NEW h \in Watchers, uv_watcher_start(h) PROVE ListOK'
  <2>1. PICK w : w = <<h>> \o list[KindOf(h)]
    OBVIOUS
  <2>2. /\ list' = [list EXCEPT ![KindOf(h)] = w]
        /\ active' = active \cup {h} /\ h \notin active
    BY <1>2, <2>1, OwnList DEF uv_watcher_start, uv__handle_start, ListOK
  <2>3. w \in Seq(Watchers) /\ IsInjective(w) /\ Range(w) = Range(list[KindOf(h)]) \cup {h}
    BY <2>1, <2>2, OwnList, PrependQueue
  <2> QED
    BY <2>2, <2>3, ListChange
<1>3. ASSUME NEW h \in Watchers, list' = [list EXCEPT ![KindOf(h)] = Without(@, h)],
             active' = active \ {h}
      PROVE  ListOK'
  <2>1. PICK w : w = Without(list[KindOf(h)], h)
    OBVIOUS
  <2>2. list' = [list EXCEPT ![KindOf(h)] = w]
    BY <1>3, <2>1, OwnList DEF ListOK
  <2>3. w \in Seq(Watchers) /\ IsInjective(w) /\ Range(w) = Range(list[KindOf(h)]) \ {h}
    BY <2>1, OwnList, WithoutQueue
  <2> QED
    BY <1>3, <2>2, <2>3, ListChange
<1>4. ASSUME NEW h \in Watchers, uv_watcher_stop(h) PROVE ListOK'
  BY <1>3, <1>4 DEF uv_watcher_stop, uv__handle_stop, Unlink
<1>5. ASSUME NEW h \in Watchers, uv_close_watcher(h) PROVE ListOK'
  <2>1. CASE h \in active
    BY <1>3, <1>5, <2>1 DEF uv_close_watcher, uv__handle_closing, Unlink
  <2>2. CASE h \notin active
    <3>1. list' = list /\ active' \cap Watchers = active \cap Watchers
      BY <1>5, <2>2 DEF uv_close_watcher, uv__handle_closing
    <3> QED
      BY <3>1, ListFrame
  <2> QED
    BY <2>1, <2>2
<1>6. ASSUME NEW h, uv_ref(h) \/ uv_unref(h) \/ uv_timer_set_repeat(h) \/ uv_async_send(h)
             \/ uv_stop
      PROVE  ListOK'
  BY <1>6, ListFrame DEF uv_ref, uv_unref, uv_timer_set_repeat, uv_async_send, uv_stop,
     handleVars, watchVars
<1>7. ASSUME NEW h \in Timers, \/ uv_timer_start(h) \/ uv_timer_again(h)
             \/ uv_timer_stop(h) \/ uv_close_timer(h)
      PROVE  ListOK'
  <2>1. UNCHANGED watchVars /\ active' \cap Watchers = active \cap Watchers
    BY <1>7, HandleKinds DEF uv_timer_start, uv_timer_again, uv_timer_stop, uv_close_timer,
       uv__handle_start, uv__handle_stop, uv__handle_closing
  <2> QED
    BY <2>1, ListFrame DEF watchVars
<1>8. ASSUME NEW h \in Asyncs, uv_async_close(h) PROVE ListOK'
  <2>1. UNCHANGED watchVars /\ active' \cap Watchers = active \cap Watchers
    BY <1>8, HandleKinds DEF uv_async_close, uv__handle_closing
  <2> QED
    BY <2>1, ListFrame DEF watchVars
<1> QED
  BY <1>1, <1>2, <1>4, <1>5, <1>6, <1>7, <1>8 DEF UserCall

LEMMA ListStep == IInv /\ [Next]_vars => ListOK'
<1> SUFFICES ASSUME IInv, [Next]_vars PROVE ListOK'
  OBVIOUS
<1>1. CASE UNCHANGED <<timers, due, list, active>>
  BY <1>1, ListFrame DEF IInv
<1>2. ASSUME NEW p, FireTimer(p) PROVE ListOK'
  <2>1. PICK h : h = Head(timers)
    OBVIOUS
  <2>2. h \in Timers
    BY <1>2, <2>1, TailQueue DEF FireTimer, TimerDue, IInv, TreeOK, TimerTypes
  <2>3. list' = list /\ (active' = active \/ active' = active \ {h})
    BY <1>2, <2>1 DEF FireTimer, uv__handle_stop, watchVars
  <2>4. active' \cap Watchers = active \cap Watchers
    BY <2>2, <2>3, HandleKinds
  <2> QED
    BY <2>3, <2>4, ListFrame DEF IInv
<1> QED
  BY <1>1, <1>2, UserList, LoopLeaves DEF Next, LoopStep

-----------------------------------------------------------------------------
(* The packets of async handles.                                           *)

LEMMA InitSent == Init => SentOK
  BY EmptyQueue DEF Init, SentOK, AsyncTypes

LEMMA SentFrame ==
  ASSUME SentOK, UNCHANGED asyncVars, closing \subseteq closing', pc' # "reqs" => batch = <<>>
  PROVE  SentOK'
  BY DEF SentOK, AsyncTypes, asyncVars

LEMMA UserSent ==
  ASSUME IInv, UserCall
  PROVE  SentOK'
<1> USE DEF IInv
<1>1. ASSUME NEW h \in Handles, uv_handle_init(h) PROVE SentOK'
  BY <1>1 DEF uv_handle_init, SentOK, AsyncTypes, LifeOK, runVars
<1>2. ASSUME NEW h \in Asyncs, uv_async_send(h) PROVE SentOK'
  BY <1>2 DEF uv_async_send, SentOK, AsyncTypes, handleVars, runVars
<1>3. ASSUME NEW h \in Handles, \/ uv_ref(h) \/ uv_unref(h) \/ uv_timer_start(h) \/ uv_timer_stop(h)
             \/ uv_timer_again(h) \/ uv_timer_set_repeat(h) \/ uv_watcher_start(h)
             \/ uv_watcher_stop(h) \/ uv_stop
      PROVE  UNCHANGED asyncVars /\ closing' = closing /\ pc' = pc
  BY <1>3 DEF uv_ref, uv_unref, uv_timer_start, uv_timer_stop, uv_timer_again,
     uv_timer_set_repeat, uv_watcher_start, uv_watcher_stop, uv_stop, handleVars, runVars
<1>4. ASSUME NEW h \in Handles, uv_close_timer(h) \/ uv_close_watcher(h) \/ uv_async_close(h)
      PROVE  UNCHANGED asyncVars /\ closing' = closing \cup {h} /\ pc' = pc
  BY <1>4 DEF uv_close_timer, uv_close_watcher, uv_async_close, uv__handle_closing, runVars
<1>5. CASE UNCHANGED asyncVars /\ closing \subseteq closing' /\ pc' = pc
  BY <1>5, SentFrame DEF SentOK
<1>6. CASE uv_stop
  <2>1. UNCHANGED asyncVars /\ closing' = closing /\ pc' = pc
    BY <1>6 DEF uv_stop, handleVars, runVars
  <2> QED
    BY <1>5, <2>1
<1> QED
  BY <1>1, <1>2, <1>3, <1>4, <1>5, <1>6, HandleKinds DEF UserCall

\* uv_poll moves packets from the completion port to the loop's queue.
LEMMA PollSent ==
  ASSUME IInv, uv_poll
  PROVE  SentOK'
<1> USE DEF IInv, SentOK, AsyncTypes
<1>1. UNCHANGED <<async_sent, posting, batch, unseen, closing>> /\ pc = "poll" /\ pc' = "check"
  BY DEF uv_poll, handleVars, BeginInvoke, At
<1>2. CASE TimeOut
  BY <1>1, <1>2 DEF TimeOut
<1>3. CASE Dequeue
  <2>1. PICK n \in 0..Len(iocp) : /\ pending' = pending \o SubSeq(iocp, 1, n)
                                  /\ iocp' = SubSeq(iocp, n + 1, Len(iocp))
    BY <1>3 DEF Dequeue
  <2>2. PICK a, b \in Seq(Asyncs) :
          a = SubSeq(iocp, 1, n) /\ b = SubSeq(iocp, n + 1, Len(iocp)) /\ Joined(iocp, a, b)
    BY SplitQueue
  <2>3. /\ Range(iocp) = Range(a) \cup Range(b) /\ IsInjective(a) /\ IsInjective(b)
        /\ Range(a) \cap Range(b) = {}
    <3>1. Joined(iocp, a, b)
      BY <2>2, Zenon
    <3>2. /\ Range(iocp) = Range(a) \cup Range(b)
          /\ IsInjective(iocp) => /\ IsInjective(a) /\ IsInjective(b)
                                  /\ Range(a) \cap Range(b) = {}
      BY <3>1, PartsApart
    <3> QED
      BY <3>2
  <2>4. PICK w : w = pending \o a
    OBVIOUS
  <2>5. /\ w \in Seq(Asyncs) /\ Range(w) = Range(pending) \cup Range(a)
        /\ IsInjective(w)
    BY <2>3, <2>4, JoinQueues
  <2>6. pending' = w /\ iocp' = b
    BY <2>1, <2>2, <2>4
  <2> QED
    BY <1>1, <2>3, <2>5, <2>6
<1> QED
  BY <1>2, <1>3 DEF uv_poll

LEMMA LoopSent ==
  ASSUME IInv, [Next]_vars, ~UserCall
  PROVE  SentOK'
<1> USE DEF IInv, SentOK, AsyncTypes
<1>1. ASSUME NEW h \in Asyncs, AsyncPost(h) PROVE SentOK'
  <2>1. /\ h \in posting /\ posting' = posting \ {h}
        /\ UNCHANGED <<async_sent, pending, batch, unseen, closing, pc>>
        /\ iocp' = Append(iocp, h)
    BY <1>1 DEF AsyncPost, handleVars, runVars
  <2>2. PICK w : w = Append(iocp, h)
    OBVIOUS
  <2>3. w \in Seq(Asyncs) /\ Range(w) = Range(iocp) \cup {h} /\ IsInjective(w)
    BY <2>1, <2>2, AppendQueue
  <2> QED
    BY <2>1, <2>2, <2>3
<1>2. CASE TimersDone
  <2>1. /\ pc = "timers" /\ batch' = pending /\ pending' = <<>> /\ pc' = "reqs"
        /\ UNCHANGED <<async_sent, posting, iocp, unseen, closing>>
    BY <1>2 DEF TimersDone, At, handleVars
  <2>2. batch = <<>> /\ Range(<<>>) = {} /\ IsInjective(<<>>) /\ <<>> \in Seq(Asyncs)
    BY <2>1, EmptyQueue
  <2> QED
    BY <2>1, <2>2
<1>3. CASE uv_process_async_wakeup_req
  <2>1. PICK h : h = Head(batch)
    OBVIOUS
  <2>2. /\ batch # <<>> /\ batch' = Tail(batch) /\ async_sent' = async_sent \ {h}
        /\ unseen' = (IF h \in closing THEN unseen ELSE unseen \ {h})
        /\ UNCHANGED <<posting, iocp, pending, closing, pc>>
    BY <1>3, <2>1 DEF uv_process_async_wakeup_req, ClearSent
  <2>3. PICK w : w = Tail(batch)
    OBVIOUS
  <2>4. /\ h \in Range(batch) /\ w \in Seq(Asyncs) /\ IsInjective(w)
        /\ Range(w) = Range(batch) \ {h}
    BY <2>1, <2>2, <2>3, TailQueue
  <2>5. pc = "reqs"
    BY <2>2
  <2> QED
    BY <2>2, <2>3, <2>4, <2>5
<1>4. CASE UNCHANGED asyncVars /\ closing' = closing /\ (pc' = pc \/ batch = <<>>)
  BY <1>4, SentFrame
<1>5. ASSUME NEW p, NEW k, \/ uv__wake_all_loops \/ CallbackReturns \/ FireTimer(p) \/ Invoke(k)
             \/ uv_process_endgames \/ UNCHANGED vars
      PROVE  UNCHANGED asyncVars /\ closing' = closing /\ pc' = pc
  BY <1>5 DEF uv__wake_all_loops, CallbackReturns, FireTimer, Invoke, uv_process_endgames, vars,
     handleVars, runVars
<1>6. ASSUME \/ uv_run \/ uv_loop_close \/ ReqsDone \/ IdleDone \/ PrepareDone \/ CheckDone
             \/ EndgamesDone \/ OnceTimersDone
      PROVE  UNCHANGED asyncVars /\ closing' = closing /\ (pc # "reqs" \/ batch = <<>>)
  BY <1>6 DEF uv_run, uv_loop_close, ReqsDone, IdleDone, PrepareDone, CheckDone, EndgamesDone,
     OnceTimersDone, At, handleVars
<1> QED
  BY <1>1, <1>2, <1>3, <1>4, <1>5, <1>6, PollSent DEF Next, LoopStep

LEMMA SentStep == IInv /\ [Next]_vars => SentOK'
  BY UserSent, LoopSent DEF Next

-----------------------------------------------------------------------------
(* The iterators of uv_idle_invoke, uv_prepare_invoke, uv_check_invoke.    *)

\* Unlinking a watcher before the iterator, at it or behind it: what is owed
\* is what was owed without that watcher.
LEMMA OwesWithout ==
  ASSUME NEW q \in Seq(Watchers), IsInjective(q), NEW p \in 1..Len(q),
         NEW w \in Seq(Watchers), CutFrom(w, q, p), NEW n, NEW rest, Owes(q, n, rest)
  PROVE  Owes(w, IF n # q[p] THEN n ELSE IF p = Len(q) THEN NoHandle ELSE q[p + 1],
              rest \ {q[p]})
<1>0. /\ Len(q) \in Nat /\ p \in Nat /\ 1 <= p /\ p <= Len(q) /\ Len(w) = Len(q) - 1
      /\ \A i, j \in 1..Len(q) : q[i] = q[j] => i = j
      /\ \A i \in 1..Len(q) : q[i] \in Watchers
  BY Places DEF CutFrom
<1>a. /\ \A k \in 1..(p - 1) : w[k] = q[k]
      /\ \A k \in p..(Len(q) - 1) : w[k] = q[k + 1]
  BY DEF CutFrom
<1>b. NoHandle \notin Watchers
  BY HandleKinds
<1>1. CASE n = NoHandle /\ rest = {}
  <2>1. n # q[p]
    BY <1>0, <1>1, <1>b
  <2> QED
    BY <1>1, <2>1 DEF Owes
<1>2. ASSUME NEW i \in 1..Len(q), n = q[i], rest = From(q, i) PROVE
        Owes(w, IF n # q[p] THEN n ELSE IF p = Len(q) THEN NoHandle ELSE q[p + 1],
             rest \ {q[p]})
  <2>0. i \in Nat
    OBVIOUS
  <2>1. CASE i > p
    <3>1. n # q[p] /\ i - 1 \in 1..Len(w) /\ n = w[i - 1]
      <4>1. i - 1 \in p..(Len(q) - 1) /\ (i - 1) + 1 = i /\ i - 1 \in 1..Len(w)
        BY <1>0, <2>0, <2>1
      <4>2. w[i - 1] = q[i]
        BY <1>a, <4>1
      <4>3. i # p
        BY <1>0, <2>1
      <4> QED
        BY <1>0, <1>2, <4>1, <4>2, <4>3
    <3>2. rest \ {q[p]} = From(w, i - 1)
      <4>1. ASSUME NEW x \in rest PROVE x \in From(w, i - 1) /\ x # q[p]
        <5>1. PICK j \in i..Len(q) : x = q[j]
          BY <1>2 DEF From
        <5>2. /\ j - 1 \in p..(Len(q) - 1) /\ (j - 1) + 1 = j /\ j - 1 \in (i - 1)..Len(w)
              /\ j # p /\ j \in 1..Len(q)
          BY <1>0, <2>0, <2>1, <5>1
        <5>3. w[j - 1] = q[j]
          BY <1>a, <5>2
        <5> QED
          BY <1>0, <5>1, <5>2, <5>3 DEF From
      <4>2. ASSUME NEW x \in From(w, i - 1) PROVE x \in rest
        <5>1. PICK j \in (i - 1)..Len(w) : x = w[j]
          BY DEF From
        <5>2. j \in p..(Len(q) - 1) /\ j + 1 \in i..Len(q)
          BY <1>0, <2>0, <2>1
        <5>3. w[j] = q[j + 1]
          BY <1>a, <5>2
        <5> QED
          BY <1>2, <5>1, <5>2, <5>3 DEF From
      <4> QED
        BY <4>1, <4>2
    <3> QED
      BY <3>1, <3>2 DEF Owes
  <2>2. ASSUME i <= p PROVE rest \ {q[p]} = From(w, i)
    <3>1. ASSUME NEW x \in rest, x # q[p] PROVE x \in From(w, i)
      <4>1. PICK j \in i..Len(q) : x = q[j]
        BY <1>2 DEF From
      <4>2. j # p /\ j \in Nat
        BY <2>0, <3>1, <4>1
      <4>3. CASE j < p
        <5>1. j \in 1..(p - 1) /\ j \in i..Len(w)
          BY <1>0, <2>0, <4>1, <4>3
        <5>2. w[j] = q[j]
          BY <1>a, <5>1
        <5> QED
          BY <4>1, <5>1, <5>2 DEF From
      <4>4. CASE j > p
        <5>1. j - 1 \in p..(Len(q) - 1) /\ (j - 1) + 1 = j /\ j - 1 \in i..Len(w)
          BY <1>0, <2>0, <2>2, <4>1, <4>4
        <5>2. w[j - 1] = q[j]
          BY <1>a, <5>1
        <5> QED
          BY <4>1, <5>1, <5>2 DEF From
      <4> QED
        BY <1>0, <4>2, <4>3, <4>4
    <3>2. ASSUME NEW x \in From(w, i) PROVE x \in rest /\ x # q[p]
      <4>1. PICK j \in i..Len(w) : x = w[j]
        BY DEF From
      <4>2. j \in Nat
        BY <2>0
      <4>3. CASE j < p
        <5>1. j \in 1..(p - 1) /\ j \in i..Len(q) /\ j # p /\ j \in 1..Len(q)
          BY <1>0, <2>0, <4>1, <4>3
        <5>2. w[j] = q[j]
          BY <1>a, <5>1
        <5> QED
          BY <1>0, <1>2, <4>1, <5>1, <5>2 DEF From
      <4>4. CASE ~(j < p)
        <5>1. j \in p..(Len(q) - 1) /\ j + 1 \in i..Len(q) /\ j + 1 # p /\ j + 1 \in 1..Len(q)
          BY <1>0, <2>0, <2>2, <4>1, <4>4
        <5>2. w[j] = q[j + 1]
          BY <1>a, <5>1
        <5> QED
          BY <1>0, <1>2, <4>1, <5>1, <5>2 DEF From
      <4> QED
        BY <4>3, <4>4
    <3> QED
      BY <3>1, <3>2
  <2>3. CASE i < p
    <3>1. i \in 1..(p - 1) /\ i \in 1..Len(w) /\ i # p
      BY <1>0, <2>0, <2>3
    <3>2. w[i] = q[i] /\ n # q[p]
      BY <1>0, <1>2, <1>a, <3>1
    <3>3. rest \ {q[p]} = From(w, i)
      BY <1>0, <2>0, <2>2, <2>3
    <3> QED
      BY <1>2, <3>1, <3>2, <3>3 DEF Owes
  <2>4. CASE i = p
    <3>1. rest \ {q[p]} = From(w, p) /\ n = q[p]
      BY <1>0, <1>2, <2>2, <2>4
    <3>2. CASE p = Len(q)
      <4>1. From(w, p) = {}
        BY <1>0, <3>2 DEF From
      <4> QED
        BY <3>1, <3>2, <4>1 DEF Owes
    <3>3. CASE p # Len(q)
      <4>1. p \in p..(Len(q) - 1) /\ p \in 1..Len(w)
        BY <1>0, <3>3
      <4>2. w[p] = q[p + 1]
        BY <1>a, <4>1
      <4> QED
        BY <3>1, <3>3, <4>1, <4>2 DEF Owes
    <3> QED
      BY <3>2, <3>3
  <2> QED
    BY <1>0, <2>0, <2>1, <2>3, <2>4
<1> QED
  BY <1>1, <1>2 DEF Owes

\* Starting a watcher puts it before the iterator.
LEMMA OwesPrepend ==
  ASSUME NEW q \in Seq(Watchers), NEW e \in Seq(Watchers), Len(e) = 1,
         NEW w \in Seq(Watchers), Joined(w, e, q), NEW n, NEW rest, Owes(q, n, rest)
  PROVE  Owes(w, n, rest)
<1>0. Len(q) \in Nat /\ Len(w) = 1 + Len(q)
  BY Places DEF Joined
<1>a. \A i \in 1..Len(q) : w[1 + i] = q[i]
  BY DEF Joined
<1>1. CASE n = NoHandle /\ rest = {}
  BY <1>1 DEF Owes
<1>2. ASSUME NEW i \in 1..Len(q), n = q[i], rest = From(q, i) PROVE Owes(w, n, rest)
  <2>1. 1 + i \in 1..Len(w) /\ n = w[1 + i]
    BY <1>0, <1>2, <1>a
  <2>2. ASSUME NEW x \in rest PROVE x \in From(w, 1 + i)
    <3>1. PICK j \in i..Len(q) : x = q[j]
      BY <1>2 DEF From
    <3>2. j \in 1..Len(q) /\ 1 + j \in (1 + i)..Len(w)
      BY <1>0
    <3>3. w[1 + j] = x
      BY <1>a, <3>1, <3>2
    <3> QED
      BY <3>2, <3>3 DEF From
  <2>3. ASSUME NEW x \in From(w, 1 + i) PROVE x \in rest
    <3>1. PICK j \in (1 + i)..Len(w) : x = w[j]
      BY DEF From
    <3>2. j - 1 \in 1..Len(q) /\ j - 1 \in i..Len(q) /\ 1 + (j - 1) = j
      BY <1>0
    <3>3. q[j - 1] = x
      BY <1>a, <3>1, <3>2
    <3> QED
      BY <1>2, <3>2, <3>3 DEF From
  <2>4. rest = From(w, 1 + i)
    BY <2>2, <2>3
  <2> QED
    BY <2>1, <2>4 DEF Owes
<1> QED
  BY <1>1, <1>2 DEF Owes

\* Calling the watcher at the iterator leaves the ones after it.
LEMMA OwesNext ==
  ASSUME NEW q \in Seq(Watchers), IsInjective(q), NEW i \in 1..Len(q)
  PROVE  Owes(q, IF i = Len(q) THEN NoHandle ELSE q[i + 1], From(q, i) \ {q[i]})
<1>0. Len(q) \in Nat /\ i \in Nat /\ \A j, k \in 1..Len(q) : q[j] = q[k] => j = k
  BY Places
<1>1. From(q, i) \ {q[i]} = From(q, i + 1)
  <2>1. ASSUME NEW x \in From(q, i), x # q[i] PROVE x \in From(q, i + 1)
    <3>1. PICK j \in i..Len(q) : x = q[j]
      BY DEF From
    <3>2. j \in (i + 1)..Len(q)
      BY <1>0, <2>1, <3>1
    <3> QED
      BY <3>1, <3>2 DEF From
  <2>2. ASSUME NEW x \in From(q, i + 1) PROVE x \in From(q, i) /\ x # q[i]
    <3>1. PICK j \in (i + 1)..Len(q) : x = q[j]
      BY DEF From
    <3>2. j \in i..Len(q) /\ j \in 1..Len(q) /\ j # i
      BY <1>0
    <3> QED
      BY <1>0, <3>1, <3>2 DEF From
  <2> QED
    BY <2>1, <2>2
<1>2. CASE i = Len(q)
  <2>1. From(q, i + 1) = {}
    BY <1>0, <1>2 DEF From
  <2> QED
    BY <1>1, <1>2, <2>1 DEF Owes
<1>3. CASE i # Len(q)
  <2>1. i + 1 \in 1..Len(q)
    BY <1>0, <1>3
  <2> QED
    BY <1>1, <1>3, <2>1 DEF Owes
<1> QED
  BY <1>2, <1>3

\* An invocation begins with the whole list.
LEMMA OwesAll ==
  ASSUME NEW q \in Seq(Watchers)
  PROVE  Owes(q, HeadOrNull(q), Range(q)) /\ HeadOrNull(q) \in Watchers \cup {NoHandle}
<1>0. Len(q) \in Nat /\ DOMAIN q = 1..Len(q) /\ (q = <<>> <=> Len(q) = 0)
  BY Places
<1>1. CASE q = <<>>
  BY <1>1, EmptyQueue DEF Owes, HeadOrNull
<1>2. CASE q # <<>>
  <2>1. 1 \in 1..Len(q) /\ Head(q) = q[1] /\ Head(q) \in Watchers
    BY <1>0, <1>2, TailQueue
  <2>2. Range(q) = From(q, 1)
    BY <1>0 DEF Range, From
  <2> QED
    BY <1>2, <2>1, <2>2 DEF Owes, HeadOrNull
<1> QED
  BY <1>1, <1>2

\* What is owed is in the list.
LEMMA OwesInList ==
  ASSUME NEW q \in Seq(Watchers), NEW n, NEW rest, Owes(q, n, rest)
  PROVE  rest \subseteq Range(q) /\ (n = NoHandle \/ n \in Range(q))
<1>1. CASE n = NoHandle /\ rest = {}
  BY <1>1
<1>2. ASSUME NEW i \in 1..Len(q), n = q[i], rest = From(q, i)
      PROVE  rest \subseteq Range(q) /\ n \in Range(q)
  <2>1. ASSUME NEW x \in rest PROVE x \in Range(q)
    <3>1. PICK j \in i..Len(q) : x = q[j]
      BY <1>2 DEF From
    <3>2. j \in 1..Len(q)
      OBVIOUS
    <3> QED
      BY <3>1, <3>2, Places
  <2> QED
    BY <1>2, <2>1, Places
<1> QED
  BY <1>1, <1>2 DEF Owes

LEMMA InitWatch == Init => WatchOK
<1> SUFFICES ASSUME Init PROVE WatchOK
  OBVIOUS
<1>1. next = [k \in Kinds |-> NoHandle] /\ pc = "out" /\ todo = {}
  BY DEF Init
<1>2. \A k \in Kinds : pc # k
  BY <1>1 DEF Kinds
<1> QED
  BY <1>1, <1>2 DEF WatchOK, WatchTypes

LEMMA WatchFrame == ASSUME WatchOK, UNCHANGED <<pc, list, next, todo>> PROVE WatchOK'
  BY DEF WatchOK, WatchTypes

\* A phase ends when its iterator has come to the end.
LEMMA PhaseEnds ==
  ASSUME WatchOK, UNCHANGED <<list, next, todo>>, pc \in Kinds => next[pc] = NoHandle,
         pc' \notin Kinds
  PROVE  WatchOK'
  BY DEF WatchOK, WatchTypes

LEMMA PhaseBegins ==
  ASSUME WatchOK, ListOK, list' = list, NEW k \in Kinds, BeginInvoke(k),
         pc \in Kinds => next[pc] = NoHandle
  PROVE  WatchOK'
<1>1. PICK n, r : n = HeadOrNull(list[k]) /\ r = Range(list[k])
  OBVIOUS
<1>2. /\ list[k] \in Seq(Watchers)
      /\ Owes(list[k], n, r) /\ n \in Watchers \cup {NoHandle} /\ r \subseteq Watchers
  BY <1>1, OwesAll DEF ListOK
<1>3. next' = [next EXCEPT ![k] = n] /\ todo' = r /\ pc' = k
  BY <1>1 DEF BeginInvoke
<1>4. WatchTypes'
  BY <1>2, <1>3 DEF WatchOK, WatchTypes
<1>5. ASSUME NEW j \in Kinds
      PROVE  IF pc' = j THEN Owes(list'[j], next'[j], todo') ELSE next'[j] = NoHandle
  <2>1. next'[j] = IF j = k THEN n ELSE next[j]
    BY <1>3 DEF WatchOK, WatchTypes
  <2>2. CASE j = k
    BY <1>2, <1>3, <2>1, <2>2
  <2>3. CASE j # k
    BY <1>3, <2>1, <2>3 DEF WatchOK
  <2> QED
    BY <2>2, <2>3
<1> QED
  BY <1>4, <1>5 DEF WatchOK

\* One phase's list, iterator and debt change; the other iterators stay put.
LEMMA PhaseGoesOn ==
  ASSUME WatchOK, pc' = pc, NEW k \in Kinds, NEW n \in Watchers \cup {NoHandle},
         next' = [next EXCEPT ![k] = n], todo' \subseteq Watchers,
         \A j \in Kinds \ {k} : list'[j] = list[j] /\ (pc = j => todo' = todo),
         IF pc = k THEN Owes(list'[k], n, todo') ELSE n = NoHandle
  PROVE  WatchOK'
<1>1. WatchTypes'
  BY DEF WatchOK, WatchTypes
<1>2. ASSUME NEW j \in Kinds
      PROVE  IF pc' = j THEN Owes(list'[j], next'[j], todo') ELSE next'[j] = NoHandle
  <2>1. next'[j] = IF j = k THEN n ELSE next[j]
    BY DEF WatchOK, WatchTypes
  <2>2. CASE j = k
    BY <2>1, <2>2
  <2>3. CASE j # k
    <3>1. list'[j] = list[j] /\ (pc = j => todo' = todo) /\ next'[j] = next[j]
      BY <2>1, <2>3
    <3> QED
      BY <3>1 DEF WatchOK
  <2> QED
    BY <2>2, <2>3
<1> QED
  BY <1>1, <1>2 DEF WatchOK

\* uv_<k>_invoke calls the watcher at its iterator.
LEMMA InvokeWatch ==
  ASSUME IInv, NEW k \in Kinds, Invoke(k)
  PROVE  WatchOK'
<1> USE DEF IInv
<1>1. PICK h, q : h = next[k] /\ q = list[k]
  OBVIOUS
<1>2. /\ pc = k /\ pc' = pc /\ list' = list /\ h # NoHandle
      /\ next' = [next EXCEPT ![k] = Successor(h)] /\ todo' = todo \ {h}
  BY <1>1 DEF Invoke, At
<1>3. /\ q \in Seq(Watchers) /\ IsInjective(q) /\ Owes(q, h, todo)
      /\ \A x \in Range(q) : KindOf(x) = k
      /\ todo \subseteq Watchers
  BY <1>1, <1>2 DEF ListOK, WatchOK, WatchTypes
<1>4. PICK i \in 1..Len(q) : h = q[i] /\ todo = From(q, i)
  BY <1>2, <1>3 DEF Owes
<1>5. /\ h \in Range(q) /\ Len(q) \in Nat
      /\ \A j \in 1..Len(q) : q[j] \in Watchers /\ (q[j] = h => j = i)
  BY <1>3, <1>4, Places
<1>6. Position(q, h) = i /\ list[KindOf(h)] = q
  BY <1>1, <1>3, <1>4, <1>5 DEF Position
<1>7. PICK n : n = IF i = Len(q) THEN NoHandle ELSE q[i + 1]
  OBVIOUS
<1>8. Successor(h) = n
  BY <1>6, <1>7, Zenon DEF Successor
<1>9. n \in Watchers \cup {NoHandle}
  BY <1>5, <1>7
<1>10. Owes(q, n, From(q, i) \ {q[i]})
  BY <1>3, <1>7, OwesNext
<1>11. Owes(list'[k], n, todo')
  BY <1>1, <1>2, <1>4, <1>10
<1>12. todo' \subseteq Watchers
  BY <1>2, <1>3
<1>13. next' = [next EXCEPT ![k] = n]
  BY <1>2, <1>8
<1>14. \A j \in Kinds \ {k} : list'[j] = list[j] /\ (pc = j => todo' = todo)
  BY <1>2
<1>15. WatchOK
  OBVIOUS
<1> QED
  BY <1>2, <1>9, <1>11, <1>12, <1>13, <1>14, <1>15, PhaseGoesOn

\* A watcher that is stopped or closed leaves its list, and the iterator.
LEMMA UnlinkWatch ==
  ASSUME IInv, NEW h \in Watchers, h \in active, Unlink(h), pc' = pc
  PROVE  WatchOK'
<1> USE DEF IInv
<1>1. PICK k, q : k = KindOf(h) /\ q = list[k]
  OBVIOUS
<1>2. /\ k \in Kinds /\ q \in Seq(Watchers) /\ IsInjective(q) /\ h \in Range(q)
      /\ WatchOK
  BY <1>1, OwnList
<1>3. PICK w, p : w = Without(q, h) /\ p = Position(q, h)
  OBVIOUS
<1>4. /\ w \in Seq(Watchers) /\ p \in 1..Len(q) /\ q[p] = h /\ CutFrom(w, q, p)
  BY <1>2, <1>3, WithoutQueue
<1>5. Len(q) \in Nat /\ \A j \in 1..Len(q) : q[j] \in Watchers
  BY <1>2, Places
<1>6. PICK m, n : /\ m = next[k]
                  /\ n = IF m # q[p] THEN m ELSE IF p = Len(q) THEN NoHandle ELSE q[p + 1]
  OBVIOUS
<1>7. m \in Watchers \cup {NoHandle} /\ todo \subseteq Watchers
      /\ (pc # k => m = NoHandle) /\ NoHandle \notin Watchers
  BY <1>2, <1>6, HandleKinds DEF WatchOK, WatchTypes
<1>8. n \in Watchers \cup {NoHandle}
  BY <1>4, <1>5, <1>6, <1>7
<1>9. /\ list' = [list EXCEPT ![k] = w] /\ todo' = todo \ {h}
      /\ next' = [next EXCEPT ![k] = n]
  <2>1. list' = [list EXCEPT ![k] = w]
    BY <1>1, <1>2, <1>3 DEF Unlink, ListOK
  <2>2. Successor(h) = IF p = Len(q) THEN NoHandle ELSE q[p + 1]
    BY <1>1, <1>3, Zenon DEF Successor
  <2>3. next' = [next EXCEPT ![k] = IF m = h THEN Successor(h) ELSE m]
    BY <1>1, <1>2, <1>6 DEF Unlink, WatchOK, WatchTypes
  <2>4. n = IF m = h THEN Successor(h) ELSE m
    BY <1>4, <1>6, <2>2
  <2> QED
    BY <2>1, <2>3, <2>4 DEF Unlink
<1>10. list'[k] = w /\ \A j \in Kinds \ {k} : list'[j] = list[j]
  BY <1>2, <1>9 DEF ListOK
<1>11. CASE pc = k
  <2>1. Owes(q, m, todo)
    BY <1>1, <1>2, <1>6, <1>11 DEF WatchOK
  <2>2. Owes(w, n, todo \ {q[p]})
    BY <1>2, <1>4, <1>6, <2>1, OwesWithout
  <2>3. Owes(list'[k], n, todo')
    BY <1>4, <1>9, <1>10, <2>2
  <2> QED
    BY <1>2, <1>7, <1>8, <1>9, <1>10, <1>11, <2>3, PhaseGoesOn
<1>12. CASE pc # k
  <2>1. n = NoHandle
    BY <1>4, <1>6, <1>7, <1>12
  <2>2. ASSUME NEW j \in Kinds \ {k}, pc = j PROVE todo' = todo
    <3>1. list[j] \in Seq(Watchers) /\ Owes(list[j], next[j], todo)
          /\ \A x \in Range(list[j]) : KindOf(x) = j
      BY <2>2 DEF WatchOK, ListOK
    <3>2. todo \subseteq Range(list[j])
      BY <3>1, OwesInList
    <3>3. h \notin todo
      BY <1>1, <3>1, <3>2
    <3> QED
      BY <1>9, <3>3
  <2> QED
    BY <1>2, <1>7, <1>8, <1>9, <1>10, <1>12, <2>1, <2>2, PhaseGoesOn
<1> QED
  BY <1>11, <1>12

LEMMA UserWatch ==
  ASSUME IInv, UserCall
  PROVE  WatchOK'
<1> USE DEF IInv
<1>1. ASSUME NEW h \in Watchers, uv_watcher_start(h) PROVE WatchOK'
  <2>1. PICK k, q, w : k = KindOf(h) /\ q = list[k] /\ w = <<h>> \o q
    OBVIOUS
  <2>2. k \in Kinds /\ q \in Seq(Watchers)
    BY <2>1, OwnList
  <2>3. list' = [list EXCEPT ![k] = w] /\ UNCHANGED <<next, todo, pc>>
    BY <1>1, <2>1, <2>2 DEF uv_watcher_start, ListOK, runVars
  <2>4. list'[k] = w /\ \A j \in Kinds \ {k} : list'[j] = list[j]
    BY <2>2, <2>3 DEF ListOK
  <2>5. PICK e \in Seq(Watchers) : e = <<h>> /\ Len(e) = 1
    BY OneElement
  <2>6. w \in Seq(Watchers) /\ Joined(w, e, q)
    BY <2>1, <2>2, <2>5, PrependQueue
  <2>7. ASSUME pc = k PROVE Owes(list'[k], next[k], todo')
    <3>1. Owes(q, next[k], todo)
      BY <2>1, <2>2, <2>7 DEF WatchOK
    <3>2. Owes(w, next[k], todo)
      BY <2>2, <2>5, <2>6, <3>1, OwesPrepend
    <3> QED
      BY <2>3, <2>4, <3>2
  <2>8. ASSUME NEW j \in Kinds
        PROVE  IF pc' = j THEN Owes(list'[j], next'[j], todo') ELSE next'[j] = NoHandle
    BY <2>3, <2>4, <2>7 DEF WatchOK
  <2>9. WatchTypes'
    BY <2>3 DEF WatchOK, WatchTypes
  <2> QED
    BY <2>8, <2>9 DEF WatchOK
<1>2. ASSUME NEW h \in Watchers, uv_watcher_stop(h) PROVE WatchOK'
  BY <1>2, UnlinkWatch DEF uv_watcher_stop
<1>3. ASSUME NEW h \in Watchers, uv_close_watcher(h) PROVE WatchOK'
  <2>1. CASE h \in active
    BY <1>3, <2>1, UnlinkWatch DEF uv_close_watcher
  <2>2. CASE h \notin active
    BY <1>3, <2>2, WatchFrame DEF uv_close_watcher
  <2> QED
    BY <2>1, <2>2
<1>4. ASSUME NEW h, \/ uv_handle_init(h) \/ uv_ref(h) \/ uv_unref(h) \/ uv_timer_start(h)
             \/ uv_timer_stop(h) \/ uv_timer_again(h) \/ uv_timer_set_repeat(h)
             \/ uv_close_timer(h) \/ uv_async_close(h) \/ uv_async_send(h) \/ uv_stop
      PROVE  UNCHANGED <<pc, list, next, todo>>
  BY <1>4 DEF uv_handle_init, uv_ref, uv_unref, uv_timer_start, uv_timer_stop, uv_timer_again,
     uv_timer_set_repeat, uv_close_timer, uv_async_close, uv_async_send, uv_stop, watchVars,
     runVars
<1>5. CASE UNCHANGED <<pc, list, next, todo>>
  BY <1>5, WatchFrame
<1> QED
  BY <1>1, <1>2, <1>3, <1>4, <1>5 DEF UserCall

LEMMA LoopWatch ==
  ASSUME IInv, [Next]_vars, ~UserCall
  PROVE  WatchOK'
<1> USE DEF IInv
<1>1. ASSUME NEW h, NEW p, \/ AsyncPost(h) \/ uv__wake_all_loops \/ CallbackReturns
             \/ FireTimer(p) \/ uv_process_async_wakeup_req \/ uv_process_endgames
             \/ UNCHANGED vars
      PROVE  UNCHANGED <<pc, list, next, todo>>
  BY <1>1 DEF AsyncPost, uv__wake_all_loops, CallbackReturns, FireTimer,
     uv_process_async_wakeup_req, uv_process_endgames, vars, watchVars, runVars
<1>2. CASE UNCHANGED <<pc, list, next, todo>>
  BY <1>2, WatchFrame
<1>3. ASSUME \/ uv_run \/ uv_loop_close \/ TimersDone \/ PrepareDone \/ CheckDone
             \/ EndgamesDone \/ OnceTimersDone
      PROVE  WatchOK'
  <2>1. UNCHANGED <<list, next, todo>> /\ pc' \notin Kinds
    BY <1>3 DEF uv_run, uv_loop_close, TimersDone, PrepareDone, CheckDone, EndgamesDone,
       OnceTimersDone, EndIteration, BeginIteration, Kinds, watchVars
  <2>2. pc \in Kinds => next[pc] = NoHandle
    BY <1>3 DEF uv_run, uv_loop_close, TimersDone, PrepareDone, CheckDone, EndgamesDone,
       OnceTimersDone, Kinds, At
  <2> QED
    BY <2>1, <2>2, PhaseEnds
<1>4. CASE ReqsDone \/ IdleDone \/ uv_poll
  <2>1. PICK k \in Kinds : BeginInvoke(k)
    BY <1>4 DEF ReqsDone, IdleDone, uv_poll, Kinds
  <2>2. list' = list /\ (pc \in Kinds => next[pc] = NoHandle)
    BY <1>4 DEF ReqsDone, IdleDone, uv_poll, Kinds, At
  <2> QED
    BY <2>1, <2>2, PhaseBegins
<1> QED
  BY <1>1, <1>2, <1>3, <1>4, InvokeWatch DEF Next, LoopStep

LEMMA WatchStep == IInv /\ [Next]_vars => WatchOK'
  BY UserWatch, LoopWatch DEF Next

-----------------------------------------------------------------------------
(* The run of the loop, and how long it sleeps.                            *)

LEMMA InitRun == Init => RunTypes /\ FlagTypes /\ SleepOK
<1> SUFFICES ASSUME Init PROVE RunTypes /\ FlagTypes /\ SleepOK
  OBVIOUS
<1>1. RunTypes
  BY LoopAssumption DEF Init, RunTypes, Pcs
<1>2. FlagTypes
  BY DEF Init, FlagTypes
<1>3. SleepOK
  BY DEF Init, SleepOK, SleepsToFirstTimer
<1> QED
  BY <1>1, <1>2, <1>3

LEMMA FlagStep ==
  ASSUME FlagTypes, [Next]_vars
  PROVE  FlagTypes'
<1> USE DEF FlagTypes
<1>1. ASSUME NEW h, NEW p, NEW k, \/ uv_handle_init(h) \/ uv_ref(h) \/ uv_unref(h)
             \/ uv_timer_start(h) \/ uv_timer_stop(h) \/ uv_timer_again(h)
             \/ uv_timer_set_repeat(h) \/ uv_close_timer(h) \/ uv_watcher_start(h)
             \/ uv_watcher_stop(h) \/ uv_close_watcher(h) \/ uv_async_close(h)
             \/ uv_async_send(h) \/ AsyncPost(h) \/ uv__wake_all_loops \/ uv_loop_close
             \/ CallbackReturns \/ ReqsDone \/ IdleDone \/ PrepareDone \/ CheckDone \/ uv_poll
             \/ UNCHANGED vars
      PROVE  UNCHANGED <<stop_flag, ran_pending, progress>>
  BY <1>1 DEF uv_handle_init, uv_ref, uv_unref, uv_timer_start, uv_timer_stop, uv_timer_again,
     uv_timer_set_repeat, uv_close_timer, uv_watcher_start, uv_watcher_stop, uv_close_watcher,
     uv_async_close, uv_async_send, AsyncPost, uv__wake_all_loops, uv_loop_close,
     CallbackReturns, ReqsDone, IdleDone, PrepareDone, CheckDone, uv_poll, vars, runVars,
     clockVars
<1>2. CASE UNCHANGED <<stop_flag, ran_pending, progress>>
  BY <1>2
<1>3. CASE uv_stop
  BY <1>3 DEF uv_stop, runVars
<1>4. CASE uv_run
  BY <1>4 DEF uv_run
<1>5. ASSUME NEW p, NEW k, FireTimer(p) \/ Invoke(k) PROVE FlagTypes'
  BY <1>5 DEF FireTimer, Invoke, Callback, clockVars
<1>6. CASE TimersDone
  BY <1>6 DEF TimersDone, clockVars
<1>7. CASE uv_process_async_wakeup_req \/ uv_process_endgames
  BY <1>7 DEF uv_process_async_wakeup_req, uv_process_endgames, Callback, clockVars
<1>8. CASE EndgamesDone \/ OnceTimersDone
  BY <1>8 DEF EndgamesDone, OnceTimersDone, EndIteration, clockVars
<1> QED
  BY <1>1, <1>2, <1>3, <1>4, <1>5, <1>6, <1>7, <1>8 DEF Next, UserCall, LoopStep

\* uv__next_timeout gives a DWORD, and never INFINITE while a timer runs.
LEMMA NextTimeout ==
  ASSUME TreeOK, RunTypes
  PROVE  /\ uv__next_timeout \in 0..DwordMax
         /\ timers # <<>> => \/ uv__next_timeout = 0
                             \/ /\ uv__next_timeout # DwordMax
                                /\ time + uv__next_timeout <= due[Head(timers)]
<1>1. DwordMax \in Nat /\ DwordMax > 0 /\ Int64Max \in Nat /\ time \in Nat
  BY LoopAssumption DEF RunTypes
<1>2. CASE timers = <<>>
  BY <1>1, <1>2 DEF uv__next_timeout
<1>3. CASE timers # <<>>
  <2>1. PICK d \in Nat : d = due[Head(timers)]
    <3>1. Head(timers) \in Timers
      BY <1>3, TailQueue DEF TreeOK, TimerTypes
    <3> QED
      BY <3>1, LoopAssumption DEF TreeOK, TimerTypes
  <2>2. PICK t : t = uv__next_timeout
    OBVIOUS
  <2>3. t = IF d - time < 0 \/ d - time > Int64Max THEN 0
            ELSE IF d - time >= DwordMax - 1 THEN DwordMax - 1 ELSE d - time
    BY <1>3, <2>1, <2>2 DEF uv__next_timeout
  <2>4. t \in 0..DwordMax /\ (t = 0 \/ (t # DwordMax /\ time + t <= d))
    BY <1>1, <2>3
  <2> QED
    BY <2>1, <2>2, <2>4
<1> QED
  BY <1>2, <1>3

LEMMA BackendTimeout ==
  ASSUME TreeOK, RunTypes
  PROVE  /\ uv_backend_timeout \in 0..DwordMax
         /\ timers # <<>> => \/ uv_backend_timeout = 0
                             \/ /\ uv_backend_timeout # DwordMax
                                /\ time + uv_backend_timeout <= due[Head(timers)]
<1>1. 0 \in 0..DwordMax
  BY LoopAssumption
<1>2. uv_backend_timeout = 0 \/ uv_backend_timeout = uv__next_timeout
  BY DEF uv_backend_timeout
<1> QED
  BY <1>1, <1>2, NextTimeout

LEMMA PhaseNames ==
  /\ Kinds \subseteq Pcs
  /\ {"out", "timers", "reqs", "poll", "endgames", "once_timers", "closed"} \subseteq Pcs
  BY DEF Kinds, Pcs

LEMMA UserRun ==
  ASSUME IInv, UserCall
  PROVE  RunTypes'
<1> USE DEF IInv, RunTypes
<1>1. ASSUME NEW h \in Handles, uv_handle_init(h) PROVE RunTypes'
  <2>1. repeat' \in [Timers -> 0..TimeMax]
    BY <1>1, LoopAssumption DEF uv_handle_init
  <2> QED
    BY <1>1, <2>1 DEF uv_handle_init, runVars, clockVars, resumeVars
<1>2. User => ops' \in Nat
  BY DEF User
<1>3. ASSUME NEW h \in Handles, uv_ref(h) \/ uv_unref(h) PROVE RunTypes'
  BY <1>2, <1>3 DEF uv_ref, uv_unref, timerVars, runVars, clockVars, resumeVars
<1>4. ASSUME NEW h \in Timers, uv_timer_start(h) PROVE RunTypes'
  <2>1. repeat' \in [Timers -> 0..TimeMax]
    BY <1>4, LoopAssumption DEF uv_timer_start
  <2>2. zeroStarted' \subseteq Timers
    BY <1>4 DEF uv_timer_start
  <2> QED
    BY <1>2, <1>4, <2>1, <2>2 DEF uv_timer_start, runVars, clockVars, resumeVars
<1>5. ASSUME NEW h \in Timers, \/ uv_timer_stop(h) \/ uv_timer_again(h) \/ uv_close_timer(h)
      PROVE RunTypes'
  BY <1>2, <1>5 DEF uv_timer_stop, uv_timer_again, uv_close_timer, runVars, clockVars,
     resumeVars
<1>6. ASSUME NEW h \in Timers, uv_timer_set_repeat(h) PROVE RunTypes'
  <2>1. repeat' \in [Timers -> 0..TimeMax]
    BY <1>6, LoopAssumption DEF uv_timer_set_repeat
  <2> QED
    BY <1>2, <1>6, <2>1 DEF uv_timer_set_repeat, runVars, clockVars, resumeVars
<1>7. ASSUME NEW h, uv_watcher_start(h) \/ uv_watcher_stop(h) \/ uv_close_watcher(h)
             \/ uv_async_close(h)
      PROVE  RunTypes'
  BY <1>2, <1>7 DEF uv_watcher_start, uv_watcher_stop, uv_close_watcher, uv_async_close,
     timerVars, runVars, clockVars, resumeVars
<1>8. ASSUME NEW h, uv_async_send(h) PROVE RunTypes'
  BY <1>8 DEF uv_async_send, timerVars, runVars, clockVars, resumeVars
<1>9. CASE uv_stop
  BY <1>2, <1>9 DEF uv_stop, timerVars, runVars, resumeVars
<1> QED
  BY <1>1, <1>3, <1>4, <1>5, <1>6, <1>7, <1>8, <1>9 DEF UserCall

\* The clock only goes forward, up to its bound.
LEMMA ClockType ==
  ASSUME RunTypes, NEW d \in Nat, time' \in (time + d)..Clock
  PROVE  time' \in 0..Clock
<1>1. time \in Nat /\ Clock \in Nat
  BY LoopAssumption DEF RunTypes
<1> QED
  BY <1>1

LEMMA LoopRun ==
  ASSUME IInv, [Next]_vars, ~UserCall
  PROVE  RunTypes'
<1> USE DEF IInv, RunTypes
<1>0. time' \in time..Clock => time' \in 0..Clock
  BY LoopAssumption
<1>1. ASSUME NEW h \in Asyncs, AsyncPost(h) PROVE RunTypes'
  BY <1>1 DEF AsyncPost, timerVars, runVars, clockVars, resumeVars
<1>2. CASE uv__wake_all_loops
  BY <1>2 DEF uv__wake_all_loops, timerVars, runVars, clockVars
<1>3. CASE uv_run
  <2>1. time' \in 0..Clock
    BY <1>0, <1>3 DEF uv_run, BeginIteration, uv_update_time
  <2>2. mode' \in {"DEFAULT", "ONCE", "NOWAIT"}
    BY <1>3, LoopAssumption DEF uv_run
  <2>3. pc' \in Pcs /\ zeroStarted' \subseteq Timers
    BY <1>3, PhaseNames DEF uv_run, BeginIteration
  <2> QED
    BY <1>3, <2>1, <2>2, <2>3 DEF uv_run, timerVars, resumeVars
<1>4. CASE uv_loop_close \/ CheckDone
  BY <1>4, PhaseNames DEF uv_loop_close, CheckDone, timerVars, clockVars, resumeVars
<1>5. CASE CallbackReturns
  BY <1>5 DEF CallbackReturns, timerVars, clockVars, resumeVars
<1>6. ASSUME NEW p, FireTimer(p) PROVE RunTypes'
  <2>1. cb' \in Handles \cup {NoHandle}
    BY <1>6, TailQueue, HandleKinds DEF FireTimer, Callback, TimerDue, TreeOK, TimerTypes
  <2> QED
    BY <1>6, <2>1 DEF FireTimer, clockVars, resumeVars
<1>7. ASSUME NEW k \in Kinds, Invoke(k) PROVE RunTypes'
  <2>1. cb' \in Handles \cup {NoHandle}
    BY <1>7, HandleKinds DEF Invoke, Callback, WatchOK, WatchTypes
  <2> QED
    BY <1>7, <2>1 DEF Invoke, timerVars, clockVars, resumeVars
<1>8. CASE TimersDone
  BY <1>8, PhaseNames DEF TimersDone, timerVars, clockVars, resumeVars
<1>9. CASE uv_process_async_wakeup_req
  <2>1. cb' \in Handles \cup {NoHandle}
    BY <1>9, TailQueue, HandleKinds DEF uv_process_async_wakeup_req, Callback, SentOK, AsyncTypes
  <2> QED
    BY <1>9, <2>1 DEF uv_process_async_wakeup_req, timerVars, clockVars, resumeVars
<1>10. CASE ReqsDone \/ IdleDone
  BY <1>10, PhaseNames DEF ReqsDone, IdleDone, BeginInvoke, Kinds, timerVars, clockVars,
     resumeVars
<1>11. CASE PrepareDone
  <2>1. timeout' \in 0..DwordMax
    BY <1>11, BackendTimeout, LoopAssumption DEF PrepareDone
  <2> QED
    BY <1>11, <2>1, PhaseNames DEF PrepareDone, timerVars, clockVars, resumeVars
<1>12. CASE uv_poll
  <2>1. empty' \in Nat
    BY <1>12 DEF uv_poll, Dequeue, TimeOut
  <2>2. time' \in 0..Clock
    <3>1. CASE Dequeue
      BY <1>0, <3>1 DEF Dequeue, uv_update_time
    <3>2. CASE TimeOut
      BY <3>2, ClockType DEF TimeOut
    <3> QED
      BY <1>12, <3>1, <3>2 DEF uv_poll
  <2> QED
    BY <1>12, <2>1, <2>2, PhaseNames DEF uv_poll, BeginInvoke, Kinds, timerVars
<1>13. CASE uv_process_endgames
  <2>1. cb' \in Handles \cup {NoHandle}
    BY <1>13, TailQueue DEF uv_process_endgames, Callback, LifeOK, HandleTypes
  <2> QED
    BY <1>13, <2>1 DEF uv_process_endgames, timerVars, clockVars, resumeVars
<1>14. CASE EndgamesDone \/ OnceTimersDone
  <2>1. time' \in 0..Clock
    BY <1>0, <1>14 DEF EndgamesDone, OnceTimersDone, EndIteration, BeginIteration,
       uv_update_time, clockVars
  <2>2. pc' \in Pcs /\ zeroStarted' \subseteq Timers
    BY <1>14, PhaseNames DEF EndgamesDone, OnceTimersDone, EndIteration, BeginIteration
  <2> QED
    BY <1>14, <2>1, <2>2 DEF EndgamesDone, OnceTimersDone, timerVars, resumeVars
<1>15. CASE UNCHANGED vars
  BY <1>15 DEF vars, timerVars, runVars, clockVars, resumeVars
<1> QED
  BY <1>1, <1>2, <1>3, <1>4, <1>5, <1>6, <1>7, <1>8, <1>9, <1>10, <1>11, <1>12, <1>13, <1>14,
     <1>15 DEF Next, LoopStep

LEMMA SleepFrame ==
  ASSUME SleepOK, UNCHANGED <<pc, cb, timers, due, time, timeout>>
  PROVE  SleepOK'
  BY DEF SleepOK, SleepsToFirstTimer

LEMMA SleepStep == IInv /\ [Next]_vars => SleepOK'
<1> SUFFICES ASSUME IInv, [Next]_vars PROVE SleepOK'
  OBVIOUS
<1> USE DEF IInv
<1>1. CASE UNCHANGED <<pc, cb, timers, due, time, timeout>>
  BY <1>1, SleepFrame
<1>2. ASSUME NEW h, \/ uv_handle_init(h) \/ uv_ref(h) \/ uv_unref(h)
             \/ uv_timer_start(h) \/ uv_timer_stop(h) \/ uv_timer_again(h)
             \/ uv_timer_set_repeat(h) \/ uv_close_timer(h) \/ uv_watcher_start(h)
             \/ uv_watcher_stop(h) \/ uv_close_watcher(h) \/ uv_async_close(h) \/ uv_stop
      PROVE  UNCHANGED <<pc, cb>> /\ pc # "poll"
  <2>1. UNCHANGED <<pc, cb>> /\ InUser
    BY <1>2 DEF uv_handle_init, uv_ref, uv_unref, uv_timer_start, uv_timer_stop,
       uv_timer_again, uv_timer_set_repeat, uv_close_timer, uv_watcher_start, uv_watcher_stop,
       uv_close_watcher, uv_async_close, uv_stop, User, runVars
  <2> QED
    BY <2>1 DEF InUser, SleepOK
<1>3. CASE UNCHANGED <<pc, cb>> /\ pc # "poll"
  BY <1>3 DEF SleepOK, SleepsToFirstTimer
<1>4. CASE uv_stop
  BY <1>2, <1>3, <1>4
<1>5. ASSUME NEW h, \/ uv_async_send(h) \/ AsyncPost(h) \/ uv__wake_all_loops
             \/ UNCHANGED vars
      PROVE  UNCHANGED <<pc, cb, timers, due, time, timeout>>
  BY <1>5 DEF uv_async_send, AsyncPost, uv__wake_all_loops, vars, runVars, timerVars, clockVars
<1>6. CASE uv_run \/ uv_loop_close
  <2>1. cb = NoHandle /\ cb' = cb /\ pc' # "poll"
    BY <1>6 DEF uv_run, uv_loop_close, BeginIteration, SleepOK
  <2> QED
    BY <2>1 DEF SleepOK, SleepsToFirstTimer
<1>7. CASE CallbackReturns
  <2>1. cb # NoHandle /\ cb' = NoHandle /\ pc' = pc
    BY <1>7 DEF CallbackReturns
  <2> QED
    BY <2>1 DEF SleepOK, SleepsToFirstTimer
<1>8. ASSUME NEW p \in {"timers", "once_timers"}, FireTimer(p) PROVE SleepOK'
  BY <1>8 DEF FireTimer, At, SleepOK, SleepsToFirstTimer
<1>9. ASSUME NEW k \in Kinds, Invoke(k) PROVE SleepOK'
  BY <1>9 DEF Invoke, At, Kinds, SleepOK, SleepsToFirstTimer
<1>10. CASE uv_process_async_wakeup_req \/ uv_process_endgames
  BY <1>10 DEF uv_process_async_wakeup_req, uv_process_endgames, At, SleepOK,
     SleepsToFirstTimer
<1>11. CASE TimersDone \/ ReqsDone \/ IdleDone \/ CheckDone \/ uv_poll
  BY <1>11 DEF TimersDone, ReqsDone, IdleDone, CheckDone, uv_poll, BeginInvoke, SleepOK,
     SleepsToFirstTimer
<1>12. CASE PrepareDone
  <2>1. /\ cb = NoHandle /\ UNCHANGED <<cb, timers, due, time>> /\ pc' = "poll"
        /\ timeout' = 0 \/ timeout' = uv_backend_timeout
    BY <1>12 DEF PrepareDone, At, timerVars, clockVars
  <2>2. PICK t : t = uv_backend_timeout
    OBVIOUS
  <2>3. timers # <<>> => t = 0 \/ (t # DwordMax /\ time + t <= due[Head(timers)])
    BY <2>2, BackendTimeout
  <2> QED
    BY <2>1, <2>2, <2>3 DEF SleepOK, SleepsToFirstTimer
<1>13. CASE EndgamesDone \/ OnceTimersDone
  <2>1. cb = NoHandle /\ cb' = cb /\ pc' # "poll"
    BY <1>13 DEF EndgamesDone, OnceTimersDone, EndIteration, BeginIteration, At
  <2> QED
    BY <2>1 DEF SleepOK, SleepsToFirstTimer
<1> QED
  BY <1>1, <1>2, <1>3, <1>4, <1>5, <1>6, <1>7, <1>8, <1>9, <1>10, <1>11, <1>12, <1>13
  DEF Next, UserCall, LoopStep

-----------------------------------------------------------------------------
(* The theorems.                                                           *)

LEMMA InitIInv == Init => IInv
  BY InitLife, InitCount, InitTree, InitList, InitSent, InitWatch, InitRun DEF IInv

LEMMA NextIInv == IInv /\ [Next]_vars => IInv'
<1> SUFFICES ASSUME IInv, [Next]_vars PROVE IInv'
  OBVIOUS
<1>1. LifeOK' /\ ActiveCount' /\ TreeOK' /\ ListOK'
  BY LifeStep, CountStep, TreeStep, ListStep
<1>2. SentOK' /\ WatchOK' /\ SleepOK'
  BY SentStep, WatchStep, SleepStep
<1>3. RunTypes'
  BY UserRun, LoopRun DEF Next
<1>4. FlagTypes'
  BY FlagStep DEF IInv
<1> QED
  BY <1>1, <1>2, <1>3, <1>4 DEF IInv

LEMMA LoopInvariant == Spec => []IInv
  BY InitIInv, NextIInv, PTL DEF Spec

\* Every variable keeps its type, through every call, callback and wake-up, and
\* uv_backend_timeout always fits a DWORD (core.c:497-501).
THEOREM TypeCorrect == Spec => []TypeOK
<1>1. IInv => TypeOK
  <2> SUFFICES ASSUME IInv PROVE TypeOK
    OBVIOUS
  <2>1. active_handles \in Int
    BY CountMoves DEF IInv
  <2>2. HandleTypes /\ TimerTypes /\ WatchTypes /\ AsyncTypes /\ RunTypes
    BY DEF IInv, LifeOK, TreeOK, WatchOK, SentOK
  <2>3. FlagTypes /\ list \in [Kinds -> Seq(Watchers)]
    BY DEF IInv, ListOK
  <2>4. \A S \in {ref, active, closing, closed, handle_queue} : S \subseteq Handles
    BY <2>2 DEF HandleTypes
  <2> QED
    BY <2>1, <2>2, <2>3, <2>4, Zenon
    DEF TypeOK, HandleTypes, TimerTypes, WatchTypes, AsyncTypes, RunTypes, FlagTypes
<1> QED
  BY <1>1, LoopInvariant, PTL

\* loop->active_handles is exactly the number of handles that keep the loop
\* alive, after any calls of uv_ref, uv_unref, start, stop and uv_close
\* (uv-common.h:163-198).
THEOREM ActiveCountExact == Spec => []ActiveCount
<1>1. IInv => ActiveCount
  BY DEF IInv
<1> QED
  BY <1>1, LoopInvariant, PTL

\* Started timers are in the tree and started watchers in their list, once,
\* and the tree is in the order of the due times (timer.c:109-110).
THEOREM StartedAreRegistered == Spec => []Registered
<1>1. IInv => Registered
  <2> SUFFICES ASSUME IInv PROVE Registered
    OBVIOUS
  <2>1. /\ timers \in Seq(Timers) /\ Range(timers) = active \cap Timers
        /\ IsInjective(timers) /\ Sorted(timers, due)
    BY DEF IInv, TreeOK, TimerTypes
  <2>2. DOMAIN timers = 1..Len(timers)
    BY <2>1, Places
  <2>3. \A i, j \in DOMAIN timers : i < j => due[timers[i]] <= due[timers[j]]
    BY <2>1, <2>2 DEF Sorted
  <2>4. \A k \in Kinds : /\ Range(list[k]) = {h \in active \cap Watchers : KindOf(h) = k}
                         /\ IsInjective(list[k])
    BY DEF IInv, ListOK
  <2> QED
    BY <2>1, <2>3, <2>4 DEF Registered
<1> QED
  BY <1>1, LoopInvariant, PTL

\* An invocation calls the watchers that are still to be called, each once, and
\* ends when none is left, whatever the callbacks start, stop or close
\* (loop-watcher.c:89-92, 107-118).
THEOREM IteratorsStayRight == Spec => []InvokesEachOnce
<1>1. IInv => InvokesEachOnce
  <2> SUFFICES ASSUME IInv, pc \in Kinds
               PROVE  next[pc] \in todo \cup {NoHandle} /\ (next[pc] = NoHandle => todo = {})
    BY DEF InvokesEachOnce
  <2>1. PICK q : q = list[pc]
    OBVIOUS
  <2>2. q \in Seq(Watchers) /\ Owes(q, next[pc], todo)
    BY <2>1 DEF IInv, ListOK, WatchOK
  <2>3. CASE next[pc] = NoHandle /\ todo = {}
    BY <2>3
  <2>4. ASSUME NEW i \in 1..Len(q), next[pc] = q[i], todo = From(q, i)
        PROVE  next[pc] \in todo /\ next[pc] # NoHandle
    <3>1. i \in i..Len(q) /\ q[i] \in Watchers
      BY <2>2, Places
    <3> QED
      BY <2>4, <3>1, HandleKinds DEF From
  <2> QED
    BY <2>2, <2>3, <2>4 DEF Owes
<1> QED
  BY <1>1, LoopInvariant, PTL

\* While a timer runs the loop does not sleep past it nor for ever
\* (timer.c:166-172).
THEOREM NeverOversleeps == Spec => []SleepsToFirstTimer
<1>1. IInv => SleepsToFirstTimer
  BY DEF IInv, SleepOK
<1> QED
  BY <1>1, LoopInvariant, PTL

-----------------------------------------------------------------------------
(* Wake-ups, and what the loop knows of a closed handle.                   *)

\* A queue without repetition has a packet of a handle once or not at all.
LEMMA OneAtMost ==
  ASSUME NEW S, NEW q \in Seq(S), IsInjective(q), NEW h
  PROVE  Cardinality({i \in DOMAIN q : q[i] = h}) = Bit(h \in Range(q))
<1>0. DOMAIN q = 1..Len(q) /\ \A i, j \in 1..Len(q) : q[i] = q[j] => i = j
  BY Places
<1>1. CASE h \in Range(q)
  <2>1. PICK i \in 1..Len(q) : q[i] = h
    BY <1>1, Places
  <2>2. {j \in DOMAIN q : q[j] = h} = {i}
    BY <1>0, <2>1
  <2> QED
    BY <1>1, <2>2, FS_Singleton DEF Bit
<1>2. CASE h \notin Range(q)
  <2>1. {j \in DOMAIN q : q[j] = h} = {}
    BY <1>0, <1>2, Places
  <2> QED
    BY <1>2, <2>1, FS_EmptySet DEF Bit
<1> QED
  BY <1>1, <1>2

\* An async handle's request is out once exactly while async_sent is set.
LEMMA PacketOut ==
  ASSUME SentOK, NEW h \in Asyncs
  PROVE  Packets(h) = Bit(h \in async_sent)
<1>1. PICK n, m, k : /\ n = Cardinality({i \in DOMAIN iocp : iocp[i] = h})
                     /\ m = Cardinality({i \in DOMAIN pending : pending[i] = h})
                     /\ k = Cardinality({i \in DOMAIN batch : batch[i] = h})
  OBVIOUS
<1>2. n = Bit(h \in Range(iocp)) /\ m = Bit(h \in Range(pending)) /\ k = Bit(h \in Range(batch))
  BY <1>1, OneAtMost DEF SentOK, AsyncTypes
<1>3. Packets(h) = Bit(h \in posting) + n + m + k
  BY <1>1 DEF Packets
<1>4. /\ h \in async_sent <=> \/ h \in posting \/ h \in Range(iocp)
                              \/ h \in Range(pending) \/ h \in Range(batch)
      /\ h \in posting => h \notin Range(iocp) /\ h \notin Range(pending) /\ h \notin Range(batch)
      /\ h \in Range(iocp) => h \notin Range(pending) /\ h \notin Range(batch)
      /\ h \in Range(pending) => h \notin Range(batch)
  BY DEF SentOK
<1> QED
  BY <1>2, <1>3, <1>4 DEF Bit

\* async_sent is set exactly while the handle's one request is outstanding, and
\* no send is lost (async.c:79-81, 92-97).
THEOREM SendsAreNotLost == Spec => []WakeupOnItsWay
<1>1. IInv => WakeupOnItsWay
  BY PacketOut DEF IInv, WakeupOnItsWay, SentOK
<1> QED
  BY <1>1, LoopInvariant, PTL

\* Nothing in the loop refers to a handle whose close callback has been called
\* (core.c:402-436, handle.c:66-70): its memory is the user's.
THEOREM ClosedHandlesAreFree == Spec => []ClosedIsForgotten
<1>1. IInv => ClosedIsForgotten
  <2> SUFFICES ASSUME IInv, NEW h \in closed
               PROVE  /\ h \notin active /\ h \notin handle_queue
                      /\ h \notin Range(endgame) \cup Range(timers)
                      /\ \A k \in Kinds : h \notin Range(list[k]) /\ next[k] # h
                      /\ h \in Asyncs => Packets(h) = 0
    BY DEF ClosedIsForgotten
  <2>1. /\ h \notin active /\ h \notin handle_queue /\ h \notin Range(endgame)
        /\ h \notin async_sent /\ h # NoHandle
    BY HandleKinds DEF IInv, LifeOK, HandleTypes
  <2>2. h \notin Range(timers)
    BY <2>1 DEF IInv, TreeOK
  <2>3. ASSUME NEW k \in Kinds PROVE h \notin Range(list[k]) /\ next[k] # h
    <3>1. h \notin Range(list[k]) /\ list[k] \in Seq(Watchers)
      BY <2>1 DEF IInv, ListOK
    <3>2. next[k] = NoHandle \/ Owes(list[k], next[k], todo)
      BY DEF IInv, WatchOK
    <3>3. next[k] = NoHandle \/ next[k] \in Range(list[k])
      BY <3>1, <3>2, OwesInList
    <3> QED
      BY <2>1, <3>1, <3>3
  <2>4. h \in Asyncs => Packets(h) = 0
    BY <2>1, PacketOut DEF IInv, Bit
  <2> QED
    BY <2>1, <2>2, <2>3, <2>4
<1> QED
  BY <1>1, LoopInvariant, PTL
=============================================================================
