----------------------------- MODULE QueueLemmas -----------------------------
(***************************************************************************)
(* Facts about sequences used as queues: what is appended at one end and   *)
(* taken from the other while the queue is split over several variables.   *)
(***************************************************************************)
EXTENDS Sequences, SequenceTheorems, TLAPS

\* Appending to the last part of a split queue appends to the whole queue.
LEMMA AppendToLastPart ==
  ASSUME NEW S, NEW s \in Seq(S), NEW t \in Seq(S), NEW x \in S
  PROVE  s \o Append(t, x) = Append(s \o t, x)
<1>1. <<x>> \in Seq(S)
  OBVIOUS
<1>2. Append(t, x) = t \o <<x>> /\ Append(s \o t, x) = (s \o t) \o <<x>>
  BY AppendIsConcat, ConcatProperties
<1> QED
  BY <1>1, <1>2, ConcatAssociative

\* A non-empty queue is its head followed by its tail.
LEMMA HeadThenTail ==
  ASSUME NEW S, NEW t \in Seq(S), t # << >>
  PROVE  <<Head(t)>> \o Tail(t) = t
<1>1. Head(t) \in S /\ Tail(t) \in Seq(S) /\ Len(Tail(t)) = Len(t) - 1
  BY HeadTailProperties
<1>2. Len(t) \in Nat \ {0}
  BY EmptySeq
<1>3. Len(<<Head(t)>>) = 1 /\ <<Head(t)>> \in Seq(S)
  BY <1>1
<1>4. Len(<<Head(t)>> \o Tail(t)) = Len(t) /\ <<Head(t)>> \o Tail(t) \in Seq(S)
  BY <1>1, <1>2, <1>3, ConcatProperties
<1>5. ASSUME NEW i \in 1 .. Len(t)
      PROVE  (<<Head(t)>> \o Tail(t))[i] = t[i]
  BY <1>1, <1>2, <1>3, HeadTailProperties, ConcatProperties
<1> QED
  BY <1>4, <1>5, SeqEqual

\* Moving the head of a queue to the end of what precedes it changes nothing
\* in the concatenation of the two.
LEMMA MoveHead ==
  ASSUME NEW S, NEW s \in Seq(S), NEW t \in Seq(S), t # << >>
  PROVE  Append(s, Head(t)) \o Tail(t) = s \o t
<1>1. Head(t) \in S /\ Tail(t) \in Seq(S)
  BY HeadTailProperties
<1>2. <<Head(t)>> \in Seq(S)
  BY <1>1
<1>3. Append(s, Head(t)) = s \o <<Head(t)>>
  BY <1>1, AppendIsConcat
<1>4. (s \o <<Head(t)>>) \o Tail(t) = s \o (<<Head(t)>> \o Tail(t))
  BY <1>1, <1>2, ConcatAssociative
<1> QED
  BY <1>3, <1>4, HeadThenTail

\* Head and Tail undo a push at the front.
LEMMA HeadTailOfPush ==
  ASSUME NEW S, NEW x \in S, NEW r \in Seq(S)
  PROVE  /\ <<x>> \o r # << >>
         /\ Head(<<x>> \o r) = x
         /\ Tail(<<x>> \o r) = r
<1> DEFINE q == <<x>> \o r
<1>1. <<x>> \in Seq(S) /\ Len(<<x>>) = 1 /\ <<x>>[1] = x
  OBVIOUS
<1>2. /\ q \in Seq(S)
      /\ Len(q) = 1 + Len(r)
      /\ \A i \in 1 .. 1 + Len(r) : q[i] = IF i <= 1 THEN <<x>>[i] ELSE r[i - 1]
  BY <1>1, ConcatProperties
<1>3. Len(r) \in Nat
  BY LenProperties
<1> HIDE DEF q
<1>4. q # << >> /\ Head(q) = q[1] /\ q[1] = x
  BY <1>1, <1>2, <1>3
<1>5. /\ Tail(q) \in Seq(S)
      /\ Len(Tail(q)) = Len(r)
      /\ \A i \in 1 .. Len(Tail(q)) : Tail(q)[i] = q[i + 1]
  BY <1>2, <1>3, <1>4, HeadTailProperties
<1>6. \A i \in 1 .. Len(r) : Tail(q)[i] = r[i]
  BY <1>2, <1>3, <1>5
<1>7. Tail(q) = r
  BY <1>5, <1>6, SeqEqual
<1> QED
  BY <1>4, <1>7 DEF q

\* The head and the tail of a split queue are those of its first part, when
\* that part is not empty.
LEMMA HeadOfSplitQueue ==
  ASSUME NEW S, NEW t \in Seq(S), NEW u \in Seq(S), t # << >>
  PROVE  /\ t \o u # << >>
         /\ Head(t \o u) = Head(t)
         /\ Tail(t \o u) = Tail(t) \o u
<1>1. Head(t) \in S /\ Tail(t) \in Seq(S)
  BY HeadTailProperties
<1>2. Tail(t) \o u \in Seq(S) /\ <<Head(t)>> \in Seq(S)
  BY <1>1, ConcatProperties
<1>3. t \o u = <<Head(t)>> \o (Tail(t) \o u)
  BY <1>1, <1>2, HeadThenTail, ConcatAssociative
<1> DEFINE r == Tail(t) \o u
<1>4. /\ <<Head(t)>> \o r # << >>
      /\ Head(<<Head(t)>> \o r) = Head(t)
      /\ Tail(<<Head(t)>> \o r) = r
  <2> HIDE DEF r
  <2>1. r \in Seq(S)
    BY <1>2 DEF r
  <2> QED
    BY <1>1, <2>1, HeadTailOfPush
<1> QED
  BY <1>3, <1>4
==============================================================================
