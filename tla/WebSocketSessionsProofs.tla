----------------------- MODULE WebSocketSessionsProofs -----------------------
(***************************************************************************)
(* Connections under an arbitrary application, for any numbers of          *)
(* connections and calls: the invariant of WebSocketSessions, the close    *)
(* handler before `delete this`, and the refinement of OrderedChannel.     *)
(*                                                                         *)
(* TextsOf is a recursive function on a sequence.  What it computes is     *)
(* proved by a least counterexample (Least), which is first-order, in      *)
(* place of an induction theorem.                                          *)
(***************************************************************************)
EXTENDS WebSocketSessions, CrowConnectionProofs, WellFoundedInduction, SequenceTheorems

-----------------------------------------------------------------------------
(* The least element of a set of numbers *)

LEMMA Least ==
    ASSUME NEW T \in SUBSET Nat, T # {}
    PROVE  \E n \in T : \A m \in T : n <= m
  <1>. DEFINE R == {ss \in Nat \X Nat : ss[1] < ss[2]}
  <1>1. OpToRel(<, Nat) = R  BY Zenon DEF OpToRel
  <1>2. IsWellFoundedOn(OpToRel(<, Nat), Nat)  BY NatLessThanWellFounded, Zenon
  <1>3. IsWellFoundedOn(R, Nat)  BY <1>1, <1>2
  <1>4. \A m, n \in Nat : m < n => <<m, n>> \in R  OBVIOUS
  <1>. HIDE DEF R
  <1>5. PICK n \in T : \A m \in T : <<m, n>> \notin R  BY <1>3, WFMin, Zenon
  <1>6. ASSUME NEW m \in T PROVE n <= m
    <2>1. m \in Nat /\ n \in Nat  OBVIOUS
    <2>2. ~ (m < n)  BY <1>4, <1>5, <2>1
    <2>. QED  BY <2>1, <2>2
  <1>. QED  BY <1>6

\* The least natural number that is not in a set.
LEMMA LeastOutside ==
    ASSUME NEW S, NEW k \in Nat, k \notin S
    PROVE  \E n \in Nat : n \notin S /\ n <= k /\ \A m \in Nat : m < n => m \in S
  <1>. DEFINE T == {n \in Nat : n \notin S}
  <1>1. T \in SUBSET Nat /\ k \in T  OBVIOUS
  <1>2. PICK n \in T : \A m \in T : n <= m  BY <1>1, Least
  <1>3. n \in Nat /\ n \notin S /\ n <= k  BY <1>1, <1>2
  <1>4. ASSUME NEW m \in Nat, m < n PROVE m \in S  BY <1>2, <1>3, <1>4
  <1>. QED  BY <1>3, <1>4

-----------------------------------------------------------------------------
(* What TextsOf computes *)

Step(g, frames, n) ==
    IF frames[n] \in Texts THEN Append(g[n - 1], frames[n]) ELSE g[n - 1]

\* g is TextsUpTo on the first k frames.
Counts(g, frames, k) ==
    g = [n \in 0 .. k |-> IF n = 0 THEN <<>> ELSE Step(g, frames, n)]

LEMMA CountsExists ==
    ASSUME NEW frames, NEW k \in Nat
    PROVE  \E g : Counts(g, frames, k)
  <1>. DEFINE S == {n \in Nat : \E g : Counts(g, frames, n)}
  <1>1. SUFFICES ASSUME k \notin S PROVE FALSE  OBVIOUS
  <1>2. PICK n \in Nat : n \notin S /\ \A m \in Nat : m < n => m \in S
    <2>. HIDE DEF S
    <2>. QED  BY <1>1, LeastOutside
  <1>3. CASE n = 0
    <2>. DEFINE g == [i \in 0 .. 0 |-> <<>>]
    <2>1. g = [i \in 0 .. 0 |-> IF i = 0 THEN <<>> ELSE Step(g, frames, i)]
      BY \A i \in 0 .. 0 : i = 0
    <2>2. Counts(g, frames, n)  BY <1>3, <2>1 DEF Counts
    <2>. QED  BY <1>2, <2>2
  <1>4. CASE n # 0
    <2>1. n - 1 \in Nat /\ n - 1 < n  BY <1>4
    <2>2. PICK f : Counts(f, frames, n - 1)  BY <1>2, <2>1
    <2>. DEFINE g == [i \in 0 .. n |-> IF i = n THEN Step(f, frames, n) ELSE f[i]]
    <2>3. ASSUME NEW i \in 0 .. n
          PROVE  g[i] = IF i = 0 THEN <<>> ELSE Step(g, frames, i)
      <3>1. CASE i = n
        <4>1. g[n - 1] = f[n - 1]  BY <2>1
        <4>. QED  BY <1>4, <3>1, <4>1 DEF Step
      <3>2. CASE i # n
        <4>1. i \in 0 .. n - 1 /\ g[i] = f[i]  BY <2>1, <3>2
        <4>2. f[i] = IF i = 0 THEN <<>> ELSE Step(f, frames, i)
          BY <2>2, <4>1 DEF Counts
        <4>3. CASE i = 0  BY <4>1, <4>2, <4>3
        <4>4. CASE i # 0
          <5>1. i - 1 \in 0 .. n /\ i - 1 # n  BY <4>1, <4>4, <2>1
          <5>2. g[i - 1] = f[i - 1]  BY <5>1
          <5>. QED  BY <4>1, <4>2, <4>4, <5>2 DEF Step
        <4>. QED  BY <4>3, <4>4
      <3>. QED  BY <3>1, <3>2
    <2>4. Counts(g, frames, n)  BY <2>3 DEF Counts
    <2>. QED  BY <1>2, <2>4
  <1>. QED  BY <1>3, <1>4

\* TextsUpTo satisfies its recursive definition.
LEMMA TextsUpToCounts ==
    ASSUME NEW S, NEW frames \in Seq(S)
    PROVE  Counts(TextsUpTo(frames), frames, Len(frames))
  <1>1. Len(frames) \in Nat  OBVIOUS
  <1>2. PICK g : Counts(g, frames, Len(frames))  BY <1>1, CountsExists
  <1>3. g = [n \in 0 .. Len(frames) |->
               IF n = 0 THEN <<>>
               ELSE IF frames[n] \in Texts THEN Append(g[n - 1], frames[n])
                    ELSE g[n - 1]]
    BY <1>2 DEF Counts, Step
  <1>4. TextsUpTo(frames) =
          [n \in 0 .. Len(frames) |->
               IF n = 0 THEN <<>>
               ELSE IF frames[n] \in Texts
                    THEN Append(TextsUpTo(frames)[n - 1], frames[n])
                    ELSE TextsUpTo(frames)[n - 1]]
    BY <1>3 DEF TextsUpTo
  <1>. QED  BY <1>4 DEF Counts, Step

LEMMA UpTo ==
    ASSUME NEW S, NEW frames \in Seq(S)
    PROVE  /\ TextsUpTo(frames)[0] = <<>>
           /\ \A n \in 1 .. Len(frames) :
                 TextsUpTo(frames)[n] = Step(TextsUpTo(frames), frames, n)
  <1>. DEFINE g == TextsUpTo(frames)
  <1>1. g = [n \in 0 .. Len(frames) |-> IF n = 0 THEN <<>> ELSE Step(g, frames, n)]
    BY TextsUpToCounts DEF Counts
  <1>2. Len(frames) \in Nat  OBVIOUS
  <1>. HIDE DEF g
  <1>3. g[0] = <<>>  BY <1>1, <1>2
  <1>4. \A n \in 1 .. Len(frames) : g[n] = Step(g, frames, n)  BY <1>1, <1>2
  <1>. QED  BY <1>3, <1>4 DEF g

LEMMA UpToType ==
    ASSUME NEW S, NEW frames \in Seq(S), NEW k \in 0 .. Len(frames)
    PROVE  TextsUpTo(frames)[k] \in Seq(Texts)
  <1>. DEFINE g == TextsUpTo(frames)
              Good == {n \in Nat : n <= Len(frames) => g[n] \in Seq(Texts)}
  <1>0. Len(frames) \in Nat /\ k \in Nat  OBVIOUS
  <1>u. g[0] = <<>> /\ \A n \in 1 .. Len(frames) : g[n] = Step(g, frames, n)  BY UpTo
  <1>. HIDE DEF g
  <1>1. SUFFICES ASSUME k \notin Good PROVE FALSE  BY <1>0 DEF g
  <1>2. PICK n \in Nat : n \notin Good /\ \A m \in Nat : m < n => m \in Good
    <2>. HIDE DEF Good
    <2>. QED  BY <1>0, <1>1, LeastOutside
  <1>3. n <= Len(frames) /\ g[n] \notin Seq(Texts)  BY <1>2
  <1>4. n # 0
    <2>1. <<>> \in Seq(Texts)  OBVIOUS
    <2>. QED  BY <1>3, <1>u, <2>1
  <1>5. n - 1 \in Nat /\ n - 1 < n /\ n - 1 <= Len(frames) /\ n \in 1 .. Len(frames)
    BY <1>0, <1>3, <1>4
  <1>6. g[n - 1] \in Seq(Texts)  BY <1>2, <1>5
  <1>7. g[n] = Step(g, frames, n)  BY <1>u, <1>5
  <1>8. CASE frames[n] \in Texts
    <2>1. Append(g[n - 1], frames[n]) \in Seq(Texts)  BY <1>6, <1>8
    <2>. QED  BY <1>3, <1>7, <1>8, <2>1 DEF Step
  <1>9. CASE frames[n] \notin Texts  BY <1>3, <1>6, <1>7, <1>9 DEF Step
  <1>. QED  BY <1>8, <1>9

LEMMA TextsType ==
    ASSUME NEW S, NEW frames \in Seq(S)
    PROVE  TextsOf(frames) \in Seq(Texts)
  <1>1. Len(frames) \in 0 .. Len(frames)  OBVIOUS
  <1>. QED  BY <1>1, UpToType DEF TextsOf

LEMMA TextsOfNone == TextsOf(<<>>) = <<>>
  <1>1. <<>> \in Seq({}) /\ Len(<<>>) = 0  OBVIOUS
  <1>. QED  BY <1>1, UpTo DEF TextsOf

\* What follows a prefix does not change what the prefix holds.
LEMMA UpToPrefix ==
    ASSUME NEW S, NEW s \in Seq(S), NEW t \in Seq(S), NEW k \in Nat,
           k <= Len(s), k <= Len(t), \A i \in 1 .. k : s[i] = t[i]
    PROVE  TextsUpTo(s)[k] = TextsUpTo(t)[k]
  <1>. DEFINE g == TextsUpTo(s)
              h == TextsUpTo(t)
              Good == {n \in Nat : n <= k => g[n] = h[n]}
  <1>0. Len(s) \in Nat /\ Len(t) \in Nat  OBVIOUS
  <1>u. /\ g[0] = <<>> /\ \A n \in 1 .. Len(s) : g[n] = Step(g, s, n)
        /\ h[0] = <<>> /\ \A n \in 1 .. Len(t) : h[n] = Step(h, t, n)
    BY UpTo
  <1>. HIDE DEF g, h
  <1>1. SUFFICES ASSUME k \notin Good PROVE FALSE  BY DEF g, h
  <1>2. PICK n \in Nat : n \notin Good /\ \A m \in Nat : m < n => m \in Good
    <2>. HIDE DEF Good
    <2>. QED  BY <1>1, LeastOutside
  <1>3. n <= k /\ g[n] # h[n]  BY <1>2
  <1>4. n # 0  BY <1>3, <1>u
  <1>5. /\ n - 1 \in Nat /\ n - 1 < n /\ n - 1 <= k
        /\ n \in 1 .. k /\ n \in 1 .. Len(s) /\ n \in 1 .. Len(t)
    BY <1>0, <1>3, <1>4
  <1>6. g[n - 1] = h[n - 1] /\ s[n] = t[n]  BY <1>2, <1>5
  <1>7. g[n] = Step(g, s, n) /\ h[n] = Step(h, t, n)  BY <1>u, <1>5
  <1>. QED  BY <1>3, <1>6, <1>7 DEF Step

\* One more frame.
LEMMA TextsOfAppend ==
    ASSUME NEW S, NEW frames \in Seq(S), NEW f \in S
    PROVE  TextsOf(Append(frames, f)) =
              IF f \in Texts THEN Append(TextsOf(frames), f) ELSE TextsOf(frames)
  <1>. DEFINE all == Append(frames, f)
              n == Len(frames)
  <1>1. /\ all \in Seq(S) /\ Len(all) = n + 1 /\ n \in Nat /\ all[n + 1] = f
        /\ \A i \in 1 .. n : all[i] = frames[i]
    OBVIOUS
  <1>. HIDE DEF all
  <1>2. TextsUpTo(all)[n] = TextsUpTo(frames)[n]  BY <1>1, UpToPrefix
  <1>3. TextsUpTo(all)[n + 1] = Step(TextsUpTo(all), all, n + 1)  BY <1>1, UpTo
  <1>4. (n + 1) - 1 = n  BY <1>1
  <1>. QED  BY <1>1, <1>2, <1>3, <1>4 DEF TextsOf, Step, all

LEMMA AppendAfter ==
    \A a, b \in Seq(Texts), e \in Texts : a \o Append(b, e) = Append(a \o b, e)
  OBVIOUS

\* A sequence of frames after another.
LEMMA TextsOfConcat ==
    ASSUME NEW S, NEW s \in Seq(S), NEW t \in Seq(S)
    PROVE  TextsOf(s \o t) = TextsOf(s) \o TextsOf(t)
  <1>. DEFINE all == s \o t
              l == Len(s)
              k == Len(t)
              g == TextsUpTo(all)
              h == TextsUpTo(t)
              Good == {n \in Nat : n <= k => g[l + n] = TextsOf(s) \o h[n]}
  <1>1. /\ all \in Seq(S) /\ Len(all) = l + k /\ l \in Nat /\ k \in Nat
        /\ \A i \in 1 .. l : all[i] = s[i]
        /\ \A i \in 1 .. k : all[l + i] = t[i]
    OBVIOUS
  <1>u. /\ \A n \in 1 .. l + k : g[n] = Step(g, all, n)
        /\ h[0] = <<>> /\ \A n \in 1 .. k : h[n] = Step(h, t, n)
    <2>. HIDE DEF all
    <2>. QED  BY <1>1, UpTo
  <1>p. g[l] = TextsOf(s)
    <2>. HIDE DEF all
    <2>1. l <= Len(s) /\ l <= Len(all)  BY <1>1
    <2>2. \A i \in 1 .. l : all[i] = s[i]  BY <1>1
    <2>3. all \in Seq(S) /\ l \in Nat  BY <1>1
    <2>. HIDE DEF l
    <2>4. TextsUpTo(all)[l] = TextsUpTo(s)[l]  BY <2>1, <2>2, <2>3, UpToPrefix
    <2>. QED  BY <2>4 DEF TextsOf, l
  <1>t. TextsOf(s) \in Seq(Texts) /\ \A n \in 0 .. k : h[n] \in Seq(Texts)
    BY TextsType, UpToType
  <1>e. TextsOf(all) = g[l + k] /\ TextsOf(t) = h[k]
    <2>. HIDE DEF all
    <2>. QED  BY <1>1 DEF TextsOf
  <1>l. l \in Nat /\ k \in Nat  BY <1>1
  <1>. HIDE DEF g, h, l, k
  <1>2. SUFFICES ASSUME k \notin Good PROVE FALSE
    <2>1. SUFFICES ASSUME k \in Good PROVE TextsOf(all) = TextsOf(s) \o TextsOf(t)
      OBVIOUS
    <2>2. g[l + k] = TextsOf(s) \o h[k]  BY <1>l, <2>1
    <2>. QED  BY <1>e, <2>2
  <1>. HIDE DEF all
  <1>3. PICK n \in Nat : n \notin Good /\ \A m \in Nat : m < n => m \in Good
    <2>. HIDE DEF Good
    <2>. QED  BY <1>l, <1>2, LeastOutside
  <1>4. n <= k /\ g[l + n] # TextsOf(s) \o h[n]  BY <1>3
  <1>5. n # 0
    <2>1. l + 0 = l  BY <1>l
    <2>2. TextsOf(s) \o <<>> = TextsOf(s)  BY <1>t
    <2>. QED  BY <1>4, <1>p, <1>u, <2>1, <2>2
  <1>6. /\ n - 1 \in Nat /\ n - 1 < n /\ n - 1 <= k /\ n - 1 \in 0 .. k
        /\ n \in 1 .. k /\ l + n \in 1 .. l + k /\ (l + n) - 1 = l + (n - 1)
    <2>1. n <= k /\ n # 0  BY <1>4, <1>5
    <2>. QED  BY <1>l, <2>1
  <1>7. g[l + (n - 1)] = TextsOf(s) \o h[n - 1]  BY <1>3, <1>6
  <1>8. g[l + n] = Step(g, all, l + n) /\ h[n] = Step(h, t, n) /\ all[l + n] = t[n]
    BY <1>u, <1>1, <1>6
  <1>9. CASE t[n] \in Texts
    <2>1. TextsOf(s) \o Append(h[n - 1], t[n]) = Append(TextsOf(s) \o h[n - 1], t[n])
      <3>1. h[n - 1] \in Seq(Texts) /\ TextsOf(s) \in Seq(Texts)  BY <1>t, <1>6
      <3>. QED  BY <1>9, <3>1, AppendAfter
    <2>2. g[l + n] = Append(g[l + (n - 1)], t[n]) /\ h[n] = Append(h[n - 1], t[n])
      BY <1>6, <1>8, <1>9 DEF Step
    <2>. QED  BY <1>4, <1>7, <2>1, <2>2
  <1>10. CASE t[n] \notin Texts  BY <1>4, <1>6, <1>7, <1>8, <1>10 DEF Step
  <1>. QED  BY <1>9, <1>10

-----------------------------------------------------------------------------
(* Beginnings of a sequence, and the frames a connection still holds *)

LEMMA BeginsItself ==
    ASSUME NEW S, NEW s \in Seq(S)
    PROVE  Begins(s, s)
  BY SubSeqFull, LenProperties DEF Begins

LEMMA BeginsConcat ==
    ASSUME NEW S, NEW s \in Seq(S), NEW t \in Seq(S)
    PROVE  Begins(s, s \o t)
  <1>. DEFINE all == s \o t
              l == Len(s)
              beginning == SubSeq(all, 1, l)
  <1>1. /\ all \in Seq(S) /\ l \in Nat /\ Len(t) \in Nat /\ Len(all) = l + Len(t)
        /\ \A i \in 1 .. l : all[i] = s[i]
    OBVIOUS
  <1>2. \A i \in 1 .. l : all[i] \in S  BY ElementOfSeq, <1>1
  <1>. HIDE DEF all
  <1>3. beginning \in Seq(S) /\ Len(beginning) = l /\ \A i \in 1 .. l : beginning[i] = all[i]
    <2>1. l \in Int /\ 1 \in Int /\ (IF 1 <= l THEN l - 1 + 1 ELSE 0) = l
          /\ l - 1 + 1 = l /\ \A i \in 1 .. l : 1 + i - 1 = i
      BY <1>1
    <2>2. /\ beginning \in Seq(S) /\ Len(beginning) = IF 1 <= l THEN l - 1 + 1 ELSE 0
          /\ \A i \in 1 .. l - 1 + 1 : beginning[i] = all[1 + i - 1]
      <3>. HIDE DEF l
      <3>. QED  BY <2>1, <1>2, SubSeqProperties
    <2>. QED  BY <2>1, <2>2
  <1>. HIDE DEF beginning
  <1>4. \A i \in 1 .. Len(s) : s[i] = beginning[i]  BY <1>1, <1>3
  <1>5. s = beginning  BY <1>3, <1>4, SeqEqual
  <1>. QED  BY <1>1, <1>5 DEF Begins, beginning, all

LEMMA BeginsAppend ==
    ASSUME NEW S, NEW s \in Seq(S), NEW t \in Seq(S), NEW e \in S, Begins(s, t)
    PROVE  Begins(s, Append(t, e))
  <1>. DEFINE all == Append(t, e)
              l == Len(s)
  <1>1. /\ all \in Seq(S) /\ l \in Nat /\ Len(t) \in Nat /\ Len(all) = Len(t) + 1
        /\ \A i \in 1 .. Len(t) : all[i] = t[i]
    OBVIOUS
  <1>2. l <= Len(t) /\ s = SubSeq(t, 1, l)  BY DEF Begins
  <1>. HIDE DEF all
  <1>3. SubSeq(all, 1, l) = SubSeq(t, 1, l)  BY <1>1, <1>2
  <1>. QED  BY <1>1, <1>2, <1>3 DEF Begins, all

\* Three parts in a row.
LEMMA Assoc == \A s, t, u \in Seq(Texts) : (s \o t) \o u = s \o (t \o u)
  <1>1. ASSUME NEW s \in Seq(Texts), NEW t \in Seq(Texts), NEW u \in Seq(Texts)
        PROVE  (s \o t) \o u = s \o (t \o u)
    BY ConcatAssociative
  <1>. QED  BY <1>1

LEMMA TextsOfOne ==
    ASSUME NEW f
    PROVE  TextsOf(<<f>>) = IF f \in Texts THEN <<f>> ELSE <<>>
  <1>1. <<>> \in Seq({f}) /\ f \in {f}  OBVIOUS
  <1>2. <<f>> = Append(<<>>, f)  OBVIOUS
  <1>. QED  BY <1>1, <1>2, TextsOfAppend, TextsOfNone

LEMMA TextsOfHeadTail ==
    ASSUME NEW S, NEW s \in Seq(S), s # <<>>
    PROVE  TextsOf(s) = TextsOf(<<Head(s)>>) \o TextsOf(Tail(s))
  <1>1. <<Head(s)>> \in Seq(S) /\ Tail(s) \in Seq(S)  OBVIOUS
  <1>2. s = <<Head(s)>> \o Tail(s)  OBVIOUS
  <1>. QED  BY <1>1, <1>2, TextsOfConcat

\* What is pending on a connection is a sequence of texts.
LEMMA PendingType ==
    ASSUME NEW r \in Connection
    PROVE  /\ Pending(r) \in Seq(Texts)
           /\ TextsOf(r.writeBuffers) \in Seq(Texts)
           /\ TextsOf(r.sendingBuffers) \in Seq(Texts)
  <1>1. r.writeBuffers \in Seq(Frames) /\ r.sendingBuffers \in Seq(Frames)
    BY DEF Connection
  <1>2. TextsOf(r.writeBuffers) \in Seq(Texts) /\ TextsOf(r.sendingBuffers) \in Seq(Texts)
    BY <1>1, TextsType
  <1>3. <<>> \in Seq(Texts)  OBVIOUS
  <1>. QED  BY <1>2, <1>3, ConcatProperties DEF Pending

\* Starting a write moves texts and loses none (websocket.h:718-728).
LEMMA PendingDoWrite ==
    ASSUME NEW r \in Connection
    PROVE  Pending(DoWrite(r)) = Pending(r)
  <1>1. CASE r.sendingBuffers = <<>>
    <2>. DEFINE q == [r EXCEPT !.sendingBuffers = r.writeBuffers,
                               !.writeBuffers = <<>>, !.flushed = FALSE]
    <2>1. DoWrite(r) = q  BY <1>1 DEF DoWrite
    <2>2. q.sendingBuffers = r.writeBuffers /\ q.writeBuffers = <<>> /\ ~ q.flushed
      BY DEF Connection
    <2>3. Pending(q) = TextsOf(r.writeBuffers) \o <<>>
      <3>. HIDE DEF q
      <3>. QED  BY <2>2, TextsOfNone DEF Pending
    <2>4. Pending(r) = <<>> \o TextsOf(r.writeBuffers)
      BY <1>1, TextsOfNone DEF Pending
    <2>. HIDE DEF q
    <2>. QED  BY <2>1, <2>3, <2>4, PendingType, ConcatEmptySeq
  <1>2. CASE r.sendingBuffers # <<>>  BY <1>2 DEF DoWrite
  <1>. QED  BY <1>1, <1>2

\* A frame put into write_buffers_ comes after all that is there.
LEMMA PendingEnqueue ==
    ASSUME NEW r \in Connection, NEW f \in Frames
    PROVE  Pending(Enqueue(r, f)) = Pending(r) \o TextsOf(<<f>>)
  <1>. DEFINE q == [r EXCEPT !.writeBuffers = Append(@, f)]
              before == IF r.flushed THEN <<>> ELSE TextsOf(r.sendingBuffers)
  <1>1. r.writeBuffers \in Seq(Frames)  BY DEF Connection
  <1>2. q \in Connection
    <2>1. Append(r.writeBuffers, f) \in Seq(Frames)  BY <1>1, Buffers
    <2>. QED  BY <2>1 DEF Connection
  <1>3. /\ q.writeBuffers = Append(r.writeBuffers, f)
        /\ q.flushed = r.flushed /\ q.sendingBuffers = r.sendingBuffers
    BY DEF Connection
  <1>4. TextsOf(Append(r.writeBuffers, f)) = TextsOf(r.writeBuffers) \o TextsOf(<<f>>)
    <2>1. <<f>> \in Seq(Frames) /\ Append(r.writeBuffers, f) = r.writeBuffers \o <<f>>
      BY <1>1
    <2>. QED  BY <1>1, <2>1, TextsOfConcat
  <1>. HIDE DEF q
  <1>5. Pending(q) = before \o (TextsOf(r.writeBuffers) \o TextsOf(<<f>>))
    BY <1>3, <1>4 DEF Pending
  <1>6. Pending(r) = before \o TextsOf(r.writeBuffers)  BY DEF Pending
  <1>7. before \in Seq(Texts) /\ TextsOf(<<f>>) \in Seq(Texts)
    <2>1. <<f>> \in Seq(Frames) /\ <<>> \in Seq(Texts)  OBVIOUS
    <2>2. TextsOf(<<f>>) \in Seq(Texts)  BY <2>1, TextsType
    <2>. QED  BY <2>1, <2>2, PendingType
  <1>. HIDE DEF before
  <1>8. Pending(q) = Pending(r) \o TextsOf(<<f>>)
    <2>1. TextsOf(r.writeBuffers) \in Seq(Texts)  BY PendingType
    <2>2. (before \o TextsOf(r.writeBuffers)) \o TextsOf(<<f>>)
             = before \o (TextsOf(r.writeBuffers) \o TextsOf(<<f>>))
      BY <1>7, <2>1, Assoc
    <2>. QED  BY <1>5, <1>6, <2>2
  <1>9. Pending(DoWrite(q)) = Pending(q)  BY <1>2, PendingDoWrite
  <1>. QED  BY <1>8, <1>9 DEF Enqueue, q

\* A close frame is no text.
LEMMA PendingClose ==
    ASSUME NEW r \in Connection
    PROVE  Pending(WriteClose(r)) = Pending(r)
  <1>1. CloseFrame \in Frames /\ CloseFrame \notin Texts
    BY TextsAssumption DEF Frames
  <1>2. TextsOf(<<CloseFrame>>) = <<>>  BY <1>1, TextsOfOne
  <1>. QED  BY <1>1, <1>2, PendingEnqueue, PendingType, ConcatEmptySeq DEF WriteClose

\* What Enqueue leaves alone.
LEMMA EnqueueKeeps ==
    ASSUME NEW r \in Connection, NEW f \in Frames
    PROVE  LET q == Enqueue(r, f)
           IN  /\ q.io = r.io /\ q.sock = r.sock /\ q.isReading = r.isReading
               /\ q.recvClose = r.recvClose
               /\ q.closeHandlerCalled = r.closeHandlerCalled
               /\ q.closeConnection = r.closeConnection
               /\ q.sentClose = r.sentClose
  <1>1. [r EXCEPT !.writeBuffers = Append(@, f)].sendingBuffers = r.sendingBuffers
    BY DEF Connection
  <1>. QED  BY <1>1 DEF Enqueue, DoWrite, Connection

-----------------------------------------------------------------------------
(* One connection of IInv: its object, tasks, frames, history variables *)

Ok(r, p, g, s, h) ==
    /\ r.recvClose => r.closeHandlerCalled
    /\ r.io # "none" /\ r.closeHandlerCalled => h \/ r.io \in {"onclose", "oncloseReply"}
    /\ r.io = "onopen" => r.sock # "shut"
    /\ r.io = "oncloseReply" \/ r.sock = "shut" => ~ r.isReading
    /\ r.io = "none" => s = <<>> /\ g = <<>> /\ p = <<>>
    /\ Begins(TextsOf(g), s)
    /\ Connected(r) /\ r.io # "none" => s = TextsOf(g) \o (Pending(r) \o TextsOf(p))

LEMMA IInvOk ==
    ASSUME TypeOK
    PROVE  IInv <=> \A c \in Conns : Ok(conn[c], posted[c], got[c], sent[c], handled[c])
  BY DEF IInv, RecvImpliesHandled, CalledInv, ShutInv, EmptyInv, StreamInv, Ok,
         Alive, Received, TextStream

\* What a step may do to the texts of a connection.
Moves(c, s, g) ==
    \/ s = <<>> /\ TextsOf(g) = <<>>
    \/ s = sent[c] /\ Begins(TextsOf(got[c]), TextsOf(g))
    \/ TextsOf(g) = TextsOf(got[c]) /\ \E text \in Texts : s = Append(sent[c], text)

\* What every step does.
Kept ==
    /\ IInv'
    /\ [Channel!ChannelNext]_(Channel!channelVars)
    /\ \A c \in Conns : Alive(c) /\ ~ (Alive(c))' => handled'[c]

-----------------------------------------------------------------------------
(* Type correctness *)

LEMMA EndSessionTypes ==
    ASSUME TypeOK, NEW c \in Conns, EndSession(c)
    PROVE  sent' \in [Conns -> Seq(Texts)] /\ calls' \in [Conns -> 0 .. MaxCalls]
  <1>1. <<>> \in Seq(Texts) /\ 0 \in 0 .. MaxCalls  BY MaxCallsAssumption
  <1>. DEFINE gone == ~ (Alive(c))'
  <1>2. /\ sent' = [sent EXCEPT ![c] = IF gone THEN <<>> ELSE @]
        /\ calls' = [calls EXCEPT ![c] = IF gone THEN 0 ELSE @]
    BY DEF EndSession
  <1>. HIDE DEF gone
  <1>. QED  BY <1>1, <1>2 DEF TypeOK

LEMMA TypeStep ==
    ASSUME TypeOK, [Next]_vars
    PROVE  TypeOK'
  <1>0. MaxCalls \in Nat  BY MaxCallsAssumption
  <1>1. ASSUME NEW c \in Conns, Open(c) PROVE TypeOK'
    BY <1>1, HandshakeTypes DEF TypeOK, Open
  <1>2. ASSUME NEW c \in Conns, OpenHandlerReturns(c) PROVE TypeOK'
    <2>0. conn[c] \in Connection  BY DEF TypeOK, ConnTypeOK
    <2>1. [conn[c] EXCEPT !.io = "run", !.isReading = TRUE] \in Connection
      BY <2>0, ReadingTypes
    <2>. QED  BY <1>2, <2>1 DEF TypeOK, OpenHandlerReturns, StartReading, ConnTypeOK
  <1>3. ASSUME NEW c \in Conns, NEW text \in Texts, SendText(c, text) PROVE TypeOK'
    <2>1. ConnTypeOK'  BY <1>3, PostTypes DEF TypeOK, SendText
    <2>2. Append(sent[c], text) \in Seq(Texts)  BY DEF TypeOK
    <2>3. calls[c] + 1 \in 0 .. MaxCalls  BY <1>0, <1>3 DEF TypeOK, SendText
    <2>. QED  BY <1>3, <2>1, <2>2, <2>3 DEF TypeOK, SendText
  <1>4. ASSUME NEW c \in Conns, Close(c) PROVE TypeOK'
    <2>1. ConnTypeOK'  BY <1>4, PostTypes DEF TypeOK, Close
    <2>2. calls[c] + 1 \in 0 .. MaxCalls  BY <1>0, <1>4 DEF TypeOK, Close
    <2>. QED  BY <1>4, <2>1, <2>2 DEF TypeOK, Close
  <1>5. ASSUME NEW c \in Conns, CloseHandler(c) PROVE TypeOK'
    <2>1. ConnTypeOK'  BY <1>5, CloseTypes DEF TypeOK, CloseHandler
    <2>. QED  BY <1>5, <2>1, EndSessionTypes DEF TypeOK, CloseHandler
  <1>6. ASSUME NEW c \in Conns, Handlers(c) PROVE TypeOK'
    <2>1. ConnTypeOK'  BY <1>6, IoStepTypes DEF TypeOK, Handlers
    <2>. QED  BY <1>6, <2>1, EndSessionTypes DEF TypeOK, Handlers
  <1>7. ASSUME NEW c \in Conns, Peer(c) PROVE TypeOK'
    <2>1. ConnTypeOK'  BY <1>7, CloseTypes DEF TypeOK, Peer
    <2>. QED  BY <1>7, <2>1, EndSessionTypes DEF TypeOK, Peer
  <1>8. CASE UNCHANGED vars  BY <1>8 DEF TypeOK, ConnTypeOK, vars, connVars
  <1>. QED  BY <1>1, <1>2, <1>3, <1>4, <1>5, <1>6, <1>7, <1>8 DEF Next

-----------------------------------------------------------------------------
(* A step of one connection, given by what becomes of its part of the state *)

LEMMA OneStep ==
    ASSUME IInv, TypeOK', NEW c \in Conns, NEW r, NEW p, NEW g, NEW s, NEW h,
           /\ conn' = [conn EXCEPT ![c] = r]
           /\ posted' = [posted EXCEPT ![c] = p]
           /\ got' = [got EXCEPT ![c] = g]
           /\ sent' = [sent EXCEPT ![c] = s]
           /\ handled' = [handled EXCEPT ![c] = h],
           Ok(r, p, g, s, h),
           Moves(c, s, g),
           r.io = "none" => h \/ ~ Alive(c)
    PROVE  Kept
  <1>1. /\ TypeOK
        /\ \A d \in Conns : Ok(conn[d], posted[d], got[d], sent[d], handled[d])
    BY IInvOk DEF IInv
  <1>2. /\ conn'[c] = r /\ posted'[c] = p /\ got'[c] = g /\ sent'[c] = s
        /\ handled'[c] = h
    BY <1>1 DEF TypeOK, ConnTypeOK
  <1>3. ASSUME NEW d \in Conns, d # c
        PROVE  /\ conn'[d] = conn[d] /\ posted'[d] = posted[d] /\ got'[d] = got[d]
               /\ sent'[d] = sent[d] /\ handled'[d] = handled[d]
    BY <1>1, <1>3 DEF TypeOK, ConnTypeOK
  <1>4. IInv'
    <2>1. ASSUME NEW d \in Conns
          PROVE  Ok(conn'[d], posted'[d], got'[d], sent'[d], handled'[d])
      <3>1. CASE d = c  BY <1>2, <3>1
      <3>2. CASE d # c  BY <1>1, <1>3, <3>2
      <3>. QED  BY <3>1, <3>2
    <2>. QED
      BY <2>1 DEF IInv, RecvImpliesHandled, CalledInv, ShutInv, EmptyInv, StreamInv,
         Ok, Alive, Received, TextStream
  <1>5. \A d \in Conns : Alive(d) /\ ~ (Alive(d))' => handled'[d]
    BY <1>2, <1>3 DEF Alive
  <1>6. [Channel!ChannelNext]_(Channel!channelVars)
    <2>. DEFINE received == [d \in Conns |-> Received(d)]
    <2>1. received' = [received EXCEPT ![c] = TextsOf(g)]
      <3>1. Received(c)' = TextsOf(g)  BY <1>2 DEF Received
      <3>2. ASSUME NEW d \in Conns, d # c PROVE Received(d)' = Received(d)
        BY <1>3, <3>2 DEF Received
      <3>3. received' = [d \in Conns |-> Received(d)']  OBVIOUS
      <3>4. [received EXCEPT ![c] = TextsOf(g)]
              = [d \in Conns |-> IF d = c THEN TextsOf(g) ELSE Received(d)]
        OBVIOUS
      <3>. QED  BY <3>1, <3>2, <3>3, <3>4
    <2>2. received[c] = TextsOf(got[c]) /\ received'[c] = TextsOf(g)
      BY <1>2 DEF Received
    <2>3. CASE s = <<>> /\ TextsOf(g) = <<>>
      <3>1. Channel!Disconnect(c)  BY <2>1, <2>3 DEF Channel!Disconnect
      <3>. QED  BY <3>1 DEF Channel!ChannelNext
    <2>4. CASE s = sent[c] /\ Begins(TextsOf(got[c]), TextsOf(g))
      <3>1. sent' = sent  BY <2>4, <1>1 DEF TypeOK
      <3>2. /\ Begins(TextsOf(g), sent[c])
            /\ Begins(TextsOf(got[c]), TextsOf(g))
        BY <2>4 DEF Ok
      <3>3. Len(TextsOf(g)) \in Len(TextsOf(got[c])) .. Len(sent[c])
        <4>1. g \in Seq(Frames) /\ got[c] \in Seq(Frames) /\ sent[c] \in Seq(Texts)
          BY <1>1, <1>2 DEF TypeOK, ConnTypeOK
        <4>2. /\ Len(TextsOf(g)) \in Nat /\ Len(TextsOf(got[c])) \in Nat
              /\ Len(sent[c]) \in Nat
          BY <4>1, TextsType, LenProperties
        <4>. QED  BY <3>2, <4>2 DEF Begins
      <3>4. received' = [received EXCEPT ![c] = SubSeq(sent[c], 1, Len(TextsOf(g)))]
        BY <2>1, <3>2 DEF Begins
      <3>5. Channel!Receive(c)  BY <2>2, <3>1, <3>3, <3>4 DEF Channel!Receive
      <3>. QED  BY <3>5 DEF Channel!ChannelNext
    <2>5. CASE TextsOf(g) = TextsOf(got[c]) /\ \E text \in Texts : s = Append(sent[c], text)
      <3>1. PICK text \in Texts : s = Append(sent[c], text)  BY <2>5
      <3>2. received' = received  BY <2>1, <2>2, <2>5
      <3>3. sent' = [sent EXCEPT ![c] = Append(@, text)]  BY <3>1
      <3>4. Channel!Send(c, text)  BY <3>2, <3>3 DEF Channel!Send
      <3>. QED  BY <3>4 DEF Channel!ChannelNext
    <2>. QED  BY <2>3, <2>4, <2>5 DEF Moves
  <1>. QED  BY <1>4, <1>5, <1>6 DEF Kept

\* Where a step of connection c starts.
LEMMA Before ==
    ASSUME IInv, NEW c \in Conns
    PROVE  /\ Ok(conn[c], posted[c], got[c], sent[c], handled[c])
           /\ conn[c] \in Connection
           /\ posted[c] \in Seq(Texts \cup {CloseFrame}) /\ got[c] \in Seq(Frames)
           /\ sent[c] \in Seq(Texts)
           /\ TextsOf(got[c]) \in Seq(Texts) /\ TextsOf(posted[c]) \in Seq(Texts)
           /\ posted = [posted EXCEPT ![c] = posted[c]]
           /\ got = [got EXCEPT ![c] = got[c]]
           /\ sent = [sent EXCEPT ![c] = sent[c]]
           /\ handled = [handled EXCEPT ![c] = handled[c]]
           /\ Moves(c, sent[c], got[c])
  <1>1. TypeOK /\ Ok(conn[c], posted[c], got[c], sent[c], handled[c])
    BY IInvOk DEF IInv
  <1>2. /\ conn[c] \in Connection
        /\ posted[c] \in Seq(Texts \cup {CloseFrame}) /\ got[c] \in Seq(Frames)
        /\ sent[c] \in Seq(Texts)
    BY <1>1 DEF TypeOK, ConnTypeOK
  <1>3. TextsOf(got[c]) \in Seq(Texts) /\ TextsOf(posted[c]) \in Seq(Texts)
    BY <1>2, TextsType
  <1>4. /\ posted = [posted EXCEPT ![c] = posted[c]]
        /\ got = [got EXCEPT ![c] = got[c]]
        /\ sent = [sent EXCEPT ![c] = sent[c]]
        /\ handled = [handled EXCEPT ![c] = handled[c]]
    BY <1>1 DEF TypeOK, ConnTypeOK
  <1>5. Moves(c, sent[c], got[c])  BY <1>3, BeginsItself DEF Moves
  <1>. QED  BY <1>1, <1>2, <1>3, <1>4, <1>5

LEMMA OkNone ==
    ASSUME NEW h
    PROVE  Ok(NoObject, <<>>, <<>>, <<>>, h)
  <1>1. <<>> \in Seq(Texts)  OBVIOUS
  <1>2. Begins(TextsOf(<<>>), <<>>)  BY <1>1, TextsOfNone, BeginsItself
  <1>. QED  BY <1>2 DEF Ok, NoObject

\* `delete this`, when nothing refers to the object (websocket.h:755-765).
LEMMA Deleted ==
    ASSUME IInv, TypeOK', NEW c \in Conns, NEW r \in Connection,
           DeleteIfIdle(c, r), EndSession(c), handled' = [handled EXCEPT ![c] = TRUE],
           Ok([r EXCEPT !.io = "run"], posted[c], got[c], sent[c], TRUE)
           \/ (r.sendingBuffers = <<>> /\ ~ r.isReading)
    PROVE  Kept
  <1>0. conn \in [Conns -> Connection]  BY DEF IInv, TypeOK, ConnTypeOK
  <1>1. CASE r.sendingBuffers = <<>> /\ ~ r.isReading
    <2>1. /\ conn' = [conn EXCEPT ![c] = NoObject]
          /\ posted' = [posted EXCEPT ![c] = <<>>]
          /\ got' = [got EXCEPT ![c] = <<>>]
      BY <1>1 DEF DeleteIfIdle
    <2>2. ~ (Alive(c))'  BY <1>0, <2>1 DEF Alive, NoObject
    <2>3. sent' = [sent EXCEPT ![c] = <<>>]  BY <2>2 DEF EndSession
    <2>4. Moves(c, <<>>, <<>>)  BY TextsOfNone DEF Moves
    <2>. QED  BY <2>1, <2>3, <2>4, OkNone, OneStep
  <1>2. CASE ~ (r.sendingBuffers = <<>> /\ ~ r.isReading)
    <2>. DEFINE q == [r EXCEPT !.io = "run"]
    <2>1. conn' = [conn EXCEPT ![c] = q] /\ posted' = posted /\ got' = got
      BY <1>2 DEF DeleteIfIdle
    <2>2. q.io = "run"  BY DEF Connection
    <2>3. (Alive(c))'  BY <1>0, <2>1, <2>2 DEF Alive
    <2>4. sent' = [sent EXCEPT ![c] = sent[c]]  BY <2>3 DEF EndSession
    <2>5. Ok(q, posted[c], got[c], sent[c], TRUE)  BY <1>2
    <2>6. posted' = [posted EXCEPT ![c] = posted[c]] /\ got' = [got EXCEPT ![c] = got[c]]
      BY <2>1, Before
    <2>7. Moves(c, sent[c], got[c])  BY Before
    <2>. HIDE DEF q
    <2>. QED  BY <2>1, <2>2, <2>4, <2>5, <2>6, <2>7, OneStep
  <1>. QED  BY <1>1, <1>2

\* check_destroy(): the close handler runs before any deletion.
LEMMA DestroyKept ==
    ASSUME IInv, TypeOK', NEW c \in Conns, NEW r \in Connection,
           CheckDestroy(c, r), EndSession(c), UNCHANGED handled,
           r.closeHandlerCalled => handled[c],
           Ok([r EXCEPT !.io = "run"], posted[c], got[c], sent[c], handled[c])
           \/ ~ r.closeHandlerCalled
           \/ (r.sendingBuffers = <<>> /\ ~ r.isReading),
           Ok([r EXCEPT !.io = "onclose"], posted[c], got[c], sent[c], handled[c])
           \/ r.closeHandlerCalled
    PROVE  Kept
  <1>0. conn \in [Conns -> Connection]  BY DEF IInv, TypeOK, ConnTypeOK
  <1>1. CASE r.closeHandlerCalled
    <2>1. DeleteIfIdle(c, r)  BY <1>1 DEF CheckDestroy
    <2>2. handled[c] = TRUE  BY <1>1 DEF IInv, TypeOK
    <2>3. handled' = [handled EXCEPT ![c] = TRUE]  BY <2>2, Before
    <2>4. Ok([r EXCEPT !.io = "run"], posted[c], got[c], sent[c], TRUE)
          \/ (r.sendingBuffers = <<>> /\ ~ r.isReading)
      BY <1>1, <2>2
    <2>. QED  BY <2>1, <2>3, <2>4, Deleted
  <1>2. CASE ~ r.closeHandlerCalled
    <2>. DEFINE q == [r EXCEPT !.io = "onclose"]
    <2>1. conn' = [conn EXCEPT ![c] = q] /\ posted' = posted /\ got' = got
      BY <1>2 DEF CheckDestroy
    <2>2. q.io = "onclose"  BY DEF Connection
    <2>3. (Alive(c))'  BY <1>0, <2>1, <2>2 DEF Alive
    <2>4. sent' = [sent EXCEPT ![c] = sent[c]]  BY <2>3 DEF EndSession
    <2>5. Ok(q, posted[c], got[c], sent[c], handled[c])  BY <1>2
    <2>6. posted' = [posted EXCEPT ![c] = posted[c]] /\ got' = [got EXCEPT ![c] = got[c]]
          /\ handled' = [handled EXCEPT ![c] = handled[c]]
      BY <2>1, Before
    <2>7. Moves(c, sent[c], got[c])  BY Before
    <2>. HIDE DEF q
    <2>. QED  BY <2>1, <2>2, <2>4, <2>5, <2>6, <2>7, OneStep
  <1>. QED  BY <1>1, <1>2

-----------------------------------------------------------------------------
(* The steps *)

\* A handler that changes the object alone, and does not delete it.
LEMMA ObjectStep ==
    ASSUME IInv, TypeOK', NEW c \in Conns, NEW r,
           conn' = [conn EXCEPT ![c] = r], UNCHANGED <<posted, got, handled>>,
           EndSession(c) \/ UNCHANGED sent,
           r.io # "none",
           Ok(r, posted[c], got[c], sent[c], handled[c])
    PROVE  Kept
  <1>1. /\ posted' = [posted EXCEPT ![c] = posted[c]]
        /\ got' = [got EXCEPT ![c] = got[c]]
        /\ handled' = [handled EXCEPT ![c] = handled[c]]
        /\ sent = [sent EXCEPT ![c] = sent[c]]
    BY Before
  <1>2. (Alive(c))'
    <2>1. conn \in [Conns -> Connection]  BY DEF IInv, TypeOK, ConnTypeOK
    <2>. QED  BY <2>1 DEF Alive
  <1>3. sent' = [sent EXCEPT ![c] = sent[c]]
    <2>1. CASE EndSession(c)
      <3>1. sent' = [sent EXCEPT ![c] = IF ~ (Alive(c))' THEN <<>> ELSE @]
        BY <2>1 DEF EndSession
      <3>. QED  BY <1>2, <3>1
    <2>2. CASE UNCHANGED sent  BY <1>1, <2>2
    <2>. QED  BY <2>1, <2>2
  <1>4. Moves(c, sent[c], got[c])  BY Before
  <1>. QED  BY <1>1, <1>3, <1>4, OneStep

LEMMA OpenKept ==
    ASSUME IInv, TypeOK', NEW c \in Conns, Open(c)
    PROVE  Kept
  <1>. DEFINE r0 == [NoObject EXCEPT !.io = "onopen", !.sock = "up"]
              r == Enqueue(r0, Hello)
  <1>1. ~ Alive(c) /\ Ok(conn[c], posted[c], got[c], sent[c], handled[c])
    BY Before DEF Open, Handshake
  <1>2. sent[c] = <<>> /\ got[c] = <<>> /\ posted[c] = <<>>  BY <1>1 DEF Ok, Alive
  <1>3. r0 \in Connection /\ Hello \in Frames
    BY ObjectTypes DEF Connection, IoStates, Frames, NoObject
  <1>4. r0.io = "onopen" /\ r0.sock = "up" /\ ~ r0.isReading /\ ~ r0.recvClose
        /\ ~ r0.closeHandlerCalled /\ r0.writeBuffers = <<>> /\ r0.sendingBuffers = <<>>
        /\ ~ r0.flushed
    BY DEF NoObject
  <1>5. Pending(r0) = <<>>
    <2>1. <<>> \o <<>> = <<>>  OBVIOUS
    <2>. QED  BY <1>4, <2>1, TextsOfNone DEF Pending
  <1>. HIDE DEF r0
  <1>6. /\ r.io = "onopen" /\ r.sock = "up" /\ ~ r.isReading
        /\ ~ r.recvClose /\ ~ r.closeHandlerCalled
    BY <1>3, <1>4, EnqueueKeeps
  <1>7. Pending(r) = <<>>
    <2>1. TextsOf(<<Hello>>) = <<>>  BY TextsOfOne, TextsAssumption
    <2>2. <<>> \o <<>> = <<>>  OBVIOUS
    <2>. QED  BY <1>3, <1>5, <2>1, <2>2, PendingEnqueue
  <1>8. conn' = [conn EXCEPT ![c] = r] /\ UNCHANGED <<posted, got, sent>>
        /\ handled' = [handled EXCEPT ![c] = FALSE]
    BY DEF Open, Handshake, r0
  <1>. HIDE DEF r
  <1>9. Ok(r, <<>>, <<>>, <<>>, FALSE)
    <2>1. <<>> \in Seq(Texts) /\ <<>> \o (<<>> \o <<>>) = <<>>  OBVIOUS
    <2>2. Begins(<<>>, <<>>)  BY <2>1, BeginsItself
    <2>. QED  BY <1>6, <1>7, <2>1, <2>2, TextsOfNone DEF Ok
  <1>. QED  BY <1>1, <1>2, <1>6, <1>8, <1>9, Before, OneStep

LEMMA OpenHandlerReturnsKept ==
    ASSUME IInv, TypeOK', NEW c \in Conns, OpenHandlerReturns(c)
    PROVE  Kept
  <1>. DEFINE r == [conn[c] EXCEPT !.io = "run", !.isReading = TRUE]
  <1>0. conn[c] \in Connection /\ Ok(conn[c], posted[c], got[c], sent[c], handled[c])
    BY Before
  <1>1. /\ conn' = [conn EXCEPT ![c] = r] /\ UNCHANGED <<posted, got, sent, handled>>
        /\ conn[c].io = "onopen"
    BY DEF OpenHandlerReturns, StartReading
  <1>2. /\ r.io = "run" /\ r.sock = conn[c].sock /\ r.recvClose = conn[c].recvClose
        /\ r.closeHandlerCalled = conn[c].closeHandlerCalled
        /\ r.sendingBuffers = conn[c].sendingBuffers /\ r.flushed = conn[c].flushed
        /\ r.writeBuffers = conn[c].writeBuffers
    BY <1>0 DEF Connection
  <1>. HIDE DEF r
  <1>3. Pending(r) = Pending(conn[c])  BY <1>2 DEF Pending
  <1>4. Ok(r, posted[c], got[c], sent[c], handled[c])
    BY <1>0, <1>1, <1>2, <1>3 DEF Ok, Connected
  <1>. QED  BY <1>1, <1>2, <1>4, ObjectStep

LEMMA SendTextKept ==
    ASSUME IInv, TypeOK', NEW c \in Conns, NEW text \in Texts, SendText(c, text)
    PROVE  Kept
  <1>. DEFINE p == Append(posted[c], text)
              s == Append(sent[c], text)
  <1>0. /\ conn[c] \in Connection /\ Ok(conn[c], posted[c], got[c], sent[c], handled[c])
        /\ sent[c] \in Seq(Texts) /\ TextsOf(got[c]) \in Seq(Texts)
        /\ TextsOf(posted[c]) \in Seq(Texts)
        /\ posted[c] \in Seq(Texts \cup {CloseFrame})
    BY Before
  <1>1. /\ UNCHANGED <<conn, got, handled>> /\ conn[c].io # "none"
        /\ posted' = [posted EXCEPT ![c] = p] /\ sent' = [sent EXCEPT ![c] = s]
    BY DEF SendText, Post, Alive
  <1>2. TextsOf(p) = Append(TextsOf(posted[c]), text)
    BY <1>0, TextsOfAppend
  <1>3. ASSUME sent[c] = TextsOf(got[c]) \o (Pending(conn[c]) \o TextsOf(posted[c]))
        PROVE  s = TextsOf(got[c]) \o (Pending(conn[c]) \o TextsOf(p))
    <2>1. ASSUME NEW A \in Seq(Texts), NEW B \in Seq(Texts)
          PROVE  A \o Append(B, text) = Append(A \o B, text)
      OBVIOUS
    <2>2. Pending(conn[c]) \in Seq(Texts)  BY <1>0, PendingType
    <2>3. Pending(conn[c]) \o TextsOf(posted[c]) \in Seq(Texts)
      BY <1>0, <2>2, ConcatProperties
    <2>4. Pending(conn[c]) \o TextsOf(p)
            = Append(Pending(conn[c]) \o TextsOf(posted[c]), text)
      <3>. HIDE DEF p
      <3>. QED  BY <1>0, <1>2, <2>1, <2>2
    <2>5. TextsOf(got[c]) \o Append(Pending(conn[c]) \o TextsOf(posted[c]), text)
            = Append(sent[c], text)
      BY <1>0, <1>3, <2>1, <2>3
    <2>. HIDE DEF p
    <2>. QED  BY <2>4, <2>5
  <1>4. Begins(TextsOf(got[c]), s)  BY <1>0, BeginsAppend DEF Ok
  <1>5. Moves(c, s, got[c])  BY DEF Moves
  <1>. HIDE DEF p, s
  <1>6. Ok(conn[c], p, got[c], s, handled[c])  BY <1>0, <1>1, <1>3, <1>4 DEF Ok
  <1>7. conn' = [conn EXCEPT ![c] = conn[c]]  BY <1>1 DEF IInv, TypeOK, ConnTypeOK
  <1>. QED  BY <1>1, <1>5, <1>6, <1>7, Before, OneStep

LEMMA CloseKept ==
    ASSUME IInv, TypeOK', NEW c \in Conns, Close(c)
    PROVE  Kept
  <1>. DEFINE p == Append(posted[c], CloseFrame)
  <1>0. /\ Ok(conn[c], posted[c], got[c], sent[c], handled[c])
        /\ posted[c] \in Seq(Texts \cup {CloseFrame})
    BY Before
  <1>1. /\ UNCHANGED <<conn, got, sent, handled>> /\ conn[c].io # "none"
        /\ posted' = [posted EXCEPT ![c] = p]
    BY DEF Close, Post, Alive
  <1>2. TextsOf(p) = TextsOf(posted[c])
    <2>1. CloseFrame \notin Texts  BY TextsAssumption
    <2>. QED  BY <1>0, <2>1, TextsOfAppend
  <1>. HIDE DEF p
  <1>3. Ok(conn[c], p, got[c], sent[c], handled[c])  BY <1>0, <1>1, <1>2 DEF Ok
  <1>4. conn' = [conn EXCEPT ![c] = conn[c]]  BY <1>1 DEF IInv, TypeOK, ConnTypeOK
  <1>5. /\ got' = [got EXCEPT ![c] = got[c]]
        /\ sent' = [sent EXCEPT ![c] = sent[c]]
        /\ handled' = [handled EXCEPT ![c] = handled[c]]
        /\ Moves(c, sent[c], got[c])
    BY <1>1, Before
  <1>. QED  BY <1>1, <1>3, <1>4, <1>5, OneStep

\* The close handler returned: from now on handled[c] says that it ran.
LEMMA CloseHandlerKept ==
    ASSUME IInv, TypeOK', NEW c \in Conns, CloseHandler(c)
    PROVE  Kept
  <1>0. conn[c] \in Connection /\ Ok(conn[c], posted[c], got[c], sent[c], handled[c])
    BY Before
  <1>1. /\ handled' = [handled EXCEPT ![c] = TRUE] /\ EndSession(c)
        /\ CloseHandlerReturns(c)
    BY DEF CloseHandler
  <1>2. CASE conn[c].io = "onclose" /\ DeleteIfIdle(c, conn[c])
    <2>. DEFINE q == [conn[c] EXCEPT !.io = "run"]
    <2>1. /\ q.io = "run" /\ q.sock = conn[c].sock /\ q.recvClose = conn[c].recvClose
          /\ q.closeHandlerCalled = conn[c].closeHandlerCalled
          /\ q.isReading = conn[c].isReading
          /\ q.sendingBuffers = conn[c].sendingBuffers /\ q.flushed = conn[c].flushed
          /\ q.writeBuffers = conn[c].writeBuffers
      BY <1>0 DEF Connection
    <2>2. CASE ~ (conn[c].sendingBuffers = <<>> /\ ~ conn[c].isReading)
      <3>. HIDE DEF q
      <3>1. Pending(q) = Pending(conn[c])  BY <2>1 DEF Pending
      <3>2. Ok(q, posted[c], got[c], sent[c], TRUE)
        BY <1>0, <1>2, <2>1, <2>2, <3>1 DEF Ok, Connected
      <3>3. Ok([conn[c] EXCEPT !.io = "run"], posted[c], got[c], sent[c], TRUE)
        BY <3>2 DEF q
      <3>4. Ok([conn[c] EXCEPT !.io = "run"], posted[c], got[c], sent[c], TRUE)
            \/ (conn[c].sendingBuffers = <<>> /\ ~ conn[c].isReading)
        BY <3>3
      <3>. QED  BY <1>0, <1>1, <1>2, <3>4, Deleted
    <2>. HIDE DEF q
    <2>. QED  BY <1>0, <1>1, <1>2, <2>2, Deleted
  <1>3. CASE conn[c].io = "oncloseReply"
    <2>. DEFINE w == WriteClose(conn[c])
                r == [w EXCEPT !.closeConnection = TRUE,
                               !.sock = IF @ = "down" THEN "down" ELSE "shut"]
                q == [r EXCEPT !.io = "run"]
    <2>1. DeleteIfIdle(c, r)  BY <1>1, <1>3 DEF CloseHandlerReturns
    <2>2. /\ w \in Connection /\ Pending(w) = Pending(conn[c])
          /\ w.sock = conn[c].sock /\ w.recvClose = conn[c].recvClose
          /\ w.closeHandlerCalled = conn[c].closeHandlerCalled
          /\ w.isReading = conn[c].isReading
      <3>1. CloseFrame \in Frames  BY DEF Frames
      <3>. QED  BY <1>0, <3>1, HelperTypes, PendingClose, EnqueueKeeps DEF WriteClose
    <2>. HIDE DEF w
    <2>3. r \in Connection  BY <2>2 DEF Connection
    <2>4. /\ q.io = "run" /\ q.sock = (IF w.sock = "down" THEN "down" ELSE "shut")
          /\ q.recvClose = w.recvClose /\ q.closeHandlerCalled = w.closeHandlerCalled
          /\ q.isReading = w.isReading
          /\ q.sendingBuffers = w.sendingBuffers /\ q.flushed = w.flushed
          /\ q.writeBuffers = w.writeBuffers
      BY <2>2 DEF Connection
    <2>5. Ok(q, posted[c], got[c], sent[c], TRUE)
      <3>. HIDE DEF r, q
      <3>1. Pending(q) = Pending(conn[c])  BY <2>2, <2>4 DEF Pending
      <3>2. Connected(q) => Connected(conn[c])
        BY <1>3, <2>2, <2>4 DEF Connected
      <3>. QED  BY <1>0, <1>3, <2>2, <2>4, <3>1, <3>2 DEF Ok
    <2>6. Ok([r EXCEPT !.io = "run"], posted[c], got[c], sent[c], TRUE)
      BY <2>5
    <2>7. Ok([r EXCEPT !.io = "run"], posted[c], got[c], sent[c], TRUE)
          \/ (r.sendingBuffers = <<>> /\ ~ r.isReading)
      BY <2>6
    <2>. HIDE DEF r, q
    <2>. QED  BY <1>1, <2>1, <2>3, <2>7, Deleted
  <1>. QED  BY <1>1, <1>2, <1>3 DEF CloseHandlerReturns

\* A posted task becomes a frame of write_buffers_.
LEMMA RunPostedKept ==
    ASSUME IInv, TypeOK', NEW c \in Conns, RunPosted(c), EndSession(c), UNCHANGED handled
    PROVE  Kept
  <1>. DEFINE f == Head(posted[c])
              p == Tail(posted[c])
              r0 == [conn[c] EXCEPT !.sentClose = TRUE]
              r == IF f = CloseFrame THEN WriteClose(r0) ELSE Enqueue(conn[c], f)
  <1>0. /\ conn[c] \in Connection /\ Ok(conn[c], posted[c], got[c], sent[c], handled[c])
        /\ posted[c] \in Seq(Texts \cup {CloseFrame})
        /\ TextsOf(got[c]) \in Seq(Texts)
    BY Before
  <1>1. /\ conn[c].io = "run" /\ posted[c] # <<>> /\ got' = got
        /\ posted' = [posted EXCEPT ![c] = p] /\ conn' = [conn EXCEPT ![c] = r]
    BY DEF RunPosted
  <1>2. f \in Texts \cup {CloseFrame} /\ f \in Frames /\ CloseFrame \in Frames
        /\ p \in Seq(Texts \cup {CloseFrame})
    BY <1>0, <1>1 DEF Frames
  <1>3. TextsOf(posted[c]) = TextsOf(<<f>>) \o TextsOf(p)
    BY <1>0, <1>1, TextsOfHeadTail
  <1>. HIDE DEF f, p
  <1>4. /\ r0 \in Connection /\ Pending(r0) = Pending(conn[c])
        /\ r0.io = conn[c].io /\ r0.sock = conn[c].sock
        /\ r0.isReading = conn[c].isReading /\ r0.recvClose = conn[c].recvClose
        /\ r0.closeHandlerCalled = conn[c].closeHandlerCalled
    <2>1. /\ r0.sendingBuffers = conn[c].sendingBuffers /\ r0.flushed = conn[c].flushed
          /\ r0.writeBuffers = conn[c].writeBuffers
      BY <1>0 DEF Connection
    <2>2. Pending(r0) = Pending(conn[c])
      <3>. HIDE DEF r0
      <3>. QED  BY <2>1 DEF Pending
    <2>. QED  BY <1>0, <2>2 DEF Connection
  <1>. HIDE DEF r0
  <1>5. /\ r.io = "run" /\ r.sock = conn[c].sock
        /\ r.isReading = conn[c].isReading /\ r.recvClose = conn[c].recvClose
        /\ r.closeHandlerCalled = conn[c].closeHandlerCalled
    BY <1>0, <1>1, <1>2, <1>4, EnqueueKeeps DEF WriteClose
  <1>6. Pending(r) = Pending(conn[c]) \o TextsOf(<<f>>)
    <2>1. CASE f = CloseFrame
      BY <1>2, <1>4, <2>1, PendingEnqueue DEF WriteClose
    <2>2. CASE f # CloseFrame  BY <1>0, <1>2, <2>2, PendingEnqueue
    <2>. QED  BY <2>1, <2>2
  <1>. HIDE DEF r
  <1>7. Pending(conn[c]) \o TextsOf(posted[c]) = Pending(r) \o TextsOf(p)
    <2>1. <<f>> \in Seq(Frames)  BY <1>2
    <2>2. TextsOf(<<f>>) \in Seq(Texts) /\ TextsOf(p) \in Seq(Texts)
      BY <1>2, <2>1, TextsType
    <2>3. Pending(conn[c]) \in Seq(Texts)  BY <1>0, PendingType
    <2>4. (Pending(conn[c]) \o TextsOf(<<f>>)) \o TextsOf(p)
            = Pending(conn[c]) \o (TextsOf(<<f>>) \o TextsOf(p))
      BY <2>2, <2>3, Assoc
    <2>. QED  BY <1>3, <1>6, <2>4
  <1>8. Ok(r, p, got[c], sent[c], handled[c])
    BY <1>0, <1>1, <1>5, <1>7 DEF Ok, Connected
  <1>9. /\ got' = [got EXCEPT ![c] = got[c]] /\ handled' = [handled EXCEPT ![c] = handled[c]]
        /\ sent = [sent EXCEPT ![c] = sent[c]] /\ Moves(c, sent[c], got[c])
    BY <1>1, Before
  <1>10. sent' = [sent EXCEPT ![c] = sent[c]]
    <2>1. (Alive(c))'
      <3>1. conn \in [Conns -> Connection]  BY DEF IInv, TypeOK, ConnTypeOK
      <3>. QED  BY <1>1, <1>5, <3>1 DEF Alive
    <2>. QED  BY <1>9, <2>1 DEF EndSession
  <1>. QED  BY <1>1, <1>5, <1>8, <1>9, <1>10, OneStep

\* The peer receives what was in flight.
LEMMA DeliverKept ==
    ASSUME IInv, TypeOK', NEW c \in Conns, Deliver(c), EndSession(c), UNCHANGED handled
    PROVE  Kept
  <1>. DEFINE r == [conn[c] EXCEPT !.flushed = TRUE]
              g == got[c] \o conn[c].sendingBuffers
              A == TextsOf(got[c])
              B == TextsOf(conn[c].sendingBuffers)
              W == TextsOf(conn[c].writeBuffers)
              P == TextsOf(posted[c])
  <1>0. /\ conn[c] \in Connection /\ Ok(conn[c], posted[c], got[c], sent[c], handled[c])
        /\ got[c] \in Seq(Frames) /\ A \in Seq(Texts) /\ P \in Seq(Texts)
    BY Before
  <1>1. /\ conn[c].io # "none" /\ conn[c].sendingBuffers # <<>> /\ ~ conn[c].flushed
        /\ conn[c].sock # "down" /\ posted' = posted
        /\ conn' = [conn EXCEPT ![c] = r] /\ got' = [got EXCEPT ![c] = g]
    BY DEF Deliver, Alive
  <1>2. /\ r.io = conn[c].io /\ r.sock = conn[c].sock /\ r.isReading = conn[c].isReading
        /\ r.recvClose = conn[c].recvClose /\ r.flushed
        /\ r.closeHandlerCalled = conn[c].closeHandlerCalled
        /\ r.sendingBuffers = conn[c].sendingBuffers
        /\ r.writeBuffers = conn[c].writeBuffers
    BY <1>0 DEF Connection
  <1>3. TextsOf(g) = A \o B
    <2>1. conn[c].sendingBuffers \in Seq(Frames)  BY <1>0 DEF Connection
    <2>. QED  BY <1>0, <2>1, TextsOfConcat
  <1>. HIDE DEF r, g
  <1>4. Pending(conn[c]) = B \o W /\ Pending(r) = <<>> \o W
    BY <1>1, <1>2 DEF Pending
  <1>5. B \in Seq(Texts) /\ W \in Seq(Texts)  BY <1>0, PendingType
  <1>6. sent[c] = A \o ((B \o W) \o P)
    BY <1>0, <1>1, <1>4 DEF Ok, Connected
  <1>p. A \in Seq(Texts) /\ P \in Seq(Texts)  BY <1>0
  <1>. HIDE DEF A, B, W, P
  <1>7. W \o P \in Seq(Texts) /\ A \o B \in Seq(Texts)  BY <1>p, <1>5, ConcatProperties
  <1>8. sent[c] = (A \o B) \o (W \o P)
    <2>1. (B \o W) \o P = B \o (W \o P)  BY <1>p, <1>5, Assoc
    <2>2. A \in Seq(Texts) /\ B \in Seq(Texts) /\ W \o P \in Seq(Texts)
      BY <1>p, <1>5, <1>7
    <2>3. A \o (B \o (W \o P)) = (A \o B) \o (W \o P)  BY <2>2, Assoc
    <2>. QED  BY <1>6, <2>1, <2>3
  <1>9. <<>> \o W = W  BY <1>5, ConcatEmptySeq
  <1>10. Begins(TextsOf(g), sent[c])
    <2>1. Begins(A \o B, (A \o B) \o (W \o P))  BY <1>7, BeginsConcat
    <2>. QED  BY <1>3, <1>8, <2>1
  <1>11. Ok(r, posted[c], g, sent[c], handled[c])
    <2>1. sent[c] = TextsOf(g) \o (Pending(r) \o TextsOf(posted[c]))
      BY <1>3, <1>4, <1>8, <1>9 DEF P
    <2>. QED  BY <1>0, <1>1, <1>2, <1>10, <2>1 DEF Ok
  <1>12. Moves(c, sent[c], g)
    <2>1. Begins(A, A \o B)  BY <1>0, <1>5, BeginsConcat
    <2>. QED  BY <1>3, <2>1 DEF Moves, A
  <1>13. /\ posted' = [posted EXCEPT ![c] = posted[c]]
         /\ handled' = [handled EXCEPT ![c] = handled[c]]
         /\ sent = [sent EXCEPT ![c] = sent[c]]
    BY <1>1, Before
  <1>14. sent' = [sent EXCEPT ![c] = sent[c]]
    <2>1. (Alive(c))'
      <3>1. conn \in [Conns -> Connection]  BY DEF IInv, TypeOK, ConnTypeOK
      <3>. QED  BY <1>1, <1>2, <3>1 DEF Alive
    <2>. QED  BY <1>13, <2>1 DEF EndSession
  <1>. QED  BY <1>1, <1>2, <1>11, <1>12, <1>13, <1>14, OneStep

\* A write is complete: what it carried is with the peer, or the peer is gone.
LEMMA Written ==
    ASSUME NEW r \in Connection, r.flushed
    PROVE  Pending([r EXCEPT !.sendingBuffers = <<>>]) = Pending(r)
  <1>. DEFINE q == [r EXCEPT !.sendingBuffers = <<>>]
  <1>1. q.sendingBuffers = <<>> /\ q.flushed /\ q.writeBuffers = r.writeBuffers
    BY DEF Connection
  <1>. HIDE DEF q
  <1>2. Pending(q) = Pending(r)  BY <1>1 DEF Pending
  <1>. QED  BY <1>2 DEF q

LEMMA WriteDoneKept ==
    ASSUME IInv, TypeOK', NEW c \in Conns, WriteDone(c), EndSession(c), UNCHANGED handled
    PROVE  Kept
  <1>. DEFINE r == [conn[c] EXCEPT !.sendingBuffers = <<>>]
              w == IF r.writeBuffers # <<>> THEN DoWrite(r) ELSE r
              q == [w EXCEPT !.closeConnection = r.sentClose]
  <1>0. conn[c] \in Connection /\ Ok(conn[c], posted[c], got[c], sent[c], handled[c])
    BY Before
  <1>1. /\ conn[c].io = "run" /\ UNCHANGED <<posted, got>>
        /\ conn[c].flushed \/ conn[c].sock = "down"
        /\ conn' = [conn EXCEPT ![c] = q]
    BY DEF WriteDone
  <1>2. /\ r \in Connection /\ r.io = "run" /\ r.sock = conn[c].sock
        /\ r.isReading = conn[c].isReading /\ r.recvClose = conn[c].recvClose
        /\ r.closeHandlerCalled = conn[c].closeHandlerCalled
    BY <1>0, <1>1, Buffers DEF Connection
  <1>3. conn[c].flushed => Pending(r) = Pending(conn[c])  BY <1>0, Written
  <1>. HIDE DEF r
  <1>4. /\ w \in Connection /\ Pending(w) = Pending(r) /\ w.io = "run"
        /\ w.sock = conn[c].sock /\ w.isReading = conn[c].isReading
        /\ w.recvClose = conn[c].recvClose
        /\ w.closeHandlerCalled = conn[c].closeHandlerCalled
    <2>1. CASE r.writeBuffers # <<>>
      <3>1. w = DoWrite(r)  BY <2>1
      <3>2. DoWrite(r) \in Connection
        BY <1>2, HelperTypes, ObjectTypes DEF Frames
      <3>3. Pending(DoWrite(r)) = Pending(r)  BY <1>2, PendingDoWrite
      <3>4. /\ DoWrite(r).io = r.io /\ DoWrite(r).sock = r.sock
            /\ DoWrite(r).isReading = r.isReading /\ DoWrite(r).recvClose = r.recvClose
            /\ DoWrite(r).closeHandlerCalled = r.closeHandlerCalled
        BY <1>2 DEF DoWrite, Connection
      <3>. HIDE DEF w
      <3>. QED  BY <1>2, <3>1, <3>2, <3>3, <3>4
    <2>2. CASE r.writeBuffers = <<>>  BY <1>2, <2>2
    <2>. QED  BY <2>1, <2>2
  <1>. HIDE DEF w
  <1>5. /\ q.io = "run" /\ q.sock = conn[c].sock /\ q.isReading = conn[c].isReading
        /\ q.recvClose = conn[c].recvClose
        /\ q.closeHandlerCalled = conn[c].closeHandlerCalled
        /\ q.sendingBuffers = w.sendingBuffers /\ q.flushed = w.flushed
        /\ q.writeBuffers = w.writeBuffers
    BY <1>4 DEF Connection
  <1>. HIDE DEF q
  <1>6. Pending(q) = Pending(w)  BY <1>5 DEF Pending
  <1>7. Ok(q, posted[c], got[c], sent[c], handled[c])
    <2>1. CASE conn[c].flushed
      <3>1. Pending(q) = Pending(conn[c])  BY <1>3, <1>4, <1>6, <2>1
      <3>. QED  BY <1>0, <1>1, <1>5, <3>1 DEF Ok, Connected
    <2>2. CASE conn[c].sock = "down"
      BY <1>0, <1>1, <1>5, <2>2 DEF Ok, Connected
    <2>. QED  BY <1>1, <2>1, <2>2
  <1>. QED  BY <1>1, <1>5, <1>7, ObjectStep

\* The last write is complete, or failed: nothing more is sent.
LEMMA WriteDoneClosingKept ==
    ASSUME IInv, TypeOK', NEW c \in Conns, WriteDoneClosing(c), EndSession(c),
           UNCHANGED handled
    PROVE  Kept
  <1>. DEFINE r == [conn[c] EXCEPT !.sendingBuffers = <<>>, !.closeConnection = TRUE]
  <1>0. conn[c] \in Connection /\ Ok(conn[c], posted[c], got[c], sent[c], handled[c])
    BY Before
  <1>1. /\ conn[c].io = "run" /\ CheckDestroy(c, r)
        /\ conn[c].flushed \/ conn[c].sock # "up"
    BY DEF WriteDoneClosing
  <1>s. conn[c].sock \in {"up", "shut", "down"}  BY <1>0 DEF Connection
  <1>2. /\ r \in Connection /\ r.sock = conn[c].sock /\ r.isReading = conn[c].isReading
        /\ r.recvClose = conn[c].recvClose /\ r.sendingBuffers = <<>>
        /\ r.closeHandlerCalled = conn[c].closeHandlerCalled
        /\ r.writeBuffers = conn[c].writeBuffers /\ r.flushed = conn[c].flushed
    BY <1>0, Buffers DEF Connection
  <1>. HIDE DEF r
  <1>3. r.flushed => Pending(r) = Pending(conn[c])
    BY <1>2, TextsOfNone DEF Pending
  <1>4. ASSUME NEW io \in {"run", "onclose"}, r.closeHandlerCalled <=> io = "run",
               r.isReading \/ io = "onclose"
        PROVE  Ok([r EXCEPT !.io = io], posted[c], got[c], sent[c], handled[c])
    <2>. DEFINE q == [r EXCEPT !.io = io]
    <2>1. /\ q.io = io /\ q.sock = r.sock /\ q.isReading = r.isReading
          /\ q.recvClose = r.recvClose /\ q.closeHandlerCalled = r.closeHandlerCalled
          /\ q.sendingBuffers = r.sendingBuffers /\ q.writeBuffers = r.writeBuffers
          /\ q.flushed = r.flushed
      BY <1>2 DEF Connection
    <2>. HIDE DEF q
    <2>2. Pending(q) = Pending(r)  BY <2>1 DEF Pending
    <2>3. Connected(q) => q.flushed /\ q.sock # "down"
      <3>1. Connected(q) => q.isReading /\ q.sock # "down"
        BY <1>2, <1>4, <2>1 DEF Connected
      <3>2. q.isReading => q.sock # "shut"  BY <1>0, <1>2, <2>1 DEF Ok
      <3>. QED  BY <1>1, <1>s, <1>2, <2>1, <3>1, <3>2
    <2>4. Ok(q, posted[c], got[c], sent[c], handled[c])
      BY <1>0, <1>1, <1>2, <1>3, <1>4, <2>1, <2>2, <2>3 DEF Ok, Connected
    <2>. QED  BY <2>4 DEF q
  <1>5. r.closeHandlerCalled => handled[c]  BY <1>0, <1>1, <1>2 DEF Ok
  <1>6. r.closeHandlerCalled /\ r.isReading =>
           Ok([r EXCEPT !.io = "run"], posted[c], got[c], sent[c], handled[c])
    BY <1>4
  <1>7. ~ r.closeHandlerCalled =>
           Ok([r EXCEPT !.io = "onclose"], posted[c], got[c], sent[c], handled[c])
    BY <1>4
  <1>. QED  BY <1>1, <1>2, <1>5, <1>6, <1>7, DestroyKept

LEMMA ReadErrorKept ==
    ASSUME IInv, TypeOK', NEW c \in Conns, ReadError(c), EndSession(c), UNCHANGED handled
    PROVE  Kept
  <1>. DEFINE r == [conn[c] EXCEPT !.isReading = FALSE, !.closeConnection = TRUE]
  <1>0. conn[c] \in Connection /\ Ok(conn[c], posted[c], got[c], sent[c], handled[c])
    BY Before
  <1>1. conn[c].io = "run" /\ conn[c].sock = "down" /\ CheckDestroy(c, r)
    BY DEF ReadError
  <1>2. /\ r \in Connection /\ r.sock = "down" /\ ~ r.isReading
        /\ r.recvClose = conn[c].recvClose
        /\ r.closeHandlerCalled = conn[c].closeHandlerCalled
    BY <1>0, <1>1 DEF Connection
  <1>. HIDE DEF r
  <1>3. ASSUME NEW io \in {"run", "onclose"}
        PROVE  Ok([r EXCEPT !.io = io], posted[c], got[c], sent[c], handled[c])
    <2>. DEFINE q == [r EXCEPT !.io = io]
    <2>1. /\ q.io = io /\ q.sock = "down" /\ ~ q.isReading
          /\ q.recvClose = r.recvClose /\ q.closeHandlerCalled = r.closeHandlerCalled
      BY <1>2 DEF Connection
    <2>. HIDE DEF q
    <2>2. Ok(q, posted[c], got[c], sent[c], handled[c])
      BY <1>0, <1>1, <1>2, <2>1 DEF Ok, Connected
    <2>. QED  BY <2>2 DEF q
  <1>4. r.closeHandlerCalled => handled[c]  BY <1>0, <1>1, <1>2 DEF Ok
  <1>5. /\ Ok([r EXCEPT !.io = "run"], posted[c], got[c], sent[c], handled[c])
        /\ Ok([r EXCEPT !.io = "onclose"], posted[c], got[c], sent[c], handled[c])
    BY <1>3
  <1>. QED  BY <1>1, <1>2, <1>4, <1>5, DestroyKept

\* The peer closes, answers a close, or vanishes.
LEMMA PeerKept ==
    ASSUME IInv, TypeOK', NEW c \in Conns, Peer(c)
    PROVE  Kept
  <1>0. conn[c] \in Connection /\ Ok(conn[c], posted[c], got[c], sent[c], handled[c])
    BY Before
  <1>1. EndSession(c) /\ UNCHANGED handled  BY DEF Peer
  <1>2. CASE RecvClose(c)
    <2>. DEFINE r == [conn[c] EXCEPT !.recvClose = TRUE, !.sentClose = TRUE,
                                     !.isReading = FALSE,
                                     !.closeHandlerCalled = TRUE,
                                     !.io = "oncloseReply"]
    <2>1. /\ conn' = [conn EXCEPT ![c] = r] /\ UNCHANGED <<posted, got>>
          /\ conn[c].io = "run" /\ conn[c].isReading /\ conn[c].sock = "up"
      BY <1>2 DEF RecvClose, Receiving
    <2>2. /\ r.io = "oncloseReply" /\ r.sock = conn[c].sock /\ ~ r.isReading
          /\ r.closeHandlerCalled
          /\ r.sendingBuffers = conn[c].sendingBuffers
          /\ r.writeBuffers = conn[c].writeBuffers /\ r.flushed = conn[c].flushed
      BY <1>0 DEF Connection
    <2>. HIDE DEF r
    <2>3. Pending(r) = Pending(conn[c])  BY <2>2 DEF Pending
    <2>4. Ok(r, posted[c], got[c], sent[c], handled[c])
      BY <1>0, <2>1, <2>2, <2>3 DEF Ok, Connected
    <2>. QED  BY <1>1, <2>1, <2>2, <2>4, ObjectStep
  <1>3. CASE RecvCloseReply(c)
    <2>. DEFINE r == [conn[c] EXCEPT !.recvClose = TRUE, !.isReading = FALSE,
                                     !.closeConnection = TRUE, !.sock = "shut"]
    <2>1. /\ conn[c].io = "run" /\ conn[c].isReading /\ conn[c].sock = "up"
          /\ IF r.closeHandlerCalled THEN DeleteIfIdle(c, r)
             ELSE /\ conn' = [conn EXCEPT ![c] =
                         [r EXCEPT !.closeHandlerCalled = TRUE, !.io = "onclose"]]
                  /\ UNCHANGED <<posted, got>>
      BY <1>3 DEF RecvCloseReply, Receiving
    <2>2. /\ r \in Connection /\ r.sock = "shut" /\ ~ r.isReading /\ r.recvClose
          /\ r.closeHandlerCalled = conn[c].closeHandlerCalled
          /\ r.sendingBuffers = conn[c].sendingBuffers
          /\ r.writeBuffers = conn[c].writeBuffers /\ r.flushed = conn[c].flushed
      BY <1>0 DEF Connection
    <2>. HIDE DEF r
    <2>3. CASE r.closeHandlerCalled
      <3>. DEFINE q == [r EXCEPT !.io = "run"]
      <3>1. /\ q.io = "run" /\ q.sock = "shut" /\ ~ q.isReading
            /\ q.closeHandlerCalled
            /\ q.sendingBuffers = conn[c].sendingBuffers
            /\ q.writeBuffers = conn[c].writeBuffers /\ q.flushed = conn[c].flushed
        BY <2>2, <2>3 DEF Connection
      <3>2. Ok(q, posted[c], got[c], sent[c], handled[c])
        <4>. HIDE DEF q
        <4>1. Pending(q) = Pending(conn[c])  BY <3>1 DEF Pending
        <4>. QED  BY <1>0, <2>1, <2>2, <2>3, <3>1, <4>1 DEF Ok, Connected
      <3>3. handled[c] = TRUE  BY <1>0, <2>1, <2>2, <2>3 DEF Ok, IInv, TypeOK
      <3>4. handled' = [handled EXCEPT ![c] = TRUE]  BY <1>1, <3>3, Before
      <3>5. Ok([r EXCEPT !.io = "run"], posted[c], got[c], sent[c], TRUE)
        BY <3>2, <3>3
      <3>. HIDE DEF q
      <3>. QED  BY <1>1, <2>1, <2>2, <2>3, <3>4, <3>5, Deleted
    <2>4. CASE ~ r.closeHandlerCalled
      <3>. DEFINE q == [r EXCEPT !.closeHandlerCalled = TRUE, !.io = "onclose"]
      <3>1. conn' = [conn EXCEPT ![c] = q] /\ UNCHANGED <<posted, got>>
        BY <2>1, <2>4
      <3>2. /\ q.io = "onclose" /\ q.sock = "shut" /\ ~ q.isReading
            /\ q.closeHandlerCalled
            /\ q.sendingBuffers = conn[c].sendingBuffers
            /\ q.writeBuffers = conn[c].writeBuffers /\ q.flushed = conn[c].flushed
        BY <2>2 DEF Connection
      <3>. HIDE DEF q
      <3>3. Pending(q) = Pending(conn[c])  BY <3>2 DEF Pending
      <3>4. Ok(q, posted[c], got[c], sent[c], handled[c])
        BY <1>0, <2>1, <3>2, <3>3 DEF Ok, Connected
      <3>. QED  BY <1>1, <3>1, <3>2, <3>4, ObjectStep
    <2>. QED  BY <2>3, <2>4
  <1>4. CASE PeerGone(c)
    <2>. DEFINE r == [conn[c] EXCEPT !.sock = "down"]
    <2>1. /\ conn' = [conn EXCEPT ![c] = r] /\ UNCHANGED <<posted, got>>
          /\ conn[c].io # "none"
      BY <1>4 DEF PeerGone, Alive
    <2>2. /\ r.io = conn[c].io /\ r.sock = "down" /\ r.isReading = conn[c].isReading
          /\ r.recvClose = conn[c].recvClose
          /\ r.closeHandlerCalled = conn[c].closeHandlerCalled
      BY <1>0 DEF Connection
    <2>. HIDE DEF r
    <2>3. Ok(r, posted[c], got[c], sent[c], handled[c])
      BY <1>0, <2>1, <2>2 DEF Ok, Connected
    <2>. QED  BY <1>1, <2>1, <2>2, <2>3, ObjectStep
  <1>. QED  BY <1>2, <1>3, <1>4 DEF Peer

-----------------------------------------------------------------------------
(* The theorems *)

LEMMA InitHolds == Init => IInv
  <1>. SUFFICES ASSUME Init PROVE IInv  OBVIOUS
  <1>1. <<>> \in Seq(Texts \cup {CloseFrame}) /\ <<>> \in Seq(Frames) /\ <<>> \in Seq(Texts)
        /\ 0 \in 0 .. MaxCalls
    BY MaxCallsAssumption
  <1>2. TypeOK
    BY <1>1, ObjectTypes DEF Init, ConnInit, TypeOK, ConnTypeOK
  <1>3. ASSUME NEW c \in Conns
        PROVE  Ok(conn[c], posted[c], got[c], sent[c], handled[c])
    <2>1. conn[c] = NoObject /\ posted[c] = <<>> /\ got[c] = <<>> /\ sent[c] = <<>>
      BY DEF Init, ConnInit
    <2>. QED  BY <2>1, OkNone
  <1>. QED  BY <1>2, <1>3, IInvOk

LEMMA NextKept ==
    ASSUME IInv, [Next]_vars
    PROVE  Kept
  <1>1. TypeOK'  BY TypeStep DEF IInv
  <1>2. ASSUME NEW c \in Conns, Handlers(c) PROVE Kept
    <2>1. EndSession(c) /\ UNCHANGED handled /\ IoStep(c)  BY <1>2 DEF Handlers
    <2>2. CASE RunPosted(c)  BY <1>1, <2>1, <2>2, RunPostedKept
    <2>3. CASE Deliver(c)  BY <1>1, <2>1, <2>3, DeliverKept
    <2>4. CASE WriteDone(c)  BY <1>1, <2>1, <2>4, WriteDoneKept
    <2>5. CASE WriteDoneClosing(c)  BY <1>1, <2>1, <2>5, WriteDoneClosingKept
    <2>6. CASE ReadError(c)  BY <1>1, <2>1, <2>6, ReadErrorKept
    <2>. QED  BY <2>1, <2>2, <2>3, <2>4, <2>5, <2>6 DEF IoStep
  <1>3. ASSUME NEW c \in Conns,
               \/ Open(c) \/ OpenHandlerReturns(c)
               \/ \E text \in Texts : SendText(c, text)
               \/ Close(c) \/ CloseHandler(c) \/ Peer(c)
        PROVE  Kept
    BY <1>1, <1>3, OpenKept, OpenHandlerReturnsKept, SendTextKept, CloseKept,
       CloseHandlerKept, PeerKept
  <1>4. CASE UNCHANGED vars
    <2>1. IInv'
      BY <1>4 DEF vars, connVars, IInv, TypeOK, ConnTypeOK, RecvImpliesHandled, CalledInv,
         ShutInv, EmptyInv, StreamInv, Alive, Received, TextStream
    <2>2. UNCHANGED Channel!channelVars
      BY <1>4 DEF vars, connVars, Channel!channelVars, Received
    <2>3. \A c \in Conns : (Alive(c))' <=> Alive(c)
      BY <1>4 DEF vars, connVars, Alive
    <2>. QED  BY <2>1, <2>2, <2>3 DEF Kept
  <1>. QED  BY <1>2, <1>3, <1>4 DEF Next

\* Every text of a session is with the peer, in flight, in write_buffers_ or posted,
\* in the order of the calls of send_text(), until the connection breaks; then what
\* the peer has is a beginning of what was sent (websocket.h:192-223, 718-796).
THEOREM Inductive == Spec => []IInv
  <1>1. IInv /\ [Next]_vars => IInv'  BY NextKept DEF Kept
  <1>. QED  BY InitHolds, <1>1, PTL DEF Spec

\* A close frame of the peer is never recorded without a call of the close handler:
\* the branch of close() that would call it again is not reached from a posted task.
THEOREM Recorded == Spec => []RecvImpliesHandled
  <1>1. IInv => RecvImpliesHandled  BY DEF IInv
  <1>. QED  BY <1>1, Inductive, PTL

\* No object is deleted before the application's close handler was called for it
\* (websocket.h:755-765).
THEOREM HandlerFirst == Spec => HandledBeforeDelete
  <1>1. IInv /\ [Next]_vars
          => [\A c \in Conns : Alive(c) /\ ~ (Alive(c))' => handled'[c]]_vars
    BY NextKept DEF Kept
  <1>. QED  BY <1>1, Inductive, PTL DEF Spec, HandledBeforeDelete

\* send_text() is an ordered channel that may lose its tail, whatever the threads
\* of the application and the peer do meanwhile.
THEOREM Implements == Spec => ImplementsChannel
  <1>1. Init => Channel!ChannelInit
    BY TextsOfNone DEF Init, ConnInit, Channel!ChannelInit, Received
  <1>2. IInv /\ [Next]_vars => [Channel!ChannelNext]_(Channel!channelVars)
    BY NextKept DEF Kept
  <1>. QED  BY <1>1, <1>2, Inductive, PTL DEF Spec, ImplementsChannel, Channel!ChannelSpec
=============================================================================
