--------------------------- MODULE Rounds_proofs ---------------------------
(***************************************************************************)
(* Proofs about Rounds, for every length of the list and of the table, all *)
(* strategies and all results of a spin. First the histories, then the     *)
(* sums, drawdowns and hour tables that the statistics and the backtest    *)
(* compute in two ways each, by inductions made with FoldTheorems; then    *)
(* the inductive invariant.                                                *)
(***************************************************************************)
EXTENDS Rounds, SequenceTheorems, FiniteSetTheorems, TLAPS

-----------------------------------------------------------------------------
(* The ends of sequences *)

\* The two bounds the histories depend on.
LEMMA Bounds == MaxLen \in Nat \ {0} /\ Slack \in Nat
BY RoundsAssumption

\* LastOf is the last n of a sequence, or all of it.
LEMMA LastOfIs ==
  ASSUME NEW T, NEW q \in Seq(T), NEW n \in Nat
  PROVE  /\ LastOf(q, n) \in Seq(T)
         /\ Len(LastOf(q, n)) = IF Len(q) <= n THEN Len(q) ELSE n
         /\ \A i \in 1 .. Len(LastOf(q, n)) :
              LastOf(q, n)[i] = q[Len(q) - Len(LastOf(q, n)) + i]
         /\ Len(q) <= n => LastOf(q, n) = q
<1>1. Len(q) \in Nat
  BY LenProperties
<1>2. CASE Len(q) <= n
  <2>1. LastOf(q, n) = q
    BY <1>2 DEF LastOf
  <2>2. \A i \in 1 .. Len(q) : Len(q) - Len(q) + i = i
    BY <1>1
  <2>. QED
    BY <1>2, <2>1, <2>2
<1>3. CASE ~(Len(q) <= n)
  <2> DEFINE first == Len(q) - n + 1
             cut   == SubSeq(q, first, Len(q))
  <2>1. first \in 1 .. Len(q) + 1 /\ LastOf(q, n) = cut
    BY <1>1, <1>3 DEF LastOf
  <2>2. \A i \in first .. Len(q) : q[i] \in T
    <3>1. \A i \in first .. Len(q) : i \in 1 .. Len(q)
      BY <1>1, <2>1
    <3>. QED
      BY <3>1, ElementOfSeq
  <2>3. /\ cut \in Seq(T)
        /\ Len(cut) = IF first <= Len(q) THEN Len(q) - first + 1 ELSE 0
        /\ \A i \in 1 .. Len(q) - first + 1 : cut[i] = q[first + i - 1]
    BY <1>1, <2>1, <2>2, SubSeqProperties
  <2>4. Len(q) - first + 1 = n /\ Len(cut) = n
    BY <1>1, <2>1, <2>3
  <2>5. \A i \in 1 .. n : first + i - 1 = Len(q) - n + i
    BY <1>1
  <2>. HIDE DEF cut, first
  <2>6. \A i \in 1 .. n : cut[i] = q[Len(q) - n + i]
    BY <2>3, <2>4, <2>5
  <2>. QED
    BY <1>3, <2>1, <2>3, <2>4, <2>6
<1>. QED
  BY <1>2, <1>3

\* The list h is the end of the table q, and all of it that the limit allows.
Mirrors(h, q) == h = LastOf(q, Len(h)) /\ (Len(h) >= MaxLen \/ h = q)

\* A list that was loaded whole.
LEMMA MirrorsSelf == ASSUME NEW T, NEW q \in Seq(T) PROVE Mirrors(q, q)
BY LastOfIs, LenProperties DEF Mirrors

\* The list and the table get the same round: what is kept of both is the same.
LEMMA BothAppend ==
  ASSUME NEW T, NEW h \in Seq(T), NEW q \in Seq(T), NEW e \in T, Mirrors(h, q)
  PROVE  LastOf(Append(h, e), MaxLen) = LastOf(Append(q, e), MaxLen)
<1>1. CASE h = q
  BY <1>1
<1>2. CASE Len(h) >= MaxLen
  <2> DEFINE hs == Append(h, e)
             qs == Append(q, e)
             n  == MaxLen
  <2>1. Len(h) \in Nat /\ Len(q) \in Nat /\ n \in Nat \ {0}
    BY LenProperties, Bounds
  <2>2. /\ Len(h) <= Len(q)
        /\ \A i \in 1 .. Len(h) : h[i] = q[Len(q) - Len(h) + i]
    <3> DEFINE end == LastOf(q, Len(h))
    <3>1. /\ Len(end) = IF Len(q) <= Len(h) THEN Len(q) ELSE Len(h)
          /\ \A i \in 1 .. Len(end) : end[i] = q[Len(q) - Len(end) + i]
      BY <2>1, LastOfIs
    <3>2. end = h
      BY DEF Mirrors
    <3>. HIDE DEF end
    <3>3. Len(h) <= Len(q)
      BY <2>1, <3>1, <3>2
    <3>. QED
      BY <3>1, <3>2, <3>3
  <2>3. /\ hs \in Seq(T) /\ Len(hs) = Len(h) + 1 /\ hs[Len(h) + 1] = e
        /\ \A i \in 1 .. Len(h) : hs[i] = h[i]
    BY AppendProperties
  <2>4. /\ qs \in Seq(T) /\ Len(qs) = Len(q) + 1 /\ qs[Len(q) + 1] = e
        /\ \A i \in 1 .. Len(q) : qs[i] = q[i]
    BY AppendProperties
  <2>. HIDE DEF hs, qs
  <2>5. /\ LastOf(hs, n) \in Seq(T) /\ Len(LastOf(hs, n)) = n
        /\ \A i \in 1 .. n : LastOf(hs, n)[i] = hs[Len(h) + 1 - n + i]
    <3>1. ~(Len(hs) <= n)
      BY <1>2, <2>1, <2>3
    <3>2. /\ LastOf(hs, n) \in Seq(T) /\ Len(LastOf(hs, n)) = n
          /\ \A i \in 1 .. Len(LastOf(hs, n)) :
               LastOf(hs, n)[i] = hs[Len(hs) - Len(LastOf(hs, n)) + i]
      BY <2>1, <2>3, <3>1, LastOfIs
    <3>3. Len(hs) - Len(LastOf(hs, n)) = Len(h) + 1 - n
      BY <2>3, <3>2
    <3>. QED
      BY <3>2, <3>3
  <2>6. /\ LastOf(qs, n) \in Seq(T) /\ Len(LastOf(qs, n)) = n
        /\ \A i \in 1 .. n : LastOf(qs, n)[i] = qs[Len(q) + 1 - n + i]
    <3>1. ~(Len(qs) <= n)
      BY <1>2, <2>1, <2>2, <2>4
    <3>2. /\ LastOf(qs, n) \in Seq(T) /\ Len(LastOf(qs, n)) = n
          /\ \A i \in 1 .. Len(LastOf(qs, n)) :
               LastOf(qs, n)[i] = qs[Len(qs) - Len(LastOf(qs, n)) + i]
      BY <2>1, <2>4, <3>1, LastOfIs
    <3>3. Len(qs) - Len(LastOf(qs, n)) = Len(q) + 1 - n
      BY <2>4, <3>2
    <3>. QED
      BY <3>2, <3>3
  <2>7. ASSUME NEW i \in 1 .. n
        PROVE  hs[Len(h) + 1 - n + i] = qs[Len(q) + 1 - n + i]
    <3>1. CASE i = n
      <4>1. Len(h) + 1 - n + i = Len(h) + 1
        BY <2>1, <3>1
      <4>2. Len(q) + 1 - n + i = Len(q) + 1
        BY <2>1, <3>1
      <4>3. hs[Len(h) + 1] = e /\ qs[Len(q) + 1] = e
        BY <2>3, <2>4
      <4>. QED
        BY <4>1, <4>2, <4>3
    <3>2. CASE i # n
      <4> DEFINE j == Len(h) + 1 - n + i
      <4>1. j \in 1 .. Len(h) /\ Len(q) + 1 - n + i = Len(q) - Len(h) + j
            /\ Len(q) - Len(h) + j \in 1 .. Len(q)
        BY <1>2, <2>1, <2>2, <3>2
      <4>. HIDE DEF j
      <4>2. hs[j] = h[j] /\ h[j] = q[Len(q) - Len(h) + j]
        BY <2>2, <2>3, <4>1
      <4>3. qs[Len(q) - Len(h) + j] = q[Len(q) - Len(h) + j]
        BY <2>4, <4>1
      <4>. QED
        BY <4>1, <4>2, <4>3 DEF j
    <3>. QED
      BY <3>1, <3>2
  <2>8. LastOf(hs, n) = LastOf(qs, n)
    BY <2>5, <2>6, <2>7, SeqEqual
  <2>. QED
    BY <2>8 DEF hs, qs
<1>. QED
  BY <1>1, <1>2 DEF Mirrors

\* What is cut at the limit mirrors the table, whether that is trimmed or not.
LEMMA CutMirrors ==
  ASSUME NEW T, NEW q \in Seq(T), NEW h, h = LastOf(q, MaxLen)
  PROVE  h \in Seq(T) /\ Mirrors(h, q) /\ Mirrors(h, LastOf(q, MaxLen))
<1>1. /\ h \in Seq(T) /\ Len(h) = (IF Len(q) <= MaxLen THEN Len(q) ELSE MaxLen)
      /\ Len(q) <= MaxLen => h = q
  BY LastOfIs, Bounds
<1>2. Len(q) \in Nat /\ MaxLen \in Nat
  BY LenProperties, Bounds
<1>3. Mirrors(h, h)
  BY <1>1, MirrorsSelf
<1>4. CASE Len(q) <= MaxLen
  BY <1>1, <1>3, <1>4
<1>5. CASE ~(Len(q) <= MaxLen)
  BY <1>1, <1>2, <1>3, <1>5 DEF Mirrors
<1>. QED
  BY <1>4, <1>5

-----------------------------------------------------------------------------
(* The list and the table *)

Elements(q)   == {q[i] : i \in DOMAIN q}
IsSequence(q) == q \in Seq(Elements(q))

\* Whatever a sequence is over, it is over its own elements.
LEMMA SequenceOf == ASSUME NEW T, NEW q \in Seq(T) PROVE IsSequence(q)
<1>1. Len(q) \in Nat /\ q \in [1 .. Len(q) -> T] /\ DOMAIN q = 1 .. Len(q)
  BY LenProperties
<1>2. q \in [1 .. Len(q) -> Elements(q)]
  BY <1>1 DEF Elements
<1>. QED
  BY <1>1, <1>2, IsASeq DEF IsSequence

\* ... and over every larger set.
LEMMA WidenSequence ==
  ASSUME NEW q, IsSequence(q), NEW T, Elements(q) \subseteq T
  PROVE  q \in Seq(T)
<1>1. Len(q) \in Nat /\ q \in [1 .. Len(q) -> Elements(q)]
  BY LenProperties DEF IsSequence
<1>2. q \in [1 .. Len(q) -> T]
  BY <1>1
<1>. QED
  BY <1>1, <1>2, IsASeq

\* What a clear leaves.
LEMMA EmptySequence == IsSequence(<<>>)
BY EmptySeq, SequenceOf

\* BothAppend and its relatives without a set of elements.
LEMMA RoundAdded ==
  ASSUME NEW h, NEW q, NEW e, IsSequence(h), IsSequence(q)
  PROVE  /\ IsSequence(Append(h, e)) /\ IsSequence(Append(q, e))
         /\ IsSequence(LastOf(Append(h, e), MaxLen))
         /\ Mirrors(h, q) => LastOf(Append(h, e), MaxLen) = LastOf(Append(q, e), MaxLen)
<1> DEFINE T == Elements(h) \cup Elements(q) \cup {e}
<1>1. h \in Seq(T) /\ q \in Seq(T) /\ e \in T
  BY WidenSequence
<1>. HIDE DEF T
<1>2. Append(h, e) \in Seq(T) /\ Append(q, e) \in Seq(T)
  BY <1>1, AppendProperties
<1>3. LastOf(Append(h, e), MaxLen) \in Seq(T)
  BY <1>2, LastOfIs, Bounds
<1>4. Mirrors(h, q) => LastOf(Append(h, e), MaxLen) = LastOf(Append(q, e), MaxLen)
  BY <1>1, BothAppend
<1>. QED
  BY <1>2, <1>3, <1>4, SequenceOf

\* The menu has dropped the rows, and not yet the list.
Dropped == menu \in {"rowsGone", "allRows", "allSnap"}

AllSequences == IsSequence(history) /\ IsSequence(rows) /\ IsSequence(since)

(***************************************************************************)
(* While the rows are dropped before the list, no round is between the     *)
(* two; while one is, the list is what the table will be cut to.           *)
(***************************************************************************)
MirrorInv ==
  ~torn =>
    /\ Dropped => rows = <<>> /\ pc # "append"
    /\ ~Dropped /\ pc # "append" => Mirrors(history, rows)
    /\ ~Dropped /\ pc = "append" => history = LastOf(Append(rows, round), MaxLen)

TrailingInv ==
  ~shifted => /\ baseline \in 0 .. Len(history)
              /\ From(history, baseline) \in {since, LastOf(since, MaxLen)}

\* Nothing has been played.
LEMMA RoundsInit == Init => AllSequences /\ MirrorInv /\ TrailingInv
<1>. SUFFICES ASSUME Init PROVE AllSequences /\ MirrorInv /\ TrailingInv
  OBVIOUS
<1>1. AllSequences
  BY EmptySequence DEF Init, AllSequences
<1>2. MirrorInv
  BY DEF Init, MirrorInv, Mirrors, Dropped, LastOf
<1>3. TrailingInv
  BY DEF Init, TrailingInv, From, LastOf
<1>. QED
  BY <1>1, <1>2, <1>3

\* Every step leaves sequences: it appends, cuts, empties or loads.
LEMMA SequencesStep == AllSequences /\ [Next]_vars => AllSequences'
<1>. SUFFICES ASSUME AllSequences, [Next]_vars PROVE AllSequences'
  OBVIOUS
<1>. USE DEF AllSequences
<1>1. CASE Decide \/ ResumeOnly
  <2>1. history' = history /\ rows' = rows /\ (since' = since \/ since' = <<>>)
    BY <1>1 DEF Decide, ResumeOnly, Resume, StayCalm, mirror, trailing
  <2>. QED
    BY <2>1, EmptySequence DEF IsSequence, Elements
<1>2. CASE CoolDown \/ Save \/ ResetStatistics \/ ResetRow \/ ClearAllSnapshot \/ HourPasses \/ UNCHANGED vars
  <2>1. history' = history /\ rows' = rows /\ since' = since
    BY <1>2 DEF CoolDown, Save, ResetStatistics, ResetRow, ClearAllSnapshot, HourPasses, vars, mirror, trailing
  <2>. QED
    BY <2>1 DEF IsSequence, Elements
<1>3. CASE Process
  <2>1. /\ rows' = rows /\ since' = Append(since, round')
        /\ history' = LastOf(Append(history, round'), MaxLen)
    BY <1>3 DEF Process, Remember
  <2>2. IsSequence(Append(since, round')) /\ IsSequence(LastOf(Append(history, round'), MaxLen))
    BY RoundAdded
  <2>. QED
    BY <2>1, <2>2 DEF IsSequence, Elements
<1>4. CASE AppendHistory
  <2>1. /\ history' = history /\ since' = since
        /\ rows' \in {rows, Append(rows, round), LastOf(Append(rows, round), MaxLen)}
    BY <1>4 DEF AppendHistory, Insert, InsertLoose, trailing
  <2>2. IsSequence(Append(rows, round)) /\ IsSequence(LastOf(Append(rows, round), MaxLen))
    BY RoundAdded
  <2>. QED
    BY <2>1, <2>2 DEF IsSequence, Elements
<1>5. CASE ClearRows \/ ClearAllRows
  <2>1. history' = history /\ since' = since /\ rows' = <<>>
    BY <1>5 DEF ClearRows, ClearAllRows, DropRows, trailing
  <2>. QED
    BY <2>1, EmptySequence DEF IsSequence, Elements
<1>6. CASE ClearList \/ ClearAllMemory
  <2>1. history' = <<>> /\ since' = <<>> /\ rows' = rows
    BY <1>6 DEF ClearList, ClearAllMemory, ForgetHistory
  <2>. QED
    BY <2>1, EmptySequence DEF IsSequence, Elements
<1>7. CASE Exit \/ Crash
  <2>1. history' = rows /\ since' = rows /\ rows' = rows
    BY <1>7 DEF Exit, Crash, Load
  <2>. QED
    BY <2>1 DEF IsSequence, Elements
<1>. QED
  BY <1>1, <1>2, <1>3, <1>4, <1>5, <1>6, <1>7 DEF Next

\* Whoever steps, loop, menu or start, keeps list and table together.
LEMMA MirrorStep == AllSequences /\ MirrorInv /\ [Next]_vars => MirrorInv'
<1>. SUFFICES ASSUME AllSequences, MirrorInv, [Next]_vars, ~torn' PROVE MirrorInv'
  BY DEF MirrorInv
<1>. USE DEF MirrorInv, Dropped
<1>1. CASE Decide \/ CoolDown \/ ResumeOnly \/ Save \/ HourPasses \/ UNCHANGED vars
  <2>1. /\ history' = history /\ rows' = rows /\ torn' = torn /\ menu' = menu
        /\ (pc # "append" /\ pc' # "append") \/ (pc' = pc /\ round' = round)
    BY <1>1 DEF Decide, CoolDown, ResumeOnly, Save, HourPasses, vars, mirror, inRound
  <2>. QED
    BY <2>1 DEF Mirrors
<1>2. CASE Process
  <2>1. /\ pc = "play" /\ pc' = "append" /\ ~torn /\ ~Dropped /\ ~Dropped' /\ rows' = rows
        /\ history' = LastOf(Append(history, round'), MaxLen)
    BY <1>2 DEF Process, Remember
  <2>2. LastOf(Append(history, round'), MaxLen) = LastOf(Append(rows, round'), MaxLen)
    BY <2>1, RoundAdded DEF AllSequences
  <2>. QED
    BY <2>1, <2>2
<1>3. CASE AppendHistory
  <2>1. /\ pc = "append" /\ pc' # "append" /\ ~torn /\ menu' = menu /\ history' = history
        /\ rows' \in {Append(rows, round), LastOf(Append(rows, round), MaxLen)}
    BY <1>3 DEF AppendHistory, Insert, InsertLoose
  <2>2. ~Dropped /\ history = LastOf(Append(rows, round), MaxLen)
    BY <2>1
  <2>3. IsSequence(Append(rows, round))
    BY RoundAdded DEF AllSequences
  <2>4. Mirrors(history, Append(rows, round)) /\ Mirrors(history, LastOf(Append(rows, round), MaxLen))
    BY <2>2, <2>3, CutMirrors DEF IsSequence
  <2>5. Mirrors(history, rows')
    BY <2>1, <2>4
  <2>. QED
    BY <2>1, <2>2, <2>5 DEF Mirrors
<1>4. CASE ClearRows \/ ClearAllRows
  <2>1. /\ rows' = <<>> /\ pc # "append" /\ pc' = pc /\ Dropped'
    BY <1>4 DEF ClearRows, ClearAllRows, DropRows, inRound
  <2>. QED
    BY <2>1
<1>5. CASE ClearAllSnapshot
  <2>1. /\ Dropped /\ Dropped' /\ torn' = torn /\ rows' = rows /\ pc' = pc
    BY <1>5 DEF ClearAllSnapshot, inRound, mirror
  <2>. QED
    BY <2>1
<1>6. CASE ClearList \/ ClearAllMemory
  <2>1. /\ Dropped /\ ~Dropped' /\ pc # "append" /\ pc' = pc /\ ~torn
        /\ history' = <<>> /\ rows' = rows
    BY <1>6 DEF ClearList, ClearAllMemory, ForgetHistory, inRound
  <2>2. rows' = <<>>
    BY <2>1
  <2>. QED
    BY <2>1, <2>2 DEF Mirrors, LastOf
<1>7. CASE ResetStatistics \/ ResetRow
  <2>1. /\ ~Dropped /\ ~Dropped' /\ torn' = torn /\ pc' = pc /\ round' = round
        /\ history' = history /\ rows' = rows
    BY <1>7 DEF ResetStatistics, ResetRow, inRound, mirror
  <2>. QED
    BY <2>1 DEF Mirrors
<1>8. CASE Exit \/ Crash
  <2>1. /\ ~Dropped' /\ pc' # "append" /\ history' = rows /\ rows' = rows
    BY <1>8 DEF Exit, Crash, Load
  <2>2. Mirrors(rows, rows)
    BY MirrorsSelf DEF AllSequences, IsSequence
  <2>. QED
    BY <2>1, <2>2 DEF Mirrors
<1>. QED
  BY <1>1, <1>2, <1>3, <1>4, <1>5, <1>6, <1>7, <1>8 DEF Next

-----------------------------------------------------------------------------
(* The view of the trailing stop *)

\* The view from the start is the list, the view from its end is empty.
LEMMA ViewOfAll ==
  ASSUME NEW q, IsSequence(q)
  PROVE  From(q, 0) = q /\ From(q, Len(q)) = <<>>
<1>1. Len(q) \in Nat
  BY LenProperties DEF IsSequence
<1>2. q \in Seq(Elements(q))
  BY DEF IsSequence
<1>3. SubSeq(q, 1, Len(q)) = q
  BY <1>2
<1>4. SubSeq(q, Len(q) + 1, Len(q)) = <<>>
  BY <1>1, <1>2, SubSeqProperties, EmptySeq
<1>. QED
  BY <1>1, <1>3, <1>4 DEF From

\* Below its limit the list and the view of it grow by the same round.
LEMMA ViewGrows ==
  ASSUME NEW q, NEW e, NEW b, IsSequence(q), b \in 0 .. Len(q)
  PROVE  /\ From(Append(q, e), b) = Append(From(q, b), e)
         /\ Len(From(q, b)) = Len(q) - b /\ b \in 0 .. Len(Append(q, e))
<1> DEFINE T  == Elements(q) \cup {e}
           qs == Append(q, e)
<1>1. q \in Seq(T) /\ e \in T /\ Len(q) \in Nat /\ b \in Nat /\ b <= Len(q)
  BY WidenSequence, LenProperties DEF IsSequence
<1>. HIDE DEF T
<1>2. /\ qs \in Seq(T) /\ Len(qs) = Len(q) + 1 /\ qs[Len(q) + 1] = e
      /\ \A i \in 1 .. Len(q) : qs[i] = q[i]
  BY <1>1, AppendProperties
<1>. HIDE DEF qs
<1>3. /\ From(q, b) \in Seq(T) /\ Len(From(q, b)) = Len(q) - b
      /\ \A i \in 1 .. Len(q) - b : From(q, b)[i] = q[b + i]
  <2>1. \A i \in b + 1 .. Len(q) : q[i] \in T
    BY <1>1, ElementOfSeq
  <2>2. /\ SubSeq(q, b + 1, Len(q)) \in Seq(T)
        /\ Len(SubSeq(q, b + 1, Len(q))) = IF b + 1 <= Len(q) THEN Len(q) - (b + 1) + 1 ELSE 0
        /\ \A i \in 1 .. Len(q) - (b + 1) + 1 : SubSeq(q, b + 1, Len(q))[i] = q[b + 1 + i - 1]
    BY <1>1, <2>1, SubSeqProperties
  <2>. QED
    BY <1>1, <2>2 DEF From
<1>4. /\ From(qs, b) \in Seq(T) /\ Len(From(qs, b)) = Len(q) + 1 - b
      /\ \A i \in 1 .. Len(q) + 1 - b : From(qs, b)[i] = qs[b + i]
  <2>1. \A i \in b + 1 .. Len(qs) : qs[i] \in T
    BY <1>1, <1>2, ElementOfSeq
  <2>2. /\ SubSeq(qs, b + 1, Len(qs)) \in Seq(T)
        /\ Len(SubSeq(qs, b + 1, Len(qs))) = IF b + 1 <= Len(qs) THEN Len(qs) - (b + 1) + 1 ELSE 0
        /\ \A i \in 1 .. Len(qs) - (b + 1) + 1 : SubSeq(qs, b + 1, Len(qs))[i] = qs[b + 1 + i - 1]
    BY <1>1, <1>2, <2>1, SubSeqProperties
  <2>. QED
    BY <1>1, <1>2, <2>2 DEF From
<1> DEFINE v  == From(q, b)
           vs == Append(v, e)
<1>5. /\ vs \in Seq(T) /\ Len(vs) = Len(v) + 1 /\ vs[Len(v) + 1] = e
      /\ \A i \in 1 .. Len(v) : vs[i] = v[i]
  BY <1>1, <1>3, AppendProperties
<1>. HIDE DEF vs
<1>6. ASSUME NEW i \in 1 .. Len(q) + 1 - b
      PROVE  From(qs, b)[i] = vs[i]
  <2>1. CASE i = Len(q) + 1 - b
    <3>1. i = Len(v) + 1 /\ b + i = Len(q) + 1
      BY <1>1, <1>3, <2>1
    <3>2. From(qs, b)[i] = e
      BY <1>2, <1>4, <3>1
    <3>. QED
      BY <1>5, <3>1, <3>2
  <2>2. CASE i # Len(q) + 1 - b
    <3>1. i \in 1 .. Len(v) /\ b + i \in 1 .. Len(q) /\ i \in 1 .. Len(q) - b
      BY <1>1, <1>3, <2>2
    <3>. QED
      BY <1>2, <1>3, <1>4, <1>5, <3>1
  <2>. QED
    BY <2>1, <2>2
<1>7. From(qs, b) = vs
  <2>1. Len(vs) = Len(q) + 1 - b
    BY <1>1, <1>3, <1>5
  <2>. QED
    BY <1>4, <1>5, <1>6, <2>1, SeqEqual
<1>. QED
  BY <1>1, <1>2, <1>3, <1>7 DEF qs, vs

\* A round: the list grows or is cut, the view with it.
LEMMA TrailingProcess ==
  ASSUME AllSequences, TrailingInv, Process, ~shifted'
  PROVE  TrailingInv'
<1>1. /\ since' = Append(since, round') /\ baseline' = baseline /\ ~shifted
      /\ history' = LastOf(Append(history, round'), MaxLen)
      /\ ~(baseline > 0 /\ Len(history) >= MaxLen)
  BY DEF Process, Remember
<1>2. /\ IsSequence(history) /\ IsSequence(since)
      /\ Len(history) \in Nat /\ Len(since) \in Nat /\ MaxLen \in Nat \ {0}
  BY LenProperties, Bounds DEF AllSequences, IsSequence
<1>3. /\ baseline \in 0 .. Len(history)
      /\ From(history, baseline) \in {since, LastOf(since, MaxLen)}
  BY <1>1 DEF TrailingInv
<1>4. CASE Len(history) < MaxLen
  <2>1. /\ From(Append(history, round'), baseline) = Append(From(history, baseline), round')
        /\ Len(From(history, baseline)) = Len(history) - baseline
        /\ baseline \in 0 .. Len(Append(history, round'))
    BY <1>2, <1>3, ViewGrows
  <2>2. Len(Append(history, round')) <= MaxLen
    BY <1>2, <1>4, AppendProperties, RoundAdded DEF IsSequence
  <2>3. history' = Append(history, round')
    BY <1>1, <2>2 DEF LastOf
  <2>4. From(history, baseline) = since
    <3>1. CASE Len(since) <= MaxLen
      BY <1>3, <3>1 DEF LastOf
    <3>2. CASE ~(Len(since) <= MaxLen)
      <4>1. Len(LastOf(since, MaxLen)) = MaxLen
        BY <1>2, <3>2, LastOfIs DEF IsSequence
      <4>2. Len(From(history, baseline)) < MaxLen
        BY <1>2, <1>3, <1>4, <2>1
      <4>. QED
        BY <1>2, <1>3, <4>1, <4>2
    <3>. QED
      BY <3>1, <3>2
  <2>. QED
    BY <1>1, <2>1, <2>3, <2>4 DEF TrailingInv
<1>5. CASE ~(Len(history) < MaxLen)
  <2>1. baseline = 0
    BY <1>1, <1>2, <1>3, <1>5
  <2>2. history \in {since, LastOf(since, MaxLen)}
    BY <1>2, <1>3, <2>1, ViewOfAll
  <2>3. Mirrors(history, since)
    BY <1>2, <2>2, MirrorsSelf, CutMirrors DEF IsSequence
  <2>4. /\ IsSequence(history') /\ history' = LastOf(since', MaxLen)
    BY <1>1, <1>2, <2>3, RoundAdded
  <2>5. From(history', 0) = history' /\ Len(history') \in Nat
    BY <2>4, ViewOfAll, LenProperties DEF IsSequence
  <2>. QED
    BY <1>1, <2>1, <2>4, <2>5 DEF TrailingInv
<1>. QED
  BY <1>2, <1>4, <1>5

\* Besides a round only the end of a cool-down, a clear or a start moves the view.
LEMMA TrailingStep == AllSequences /\ TrailingInv /\ [Next]_vars => TrailingInv'
<1>. SUFFICES ASSUME AllSequences, TrailingInv, [Next]_vars, ~shifted' PROVE TrailingInv'
  BY DEF TrailingInv
<1>1. CASE Process
  BY <1>1, TrailingProcess
<1>2. CASE /\ history' = history /\ UNCHANGED trailing
  BY <1>2 DEF TrailingInv, trailing
<1>3. CASE Resume /\ history' = history
  <2>1. baseline' = Len(history) /\ since' = <<>>
    BY <1>3 DEF Resume
  <2>2. From(history, Len(history)) = <<>> /\ Len(history) \in Nat
    BY ViewOfAll, LenProperties DEF AllSequences, IsSequence
  <2>. QED
    BY <1>3, <2>1, <2>2 DEF TrailingInv
<1>4. CASE Decide \/ ResumeOnly
  BY <1>2, <1>3, <1>4 DEF Decide, ResumeOnly, StayCalm, mirror
<1>5. CASE CoolDown
  BY <1>5 DEF CoolDown, mirror, TrailingInv
<1>6. CASE \/ AppendHistory \/ Save \/ ClearRows \/ ResetStatistics \/ ResetRow
           \/ ClearAllRows \/ ClearAllSnapshot \/ HourPasses \/ UNCHANGED vars
  BY <1>2, <1>6
     DEF AppendHistory, Save, ClearRows, ResetStatistics, ResetRow, ClearAllRows, ClearAllSnapshot,
         HourPasses, DropRows, vars, mirror
<1>7. CASE ClearList \/ ClearAllMemory
  <2>1. history' = <<>> /\ since' = <<>> /\ baseline' = baseline /\ ~shifted /\ ~(baseline > 0)
    BY <1>7 DEF ClearList, ClearAllMemory, ForgetHistory
  <2>2. baseline = 0
    BY <2>1, LenProperties DEF TrailingInv, AllSequences, IsSequence
  <2>. QED
    BY <2>1, <2>2, EmptySequence, ViewOfAll DEF TrailingInv
<1>8. CASE Exit \/ Crash
  <2>1. history' = rows /\ since' = rows /\ baseline' = 0
    BY <1>8 DEF Exit, Crash, Load
  <2>2. From(rows, 0) = rows /\ Len(rows) \in Nat
    BY ViewOfAll, LenProperties DEF AllSequences, IsSequence
  <2>. QED
    BY <2>1, <2>2 DEF TrailingInv
<1>. QED
  BY <1>1, <1>4, <1>5, <1>6, <1>7, <1>8 DEF Next

-----------------------------------------------------------------------------
(* The statistics and their snapshot *)

\* One more: the remainder grows by one, or starts again.
LEMMA NextRemainder ==
  ASSUME NEW n \in Nat, NEW k \in Nat \ {0}
  PROVE  (n + 1) % k = 0 \/ (n + 1) % k = (n % k) + 1
<1> DEFINE q == n \div k
           r == n % k
<1>1. n = k * q + r /\ q \in Int /\ r \in 0 .. k - 1
  OBVIOUS
<1>2. ASSUME NEW p \in Int, NEW t \in 0 .. k - 1 PROVE (k * p + t) % k = t
  OBVIOUS
<1>. HIDE DEF q, r
<1>3. CASE r + 1 < k
  <2>1. n + 1 = k * q + (r + 1) /\ r + 1 \in 0 .. k - 1
    BY <1>1, <1>3
  <2>. QED
    BY <1>1, <1>2, <2>1 DEF r
<1>4. CASE r + 1 = k
  <2>1. n + 1 = k * (q + 1) + 0 /\ q + 1 \in Int /\ 0 \in 0 .. k - 1
    BY <1>1, <1>4
  <2>. QED
    BY <1>1, <1>2, <2>1
<1>. QED
  BY <1>1, <1>3, <1>4

\* Remainders that are the number itself, and the range of all of them.
LEMMA Remainders ==
  ASSUME NEW n \in Nat, NEW k \in Nat \ {0}
  PROVE  n % k \in 0 .. k - 1 /\ (n < k => n % k = n) /\ k % k = 0
OBVIOUS

\* The counters of a slot_analysis.
Stats(s) ==
  /\ {"spins", "wins", "losses"} \subseteq DOMAIN s
  /\ s.spins \in Nat /\ s.wins \in Nat /\ s.losses \in Nat
  /\ s.spins = s.wins + s.losses

LEMMA StatsMade == Stats(MakeSlotAnalysis) /\ MakeSlotAnalysis.spins = 0
BY DEF Stats, MakeSlotAnalysis

\* update_slot_analysis counts the spin, as a win or as a loss; the rest of it touches neither.
LEMMA StatsUpdated ==
  ASSUME NEW s, Stats(s), NEW spin
  PROVE  Stats(UpdateSlotAnalysis(s, spin)) /\ UpdateSlotAnalysis(s, spin).spins = s.spins + 1
<1> DEFINE noted == [s EXCEPT !.spins = @ + 1,
                                !.wins = IF spin.change > 0 THEN @ + 1 ELSE @,
                                !.losses = IF spin.change > 0 THEN @ ELSE @ + 1,
                                !.wagered = @ + spin.bet,
                                !.gross = @ + Gross(spin),
                                !.cells = IF spin.grid THEN @ + 9 ELSE @]
           rated   == IF spin.bet > 0 THEN AddRatio(noted, Ratio(spin)) ELSE noted
<1>1. Stats(noted) /\ noted.spins = s.spins + 1
  BY DEF Stats
<1>. HIDE DEF noted
<1>2. Stats(AddRatio(noted, Ratio(spin))) /\ AddRatio(noted, Ratio(spin)).spins = noted.spins
  BY <1>1 DEF Stats, AddRatio
<1>3. Stats(rated) /\ rated.spins = s.spins + 1
  BY <1>1, <1>2
<1>. HIDE DEF rated
<1>4. Stats(AddLines(rated, spin.lines)) /\ AddLines(rated, spin.lines).spins = rated.spins
  BY <1>3 DEF Stats, AddLines
<1>5. UpdateSlotAnalysis(s, spin) = AddLines(rated, spin.lines)
  BY DEF UpdateSlotAnalysis, rated, noted
<1>. QED
  BY <1>3, <1>4, <1>5

\* Prefixes of a sequence: all of it, nothing of it, and one that a further element leaves alone.
LEMMA WholePrefix ==
  ASSUME NEW q, IsSequence(q)
  PROVE  SubSeq(q, 1, Len(q)) = q /\ Len(q) \in Nat /\ \A k \in Nat \ {0} : Len(q) % k \in Nat
<1>1. Len(q) \in Nat /\ q \in Seq(Elements(q))
  BY LenProperties DEF IsSequence
<1>. QED
  BY <1>1, Remainders

LEMMA NoPrefix == ASSUME NEW q, IsSequence(q) PROVE SubSeq(q, 1, 0) = <<>>
BY LenProperties, SubSeqProperties, EmptySeq DEF IsSequence

LEMMA PrefixKept ==
  ASSUME NEW q, NEW e, NEW n, IsSequence(q), n \in 0 .. Len(q)
  PROVE  SubSeq(Append(q, e), 1, n) = SubSeq(q, 1, n)
<1> DEFINE T  == Elements(q) \cup {e}
           qs == Append(q, e)
<1>1. q \in Seq(T) /\ e \in T /\ Len(q) \in Nat /\ n \in Nat /\ n <= Len(q)
  BY WidenSequence, LenProperties DEF IsSequence
<1>. HIDE DEF T
<1>2. /\ qs \in Seq(T) /\ Len(qs) = Len(q) + 1
      /\ \A i \in 1 .. Len(q) : qs[i] = q[i]
  BY <1>1, AppendProperties
<1>. HIDE DEF qs
<1>3. \A i \in 1 .. n : qs[i] = q[i] /\ q[i] \in T
  BY <1>1, <1>2, ElementOfSeq
<1>4. /\ SubSeq(q, 1, n) \in Seq(T) /\ Len(SubSeq(q, 1, n)) = n
      /\ \A i \in 1 .. n : SubSeq(q, 1, n)[i] = q[i]
  BY <1>1, <1>3, SubSeqProperties
<1>5. /\ SubSeq(qs, 1, n) \in Seq(T) /\ Len(SubSeq(qs, 1, n)) = n
      /\ \A i \in 1 .. n : SubSeq(qs, 1, n)[i] = qs[i]
  BY <1>1, <1>2, <1>3, SubSeqProperties
<1>6. SubSeq(qs, 1, n) = SubSeq(q, 1, n)
  BY <1>3, <1>4, <1>5, SeqEqual
<1>. QED
  BY <1>6 DEF qs

(***************************************************************************)
(* What is counted and what the snapshot has of it, as numbers.            *)
(***************************************************************************)
Books ==
  /\ IsSequence(counted) /\ IsSequence(inSnap)
  /\ Stats(sa) /\ sa.spins = Len(counted)
  /\ IF snap = {} THEN inSnap = <<>>
     ELSE \E x : snap = {x} /\ Stats(x) /\ x.spins = Len(inSnap)

\* A snapshot is due, and will be taken of whatever is counted then.
WillSave == pc \in {"append", "save"} /\ due

\* The snapshot is the beginning of what is counted, and behind by no more than the spins since
\* the last multiple of SaveEvery.
Behind ==
  /\ Len(inSnap) <= Len(counted)
  /\ inSnap = SubSeq(counted, 1, Len(inSnap))
  /\ WillSave \/ Len(counted) - Len(inSnap) <= Len(counted) % SaveEvery

(***************************************************************************)
(* While a reset has not reached the table, the spins counted since have   *)
(* not made a snapshot due, or it is still to be taken.                    *)
(***************************************************************************)
SaveInv ==
  /\ pc = "save" => due
  /\ menu = "allSnap" => unsaved
  /\ ~unsaved /\ menu \notin {"resetRow", "allSnap"} => Behind
  /\ ~unsaved /\ menu = "resetRow" => WillSave \/ Len(counted) < SaveEvery

LEMMA BooksInit == Init => Books
BY EmptySequence, StatsMade DEF Init, Books

LEMMA BooksStep == Books /\ [Next]_vars => Books'
<1>. SUFFICES ASSUME Books, [Next]_vars PROVE Books'
  OBVIOUS
<1>. USE DEF Books
<1>1. CASE UNCHANGED <<stats, snap, inSnap>>
  BY <1>1 DEF stats, IsSequence, Elements, Stats
<1>2. CASE \/ Decide \/ CoolDown \/ ResumeOnly \/ AppendHistory \/ ClearRows \/ ClearList
           \/ ClearAllRows \/ HourPasses \/ UNCHANGED vars
  BY <1>1, <1>2
     DEF Decide, CoolDown, ResumeOnly, AppendHistory, ClearRows, ClearList, ClearAllRows,
         HourPasses, vars, saved
<1>3. CASE Process
  <2>1. /\ \E spin : sa' = UpdateSlotAnalysis(sa, spin) /\ counted' = Append(counted, spin)
        /\ snap' = snap /\ inSnap' = inSnap
    BY <1>3 DEF Process, saved
  <2>2. PICK spin : sa' = UpdateSlotAnalysis(sa, spin) /\ counted' = Append(counted, spin)
    BY <2>1
  <2>3. /\ IsSequence(counted') /\ Len(counted') = Len(counted) + 1
    BY <2>2, RoundAdded, AppendProperties DEF IsSequence
  <2>4. Stats(sa') /\ sa'.spins = sa.spins + 1
    BY <2>2, StatsUpdated
  <2>. QED
    BY <2>1, <2>3, <2>4
<1>4. CASE Save
  <2>1. counted' = counted /\ sa' = sa /\ (UNCHANGED <<snap, inSnap>> \/ Store)
    BY <1>4 DEF Save, stats
  <2>2. CASE Store
    BY <2>1, <2>2 DEF Store, IsSequence, Elements
  <2>. QED
    BY <1>1, <2>1, <2>2 DEF stats
<1>5. CASE ResetStatistics
  <2>1. sa' = MakeSlotAnalysis /\ counted' = <<>> /\ UNCHANGED <<snap, inSnap>>
    BY <1>5 DEF ResetStatistics, ForgetStatistics, saved
  <2>. QED
    BY <2>1, EmptySequence, StatsMade DEF IsSequence, Elements
<1>6. CASE ResetRow \/ ClearAllSnapshot
  <2>1. snap' = {} /\ inSnap' = <<>> /\ UNCHANGED <<sa, counted>>
    BY <1>6 DEF ResetRow, ClearAllSnapshot, DropSnapshot, stats
  <2>. QED
    BY <2>1, EmptySequence DEF IsSequence, Elements
<1>7. CASE ClearAllMemory
  <2>1. sa' = MakeSlotAnalysis /\ counted' = <<>> /\ UNCHANGED <<snap, inSnap>>
    BY <1>7 DEF ClearAllMemory, ForgetStatistics, saved
  <2>. QED
    BY <2>1, EmptySequence, StatsMade DEF IsSequence, Elements
<1>8. CASE Exit \/ Crash
  <2>1. /\ counted' = inSnap'
        /\ sa' = (IF snap' = {} THEN MakeSlotAnalysis ELSE CHOOSE x \in snap' : TRUE)
    BY <1>8 DEF Exit, Crash, Load
  <2>2. Store \/ UNCHANGED <<snap, inSnap>>
    BY <1>8 DEF Exit, Crash
  <2>3. /\ IsSequence(inSnap')
        /\ IF snap' = {} THEN inSnap' = <<>>
           ELSE \E x : snap' = {x} /\ Stats(x) /\ x.spins = Len(inSnap')
    BY <2>2 DEF Store, IsSequence, Elements
  <2>4. CASE snap' = {}
    BY <2>1, <2>3, <2>4, StatsMade, EmptySequence
  <2>5. CASE snap' # {}
    BY <2>1, <2>3, <2>5
  <2>. QED
    BY <2>4, <2>5
<1>. QED
  BY <1>2, <1>3, <1>4, <1>5, <1>6, <1>7, <1>8 DEF Next

LEMMA SaveInit == Init => SaveInv
<1>. SUFFICES ASSUME Init PROVE SaveInv
  OBVIOUS
<1>1. counted = <<>> /\ inSnap = <<>> /\ pc = "decide" /\ menu = "out"
  BY DEF Init
<1>2. SubSeq(<<>>, 1, 0) = <<>>
  OBVIOUS
<1>3. 0 % SaveEvery \in Nat
  BY RoundsAssumption, Remainders
<1>. QED
  BY <1>1, <1>2, <1>3 DEF SaveInv, Behind, WillSave

LEMMA SaveStep == Books /\ SaveInv /\ [Next]_vars => SaveInv'
<1>. SUFFICES ASSUME Books, SaveInv, [Next]_vars PROVE SaveInv'
  OBVIOUS
<1>. USE DEF SaveInv, WillSave
<1> DEFINE K == SaveEvery
           n == Len(counted)
           m == Len(inSnap)
<1>1. /\ n \in Nat /\ m \in Nat /\ K \in Nat \ {0}
      /\ n % K \in 0 .. K - 1 /\ (n < K => n % K = n) /\ K % K = 0
  BY RoundsAssumption, Remainders, LenProperties DEF Books, IsSequence
\* Nothing counted, nothing due.
<1>2. SubSeq(<<>>, 1, 0) = <<>> /\ 0 % K = 0
  BY <1>1
<1>3. CASE /\ \/ Decide \/ CoolDown \/ ResumeOnly \/ AppendHistory \/ ClearRows \/ ClearList
              \/ ClearAllRows \/ HourPasses \/ UNCHANGED vars
  <2>1. /\ UNCHANGED <<counted, inSnap, unsaved, due>>
        /\ menu' = menu \/ (menu' # "allSnap" /\ menu' # "resetRow" /\ menu \notin {"resetRow", "allSnap"})
        /\ \/ pc' = pc
           \/ pc \notin {"append", "save"} /\ pc' \notin {"append", "save"}
           \/ pc = "append" /\ pc' = IF due THEN "save" ELSE "decide"
    BY <1>3
       DEF Decide, CoolDown, ResumeOnly, AppendHistory, ClearRows, ClearList, ClearAllRows,
           HourPasses, vars, saved, stats, inRound
  <2>. QED
    BY <2>1 DEF Behind
<1>4. CASE Process
  <2>1. /\ \E spin : sa' = UpdateSlotAnalysis(sa, spin) /\ counted' = Append(counted, spin)
        /\ UNCHANGED <<inSnap, unsaved, menu>> /\ pc = "play" /\ pc' = "append"
        /\ due' = (sa'.spins % K = 0)
    BY <1>4 DEF Process, saved
  <2>2. PICK spin : sa' = UpdateSlotAnalysis(sa, spin) /\ counted' = Append(counted, spin)
    BY <2>1
  <2>3. sa'.spins = n + 1
    BY <2>2, StatsUpdated DEF Books
  <2>4. Len(counted') = n + 1
    BY <2>2, AppendProperties DEF Books, IsSequence
  <2>5. due' \/ (n + 1) % K = (n % K) + 1
    BY <1>1, <2>1, <2>3, NextRemainder
  <2>6. CASE ~unsaved /\ menu \notin {"resetRow", "allSnap"}
    <3>1. m <= n /\ inSnap = SubSeq(counted, 1, m) /\ n - m <= n % K
      BY <2>1, <2>6 DEF Behind
    <3>2. SubSeq(Append(counted, spin), 1, m) = SubSeq(counted, 1, m)
      BY <1>1, <3>1, PrefixKept DEF Books
    <3>. QED
      BY <1>1, <2>1, <2>2, <2>4, <2>5, <2>6, <3>1, <3>2 DEF Behind
  <2>7. CASE ~unsaved /\ menu = "resetRow"
    <3>1. n < K /\ n % K = n
      BY <1>1, <2>1, <2>7
    <3>2. n + 1 < K \/ (n + 1) % K = 0
      BY <1>1, <3>1
    <3>3. n + 1 < K \/ due'
      BY <2>1, <2>3, <3>2
    <3>. QED
      BY <2>1, <2>4, <2>7, <3>3
  <2>. QED
    BY <2>1, <2>6, <2>7
<1>5. CASE Save
  <2>1. /\ UNCHANGED <<counted, menu, due>> /\ pc = "save" /\ pc' = "decide"
        /\ \/ inSnap' = counted /\ (menu \in {"resetRow", "allSnap"} => unsaved')
           \/ unsaved'
    BY <1>5 DEF Save, Store, stats
  <2>2. CASE inSnap' = counted /\ (menu \in {"resetRow", "allSnap"} => unsaved')
    <3>1. SubSeq(counted, 1, n) = counted
      BY WholePrefix DEF Books
    <3>2. n - n <= n % K
      BY <1>1
    <3>. HIDE DEF WillSave
    <3>3. Behind'
      <4>1. counted' = counted /\ inSnap' = counted
        BY <2>1, <2>2
      <4>2. Len(inSnap') = n /\ Len(counted') = n /\ n <= n
        BY <1>1, <4>1
      <4>3. inSnap' = SubSeq(counted', 1, Len(inSnap'))
        BY <3>1, <4>1
      <4>4. Len(counted') - Len(inSnap') <= Len(counted') % SaveEvery
        BY <3>2, <4>2
      <4>. QED
        BY <4>2, <4>3, <4>4 DEF Behind
    <3>4. menu \in {"resetRow", "allSnap"} => unsaved'
      BY <2>2
    <3>. QED
      BY <2>1, <3>3, <3>4
  <2>. QED
    BY <2>1, <2>2
<1>6. CASE ResetStatistics
  <2>1. menu' = "resetRow" /\ counted' = <<>> /\ UNCHANGED <<pc, due, unsaved>>
    BY <1>6 DEF ResetStatistics, ForgetStatistics, saved, inRound
  <2>. QED
    BY <1>1, <2>1
<1>7. CASE ResetRow
  <2>1. menu = "resetRow" /\ menu' = "out" /\ inSnap' = <<>> /\ UNCHANGED <<pc, due, unsaved, counted>>
    BY <1>7 DEF ResetRow, DropSnapshot, stats, inRound
  <2>2. SubSeq(counted, 1, 0) = <<>> /\ Len(inSnap') = 0 /\ Len(counted') = n
    BY <2>1, NoPrefix DEF Books
  <2>3. inSnap' = SubSeq(counted', 1, Len(inSnap'))
    BY <2>1, <2>2
  <2>4. ~unsaved => WillSave' \/ n <= n % K
    BY <1>1, <2>1
  <2>. QED
    BY <1>1, <2>1, <2>2, <2>3, <2>4 DEF Behind
<1>8. CASE ClearAllSnapshot
  BY <1>8 DEF ClearAllSnapshot, inRound
<1>9. CASE ClearAllMemory
  BY <1>9 DEF ClearAllMemory, inRound, saved
<1>10. CASE Exit \/ Crash
  <2>1. menu' = "out" /\ pc' = "decide" /\ counted' = inSnap' /\ (inSnap' = counted \/ inSnap' = inSnap)
    BY <1>10 DEF Exit, Crash, Load, Store
  <2>2. IsSequence(inSnap')
    BY <2>1 DEF Books, IsSequence, Elements
  <2>3. /\ Len(inSnap') \in Nat /\ SubSeq(inSnap', 1, Len(inSnap')) = inSnap'
        /\ Len(inSnap') % K \in Nat
    BY <1>1, <2>1, <2>2, WholePrefix
  <2>4. Behind'
    BY <2>1, <2>3 DEF Behind
  <2>. QED
    BY <2>1, <2>4
<1>. QED
  BY <1>3, <1>4, <1>5, <1>6, <1>7, <1>8, <1>9, <1>10 DEF Next

-----------------------------------------------------------------------------
(* Types *)

\* A round may lose more than its bet.
Entry(r) == r.hour \in Hours /\ r.bet \in Nat /\ r.bet >= MinBet /\ r.change \in Int
Entered(q) == \A i \in DOMAIN q : Entry(q[i])
MostRows   == MaxLen + Slack

Typed ==
  /\ pc \in {"decide", "play", "append", "save"}
  /\ menu \in {"out", "rowsGone", "resetRow", "allRows", "allSnap"}
  /\ hour \in 0 .. LastHour /\ bet \in Nat /\ played \in 0 .. MaxRounds /\ events \in 0 .. MaxEvents
  /\ Len(history) <= MostRows + events /\ Len(rows) <= MostRows + events
  /\ Entered(history) /\ Entered(rows)
  /\ pc = "play" => bet >= MinBet
  /\ pc = "append" => Entry(round)
  /\ due \in BOOLEAN /\ cooling \in BOOLEAN /\ shifted \in BOOLEAN
  /\ torn \in BOOLEAN /\ unsaved \in BOOLEAN

\* Whatever the strategies say, a bet is at least the least one.
LEMMA BetsAreBets ==
  ASSUME NEW mult \in {100, S.lowMult, S.highMult}
  PROVE  CalculateBet(mult) \in Nat /\ CalculateBet(mult) >= MinBet
<1> DEFINE base == IF Sufficient(sa) /\ KellyPositive(sa) THEN Larger(MinBet, KellyBet) ELSE MinBet
<1>1. MinBet \in Nat /\ MaxBet \in Nat /\ KellyBet \in Nat /\ mult \in Nat
  BY RoundsAssumption
<1>2. base \in Nat
  BY <1>1 DEF Larger
<1>3. CalculateBet(mult) = Larger(MinBet, Capped((base * mult) \div 100))
  BY DEF CalculateBet
<1>. HIDE DEF base
<1>4. (base * mult) \div 100 \in Nat
  BY <1>1, <1>2
<1>5. Capped((base * mult) \div 100) \in Nat
  BY <1>1, <1>4 DEF Capped
<1>. QED
  BY <1>1, <1>3, <1>5 DEF Larger

\* Parsed or not, what a round changes is a number.
LEMMA ChangeIs == \A b \in Nat : \A result \in Results : Change(b, result) \in Int
<1>. TAKE b \in Nat
<1>. TAKE result \in Results
<1>1. CASE result.kind = "win" /\ result.amount \in Nat
  BY <1>1 DEF Change
<1>2. CASE result.kind = "loss" /\ result.amount \in Nat
  BY <1>2 DEF Change
<1>3. CASE result.kind = "none" /\ result.amount \in Int
  BY <1>3 DEF Change
<1>. QED
  BY <1>1, <1>2, <1>3, RoundsAssumption

\* A round enters a sequence of rounds, which may be cut.
LEMMA EntryAdded ==
  ASSUME NEW h, NEW e, IsSequence(h), Entered(h), Entry(e)
  PROVE  /\ Entered(Append(h, e)) /\ Len(Append(h, e)) = Len(h) + 1
         /\ Entered(LastOf(Append(h, e), MaxLen)) /\ Len(LastOf(Append(h, e), MaxLen)) <= MaxLen
         /\ Len(h) \in Nat
<1> DEFINE T  == Elements(h) \cup {e}
           hs == Append(h, e)
           cut == LastOf(hs, MaxLen)
<1>1. h \in Seq(T) /\ e \in T
  BY WidenSequence
<1>2. \A r \in T : Entry(r)
  BY DEF Entered, Elements
<1>. HIDE DEF T
<1>3. hs \in Seq(T) /\ Len(hs) = Len(h) + 1 /\ Len(h) \in Nat
  BY <1>1, AppendProperties, LenProperties
<1>. HIDE DEF hs
<1>4. cut \in Seq(T) /\ Len(cut) = IF Len(hs) <= MaxLen THEN Len(hs) ELSE MaxLen
  BY <1>3, LastOfIs, Bounds
<1>. HIDE DEF cut
<1>5. Len(cut) <= MaxLen
  BY <1>3, <1>4, Bounds
<1>6. ASSUME NEW q \in Seq(T) PROVE Entered(q)
  BY <1>2, ElementOfSeq, LenProperties DEF Entered
<1>. QED
  BY <1>3, <1>4, <1>5, <1>6 DEF hs, cut

\* The hours the model reaches are hours of a day.
LEMMA HoursUntilLast == LastHour \in Nat /\ 0 \in 0 .. LastHour /\ \A h \in 0 .. LastHour : h \in Hours
<1>1. LastHour \in 0 .. 23
  BY RoundsAssumption DEF Hours
<1>. QED
  BY <1>1 DEF Hours

LEMMA TypedInit == Init => Typed
<1>. SUFFICES ASSUME Init PROVE Typed
  OBVIOUS
<1>1. hour \in 0 .. LastHour /\ played \in 0 .. MaxRounds /\ events \in 0 .. MaxEvents
  BY HoursUntilLast, RoundsAssumption DEF Init
<1>2. history = <<>> /\ rows = <<>> /\ Entered(<<>>) /\ Len(<<>>) = 0 /\ 0 <= MostRows + events
  BY RoundsAssumption DEF Entered, Init, MostRows
<1>3. /\ pc = "decide" /\ menu = "out" /\ bet \in Nat
      /\ due \in BOOLEAN /\ cooling \in BOOLEAN /\ shifted \in BOOLEAN
      /\ torn \in BOOLEAN /\ unsaved \in BOOLEAN
  BY DEF Init
<1>. QED
  BY <1>1, <1>2, <1>3 DEF Typed

LEMMA TypedStep == AllSequences /\ Typed /\ [Next]_vars => Typed'
<1>. SUFFICES ASSUME AllSequences, Typed, [Next]_vars PROVE Typed'
  OBVIOUS
<1>. USE DEF Typed
<1>1. /\ MaxLen \in Nat \ {0} /\ Slack \in Nat /\ MaxRounds \in Nat /\ MaxEvents \in Nat
      /\ LastHour \in Hours /\ MostRows = MaxLen + Slack /\ MostRows \in Nat
  BY RoundsAssumption DEF MostRows
<1>2. Entered(<<>>) /\ Len(<<>>) = 0
  BY DEF Entered
<1>3. Event \/ events' = events => events' \in 0 .. MaxEvents /\ events <= events'
  BY <1>1 DEF Event
<1>13. ASSUME Event \/ events' = events
     PROVE  /\ Len(history) <= MostRows + events' /\ Len(rows) <= MostRows + events'
            /\ 0 <= MostRows + events'
  <2>1. Len(history) \in Nat /\ Len(rows) \in Nat
    BY LenProperties DEF AllSequences, IsSequence
  <2>2. events \in Nat /\ events' \in Nat /\ events <= events'
    BY <1>1, <1>3, <1>13
  <2>3. /\ Len(history) <= MostRows + events /\ Len(rows) <= MostRows + events
    OBVIOUS
  <2>4. \A k, m, e, f \in Nat : /\ k <= m + e /\ e <= f => k <= m + f
                               /\ 0 <= m + f
    OBVIOUS
  <2>5. MostRows \in Nat
    BY <1>1
  <2>. QED BY <2>1, <2>2, <2>3, <2>4, <2>5, Zenon
<1>4. CASE Decide
  <2>1. \E mult \in {100, S.lowMult, S.highMult} : bet' = CalculateBet(mult)
    BY <1>4 DEF Decide, RollingMultiplier
  <2>2. bet' \in Nat /\ bet' >= MinBet
    BY <2>1, BetsAreBets
  <2>3. cooling' \in BOOLEAN /\ shifted' \in BOOLEAN
    BY <1>4 DEF Decide, Resume, StayCalm, trailing
  <2>4. /\ pc' = "play"
        /\ UNCHANGED <<round, due, played, events, menu, hour, history, rows, torn, unsaved>>
    BY <1>4 DEF Decide, mirror, saved
  <2>. QED
    BY <2>2, <2>3, <2>4 DEF Entered
<1>5. CASE CoolDown \/ ResumeOnly
  <2>1. cooling' \in BOOLEAN /\ shifted' \in BOOLEAN
    BY <1>5 DEF CoolDown, ResumeOnly, Resume
  <2>2. UNCHANGED <<inRound, events, menu, hour, history, rows, torn, unsaved>>
    BY <1>5 DEF CoolDown, ResumeOnly, mirror, saved
  <2>. QED
    BY <2>1, <2>2 DEF inRound, Entered
<1>6. CASE Process
  <2>1. /\ pc = "play" /\ pc' = "append" /\ round'.bet = bet /\ round'.hour = hour
        /\ history' = LastOf(Append(history, round'), MaxLen)
        /\ played < MaxRounds /\ played' = played + 1
        /\ UNCHANGED <<bet, events, menu, hour, cooling, rows, unsaved>>
    BY <1>6 DEF Process, Remember, saved
  <2>2. due' \in BOOLEAN /\ shifted' \in BOOLEAN /\ torn' \in BOOLEAN
    <3>1. due' \in BOOLEAN
      BY <1>6 DEF Process
    <3>2. shifted' \in BOOLEAN
      BY <1>6 DEF Process
    <3>3. torn' \in BOOLEAN
      BY <1>6 DEF Process
    <3>. QED
      BY <3>1, <3>2, <3>3
  <2>3. Entry(round')
    <3>1. hour \in Hours /\ bet >= MinBet
      BY <2>1, HoursUntilLast
    <3>2. \E result \in Results : round'.change = Change(bet, result)
      BY <1>6 DEF Process
    <3>3. round'.change \in Int
      BY <3>2, ChangeIs
    <3>. QED
      BY <2>1, <3>1, <3>3 DEF Entry
  <2>4. Entered(history') /\ Len(history') <= MaxLen /\ Len(history') \in Nat
    <3>1. IsSequence(history) /\ Entered(history)
      BY DEF AllSequences
    <3>2. IsSequence(LastOf(Append(history, round'), MaxLen))
      BY <3>1, RoundAdded
    <3>. QED
      BY <2>1, <2>3, <3>1, <3>2, EntryAdded, LenProperties DEF IsSequence
  <2>5. Len(history') <= MostRows + events' /\ played' \in 0 .. MaxRounds
    BY <1>1, <2>1, <2>4
  <2>. QED
    BY <2>1, <2>2, <2>3, <2>4, <2>5 DEF Entered
<1>7. CASE AppendHistory
  <2>1. /\ pc = "append" /\ pc' \in {"save", "decide"}
        /\ UNCHANGED <<bet, due, played, menu, hour, history, cooling, shifted, unsaved>>
        /\ torn' \in BOOLEAN /\ (Event \/ events' = events)
        /\ rows' = rows \/ Insert(round) \/ (InsertLoose(round) /\ Event)
    BY <1>7 DEF AppendHistory, trailing, saved
  <2>2. Entry(round) /\ IsSequence(rows) /\ Entered(rows)
    BY <2>1 DEF AllSequences
  <2>3. /\ Entered(Append(rows, round)) /\ Len(Append(rows, round)) = Len(rows) + 1
        /\ Entered(LastOf(Append(rows, round), MaxLen))
        /\ Len(LastOf(Append(rows, round), MaxLen)) <= MaxLen
    BY <2>2, EntryAdded
  <2>4. Len(LastOf(Append(rows, round), MaxLen)) \in Nat /\ Len(rows) \in Nat
    BY <2>2, RoundAdded, LenProperties DEF IsSequence
  <2>5. events' \in 0 .. MaxEvents /\ events <= events'
    BY <1>3, <2>1
  <2>6. Entered(rows') /\ Len(rows') <= MostRows + events'
    <3>1. CASE rows' = rows
      BY <1>1, <2>2, <2>4, <2>5, <3>1 DEF Entered
    <3>2. CASE rows' = Append(rows, round) /\ ~(Len(Append(rows, round)) > MostRows)
      BY <1>1, <2>3, <2>4, <2>5, <3>2 DEF Entered
    <3>3. CASE rows' = LastOf(Append(rows, round), MaxLen)
      BY <1>1, <2>3, <2>4, <2>5, <3>3 DEF Entered
    <3>4. CASE InsertLoose(round) /\ Event
      <4>1. rows' = Append(rows, round) /\ events' = events + 1
        BY <3>4 DEF InsertLoose, Event
      <4>. QED BY <1>1, <2>3, <2>4, <2>5, <4>1 DEF Entered
    <3>. QED
      BY <1>1, <2>1, <3>1, <3>2, <3>3, <3>4 DEF Insert
  <2>. QED
    BY <1>13, <2>1, <2>5, <2>6 DEF Entered
<1>8. CASE Save
  <2>1. /\ pc' = "decide" /\ (Event \/ events' = events)
        /\ UNCHANGED <<bet, due, played, menu, hour, history, rows, torn, cooling, shifted>>
    BY <1>8 DEF Save, mirror, trailing
  <2>2. unsaved' \in BOOLEAN
    <3>1. unsaved' = TRUE \/ unsaved' = (menu \in {"resetRow", "allSnap"})
      BY <1>8, Zenon DEF Save
    <3>2. CASE unsaved' = (menu \in {"resetRow", "allSnap"})
      BY <3>2
    <3>. QED
      BY <3>1, <3>2
  <2>3. events' \in 0 .. MaxEvents
    BY <1>3, <2>1
  <2>. QED
    BY <1>13, <2>1, <2>3, <2>2 DEF Entered
<1>9. CASE \/ ClearRows \/ ResetStatistics \/ ResetRow \/ ClearAllRows \/ ClearAllSnapshot \/ ClearList
           \/ ClearAllMemory
  <2>1. /\ UNCHANGED inRound /\ hour' = hour /\ (Event \/ events' = events)
        /\ menu' \in {"out", "rowsGone", "resetRow", "allRows", "allSnap"}
    BY <1>9
       DEF ClearRows, ResetStatistics, ResetRow, ClearAllRows, ClearAllSnapshot, ClearList, ClearAllMemory
  <2>2. (rows' = rows \/ rows' = <<>>) /\ (history' = history \/ history' = <<>>)
    BY <1>9
       DEF ClearRows, ResetStatistics, ResetRow, ClearAllRows, ClearAllSnapshot, ClearList, ClearAllMemory,
           DropRows, ForgetHistory, mirror
  <2>3. torn' \in BOOLEAN /\ unsaved' \in BOOLEAN /\ shifted' \in BOOLEAN /\ cooling' = cooling
    BY <1>9
       DEF ClearRows, ResetStatistics, ResetRow, ClearAllRows, ClearAllSnapshot, ClearList, ClearAllMemory,
           DropRows, ForgetHistory, mirror, trailing, saved
  <2>4. events' \in 0 .. MaxEvents
    BY <1>3, <2>1
  <2>5. Entered(rows') /\ Entered(history') /\ Len(rows') <= MostRows + events' /\ Len(history') <= MostRows + events'
    BY <1>1, <1>2, <1>13, <2>1, <2>2
  <2>. QED
    BY <2>1, <2>3, <2>4, <2>5 DEF inRound
<1>10. CASE HourPasses
  <2>1. UNCHANGED <<inRound, menu, trailing, mirror, unsaved>> /\ hour' = hour + 1 /\ hour < LastHour /\ Event
    BY <1>10 DEF HourPasses, saved
  <2>2. events' \in 0 .. MaxEvents
    BY <1>3, <2>1
  <2>3. hour' \in 0 .. LastHour
    <3>1. LastHour \in Nat /\ hour \in 0 .. LastHour /\ hour < LastHour /\ hour' = hour + 1
      BY <2>1, HoursUntilLast
    <3>. QED
      BY <3>1
  <2>. QED
    BY <1>13, <2>1, <2>2, <2>3 DEF inRound, trailing, mirror, Entered
<1>11. CASE Exit \/ Crash
  <2>1. /\ pc' = "decide" /\ menu' = "out" /\ bet' = 0 /\ due' = FALSE
        /\ history' = rows /\ rows' = rows /\ torn' = FALSE /\ unsaved' = FALSE
        /\ cooling' = FALSE /\ shifted' = FALSE /\ hour' = hour /\ played' = played
        /\ (Event \/ events' = events)
    BY <1>11 DEF Exit, Crash, Load
  <2>2. events' \in 0 .. MaxEvents
    BY <1>3, <2>1
  <2>. QED
    BY <1>13, <2>1, <2>2 DEF Entered
<1>12. CASE UNCHANGED vars
  BY <1>12 DEF vars, inRound, trailing, mirror, saved, Entered
<1>. QED
  BY <1>4, <1>5, <1>6, <1>7, <1>8, <1>9, <1>10, <1>11, <1>12 DEF Next

-----------------------------------------------------------------------------
(* Sums *)

\* SumOf as a fold on sets.
AddAt(f, a, i) == a + f[i]
Nought(f)      == 0

Sums == INSTANCE FoldTheorems WITH Op <- AddAt, Base <- Nought

LEMMA SumIsFold == ASSUME NEW D, NEW f PROVE SumOf(D, f) = Sums!SetFold(f, D)
BY DEF SumOf, FoldSet, MapThenFoldSet, Sums!SetFold, Sums!FoldSet, Sums!MapThenFoldSet, AddAt, Nought

LEMMA SameFinite == ASSUME NEW D PROVE IsFiniteSet(D) <=> Sums!IsFiniteSet(D)
BY DEF IsFiniteSet, Sums!IsFiniteSet

LEMMA SumOfNone == \A f : SumOf({}, f) = 0
BY SumIsFold, Sums!SetFoldEmpty DEF Nought

LEMMA SumIsNumber ==
  ASSUME NEW D, IsFiniteSet(D), NEW f, \A i \in D : f[i] \in Int
  PROVE  SumOf(D, f) \in Int
<1>1. Nought(f) \in Int /\ \A a \in Int : \A i \in D : AddAt(f, a, i) \in Int
  BY DEF Nought, AddAt
<1>2. Sums!SetFold(f, D) \in Int
  BY <1>1, SameFinite, Sums!SetFoldType
<1>. QED
  BY <1>2, SumIsFold

\* g is f and one value more.
Prolongs(D, f, g, z) ==
  /\ IsFiniteSet(D) /\ z \notin D
  /\ g[z] \in Int /\ \A i \in D : f[i] \in Int /\ g[i] = f[i]

\* One index more, and a function that is as before on the others.
LEMMA SumGrows ==
  ASSUME NEW D, NEW f, NEW g, NEW z, Prolongs(D, f, g, z)
  PROVE  SumOf(D, g) = SumOf(D, f) /\ SumOf(D \cup {z}, g) = SumOf(D, f) + g[z]
<1>. USE DEF Prolongs
<1> DEFINE E == D \cup {z}
<1>1. IsFiniteSet(E) /\ z \in E /\ E \ {z} = D
  BY FS_AddElement
<1>2. /\ Nought(f) \in Int /\ Nought(f) = Nought(g)
      /\ \A a \in Int : \A i \in D : AddAt(f, a, i) \in Int /\ AddAt(f, a, i) = AddAt(g, a, i)
  BY DEF Nought, AddAt
<1>3. /\ \A a \in Int : \A i \in E : AddAt(g, a, i) \in Int
      /\ \A a \in Int : \A i, j \in E : AddAt(g, AddAt(g, a, i), j) = AddAt(g, AddAt(g, a, j), i)
  BY DEF AddAt
<1>. HIDE DEF E
<1>4. Sums!SetFold(f, D) = Sums!SetFold(g, D)
  BY <1>2, SameFinite, Sums!SetFoldSame
<1>5. Sums!SetFold(g, E) = AddAt(g, Sums!SetFold(g, E \ {z}), z)
  BY <1>1, <1>2, <1>3, SameFinite, Sums!SetFoldAdd
<1>. QED
  BY <1>1, <1>4, <1>5, SumIsFold DEF AddAt, E

-----------------------------------------------------------------------------
(* The drawdowns and the backtest *)

DrawRound(p, d, r) == [current |-> d.current + r.change, peak |-> Larger(d.peak, d.current + r.change)]
DrawStart(p)       == [current |-> 0, peak |-> 0]

ShowRound(p, d, r) ==
  LET net  == d.net + r.change
      peak == Larger(d.peak, net)
  IN [net |-> net, peak |-> peak, max |-> Larger(d.max, peak - net)]
ShowStart(p) == [net |-> 0, peak |-> 0, max |-> 0]

ReplayOf(p, a, r) == ReplayRound(a, r, p.s, HourlyStats(p.past), p.hourly, p.rolling, p.trailing)
Begin(p)          == ReplayStart

Draws   == INSTANCE FoldTheorems WITH Op <- DrawRound, Base <- DrawStart
Shows   == INSTANCE FoldTheorems WITH Op <- ShowRound, Base <- ShowStart
Replays == INSTANCE FoldTheorems WITH Op <- ReplayOf, Base <- Begin

LEMMA DrawdownPctIs ==
  /\ DrawdownPct(<<>>) = DrawStart(0)
  /\ \A X : \A h \in Seq(X) : \A r \in X : DrawdownPct(Append(h, r)) = DrawRound(0, DrawdownPct(h), r)
<1>1. \A h : DrawdownPct(h) = Draws!Fold(0, h)
  BY DEF DrawdownPct, FoldLeft, MapThenFoldSet, Max, DrawRound, DrawStart,
         Draws!Fold, Draws!FoldLeft, Draws!MapThenFoldSet, Draws!Max
<1>. QED
  BY <1>1, Draws!FoldEmpty, Draws!FoldAppend

LEMMA ComputeDrawdownIs ==
  /\ ComputeDrawdown(<<>>) = ShowStart(0)
  /\ \A X : \A h \in Seq(X) : \A r \in X :
       ComputeDrawdown(Append(h, r)) = ShowRound(0, ComputeDrawdown(h), r)
<1>1. \A h : ComputeDrawdown(h) = Shows!Fold(0, h)
  BY DEF ComputeDrawdown, FoldLeft, MapThenFoldSet, Max, ShowRound, ShowStart,
         Shows!Fold, Shows!FoldLeft, Shows!MapThenFoldSet, Shows!Max
<1>. QED
  BY <1>1, Shows!FoldEmpty, Shows!FoldAppend

\* The backtest with fixed tables of the hours.
LEMMA ReplayIs ==
  /\ \A h, s, hourly, rolling, tr :
       Replay(h, s, hourly, rolling, tr) =
         Replays!Fold([s |-> s, past |-> h, hourly |-> hourly, rolling |-> rolling, trailing |-> tr], h)
  /\ \A p : Replays!Fold(p, <<>>) = ReplayStart
  /\ \A p : \A X : \A h \in Seq(X) : \A r \in X :
       Replays!Fold(p, Append(h, r)) = ReplayOf(p, Replays!Fold(p, h), r)
<1>1. \A p : Replay(p.past, p.s, p.hourly, p.rolling, p.trailing) = Replays!Fold(p, p.past)
  BY DEF Replay, ReplayOf, FoldLeft, MapThenFoldSet, Max, Begin,
         Replays!Fold, Replays!FoldLeft, Replays!MapThenFoldSet, Replays!Max
<1>2. ASSUME NEW h, NEW s, NEW hourly, NEW rolling, NEW tr
      PROVE  Replay(h, s, hourly, rolling, tr) =
               Replays!Fold([s |-> s, past |-> h, hourly |-> hourly, rolling |-> rolling, trailing |-> tr], h)
  <2> DEFINE p == [s |-> s, past |-> h, hourly |-> hourly, rolling |-> rolling, trailing |-> tr]
  <2>1. p.s = s /\ p.past = h /\ p.hourly = hourly /\ p.rolling = rolling /\ p.trailing = tr
    OBVIOUS
  <2>. HIDE DEF p
  <2>2. Replay(h, s, hourly, rolling, tr) = Replays!Fold(p, h)
    BY <1>1, <2>1
  <2>. QED BY <2>2 DEF p
<1>. QED
  BY <1>2, Replays!FoldEmpty, Replays!FoldAppend DEF Begin

LEMMA ScaledByOne == \A x \in Int : Scaled(x, 100) = x
<1>. TAKE x \in Int
<1>1. (x * 100) \div 100 = x /\ (x * 100) % 100 = 0
  OBVIOUS
<1>. QED
  BY <1>1 DEF Scaled

LEMMA LargerIs ==
  \A a, b \in Int : /\ Larger(a, b) \in {a, b} /\ Larger(a, b) \in Int
                    /\ Larger(a, b) >= a /\ Larger(a, b) >= b
BY DEF Larger

ReplayFields == {"net", "peak", "maxDrawdown", "bets", "wins", "skippedHourly", "skippedTrailing",
                 "triggers", "cooldown", "window"}

\* A round that is played.
LEMMA PlayIs ==
  ASSUME NEW a, DOMAIN a = ReplayFields, NEW r, NEW s, NEW mult, NEW ro, NEW tr \in BOOLEAN
  PROVE  LET b    == Play(a, r, s, mult, ro, tr)
             net  == a.net + Scaled(r.change, mult)
             peak == Larger(a.peak, net)
         IN /\ DOMAIN b = ReplayFields
            /\ b.net = net /\ b.peak = peak
            /\ b.maxDrawdown = Larger(a.maxDrawdown, peak - net)
            /\ b.bets = a.bets + 1
            /\ b.skippedHourly = a.skippedHourly /\ b.skippedTrailing = a.skippedTrailing
            /\ \/ b.triggers = a.triggers /\ b.cooldown = a.cooldown
               \/ tr /\ b.triggers = a.triggers + 1 /\ b.cooldown = s.cooldownBets
<1> DEFINE b    == Play(a, r, s, mult, ro, tr)
           net  == a.net + Scaled(r.change, mult)
           peak == Larger(a.peak, net)
<1>1. DOMAIN b = ReplayFields
  BY DEF Play
<1>2. b.net = net
  BY DEF Play, ReplayFields
<1>3. b.peak = peak
  BY DEF Play, ReplayFields
<1>4. b.maxDrawdown = Larger(a.maxDrawdown, peak - net)
  BY DEF Play, ReplayFields
<1>5. b.bets = a.bets + 1 /\ b.skippedHourly = a.skippedHourly /\ b.skippedTrailing = a.skippedTrailing
  BY DEF Play, ReplayFields
<1>6. \/ b.triggers = a.triggers /\ b.cooldown = a.cooldown
      \/ tr /\ b.triggers = a.triggers + 1 /\ b.cooldown = s.cooldownBets
  BY DEF Play, ReplayFields
<1>. QED
  BY <1>1, <1>2, <1>3, <1>4, <1>5, <1>6

\* Without a strategy the backtest is the drawdown of the screen, and of the trailing stop.
LEMMA PlainReplay ==
  ASSUME NEW X, \A r \in X : r.change \in Int,
         NEW p, p.hourly = FALSE, p.rolling = FALSE, p.trailing = FALSE, NEW h \in Seq(X)
  PROVE  LET a == Replays!Fold(p, h)   d == ComputeDrawdown(h)   e == DrawdownPct(h) IN
         /\ a.net = d.net /\ a.maxDrawdown = d.max /\ a.peak = d.peak
         /\ e.peak = d.peak
<1> DEFINE Good(a, d, e) ==
             /\ DOMAIN a = ReplayFields
             /\ d.net \in Int /\ d.peak \in Int /\ d.max \in Int
             /\ a.net = d.net /\ a.maxDrawdown = d.max /\ a.peak = d.peak
             /\ e.current = d.net /\ e.peak = d.peak
           Q == {g \in Seq(X) : Good(Replays!Fold(p, g), ComputeDrawdown(g), DrawdownPct(g))}
<1>1. <<>> \in Q
  <2>1. Good(ReplayStart, ShowStart(0), DrawStart(0))
    BY DEF ReplayStart, ShowStart, DrawStart, ReplayFields
  <2>. HIDE DEF Good
  <2>. QED
    BY <2>1, ReplayIs, ComputeDrawdownIs, DrawdownPctIs
<1>2. ASSUME NEW g \in Seq(X), NEW r \in X, g \in Q PROVE Append(g, r) \in Q
  <2> DEFINE a == Replays!Fold(p, g)   d == ComputeDrawdown(g)   e == DrawdownPct(g)
  <2>1. Good(a, d, e) /\ r.change \in Int
    BY <1>2
  <2>2. /\ Replays!Fold(p, Append(g, r)) = ReplayOf(p, a, r)
        /\ ComputeDrawdown(Append(g, r)) = ShowRound(0, d, r)
        /\ DrawdownPct(Append(g, r)) = DrawRound(0, e, r)
    BY ReplayIs, ComputeDrawdownIs, DrawdownPctIs
  <2>. HIDE DEF a, d, e
  <2>3. DOMAIN a = ReplayFields /\ p.trailing \in BOOLEAN
    BY <2>1
  <2>4. ReplayOf(p, a, r) = Play(a, r, p.s, 100, p.rolling, p.trailing)
    BY DEF ReplayOf, ReplayRound
  <2>5. Scaled(r.change, 100) = r.change
    BY <2>1, ScaledByOne
  <2> DEFINE b == Play(a, r, p.s, 100, p.rolling, p.trailing)   net == a.net + r.change   peak == Larger(a.peak, net)
  <2>6. /\ DOMAIN b = ReplayFields /\ b.net = net /\ b.peak = peak
        /\ b.maxDrawdown = Larger(a.maxDrawdown, peak - net)
    <3>. HIDE DEF Good
    <3>. QED
      BY <2>5, <2>3, PlayIs
  <2>7. net \in Int /\ peak \in Int /\ Larger(d.max, peak - net) \in Int
    <3>1. a.net \in Int /\ a.peak \in Int /\ d.max \in Int /\ r.change \in Int
      BY <2>1
    <3>2. net \in Int
      BY <3>1
    <3>. HIDE DEF net
    <3>3. peak \in Int
      BY <3>1, <3>2, LargerIs
    <3>. HIDE DEF peak
    <3>4. peak - net \in Int
      BY <3>2, <3>3
    <3>. QED
      BY <3>1, <3>2, <3>3, <3>4, LargerIs
  <2>. HIDE DEF b, net, peak
  <2>8. Good(b, ShowRound(0, d, r), DrawRound(0, e, r))
    BY <2>1, <2>6, <2>7 DEF ShowRound, DrawRound, net, peak
  <2>9. Append(g, r) \in Seq(X)
    OBVIOUS
  <2>. HIDE DEF Good
  <2>. QED
    BY <2>2, <2>4, <2>8, <2>9 DEF b
<1>3. h \in Q
  <2>. HIDE DEF Q
  <2>. QED BY <1>1, <1>2, Shows!SequenceInduction
<1>. QED
  BY <1>3

\* The rounds of a backtest, as counters.
Tally(a, n) ==
  /\ a.bets \in Nat /\ a.skippedHourly \in Nat /\ a.skippedTrailing \in Nat /\ a.cooldown \in Nat
  /\ n \in Nat /\ a.bets + a.skippedHourly + a.skippedTrailing = n

LEMMA TallyGrows ==
  ASSUME NEW a, NEW n, Tally(a, n)
  PROVE  /\ (a.bets + 1) + a.skippedHourly + a.skippedTrailing = n + 1 /\ a.bets + 1 \in Nat
         /\ a.bets + a.skippedHourly + (a.skippedTrailing + 1) = n + 1 /\ a.skippedTrailing + 1 \in Nat
         /\ a.skippedTrailing + a.cooldown = (a.skippedTrailing + 1) + (a.cooldown - 1)
BY DEF Tally

\* With any strategies each round is played or passed over, and each trigger passes over as many as set.
Usable(p) == p.trailing \in BOOLEAN /\ p.hourly \in BOOLEAN /\ p.s.cooldownBets \in Nat

Accounted(a, cooldownBets, n) ==
  /\ a.bets + a.skippedHourly + a.skippedTrailing = n
  /\ a.triggers * cooldownBets = a.skippedTrailing + a.cooldown

LEMMA ReplayCounts ==
  ASSUME NEW X, NEW p, Usable(p), NEW h \in Seq(X)
  PROVE  Accounted(Replays!Fold(p, h), p.s.cooldownBets, Len(h))
<1>. USE DEF Usable
<1> DEFINE K == p.s.cooldownBets
           Good(a, n) ==
             /\ DOMAIN a = ReplayFields
             /\ a.bets \in Nat /\ a.skippedHourly \in Nat /\ a.skippedTrailing \in Nat
             /\ a.triggers \in Nat /\ a.cooldown \in Nat
             /\ a.bets + a.skippedHourly + a.skippedTrailing = n
             /\ a.triggers * K = a.skippedTrailing + a.cooldown
             /\ ~p.trailing => a.cooldown = 0
           Q == {g \in Seq(X) : Good(Replays!Fold(p, g), Len(g))}
<1>1. <<>> \in Q
  <2>1. Good(ReplayStart, 0)
    BY DEF ReplayStart, ReplayFields
  <2>. HIDE DEF Good
  <2>. QED
    BY <2>1, ReplayIs
<1>2. ASSUME NEW g \in Seq(X), NEW r \in X, g \in Q PROVE Append(g, r) \in Q
  <2> DEFINE a == Replays!Fold(p, g)   n == Len(g)
  <2>1. Good(a, n) /\ n \in Nat
    BY <1>2
  <2>2. Replays!Fold(p, Append(g, r)) = ReplayOf(p, a, r)
    BY ReplayIs
  <2>3. Append(g, r) \in Seq(X) /\ Len(Append(g, r)) = n + 1
    OBVIOUS
  <2>. HIDE DEF a, n
  <2> DEFINE mult == IF p.rolling THEN WindowMultiplier(a, p.s) ELSE 100
             b    == Play(a, r, p.s, mult, p.rolling, p.trailing)
  <2>4. CASE p.trailing /\ a.cooldown > 0
    <3>1. ReplayOf(p, a, r) = PassOver(a)
      BY <2>4 DEF ReplayOf, ReplayRound
    <3>2. /\ DOMAIN PassOver(a) = ReplayFields
          /\ PassOver(a).bets = a.bets /\ PassOver(a).skippedHourly = a.skippedHourly
          /\ PassOver(a).skippedTrailing = a.skippedTrailing + 1
          /\ PassOver(a).triggers = a.triggers /\ PassOver(a).cooldown = a.cooldown - 1
      BY <2>1 DEF PassOver, ReplayFields
    <3>3. PassOver(a).triggers * K = a.triggers * K
      BY <3>2
    <3>4. /\ a.bets \in Nat /\ a.skippedHourly \in Nat /\ a.skippedTrailing \in Nat /\ a.triggers \in Nat
          /\ a.cooldown \in Nat /\ a.cooldown - 1 \in Nat /\ n \in Nat /\ a.triggers * K \in Nat
          /\ a.bets + a.skippedHourly + a.skippedTrailing = n
          /\ a.triggers * K = a.skippedTrailing + a.cooldown
      <4>1. /\ a.bets \in Nat /\ a.skippedHourly \in Nat /\ a.skippedTrailing \in Nat /\ a.triggers \in Nat
            /\ a.cooldown \in Nat /\ n \in Nat
            /\ a.bets + a.skippedHourly + a.skippedTrailing = n
            /\ a.triggers * K = a.skippedTrailing + a.cooldown
        BY <2>1, Zenon
      <4>. HIDE DEF K
      <4>2. a.cooldown - 1 \in Nat /\ a.skippedTrailing + a.cooldown \in Nat
        BY <2>4, <4>1
      <4>. QED BY <4>1, <4>2, Zenon
    <3>5. /\ a.skippedTrailing + a.cooldown = (a.skippedTrailing + 1) + (a.cooldown - 1)
          /\ a.skippedTrailing + 1 \in Nat
          /\ a.bets + a.skippedHourly + (a.skippedTrailing + 1) = n + 1
      <4>1. Tally(a, n)
        BY <3>4, Zenon DEF Tally
      <4>. QED
        BY <4>1, TallyGrows, Zenon
    <3>6. Good(PassOver(a), n + 1)
      BY <2>4, <3>2, <3>4, <3>5, Zenon
    <3>. HIDE DEF Good
    <3>. QED
      BY <2>2, <2>3, <3>1, <3>6
  <2>5. CASE ~(p.trailing /\ a.cooldown > 0) /\ ReplayOf(p, a, r) = [a EXCEPT !.skippedHourly = @ + 1]
    <3>1. Good([a EXCEPT !.skippedHourly = @ + 1], n + 1)
      <4>. HIDE DEF K
      <4>. QED BY <2>1 DEF ReplayFields
    <3>. HIDE DEF Good
    <3>. QED
      BY <2>2, <2>3, <2>5, <3>1
  <2>6. CASE ~(p.trailing /\ a.cooldown > 0) /\ ReplayOf(p, a, r) = b
    <3>1. a.cooldown = 0
      BY <2>1, <2>6
    <3>2. DOMAIN a = ReplayFields
      BY <2>1
    <3>3. /\ DOMAIN b = ReplayFields /\ b.bets = a.bets + 1
          /\ b.skippedHourly = a.skippedHourly /\ b.skippedTrailing = a.skippedTrailing
          /\ \/ b.triggers = a.triggers /\ b.cooldown = a.cooldown
             \/ p.trailing /\ b.triggers = a.triggers + 1 /\ b.cooldown = K
      <4>. HIDE DEF Good, mult
      <4>. QED BY <3>2, PlayIs
    <3>. HIDE DEF b, mult
    <3>4. /\ a.bets \in Nat /\ a.skippedHourly \in Nat /\ a.skippedTrailing \in Nat /\ a.triggers \in Nat
          /\ a.cooldown \in Nat /\ n \in Nat /\ K \in Nat
          /\ a.bets + a.skippedHourly + a.skippedTrailing = n
          /\ a.triggers * K = a.skippedTrailing + a.cooldown
      BY <2>1
    <3>. HIDE DEF K
    <3>5. (a.triggers + 1) * K = a.triggers * K + K
      BY <3>4
    <3>6. b.triggers * K = b.skippedTrailing + b.cooldown
      BY <3>1, <3>3, <3>4, <3>5
    <3>7. /\ b.bets \in Nat /\ b.skippedHourly \in Nat /\ b.skippedTrailing \in Nat
          /\ b.triggers \in Nat /\ b.cooldown \in Nat
          /\ b.bets + b.skippedHourly + b.skippedTrailing = n + 1
          /\ ~p.trailing => b.cooldown = 0
      <4>1. Tally(a, n)
        BY <3>4, Zenon DEF Tally
      <4>2. a.triggers \in Nat /\ a.triggers + 1 \in Nat /\ a.skippedHourly \in Nat
            /\ a.skippedTrailing \in Nat /\ a.cooldown \in Nat /\ K \in Nat
        BY <3>4
      <4>3. a.bets + 1 \in Nat /\ (a.bets + 1) + a.skippedHourly + a.skippedTrailing = n + 1
        BY <4>1, TallyGrows, Zenon
      <4>4. /\ b.bets \in Nat /\ b.skippedHourly \in Nat /\ b.skippedTrailing \in Nat
            /\ b.bets + b.skippedHourly + b.skippedTrailing = n + 1
        BY <3>3, <4>2, <4>3, Zenon
      <4>5. b.triggers \in Nat /\ b.cooldown \in Nat /\ (~p.trailing => b.cooldown = 0)
        BY <3>1, <3>3, <4>2, Zenon
      <4>. QED BY <4>4, <4>5, Zenon
    <3>8. Good(b, n + 1)
      BY <3>3, <3>6, <3>7, Zenon
    <3>. HIDE DEF Good
    <3>. QED
      BY <2>2, <2>3, <2>6, <3>8
  <2>7. CASE ~(p.trailing /\ a.cooldown > 0)
    <3>1. ReplayOf(p, a, r) \in {[a EXCEPT !.skippedHourly = @ + 1], b}
      BY <2>7 DEF ReplayOf, ReplayRound
    <3>. QED
      BY <2>5, <2>6, <2>7, <3>1
  <2>. QED
    BY <2>4, <2>7
<1>3. h \in Q
  <2>. HIDE DEF Q
  <2>. QED BY <1>1, <1>2, Shows!SequenceInduction
<1>. QED
  BY <1>3 DEF Accounted
\* The profit after some rounds, and after one more.
LEMMA NetIs ==
  ASSUME NEW X, \A r \in X : r.change \in Int, NEW h \in Seq(X)
  PROVE  /\ \A m \in 0 .. Len(h) : Net(h, m) \in Int
         /\ \A r \in X : /\ \A m \in 0 .. Len(h) : Net(Append(h, r), m) = Net(h, m)
                         /\ Net(Append(h, r), Len(h) + 1) = Net(h, Len(h)) + r.change
<1> DEFINE n == Len(h)
           F(q, m) == [i \in 1 .. m |-> q[i].change]
<1>1. n \in Nat /\ \A i \in 1 .. n : h[i] \in X /\ h[i].change \in Int
  OBVIOUS
<1>2. ASSUME NEW m \in 0 .. n PROVE Net(h, m) \in Int
  <2>1. m \in Int /\ 1 \in Int /\ \A i \in 1 .. m : i \in 1 .. n
    BY <1>1
  <2>2. IsFiniteSet(1 .. m)
    BY <2>1, FS_Interval
  <2>3. \A i \in 1 .. m : F(h, m)[i] \in Int
    BY <1>1, <2>1
  <2>. HIDE DEF F
  <2>4. SumOf(1 .. m, F(h, m)) \in Int
    BY <2>2, <2>3, SumIsNumber
  <2>. QED
    BY <2>4 DEF Net, F
<1>3. ASSUME NEW r \in X
      PROVE  /\ \A m \in 0 .. n : Net(Append(h, r), m) = Net(h, m)
             /\ Net(Append(h, r), n + 1) = Net(h, n) + r.change
  <2> DEFINE q == Append(h, r)
  <2>1. q[n + 1] = r /\ \A i \in 1 .. n : q[i] = h[i]
    OBVIOUS
  <2>. HIDE DEF q, n
  <2>2. ASSUME NEW m \in 0 .. n PROVE Net(q, m) = Net(h, m)
    <3>1. F(q, m) = F(h, m)
      BY <1>1, <2>1
    <3>. HIDE DEF F
    <3>2. Net(q, m) = SumOf(1 .. m, F(q, m)) /\ Net(h, m) = SumOf(1 .. m, F(h, m))
      BY DEF Net, F
    <3>. QED BY <3>1, <3>2
  <2>3. Net(q, n + 1) = Net(h, n) + r.change
    <3> DEFINE z == n + 1   D == 1 .. n   f == F(h, n)   g == F(q, z)
    <3>1. z \notin D /\ D \cup {z} = 1 .. z /\ 1 \in Int /\ n \in Int
      BY <1>1
    <3>2. IsFiniteSet(D)
      BY <3>1, FS_Interval
    <3>3. g[z] = r.change /\ \A i \in D : f[i] = h[i].change /\ g[i] = q[i].change
      BY <1>1, <2>1
    <3>4. g[z] \in Int /\ \A i \in D : f[i] \in Int /\ g[i] = f[i]
      BY <1>1, <2>1, <3>3
    <3>5. Net(q, z) = SumOf(1 .. z, g) /\ Net(h, n) = SumOf(D, f)
      BY DEF Net
    <3>. HIDE DEF D, f, g, z
    <3>6. Prolongs(D, f, g, z)
      BY <3>1, <3>2, <3>4 DEF Prolongs
    <3>7. SumOf(D \cup {z}, g) = SumOf(D, f) + g[z]
      BY <3>6, SumGrows
    <3>. QED BY <3>1, <3>3, <3>5, <3>7 DEF z
  <2>. QED BY <2>2, <2>3 DEF q
<1>. QED
  BY <1>2, <1>3

\* The drawdown of the screen is the largest fall between two moments.
LEMMA FallsIs ==
  ASSUME NEW X, \A r \in X : r.change \in Int, NEW h \in Seq(X)
  PROVE  ComputeDrawdown(h).max = LargestFall(h)
<1> DEFINE Good(q, d) ==
             /\ d.net \in Int /\ d.peak \in Int /\ d.max \in Int
             /\ d.net = Net(q, Len(q))
             /\ \A m \in 0 .. Len(q) : Net(q, m) <= d.peak
             /\ \E m \in 0 .. Len(q) : d.peak = Net(q, m)
             /\ \A k, m \in 0 .. Len(q) : k <= m => Net(q, k) - Net(q, m) <= d.max
             /\ \E k, m \in 0 .. Len(q) : k <= m /\ d.max = Net(q, k) - Net(q, m)
           Q == {g \in Seq(X) : Good(g, ComputeDrawdown(g))}
<1>1. <<>> \in Q
  <2>1. Net(<<>>, 0) = 0
    <3>1. 1 .. 0 = {}
      OBVIOUS
    <3>. QED BY <3>1, SumOfNone DEF Net
  <2>2. Len(<<>>) = 0 /\ 0 .. 0 = {0}
    OBVIOUS
  <2>3. Good(<<>>, ShowStart(0))
    BY <2>1, <2>2 DEF ShowStart
  <2>. HIDE DEF Good
  <2>. QED BY <2>3, ComputeDrawdownIs
<1>2. ASSUME NEW g \in Seq(X), NEW r \in X, g \in Q PROVE Append(g, r) \in Q
  <2> DEFINE n == Len(g)   d == ComputeDrawdown(g)   q == Append(g, r)
             net == d.net + r.change   peak == Larger(d.peak, net)   max == Larger(d.max, peak - net)
  <2>1. Good(g, d) /\ r.change \in Int
    BY <1>2
  <2>2. n \in Nat /\ q \in Seq(X) /\ Len(q) = n + 1
    OBVIOUS
  <2>3. ComputeDrawdown(q) = ShowRound(0, d, r)
    BY ComputeDrawdownIs
  <2>4. /\ \A m \in 0 .. n : Net(g, m) \in Int /\ Net(q, m) = Net(g, m)
        /\ Net(q, n + 1) = Net(g, n) + r.change
    BY NetIs
  <2>. HIDE DEF d, q
  <2>5. /\ d.net \in Int /\ d.peak \in Int /\ d.max \in Int /\ d.net = Net(g, n)
        /\ \A m \in 0 .. n : Net(g, m) <= d.peak
        /\ \E m \in 0 .. n : d.peak = Net(g, m)
        /\ \A k, m \in 0 .. n : k <= m => Net(g, k) - Net(g, m) <= d.max
        /\ \E k, m \in 0 .. n : k <= m /\ d.max = Net(g, k) - Net(g, m)
    BY <2>1
  <2>. HIDE DEF Good, n
  <2>6. net \in Int /\ net = Net(q, n + 1)
    BY <2>1, <2>4, <2>5
  <2>. HIDE DEF net
  <2>7. peak \in {d.peak, net} /\ peak \in Int /\ peak >= d.peak /\ peak >= net
    BY <2>5, <2>6, LargerIs
  <2>. HIDE DEF peak
  <2>8. peak - net \in Int
    BY <2>6, <2>7
  <2>9. max \in {d.max, peak - net} /\ max \in Int /\ max >= d.max /\ max >= peak - net
    BY <2>5, <2>8, LargerIs
  <2>. HIDE DEF max
  <2>10. \A m \in 0 .. n + 1 : m \in 0 .. n \/ m = n + 1
    BY <2>2
  <2>11. 0 .. n \subseteq 0 .. n + 1 /\ n + 1 \in 0 .. n + 1 /\ \A m \in 0 .. n : ~(n + 1 <= m) /\ m <= n + 1
    BY <2>2
  <2>12. ASSUME NEW m \in 0 .. n + 1 PROVE Net(q, m) <= peak
    <3>1. CASE m \in 0 .. n
      <4>1. Net(q, m) \in Int /\ Net(q, m) <= d.peak
        BY <2>4, <2>5, <3>1
      <4>. QED BY <4>1, <2>5, <2>7
    <3>2. CASE m = n + 1
      BY <3>2, <2>6, <2>7
    <3>. QED BY <2>10, <3>1, <3>2
  <2>13. \E m \in 0 .. n + 1 : peak = Net(q, m)
    <3>1. CASE peak = net
      BY <3>1, <2>6, <2>11
    <3>2. CASE peak = d.peak
      BY <3>2, <2>4, <2>5, <2>11
    <3>. QED BY <2>7, <3>1, <3>2
  <2>14. ASSUME NEW k \in 0 .. n + 1, NEW m \in 0 .. n + 1, k <= m PROVE Net(q, k) - Net(q, m) <= max
    <3>1. CASE m = n + 1
      <4>1. Net(q, k) <= peak /\ Net(q, m) = net
        BY <3>1, <2>6, <2>12
      <4>2. Net(q, k) \in Int
        BY <2>4, <2>6, <2>10
      <4>. QED BY <4>1, <4>2, <2>6, <2>7, <2>9
    <3>2. CASE m \in 0 .. n
      <4>1. k \in 0 .. n
        BY <2>10, <2>11, <2>14, <3>2
      <4>2. /\ Net(q, k) = Net(g, k) /\ Net(q, m) = Net(g, m) /\ Net(g, k) \in Int /\ Net(g, m) \in Int
            /\ Net(g, k) - Net(g, m) <= d.max
        BY <2>4, <2>5, <2>14, <3>2, <4>1
      <4>. QED BY <4>2, <2>5, <2>9
    <3>. QED BY <2>10, <3>1, <3>2
  <2>15. \E k, m \in 0 .. n + 1 : k <= m /\ max = Net(q, k) - Net(q, m)
    <3>1. CASE max = d.max
      <4>1. PICK k \in 0 .. n, m \in 0 .. n : k <= m /\ d.max = Net(g, k) - Net(g, m)
        BY <2>5
      <4>2. Net(g, k) = Net(q, k) /\ Net(g, m) = Net(q, m) /\ k \in 0 .. n + 1 /\ m \in 0 .. n + 1
        BY <2>4, <2>11
      <4>. QED BY <3>1, <4>1, <4>2
    <3>2. CASE max = peak - net
      <4>1. PICK k \in 0 .. n + 1 : peak = Net(q, k)
        BY <2>13
      <4>2. k <= n + 1
        BY <2>2
      <4>. QED BY <3>2, <4>1, <4>2, <2>6, <2>11
    <3>. QED BY <2>9, <3>1, <3>2
  <2>16. ShowRound(0, d, r) = [net |-> net, peak |-> peak, max |-> max]
    BY DEF ShowRound, net, peak, max
  <2> DEFINE D == ShowRound(0, d, r)
  <2>17. D.net = net /\ D.peak = peak /\ D.max = max
    BY <2>16
  <2>. HIDE DEF D
  <2>18. D.net \in Int /\ D.peak \in Int /\ D.max \in Int /\ D.net = Net(q, Len(q))
    BY <2>2, <2>6, <2>7, <2>9, <2>17
  <2>19. /\ \A m \in 0 .. Len(q) : Net(q, m) <= D.peak
         /\ \E m \in 0 .. Len(q) : D.peak = Net(q, m)
    BY <2>2, <2>12, <2>13, <2>17
  <2>20. /\ \A k, m \in 0 .. Len(q) : k <= m => Net(q, k) - Net(q, m) <= D.max
         /\ \E k, m \in 0 .. Len(q) : k <= m /\ D.max = Net(q, k) - Net(q, m)
    BY <2>2, <2>14, <2>15, <2>17
  <2>21. Good(q, ShowRound(0, d, r))
    BY <2>18, <2>19, <2>20, Zenon DEF Good, D
  <2>. QED
    BY <2>2, <2>3, <2>21 DEF q
<1>3. h \in Q
  <2>. HIDE DEF Q
  <2>. QED BY <1>1, <1>2, Shows!SequenceInduction
<1>4. Good(h, ComputeDrawdown(h)) /\ Len(h) \in Nat
  BY <1>3
<1> DEFINE d == ComputeDrawdown(h)
           moments == {m \in (0 .. Len(h)) \X (0 .. Len(h)) : m[1] <= m[2]}
           falls   == {Net(h, m[1]) - Net(h, m[2]) : m \in moments}
<1>5. d.max \in falls
  <2>1. PICK k \in 0 .. Len(h), m \in 0 .. Len(h) : k <= m /\ d.max = Net(h, k) - Net(h, m)
    BY <1>4
  <2>2. <<k, m>> \in moments
    BY <2>1
  <2>. QED BY <2>1, <2>2
<1>6. \A y \in falls : y <= d.max /\ y \in Int
  <2>1. \A m \in 0 .. Len(h) : Net(h, m) \in Int
    BY NetIs
  <2>2. ASSUME NEW m \in moments PROVE Net(h, m[1]) - Net(h, m[2]) <= d.max /\ Net(h, m[1]) - Net(h, m[2]) \in Int
    <3>1. m[1] \in 0 .. Len(h) /\ m[2] \in 0 .. Len(h) /\ m[1] <= m[2]
      OBVIOUS
    <3>2. d.max \in Int /\ \A k, j \in 0 .. Len(h) : k <= j => Net(h, k) - Net(h, j) <= d.max
      BY <1>4
    <3>. HIDE DEF d, moments, falls
    <3>. QED BY <2>1, <3>1, <3>2
  <2>. HIDE DEF moments
  <2>. QED BY <2>2
<1>7. d.max \in Int
  BY <1>4
<1>. HIDE DEF d, falls, Good, Q
<1>8. d.max \in falls /\ \A y \in falls : d.max >= y
  BY <1>5, <1>6, <1>7
<1>9. Max(falls) \in falls /\ \A y \in falls : Max(falls) >= y
  BY <1>8 DEF Max
<1>10. Max(falls) = d.max
  BY <1>6, <1>7, <1>8, <1>9
<1>. QED
  BY <1>10 DEF LargestFall, d, falls
-----------------------------------------------------------------------------
(* The two tables of the hours *)

Placed(r) == r.bet \in Int /\ r.change \in Int /\ r.hour \in Hours \cup {NoHour}

\* What a round adds to the row of its hour.
Added(row, r) ==
  [bets    |-> row.bets + 1,
   wins    |-> IF r.change > 0 THEN row.wins + 1 ELSE row.wins,
   wagered |-> row.wagered + r.bet,
   won     |-> row.won + (r.bet + r.change)]

\* The elements of a longer sequence that satisfy a condition.
LEMMA CountGrows ==
  ASSUME NEW D, IsFiniteSet(D), NEW z, z \notin D
  PROVE  IsFiniteSet(D \cup {z}) /\ Cardinality(D \cup {z}) = Cardinality(D) + 1 /\ Cardinality(D) \in Nat
BY FS_AddElement, FS_CardinalityType

\* One round more touches the row of its hour alone.
LEMMA HourGrows ==
  ASSUME NEW X, \A r \in X : Placed(r), NEW g \in Seq(X), NEW r \in X, NEW h \in Hours
  PROVE  HourlyStats(Append(g, r))[h] =
           IF r.hour = h THEN Added(HourlyStats(g)[h], r) ELSE HourlyStats(g)[h]
<1> DEFINE q == Append(g, r)   n == Len(g)   z == n + 1
           At(s)  == {i \in DOMAIN s : s[i].hour = h}
           Won(s) == {i \in At(s) : s[i].change > 0}
           Bet(s, D) == [i \in D |-> s[i].bet]
           Back(s, D) == [i \in D |-> s[i].bet + s[i].change]
           Row(s) == [bets |-> Cardinality(At(s)), wins |-> Cardinality(Won(s)),
                      wagered |-> SumOf(At(s), Bet(s, At(s))), won |-> SumOf(At(s), Back(s, At(s)))]
<1>1. /\ n \in Nat /\ q[z] = r /\ \A i \in 1 .. n : q[i] = g[i] /\ g[i] \in X
      /\ DOMAIN q = (1 .. n) \cup {z} /\ DOMAIN g = 1 .. n /\ z \notin 1 .. n
  OBVIOUS
<1>2. HourlyStats(q)[h] = Row(q) /\ HourlyStats(g)[h] = Row(g)
  BY DEF HourlyStats
<1> DEFINE A == At(g)   W == Won(g)
<1>3. IsFiniteSet(A) /\ IsFiniteSet(W) /\ z \notin A /\ z \notin W
  <2>1. IsFiniteSet(1 .. n)
    BY <1>1, FS_Interval
  <2>2. A \subseteq 1 .. n /\ W \subseteq 1 .. n
    BY <1>1
  <2>. HIDE DEF A, W, n, z
  <2>. QED BY <1>1, <2>1, <2>2, FS_Subset
<1>4. \A i \in A : q[i] = g[i] /\ Placed(g[i])
  BY <1>1
<1>5. Placed(r)
  OBVIOUS
<1>6. CASE r.hour # h
  <2>1. At(q) = A /\ Won(q) = W
    <3>. HIDE DEF q, n, z
    <3>. QED BY <1>1, <1>6
  <2>2. Bet(q, A) = Bet(g, A) /\ Back(q, A) = Back(g, A)
    BY <1>4
  <2>3. Row(q) = Row(g)
    <3>. HIDE DEF At, Won, Bet, Back, q
    <3>. QED BY <2>1, <2>2
  <2>. QED BY <1>2, <1>6, <2>3
<1>7. CASE r.hour = h
  <2>1. At(q) = A \cup {z} /\ Won(q) = IF r.change > 0 THEN W \cup {z} ELSE W
    <3>. HIDE DEF q, n, z
    <3>. QED BY <1>1, <1>7
  <2> DEFINE B == A \cup {z}
  <2>2. /\ \A i \in A : Bet(g, A)[i] \in Int /\ Bet(q, B)[i] = Bet(g, A)[i]
        /\ Bet(q, B)[z] = r.bet /\ r.bet \in Int
    BY <1>1, <1>4, <1>5 DEF Placed
  <2>3. /\ \A i \in A : Back(g, A)[i] \in Int /\ Back(q, B)[i] = Back(g, A)[i]
        /\ Back(q, B)[z] = r.bet + r.change /\ r.bet + r.change \in Int
    BY <1>1, <1>4, <1>5 DEF Placed
  <2>. HIDE DEF At, Won, Bet, Back, A, W, q, n, z
  <2>4. Cardinality(B) = Cardinality(A) + 1 /\ Cardinality(W \cup {z}) = Cardinality(W) + 1
    BY <1>3, CountGrows
  <2>5. SumOf(B, Bet(q, B)) = SumOf(A, Bet(g, A)) + r.bet
    <3>1. Prolongs(A, Bet(g, A), Bet(q, B), z)
      <4>. HIDE DEF B
      <4>. QED BY <1>3, <2>2 DEF Prolongs
    <3>. QED BY <2>2, <3>1, SumGrows
  <2>6. SumOf(B, Back(q, B)) = SumOf(A, Back(g, A)) + (r.bet + r.change)
    <3>1. Prolongs(A, Back(g, A), Back(q, B), z)
      <4>. HIDE DEF B
      <4>. QED BY <1>3, <2>3 DEF Prolongs
    <3>. QED BY <2>3, <3>1, SumGrows
  <2>7. Row(q) = Added(Row(g), r)
    <3>1. At(q) = B /\ At(g) = A /\ Won(g) = W
      BY <2>1 DEF A, W
    <3>. HIDE DEF B
    <3>. QED BY <2>1, <2>4, <2>5, <2>6, <3>1 DEF Added
  <2>. QED BY <1>2, <1>7, <2>7 DEF q
<1>. QED
  BY <1>6, <1>7

AddHour(p, table, r) ==
  IF r.hour = NoHour THEN table
  ELSE [table EXCEPT ![r.hour] =
         [bets    |-> @.bets + 1,
          wins    |-> IF r.change > 0 THEN @.wins + 1 ELSE @.wins,
          wagered |-> @.wagered + r.bet,
          won     |-> @.won + Larger(0, r.change + r.bet)]]
NoBets(p) == [h \in Hours |-> [bets |-> 0, wins |-> 0, wagered |-> 0, won |-> 0]]

Tables == INSTANCE FoldTheorems WITH Op <- AddHour, Base <- NoBets

\* The rounds of an hour that lost more than their bet, and what they lost beyond it.
Short(g, h)  == {i \in DOMAIN g : g[i].hour = h /\ g[i].bet + g[i].change < 0}
Beyond(g, h) == SumOf(Short(g, h), [i \in Short(g, h) |-> g[i].bet + g[i].change])

LEMMA BeyondGrows ==
  ASSUME NEW X, \A r \in X : Placed(r), NEW g \in Seq(X), NEW r \in X, NEW h \in Hours
  PROVE  Beyond(Append(g, r), h) =
           IF r.hour = h /\ r.bet + r.change < 0 THEN Beyond(g, h) + (r.bet + r.change) ELSE Beyond(g, h)
<1> DEFINE q == Append(g, r)   n == Len(g)   z == n + 1   A == Short(g, h)
           Back(s, D) == [i \in D |-> s[i].bet + s[i].change]
<1>1. /\ n \in Nat /\ q[z] = r /\ \A i \in 1 .. n : q[i] = g[i] /\ g[i] \in X
      /\ DOMAIN q = (1 .. n) \cup {z} /\ DOMAIN g = 1 .. n /\ z \notin 1 .. n
  OBVIOUS
<1>2. Beyond(q, h) = SumOf(Short(q, h), Back(q, Short(q, h))) /\ Beyond(g, h) = SumOf(A, Back(g, A))
  BY DEF Beyond
<1>3. IsFiniteSet(A) /\ z \notin A
  <2>1. IsFiniteSet(1 .. n)
    BY <1>1, FS_Interval
  <2>2. A \subseteq 1 .. n
    BY <1>1 DEF Short
  <2>. HIDE DEF A, n, z
  <2>. QED BY <1>1, <2>1, <2>2, FS_Subset
<1>4. \A i \in A : q[i] = g[i] /\ Placed(g[i])
  BY <1>1 DEF Short
<1>5. Placed(r)
  OBVIOUS
<1>6. CASE ~(r.hour = h /\ r.bet + r.change < 0)
  <2>1. Short(q, h) = A
    <3>. HIDE DEF q, n, z
    <3>. QED BY <1>1, <1>6 DEF Short
  <2>2. Back(q, A) = Back(g, A)
    BY <1>4
  <2>3. Beyond(q, h) = Beyond(g, h)
    <3>. HIDE DEF Back, q, A
    <3>. QED BY <1>2, <2>1, <2>2
  <2>. QED BY <1>6, <2>3
<1>7. CASE r.hour = h /\ r.bet + r.change < 0
  <2> DEFINE B == A \cup {z}
  <2>1. Short(q, h) = B
    <3>. HIDE DEF q, n, z
    <3>. QED BY <1>1, <1>7 DEF Short
  <2>2. /\ \A i \in A : Back(g, A)[i] \in Int /\ Back(q, B)[i] = Back(g, A)[i]
        /\ Back(q, B)[z] = r.bet + r.change /\ r.bet + r.change \in Int
    <3>1. q[z] = r /\ \A i \in A : q[i] = g[i] /\ Placed(g[i])
      BY <1>1, <1>4
    <3>. HIDE DEF A, q, z
    <3>. QED BY <1>5, <3>1 DEF Placed
  <2>. HIDE DEF Back, A, q, n, z
  <2>3. Prolongs(A, Back(g, A), Back(q, B), z)
    <3>. HIDE DEF B
    <3>. QED BY <1>3, <2>2 DEF Prolongs
  <2>4. SumOf(B, Back(q, B)) = SumOf(A, Back(g, A)) + (r.bet + r.change)
    BY <2>2, <2>3, SumGrows
  <2>. QED BY <1>2, <1>7, <2>1, <2>4 DEF q
<1>. QED
  BY <1>6, <1>7

\* The row of the screen, from that of the filter and what it does not count.
Shown(row, b)   == [bets |-> row.bets, wins |-> row.wins, wagered |-> row.wagered, won |-> row.won - b]
ShownTable(g)   == [h \in Hours |-> Shown(HourlyStats(g)[h], Beyond(g, h))]
Numbers(g)      == \A h \in Hours : HourlyStats(g)[h].won \in Int /\ Beyond(g, h) \in Int

\* The table of the screen is that of the filter but for what was lost beyond the bet.
LEMMA TablesDiffer ==
  ASSUME NEW X, \A r \in X : Placed(r), NEW h \in Seq(X)
  PROVE  HourlyBreakdown(h) = ShownTable(h) /\ Numbers(h)
<1> DEFINE Q == {g \in Seq(X) : HourlyBreakdown(g) = ShownTable(g) /\ Numbers(g)}
<1>1. HourlyBreakdown(<<>>) = NoBets(0)
      /\ \A g \in Seq(X) : \A r \in X : HourlyBreakdown(Append(g, r)) = AddHour(0, HourlyBreakdown(g), r)
  <2>1. \A g : HourlyBreakdown(g) = Tables!Fold(0, g)
    BY DEF HourlyBreakdown, FoldLeft, MapThenFoldSet, Max, AddHour, NoBets,
           Tables!Fold, Tables!FoldLeft, Tables!MapThenFoldSet, Tables!Max
  <2>. QED
    BY <2>1, Tables!FoldEmpty, Tables!FoldAppend
<1>2. <<>> \in Q
  <2>1. ASSUME NEW s, DOMAIN s = {}, NEW k \in Hours
        PROVE  /\ HourlyStats(s)[k] = [bets |-> 0, wins |-> 0, wagered |-> 0, won |-> 0]
               /\ Beyond(s, k) = 0
    <3>1. HourlyStats(s)[k] = [bets |-> 0, wins |-> 0, wagered |-> 0, won |-> 0]
      BY <2>1, FS_EmptySet, SumOfNone DEF HourlyStats
    <3>2. Beyond(s, k) = 0
      BY <2>1, SumOfNone DEF Beyond, Short
    <3>. QED BY <3>1, <3>2
  <2>2. <<>> \in Seq(X) /\ DOMAIN <<>> = {}
    OBVIOUS
  <2>3. ASSUME NEW s, DOMAIN s = {} PROVE ShownTable(s) = NoBets(0) /\ Numbers(s)
    <3>1. \A k \in Hours : Shown(HourlyStats(s)[k], Beyond(s, k)) = [bets |-> 0, wins |-> 0, wagered |-> 0, won |-> 0]
      BY <2>1, <2>3 DEF Shown
    <3>2. Numbers(s)
      BY <2>1, <2>3 DEF Numbers
    <3>. QED BY <3>1, <3>2 DEF ShownTable, NoBets
  <2>. QED BY <1>1, <2>2, <2>3
<1>3. ASSUME NEW g \in Seq(X), NEW r \in X, g \in Q PROVE Append(g, r) \in Q
  <2> DEFINE t == HourlyStats(g)   u == HourlyStats(Append(g, r))   T == ShownTable(g)   U == ShownTable(Append(g, r))
             a == [k \in Hours |-> Beyond(g, k)]   b == [k \in Hours |-> Beyond(Append(g, r), k)]
  <2>1. Append(g, r) \in Seq(X) /\ HourlyBreakdown(Append(g, r)) = AddHour(0, T, r)
    BY <1>1, <1>3
  <2>2. /\ \A k \in Hours : u[k] = IF r.hour = k THEN Added(t[k], r) ELSE t[k]
        /\ \A k \in Hours : b[k] = IF r.hour = k /\ r.bet + r.change < 0 THEN a[k] + (r.bet + r.change) ELSE a[k]
    BY HourGrows, BeyondGrows
  <2>3. /\ \A k \in Hours : T[k] = Shown(t[k], a[k]) /\ U[k] = Shown(u[k], b[k])
        /\ T = [k \in Hours |-> T[k]] /\ U = [k \in Hours |-> U[k]]
    BY DEF ShownTable
  <2>4. Placed(r)
    OBVIOUS
  <2>5. /\ \A k \in Hours : t[k].won \in Int /\ a[k] \in Int
        /\ Numbers(Append(g, r)) <=> \A k \in Hours : u[k].won \in Int /\ b[k] \in Int
    BY <1>3 DEF Numbers
  <2>. HIDE DEF t, u, T, U, a, b
  <2>6. ASSUME NEW k \in Hours PROVE u[k].won \in Int /\ b[k] \in Int
    <3>1. Added(t[k], r).won = t[k].won + (r.bet + r.change)
      BY DEF Added
    <3>2. u[k].won = t[k].won \/ u[k].won = t[k].won + (r.bet + r.change)
      BY <2>2, <3>1
    <3>3. b[k] = a[k] \/ b[k] = a[k] + (r.bet + r.change)
      BY <2>2
    <3>4. r.bet \in Int /\ r.change \in Int /\ t[k].won \in Int /\ a[k] \in Int
      BY <2>4, <2>5 DEF Placed
    <3>. QED BY <3>2, <3>3, <3>4
  <2>7. CASE r.hour = NoHour
    <3>1. \A k \in Hours : k # NoHour
      BY DEF Hours, NoHour
    <3>2. \A k \in Hours : U[k] = T[k]
      BY <2>2, <2>3, <2>7, <3>1
    <3>3. U = T
      BY <2>3, <3>2
    <3>. QED BY <2>1, <2>5, <2>6, <2>7, <3>3 DEF AddHour, U
  <2>8. CASE r.hour # NoHour
    <3> DEFINE k == r.hour
               row == [bets    |-> T[k].bets + 1,
                       wins    |-> IF r.change > 0 THEN T[k].wins + 1 ELSE T[k].wins,
                       wagered |-> T[k].wagered + r.bet,
                       won     |-> T[k].won + Larger(0, r.change + r.bet)]
    <3>1. k \in Hours
      BY <2>4, <2>8 DEF Placed
    <3>2. AddHour(0, T, r) = [T EXCEPT ![k] = row]
      BY <2>8 DEF AddHour
    <3>3. row = U[k]
      <4>1. T[k].won + Larger(0, r.change + r.bet) = Added(t[k], r).won - b[k]
        <5>1. T[k].won = t[k].won - a[k] /\ Added(t[k], r).won = t[k].won + (r.bet + r.change)
          BY <2>3, <3>1 DEF Shown, Added
        <5>2. b[k] = IF r.bet + r.change < 0 THEN a[k] + (r.bet + r.change) ELSE a[k]
          BY <2>2, <3>1
        <5>3. r.bet \in Int /\ r.change \in Int /\ t[k].won \in Int /\ a[k] \in Int
          BY <2>4, <2>5, <3>1 DEF Placed
        <5>4. PICK v \in Int : v = t[k].won
          BY <5>3
        <5>5. PICK c \in Int : c = a[k]
          BY <5>3
        <5>6. PICK y \in Int : y = r.bet + r.change /\ r.change + r.bet = y
          BY <5>3
        <5>7. T[k].won = v - c /\ Added(t[k], r).won = v + y /\ b[k] = IF y < 0 THEN c + y ELSE c
          BY <5>1, <5>2, <5>4, <5>5, <5>6
        <5>8. (v - c) + Larger(0, y) = (v + y) - (IF y < 0 THEN c + y ELSE c)
          BY DEF Larger
        <5>. QED BY <5>6, <5>7, <5>8
      <4>2. U[k] = Shown(Added(t[k], r), b[k]) /\ T[k] = Shown(t[k], a[k])
        BY <2>2, <2>3, <3>1
      <4>. QED BY <4>1, <4>2 DEF Shown, Added
    <3>4. \A m \in Hours : m # k => U[m] = T[m]
      BY <2>2, <2>3
    <3>. HIDE DEF row
    <3>5. [T EXCEPT ![k] = row] = [m \in Hours |-> IF m = k THEN row ELSE T[m]]
      BY <2>3, <3>1
    <3>6. U = [m \in Hours |-> IF m = k THEN row ELSE T[m]]
      BY <2>3, <3>3, <3>4
    <3>. QED BY <2>1, <2>5, <2>6, <3>2, <3>5, <3>6 DEF U
  <2>. QED BY <2>7, <2>8
<1>4. h \in Q
  <2>. HIDE DEF Q
  <2>. QED BY <1>2, <1>3, Tables!SequenceInduction
<1>. QED
  BY <1>4

LEMMA HoursAre ==
  ASSUME NEW X, \A r \in X : Placed(r), NEW h \in Seq(X)
  PROVE  HoursAgree(h)
<1>1. HourlyBreakdown(h) = ShownTable(h) /\ Numbers(h)
  BY TablesDiffer
<1>2. ASSUME NEW k \in Hours
      PROVE  LET row == HourlyBreakdown(h)[k]   judged == HourlyStats(h)[k] IN
             /\ row.bets = judged.bets /\ row.wins = judged.wins /\ row.wagered = judged.wagered
             /\ judged.won - row.won = Beyond(h, k)
  <2>1. HourlyBreakdown(h)[k] = Shown(HourlyStats(h)[k], Beyond(h, k))
    BY <1>1 DEF ShownTable
  <2>2. \A w, b \in Int : w - (w - b) = b
    OBVIOUS
  <2>. QED BY <1>1, <2>1, <2>2 DEF Shown, Numbers
<1>. QED
  BY <1>2 DEF HoursAgree, Beyond, Short
-----------------------------------------------------------------------------
(* The accumulators *)

\* Cutting before an element is added, and again after, is cutting once.
LEMMA CutOnce ==
  ASSUME NEW T, NEW s \in Seq(T), NEW e \in T, NEW n \in Nat \ {0}
  PROVE  LastOf(Append(LastOf(s, n), e), n) = LastOf(Append(s, e), n)
<1> DEFINE c == LastOf(s, n)   u == Append(c, e)   v == Append(s, e)
<1>1. CASE Len(s) <= n
  <2>1. c = s
    BY <1>1, LastOfIs
  <2>. QED BY <2>1
<1>2. CASE ~(Len(s) <= n)
  <2>1. /\ c \in Seq(T) /\ Len(c) = n /\ Len(s) \in Nat /\ n \in Nat
        /\ \A i \in 1 .. n : c[i] = s[Len(s) - n + i]
    <3>1. Len(s) \in Nat
      BY LenProperties
    <3>2. c \in Seq(T) /\ Len(c) = n
      BY <1>2, LastOfIs
    <3>3. n \in Nat
      OBVIOUS
    <3>4. \A i \in 1 .. Len(c) : c[i] = s[Len(s) - Len(c) + i]
      BY <3>3, LastOfIs, Zenon
    <3>. HIDE DEF c
    <3>5. \A i \in 1 .. n : c[i] = s[Len(s) - n + i]
      BY <3>2, <3>4
    <3>. QED BY <3>1, <3>2, <3>5
  <2>. HIDE DEF c
  <2>2. /\ u \in Seq(T) /\ Len(u) = n + 1 /\ u[n + 1] = e /\ \A i \in 1 .. n : u[i] = c[i]
    BY <2>1, AppendProperties
  <2>3. /\ v \in Seq(T) /\ Len(v) = Len(s) + 1 /\ v[Len(s) + 1] = e /\ \A i \in 1 .. Len(s) : v[i] = s[i]
    BY <2>1, AppendProperties
  <2>. HIDE DEF u, v
  <2>4. ~(Len(u) <= n) /\ ~(Len(v) <= n) /\ Len(u) - n = 1 /\ Len(v) - n = Len(s) - n + 1
    BY <1>2, <2>1, <2>2, <2>3
  <2> DEFINE cu == LastOf(u, n)   cv == LastOf(v, n)
  <2>5. /\ cu \in Seq(T) /\ Len(cu) = n
        /\ \A i \in 1 .. n : cu[i] = u[1 + i]
    <3>1. cu \in Seq(T) /\ Len(cu) = n
      BY <2>1, <2>2, <2>4, LastOfIs
    <3>2. \A i \in 1 .. Len(cu) : cu[i] = u[Len(u) - Len(cu) + i]
      <4>1. u \in Seq(T) /\ n \in Nat
        BY <2>1, <2>2
      <4>. QED BY <4>1, LastOfIs, Zenon
    <3>. HIDE DEF cu
    <3>. QED BY <2>4, <3>1, <3>2
  <2>6. /\ cv \in Seq(T) /\ Len(cv) = n
        /\ \A i \in 1 .. n : cv[i] = v[Len(s) - n + 1 + i]
    <3>1. cv \in Seq(T) /\ Len(cv) = n
      BY <2>1, <2>3, <2>4, LastOfIs
    <3>2. \A i \in 1 .. Len(cv) : cv[i] = v[Len(v) - Len(cv) + i]
      <4>1. v \in Seq(T) /\ n \in Nat
        BY <2>1, <2>3
      <4>. QED BY <4>1, LastOfIs, Zenon
    <3>. HIDE DEF cv
    <3>. QED BY <2>4, <3>1, <3>2
  <2>. HIDE DEF cu, cv
  <2>7. ASSUME NEW i \in 1 .. n PROVE u[1 + i] = v[Len(s) - n + 1 + i]
    <3>1. CASE i = n
      <4>1. 1 + i = n + 1 /\ Len(s) - n + 1 + i = Len(s) + 1
        BY <2>1, <3>1
      <4>. QED BY <2>2, <2>3, <4>1
    <3>2. CASE i # n
      <4>1. 1 + i \in 1 .. n /\ Len(s) - n + (1 + i) = Len(s) - n + 1 + i /\ Len(s) - n + 1 + i \in 1 .. Len(s)
        BY <1>2, <2>1, <3>2
      <4>. QED BY <2>1, <2>2, <2>3, <4>1
    <3>. QED BY <3>1, <3>2
  <2>8. Len(cu) = Len(cv) /\ \A i \in 1 .. Len(cu) : cu[i] = cv[i]
    BY <2>5, <2>6, <2>7
  <2>9. cu = cv
    <3>1. cu \in Seq(T) /\ cv \in Seq(T)
      BY <2>5, <2>6
    <3>. QED BY <2>8, <3>1, SeqEqual
  <2>. QED BY <2>9 DEF c, u, v, cu, cv
<1>. QED BY <1>1, <1>2

\* A spin as Process makes it.
Spun(x) == x.bet \in Nat /\ x.change \in Int

LEMMA RatioIs ==
  ASSUME NEW x, Spun(x)
  PROVE  /\ Gross(x) = Larger(0, x.bet + x.change) /\ Gross(x) \in Int
         /\ x.bet > 0 => Ratio(x) \in Int
<1>1. Gross(x) = Larger(0, x.bet + x.change) /\ Gross(x) \in Int
  BY DEF Spun, Gross, Larger
<1>2. ASSUME x.bet > 0 PROVE Ratio(x) \in Int
  <2>1. \A y \in Int : \A b \in Nat : b > 0 => (y * 100) \div b \in Int
    OBVIOUS
  <2>. QED BY <1>1, <1>2, <2>1 DEF Spun, Ratio
<1>. QED BY <1>1, <1>2

\* The limits leave no gap.
LEMMA BucketIs == \A rr \in Int : Bucket(rr) \in Buckets
<1>. TAKE rr \in Int
<1>1. Limits[1] = 1 /\ Limits[2] = 200 /\ Limits[3] = 500 /\ Limits[4] = 800 /\ Limits[5] = 1000 /\ Limits[6] = 2000
  BY DEF Limits
<1> DEFINE In(b) == (\A c \in 1 .. b - 1 : rr >= Limits[c]) /\ (b = 7 \/ rr < Limits[b])
<1>2. In(1) \/ In(2) \/ In(3) \/ In(4) \/ In(5) \/ In(6) \/ In(7)
  <2>1. /\ 1 .. 0 = {} /\ 1 .. 1 = {1} /\ 1 .. 2 = {1, 2} /\ 1 .. 3 = {1, 2, 3} /\ 1 .. 4 = {1, 2, 3, 4}
        /\ 1 .. 5 = {1, 2, 3, 4, 5} /\ 1 .. 6 = {1, 2, 3, 4, 5, 6}
    OBVIOUS
  <2>. QED BY <1>1, <2>1
<1>3. \E b \in Buckets : In(b)
  BY <1>2 DEF Buckets
<1>. QED BY <1>3 DEF Bucket

\* The square of a sum is at most the number of its terms times the sum of their squares.
LEMMA Cauchy ==
  \A n \in Nat : \A R, Q, r \in Int :
    n * Q >= R * R /\ (n = 0 => Q = 0 /\ R = 0) => (n + 1) * (Q + r * r) >= (R + r) * (R + r)
<1>. TAKE n \in Nat, R, Q, r \in Int
<1>. SUFFICES ASSUME n * Q >= R * R, n = 0 => Q = 0 /\ R = 0
              PROVE  (n + 1) * (Q + r * r) >= (R + r) * (R + r)
  OBVIOUS
<1>1. CASE n = 0
  BY <1>1
<1>2. CASE n # 0
  <2> DEFINE x == n * (r * r) + Q - 2 * (R * r)
  <2>1. n * x = (n * r - R) * (n * r - R) + (n * Q - R * R)
    OBVIOUS
  <2>2. (n * r - R) * (n * r - R) >= 0
    <3>1. \A y \in Int : y * y >= 0
      OBVIOUS
    <3>2. n * r - R \in Int
      OBVIOUS
    <3>. QED BY <3>1, <3>2
  <2>3. n * x >= 0 /\ x \in Int
    <3>1. x \in Int /\ (n * r - R) * (n * r - R) \in Int /\ n * Q - R * R \in Int /\ n * Q - R * R >= 0
      OBVIOUS
    <3>. HIDE DEF x
    <3>. QED BY <2>1, <2>2, <3>1
  <2>4. x >= 0
    <3>1. \A y \in Int : n * y >= 0 => y >= 0
      BY <1>2
    <3>. HIDE DEF x
    <3>. QED BY <2>3, <3>1
  <2>5. (n + 1) * (Q + r * r) - (R + r) * (R + r) = (n * Q - R * R) + x
    OBVIOUS
  <2>. QED BY <2>4, <2>5
<1>. QED BY <1>1, <1>2

AddHigh(p, hm, x) == IF x.bet > 0 /\ Bucket(Ratio(x)) = 7 THEN Append(hm, Ratio(x)) ELSE hm
NoHigh(p)         == <<>>

Highs == INSTANCE FoldTheorems WITH Op <- AddHigh, Base <- NoHigh

LEMMA SelectRatiosIs ==
  /\ SelectRatios(<<>>) = <<>>
  /\ \A X : \A q \in Seq(X) : \A x \in X : SelectRatios(Append(q, x)) = AddHigh(0, SelectRatios(q), x)
<1>1. \A q : SelectRatios(q) = Highs!Fold(0, q)
  BY DEF SelectRatios, FoldLeft, MapThenFoldSet, Max, AddHigh, NoHigh,
         Highs!Fold, Highs!FoldLeft, Highs!MapThenFoldSet, Highs!Max
<1>. QED
  BY <1>1, Highs!FoldEmpty, Highs!FoldAppend DEF NoHigh
AnalysisFields == {"spins", "wins", "losses", "wagered", "gross", "valid", "ratio", "ratioSq",
                   "payout", "high", "symbols", "cells"}

Kept(a) ==
  /\ DOMAIN a = AnalysisFields
  /\ a.spins \in Nat /\ a.wins \in Nat /\ a.valid \in Nat
  /\ a.wagered \in Int /\ a.gross \in Int /\ a.ratio \in Int /\ a.ratioSq \in Int
  /\ a.payout \in [Buckets -> Nat]
  /\ a.valid = 0 => a.ratio = 0 /\ a.ratioSq = 0
  /\ a.valid * a.ratioSq >= a.ratio * a.ratio

\* The accumulators are those of the spins q.
Figures(a, q) == Kept(a) /\ SelectRatios(q) \in Seq(Int) /\ Summarise(a, q)

\* update_slot_analysis, field by field.
LEMMA UpdateIs ==
  ASSUME NEW a, DOMAIN a = AnalysisFields, NEW x
  PROVE  LET u == UpdateSlotAnalysis(a, x)   rr == Ratio(x) IN
         /\ DOMAIN u = AnalysisFields
         /\ u.spins = a.spins + 1 /\ u.wins = IF x.change > 0 THEN a.wins + 1 ELSE a.wins
         /\ u.wagered = a.wagered + x.bet /\ u.gross = a.gross + Gross(x)
         /\ x.bet > 0 =>
              /\ u.valid = a.valid + 1 /\ u.ratio = a.ratio + rr /\ u.ratioSq = a.ratioSq + rr * rr
              /\ u.payout = [a.payout EXCEPT ![Bucket(rr)] = @ + 1]
              /\ u.high = IF Bucket(rr) < 7 THEN a.high ELSE LastOfRatios(Append(a.high, rr), HighKeep)
         /\ ~(x.bet > 0) =>
              /\ u.valid = a.valid /\ u.ratio = a.ratio /\ u.ratioSq = a.ratioSq
              /\ u.payout = a.payout /\ u.high = a.high
<1> DEFINE rr    == Ratio(x)
           noted == [a EXCEPT !.spins = @ + 1,
                              !.wins = IF x.change > 0 THEN @ + 1 ELSE @,
                              !.losses = IF x.change > 0 THEN @ ELSE @ + 1,
                              !.wagered = @ + x.bet,
                              !.gross = @ + Gross(x),
                              !.cells = IF x.grid THEN @ + 9 ELSE @]
           added == AddRatio(noted, rr)
           rated == IF x.bet > 0 THEN added ELSE noted
           u     == AddLines(rated, x.lines)
<1>1. UpdateSlotAnalysis(a, x) = u
  BY DEF UpdateSlotAnalysis
<1>2. /\ DOMAIN noted = AnalysisFields
      /\ noted.spins = a.spins + 1 /\ noted.wins = IF x.change > 0 THEN a.wins + 1 ELSE a.wins
      /\ noted.wagered = a.wagered + x.bet /\ noted.gross = a.gross + Gross(x)
      /\ noted.valid = a.valid /\ noted.ratio = a.ratio /\ noted.ratioSq = a.ratioSq
      /\ noted.payout = a.payout /\ noted.high = a.high
  BY DEF AnalysisFields
<1>. HIDE DEF noted, rr
<1>3. /\ DOMAIN added = AnalysisFields
      /\ added.spins = noted.spins /\ added.wins = noted.wins
      /\ added.wagered = noted.wagered /\ added.gross = noted.gross
      /\ added.valid = noted.valid + 1 /\ added.ratio = noted.ratio + rr
      /\ added.ratioSq = noted.ratioSq + rr * rr
      /\ added.payout = [noted.payout EXCEPT ![Bucket(rr)] = @ + 1]
      /\ added.high = IF Bucket(rr) < 7 THEN noted.high ELSE LastOfRatios(Append(noted.high, rr), HighKeep)
  <2>1. DOMAIN added = AnalysisFields
    BY <1>2 DEF AddRatio
  <2>2. /\ added.spins = noted.spins /\ added.wins = noted.wins
        /\ added.wagered = noted.wagered /\ added.gross = noted.gross
    BY <1>2 DEF AddRatio, AnalysisFields
  <2>3. added.valid = noted.valid + 1 /\ added.ratio = noted.ratio + rr
    BY <1>2 DEF AddRatio, AnalysisFields
  <2>4. added.ratioSq = noted.ratioSq + rr * rr
    BY <1>2 DEF AddRatio, AnalysisFields
  <2>5. added.payout = [noted.payout EXCEPT ![Bucket(rr)] = @ + 1]
    BY <1>2 DEF AddRatio, AnalysisFields
  <2>6. added.high = IF Bucket(rr) < 7 THEN noted.high ELSE LastOfRatios(Append(noted.high, rr), HighKeep)
    BY <1>2 DEF AddRatio, AnalysisFields
  <2>. QED BY <2>1, <2>2, <2>3, <2>4, <2>5, <2>6
<1>. HIDE DEF added
<1>4. /\ DOMAIN rated = AnalysisFields
  BY <1>2, <1>3
<1>. HIDE DEF rated
<1>5. /\ DOMAIN u = AnalysisFields
      /\ \A k \in AnalysisFields \ {"symbols"} : u[k] = rated[k]
  BY <1>4 DEF AddLines
<1>6. /\ u.spins = rated.spins /\ u.wins = rated.wins /\ u.wagered = rated.wagered /\ u.gross = rated.gross
      /\ u.valid = rated.valid /\ u.ratio = rated.ratio /\ u.ratioSq = rated.ratioSq
      /\ u.payout = rated.payout /\ u.high = rated.high
  <2>. HIDE DEF u
  <2>. QED BY <1>5 DEF AnalysisFields
<1>. HIDE DEF u
<1>7. CASE x.bet > 0
  <2>1. rated = added
    BY <1>7 DEF rated
  <2>. QED BY <1>1, <1>2, <1>3, <1>5, <1>6, <1>7, <2>1, Zenon DEF rr
<1>8. CASE ~(x.bet > 0)
  <2>1. rated = noted
    BY <1>8 DEF rated
  <2>. QED BY <1>1, <1>2, <1>5, <1>6, <1>8, <2>1, Zenon
<1>. QED BY <1>7, <1>8

\* Nothing counted, and ...
LEMMA FiguresMade == Figures(MakeSlotAnalysis, <<>>)
<1> DEFINE a == MakeSlotAnalysis
<1>1. Kept(a)
  BY DEF Kept, MakeSlotAnalysis, AnalysisFields
<1>2. SelectRatios(<<>>) = <<>> /\ <<>> \in Seq(Int) /\ LastOf(<<>>, HighKeep) = <<>>
  BY SelectRatiosIs, StatisticsAssumption DEF LastOf
<1>3. /\ a.spins = 0 /\ a.wins = 0 /\ a.gross = 0 /\ a.wagered = 0 /\ a.valid = 0 /\ a.ratio = 0 /\ a.ratioSq = 0
      /\ a.high = <<>> /\ \A b \in Buckets : a.payout[b] = 0
  BY DEF MakeSlotAnalysis
<1>4. Samples(a) * a.ratioSq >= a.ratio * a.ratio
  BY <1>3 DEF Samples
<1>5. Cardinality({}) = 0 /\ DOMAIN <<>> = {} /\ Len(<<>>) = 0
  BY FS_EmptySet
<1>. HIDE DEF a
<1>6. Summarise(a, <<>>)
  <2>. SUFFICES ASSUME NEW q, q = <<>>, DOMAIN q = {}, Len(q) = 0 PROVE Summarise(a, q)
    BY <1>5
  <2>. QED BY <1>2, <1>3, <1>4, <1>5, SumOfNone DEF Summarise
<1>. QED BY <1>1, <1>2, <1>6 DEF Figures, a
LEMMA OneCountMore ==
  ASSUME NEW f \in [Buckets -> Nat], NEW b
  PROVE  [f EXCEPT ![b] = @ + 1] \in [Buckets -> Nat]
<1>1. \A c \in Buckets : f[c] \in Nat /\ f[c] + 1 \in Nat
  OBVIOUS
<1>2. [f EXCEPT ![b] = @ + 1] = [c \in Buckets |-> IF c = b THEN f[c] + 1 ELSE f[c]]
  OBVIOUS
<1>. QED BY <1>1, <1>2

\* ... one spin more leave the accumulators those of the spins.
LEMMA FiguresUpdated ==
  ASSUME NEW X, \A x \in X : Spun(x), NEW q \in Seq(X), NEW x \in X, NEW a, Figures(a, q)
  PROVE  Figures(UpdateSlotAnalysis(a, x), Append(q, x))
<1> DEFINE u == UpdateSlotAnalysis(a, x)   w == Append(q, x)   n == Len(q)   z == n + 1   rr == Ratio(x)
           Won(s)     == {i \in DOMAIN s : s[i].change > 0}
           Rated(s)   == {i \in DOMAIN s : s[i].bet > 0}
           At(s, b)   == {i \in Rated(s) : Bucket(Ratio(s[i])) = b}
           Bets(s)    == [i \in DOMAIN s |-> s[i].bet]
           Paid(s)    == [i \in DOMAIN s |-> Larger(0, s[i].bet + s[i].change)]
           Ratios(s)  == [i \in Rated(s) |-> Ratio(s[i])]
           A == DOMAIN q   W == Won(q)   V == Rated(q)
<1>1. /\ n \in Nat /\ w[z] = x /\ \A i \in A : w[i] = q[i] /\ q[i] \in X
      /\ DOMAIN w = A \cup {z} /\ A = 1 .. n /\ z \notin A /\ Len(w) = n + 1
  OBVIOUS
<1>2. Spun(x) /\ \A i \in A : Spun(q[i])
  BY <1>1
<1>3. /\ x.bet \in Nat /\ x.change \in Int /\ (x.bet > 0 => rr \in Int)
      /\ Gross(x) = Larger(0, x.bet + x.change) /\ Gross(x) \in Int
  BY <1>2, RatioIs DEF Spun
<1>4. IsFiniteSet(A)
  BY <1>1, FS_Interval
<1>5. Kept(a) /\ Summarise(a, q) /\ SelectRatios(q) \in Seq(Int)
  BY DEF Figures
<1>6. SelectRatios(w) = AddHigh(0, SelectRatios(q), x)
  BY SelectRatiosIs
<1>7. /\ a.wins = Cardinality(W) /\ a.spins = n
      /\ a.wagered = SumOf(A, Bets(q)) /\ a.gross = SumOf(A, Paid(q))
      /\ a.valid = Cardinality(V) /\ a.ratio = SumOf(V, Ratios(q))
      /\ \A b \in Buckets : a.payout[b] = Cardinality(At(q, b))
      /\ a.high = LastOf(SelectRatios(q), HighKeep)
      /\ Samples(a) * a.ratioSq >= a.ratio * a.ratio
  BY <1>5 DEF Summarise
<1>8. LET r2 == Ratio(x) IN
      /\ DOMAIN u = AnalysisFields
      /\ u.spins = a.spins + 1 /\ u.wins = IF x.change > 0 THEN a.wins + 1 ELSE a.wins
      /\ u.wagered = a.wagered + x.bet /\ u.gross = a.gross + Gross(x)
      /\ x.bet > 0 =>
           /\ u.valid = a.valid + 1 /\ u.ratio = a.ratio + r2 /\ u.ratioSq = a.ratioSq + r2 * r2
           /\ u.payout = [a.payout EXCEPT ![Bucket(r2)] = @ + 1]
           /\ u.high = IF Bucket(r2) < 7 THEN a.high ELSE LastOfRatios(Append(a.high, r2), HighKeep)
      /\ ~(x.bet > 0) =>
           /\ u.valid = a.valid /\ u.ratio = a.ratio /\ u.ratioSq = a.ratioSq
           /\ u.payout = a.payout /\ u.high = a.high
  BY <1>5, UpdateIs DEF Kept
<1>. HIDE DEF u, w, n, z, rr
\* The sets of the longer sequence.
<1>9. /\ Won(w) = IF x.change > 0 THEN W \cup {z} ELSE W
      /\ Rated(w) = IF x.bet > 0 THEN V \cup {z} ELSE V
      /\ W \subseteq A /\ V \subseteq A
  BY <1>1
<1>10. \A b : At(w, b) = IF x.bet > 0 /\ Bucket(rr) = b THEN At(q, b) \cup {z} ELSE At(q, b)
  BY <1>1 DEF rr
<1>11. /\ IsFiniteSet(W) /\ IsFiniteSet(V) /\ \A b : IsFiniteSet(At(q, b)) /\ At(q, b) \subseteq A
       /\ z \notin W /\ z \notin V /\ \A b : z \notin At(q, b)
  <2>1. \A b : At(q, b) \subseteq A
    OBVIOUS
  <2>. HIDE DEF At, W, V, A
  <2>. QED BY <1>1, <1>4, <1>9, <2>1, FS_Subset
<1>12. /\ Cardinality(W \cup {z}) = Cardinality(W) + 1 /\ Cardinality(V \cup {z}) = Cardinality(V) + 1
       /\ \A b : Cardinality(At(q, b) \cup {z}) = Cardinality(At(q, b)) + 1
  <2>. HIDE DEF At, W, V, A
  <2>. QED BY <1>11, CountGrows
\* Their sums.
<1>13. SumOf(DOMAIN w, Bets(w)) = SumOf(A, Bets(q)) + x.bet
  <2>1. /\ \A i \in A : Bets(q)[i] \in Int /\ Bets(w)[i] = Bets(q)[i]
        /\ Bets(w)[z] = x.bet /\ x.bet \in Int
    BY <1>1, <1>2 DEF Spun
  <2>. HIDE DEF Bets, A
  <2>2. Prolongs(A, Bets(q), Bets(w), z)
    BY <1>1, <1>4, <2>1 DEF Prolongs
  <2>3. SumOf(A \cup {z}, Bets(w)) = SumOf(A, Bets(q)) + Bets(w)[z]
    BY <2>2, SumGrows
  <2>. QED BY <1>1, <2>1, <2>3
<1>23. SumOf(DOMAIN w, Paid(w)) = SumOf(A, Paid(q)) + Gross(x)
  <2>1. /\ \A i \in A : Paid(q)[i] \in Int /\ Paid(w)[i] = Paid(q)[i]
        /\ Paid(w)[z] = Gross(x)
    BY <1>1, <1>2, <1>3 DEF Spun, Larger
  <2>. HIDE DEF Paid, A
  <2>2. Prolongs(A, Paid(q), Paid(w), z)
    BY <1>1, <1>3, <1>4, <2>1 DEF Prolongs
  <2>3. SumOf(A \cup {z}, Paid(w)) = SumOf(A, Paid(q)) + Paid(w)[z]
    BY <2>2, SumGrows
  <2>. QED BY <1>1, <2>1, <2>3
<1>14. SumOf(Rated(w), Ratios(w)) = IF x.bet > 0 THEN SumOf(V, Ratios(q)) + rr ELSE SumOf(V, Ratios(q))
  <2>1. \A i \in V : Ratios(q)[i] = Ratio(q[i]) /\ Ratio(q[i]) \in Int /\ w[i] = q[i]
    BY <1>1, <1>2, RatioIs
  <2>2. CASE ~(x.bet > 0)
    <3>1. Rated(w) = V
      BY <1>9, <2>2
    <3>2. Ratios(w) = Ratios(q)
      <4>1. Ratios(w) = [i \in V |-> Ratio(w[i])]
        BY <3>1
      <4>. QED BY <2>1, <4>1
    <3>. QED BY <2>2, <3>1, <3>2
  <2>3. CASE x.bet > 0
    <3>1. Rated(w) = V \cup {z}
      BY <1>9, <2>3
    <3>2. Ratios(w) = [i \in V \cup {z} |-> Ratio(w[i])]
      BY <3>1
    <3>3. /\ \A i \in V : Ratios(q)[i] \in Int /\ Ratios(w)[i] = Ratios(q)[i]
          /\ Ratios(w)[z] = rr
      BY <1>1, <2>1, <3>2 DEF rr
    <3>. HIDE DEF Ratios, Rated, V
    <3>4. Prolongs(V, Ratios(q), Ratios(w), z)
      BY <1>3, <1>11, <2>3, <3>3 DEF Prolongs
    <3>5. SumOf(V \cup {z}, Ratios(w)) = SumOf(V, Ratios(q)) + Ratios(w)[z]
      BY <3>4, SumGrows
    <3>. QED BY <2>3, <3>1, <3>3, <3>5
  <2>. QED BY <2>2, <2>3
<1>. HIDE DEF Won, Rated, At, Bets, Paid, Ratios, A, W, V
\* The parts.
<1>15. u.wins = Cardinality(Won(w)) /\ u.spins = Len(w) /\ u.valid = Cardinality(Rated(w))
       /\ u.ratio = SumOf(Rated(w), Ratios(w))
  BY <1>1, <1>7, <1>8, <1>9, <1>12, <1>14 DEF rr
<1>16. u.wagered = SumOf(DOMAIN w, Bets(w)) /\ u.gross = SumOf(DOMAIN w, Paid(w))
  BY <1>7, <1>8, <1>13, <1>23, Zenon
<1>17. \A b \in Buckets : u.payout[b] = Cardinality(At(w, b))
  <2>1. a.payout \in [Buckets -> Nat]
    BY <1>5 DEF Kept
  <2>2. CASE x.bet > 0
    <3>1. u.payout = [a.payout EXCEPT ![Bucket(rr)] = @ + 1]
      BY <1>8, <2>2 DEF rr
    <3>. QED BY <1>7, <1>10, <1>12, <2>1, <2>2, <3>1
  <2>3. CASE ~(x.bet > 0)
    BY <1>7, <1>8, <1>10, <2>3
  <2>. QED BY <2>2, <2>3
<1>18. SelectRatios(w) \in Seq(Int) /\ u.high = LastOf(SelectRatios(w), HighKeep)
  <2>1. CASE x.bet > 0 /\ Bucket(rr) = 7
    <3>1. SelectRatios(w) = Append(SelectRatios(q), rr) /\ rr \in Int
      BY <1>3, <1>6, <2>1 DEF AddHigh, rr
    <3>2. u.high = LastOfRatios(Append(a.high, rr), HighKeep)
      BY <1>8, <2>1 DEF rr
    <3>3. LastOfRatios(Append(a.high, rr), HighKeep) = LastOf(Append(a.high, rr), HighKeep)
      BY DEF LastOfRatios, LastOf
    <3>4. LastOf(Append(LastOf(SelectRatios(q), HighKeep), rr), HighKeep) = LastOf(Append(SelectRatios(q), rr), HighKeep)
      BY <1>5, <3>1, CutOnce, StatisticsAssumption
    <3>5. Append(SelectRatios(q), rr) \in Seq(Int)
      BY <1>5, <3>1
    <3>. QED BY <1>7, <3>1, <3>2, <3>3, <3>4, <3>5
  <2>2. CASE ~(x.bet > 0 /\ Bucket(rr) = 7)
    <3>1. SelectRatios(w) = SelectRatios(q)
      BY <1>6, <2>2 DEF AddHigh, rr
    <3>2. u.high = a.high
      <4>1. CASE x.bet > 0
        <5>1. Bucket(rr) \in Buckets /\ Bucket(rr) # 7
          BY <1>3, <2>2, <4>1, BucketIs
        <5>2. Bucket(rr) < 7
          BY <5>1 DEF Buckets
        <5>. QED BY <1>8, <4>1, <5>2 DEF rr
      <4>2. CASE ~(x.bet > 0)
        BY <1>8, <4>2
      <4>. QED BY <4>1, <4>2
    <3>. QED BY <1>5, <1>7, <3>1, <3>2
  <2>. QED BY <2>1, <2>2
<1>19. u.valid * u.ratioSq >= u.ratio * u.ratio /\ (u.valid = 0 => u.ratio = 0 /\ u.ratioSq = 0)
  <2>1. /\ a.valid \in Nat /\ a.ratio \in Int /\ a.ratioSq \in Int
        /\ (a.valid = 0 => a.ratio = 0 /\ a.ratioSq = 0)
    BY <1>5 DEF Kept
  <2>2. a.valid * a.ratioSq >= a.ratio * a.ratio
    BY <1>5, Zenon DEF Kept
  <2>3. CASE x.bet > 0
    <3>1. u.valid = a.valid + 1 /\ u.ratio = a.ratio + rr /\ u.ratioSq = a.ratioSq + rr * rr /\ rr \in Int
      BY <1>3, <1>8, <2>3 DEF rr
    <3>2. (a.valid + 1) * (a.ratioSq + rr * rr) >= (a.ratio + rr) * (a.ratio + rr)
      BY <2>1, <2>2, <3>1, Cauchy
    <3>3. a.valid + 1 # 0
      BY <2>1
    <3>. QED BY <3>1, <3>2, <3>3
  <2>4. CASE ~(x.bet > 0)
    BY <1>8, <2>1, <2>2, <2>4
  <2>. QED BY <2>3, <2>4
<1>20. Kept(u)
  <2>1. /\ a.spins \in Nat /\ a.wins \in Nat /\ a.valid \in Nat /\ a.wagered \in Int /\ a.gross \in Int
        /\ a.ratio \in Int /\ a.ratioSq \in Int /\ a.payout \in [Buckets -> Nat]
    BY <1>5, Zenon DEF Kept
  <2>2. /\ u.spins = a.spins + 1 /\ (u.wins = a.wins \/ u.wins = a.wins + 1)
        /\ u.wagered = a.wagered + x.bet /\ u.gross = a.gross + Gross(x)
    <3>1. u.wins = IF x.change > 0 THEN a.wins + 1 ELSE a.wins
      BY <1>8, Zenon
    <3>2. u.wins = a.wins \/ u.wins = a.wins + 1
      BY <3>1, Zenon
    <3>3. u.spins = a.spins + 1 /\ u.wagered = a.wagered + x.bet /\ u.gross = a.gross + Gross(x)
      BY <1>8, Zenon
    <3>. QED BY <3>2, <3>3
  <2>3. u.spins \in Nat /\ u.wins \in Nat /\ u.wagered \in Int /\ u.gross \in Int
    <3>1. x.bet \in Int /\ Gross(x) \in Int
      BY <1>3
    <3>2. a.spins \in Nat /\ a.wins \in Nat /\ a.wagered \in Int /\ a.gross \in Int
      BY <2>1, Zenon
    <3>3. /\ a.spins + 1 \in Nat /\ a.wins + 1 \in Nat /\ a.wagered + x.bet \in Int
          /\ a.gross + Gross(x) \in Int
      <4>1. a.spins + 1 \in Nat /\ a.wins + 1 \in Nat
        BY <3>2
      <4>2. \A y, k \in Int : y + k \in Int
        OBVIOUS
      <4>. QED BY <3>1, <3>2, <4>1, <4>2, Zenon
    <3>. QED BY <2>1, <2>2, <3>3, Zenon
  <2>4. u.valid \in Nat /\ u.ratio \in Int /\ u.ratioSq \in Int /\ u.payout \in [Buckets -> Nat]
    <3>1. CASE ~(x.bet > 0)
      BY <1>8, <2>1, <3>1, Zenon
    <3>2. CASE x.bet > 0
      <4>1. /\ u.valid = a.valid + 1 /\ u.ratio = a.ratio + rr /\ u.ratioSq = a.ratioSq + rr * rr
            /\ u.payout = [a.payout EXCEPT ![Bucket(rr)] = @ + 1]
        BY <1>8, <3>2, Zenon DEF rr
      <4>2. rr \in Int /\ rr * rr \in Int
        <5>1. \A y \in Int : y * y \in Int
          OBVIOUS
        <5>. QED BY <1>3, <3>2, <5>1, Zenon
      <4>3. u.valid \in Nat /\ u.ratio \in Int /\ u.ratioSq \in Int
        <5>1. \A y, k \in Int : y + k \in Int
          OBVIOUS
        <5>2. a.valid \in Nat /\ a.ratio \in Int /\ a.ratioSq \in Int
          BY <2>1, Zenon
        <5>3. a.valid + 1 \in Nat
          BY <5>2
        <5>. QED BY <4>1, <4>2, <5>1, <5>2, <5>3, Zenon
      <4>4. u.payout \in [Buckets -> Nat]
        <5>1. a.payout \in [Buckets -> Nat]
          BY <2>1, Zenon
        <5>2. \A b : [a.payout EXCEPT ![b] = @ + 1] \in [Buckets -> Nat]
          BY <5>1, OneCountMore
        <5>. QED BY <4>1, <5>2
      <4>. QED BY <4>3, <4>4
    <3>. QED BY <3>1, <3>2
  <2>5. DOMAIN u = AnalysisFields
    BY <1>8
  <2>. QED BY <1>19, <2>3, <2>4, <2>5, Zenon DEF Kept
<1>21. Samples(u) * u.ratioSq >= u.ratio * u.ratio
  <2>1. CASE u.valid > 0
    BY <1>19, <2>1 DEF Samples
  <2>2. CASE ~(u.valid > 0)
    <3>1. u.valid = 0 /\ u.ratio = 0 /\ u.ratioSq = 0 /\ u.spins \in Nat
      BY <1>19, <1>20, <2>2 DEF Kept
    <3>. QED BY <3>1 DEF Samples
  <2>. QED BY <2>1, <2>2
<1>22. Summarise(u, w)
  <2>. USE DEF Won, Rated, At, Bets, Paid, Ratios
  <2>. QED BY <1>15, <1>16, <1>17, <1>18, <1>21 DEF Summarise
<1>. QED
  BY <1>18, <1>20, <1>22 DEF Figures, u, w
\* The spins that are counted, and those of the snapshot, are what sa and the snapshot were made from.
Spins(q) == \A i \in DOMAIN q : Spun(q[i])

Figured ==
  /\ Spins(counted) /\ Spins(inSnap)
  /\ Figures(sa, counted)
  /\ \A x \in snap : Figures(x, inSnap)

LEMMA SpinCounted ==
  ASSUME NEW q, IsSequence(q), Spins(q), NEW x, Spun(x), NEW a, Figures(a, q)
  PROVE  Spins(Append(q, x)) /\ Figures(UpdateSlotAnalysis(a, x), Append(q, x))
<1> DEFINE X == Elements(q) \cup {x}
<1>1. q \in Seq(X) /\ x \in X
  BY WidenSequence
<1>2. \A y \in X : Spun(y)
  BY DEF Spins, Elements
<1>. HIDE DEF X
<1>3. Figures(UpdateSlotAnalysis(a, x), Append(q, x))
  BY <1>1, <1>2, FiguresUpdated
<1>4. Append(q, x) \in Seq(X)
  BY <1>1, AppendProperties
<1>5. \A w \in Seq(X) : Spins(w)
  BY <1>2, ElementOfSeq, LenProperties DEF Spins
<1>. QED BY <1>3, <1>4, <1>5

LEMMA NoSpins == Spins(<<>>) /\ Figures(MakeSlotAnalysis, <<>>)
BY FiguresMade DEF Spins

LEMMA FiguredInit == Init => Figured
BY NoSpins DEF Init, Figured

LEMMA FiguredStep == Typed /\ Books /\ Figured /\ [Next]_vars => Figured'
<1>. SUFFICES ASSUME Typed, Books, Figured, [Next]_vars PROVE Figured'
  OBVIOUS
<1>1. Spins(counted) /\ Spins(inSnap) /\ Figures(sa, counted) /\ \A x \in snap : Figures(x, inSnap)
  BY DEF Figured
<1>2. ASSUME NEW q, NEW s, NEW a, NEW t,
             Spins(q), Spins(s), Figures(a, q), \A x \in t : Figures(x, s),
             counted' = q, inSnap' = s, sa' = a, snap' = t
      PROVE  Figured'
  BY <1>2 DEF Figured
<1>3. CASE \/ Decide \/ CoolDown \/ ResumeOnly \/ AppendHistory \/ ClearRows \/ ClearList
           \/ ClearAllRows \/ HourPasses \/ UNCHANGED vars
  <2>1. UNCHANGED <<sa, counted, snap, inSnap>>
    BY <1>3
       DEF Decide, CoolDown, ResumeOnly, AppendHistory, ClearRows, ClearList, ClearAllRows,
           HourPasses, vars, saved, stats
  <2>. QED BY <1>1, <1>2, <2>1
<1>4. CASE Process
  <2>1. PICK result \in Results :
          LET x == [bet |-> bet, change |-> Change(bet, result),
                    lines |-> result.lines, grid |-> result.grid]
          IN sa' = UpdateSlotAnalysis(sa, x) /\ counted' = Append(counted, x)
    BY <1>4 DEF Process
  <2> DEFINE x == [bet |-> bet, change |-> Change(bet, result),
                   lines |-> result.lines, grid |-> result.grid]
  <2>2. UNCHANGED <<snap, inSnap>>
    BY <1>4 DEF Process, saved
  <2>3. Spun(x)
    <3>1. bet \in Nat
      BY DEF Typed
    <3>2. Change(bet, result) \in Int
      BY <3>1, ChangeIs
    <3>. QED BY <3>1, <3>2 DEF Spun
  <2>4. sa' = UpdateSlotAnalysis(sa, x) /\ counted' = Append(counted, x)
    BY <2>1
  <2>. HIDE DEF x
  <2>5. Spins(Append(counted, x)) /\ Figures(UpdateSlotAnalysis(sa, x), Append(counted, x))
    BY <1>1, <2>3, SpinCounted DEF Books
  <2>. QED BY <1>1, <1>2, <2>2, <2>4, <2>5
<1>5. CASE Save
  <2>1. UNCHANGED <<counted, sa>> /\ (UNCHANGED <<snap, inSnap>> \/ Store)
    BY <1>5 DEF Save, stats
  <2>2. CASE UNCHANGED <<snap, inSnap>>
    BY <1>1, <1>2, <2>1, <2>2
  <2>3. CASE Store
    <3>1. snap' = {sa} /\ inSnap' = counted /\ \A x \in {sa} : Figures(x, counted)
      BY <1>1, <2>3 DEF Store
    <3>. QED BY <1>1, <1>2, <2>1, <3>1
  <2>. QED BY <2>1, <2>2, <2>3
<1>6. CASE ResetStatistics \/ ClearAllMemory
  <2>1. sa' = MakeSlotAnalysis /\ counted' = <<>> /\ UNCHANGED <<snap, inSnap>>
    BY <1>6 DEF ResetStatistics, ClearAllMemory, ForgetStatistics, saved
  <2>. QED BY <1>1, <1>2, <2>1, NoSpins
<1>7. CASE ResetRow \/ ClearAllSnapshot
  <2>1. snap' = {} /\ inSnap' = <<>> /\ UNCHANGED <<sa, counted>>
    BY <1>7 DEF ResetRow, ClearAllSnapshot, DropSnapshot, stats
  <2>2. \A x \in {} : Figures(x, <<>>)
    OBVIOUS
  <2>. QED BY <1>1, <1>2, <2>1, <2>2, NoSpins
<1>8. CASE Exit \/ Crash
  <2>1. /\ counted' = inSnap'
        /\ sa' = (IF snap' = {} THEN MakeSlotAnalysis ELSE CHOOSE x \in snap' : TRUE)
    BY <1>8 DEF Exit, Crash, Load
  <2>2. Store \/ UNCHANGED <<snap, inSnap>>
    BY <1>8 DEF Exit, Crash
  <2>3. /\ Spins(inSnap') /\ \A x \in snap' : Figures(x, inSnap')
        /\ snap' = {} => inSnap' = <<>>
    <3>1. CASE Store
      BY <1>1, <3>1 DEF Store
    <3>2. CASE UNCHANGED <<snap, inSnap>>
      BY <1>1, <3>2 DEF Books
    <3>. QED BY <2>2, <3>1, <3>2
  <2>4. CASE snap' = {}
    BY <1>2, <2>1, <2>3, <2>4, NoSpins
  <2>5. CASE snap' # {}
    <3>1. sa' \in snap'
      BY <2>1, <2>5
    <3>. QED BY <1>2, <2>1, <2>3, <3>1
  <2>. QED BY <2>4, <2>5
<1>. QED
  BY <1>3, <1>4, <1>5, <1>6, <1>7, <1>8 DEF Next

-----------------------------------------------------------------------------
(* Theorems *)

IInv == AllSequences /\ Typed /\ MirrorInv /\ TrailingInv /\ Books /\ SaveInv /\ Figured

\* The seven parts are inductive together; every other theorem rests on them.
THEOREM InductiveInvariant == Spec => []IInv
<1>1. Init => IInv
  BY RoundsInit, TypedInit, BooksInit, SaveInit, FiguredInit DEF IInv
<1>2. IInv /\ [Next]_vars => IInv'
  BY SequencesStep, TypedStep, MirrorStep, TrailingStep, BooksStep, SaveStep, FiguredStep DEF IInv
<1>. QED
  BY <1>1, <1>2, PTL DEF Spec

(***************************************************************************)
(* Types and sizes, for all bounds and strategies: neither list nor table  *)
(* ever has more rows than the limit with the slack and one for each trim  *)
(* that failed, no round bets less than the least bet, and every spin is a *)
(* win or a loss.                                                          *)
(***************************************************************************)
THEOREM TypeCorrect == Spec => []TypeOK
<1>1. ASSUME IInv PROVE TypeOK
  <2>1. Cardinality(snap) <= 1
    <3>1. snap = {} \/ \E x : snap = {x}
      BY <1>1 DEF IInv, Books
    <3>2. CASE snap = {}
      BY <3>2, FS_EmptySet
    <3>3. ASSUME NEW x, snap = {x} PROVE Cardinality(snap) <= 1
      <4>1. Cardinality({x}) = 1
        BY FS_Singleton
      <4>. QED
        BY <3>3, <4>1
    <3>. QED
      BY <3>1, <3>2, <3>3
  <2>2. sa.spins = sa.wins + sa.losses
    BY <1>1 DEF IInv, Books, Stats
  <2>. QED
    BY <1>1, <2>1, <2>2 DEF IInv, Typed, TypeOK, Entered, Entry, MostRows
<1>. QED
  BY <1>1, InductiveInvariant, PTL

(***************************************************************************)
(* The list in memory is the end of the table, and all of it that the      *)
(* limit allows, for every limit and every number of rows the trim leaves  *)
(* above it (append_history, maintenance.py, and the load of main).        *)
(***************************************************************************)
THEOREM MirrorHolds == Spec => []MirrorAgrees
<1>1. IInv => MirrorAgrees
  BY DEF IInv, MirrorInv, MirrorAgrees, Mirrors, Dropped
<1>. QED
  BY <1>1, InductiveInvariant, PTL

(***************************************************************************)
(* What the trailing stop sums up are the rounds since its last cool-down  *)
(* or the start, unless earlier ones were cut off or cleared since then.   *)
(***************************************************************************)
THEOREM TrailingHolds == Spec => []TrailingExact
<1>1. IInv => TrailingExact
  BY DEF IInv, TrailingInv, TrailingExact
<1>. QED
  BY <1>1, InductiveInvariant, PTL

(***************************************************************************)
(* gambling.py:429: for every interval between two snapshots, a crash      *)
(* between rounds loses fewer spins than the interval, unless the last     *)
(* save failed or met a reset.                                             *)
(***************************************************************************)
THEOREM SnapshotsSuffice == Spec => []LittleLost
<1>1. ASSUME IInv PROVE LittleLost
  <2>1. /\ Len(counted) % SaveEvery \in 0 .. SaveEvery - 1
        /\ Len(counted) \in Nat /\ Len(inSnap) \in Nat /\ SaveEvery \in Nat
    BY <1>1, RoundsAssumption, Remainders, LenProperties DEF IInv, Books, IsSequence
  <2>. QED
    BY <1>1, <2>1 DEF IInv, SaveInv, Behind, WillSave, LittleLost
<1>. QED
  BY <1>1, InductiveInvariant, PTL

(***************************************************************************)
(* What update_slot_analysis accumulates is what the spins counted amount  *)
(* to, for results of all kinds, a loss beyond the bet among them, for all *)
(* sizes of the list of high ratios and intervals between snapshots,       *)
(* through resets, crashes and loads: the wins, what was bet and paid, the *)
(* moments of the ratios, their distribution and the list.                 *)
(***************************************************************************)
THEOREM StatsHold == Spec => []StatsAgree
<1>1. IInv => StatsAgree
  BY DEF IInv, Figured, Figures, StatsAgree
<1>. QED
  BY <1>1, InductiveInvariant, PTL

(***************************************************************************)
(* For every history the program can have and all strategies: the backtest *)
(* without a strategy agrees with the screen in profit, peak and drawdown, *)
(* the drawdown is the largest fall between two moments, the two tables of *)
(* the hours differ in the losses beyond the bet and in nothing else, and  *)
(* each round is played or passed over.                                    *)
(***************************************************************************)
THEOREM ReplaysHold == Spec => []ReplaysAgree
<1>1. ASSUME IInv PROVE ReplaysAgree
  <2> DEFINE X == Elements(history)
  <2>1. history \in Seq(X)
    BY <1>1 DEF IInv, AllSequences, IsSequence
  <2>2. \A r \in X : Placed(r) /\ r.change \in Int
    BY <1>1 DEF IInv, Typed, Entered, Entry, Placed, Elements
  <2>. HIDE DEF X
  <2> DEFINE p(h, r, t) == [s |-> S, past |-> history, hourly |-> h, rolling |-> r, trailing |-> t]
             plain == Replay(history, S, FALSE, FALSE, FALSE)
             shown == ComputeDrawdown(history)
  <2>3. \A h, r, t \in BOOLEAN : Replay(history, S, h, r, t) = Replays!Fold(p(h, r, t), history)
    BY ReplayIs
  <2>4. /\ plain.net = shown.net /\ plain.maxDrawdown = shown.max
        /\ plain.peak = DrawdownPct(history).peak
    <3> DEFINE q == p(FALSE, FALSE, FALSE)
    <3>1. q.hourly = FALSE /\ q.rolling = FALSE /\ q.trailing = FALSE
      OBVIOUS
    <3>2. plain = Replays!Fold(q, history)
      BY <2>3
    <3>. HIDE DEF q, plain
    <3>. QED BY <2>1, <2>2, <3>1, <3>2, PlainReplay
  <2>5. shown.max = LargestFall(history)
    BY <2>1, <2>2, FallsIs
  <2>6. HoursAgree(history)
    BY <2>1, <2>2, HoursAre
  <2>7. ASSUME NEW h \in BOOLEAN, NEW r \in BOOLEAN, NEW t \in BOOLEAN
        PROVE  LET a == Replay(history, S, h, r, t) IN
               /\ a.bets + a.skippedHourly + a.skippedTrailing = Len(history)
               /\ a.triggers * S.cooldownBets = a.skippedTrailing + a.cooldown
    <3> DEFINE q == p(h, r, t)
    <3>1. Usable(q) /\ q.s = S
      BY RoundsAssumption DEF Usable
    <3>2. Replay(history, S, h, r, t) = Replays!Fold(q, history)
      BY <2>3
    <3>. HIDE DEF q
    <3>3. Accounted(Replays!Fold(q, history), q.s.cooldownBets, Len(history))
      BY <2>1, <3>1, ReplayCounts
    <3>. QED BY <3>1, <3>2, <3>3 DEF Accounted
  <2>. HIDE DEF plain, shown
  <2>. QED BY <2>4, <2>5, <2>6, <2>7 DEF ReplaysAgree, plain, shown
<1>. QED
  BY <1>1, InductiveInvariant, PTL
=============================================================================
