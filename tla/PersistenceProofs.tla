------------------------- MODULE PersistenceProofs -------------------------
(***************************************************************************)
(* Proofs about what is stored.                                            *)
(*                                                                         *)
(* CanonicalBody, for every alphabet, body and configuration with Overlap  *)
(* <= MinChars: the chunks cover the body, no two of them in a row are     *)
(* spent on the same text, and what is stored to its end comes back.       *)
(*                                                                         *)
(* PostgresRecords with the flows of PromptFlow and the API beside it, for *)
(* every set of clients and of requests: its transactions keep the         *)
(* contract of RecordStore, an embedding is that of its text, and a flow   *)
(* offers the text it stored.                                              *)
(***************************************************************************)
EXTENDS PromptFlow, CanonicalBody, SequenceTheorems, FiniteSetTheorems,
        WellFoundedInduction, TLAPS

-----------------------------------------------------------------------------
(* The text.                                                               *)

LEMMA BodiesAreSequences == Bodies \subseteq Seq(Char)
  BY DEF Bodies

\* Normalised text is a sequence.
LEMMA NormalisedIsSequence ==
  ASSUME NEW r \in Seq(Char)
  PROVE  \E S : Normalised(r) \in Seq(S)
<1> DEFINE n == Cardinality(Kept(r))
           e(i) == IF r[NthKept(r, i)] = CR THEN LF ELSE r[NthKept(r, i)]
           S == {e(i) : i \in 1 .. n}
<1>1. n \in Nat
  <2>1. IsFiniteSet(1 .. Len(r))
    BY LenProperties, FS_Interval
  <2>2. Kept(r) \subseteq 1 .. Len(r)
    BY LenProperties DEF Kept
  <2> QED
    BY <2>1, <2>2, FS_Subset, FS_CardinalityType
<1>2. Normalised(r) = [i \in 1 .. n |-> e(i)]
  BY DEF Normalised
<1>3. \A i \in 1 .. n : e(i) \in S
  OBVIOUS
<1> HIDE DEF n, e, S
<1>4. [i \in 1 .. n |-> e(i)] \in [1 .. n -> S]
  BY <1>3
<1> QED
  BY <1>1, <1>2, <1>4, SeqDef

\* Without a carriage return nothing is normalised.
LEMMA NormalisedIsSame ==
  ASSUME NEW r \in Seq(Char), \A p \in DOMAIN r : r[p] # CR
  PROVE  Normalised(r) = r
<1>1. Len(r) \in Nat /\ DOMAIN r = 1 .. Len(r)
  BY LenProperties
<1>2. Kept(r) = 1 .. Len(r)
  BY <1>1 DEF Kept
<1>3. Cardinality(Kept(r)) = Len(r)
  BY <1>1, <1>2, FS_Interval
<1>4. ASSUME NEW k \in 1 .. Len(r)
      PROVE  NthKept(r, k) = k
  <2>1. \A p \in Kept(r) : Cardinality({q \in Kept(r) : q <= p}) = p
    <3> SUFFICES ASSUME NEW p \in 1 .. Len(r)
                 PROVE  Cardinality({q \in 1 .. Len(r) : q <= p}) = p
      BY <1>2
    <3>1. {q \in 1 .. Len(r) : q <= p} = 1 .. p
      BY <1>1
    <3>2. Cardinality(1 .. p) = p
      BY <1>1, FS_Interval
    <3> QED
      BY <3>1, <3>2
  <2> QED
    BY <2>1, <1>2 DEF NthKept
<1>5. Normalised(r) = [k \in 1 .. Len(r) |-> r[k]]
  BY <1>1, <1>3, <1>4 DEF Normalised
<1> QED
  BY <1>1, <1>5, LenProperties

-----------------------------------------------------------------------------
(* One cut.                                                                *)

\* Where a chunk ends, whatever boundary was chosen.
LEMMA EndBounds ==
  ASSUME NEW from \in Nat, NEW e \in Nat, Len(text) \in Nat,
         IsEnd(from, e)
  PROVE  /\ e <= from + MaxChars
         /\ e < Len(text) => from + MinChars <= e
<1> USE ConfigAssumption
<1>1. CASE Len(text) - from <= MaxChars
  BY <1>1 DEF IsEnd
<1>2. CASE ~(Len(text) - from <= MaxChars)
  <2>1. CASE \E p \in 1 .. 4 : e \in Candidates(p, from)
    BY <2>1 DEF Candidates
  <2>2. CASE e = from + MaxChars
    BY <2>2
  <2> QED
    BY <1>2, <2>1, <2>2 DEF IsEnd, Best
<1> QED
  BY <1>1, <1>2

\* Where the next one starts.
LEMMA NextStartBounds ==
  ASSUME NEW from \in Nat, NEW e \in Nat, from < e
  PROVE  /\ NextStart(from, e) \in Nat
         /\ from < NextStart(from, e)
         /\ NextStart(from, e) <= e
         /\ NextStart(from, e) = e \/ NextStart(from, e) = e - Overlap
         /\ NextStart(from, e) = e <=> e - from <= Overlap \/ Overlap = 0
  BY ConfigAssumption DEF NextStart

-----------------------------------------------------------------------------
(* One junction.                                                           *)

\* A chunk that repeats the end of what is stitched so far is recognised.
LEMMA StitchOverlap ==
  ASSUME NEW S, NEW t \in Seq(S), NEW b \in 1 .. Len(t), NEW e \in b .. Len(t),
         Overlap > 0, Overlap <= b, Overlap <= e - (b - Overlap)
  PROVE  Stitched(SubSeq(t, 1, b), SubSeq(t, b - Overlap + 1, e)) = SubSeq(t, 1, e)
<1> DEFINE s == SubSeq(t, 1, b)
           u == SubSeq(t, b - Overlap + 1, e)
<1>0. Len(t) \in Nat /\ Overlap \in Nat /\ \A i \in 1 .. Len(t) : t[i] \in S
  BY LenProperties, ElementOfSeq, ConfigAssumption
<1>1. s \in Seq(S) /\ Len(s) = b
  BY <1>0, SubSeqProperties
<1>2. u \in Seq(S) /\ Len(u) = e - b + Overlap
  <2>1. \A i \in b - Overlap + 1 .. e : t[i] \in S
    BY <1>0
  <2> QED
    BY <1>0, <2>1, SubSeqProperties
<1>3. LastChars(s, Overlap) = SubSeq(t, b - Overlap + 1, b)
  <2>1. SubSeq(s, b - Overlap + 1, b) = SubSeq(t, b - Overlap + 1, b)
    BY <1>0, SubSeqOfSubSeq
  <2> QED
    BY <1>1, <2>1 DEF LastChars
<1>4. SubSeq(u, 1, Overlap) = SubSeq(t, b - Overlap + 1, b)
  <2>1. SubSeq(u, 1, Overlap)
          = SubSeq(t, (b - Overlap + 1) + 1 - 1, (b - Overlap + 1) + Overlap - 1)
    BY <1>0, SubSeqOfSubSeq
  <2> QED
    BY <1>0, <2>1
<1>5. Overlapping(s, u)
  BY <1>0, <1>1, <1>2, <1>3, <1>4 DEF Overlapping
<1>6. SubSeq(u, Overlap + 1, Len(u)) = SubSeq(t, b + 1, e)
  <2>1. CASE b = e
    <3>1. SubSeq(u, Overlap + 1, Len(u)) = <<>>
      BY <1>0, <1>2, <2>1, SubSeqEmpty
    <3>2. SubSeq(t, b + 1, e) = <<>>
      BY <1>0, <2>1, SubSeqEmpty
    <3> QED
      BY <3>1, <3>2
  <2>2. CASE b < e
    <3>1. SubSeq(u, Overlap + 1, e - b + Overlap)
            = SubSeq(t, (b - Overlap + 1) + (Overlap + 1) - 1,
                        (b - Overlap + 1) + (e - b + Overlap) - 1)
      BY <1>0, <2>2, SubSeqOfSubSeq
    <3> QED
      BY <1>0, <1>2, <3>1
  <2> QED
    BY <1>0, <2>1, <2>2
<1>7. s \o SubSeq(t, b + 1, e) = SubSeq(t, 1, e)
  BY <1>0, ConcatAdjacentSubSeq
<1> HIDE DEF s, u
<1>8. Stitched(s, u) = SubSeq(t, 1, e)
  BY <1>5, <1>6, <1>7 DEF Stitched
<1> QED
  BY <1>8 DEF s, u

\* One that starts where the last one ended is appended, unless the text
\* repeats itself there.
LEMMA StitchAdjacent ==
  ASSUME NEW S, NEW t \in Seq(S), NEW b \in 1 .. Len(t), NEW e \in b + 1 .. Len(t),
         Overlap > 0 /\ Overlap <= b /\ Overlap <= e - b
           => \E i \in 1 .. Overlap : t[b - Overlap + i] # t[b + i]
  PROVE  Stitched(SubSeq(t, 1, b), SubSeq(t, b + 1, e)) = SubSeq(t, 1, e)
<1> DEFINE s == SubSeq(t, 1, b)
           u == SubSeq(t, b + 1, e)
<1>0. Len(t) \in Nat /\ Overlap \in Nat /\ \A i \in 1 .. Len(t) : t[i] \in S
  BY LenProperties, ElementOfSeq, ConfigAssumption
<1>1. s \in Seq(S) /\ Len(s) = b
  BY <1>0, SubSeqProperties
<1>2. u \in Seq(S) /\ Len(u) = e - b
  <2>1. \A i \in b + 1 .. e : t[i] \in S
    BY <1>0
  <2> QED
    BY <1>0, <2>1, SubSeqProperties
<1>3. ~Overlapping(s, u)
  <2> SUFFICES ASSUME Overlapping(s, u) PROVE FALSE
    OBVIOUS
  <2>1. Overlap > 0 /\ Overlap <= b /\ Overlap <= e - b
    BY <1>0, <1>1, <1>2 DEF Overlapping
  <2>2. PICK i \in 1 .. Overlap : t[b - Overlap + i] # t[b + i]
    BY <2>1
  <2>3. SubSeq(s, b - Overlap + 1, b) = SubSeq(t, b - Overlap + 1, b)
    BY <1>0, <2>1, SubSeqOfSubSeq
  <2>4. SubSeq(u, 1, Overlap) = SubSeq(t, (b + 1) + 1 - 1, (b + 1) + Overlap - 1)
    BY <1>0, <2>1, SubSeqOfSubSeq
  <2>5. SubSeq(t, b - Overlap + 1, b) = SubSeq(t, b + 1, b + Overlap)
    <3>1. LastChars(s, Overlap) = SubSeq(u, 1, Overlap)
      BY DEF Overlapping
    <3>2. LastChars(s, Overlap) = SubSeq(s, b - Overlap + 1, b)
      BY <1>1 DEF LastChars
    <3>3. (b + 1) + 1 - 1 = b + 1 /\ (b + 1) + Overlap - 1 = b + Overlap
      BY <1>0
    <3> HIDE DEF s, u
    <3> QED
      BY <2>3, <2>4, <3>1, <3>2, <3>3
  <2>6. \A j \in b - Overlap + 1 .. b : t[j] \in S
    BY <1>0, <2>1
  <2>7. SubSeq(t, b - Overlap + 1, b)[i] = t[(b - Overlap + 1) + i - 1]
    BY <1>0, <2>1, <2>6, SubSeqProperties
  <2>8. \A j \in b + 1 .. b + Overlap : t[j] \in S
    BY <1>0, <2>1
  <2>9. SubSeq(t, b + 1, b + Overlap)[i] = t[(b + 1) + i - 1]
    BY <1>0, <2>1, <2>8, SubSeqProperties
  <2> QED
    BY <1>0, <2>1, <2>2, <2>5, <2>7, <2>9
<1>4. s \o u = SubSeq(t, 1, e)
  BY <1>0, ConcatAdjacentSubSeq
<1> HIDE DEF s, u
<1>5. Stitched(s, u) = SubSeq(t, 1, e)
  BY <1>3, <1>4 DEF Stitched
<1> QED
  BY <1>5 DEF s, u

-----------------------------------------------------------------------------
(* The invariant.                                                          *)

Shape ==
  /\ raw \in Bodies
  /\ text = Normalised(raw)
  /\ chunks \in Seq([from : Nat, to : Nat])
  /\ start \in Nat
  /\ next \in Nat
  /\ pc \in {"chunking", "stored", "stitching"}

\* Each chunk ends where IsEnd allows and starts where the loop goes on.
Cuts ==
  \A k \in 1 .. Len(chunks) :
    /\ chunks[k].from < chunks[k].to
    /\ chunks[k].to <= Len(text)
    /\ chunks[k].to <= chunks[k].from + MaxChars
    /\ chunks[k].to < Len(text) => chunks[k].from + MinChars <= chunks[k].to
    /\ k = 1 => chunks[k].from = 0
    /\ k > 1 => /\ chunks[k - 1].to < Len(text)
                /\ chunks[k].from = NextStart(chunks[k - 1].from, chunks[k - 1].to)

\* How far the loop has come.
Loop ==
  /\ AllSpace(text) => chunks = <<>>
  /\ pc = "chunking" =>
       /\ fidelity = "none"
       /\ chunks = <<>> => start = 0
       /\ chunks # <<>> =>
            /\ chunks[Len(chunks)].to < Len(text)
            /\ start = NextStart(chunks[Len(chunks)].from, chunks[Len(chunks)].to)
  /\ pc # "chunking" /\ ~AllSpace(text) =>
       /\ chunks # <<>>
       /\ Len(chunks) < MaxChunks => chunks[Len(chunks)].to = Len(text)

\* What the reader has put together so far.
Reading ==
  pc = "stitching" =>
    /\ raw # <<>>
    /\ next \in 2 .. Len(Rows) + 1
    /\ chunks = <<>> => stitched = raw
    /\ chunks # <<>> /\ Faithful => stitched = SubSeq(text, 1, chunks[next - 1].to)

BodyIInv == Shape /\ Cuts /\ Loop /\ Reading /\ BodyComesBack

LEMMA TextIsSequence ==
  ASSUME Shape
  PROVE  /\ \E S : text \in Seq(S)
         /\ Len(text) \in Nat
         /\ Len(chunks) \in Nat
         /\ DOMAIN chunks = 1 .. Len(chunks)
         /\ \A k \in 1 .. Len(chunks) : chunks[k].from \in Nat /\ chunks[k].to \in Nat
         /\ chunks # <<>> <=> Len(chunks) > 0
<1>1. PICK S : text \in Seq(S)
  BY BodiesAreSequences, NormalisedIsSequence DEF Shape
<1>2. Len(text) \in Nat
  BY <1>1, LenProperties
<1>3. chunks \in Seq([from : Nat, to : Nat])
  BY DEF Shape
<1>4. Len(chunks) \in Nat /\ DOMAIN chunks = 1 .. Len(chunks)
  BY <1>3, LenProperties
<1>5. \A k \in 1 .. Len(chunks) : chunks[k] \in [from : Nat, to : Nat]
  BY <1>3, ElementOfSeq
<1>6. chunks # <<>> <=> Len(chunks) > 0
  BY <1>3, EmptySeq
<1> QED
  BY <1>1, <1>2, <1>4, <1>5, <1>6

\* Two chunks that follow one another.
LEMMA Neighbours ==
  ASSUME Shape, Cuts, NEW k \in 1 .. Len(chunks) - 1
  PROVE  /\ chunks[k].from < chunks[k + 1].from
         /\ chunks[k + 1].from <= chunks[k].to
         /\ chunks[k].to <= chunks[k + 1].to
         /\ \/ chunks[k + 1].from = chunks[k].to
            \/ chunks[k + 1].from = chunks[k].to - Overlap
         /\ chunks[k + 1].from = chunks[k].to
              <=> chunks[k].to - chunks[k].from <= Overlap \/ Overlap = 0
<1> DEFINE a == chunks[k]
           b == chunks[k + 1]
<1>1. k \in 1 .. Len(chunks) /\ k + 1 \in 1 .. Len(chunks) /\ Len(text) \in Nat
  BY TextIsSequence
<1>2. a.from \in Nat /\ a.to \in Nat /\ b.from \in Nat /\ b.to \in Nat
  BY <1>1, TextIsSequence
<1>3. a.from < a.to
  BY <1>1 DEF Cuts
<1>4. a.to < Len(text) /\ b.from = NextStart(a.from, a.to)
  BY <1>1 DEF Cuts
<1>5. b.to <= Len(text) /\ (b.to < Len(text) => b.from + MinChars <= b.to)
  BY <1>1 DEF Cuts
<1> HIDE DEF a, b
<1>6. /\ a.from < NextStart(a.from, a.to)
      /\ NextStart(a.from, a.to) <= a.to
      /\ \/ NextStart(a.from, a.to) = a.to
         \/ NextStart(a.from, a.to) = a.to - Overlap
      /\ NextStart(a.from, a.to) = a.to <=> a.to - a.from <= Overlap \/ Overlap = 0
  BY <1>2, <1>3, NextStartBounds
<1>7. a.to <= b.to
  BY <1>1, <1>2, <1>4, <1>5, <1>6, ConfigAssumption
<1> QED
  BY <1>4, <1>6, <1>7 DEF a, b

LEMMA CutsCover ==
  ASSUME Shape, Cuts, Loop
  PROVE  ChunksCoverBody
<1>1. ASSUME NEW k \in DOMAIN chunks
      PROVE  /\ chunks[k].from < chunks[k].to
             /\ chunks[k].to <= chunks[k].from + MaxChars
             /\ k = 1 => chunks[k].from = 0
  BY TextIsSequence DEF Cuts
<1>2. ASSUME NEW k \in DOMAIN chunks, k + 1 \in DOMAIN chunks
      PROVE  /\ chunks[k].from < chunks[k + 1].from
             /\ chunks[k + 1].from <= chunks[k].to
             /\ chunks[k].to <= chunks[k + 1].to
  <2>1. k \in 1 .. Len(chunks) - 1
    BY <1>2, TextIsSequence
  <2> QED
    BY <2>1, Neighbours
<1>3. pc # "chunking" /\ ~AllSpace(text) /\ Len(chunks) < MaxChunks =>
        chunks # <<>> /\ chunks[Len(chunks)].to = Len(text)
  BY DEF Loop
<1> QED
  BY <1>1, <1>2, <1>3 DEF ChunksCoverBody

LEMMA CutsAdvance ==
  ASSUME Shape, Cuts
  PROVE  EverySecondChunkAdvances
<1> SUFFICES ASSUME NEW k \in DOMAIN chunks, k + 2 \in DOMAIN chunks
             PROVE  chunks[k].to < chunks[k + 2].to
  BY DEF EverySecondChunkAdvances
<1>1. /\ k \in 1 .. Len(chunks) - 1
      /\ k + 1 \in 1 .. Len(chunks) - 1
      /\ k + 1 \in 1 .. Len(chunks)
      /\ k + 2 \in 1 .. Len(chunks)
  BY TextIsSequence
<1> DEFINE a == chunks[k]
           b == chunks[k + 1]
           c == chunks[k + 2]
<1>2. /\ a.from \in Nat /\ a.to \in Nat /\ b.from \in Nat
      /\ b.to \in Nat /\ c.from \in Nat /\ c.to \in Nat
  BY <1>1, TextIsSequence
<1>3. /\ a.to <= b.to
      /\ b.from = a.to \/ b.from = a.to - Overlap
  BY <1>1, Neighbours
<1>4. (k + 1) + 1 = k + 2
  BY <1>1
<1>5. /\ b.to <= c.to
      /\ c.from = b.to <=> b.to - b.from <= Overlap \/ Overlap = 0
  BY <1>1, <1>4, Neighbours
<1>6. b.from < b.to /\ c.from < c.to
  BY <1>1 DEF Cuts
<1> HIDE DEF a, b, c
<1>7. a.to < c.to
  BY <1>2, <1>3, <1>5, <1>6, ConfigAssumption
<1> QED
  BY <1>7 DEF a, b, c

-----------------------------------------------------------------------------
(* The invariant is inductive.                                             *)

LEMMA BodyIInvInit == BodyInit => BodyIInv
<1> SUFFICES ASSUME BodyInit PROVE BodyIInv
  OBVIOUS
<1>1. Shape
  BY DEF BodyInit, Shape
<1>2. Len(chunks) = 0
  BY DEF BodyInit
<1>3. Cuts
  BY <1>2 DEF Cuts
<1>4. Loop
  BY DEF BodyInit, Loop
<1>5. Reading /\ BodyComesBack
  BY DEF BodyInit, Reading, BodyComesBack
<1> QED
  BY <1>1, <1>3, <1>4, <1>5 DEF BodyIInv

\* One more chunk.
LEMMA SplitInv ==
  ASSUME Shape, Cuts, Loop, Split
  PROVE  Shape' /\ Cuts' /\ Loop'
<1>1. PICK end \in start + 1 .. Len(text) :
        /\ IsEnd(start, end)
        /\ chunks' = Append(chunks, [from |-> start, to |-> end])
        /\ IF end = Len(text)
           THEN pc' = "stored" /\ UNCHANGED start
           ELSE start' = NextStart(start, end) /\ UNCHANGED pc
  BY DEF Split
<1> DEFINE n == Len(chunks)
<1>2. /\ pc = "chunking" /\ ~AllSpace(text) /\ fidelity = "none"
      /\ UNCHANGED <<raw, text, next, fidelity>>
  BY DEF Split, Loop
<1>3. start \in Nat /\ Len(text) \in Nat /\ n \in Nat
  BY TextIsSequence DEF Shape
<1>4. end \in Nat /\ start < end /\ end <= Len(text)
  BY <1>3
<1>5. /\ end <= start + MaxChars
      /\ end < Len(text) => start + MinChars <= end
  BY <1>1, <1>3, <1>4, EndBounds
<1>6. NextStart(start, end) \in Nat
  BY <1>3, <1>4, NextStartBounds
<1>7. /\ chunks' \in Seq([from : Nat, to : Nat])
      /\ Len(chunks') = n + 1
      /\ \A k \in 1 .. n : chunks'[k] = chunks[k]
      /\ chunks'[n + 1] = [from |-> start, to |-> end]
  BY <1>1, <1>3, <1>4 DEF Shape
<1>8. Shape'
  BY <1>1, <1>2, <1>3, <1>6, <1>7 DEF Shape
<1>9. Cuts'
  <2> SUFFICES ASSUME NEW k \in 1 .. n + 1
               PROVE
                 /\ chunks'[k].from < chunks'[k].to
                 /\ chunks'[k].to <= Len(text)
                 /\ chunks'[k].to <= chunks'[k].from + MaxChars
                 /\ chunks'[k].to < Len(text) =>
                      chunks'[k].from + MinChars <= chunks'[k].to
                 /\ k = 1 => chunks'[k].from = 0
                 /\ k > 1 => /\ chunks'[k - 1].to < Len(text)
                             /\ chunks'[k].from
                                  = NextStart(chunks'[k - 1].from, chunks'[k - 1].to)
    BY <1>2, <1>7 DEF Cuts, NextStart
  <2>1. CASE k \in 1 .. n
    <3>1. chunks'[k] = chunks[k]
      BY <1>7, <2>1
    <3>2. ASSUME k > 1 PROVE chunks'[k - 1] = chunks[k - 1]
      <4>1. k - 1 \in 1 .. n
        BY <1>3, <2>1, <3>2
      <4> QED
        BY <1>7, <4>1
    <3> QED
      BY <2>1, <3>1, <3>2 DEF Cuts
  <2>2. CASE k = n + 1
    <3>1. chunks'[k].from = start /\ chunks'[k].to = end
      BY <1>7, <2>2
    <3>2. k = 1 => start = 0
      BY <1>2, <1>3, <2>2, TextIsSequence DEF Loop
    <3>3. ASSUME k > 1
          PROVE  /\ chunks'[k - 1].to < Len(text)
                 /\ start = NextStart(chunks'[k - 1].from, chunks'[k - 1].to)
      <4>1. k - 1 = n /\ n \in 1 .. n
        BY <1>3, <2>2, <3>3
      <4>2. chunks'[k - 1] = chunks[n]
        BY <1>7, <4>1
      <4>3. chunks # <<>>
        BY <4>1, TextIsSequence
      <4> QED
        BY <1>2, <4>2, <4>3 DEF Loop
    <3> QED
      BY <1>4, <1>5, <3>1, <3>2, <3>3
  <2> QED
    BY <1>3, <2>1, <2>2
<1>10. Loop'
  <2>1. chunks' # <<>>
    BY <1>3, <1>7
  <2>2. chunks'[Len(chunks')].from = start /\ chunks'[Len(chunks')].to = end
    BY <1>7
  <2>3. ~AllSpace(text)'
    BY <1>2 DEF AllSpace, Space
  <2>4. CASE end = Len(text)
    BY <1>1, <1>2, <2>1, <2>2, <2>3, <2>4 DEF Loop
  <2>5. CASE end # Len(text)
    <3>1. end < Len(text)
      BY <1>3, <1>4, <2>5
    <3>2. pc' = "chunking" /\ start' = NextStart(start, end)
      BY <1>1, <1>2, <2>5
    <3> QED
      BY <1>2, <2>1, <2>2, <2>3, <3>1, <3>2 DEF Loop, NextStart
  <2> QED
    BY <2>4, <2>5
<1> QED
  BY <1>8, <1>9, <1>10

\* A step that leaves the body and its chunks alone.
LEMMA SameBody ==
  ASSUME UNCHANGED <<raw, text, chunks>>
  PROVE  /\ Cuts' <=> Cuts
         /\ Rows' = Rows
         /\ Faithful' <=> Faithful
         /\ AllSpace(text)' <=> AllSpace(text)
<1>1. Cuts' <=> Cuts
  BY DEF Cuts, NextStart
<1>2. Rows' = Rows
  BY DEF Rows
<1>3. Faithful' <=> Faithful
  BY DEF Faithful, Coincidence
<1>4. AllSpace(text)' <=> AllSpace(text)
  BY DEF AllSpace, Space
<1> QED
  BY <1>1, <1>2, <1>3, <1>4

\* The rows that are read.
LEMMA RowsOfChunks ==
  ASSUME Shape, raw # <<>>
  PROVE  /\ chunks = <<>> => Rows = <<raw>>
         /\ chunks # <<>> =>
              /\ Len(Rows) = Len(chunks)
              /\ \A k \in 1 .. Len(chunks) :
                   Rows[k] = SubSeq(text, chunks[k].from + 1, chunks[k].to)
<1>1. chunks = <<>> => Rows = <<raw>>
  BY DEF Rows
<1>2. ASSUME chunks # <<>>
      PROVE  /\ Len(Rows) = Len(chunks)
             /\ \A k \in 1 .. Len(chunks) :
                  Rows[k] = SubSeq(text, chunks[k].from + 1, chunks[k].to)
  <2>1. Rows = [k \in 1 .. Len(chunks) |->
                  SubSeq(text, chunks[k].from + 1, chunks[k].to)]
    BY <1>2, TextIsSequence DEF Rows
  <2> DEFINE T == {Rows[k] : k \in 1 .. Len(chunks)}
  <2>2. Len(chunks) \in Nat
    BY TextIsSequence
  <2>3. DOMAIN Rows = 1 .. Len(chunks) /\ Rows \in [1 .. Len(chunks) -> T]
    BY <2>1
  <2>4. Rows \in Seq(T)
    BY <2>2, <2>3, SeqDef
  <2>5. Len(Rows) \in Nat /\ 1 .. Len(Rows) = 1 .. Len(chunks)
    BY <2>3, <2>4, LenProperties
  <2>6. Len(Rows) = Len(chunks)
    BY <2>2, <2>5
  <2> QED
    BY <2>1, <2>6
<1> QED
  BY <1>1, <1>2

\* The reader appends chunk k + 1 to the text up to the end of chunk k.
LEMMA JunctionIsStitched ==
  ASSUME Shape, Cuts, Faithful, NEW k \in 1 .. Len(chunks) - 1
  PROVE  Stitched(SubSeq(text, 1, chunks[k].to),
                  SubSeq(text, chunks[k + 1].from + 1, chunks[k + 1].to))
           = SubSeq(text, 1, chunks[k + 1].to)
<1> DEFINE a == chunks[k]
           b == chunks[k + 1]
<1>1. PICK S : text \in Seq(S)
  BY TextIsSequence
<1>2. k \in 1 .. Len(chunks) /\ k + 1 \in 1 .. Len(chunks) /\ Len(text) \in Nat
  BY TextIsSequence
<1>3. /\ a.from \in Nat /\ a.to \in Nat /\ b.from \in Nat /\ b.to \in Nat
      /\ a.from < a.to /\ a.to <= Len(text)
      /\ b.from < b.to /\ b.to <= Len(text)
  BY <1>2, TextIsSequence DEF Cuts
<1>4. /\ a.to <= b.to
      /\ b.from = a.to \/ b.from = a.to - Overlap
      /\ b.to < Len(text) => b.from + MinChars <= b.to
      /\ a.to < Len(text)
  BY <1>2, Neighbours DEF Cuts
<1>5. ~Coincidence(k)
  BY DEF Faithful
<1>6. CASE b.from = a.to
  <2>1. a.to \in 1 .. Len(text) /\ b.to \in a.to + 1 .. Len(text)
    BY <1>2, <1>3, <1>6
  <2>2. Overlap > 0 /\ Overlap <= a.to /\ Overlap <= b.to - a.to =>
          \E i \in 1 .. Overlap : text[a.to - Overlap + i] # text[a.to + i]
    BY <1>5, <1>6 DEF Coincidence
  <2> HIDE DEF a, b
  <2>3. Stitched(SubSeq(text, 1, a.to), SubSeq(text, a.to + 1, b.to))
          = SubSeq(text, 1, b.to)
    BY <1>1, <2>1, <2>2, StitchAdjacent
  <2> QED
    BY <1>6, <2>3 DEF a, b
<1>7. CASE b.from # a.to
  <2> HIDE DEF a, b
  <2>1. /\ b.from = a.to - Overlap /\ Overlap \in Nat /\ Overlap > 0
        /\ Overlap <= a.to
    BY <1>3, <1>4, <1>7, ConfigAssumption
  <2>2. Overlap <= b.to - (a.to - Overlap)
    BY <1>3, <1>4, <2>1
  <2>3. a.to \in 1 .. Len(text) /\ b.to \in a.to .. Len(text)
    BY <1>2, <1>3, <1>4
  <2>4. Stitched(SubSeq(text, 1, a.to), SubSeq(text, a.to - Overlap + 1, b.to))
          = SubSeq(text, 1, b.to)
    BY <1>1, <2>1, <2>2, <2>3, StitchOverlap
  <2> QED
    BY <2>1, <2>4 DEF a, b
<1> QED
  BY <1>6, <1>7

\* What is put together when all rows are used is the body.
LEMMA CompleteIsRaw ==
  ASSUME Shape, Reading, pc = "stitching", next > Len(Rows), Faithful
  PROVE  stitched = raw
<1>1. raw # <<>> /\ next \in 2 .. Len(Rows) + 1
  BY DEF Reading
<1>2. CASE chunks = <<>>
  BY <1>2 DEF Reading
<1>3. CASE chunks # <<>>
  <2>1. Len(Rows) = Len(chunks) /\ Len(chunks) \in Nat
    BY <1>1, <1>3, RowsOfChunks, TextIsSequence
  <2>2. next - 1 = Len(chunks)
    BY <1>1, <2>1
  <2>3. stitched = SubSeq(text, 1, chunks[Len(chunks)].to)
    BY <1>3, <2>2 DEF Reading
  <2>4. chunks[Len(chunks)].to = Len(text)
    BY <1>3 DEF Faithful
  <2>5. stitched = text
    BY <2>3, <2>4, TextIsSequence, SubSeqFull
  <2>6. text = raw
    BY BodiesAreSequences, NormalisedIsSame DEF Shape, Faithful
  <2> QED
    BY <2>5, <2>6
<1> QED
  BY <1>2, <1>3

LEMMA StitchReading ==
  ASSUME Shape, Cuts, Reading, Stitch
  PROVE  Reading'
<1>1. /\ pc = "stitching" /\ next <= Len(Rows)
      /\ stitched' = Stitched(stitched, Rows[next])
      /\ next' = next + 1
      /\ UNCHANGED <<raw, text, chunks, start, pc, fidelity>>
  BY DEF Stitch
<1>2. Rows' = Rows /\ (Faithful' <=> Faithful)
  BY <1>1, SameBody
<1>3. raw # <<>> /\ next \in 2 .. Len(Rows) + 1
  BY <1>1 DEF Reading
<1>4. next' \in 2 .. Len(Rows) + 1 /\ next \in Nat
  <2>1. Len(Rows) \in Nat
    BY <1>3, RowsOfChunks, TextIsSequence
  <2> QED
    BY <1>1, <1>3, <2>1 DEF Shape
<1>5. chunks # <<>>
  <2> SUFFICES ASSUME chunks = <<>> PROVE FALSE
    OBVIOUS
  <2>1. Len(Rows) = 1
    BY <1>3, RowsOfChunks
  <2> QED
    BY <1>1, <1>3, <2>1
<1>6. ASSUME Faithful PROVE stitched' = SubSeq(text, 1, chunks[next].to)
  <2>1. Len(Rows) = Len(chunks) /\ Len(chunks) \in Nat
    BY <1>3, <1>5, RowsOfChunks, TextIsSequence
  <2>2. next - 1 \in 1 .. Len(chunks) - 1 /\ (next - 1) + 1 = next /\ next \in 1 .. Len(chunks)
    BY <1>1, <1>3, <2>1
  <2>3. stitched = SubSeq(text, 1, chunks[next - 1].to)
    BY <1>1, <1>5, <1>6 DEF Reading
  <2>4. Rows[next] = SubSeq(text, chunks[next].from + 1, chunks[next].to)
    BY <1>3, <1>5, <2>2, RowsOfChunks
  <2>5. Stitched(SubSeq(text, 1, chunks[next - 1].to),
                 SubSeq(text, chunks[next].from + 1, chunks[next].to))
          = SubSeq(text, 1, chunks[next].to)
    <3> DEFINE k == next - 1
    <3>1. k \in 1 .. Len(chunks) - 1 /\ k + 1 = next
      BY <2>2
    <3> HIDE DEF k
    <3>2. Stitched(SubSeq(text, 1, chunks[k].to),
                   SubSeq(text, chunks[k + 1].from + 1, chunks[k + 1].to))
            = SubSeq(text, 1, chunks[k + 1].to)
      BY <1>6, <3>1, JunctionIsStitched
    <3> QED
      BY <3>1, <3>2 DEF k
  <2> QED
    BY <1>1, <2>3, <2>4, <2>5
<1>7. next' - 1 = next
  BY <1>1, <1>4
<1> QED
  BY <1>1, <1>2, <1>3, <1>4, <1>5, <1>6, <1>7 DEF Reading

LEMMA BodyIInvNext == BodyIInv /\ [BodyNext]_bodyVars => BodyIInv'
<1> SUFFICES ASSUME BodyIInv, [BodyNext]_bodyVars PROVE BodyIInv'
  OBVIOUS
<1> USE DEF BodyIInv
<1>1. CASE Split
  <2>1. Shape' /\ Cuts' /\ Loop'
    BY <1>1, SplitInv
  <2>2. pc = "chunking" /\ pc' # "stitching" /\ fidelity' = fidelity
    BY <1>1 DEF Split
  <2>3. fidelity' = "none"
    BY <2>2 DEF Loop
  <2>4. Reading' /\ BodyComesBack'
    BY <2>2, <2>3 DEF Reading, BodyComesBack
  <2> QED
    BY <2>1, <2>4
<1>2. CASE GuardHit \/ StoreUnsplit
  <2>1. /\ pc = "chunking" /\ pc' = "stored"
        /\ UNCHANGED <<raw, text, chunks, start, stitched, next, fidelity>>
    BY <1>2 DEF GuardHit, StoreUnsplit
  <2>2. Shape' /\ Cuts'
    BY <2>1, SameBody DEF Shape
  <2>3. Loop'
    <3>1. AllSpace(text) => chunks = <<>>
      BY DEF Loop
    <3>2. CASE GuardHit
      <4>1. Len(chunks) >= MaxChunks /\ Len(chunks) \in Nat
        BY <3>2, TextIsSequence DEF GuardHit
      <4>2. chunks # <<>> /\ ~(Len(chunks) < MaxChunks)
        BY <4>1, TextIsSequence, ConfigAssumption
      <4> QED
        BY <2>1, <3>1, <4>2, SameBody DEF Loop
    <3>3. CASE StoreUnsplit
      <4>1. AllSpace(text)
        BY <3>3 DEF StoreUnsplit
      <4> QED
        BY <2>1, <3>1, <4>1, SameBody DEF Loop
    <3> QED
      BY <1>2, <3>2, <3>3
  <2>4. fidelity' = "none"
    BY <2>1 DEF Loop
  <2>5. Reading' /\ BodyComesBack'
    BY <2>1, <2>4 DEF Reading, BodyComesBack
  <2> QED
    BY <2>2, <2>3, <2>5
<1>3. ASSUME NEW expected \in {"none", "same", "other"}, ReadBody(expected)
      PROVE  BodyIInv'
  <2>1. /\ pc = "stored" /\ pc' \in {"stored", "stitching"}
        /\ UNCHANGED <<raw, text, chunks, start>>
    BY <1>3 DEF ReadBody
  <2>2. next' \in Nat
    BY <1>3 DEF ReadBody, Shape
  <2>3. Shape' /\ Cuts'
    BY <2>1, <2>2, SameBody DEF Shape
  <2>4. Loop'
    BY <2>1, SameBody DEF Loop
  <2>5. CASE fidelity' = "version_conflict" /\ pc' = pc
    BY <2>1, <2>3, <2>4, <2>5 DEF Reading, BodyComesBack
  <2>6. CASE Rows = <<>> /\ pc' = pc
             /\ fidelity' = IF raw = <<>> THEN "hash-verified" ELSE "unavailable"
    <3>1. raw = <<>>
      <4> SUFFICES ASSUME raw # <<>> PROVE FALSE
        OBVIOUS
      <4>1. CASE chunks = <<>>
        BY <2>6, <4>1, RowsOfChunks
      <4>2. CASE chunks # <<>>
        BY <2>6, <4>2, RowsOfChunks, TextIsSequence
      <4> QED
        BY <4>1, <4>2
    <3> QED
      BY <2>1, <2>3, <2>4, <2>6, <3>1 DEF Reading, BodyComesBack
  <2>7. CASE /\ Rows # <<>> /\ pc' = "stitching" /\ stitched' = Rows[1]
             /\ next' = 2 /\ fidelity' = "none"
    <3>1. raw # <<>>
      BY <2>7 DEF Rows
    <3>2. Rows' = Rows
      BY <2>1, SameBody
    <3>3. CASE chunks = <<>>
      <4>1. Rows = <<raw>>
        BY <3>1, <3>3, RowsOfChunks
      <4>2. Reading'
        BY <2>1, <2>7, <3>1, <3>2, <3>3, <4>1 DEF Reading
      <4> QED
        BY <2>3, <2>4, <2>7, <4>2 DEF BodyComesBack
    <3>4. CASE chunks # <<>>
      <4>1. Len(chunks) \in Nat /\ 1 \in 1 .. Len(chunks)
        BY <3>4, TextIsSequence
      <4>2. /\ Len(Rows) = Len(chunks)
            /\ Rows[1] = SubSeq(text, chunks[1].from + 1, chunks[1].to)
        BY <3>1, <3>4, <4>1, RowsOfChunks
      <4>3. chunks[1].from = 0
        BY <4>1 DEF Cuts
      <4>4. Rows[1] = SubSeq(text, 1, chunks[1].to)
        BY <4>2, <4>3
      <4>5. next' \in 2 .. Len(Rows) + 1 /\ next' - 1 = 1
        BY <2>7, <4>1, <4>2
      <4>6. Reading'
        BY <2>1, <2>7, <3>1, <3>2, <3>4, <4>4, <4>5 DEF Reading
      <4> QED
        BY <2>3, <2>4, <2>7, <4>6 DEF BodyComesBack
    <3> QED
      BY <3>3, <3>4
  <2> QED
    BY <1>3, <2>5, <2>6, <2>7 DEF ReadBody
<1>4. CASE Stitch
  <2>1. /\ pc = "stitching" /\ next' = next + 1
        /\ UNCHANGED <<raw, text, chunks, start, pc, fidelity>>
    BY <1>4 DEF Stitch
  <2>2. Shape' /\ Cuts' /\ Loop'
    BY <2>1, SameBody DEF Shape, Loop, NextStart
  <2>3. Reading'
    BY <1>4, StitchReading
  <2>4. BodyComesBack'
    BY <2>1, SameBody DEF BodyComesBack
  <2> QED
    BY <2>2, <2>3, <2>4
<1>5. CASE Verify
  <2>1. /\ pc = "stitching" /\ pc' = "stored" /\ next > Len(Rows) /\ next' = 0
        /\ fidelity' = IF stitched = raw THEN "hash-verified" ELSE "unverifiable"
        /\ UNCHANGED <<raw, text, chunks, start>>
    BY <1>5 DEF Verify
  <2>2. Shape' /\ Cuts' /\ Loop'
    BY <2>1, SameBody DEF Shape, Loop
  <2>3. Reading'
    BY <2>1 DEF Reading
  <2>4. BodyComesBack'
    BY <2>1, SameBody, CompleteIsRaw DEF BodyComesBack
  <2> QED
    BY <2>2, <2>3, <2>4
<1>6. CASE UNCHANGED bodyVars
  <2>1. UNCHANGED <<raw, text, chunks, start, stitched, next, pc, fidelity>>
    BY <1>6 DEF bodyVars
  <2>2. Shape' /\ Cuts' /\ Loop'
    BY <2>1, SameBody DEF Shape, Loop, NextStart
  <2>3. Reading' /\ BodyComesBack'
    BY <2>1, SameBody DEF Reading, BodyComesBack
  <2> QED
    BY <2>2, <2>3
<1> QED
  BY <1>1, <1>2, <1>3, <1>4, <1>5, <1>6 DEF BodyNext

-----------------------------------------------------------------------------
(* What is read of a body that was cut off.                                *)

\* Nothing is longer for being normalised.
LEMMA NormalisedIsNoLonger ==
  ASSUME NEW r \in Seq(Char)
  PROVE  Len(Normalised(r)) <= Len(r) /\ Len(r) \in Nat /\ Len(Normalised(r)) \in Nat
<1> DEFINE n == Cardinality(Kept(r))
           t == Normalised(r)
<1>1. Len(r) \in Nat /\ DOMAIN r = 1 .. Len(r)
  BY LenProperties
<1>2. IsFiniteSet(1 .. Len(r)) /\ Cardinality(1 .. Len(r)) = Len(r)
  BY <1>1, FS_Interval
<1>3. n \in Nat /\ n <= Len(r)
  <2>1. Kept(r) \subseteq 1 .. Len(r)
    BY <1>1 DEF Kept
  <2> QED
    BY <1>2, <2>1, FS_Subset, FS_CardinalityType
<1>4. DOMAIN t = 1 .. n
  BY DEF Normalised
<1> HIDE DEF n, t
<1>5. Len(t) \in Nat /\ DOMAIN t = 1 .. Len(t)
  <2>1. PICK S : t \in Seq(S)
    BY NormalisedIsSequence DEF t
  <2> QED
    BY <2>1, LenProperties
<1>6. Len(t) = n
  BY <1>3, <1>4, <1>5
<1> QED
  BY <1>1, <1>3, <1>5, <1>6 DEF t

\* s ends with all of u.
Ends(s, u) == Len(u) <= Len(s) /\ \A i \in 1 .. Len(u) : s[Len(s) - Len(u) + i] = u[i]

\* Whatever the reader takes for an overlap, what it puts together ends with the row it added.
LEMMA StitchedEnds ==
  ASSUME NEW S, NEW s \in Seq(S), NEW t \in Seq(S)
  PROVE  /\ Stitched(s, t) \in Seq(S) /\ Ends(Stitched(s, t), t)
         /\ Len(Stitched(s, t)) = IF Overlapping(s, t) THEN Len(s) + Len(t) - Overlap ELSE Len(s) + Len(t)
<1>1. /\ Len(s) \in Nat /\ Len(t) \in Nat /\ Overlap \in Nat
      /\ \A i \in 1 .. Len(t) : t[i] \in S
      /\ \A i \in 1 .. Len(s) : s[i] \in S
  BY LenProperties, ElementOfSeq, ConfigAssumption
<1>2. CASE Overlapping(s, t)
  <2> DEFINE u == SubSeq(t, Overlap + 1, Len(t))
             v == LastChars(s, Overlap)
             w == SubSeq(t, 1, Overlap)
  <2>1. Overlap > 0 /\ Overlap <= Len(s) /\ Overlap <= Len(t) /\ v = w
    BY <1>1, <1>2 DEF Overlapping
  <2>2. /\ u \in Seq(S) /\ Len(u) = Len(t) - Overlap
        /\ \A i \in 1 .. Len(t) - Overlap : u[i] = t[Overlap + i]
    <3>1. \A i \in Overlap + 1 .. Len(t) : t[i] \in S
      BY <1>1
    <3>2. /\ u \in Seq(S)
          /\ Len(u) = IF Overlap + 1 <= Len(t) THEN Len(t) - (Overlap + 1) + 1 ELSE 0
          /\ \A i \in 1 .. Len(t) - (Overlap + 1) + 1 : u[i] = t[Overlap + 1 + i - 1]
      BY <1>1, <3>1, SubSeqProperties
    <3> HIDE DEF u
    <3> QED
      BY <1>1, <2>1, <3>2
  <2>3. \A i \in 1 .. Overlap : s[Len(s) - Overlap + i] = t[i]
    <3>1. \A i \in Len(s) - Overlap + 1 .. Len(s) : s[i] \in S
      BY <1>1, <2>1
    <3>2. \A i \in 1 .. Overlap : v[i] = s[Len(s) - Overlap + i]
      <4>1. \A i \in 1 .. Len(s) - (Len(s) - Overlap + 1) + 1 : v[i] = s[Len(s) - Overlap + 1 + i - 1]
        BY <1>1, <2>1, <3>1, SubSeqProperties DEF LastChars
      <4> HIDE DEF v
      <4> QED
        BY <1>1, <2>1, <4>1
    <3>3. \A i \in 1 .. Overlap : w[i] = t[i]
      <4>1. \A i \in 1 .. Overlap : t[i] \in S
        BY <1>1, <2>1
      <4>2. \A i \in 1 .. Overlap - 1 + 1 : w[i] = t[1 + i - 1]
        BY <1>1, <2>1, <4>1, SubSeqProperties
      <4> HIDE DEF w
      <4> QED
        BY <1>1, <4>2
    <3> HIDE DEF v, w
    <3> QED
      BY <2>1, <3>2, <3>3
  <2>4. Stitched(s, t) = s \o u
    BY <1>2 DEF Stitched
  <2> HIDE DEF u, v, w
  <2>5. /\ s \o u \in Seq(S) /\ Len(s \o u) = Len(s) + Len(t) - Overlap
        /\ \A i \in 1 .. Len(s) : (s \o u)[i] = s[i]
        /\ \A i \in 1 .. Len(t) - Overlap : (s \o u)[Len(s) + i] = t[Overlap + i]
    <3>1. /\ s \o u \in Seq(S) /\ Len(s \o u) = Len(s) + Len(u)
          /\ \A i \in 1 .. Len(s) + Len(u) :
               (s \o u)[i] = IF i <= Len(s) THEN s[i] ELSE u[i - Len(s)]
      BY <2>2, ConcatProperties
    <3>2. ASSUME NEW i \in 1 .. Len(t) - Overlap
          PROVE  (s \o u)[Len(s) + i] = t[Overlap + i]
      <4>1. /\ Len(s) + i \in 1 .. Len(s) + Len(u) /\ ~ (Len(s) + i <= Len(s))
            /\ Len(s) + i - Len(s) = i
        BY <1>1, <2>1, <2>2
      <4>2. (s \o u)[Len(s) + i] = u[i]
        BY <3>1, <4>1
      <4> QED
        BY <2>2, <4>2
    <3>3. \A i \in 1 .. Len(s) : i \in 1 .. Len(s) + Len(u) /\ i <= Len(s)
      BY <1>1, <2>1, <2>2
    <3> QED
      BY <1>1, <2>1, <2>2, <3>1, <3>2, <3>3
  <2> DEFINE x == s \o u
  <2>6. ASSUME NEW i \in 1 .. Len(t)
        PROVE  x[Len(x) - Len(t) + i] = t[i]
    <3> HIDE DEF x
    <3>1. Len(x) - Len(t) + i = Len(s) - Overlap + i
      BY <1>1, <2>1, <2>5 DEF x
    <3>2. CASE i <= Overlap
      <4>1. i \in 1 .. Overlap /\ Len(s) - Overlap + i \in 1 .. Len(s)
        BY <1>1, <2>1, <3>2
      <4> QED
        BY <2>3, <2>5, <3>1, <4>1 DEF x
    <3>3. CASE i > Overlap
      <4>1. i - Overlap \in 1 .. Len(t) - Overlap /\ Len(s) + (i - Overlap) = Len(s) - Overlap + i
            /\ Overlap + (i - Overlap) = i
        BY <1>1, <2>1, <3>3
      <4>2. x[Len(s) + (i - Overlap)] = t[Overlap + (i - Overlap)]
        BY <2>5, <4>1 DEF x
      <4> QED
        BY <3>1, <4>1, <4>2
    <3> QED
      BY <1>1, <3>2, <3>3
  <2> HIDE DEF x
  <2>7. Len(t) <= Len(x)
    BY <1>1, <2>1, <2>5 DEF x
  <2> QED
    BY <1>2, <2>4, <2>5, <2>6, <2>7 DEF Ends, x
<1>3. CASE ~Overlapping(s, t)
  <2>1. Stitched(s, t) = s \o t
    BY <1>3 DEF Stitched
  <2>2. /\ s \o t \in Seq(S) /\ Len(s \o t) = Len(s) + Len(t)
        /\ \A i \in 1 .. Len(t) : (s \o t)[Len(s) + i] = t[i]
    BY <1>1
  <2> DEFINE x == s \o t
  <2> HIDE DEF x
  <2>3. Len(t) <= Len(x) /\ Len(x) - Len(t) = Len(s)
    BY <1>1, <2>2 DEF x
  <2> QED
    BY <1>3, <2>1, <2>2, <2>3 DEF Ends, x
<1> QED
  BY <1>2, <1>3

\* A row that does repeat the end of the one before it is recognised.
LEMMA OverlapIsSeen ==
  ASSUME NEW S, NEW t \in Seq(S), NEW s \in Seq(S), NEW a \in Nat, NEW b \in Nat, NEW e \in Nat,
         a < b, b <= e, e <= Len(t), Overlap > 0, Overlap < b - a, Ends(s, SubSeq(t, a + 1, b))
  PROVE  Overlapping(s, SubSeq(t, b - Overlap + 1, e))
<1> DEFINE u == SubSeq(t, a + 1, b)
           v == SubSeq(t, b - Overlap + 1, e)
           x == LastChars(s, Overlap)
           y == SubSeq(v, 1, Overlap)
<1>1. /\ Len(s) \in Nat /\ Len(t) \in Nat /\ Overlap \in Nat
      /\ \A i \in 1 .. Len(t) : t[i] \in S
      /\ \A i \in 1 .. Len(s) : s[i] \in S
  BY LenProperties, ElementOfSeq, ConfigAssumption
<1>2. Len(u) = b - a /\ \A i \in 1 .. b - a : u[i] = t[a + i]
  <2>1. \A i \in a + 1 .. b : t[i] \in S
    BY <1>1
  <2>2. /\ Len(u) = IF a + 1 <= b THEN b - (a + 1) + 1 ELSE 0
        /\ \A i \in 1 .. b - (a + 1) + 1 : u[i] = t[a + 1 + i - 1]
    BY <1>1, <2>1, SubSeqProperties
  <2> HIDE DEF u
  <2> QED
    BY <1>1, <2>2
<1>3. /\ v \in Seq(S) /\ Len(v) = e - b + Overlap
      /\ \A i \in 1 .. e - b + Overlap : v[i] = t[b - Overlap + i]
  <2>1. \A i \in b - Overlap + 1 .. e : t[i] \in S
    BY <1>1
  <2>2. /\ v \in Seq(S)
        /\ Len(v) = IF b - Overlap + 1 <= e THEN e - (b - Overlap + 1) + 1 ELSE 0
        /\ \A i \in 1 .. e - (b - Overlap + 1) + 1 : v[i] = t[b - Overlap + 1 + i - 1]
    BY <1>1, <2>1, SubSeqProperties
  <2> HIDE DEF v
  <2> QED
    BY <1>1, <2>2
<1>4. Overlap <= Len(s) /\ \A i \in 1 .. Overlap : s[Len(s) - Overlap + i] = t[b - Overlap + i]
  <2>1. b - a <= Len(s) /\ \A j \in 1 .. b - a : s[Len(s) - (b - a) + j] = t[a + j]
    BY <1>2 DEF Ends
  <2>2. ASSUME NEW i \in 1 .. Overlap
        PROVE  s[Len(s) - Overlap + i] = t[b - Overlap + i]
    <3>1. PICK j \in 1 .. b - a : j = (b - a) - Overlap + i
      BY <1>1
    <3>2. Len(s) - (b - a) + j = Len(s) - Overlap + i /\ a + j = b - Overlap + i
      BY <1>1, <3>1
    <3> QED
      BY <2>1, <3>2
  <2> QED
    BY <1>1, <2>1, <2>2
<1>5. x \in Seq(S) /\ Len(x) = Overlap /\ \A i \in 1 .. Overlap : x[i] = s[Len(s) - Overlap + i]
  <2>1. \A i \in Len(s) - Overlap + 1 .. Len(s) : s[i] \in S
    BY <1>1, <1>4
  <2>2. /\ x \in Seq(S)
        /\ Len(x) = IF Len(s) - Overlap + 1 <= Len(s) THEN Len(s) - (Len(s) - Overlap + 1) + 1 ELSE 0
        /\ \A i \in 1 .. Len(s) - (Len(s) - Overlap + 1) + 1 : x[i] = s[Len(s) - Overlap + 1 + i - 1]
    BY <1>1, <1>4, <2>1, SubSeqProperties DEF LastChars
  <2> HIDE DEF x
  <2> QED
    BY <1>1, <2>2
<1> HIDE DEF u, v, x
<1>6. y \in Seq(S) /\ Len(y) = Overlap /\ \A i \in 1 .. Overlap : y[i] = v[i]
  <2>1. \A i \in 1 .. Overlap : v[i] \in S
    <3>1. \A i \in 1 .. Overlap : i \in 1 .. Len(v)
      BY <1>1, <1>3
    <3> QED
      BY <1>3, <3>1, ElementOfSeq
  <2>2. /\ y \in Seq(S)
        /\ Len(y) = IF 1 <= Overlap THEN Overlap - 1 + 1 ELSE 0
        /\ \A i \in 1 .. Overlap - 1 + 1 : y[i] = v[1 + i - 1]
    BY <1>1, <2>1, SubSeqProperties
  <2> HIDE DEF y
  <2> QED
    BY <1>1, <2>2
<1> HIDE DEF y
<1>7. ASSUME NEW i \in 1 .. Overlap
      PROVE  x[i] = y[i]
  <2>1. i \in 1 .. e - b + Overlap
    BY <1>1
  <2>2. x[i] = t[b - Overlap + i] /\ y[i] = v[i]
    BY <1>4, <1>5, <1>6
  <2>3. v[i] = t[b - Overlap + i]
    BY <1>3, <2>1
  <2> QED
    BY <2>2, <2>3
<1>8. x = y
  BY <1>5, <1>6, <1>7, SeqEqual
<1> QED
  BY <1>1, <1>3, <1>4, <1>8 DEF Overlapping, v, x, y

\* While a body with chunks is read, what is put together ends with the row added last and is no
\* longer than what the rows cover.
Within ==
  pc = "stitching" /\ chunks # <<>> =>
    /\ \E S : text \in Seq(S) /\ stitched \in Seq(S)
    /\ Ends(stitched, Rows[next - 1])
    /\ Len(stitched) <= chunks[next - 1].to

LEMMA WithinJunction ==
  ASSUME Shape, Cuts, NEW k \in 1 .. Len(chunks) - 1, NEW S, text \in Seq(S), NEW s \in Seq(S),
         Ends(s, SubSeq(text, chunks[k].from + 1, chunks[k].to)), Len(s) <= chunks[k].to
  PROVE  LET row == SubSeq(text, chunks[k + 1].from + 1, chunks[k + 1].to)
         IN  /\ Stitched(s, row) \in Seq(S) /\ Ends(Stitched(s, row), row)
             /\ Len(Stitched(s, row)) <= chunks[k + 1].to
<1> DEFINE a == chunks[k]
           b == chunks[k + 1]
           row == SubSeq(text, b.from + 1, b.to)
<1>1. k \in 1 .. Len(chunks) /\ k + 1 \in 1 .. Len(chunks) /\ Len(text) \in Nat
  BY TextIsSequence
<1>2. /\ a.from \in Nat /\ a.to \in Nat /\ b.from \in Nat /\ b.to \in Nat
      /\ a.from < a.to /\ a.to <= Len(text)
      /\ b.from < b.to /\ b.to <= Len(text)
  BY <1>1, TextIsSequence DEF Cuts
<1>3. /\ a.to <= b.to
      /\ b.from = a.to \/ b.from = a.to - Overlap
      /\ b.from = a.to <=> a.to - a.from <= Overlap \/ Overlap = 0
  BY <1>1, Neighbours
<1>4. Ends(s, SubSeq(text, a.from + 1, a.to)) /\ Len(s) <= a.to
  OBVIOUS
<1> HIDE DEF a, b
<1>5. row \in Seq(S) /\ Len(row) = b.to - b.from
  <2>1. \A i \in 1 .. Len(text) : text[i] \in S
    BY ElementOfSeq
  <2>2. \A i \in b.from + 1 .. b.to : text[i] \in S
    BY <1>1, <1>2, <2>1
  <2>3. /\ row \in Seq(S)
        /\ Len(row) = IF b.from + 1 <= b.to THEN b.to - (b.from + 1) + 1 ELSE 0
    BY <1>2, <2>2, SubSeqProperties
  <2> HIDE DEF row
  <2> QED
    BY <1>2, <2>3
<1>6. ASSUME b.from # a.to
      PROVE  Overlapping(s, row)
  <2>1. Overlap \in Nat /\ Overlap > 0 /\ Overlap < a.to - a.from /\ b.from = a.to - Overlap
    BY <1>2, <1>3, <1>6, ConfigAssumption
  <2>2. Overlapping(s, SubSeq(text, a.to - Overlap + 1, b.to))
    BY <1>2, <1>3, <1>4, <2>1, OverlapIsSeen
  <2> QED
    BY <2>1, <2>2
<1> HIDE DEF row
<1>7. /\ Stitched(s, row) \in Seq(S) /\ Ends(Stitched(s, row), row)
      /\ Len(Stitched(s, row)) = IF Overlapping(s, row) THEN Len(s) + Len(row) - Overlap
                                 ELSE Len(s) + Len(row)
  BY <1>5, StitchedEnds
<1>8. Len(Stitched(s, row)) <= b.to
  <2>1. Len(s) \in Nat /\ Overlap \in Nat
    BY LenProperties, ConfigAssumption
  <2> DEFINE x == Stitched(s, row)
             n == Len(s)
             m == Len(row)
  <2>2. n \in Nat /\ n <= a.to /\ m = b.to - b.from
    BY <1>4, <1>5, <2>1
  <2>3. CASE Overlapping(s, row)
    <3>1. Len(x) = n + m - Overlap
      BY <1>7, <2>3
    <3> HIDE DEF x, n, m
    <3>2. n + m - Overlap <= b.to
      BY <1>2, <1>3, <2>1, <2>2
    <3> QED
      BY <3>1, <3>2 DEF x
  <2>4. CASE ~Overlapping(s, row)
    <3>1. Len(x) = n + m /\ b.from = a.to
      BY <1>6, <1>7, <2>4
    <3> HIDE DEF x, n, m
    <3>2. n + m <= b.to
      BY <1>2, <2>2, <3>1
    <3> QED
      BY <3>1, <3>2 DEF x
  <2> QED
    BY <2>3, <2>4
<1> QED
  BY <1>7, <1>8 DEF row, b

\* A body whose rows end before the text does is not put together.
LEMMA CutIsNoticed ==
  ASSUME BodyIInv, Within, pc = "stitching", next > Len(Rows), chunks # <<>>, stitched = raw
  PROVE  chunks[Len(chunks)].to = Len(text)
<1>1. raw # <<>> /\ next \in 2 .. Len(Rows) + 1
  BY DEF BodyIInv, Reading
<1>2. Len(Rows) = Len(chunks) /\ Len(chunks) \in Nat /\ Len(chunks) > 0
  BY <1>1, RowsOfChunks, TextIsSequence DEF BodyIInv
<1>3. next - 1 = Len(chunks)
  BY <1>1, <1>2
<1>4. Len(raw) <= chunks[Len(chunks)].to
  BY <1>3 DEF Within
<1>5. Len(text) <= Len(raw) /\ Len(text) \in Nat /\ Len(raw) \in Nat
  BY BodiesAreSequences, NormalisedIsNoLonger DEF BodyIInv, Shape
<1>6. chunks[Len(chunks)].to <= Len(text) /\ chunks[Len(chunks)].to \in Nat
  BY <1>2, TextIsSequence DEF BodyIInv, Cuts
<1> QED
  BY <1>4, <1>5, <1>6

LEMMA StitchStaysWithin ==
  ASSUME BodyIInv, Within, Stitch
  PROVE  Within'
<1>1. /\ pc = "stitching" /\ next <= Len(Rows)
      /\ stitched' = Stitched(stitched, Rows[next])
      /\ next' = next + 1
      /\ UNCHANGED <<raw, text, chunks>>
  BY DEF Stitch
<1>2. raw # <<>> /\ next \in 2 .. Len(Rows) + 1 /\ Shape /\ Cuts
  BY <1>1 DEF BodyIInv, Reading
<1> SUFFICES ASSUME chunks # <<>>
             PROVE  /\ \E S : text \in Seq(S) /\ stitched' \in Seq(S)
                    /\ Ends(stitched', Rows[next])
                    /\ Len(stitched') <= chunks[next].to
  <2>1. Rows' = Rows
    BY <1>1, SameBody
  <2>2. next' - 1 = next
    BY <1>1, <1>2 DEF Shape
  <2> QED
    BY <1>1, <2>1, <2>2 DEF Within
<1>3. /\ Len(Rows) = Len(chunks) /\ Len(chunks) \in Nat
      /\ \A k \in 1 .. Len(chunks) : Rows[k] = SubSeq(text, chunks[k].from + 1, chunks[k].to)
  BY <1>2, RowsOfChunks, TextIsSequence
<1>4. PICK k \in 1 .. Len(chunks) - 1 : next = k + 1 /\ next - 1 = k
  BY <1>1, <1>2, <1>3
<1>5. PICK S : text \in Seq(S) /\ stitched \in Seq(S)
  BY <1>1 DEF Within
<1>6. Ends(stitched, Rows[k]) /\ Len(stitched) <= chunks[k].to
  BY <1>1, <1>4 DEF Within
<1>7. Rows[k] = SubSeq(text, chunks[k].from + 1, chunks[k].to)
  BY <1>3, <1>4
<1>8. Rows[k + 1] = SubSeq(text, chunks[k + 1].from + 1, chunks[k + 1].to)
  BY <1>3, <1>4
<1>9. Ends(stitched, SubSeq(text, chunks[k].from + 1, chunks[k].to))
  BY <1>6, <1>7
<1>10. LET row == SubSeq(text, chunks[k + 1].from + 1, chunks[k + 1].to)
       IN  /\ Stitched(stitched, row) \in Seq(S) /\ Ends(Stitched(stitched, row), row)
           /\ Len(Stitched(stitched, row)) <= chunks[k + 1].to
  BY <1>2, <1>5, <1>6, <1>9, WithinJunction
<1> QED
  BY <1>1, <1>4, <1>5, <1>8, <1>10

LEMMA WithinNext ==
  ASSUME BodyIInv, Within, VerifiedIsComplete, [BodyNext]_bodyVars
  PROVE  Within' /\ VerifiedIsComplete'
<1>1. CASE Split \/ GuardHit \/ StoreUnsplit
  <2>1. pc = "chunking" /\ pc' # "stitching" /\ fidelity' = fidelity
    BY <1>1 DEF Split, GuardHit, StoreUnsplit
  <2>2. fidelity' = "none"
    BY <2>1 DEF BodyIInv, Loop
  <2> QED
    BY <2>1, <2>2 DEF Within, VerifiedIsComplete
<1>2. ASSUME NEW expected \in {"none", "same", "other"}, ReadBody(expected)
      PROVE  Within' /\ VerifiedIsComplete'
  <2>1. pc = "stored" /\ UNCHANGED <<raw, text, chunks>>
    BY <1>2 DEF ReadBody
  <2>2. CASE fidelity' = "version_conflict" /\ pc' = pc
    BY <2>1, <2>2 DEF Within, VerifiedIsComplete
  <2>3. CASE Rows = <<>> /\ pc' = pc
    <3>1. raw = <<>>
      BY <2>3, RowsOfChunks, TextIsSequence DEF BodyIInv
    <3>2. chunks = <<>>
      <4>1. Len(text) <= 0
        <5>1. Len(raw) = 0
          BY <3>1
        <5> QED
          BY <5>1, BodiesAreSequences, NormalisedIsNoLonger DEF BodyIInv, Shape
      <4>2. \A k \in 1 .. Len(chunks) : FALSE
        BY <4>1, TextIsSequence DEF BodyIInv, Cuts
      <4> QED
        BY <4>2, TextIsSequence DEF BodyIInv
    <3> QED
      BY <2>1, <2>3, <3>2 DEF Within, VerifiedIsComplete
  <2>4. CASE /\ Rows # <<>> /\ pc' = "stitching" /\ stitched' = Rows[1]
             /\ next' = 2 /\ fidelity' = "none"
    <3>1. raw # <<>> /\ Rows' = Rows
      BY <2>1, <2>4, SameBody DEF Rows
    <3>2. ASSUME chunks # <<>>
          PROVE  /\ \E S : text \in Seq(S) /\ Rows[1] \in Seq(S)
                 /\ Ends(Rows[1], Rows[1]) /\ Len(Rows[1]) <= chunks[1].to
      <4>1. /\ Len(chunks) \in Nat /\ 1 \in 1 .. Len(chunks) /\ Len(text) \in Nat
            /\ chunks[1].from = 0 /\ chunks[1].to \in Nat /\ chunks[1].to <= Len(text)
        BY <3>2, TextIsSequence DEF BodyIInv, Cuts
      <4>2. PICK S : text \in Seq(S)
        BY TextIsSequence DEF BodyIInv
      <4>3. \A i \in 1 .. chunks[1].to : text[i] \in S
        BY <4>1, <4>2, ElementOfSeq
      <4>4. Rows[1] = SubSeq(text, chunks[1].from + 1, chunks[1].to)
        BY <3>1, <3>2, <4>1, RowsOfChunks DEF BodyIInv
      <4>5. Rows[1] = SubSeq(text, 1, chunks[1].to)
        BY <4>1, <4>4
      <4>6. /\ Rows[1] \in Seq(S)
            /\ Len(Rows[1]) = IF 1 <= chunks[1].to THEN chunks[1].to - 1 + 1 ELSE 0
        BY <4>1, <4>3, <4>5, SubSeqProperties
      <4>7. Len(Rows[1]) = chunks[1].to
        BY <4>1, <4>6
      <4> DEFINE r == Rows[1]
      <4> HIDE DEF r
      <4>8. Ends(r, r)
        <5>1. Len(r) \in Nat
          BY <4>1, <4>7 DEF r
        <5>2. \A i \in 1 .. Len(r) : Len(r) - Len(r) + i = i
          BY <5>1
        <5> QED
          BY <5>1, <5>2 DEF Ends
      <4> QED
        BY <4>1, <4>2, <4>6, <4>7, <4>8 DEF r
    <3>3. next' - 1 = 1
      BY <2>4
    <3> QED
      BY <2>1, <2>4, <3>1, <3>2, <3>3 DEF Within, VerifiedIsComplete
  <2> QED
    BY <1>2, <2>2, <2>3, <2>4 DEF ReadBody
<1>3. CASE Stitch
  <2>1. pc = "stitching" /\ UNCHANGED <<raw, text, chunks, fidelity>>
    BY <1>3 DEF Stitch
  <2> QED
    BY <1>3, <2>1, StitchStaysWithin DEF VerifiedIsComplete
<1>4. CASE Verify
  <2>1. /\ pc = "stitching" /\ pc' = "stored" /\ next > Len(Rows)
        /\ fidelity' = IF stitched = raw THEN "hash-verified" ELSE "unverifiable"
        /\ UNCHANGED <<raw, text, chunks, start>>
    BY <1>4 DEF Verify
  <2>2. stitched = raw /\ chunks # <<>> => chunks[Len(chunks)].to = Len(text)
    BY <2>1, CutIsNoticed
  <2> QED
    BY <2>1, <2>2 DEF Within, VerifiedIsComplete
<1>5. CASE UNCHANGED bodyVars
  <2>1. UNCHANGED <<raw, text, chunks, start, stitched, next, pc, fidelity>>
    BY <1>5 DEF bodyVars
  <2> QED
    BY <2>1, SameBody DEF Within, VerifiedIsComplete
<1> QED
  BY <1>1, <1>2, <1>3, <1>4, <1>5 DEF BodyNext

-----------------------------------------------------------------------------
\* The invariant holds in every reachable state.
THEOREM BodyInvariance == BodySpec => []BodyIInv
  BY BodyIInvInit, BodyIInvNext, PTL DEF BodySpec

\* The chunks that chunk_content cuts cover the body, whatever its boundaries:
\* none is empty or longer than the maximum, there is no gap between two, and
\* the last one ends where the text does unless the guard was hit.
THEOREM ChunkingCovers == BodySpec => []ChunksCoverBody
<1>1. BodyIInv => ChunksCoverBody
  BY CutsCover DEF BodyIInv
<1> QED
  BY <1>1, BodyInvariance, PTL

\* chunk_content never cuts two chunks in a row that add no text.
THEOREM ChunkingAdvances == BodySpec => []EverySecondChunkAdvances
<1>1. BodyIInv => EverySecondChunkAdvances
  BY CutsAdvance DEF BodyIInv
<1> QED
  BY <1>1, BodyInvariance, PTL

\* reconstruct_canonical_body gives back every body without a carriage return
\* that was stored to its end, unless it repeats itself at a junction of two
\* chunks that do not overlap.
THEOREM RoundTrip == BodySpec => []BodyComesBack
<1>1. BodyIInv => BodyComesBack
  BY DEF BodyIInv
<1> QED
  BY <1>1, BodyInvariance, PTL

\* reconstruct_canonical_body never answers with a body of which
\* max_chunks_per_item kept only a part, whatever it takes for an overlap.
THEOREM CutBodiesAreNoticed == BodySpec => []VerifiedIsComplete
<1>1. BodyInit => Within /\ VerifiedIsComplete
  BY DEF BodyInit, Within, VerifiedIsComplete
<1>2. BodyIInv /\ Within /\ VerifiedIsComplete /\ [BodyNext]_bodyVars => Within' /\ VerifiedIsComplete'
  BY WithinNext
<1> QED
  BY <1>1, <1>2, BodyInvariance, PTL DEF BodySpec

-----------------------------------------------------------------------------
(* The records: the inductive invariant.                                   *)

\* The texts callers store.
Texts == {r.value : r \in {q \in Requests : q.op = "put_content"}} \cup {r.text : r \in FlowRequests}

Places == {"none", "read", "workspace", "row", "clear", "insert", "commit"}

TablesOK ==
  /\ home \in [Contents -> Workspaces \cup {Unset}]
  /\ body \in [Contents -> Texts \cup {ApiText, Unset}]
  /\ vector \in [Contents -> Texts \cup {Unset}]
  /\ IsFiniteSet(events)

CallsOK ==
  /\ txn = [c \in Clients |-> txn[c]]
  /\ DOMAIN call = Clients /\ DOMAIN answer = Clients
  /\ clock \in Nat /\ calls \in 0 .. MaxCalls
  /\ \A c \in Clients : call[c].op = "put_content" => call[c].value \in Texts

FlowOK ==
  /\ DOMAIN flow = Flows
  /\ \A f \in Flows :
       /\ {"at", "request"} \subseteq DOMAIN flow[f]
       /\ flow[f].at # "idle" => flow[f].request \in FlowRequests
       /\ Waiting(f) => flow[f].at \in {"put", "list"}
       /\ flow[f].at \in {"put", "list"} => call[f].op # "none"

\* A transaction belongs to a call that waits for it, and its chunk to the text of the call.
TxnOf(c, t) ==
  /\ t \in [at : Places, began : Nat, fresh : BOOLEAN, cleared : BOOLEAN, made : Texts \cup {Unset}]
  /\ t.at # "none" => Waiting(c) /\ Abstract!WellFormed(call[c])
  /\ t.at \in {"clear", "insert"} => call[c].op = "put_content"
  /\ t.at = "insert" => call[c].value # ""
  /\ t.made # Unset => t.at = "commit" /\ t.made = call[c].value /\ call[c].value # ""
Owned == \A c \in Clients : TxnOf(c, txn[c])

\* Every event has the number of its call, and no other event has it.
Apart ==
  /\ \A e \in events : e.event.nr \in 1 .. calls
  /\ \A e, f \in events : e.event.nr = f.event.nr => e = f
  /\ \A c \in Clients : call[c].op = "append_event" =>
       /\ call[c].value.nr \in 1 .. calls
       /\ \A d \in Clients : call[d].op = "append_event" /\ call[d].value.nr = call[c].value.nr => c = d
       /\ Waiting(c) => \A e \in events : e.event.nr # call[c].value.nr

RecordsInv == TablesOK /\ CallsOK /\ FlowOK /\ Owned /\ Apart /\ VectorOfItsText

-----------------------------------------------------------------------------
(* It holds at the start and is preserved.                                 *)

LEMMA RecordsInit == FlowInit => RecordsInv
<1> SUFFICES ASSUME FlowInit PROVE RecordsInv
  OBVIOUS
<1> USE DEF FlowInit, Init
<1>1. IsFiniteSet(events)
  BY FS_EmptySet
<1>2. TablesOK /\ VectorOfItsText
  BY <1>1 DEF TablesOK, VectorOfItsText
<1>3. CallsOK
  BY RecordsAssumption DEF CallsOK, Abstract!NoCall
<1>4. FlowOK
  BY FlowAssumption DEF FlowOK, NoFlow, Waiting, Abstract!Waiting, Abstract!NoCall
<1>5. Owned
  BY DEF Owned, TxnOf, NoTxn, Places
<1>6. Apart
  BY DEF Apart, Abstract!NoCall
<1> QED
  BY <1>2, <1>3, <1>4, <1>5, <1>6 DEF RecordsInv

\* A step within the transaction of c, or the answer that ends it.
LEMMA TransactionStep ==
  ASSUME RecordsInv, NEW c \in Clients, NEW t, TxnOf(c, t),
         txn' = [txn EXCEPT ![c] = t],
         \/ answer' = answer
         \/ t.at = "none" /\ \E a : a.code # "none" /\ answer' = [answer EXCEPT ![c] = a],
         clock' \in Nat, UNCHANGED <<tables, call, calls, flow>>
  PROVE  RecordsInv'
<1>0. UNCHANGED <<registered, home, body, rest, vector, state, events, call, calls, flow>>
  BY DEF tables
<1>1. TablesOK' /\ VectorOfItsText'
  BY <1>0 DEF TablesOK, VectorOfItsText, RecordsInv
<1>2. CallsOK'
  BY <1>0 DEF CallsOK, RecordsInv, TxnOf
<1>3. /\ \A d \in Clients : d # c => txn'[d] = txn[d] /\ answer'[d] = answer[d]
      /\ txn'[c] = t
      /\ answer'[c] = answer[c] \/ (t.at = "none" /\ answer'[c].code # "none")
  BY DEF CallsOK, RecordsInv
<1>4. \A d \in Clients : Waiting(d)' => Waiting(d)
  BY <1>0, <1>3 DEF Waiting, Abstract!Waiting, Abstract!NoAnswer
<1>5. \A d \in Clients : Waiting(d) /\ txn'[d].at # "none" => Waiting(d)'
  <2>1. TAKE d \in Clients
  <2>2. CASE d = c
    BY <1>0, <1>3, <2>2 DEF Waiting, Abstract!Waiting
  <2>3. CASE d # c
    BY <1>0, <1>3, <2>3 DEF Waiting, Abstract!Waiting
  <2> QED
    BY <2>2, <2>3
<1>6. FlowOK'
  BY <1>0, <1>4, FlowAssumption DEF FlowOK, RecordsInv
<1>7. Owned'
  <2>1. \A d \in Clients : Abstract!WellFormed(call[d])' <=> Abstract!WellFormed(call[d])
    BY <1>0 DEF Abstract!WellFormed, Abstract!ValidState, Abstract!ValidEvent
  <2>2. SUFFICES ASSUME NEW d \in Clients
                 PROVE  TxnOf(d, txn[d])'
    BY DEF Owned, TxnOf
  <2>3. CASE d = c
    BY <1>0, <1>3, <1>5, <2>1, <2>3 DEF TxnOf
  <2>4. CASE d # c
    BY <1>0, <1>2, <1>3, <1>5, <2>1, <2>4 DEF Owned, TxnOf, RecordsInv, CallsOK
  <2> QED
    BY <2>3, <2>4
<1>8. Apart'
  BY <1>0, <1>4 DEF Apart, RecordsInv
<1> QED
  BY <1>1, <1>2, <1>6, <1>7, <1>8 DEF RecordsInv

LEMMA AnsweredIsTold ==
  ASSUME NEW c \in Clients, NEW code, NEW value, code # "none", Tell(c, code, value)
  PROVE  \E a : a.code # "none" /\ answer' = [answer EXCEPT ![c] = a]
<1> WITNESS [code |-> code, value |-> value]
<1> QED
  BY DEF Tell

LEMMA ReadStep ==
  ASSUME RecordsInv, NEW c \in Clients, Read(c), UNCHANGED flow
  PROVE  RecordsInv'
<1>1. TxnOf(c, NoTxn)
  BY DEF TxnOf, NoTxn, Places
<1>2. \E code, value : code # "none" /\ Tell(c, code, value)
  BY DEF Read, GetContent, ListContent, GetState, ListEvents, Found
<1>3. \E a : a.code # "none" /\ answer' = [answer EXCEPT ![c] = a]
  BY <1>2, AnsweredIsTold
<1>4. clock' \in Nat
  BY DEF Read, RecordsInv, CallsOK
<1> QED
  BY <1>1, <1>3, <1>4, TransactionStep DEF Read, Close, NoTxn

LEMMA StatementStep ==
  ASSUME RecordsInv, NEW c \in Clients, UNCHANGED flow,
         \/ Refuse(c) \/ Begin(c) \/ EnsureWorkspace(c) \/ WriteContent(c) \/ WriteState(c)
         \/ WriteEvent(c) \/ ClearChunk(c) \/ InsertChunk(c) \/ Abort(c)
  PROVE  RecordsInv'
<1> USE DEF RecordsInv
<1>1. TxnOf(c, txn[c]) /\ clock \in Nat
  BY DEF Owned, CallsOK
<1>2. TxnOf(c, NoTxn) /\ NoTxn.at = "none"
  BY DEF TxnOf, NoTxn, Places
<1>3. CASE Refuse(c)
  <2>1. \E a : a.code # "none" /\ answer' = [answer EXCEPT ![c] = a]
    BY <1>3, AnsweredIsTold DEF Refuse
  <2> QED
    BY <1>1, <1>3, <2>1, TransactionStep DEF Refuse, CallsOK
<1>4. CASE Begin(c)
  <2> DEFINE place == IF call[c].op \in Reads THEN "read" ELSE "workspace"
             t == [at |-> place, began |-> clock', fresh |-> FALSE, cleared |-> FALSE, made |-> Unset]
  <2>1. place \in Places \ {"none"} /\ place \notin {"clear", "insert"} /\ clock' \in Nat
    BY <1>1, <1>4 DEF Places, Begin
  <2>2. Waiting(c) /\ Abstract!WellFormed(call[c])
    BY <1>4 DEF Begin
  <2>3. txn' = [txn EXCEPT ![c] = t] /\ UNCHANGED <<tables, call, answer, calls>>
    BY <1>4 DEF Begin
  <2> HIDE DEF place
  <2>4. TxnOf(c, t)
    BY <2>1, <2>2 DEF TxnOf
  <2> QED
    BY <2>1, <2>3, <2>4, TransactionStep
<1>5. CASE EnsureWorkspace(c)
  <2> DEFINE t == [txn[c] EXCEPT !.at = "row", !.fresh = call[c].ws \notin registered]
  <2>1. TxnOf(c, t)
    BY <1>1, <1>5 DEF EnsureWorkspace, TxnOf, Places
  <2> QED
    BY <1>1, <1>5, <2>1, TransactionStep DEF EnsureWorkspace
<1>6. CASE WriteContent(c)
  <2> DEFINE t == [txn[c] EXCEPT !.at = "clear"]
  <2>1. TxnOf(c, t)
    BY <1>1, <1>6 DEF WriteContent, TxnOf, Places
  <2> QED
    BY <1>1, <1>6, <2>1, TransactionStep DEF WriteContent, Goto
<1>7. CASE WriteState(c)
  <2> DEFINE t == [txn[c] EXCEPT !.at = "commit"]
  <2>1. TxnOf(c, t)
    BY <1>1, <1>7 DEF WriteState, TxnOf, Places
  <2>2. CASE txn' = [txn EXCEPT ![c] = t] /\ UNCHANGED answer
    BY <1>1, <1>7, <2>1, <2>2, TransactionStep DEF WriteState
  <2>3. CASE Close(c) /\ Tell(c, "failed", Unset)
    <3>1. \E a : a.code # "none" /\ answer' = [answer EXCEPT ![c] = a]
      BY <2>3, AnsweredIsTold
    <3> QED
      BY <1>1, <1>2, <1>7, <2>3, <3>1, TransactionStep DEF WriteState, Close
  <2> QED
    BY <1>7, <2>2, <2>3 DEF WriteState, Goto
<1>8. CASE WriteEvent(c)
  <2> DEFINE t == [txn[c] EXCEPT !.at = "commit"]
  <2>1. TxnOf(c, t)
    BY <1>1, <1>8 DEF WriteEvent, TxnOf, Places
  <2> QED
    BY <1>1, <1>8, <2>1, TransactionStep DEF WriteEvent, Goto
<1>9. CASE ClearChunk(c)
  <2> DEFINE t == [txn[c] EXCEPT !.cleared = body[call[c].id] # Unset,
                                 !.at = IF call[c].value = "" THEN "commit" ELSE "insert"]
  <2>1. TxnOf(c, t)
    BY <1>1, <1>9 DEF ClearChunk, TxnOf, Places
  <2> QED
    BY <1>1, <1>9, <2>1, TransactionStep DEF ClearChunk
<1>10. CASE InsertChunk(c)
  <2>1. CASE Close(c) /\ Tell(c, "failed", Unset)
    <3>1. \E a : a.code # "none" /\ answer' = [answer EXCEPT ![c] = a]
      BY <2>1, AnsweredIsTold
    <3> QED
      BY <1>1, <1>2, <1>10, <2>1, <3>1, TransactionStep DEF InsertChunk, Close
  <2>2. ASSUME NEW v \in {Unset} \cup (IF Vectors THEN {call[c].value} ELSE {}),
               txn' = [txn EXCEPT ![c].at = "commit", ![c].made = v], UNCHANGED answer
        PROVE  RecordsInv'
    <3> DEFINE t == [txn[c] EXCEPT !.at = "commit", !.made = v]
    <3>1. call[c].op = "put_content"
      BY <1>1, <1>10 DEF InsertChunk, TxnOf
    <3>2. v \in Texts \cup {Unset}
      BY <3>1 DEF CallsOK
    <3>3. TxnOf(c, t)
      BY <1>1, <1>10, <3>2 DEF InsertChunk, TxnOf, Places
    <3>4. txn' = [txn EXCEPT ![c] = t] /\ UNCHANGED <<tables, call, answer, clock, calls>>
      BY <1>10, <2>2 DEF InsertChunk
    <3> QED
      BY <1>1, <3>3, <3>4, TransactionStep
  <2> QED
    BY <1>10, <2>1, <2>2 DEF InsertChunk
<1>11. CASE Abort(c)
  <2>1. \E a : a.code # "none" /\ answer' = [answer EXCEPT ![c] = a]
    BY <1>11, AnsweredIsTold DEF Abort
  <2> QED
    BY <1>1, <1>2, <1>11, <2>1, TransactionStep DEF Abort, Close
<1> QED
  BY <1>3, <1>4, <1>5, <1>6, <1>7, <1>8, <1>9, <1>10, <1>11

\* A new call: an event of it has a number of its own.
LEMMA CallStep ==
  ASSUME RecordsInv, NEW c \in Clients, ~Waiting(c), NEW q,
         q.op # "none", q.op = "put_content" => q.value \in Texts,
         q.op = "append_event" => calls' = calls + 1 /\ q.value.nr = calls',
         calls' \in {calls, calls + 1} \cap (0 .. MaxCalls),
         call' = [call EXCEPT ![c] = q], answer' = [answer EXCEPT ![c] = Abstract!NoAnswer],
         UNCHANGED <<tables, txn, clock>>, FlowOK'
  PROVE  RecordsInv'
<1> USE RecordsAssumption DEF RecordsInv
<1>0. UNCHANGED <<registered, home, body, rest, vector, state, events, txn, clock>>
  BY DEF tables
<1>1. TablesOK' /\ VectorOfItsText'
  BY <1>0 DEF TablesOK, VectorOfItsText
<1>2. call'[c] = q /\ \A d \in Clients : d # c => call'[d] = call[d] /\ answer'[d] = answer[d]
  BY DEF CallsOK
<1>3. CallsOK'
  BY <1>0, <1>2 DEF CallsOK
<1>4. txn[c].at = "none" /\ txn[c].made = Unset
  BY DEF Owned, TxnOf
<1>5. Owned'
  <2>1. SUFFICES ASSUME NEW d \in Clients
                 PROVE  TxnOf(d, txn[d])'
    BY DEF Owned
  <2>2. TxnOf(d, txn[d])
    BY DEF Owned
  <2>3. CASE d = c
    BY <1>0, <1>4, <2>2, <2>3 DEF TxnOf
  <2>4. CASE d # c
    <3>1. call'[d] = call[d] /\ answer'[d] = answer[d] /\ txn'[d] = txn[d]
      BY <1>0, <1>2, <2>4
    <3>2. Waiting(d)' <=> Waiting(d)
      BY <3>1 DEF Waiting, Abstract!Waiting, Abstract!NoAnswer
    <3>3. Abstract!WellFormed(call[d])' <=> Abstract!WellFormed(call[d])
      BY <3>1 DEF Abstract!WellFormed, Abstract!ValidState, Abstract!ValidEvent
    <3> QED
      BY <2>2, <3>1, <3>2, <3>3 DEF TxnOf
  <2> QED
    BY <2>3, <2>4
<1>6. Apart'
  <2>1. \A d \in Clients : d # c => (Waiting(d)' <=> Waiting(d))
    BY <1>2 DEF Waiting, Abstract!Waiting, Abstract!NoAnswer
  <2>2. calls \in Nat /\ calls' \in Nat /\ calls <= calls'
    BY DEF CallsOK
  <2>3. /\ \A e \in events' : e.event.nr \in 1 .. calls'
        /\ \A e, f \in events' : e.event.nr = f.event.nr => e = f
    BY <1>0, <2>2 DEF Apart
  <2>4. \A d \in Clients : call'[d].op = "append_event" => call'[d].value.nr \in 1 .. calls'
    BY <1>2, <2>2 DEF Apart
  <2>5. \A d \in Clients, e \in events' :
          call'[d].op = "append_event" /\ Waiting(d)' => e.event.nr # call'[d].value.nr
    BY <1>0, <1>2, <2>1, <2>2 DEF Apart
  <2>6. \A d, e \in Clients :
          call'[d].op = "append_event" /\ call'[e].op = "append_event"
            /\ call'[d].value.nr = call'[e].value.nr => d = e
    BY <1>2, <2>2 DEF Apart
  <2> QED
    BY <2>3, <2>4, <2>5, <2>6 DEF Apart
<1> QED
  BY <1>1, <1>3, <1>5, <1>6

LEMMA AskStep ==
  ASSUME RecordsInv, NEW c \in Clients \ Flows, Ask(c), UNCHANGED flow
  PROVE  RecordsInv'
<1>1. PICK r \in Requests :
        call' = [call EXCEPT ![c] = IF r.op = "append_event" THEN [r EXCEPT !.value.nr = calls'] ELSE r]
  BY DEF Ask
<1> DEFINE q == IF r.op = "append_event" THEN [r EXCEPT !.value.nr = calls'] ELSE r
<1>2. calls' = calls + 1 /\ calls' \in 0 .. MaxCalls
  BY RecordsAssumption DEF Ask, RecordsInv, CallsOK
<1>3. q.op = r.op /\ (q.op = "append_event" => q.value.nr = calls')
  <2>1. r = [op |-> r.op, ws |-> r.ws, id |-> r.id, value |-> r.value]
    BY RequestsAssumption
  <2>2. CASE r.op = "append_event"
    <3>1. r.value = [status |-> r.value.status, complete |-> r.value.complete, of |-> r.value.of,
                     nr |-> r.value.nr]
      BY <2>2, RequestsAssumption
    <3>2. DOMAIN r = {"op", "ws", "id", "value"} /\ "nr" \in DOMAIN r.value
      BY <2>1, <3>1
    <3>3. q.op = r.op /\ q.value = [r.value EXCEPT !.nr = calls']
      BY <2>2, <3>2
    <3> QED
      BY <3>2, <3>3
  <2> QED
    BY <2>2
<1>4. q.op # "none" /\ (q.op = "put_content" => q.value \in Texts)
  BY <1>3, RequestsAssumption DEF Texts
<1>5. \A f \in Flows : f # c
  OBVIOUS
<1>6. FlowOK'
  BY <1>1, <1>5 DEF FlowOK, RecordsInv, CallsOK, Ask, Waiting, Abstract!Waiting, Abstract!NoAnswer
<1> HIDE DEF q
<1> QED
  BY <1>1, <1>2, <1>3, <1>4, <1>6, CallStep DEF Ask, q

-----------------------------------------------------------------------------
(* The steps of a flow.                                                    *)

\* A flow goes to a place where it need not wait.
LEMMA FlowMoves ==
  ASSUME RecordsInv, NEW f \in Flows, ~Waiting(f), NEW g,
         {"at", "request"} \subseteq DOMAIN g, g.request \in FlowRequests, g.at \notin {"put", "list"},
         flow' = [flow EXCEPT ![f] = g], UNCHANGED vars
  PROVE  RecordsInv'
<1>0. UNCHANGED <<registered, home, body, rest, vector, state, events, txn, call, answer, clock, calls>>
  BY DEF vars, tables
<1>1. \A c \in Clients : (Waiting(c)' <=> Waiting(c)) /\ (TxnOf(c, txn[c])' <=> TxnOf(c, txn[c]))
  BY <1>0 DEF TxnOf, Waiting, Abstract!Waiting, Abstract!NoAnswer, Abstract!WellFormed,
              Abstract!ValidState, Abstract!ValidEvent
<1>2. TablesOK' /\ VectorOfItsText' /\ CallsOK' /\ Owned' /\ Apart'
  BY <1>0, <1>1 DEF RecordsInv, TablesOK, VectorOfItsText, CallsOK, Owned, Apart
<1>3. flow'[f] = g /\ DOMAIN flow' = Flows /\ \A h \in Flows : h # f => flow'[h] = flow[h]
  BY DEF RecordsInv, FlowOK
<1>4. FlowOK'
  BY <1>0, <1>1, <1>3, FlowAssumption DEF RecordsInv, FlowOK
<1> QED
  BY <1>2, <1>4 DEF RecordsInv

LEMMA FlowMakes ==
  ASSUME RecordsInv, NEW f \in Flows, ~Waiting(f), flow[f].request \in FlowRequests, 
         NEW op \in {"put_content", "list_content"}, NEW ws, NEW id, NEW value,
         op = "put_content" => value \in Texts,
         Make(f, [op |-> op, ws |-> ws, id |-> id, value |-> value]), NEW place \in {"put", "list"}, flow' = [flow EXCEPT ![f].at = place]
  PROVE  RecordsInv'
<1> DEFINE q == [op |-> op, ws |-> ws, id |-> id, value |-> value]
<1>0. q.op = op /\ q.value = value
  OBVIOUS
<1> HIDE DEF q
<1>1. f \in Clients
  BY FlowAssumption
<1>2. calls' \in {calls, calls + 1} \cap (0 .. MaxCalls)
  BY DEF Make, RecordsInv, CallsOK
<1>3. \A d \in Clients : d # f => (Waiting(d)' <=> Waiting(d)) /\ call'[d] = call[d]
  BY <1>1 DEF Make, RecordsInv, CallsOK, Waiting, Abstract!Waiting, Abstract!NoAnswer
<1>4. call'[f] = q /\ q.op # "none"
  BY <1>0, <1>1 DEF q, Make, RecordsInv, CallsOK
<1>5. FlowOK'
  <2>1. /\ flow'[f].at = place /\ flow'[f].request = flow[f].request
        /\ DOMAIN flow'[f] = DOMAIN flow[f] /\ DOMAIN flow' = Flows
        /\ \A g \in Flows : g # f => flow'[g] = flow[g]
    BY DEF RecordsInv, FlowOK
  <2> QED
    BY <1>3, <1>4, <2>1, FlowAssumption DEF RecordsInv, FlowOK
<1> QED
  BY <1>0, <1>1, <1>2, <1>4, <1>5, CallStep DEF Make, q

LEMMA FlowTakesStep ==
  ASSUME RecordsInv, NEW f \in Flows, Submit(f) \/ FlowStep(f)
  PROVE  RecordsInv'
<1>1. \A E : DOMAIN [flow[f] EXCEPT !.at = E] = DOMAIN flow[f] /\ {"at", "request"} \subseteq DOMAIN flow[f]
  BY DEF RecordsInv, FlowOK
<1>2. flow[f].at # "idle" => flow[f].request \in FlowRequests
  BY DEF RecordsInv, FlowOK
<1>3. flow[f].at \notin {"put", "list"} => ~Waiting(f)
  BY DEF RecordsInv, FlowOK
<1>4. CASE Submit(f)
  <2>1. PICK r \in FlowRequests : flow' = [flow EXCEPT ![f].at = "ingest", ![f].request = r]
    BY <1>4 DEF Submit
  <2> DEFINE g == [flow[f] EXCEPT !.at = "ingest", !.request = r]
  <2>2. g.at = "ingest" /\ g.request = r /\ DOMAIN g = DOMAIN flow[f] /\ flow' = [flow EXCEPT ![f] = g]
    BY <1>1, <2>1
  <2> HIDE DEF g
  <2> QED
    BY <1>1, <1>3, <1>4, <2>2, FlowMoves DEF Submit
<1>5. ASSUME NEW status, Finish(f, status), ~Waiting(f), flow[f].at # "idle", UNCHANGED vars
      PROVE  RecordsInv'
  <2> DEFINE g == [flow[f] EXCEPT !.at = "done", !.status = status]
  <2>1. /\ g.at = "done" /\ g.request = flow[f].request /\ DOMAIN g = DOMAIN flow[f]
        /\ flow' = [flow EXCEPT ![f] = g]
    BY <1>1, <1>5 DEF Finish
  <2> HIDE DEF g
  <2> QED
    BY <1>1, <1>2, <1>5, <2>1, FlowMoves
<1>6. ASSUME flow' = [flow EXCEPT ![f].at = "record"], ~Waiting(f), flow[f].at # "idle", UNCHANGED vars
      PROVE  RecordsInv'
  <2> DEFINE g == [flow[f] EXCEPT !.at = "record"]
  <2>1. /\ g.at = "record" /\ g.request = flow[f].request /\ DOMAIN g = DOMAIN flow[f]
        /\ flow' = [flow EXCEPT ![f] = g]
    BY <1>1, <1>6
  <2> HIDE DEF g
  <2> QED
    BY <1>1, <1>2, <1>6, <2>1, FlowMoves
<1>7. ASSUME NEW listed, flow' = [flow EXCEPT ![f].at = "pack", ![f].listed = listed], ~Waiting(f),
             flow[f].at # "idle", UNCHANGED vars
      PROVE  RecordsInv'
  <2> DEFINE g == [flow[f] EXCEPT !.at = "pack", !.listed = listed]
  <2>1. /\ g.at = "pack" /\ g.request = flow[f].request /\ DOMAIN g = DOMAIN flow[f]
        /\ flow' = [flow EXCEPT ![f] = g]
    BY <1>1, <1>7
  <2> HIDE DEF g
  <2> QED
    BY <1>1, <1>2, <1>7, <2>1, FlowMoves
<1>8. CASE Ingest(f)
  <2>1. flow[f].request \in FlowRequests /\ ~Waiting(f) /\ flow[f].at # "idle"
    BY <1>2, <1>3, <1>8 DEF Ingest
  <2>2. CASE UNCHANGED vars /\ \E status : Finish(f, status)
    BY <1>5, <2>1, <2>2
  <2>3. CASE UNCHANGED vars /\ flow' = [flow EXCEPT ![f].at = "record"]
    BY <1>6, <2>1, <2>3
  <2>4. CASE /\ Make(f, [op |-> "put_content", ws |-> flow[f].request.ws, id |-> flow[f].request.id,
                          value |-> flow[f].request.text])
             /\ flow' = [flow EXCEPT ![f].at = "put"]
    <3>1. flow[f].request.text \in Texts
      BY <2>1 DEF Texts
    <3> QED
      BY <2>1, <2>4, <3>1, FlowMakes
  <2> QED
    BY <1>8, <2>2, <2>3, <2>4 DEF Ingest
<1>9. CASE PutAnswered(f)
  <2>1. ~Waiting(f) /\ flow[f].at # "idle" /\ UNCHANGED vars
    BY <1>9 DEF PutAnswered
  <2> QED
    BY <1>5, <1>6, <1>9, <2>1 DEF PutAnswered
<1>10. CASE Record(f)
  <2>1. flow[f].request \in FlowRequests /\ ~Waiting(f) /\ flow[f].at # "idle"
    BY <1>2, <1>3, <1>10 DEF Record
  <2>2. CASE /\ Make(f, [op |-> "list_content", ws |-> flow[f].request.ws, id |-> Unset, value |-> Unset])
             /\ flow' = [flow EXCEPT ![f].at = "list"]
    BY <2>1, <2>2, FlowMakes
  <2>3. CASE UNCHANGED vars /\ Finish(f, "persistence_backend_required")
    BY <1>5, <2>1, <2>3
  <2>4. CASE /\ UNCHANGED vars
             /\ flow' = [flow EXCEPT ![f].at = "pack",
                                     ![f].listed = {<<flow[f].request.id, flow[f].request.text>>}]
    BY <1>7, <2>1, <2>4
  <2> QED
    BY <1>10, <2>2, <2>3, <2>4 DEF Record
<1>11. CASE ListAnswered(f)
  <2>1. ~Waiting(f) /\ flow[f].at # "idle" /\ UNCHANGED vars
    BY <1>11 DEF ListAnswered
  <2> QED
    BY <1>5, <1>7, <1>11, <2>1 DEF ListAnswered
<1>12. CASE Pack(f)
  <2>1. flow[f].request \in FlowRequests /\ ~Waiting(f) /\ UNCHANGED vars
    BY <1>2, <1>3, <1>12 DEF Pack
  <2>2. PICK status, evidence :
          flow' = [flow EXCEPT ![f].at = "done", ![f].evidence = evidence, ![f].status = status]
    BY <1>12 DEF Pack
  <2> DEFINE g == [flow[f] EXCEPT !.at = "done", !.evidence = evidence, !.status = status]
  <2>3. /\ g.at = "done" /\ g.request = flow[f].request /\ DOMAIN g = DOMAIN flow[f]
        /\ flow' = [flow EXCEPT ![f] = g]
    BY <1>1, <2>2
  <2> HIDE DEF g
  <2> QED
    BY <1>1, <2>1, <2>3, FlowMoves
<1> QED
  BY <1>4, <1>8, <1>9, <1>10, <1>11, <1>12 DEF FlowStep

-----------------------------------------------------------------------------
(* What is committed.                                                      *)

\* What a COMMIT leaves of the transactions, the calls and the flows.
LEMMA CommitEnds ==
  ASSUME RecordsInv, NEW c \in Clients, Commit(c), UNCHANGED flow
  PROVE  /\ CallsOK' /\ FlowOK' /\ Owned'
         /\ ~Waiting(c)' /\ \A d \in Clients : Waiting(d)' => Waiting(d)
<1> USE DEF RecordsInv
<1>1. UNCHANGED <<call, clock, calls, flow>> /\ txn' = [txn EXCEPT ![c] = NoTxn]
  BY DEF Commit, Close
<1>2. \E code, value : code # "none" /\ Tell(c, code, value)
  BY DEF Commit
<1>3. \E a : a.code # "none" /\ answer' = [answer EXCEPT ![c] = a]
  BY <1>2, AnsweredIsTold
<1>4. /\ txn'[c] = NoTxn /\ \A d \in Clients : d # c => txn'[d] = txn[d] /\ answer'[d] = answer[d]
      /\ answer'[c].code # "none"
  BY <1>1, <1>3 DEF CallsOK
<1>5. CallsOK'
  BY <1>1, <1>3 DEF CallsOK
<1>6. ~Waiting(c)' /\ \A d \in Clients : d # c => (Waiting(d)' <=> Waiting(d))
  BY <1>1, <1>4 DEF Waiting, Abstract!Waiting, Abstract!NoAnswer
<1>7. FlowOK'
  BY <1>1, <1>6, FlowAssumption DEF FlowOK
<1>8. Owned'
  <2>1. SUFFICES ASSUME NEW d \in Clients
                 PROVE  TxnOf(d, txn[d])'
    BY DEF Owned
  <2>2. CASE d = c
    <3>1. /\ NoTxn \in [at : Places, began : Nat, fresh : BOOLEAN, cleared : BOOLEAN, made : Texts \cup {Unset}]
          /\ NoTxn.at = "none" /\ NoTxn.made = Unset
      BY DEF NoTxn, Places
    <3> QED
      BY <1>4, <2>2, <3>1 DEF TxnOf
  <2>3. CASE d # c
    <3>1. TxnOf(d, txn[d]) /\ txn'[d] = txn[d] /\ call'[d] = call[d]
      BY <1>1, <1>4, <2>3 DEF Owned
    <3>2. Abstract!WellFormed(call[d])' <=> Abstract!WellFormed(call[d])
      BY <1>1 DEF Abstract!WellFormed, Abstract!ValidState, Abstract!ValidEvent
    <3> QED
      BY <1>6, <2>3, <3>1, <3>2 DEF TxnOf
  <2> QED
    BY <2>2, <2>3
<1> QED
  BY <1>5, <1>6, <1>7, <1>8

LEMMA CommitStep ==
  ASSUME RecordsInv, NEW c \in Clients, Commit(c), UNCHANGED flow
  PROVE  RecordsInv'
<1>1. CallsOK' /\ FlowOK' /\ Owned' /\ ~Waiting(c)' /\ \A d \in Clients : Waiting(d)' => Waiting(d)
  BY CommitEnds
<1>2. /\ Waiting(c) /\ Abstract!WellFormed(call[c])
      /\ txn[c].made # Unset => txn[c].made = call[c].value /\ call[c].value # ""
      /\ txn[c].made \in Texts \cup {Unset}
  BY DEF RecordsInv, Owned, TxnOf, Commit
<1>3. UNCHANGED <<call, calls>> /\ Stored(c)
  BY DEF Commit
<1>4. CASE /\ call[c].op = "put_content"
           /\ home' = [home EXCEPT ![call[c].id] = call[c].ws]
           /\ body' = [body EXCEPT ![call[c].id] = IF call[c].value = "" THEN Unset ELSE call[c].value]
           /\ vector' = [vector EXCEPT ![call[c].id] = txn[c].made]
           /\ UNCHANGED <<state, events>>
  <2>1. call[c].id \in Contents /\ call[c].ws \in Workspaces /\ call[c].value \in Texts
    BY <1>2, <1>4 DEF Abstract!WellFormed, RecordsInv, CallsOK
  <2>2. TablesOK'
    BY <1>2, <1>4, <2>1 DEF RecordsInv, TablesOK
  <2>3. VectorOfItsText'
    BY <1>2, <1>4, <2>1 DEF RecordsInv, TablesOK, VectorOfItsText
  <2>4. Apart'
    BY <1>1, <1>3, <1>4 DEF RecordsInv, Apart
  <2> QED
    BY <1>1, <2>2, <2>3, <2>4 DEF RecordsInv
<1>5. CASE UNCHANGED <<home, body, vector, events>>
  <2>1. TablesOK' /\ VectorOfItsText'
    BY <1>5 DEF RecordsInv, TablesOK, VectorOfItsText
  <2>2. Apart'
    BY <1>1, <1>3, <1>5 DEF RecordsInv, Apart
  <2> QED
    BY <1>1, <2>1, <2>2 DEF RecordsInv
<1>6. CASE /\ call[c].op = "append_event"
           /\ events' = events \cup {[ws |-> call[c].ws, record |-> call[c].id,
                                      event |-> call[c].value, created |-> txn[c].began,
                                      until |-> calls]}
           /\ UNCHANGED <<home, body, vector, state>>
  <2> DEFINE new == [ws |-> call[c].ws, record |-> call[c].id, event |-> call[c].value,
                     created |-> txn[c].began, until |-> calls]
  <2>1. new.event = call[c].value
    OBVIOUS
  <2>2. events' = events \cup {new}
    BY <1>6
  <2> HIDE DEF new
  <2>3. TablesOK' /\ VectorOfItsText'
    BY <1>6, <2>2, FS_AddElement DEF RecordsInv, TablesOK, VectorOfItsText
  <2>4. new.event.nr \in 1 .. calls /\ \A e \in events : e.event.nr # new.event.nr
    BY <1>2, <1>6, <2>1 DEF RecordsInv, Apart
  <2>5. /\ \A e \in events' : e.event.nr \in 1 .. calls'
        /\ \A e, f \in events' : e.event.nr = f.event.nr => e = f
    BY <1>3, <2>2, <2>4 DEF RecordsInv, Apart
  <2>6. \A d \in Clients : d # c /\ call[d].op = "append_event" => call[d].value.nr # new.event.nr
    BY <1>6, <2>1 DEF RecordsInv, Apart
  <2>7. \A d \in Clients : call'[d].op = "append_event" /\ Waiting(d)' =>
          \A e \in events' : e.event.nr # call'[d].value.nr
    BY <1>1, <1>3, <2>2, <2>6 DEF RecordsInv, Apart
  <2>8. \A d \in Clients : call'[d].op = "append_event" =>
          /\ call'[d].value.nr \in 1 .. calls'
          /\ \A e \in Clients : call'[e].op = "append_event" /\ call'[e].value.nr = call'[d].value.nr => d = e
    BY <1>3 DEF RecordsInv, Apart
  <2>9. Apart'
    BY <2>5, <2>7, <2>8 DEF Apart
  <2> QED
    BY <1>1, <2>3, <2>9 DEF RecordsInv
<1> QED
  BY <1>3, <1>4, <1>5, <1>6 DEF Stored

\* The API writes contents and chunks, and no embedding.
LEMMA ApiStep ==
  ASSUME RecordsInv, UNCHANGED flow, NEW i \in Contents,
         ApiChunks(i) \/ \E w \in Workspaces : ApiSave(i, w)
  PROVE  RecordsInv'
<1>1. UNCHANGED <<registered, state, events, txn, call, answer, clock, calls>>
  BY DEF ApiChunks, ApiSave
<1>2. TablesOK' /\ VectorOfItsText'
  BY <1>1 DEF RecordsInv, TablesOK, VectorOfItsText, ApiChunks, ApiSave
<1>3. \A c \in Clients : (Waiting(c)' <=> Waiting(c)) /\ (TxnOf(c, txn[c])' <=> TxnOf(c, txn[c]))
  BY <1>1 DEF TxnOf, Waiting, Abstract!Waiting, Abstract!NoAnswer, Abstract!WellFormed,
              Abstract!ValidState, Abstract!ValidEvent
<1>4. CallsOK' /\ FlowOK' /\ Owned' /\ Apart'
  BY <1>1, <1>3, FlowAssumption DEF RecordsInv, CallsOK, FlowOK, Owned, Apart
<1> QED
  BY <1>2, <1>4 DEF RecordsInv

LEMMA RecordsNext == RecordsInv /\ [FlowNext]_flowVars => RecordsInv'
<1> SUFFICES ASSUME RecordsInv, [FlowNext]_flowVars PROVE RecordsInv'
  OBVIOUS
<1>1. ASSUME NEW f \in Flows, Submit(f) \/ FlowStep(f)
      PROVE  RecordsInv'
  BY <1>1, FlowTakesStep
<1>2. ASSUME NEW c \in Clients \ Flows, Ask(c), UNCHANGED flow
      PROVE  RecordsInv'
  BY <1>2, AskStep
<1>3. ASSUME NEW c \in Clients, Step(c) \/ Abort(c), UNCHANGED flow
      PROVE  RecordsInv'
  BY <1>3, StatementStep, ReadStep, CommitStep DEF Step
<1>4. ASSUME NEW i \in Contents, ApiChunks(i) \/ \E w \in Workspaces : ApiSave(i, w), UNCHANGED flow
      PROVE  RecordsInv'
  BY <1>4, ApiStep
<1>5. CASE UNCHANGED flowVars
  <2>1. UNCHANGED <<registered, home, body, rest, vector, state, events, txn, call, answer, clock, calls, flow>>
    BY <1>5 DEF flowVars, vars, tables
  <2>2. \A c \in Clients : (Waiting(c)' <=> Waiting(c)) /\ (TxnOf(c, txn[c])' <=> TxnOf(c, txn[c]))
    BY <2>1 DEF TxnOf, Waiting, Abstract!Waiting, Abstract!NoAnswer, Abstract!WellFormed,
                Abstract!ValidState, Abstract!ValidEvent
  <2>3. TablesOK' /\ VectorOfItsText' /\ CallsOK' /\ FlowOK' /\ Owned' /\ Apart'
    BY <2>1, <2>2, FlowAssumption DEF RecordsInv, TablesOK, VectorOfItsText, CallsOK, FlowOK, Owned, Apart
  <2> QED
    BY <2>3 DEF RecordsInv
<1> QED
  BY <1>1, <1>2, <1>3, <1>4, <1>5 DEF FlowNext

THEOREM RecordsInvariance == FlowSpec => []RecordsInv
  BY RecordsInit, RecordsNext, PTL DEF FlowSpec

\* The embedding of a content is that of its text, whatever two writers of it and the API do in
\* between (persist_body_chunks, _maybe_store_chunk_embedding).
THEOREM VectorsOfTheirTexts == FlowSpec => []VectorOfItsText
<1>1. RecordsInv => VectorOfItsText
  BY DEF RecordsInv
<1> QED
  BY <1>1, RecordsInvariance, PTL

-----------------------------------------------------------------------------
(* The contract.                                                           *)

\* The text of a content, where the contract looks for it.
TextAt(k) == IF home[k[2]] # k[1] THEN Unset ELSE IF body[k[2]] = Unset THEN "" ELSE body[k[2]]
TextsAt == [k \in Workspaces \X Contents |-> TextAt(k)]
Told == {[ws |-> e.ws, record |-> e.record, event |-> e.event] : e \in events}

\* A listing gives every event once.
LEMMA ListingsAreComplete ==
  ASSUME RecordsInv, NEW S \in SUBSET events, NEW s \in InOrder(S)
  PROVE  /\ DOMAIN [n \in DOMAIN s |-> s[n].event] = 1 .. Cardinality(S) /\ Cardinality(S) \in Nat
         /\ {s[n].event : n \in DOMAIN s} = {e.event : e \in S}
         /\ \A m, n \in DOMAIN s : s[m].event = s[n].event => m = n
<1>1. IsFiniteSet(S) /\ Cardinality(S) \in Nat
  BY FS_Subset, FS_CardinalityType DEF RecordsInv, TablesOK
<1>2. s \in Injection(1 .. Cardinality(S), S)
  BY DEF InOrder, Injection, IsInjective
<1>3. Cardinality(1 .. Cardinality(S)) = Cardinality(S)
  BY <1>1, FS_Interval
<1>4. s \in Surjection(1 .. Cardinality(S), S)
  BY <1>1, <1>2, <1>3, FS_Injection
<1>5. \A e, f \in S : e.event = f.event => e = f
  BY DEF RecordsInv, Apart
<1>6. {s[n].event : n \in DOMAIN s} = {e.event : e \in S}
  BY <1>4 DEF Surjection
<1>7. \A m, n \in DOMAIN s : s[m].event = s[n].event => m = n
  BY <1>2, <1>4, <1>5 DEF Injection, Surjection, IsInjective
<1> QED
  BY <1>1, <1>4, <1>6, <1>7 DEF Surjection

\* What a step that tells nobody anything may change.
LEMMA UntoldStutters ==
  ASSUME UNCHANGED <<home, body, state, events, call, answer>>
  PROVE  UNCHANGED Abstract!vars
  BY DEF Abstract!vars

\* A text is never Unset, so the contract finds what is stored.
LEMMA TextsAreGiven == \A t \in Texts : t # Unset
  BY RequestsAssumption, FlowAssumption DEF Texts

\* A new call of c, of a client or of a flow.
LEMMA AskRefines ==
  ASSUME RecordsInv, NEW c \in Clients, ~Waiting(c), NEW q, q.op # "none",
         call' = [call EXCEPT ![c] = q], answer' = [answer EXCEPT ![c] = Abstract!NoAnswer],
         UNCHANGED tables
  PROVE  Abstract!Next
<1>1. /\ ~Abstract!Waiting(c) /\ call'[c] = q
      /\ \A d \in Clients \ {c} : call'[d] = call[d]
  BY DEF Waiting, RecordsInv, CallsOK
<1>2. Abstract!Ask(c)
  BY <1>1 DEF Abstract!Ask, tables
<1> QED
  BY <1>2 DEF Abstract!Next

\* A call of c that fails, wherever its transaction was.
LEMMA FailRefines ==
  ASSUME NEW c \in Clients, Waiting(c), Abstract!WellFormed(call[c]), Tell(c, "failed", Unset),
         UNCHANGED <<tables, call>>
  PROVE  Abstract!Next
<1>1. Abstract!Fail(c)
  BY DEF Abstract!Fail, Abstract!Tell, Tell, Waiting, tables
<1> QED
  BY <1>1 DEF Abstract!Next

\* What a COMMIT stores is what the contract says is stored.
LEMMA CommitRefines ==
  ASSUME RecordsInv, NEW c \in Clients, Commit(c)
  PROVE  Abstract!Next
<1>1. Abstract!Waiting(c) /\ Abstract!WellFormed(call[c])
  BY DEF RecordsInv, Owned, TxnOf, Commit, Waiting
<1>2. UNCHANGED call /\ Stored(c)
  BY DEF Commit
<1>3. \E code \in Abstract!Told(c) : Abstract!Tell(c, code, IF code = "ok" THEN call[c].value ELSE Unset)
  BY DEF Commit, Tell, Abstract!Told, Abstract!Tell
<1>4. CASE /\ call[c].op = "put_content"
           /\ home' = [home EXCEPT ![call[c].id] = call[c].ws]
           /\ body' = [body EXCEPT ![call[c].id] = IF call[c].value = "" THEN Unset ELSE call[c].value]
           /\ UNCHANGED <<state, events>>
  <2>1. call[c].id \in Contents /\ call[c].ws \in Workspaces /\ call[c].value \in Texts
    BY <1>1, <1>4 DEF Abstract!WellFormed, RecordsInv, CallsOK
  <2>2. call[c].value # Unset /\ call[c].ws # Unset
    BY <2>1, TextsAreGiven, RecordsAssumption
  <2>3. \A k \in Workspaces \X Contents :
          TextAt(k)' = IF k = <<call[c].ws, call[c].id>> THEN call[c].value
                       ELSE IF k[2] = call[c].id THEN Unset ELSE TextsAt[k]
    <3>1. SUFFICES ASSUME NEW w \in Workspaces, NEW i \in Contents
                   PROVE  TextAt(<<w, i>>)' =
                            IF <<w, i>> = <<call[c].ws, call[c].id>> THEN call[c].value
                            ELSE IF i = call[c].id THEN Unset ELSE TextsAt[<<w, i>>]
      OBVIOUS
    <3>2. TextsAt[<<w, i>>] = TextAt(<<w, i>>)
      BY DEF TextsAt
    <3>3. CASE i = call[c].id
      <4>1. home'[i] = call[c].ws /\ body'[i] = IF call[c].value = "" THEN Unset ELSE call[c].value
        BY <1>4, <2>1, <3>3 DEF RecordsInv, TablesOK
      <4> QED
        BY <2>2, <3>3, <4>1 DEF TextAt
    <3>4. CASE i # call[c].id
      <4>1. home'[i] = home[i] /\ body'[i] = body[i]
        BY <1>4, <2>1, <3>4 DEF RecordsInv, TablesOK
      <4> QED
        BY <3>2, <3>4, <4>1 DEF TextAt
    <3> QED
      BY <3>3, <3>4
  <2>4. TextsAt' = [k \in Workspaces \X Contents |->
                      IF k = <<call[c].ws, call[c].id>> THEN call[c].value
                      ELSE IF TRUE /\ k[2] = call[c].id THEN Unset ELSE TextsAt[k]]
    BY <2>3 DEF TextsAt
  <2>5. Abstract!PutContent(c)
    <3>1. TextsAt = [k \in Workspaces \X Contents |->
                       IF home[k[2]] # k[1] THEN Unset ELSE IF body[k[2]] = Unset THEN "" ELSE body[k[2]]]
      BY DEF TextsAt, TextAt
    <3>2. TextsAt' = [k \in Workspaces \X Contents |->
                       IF home'[k[2]] # k[1] THEN Unset ELSE IF body'[k[2]] = Unset THEN "" ELSE body'[k[2]]]
      BY DEF TextsAt, TextAt
    <3> QED
      BY <1>3, <1>4, <2>4, <3>1, <3>2 DEF Abstract!PutContent
  <2> QED
    BY <1>1, <1>2, <2>5 DEF Abstract!Next, Abstract!Serve
<1>5. CASE /\ call[c].op = "put_state"
           /\ state' = [state EXCEPT ![<<call[c].ws, call[c].id>>] = call[c].value]
           /\ UNCHANGED <<home, body, vector, events>>
  <2>1. Abstract!PutState(c)
    BY <1>3, <1>5 DEF Abstract!PutState
  <2> QED
    BY <1>1, <1>2, <2>1 DEF Abstract!Next, Abstract!Serve
<1>6. CASE /\ call[c].op = "append_event"
           /\ events' = events \cup {[ws |-> call[c].ws, record |-> call[c].id,
                                      event |-> call[c].value, created |-> txn[c].began,
                                      until |-> calls]}
           /\ UNCHANGED <<home, body, vector, state>>
  <2> DEFINE new == [ws |-> call[c].ws, record |-> call[c].id, event |-> call[c].value,
                     created |-> txn[c].began, until |-> calls]
             told(e) == [ws |-> e.ws, record |-> e.record, event |-> e.event]
  <2>0. told(new) = [ws |-> call[c].ws, record |-> call[c].id, event |-> call[c].value]
    OBVIOUS
  <2>1. Told' = Told \cup {[ws |-> call[c].ws, record |-> call[c].id, event |-> call[c].value]}
    <3>1. events' = events \cup {new} /\ Told = {told(e) : e \in events} /\ Told' = {told(e) : e \in events'}
      BY <1>6 DEF Told
    <3> HIDE DEF new, told
    <3> QED
      BY <2>0, <3>1
  <2>2. Abstract!AppendEvent(c)
    BY <1>3, <1>6, <2>1 DEF Abstract!AppendEvent, Told
  <2> QED
    BY <1>1, <1>2, <2>2 DEF Abstract!Next, Abstract!Serve
<1> QED
  BY <1>2, <1>4, <1>5, <1>6 DEF Stored

\* A SELECT finds what the contract says is stored.
LEMMA ReadRefines ==
  ASSUME RecordsInv, NEW c \in Clients, Read(c)
  PROVE  Abstract!Next
<1>1. Abstract!Waiting(c) /\ Abstract!WellFormed(call[c])
  BY DEF RecordsInv, Owned, TxnOf, Read, Waiting
<1>2. UNCHANGED <<home, body, state, events, call>>
  BY DEF Read, tables
<1>3. call[c].ws \in Workspaces /\ call[c].ws # Unset
  BY <1>1, RecordsAssumption DEF Abstract!WellFormed
<1>4. \A i \in Contents : Text(i) # Unset
  BY RequestsAssumption DEF Text
<1>5. CASE GetContent(c)
  <2>1. call[c].op = "get_content" /\ call[c].id \in Contents
    BY <1>1, <1>5 DEF GetContent, Abstract!WellFormed
  <2>2. TextAt(<<call[c].ws, call[c].id>>) =
          IF home[call[c].id] = call[c].ws THEN Text(call[c].id) ELSE Unset
    BY DEF TextAt, Text
  <2>3. Abstract!Found(c, TextAt(<<call[c].ws, call[c].id>>))
    BY <1>4, <1>5, <2>1, <2>2 DEF GetContent, Found, Tell, Abstract!Found, Abstract!Tell
  <2>4. Abstract!Read(c)
    BY <1>2, <1>3, <2>1, <2>3 DEF Abstract!Read, TextAt
  <2> QED
    BY <1>1, <1>2, <2>4 DEF Abstract!Next, Abstract!Serve
<1>6. CASE ListContent(c)
  <2>1. \A i \in Contents : TextAt(<<call[c].ws, i>>) =
          IF home[i] = call[c].ws THEN Text(i) ELSE Unset
    BY DEF TextAt, Text
  <2>2. {j \in Contents : home[j] = call[c].ws} = {j \in Contents : TextAt(<<call[c].ws, j>>) # Unset}
    BY <1>4, <2>1
  <2>3. {<<i, Text(i)>> : i \in {j \in Contents : home[j] = call[c].ws}} =
        {<<i, TextAt(<<call[c].ws, i>>)>> : i \in {j \in Contents : TextAt(<<call[c].ws, j>>) # Unset}}
    BY <2>1, <2>2
  <2>4. \A i \in Contents : TextsAt[<<call[c].ws, i>>] = TextAt(<<call[c].ws, i>>)
    BY <1>3 DEF TextsAt
  <2>5. {<<i, Text(i)>> : i \in {j \in Contents : home[j] = call[c].ws}} =
        {<<i, TextsAt[<<call[c].ws, i>>]>> : i \in {j \in Contents : TextsAt[<<call[c].ws, j>>] # Unset}}
    BY <2>3, <2>4
  <2>6. Abstract!Tell(c, "ok", {<<i, TextsAt[<<call[c].ws, i>>]>> :
                                 i \in {j \in Contents : TextsAt[<<call[c].ws, j>>] # Unset}})
    BY <1>6, <2>5 DEF ListContent, Tell, Abstract!Tell
  <2>7. Abstract!Read(c)
    BY <1>2, <1>6, <2>6 DEF Abstract!Read, TextsAt, TextAt, ListContent
  <2> QED
    BY <1>1, <1>2, <2>7 DEF Abstract!Next, Abstract!Serve
<1>7. CASE GetState(c)
  <2>1. Abstract!Read(c)
    BY <1>2, <1>7 DEF Abstract!Read, GetState, Found, Tell, Abstract!Found, Abstract!Tell
  <2> QED
    BY <1>1, <1>2, <2>1 DEF Abstract!Next, Abstract!Serve
<1>8. CASE ListEvents(c)
  <2> DEFINE S == {e \in events : e.ws = call[c].ws /\ call[c].id \in {e.record, Unset}}
  <2>1. PICK s \in InOrder(S) : Tell(c, "ok", [n \in DOMAIN s |-> s[n].event])
    BY <1>8 DEF ListEvents
  <2> DEFINE seq == [n \in DOMAIN s |-> s[n].event]
             E == {e.event : e \in S}
  <2>2. /\ DOMAIN seq = 1 .. Cardinality(S) /\ Cardinality(S) \in Nat
        /\ {s[n].event : n \in DOMAIN s} = E
        /\ \A m, n \in DOMAIN s : s[m].event = s[n].event => m = n
    BY <2>1, ListingsAreComplete
  <2>3. \A n \in DOMAIN seq : seq[n] \in E
    BY <2>2
  <2>4. seq \in Seq(E)
    <3>1. seq \in [1 .. Cardinality(S) -> E]
      BY <2>2, <2>3
    <3> HIDE DEF seq, E, S
    <3> QED
      BY <2>2, <3>1, SeqDef
  <2>5. Abstract!Listing(E, seq)
    BY <2>2, <2>4 DEF Abstract!Listing
  <2>6. E = {e.event : e \in {f \in Told : f.ws = call[c].ws /\ call[c].id \in {f.record, Unset}}}
    <3> DEFINE T == {f \in Told : f.ws = call[c].ws /\ call[c].id \in {f.record, Unset}}
    <3>1. \A e \in S : [ws |-> e.ws, record |-> e.record, event |-> e.event] \in T
      BY DEF Told
    <3>2. \A f \in T : \E e \in S : e.event = f.event
      BY DEF Told
    <3> QED
      BY <3>1, <3>2
  <2>7. /\ answer'[c].code = "ok" /\ answer'[c].value = seq
        /\ \A d \in Clients \ {c} : answer'[d] = answer[d]
    BY <2>1 DEF Tell, RecordsInv, CallsOK
  <2> HIDE DEF seq, E, S
  <2>8. Abstract!Read(c)
    BY <1>2, <1>8, <2>5, <2>6, <2>7 DEF Abstract!Read, ListEvents, Told
  <2> QED
    BY <1>1, <1>2, <2>8 DEF Abstract!Next, Abstract!Serve
<1> QED
  BY <1>5, <1>6, <1>7, <1>8 DEF Read

\* A step of a call: it is answered as the contract says, or goes on unseen.
LEMMA StepRefines ==
  ASSUME RecordsInv, NEW c \in Clients, Step(c) \/ Abort(c)
  PROVE  [Abstract!Next]_(Abstract!vars)
<1>1. CASE Refuse(c)
  <2>1. Abstract!Refuse(c)
    BY <1>1 DEF Refuse, Tell, Waiting, tables, Abstract!Refuse, Abstract!Tell
  <2> QED
    BY <2>1 DEF Abstract!Next
<1>2. CASE \/ Begin(c) \/ EnsureWorkspace(c) \/ WriteContent(c) \/ WriteEvent(c) \/ ClearChunk(c)
           \/ (WriteState(c) /\ UNCHANGED answer) \/ (InsertChunk(c) /\ UNCHANGED answer)
  <2>1. UNCHANGED <<home, body, state, events, call, answer>>
    BY <1>2 DEF Begin, EnsureWorkspace, WriteContent, WriteEvent, ClearChunk, WriteState, InsertChunk, tables
  <2> QED
    BY <2>1, UntoldStutters
<1>3. CASE /\ WriteState(c) \/ InsertChunk(c) \/ Abort(c)
           /\ Tell(c, "failed", Unset)
  <2>1. Waiting(c) /\ Abstract!WellFormed(call[c])
    BY <1>3 DEF WriteState, InsertChunk, Abort, RecordsInv, Owned, TxnOf
  <2>2. UNCHANGED <<tables, call>>
    BY <1>3 DEF WriteState, InsertChunk, Abort
  <2> QED
    BY <1>3, <2>1, <2>2, FailRefines
<1>4. WriteState(c) => UNCHANGED answer \/ Tell(c, "failed", Unset)
  BY DEF WriteState
<1>5. InsertChunk(c) => UNCHANGED answer \/ Tell(c, "failed", Unset)
  BY DEF InsertChunk
<1>6. Abort(c) => Tell(c, "failed", Unset)
  BY DEF Abort
<1> QED
  BY <1>1, <1>2, <1>3, <1>4, <1>5, <1>6, CommitRefines, ReadRefines DEF Step

\* What the API stores, the contract allows others to store.
LEMMA ApiRefines ==
  ASSUME RecordsInv, NEW i \in Contents, ApiChunks(i) \/ \E w \in Workspaces : ApiSave(i, w)
  PROVE  Abstract!Next
<1>1. UNCHANGED <<state, events, call, answer>>
  BY DEF ApiChunks, ApiSave
<1>2. \A k \in Workspaces \X Contents : k[2] # i => TextAt(k)' = TextAt(k)
  BY DEF ApiChunks, ApiSave, TextAt, RecordsInv, TablesOK
<1>3. \A k \in Workspaces \X Contents : k[2] # i => TextsAt'[k] = TextsAt[k]
  BY <1>2 DEF TextsAt
<1>4. Abstract!StoredElsewhere
  BY <1>1, <1>3 DEF Abstract!StoredElsewhere, TextsAt, TextAt
<1> QED
  BY <1>4 DEF Abstract!Next

\* A step of a flow is a call, or is not seen by the backend.
LEMMA FlowRefines ==
  ASSUME RecordsInv, NEW f \in Flows, Submit(f) \/ FlowStep(f)
  PROVE  [Abstract!Next]_(Abstract!vars)
<1>1. f \in Clients
  BY FlowAssumption
<1>2. CASE UNCHANGED vars
  BY <1>2, UntoldStutters DEF vars, tables
<1>3. ASSUME NEW op \in {"put_content", "list_content"}, NEW ws, NEW id, NEW value, ~Waiting(f),
             Make(f, [op |-> op, ws |-> ws, id |-> id, value |-> value])
      PROVE  Abstract!Next
  <2> DEFINE q == [op |-> op, ws |-> ws, id |-> id, value |-> value]
  <2>1. q.op # "none"
    OBVIOUS
  <2> HIDE DEF q
  <2> QED
    BY <1>1, <1>3, <2>1, AskRefines DEF Make, q
<1>4. CASE Ingest(f) \/ Record(f)
  <2>1. ~Waiting(f)
    BY <1>4 DEF Ingest, Record, RecordsInv, FlowOK
  <2>2. CASE Ingest(f)
    BY <1>2, <1>3, <2>1, <2>2 DEF Ingest
  <2>3. CASE Record(f)
    BY <1>2, <1>3, <2>1, <2>3 DEF Record
  <2> QED
    BY <1>4, <2>2, <2>3
<1> QED
  BY <1>2, <1>4 DEF Submit, FlowStep, PutAnswered, ListAnswered, Pack

\* The backend in PostgreSQL keeps the contract, with the API and the flows beside it: every answer
\* is what was stored at one moment of its call, or it says "failed" (postgres_backend.py, _run;
\* persistence/contracts.py).
THEOREM PostgresKeepsContract == FlowSpec => KeepsContract
<1>1. FlowInit => Abstract!Init
  <2> SUFFICES ASSUME FlowInit PROVE Abstract!Init
    OBVIOUS
  <2>1. \A k \in Workspaces \X Contents : k[1] # Unset /\ home[k[2]] = Unset
    BY RecordsAssumption DEF FlowInit, Init
  <2> QED
    BY <2>1 DEF FlowInit, Init, Abstract!Init
<1>2. RecordsInv /\ [FlowNext]_flowVars => [Abstract!Next]_(Abstract!vars)
  <2> SUFFICES ASSUME RecordsInv, [FlowNext]_flowVars
               PROVE  [Abstract!Next]_(Abstract!vars)
    OBVIOUS
  <2>1. ASSUME NEW c \in Clients \ Flows, Ask(c) PROVE Abstract!Next
    <3>1. PICK q : q.op # "none" /\ call' = [call EXCEPT ![c] = q]
      <4>1. PICK r \in Requests :
              call' = [call EXCEPT ![c] = IF r.op = "append_event" THEN [r EXCEPT !.value.nr = calls'] ELSE r]
        BY <2>1 DEF Ask
      <4>2. r = [op |-> r.op, ws |-> r.ws, id |-> r.id, value |-> r.value] /\ r.op # "none"
        BY RequestsAssumption
      <4> DEFINE q == IF r.op = "append_event" THEN [r EXCEPT !.value.nr = calls'] ELSE r
      <4>3. DOMAIN r = {"op", "ws", "id", "value"}
        BY <4>2
      <4>4. q.op = r.op
        BY <4>3
      <4> HIDE DEF q
      <4> QED
        BY <4>1, <4>2, <4>4 DEF q
    <3> QED
      BY <2>1, <3>1, AskRefines DEF Ask
  <2>2. CASE UNCHANGED flowVars
    BY <2>2, UntoldStutters DEF flowVars, vars, tables
  <2> QED
    BY <2>1, <2>2, FlowRefines, StepRefines, ApiRefines DEF FlowNext
<1> QED
  BY <1>1, <1>2, RecordsInvariance, PTL DEF FlowSpec, KeepsContract, Abstract!Spec

-----------------------------------------------------------------------------
(* The prompt.                                                             *)

AnyText == Texts \cup {ApiText, ""}

\* Records as a listing gives them: finitely many, one of each content.
Listed(S) ==
  /\ IsFiniteSet(S)
  /\ \A x \in S : x[1] \in Contents /\ x[2] \in AnyText
  /\ \A x, y \in S : x[1] = y[1] => x = y

HomesAreFew == IsFiniteSet({i \in Contents : home[i] # Unset})

\* What a flow lists, packs and offers.
OfferOf(f) ==
  /\ DOMAIN flow[f] = DOMAIN NoFlow
  /\ flow[f].at = "list" =>
       call[f].op = "list_content" /\ (answer[f].code = "ok" => Listed(answer[f].value))
  /\ flow[f].at = "pack" /\ flow[f].request.use => Listed(flow[f].listed)
  /\ Completed(f) /\ flow[f].request.use =>
       Listed(flow[f].listed) /\ flow[f].evidence = Evidence(flow[f].listed)
OfferInv == HomesAreFew /\ \A f \in Flows : OfferOf(f)

LEMMA AnyTextIsRated == \A t \in AnyText : Score[t] \in Int /\ Size[t] \in Nat
  BY ScoresAssumption DEF AnyText, Texts

\* Records are ranked one after another.
Rank(S, x) == Cardinality({y \in S : Better(y, x)})

LEMMA BetterOrders ==
  ASSUME NEW S, Listed(S), NEW x \in S, NEW y \in S, NEW z \in S
  PROVE  /\ ~Better(x, x)
         /\ x # y => Better(x, y) \/ Better(y, x)
         /\ Better(x, y) /\ Better(y, z) => Better(x, z)
<1>1. /\ Score[x[2]] \in Int /\ Score[y[2]] \in Int /\ Score[z[2]] \in Int
      /\ x[1] \in Nat /\ y[1] \in Nat /\ z[1] \in Nat
      /\ x[1] = y[1] => x = y
  BY AnyTextIsRated, FlowAssumption DEF Listed
<1> QED
  BY <1>1 DEF Better

LEMMA RankGrows ==
  ASSUME NEW S, Listed(S), NEW x \in S, NEW y \in S
  PROVE  /\ Rank(S, x) \in 0 .. Cardinality(S) - 1
         /\ Better(x, y) => Rank(S, x) < Rank(S, y)
<1> DEFINE B(z) == {v \in S : Better(v, z)}
<1>1. IsFiniteSet(S) /\ Cardinality(S) \in Nat
  BY FS_CardinalityType DEF Listed
<1>2. ASSUME NEW z \in S
      PROVE  /\ IsFiniteSet(B(z)) /\ Cardinality(B(z)) \in Nat
             /\ Cardinality(B(z) \cup {z}) = Cardinality(B(z)) + 1
             /\ IsFiniteSet(B(z) \cup {z}) /\ B(z) \cup {z} \subseteq S
             /\ Cardinality(B(z)) = Rank(S, z)
  <2>1. IsFiniteSet(B(z))
    BY <1>1, FS_Subset
  <2>2. z \notin B(z)
    BY <1>2, BetterOrders
  <2> QED
    BY <2>1, <2>2, FS_AddElement, FS_CardinalityType DEF Rank
<1>3. Cardinality(B(x) \cup {x}) <= Cardinality(S)
  BY <1>1, <1>2, FS_Subset
<1>4. ASSUME Better(x, y)
      PROVE  Cardinality(B(x) \cup {x}) <= Cardinality(B(y))
  <2>1. B(x) \cup {x} \subseteq B(y)
    BY <1>4, BetterOrders
  <2> QED
    BY <1>2, <2>1, FS_Subset
<1>5. Rank(S, x) \in Nat /\ Rank(S, y) \in Nat
  BY <1>2
<1>6. Rank(S, x) + 1 <= Cardinality(S)
  BY <1>2, <1>3
<1>7. Better(x, y) => Rank(S, x) + 1 <= Rank(S, y)
  BY <1>2, <1>4
<1> QED
  BY <1>1, <1>5, <1>6, <1>7

\* The ranking has each record once, after as many as are better.
LEMMA RankedIs ==
  ASSUME NEW S, Listed(S)
  PROVE  /\ Ranked(S) \in Seq(S) /\ Len(Ranked(S)) = Cardinality(S) /\ Cardinality(S) \in Nat
         /\ DOMAIN Ranked(S) = 1 .. Cardinality(S)
         /\ \A n \in 1 .. Cardinality(S) : Ranked(S)[n] \in S /\ Rank(S, Ranked(S)[n]) = n - 1
         /\ \A x \in S : Rank(S, x) + 1 \in 1 .. Cardinality(S) /\ x = Ranked(S)[Rank(S, x) + 1]
<1> DEFINE m == Cardinality(S)
           f == [x \in S |-> Rank(S, x)]
           s == Ranked(S)
<1>1. IsFiniteSet(S) /\ m \in Nat
  BY FS_CardinalityType DEF Listed
<1>2. \A x \in S : Rank(S, x) \in 0 .. m - 1
  BY RankGrows
<1>3. \A x, y \in S : Rank(S, x) = Rank(S, y) => x = y
  <2> SUFFICES ASSUME NEW x \in S, NEW y \in S, Rank(S, x) = Rank(S, y), x # y
               PROVE  FALSE
    OBVIOUS
  <2>1. Better(x, y) \/ Better(y, x)
    BY BetterOrders
  <2>2. Rank(S, x) \in Nat
    BY <1>1, <1>2
  <2>3. Rank(S, x) < Rank(S, y) \/ Rank(S, y) < Rank(S, x)
    BY <2>1, RankGrows
  <2> QED
    BY <2>2, <2>3
<1>4. f \in Surjection(S, 0 .. m - 1)
  <2>1. f \in Injection(S, 0 .. m - 1)
    <3>1. f \in [S -> 0 .. m - 1]
      BY <1>2
    <3>2. \A x, y \in S : f[x] = f[y] => x = y
      BY <1>3
    <3> HIDE DEF f
    <3> QED
      BY <3>1, <3>2 DEF Injection, IsInjective
  <2>2. IsFiniteSet(0 .. m - 1) /\ Cardinality(0 .. m - 1) = m
    <3>1. m \in Nat /\ 0 \in Int /\ m - 1 \in Int
      BY <1>1
    <3> HIDE DEF m
    <3>2. IsFiniteSet(0 .. m - 1) /\ Cardinality(0 .. m - 1) = IF 0 > m - 1 THEN 0 ELSE m - 1 - 0 + 1
      BY <3>1, FS_Interval
    <3> QED
      BY <3>1, <3>2
  <2> HIDE DEF f
  <2> QED
    BY <1>1, <2>1, <2>2, FS_Injection
<1>5. \A n \in 1 .. m : \E x \in S : Rank(S, x) = n - 1
  <2>1. \A k \in 0 .. m - 1 : \E x \in S : f[x] = k
    BY <1>4 DEF Surjection
  <2> QED
    BY <1>1, <2>1
<1>6. s = [n \in 1 .. m |-> CHOOSE x \in S : Rank(S, x) = n - 1]
  BY DEF Ranked, Rank
<1> HIDE DEF s, f, m
<1>7. DOMAIN s = 1 .. m /\ \A n \in 1 .. m : s[n] = CHOOSE x \in S : Rank(S, x) = n - 1
  BY <1>6
<1>8. ASSUME NEW n \in 1 .. m
      PROVE  s[n] \in S /\ Rank(S, s[n]) = n - 1
  <2>1. PICK x \in S : Rank(S, x) = n - 1
    BY <1>5
  <2> QED
    BY <1>7, <2>1, Zenon
<1>9. ASSUME NEW x \in S
      PROVE  Rank(S, x) + 1 \in 1 .. m /\ x = s[Rank(S, x) + 1]
  <2>1. Rank(S, x) \in Nat /\ Rank(S, x) + 1 \in 1 .. m
    BY <1>1, <1>2
  <2>2. s[Rank(S, x) + 1] \in S /\ Rank(S, s[Rank(S, x) + 1]) = (Rank(S, x) + 1) - 1
    BY <1>8, <2>1
  <2>3. Rank(S, s[Rank(S, x) + 1]) = Rank(S, x)
    BY <2>1, <2>2
  <2> QED
    BY <1>3, <2>1, <2>2, <2>3
<1>10. s \in Seq(S) /\ Len(s) = m
  <2>1. s = [n \in 1 .. m |-> s[n]]
    BY <1>6
  <2> QED
    BY <1>1, <1>7, <1>8, <2>1, SeqDef
<1> QED
  BY <1>1, <1>7, <1>8, <1>9, <1>10 DEF s, m

\* A set of naturals below a bound has a greatest member.
LEMMA Greatest ==
  ASSUME NEW L \in Nat, NEW S \in SUBSET (1 .. L), S # {}
  PROVE  \E m \in S : \A n \in S : n <= m
<1> DEFINE R == OpToRel(<, Nat)
           D == {k \in Nat : \A n \in S : n <= k}
<1>1. L \in D /\ D \subseteq Nat
  OBVIOUS
<1>2. \E k \in D : \A j \in D : ~ (<<j, k>> \in R)
  <2>1. IsWellFoundedOn(R, Nat)
    BY NatLessThanWellFounded
  <2> HIDE DEF D, R
  <2> QED
    BY <1>1, <2>1, WFMin
<1>3. PICK k \in D : \A j \in D : ~ (j < k)
  BY <1>1, <1>2 DEF OpToRel
<1>4. k \in S
  <2> SUFFICES ASSUME k \notin S PROVE FALSE
    OBVIOUS
  <2>1. PICK n \in S : TRUE
    OBVIOUS
  <2>2. \A i \in S : i <= k - 1
    OBVIOUS
  <2>3. k - 1 \in Nat
    BY <2>1, <2>2
  <2>4. k - 1 \in D /\ k - 1 < k
    BY <2>2, <2>3
  <2> QED
    BY <1>3, <2>4
<1> QED
  BY <1>4

LEMMA CutIs ==
  ASSUME NEW X, NEW s \in Seq(X), NEW n \in Int
  PROVE  /\ Cut(s, n) \in Seq(X) /\ Len(Cut(s, n)) = (IF n < 0 THEN 0 ELSE IF n < Len(s) THEN n ELSE Len(s))
         /\ \A i \in 1 .. Len(Cut(s, n)) : Cut(s, n)[i] = s[i]
<1> DEFINE m == IF n < 0 THEN 0 ELSE IF n < Len(s) THEN n ELSE Len(s)
<1>1. Len(s) \in Nat /\ m \in 0 .. Len(s)
  OBVIOUS
<1>2. \A i \in 1 .. m : s[i] \in X
  BY <1>1
<1>3. Cut(s, n) = SubSeq(s, 1, m)
  BY DEF Cut
<1> HIDE DEF m
<1>4. /\ SubSeq(s, 1, m) \in Seq(X) /\ Len(SubSeq(s, 1, m)) = m
      /\ \A i \in 1 .. m : SubSeq(s, 1, m)[i] = s[i]
  BY <1>1, <1>2, SubSeqProperties
<1> QED
  BY <1>3, <1>4 DEF m

LEMMA FirstNumbers == \A n \in Nat : IsFiniteSet(1 .. n) /\ Cardinality(1 .. n) = n
<1> SUFFICES ASSUME NEW n \in Nat PROVE IsFiniteSet(1 .. n) /\ Cardinality(1 .. n) = n
  OBVIOUS
<1>1. IsFiniteSet(1 .. n) /\ Cardinality(1 .. n) = IF 1 > n THEN 0 ELSE n - 1 + 1
  BY FS_Interval
<1> QED
  BY <1>1

\* Blocks side by side are at least as long as some of them.
LEMMA LengthGrows ==
  ASSUME NEW S, NEW T \in SUBSET S, IsFiniteSet(S), \A x \in S : Size[x[2]] \in Nat
  PROVE  /\ Length(S) \in Nat /\ Length(T) \in Nat /\ Length(T) <= Length(S)
         /\ \A x \in S : Size[x[2]] <= Length(S)
<1> DEFINE B(x) == {x} \X (1 .. Size[x[2]])
           All == UNION {B(x) : x \in S}
           Some == UNION {B(x) : x \in T}
<1>1. ASSUME NEW x \in S
      PROVE  IsFiniteSet(B(x)) /\ Cardinality(B(x)) = Size[x[2]]
  <2>1. IsFiniteSet(1 .. Size[x[2]]) /\ Cardinality(1 .. Size[x[2]]) = Size[x[2]]
    BY <1>1, FirstNumbers
  <2>2. IsFiniteSet({x}) /\ Cardinality({x}) = 1
    BY FS_Singleton
  <2>3. IsFiniteSet(B(x)) /\ Cardinality(B(x)) = Cardinality({x}) * Cardinality(1 .. Size[x[2]])
    BY <2>1, <2>2, FS_Product
  <2> QED
    BY <2>1, <2>2, <2>3
<1>2. IsFiniteSet(All)
  <2> DEFINE f == [x \in S |-> B(x)]
             I == {B(x) : x \in S}
  <2>1. f \in Surjection(S, I)
    <3> HIDE DEF B
    <3> QED
      BY DEF Surjection
  <2>2. IsFiniteSet(I)
    <3> HIDE DEF f, I
    <3> QED
      BY <2>1, FS_Surjection
  <2> QED
    BY <1>1, <2>2, FS_UNION
<1>3. Some \subseteq All /\ \A x \in S : B(x) \subseteq All
  OBVIOUS
<1>4. Length(S) = Cardinality(All) /\ Length(T) = Cardinality(Some)
  BY DEF Length
<1> HIDE DEF All, Some, B
<1>5. /\ Cardinality(All) \in Nat /\ Cardinality(Some) \in Nat /\ Cardinality(Some) <= Cardinality(All)
      /\ \A x \in S : Cardinality(B(x)) <= Cardinality(All)
  BY <1>2, <1>3, FS_Subset, FS_CardinalityType
<1> QED
  BY <1>1, <1>4, <1>5

\* A record is offered if it is within the limits and there is room for it and those better.
LEMMA RoomIsGiven ==
  ASSUME NEW S, Listed(S), NEW own \in S, NEW before, before = {x \in S : Better(x, own)},
         Cardinality(before) < Limit, Cardinality(before) < MaxCandidates,
         before # {} => Length(before \cup {own}) <= MaxContext
  PROVE  \E n \in DOMAIN Evidence(S) : Evidence(S)[n] = own[1]
<1> DEFINE r == Ranked(S)
           k == Cardinality(before) + 1
           s == Cut(Cut(r, Limit), MaxCandidates)
           fits == {n \in 1 .. Len(s) : n = 1 \/ Length({s[m] : m \in 1 .. n}) <= MaxContext}
           sole == Len(s) > 0 /\ Size[s[1][2]] > MaxContext
<1>1. Rank(S, own) + 1 = k
  BY DEF Rank
<1>2. /\ r \in Seq(S) /\ Len(r) = Cardinality(S) /\ Cardinality(S) \in Nat
      /\ \A n \in 1 .. Cardinality(S) : r[n] \in S /\ Rank(S, r[n]) = n - 1
      /\ \A x \in S : Rank(S, x) + 1 \in 1 .. Cardinality(S) /\ x = r[Rank(S, x) + 1]
  BY RankedIs
<1>3. k \in 1 .. Len(r) /\ r[k] = own /\ Limit \in Int /\ MaxCandidates \in Int /\ MaxContext \in Int
      /\ k <= Limit /\ k <= MaxCandidates
  <2>1. Cardinality(before) \in Nat
    BY FS_Subset, FS_CardinalityType DEF Listed
  <2>2. k <= Limit /\ k <= MaxCandidates /\ Limit \in Int /\ MaxCandidates \in Int /\ MaxContext \in Int
    BY <2>1, FlowAssumption
  <2>3. k \in 1 .. Len(r) /\ r[k] = own
    <3> HIDE DEF r, k
    <3> QED
      BY <1>1, <1>2
  <2> QED
    BY <2>2, <2>3
<1> HIDE DEF k, r
<1>4. s \in Seq(S) /\ Len(s) \in Nat /\ k <= Len(s) /\ \A i \in 1 .. Len(s) : i \in 1 .. Len(r) /\ s[i] = r[i]
  <2> DEFINE c == Cut(r, Limit)
  <2>1. /\ c \in Seq(S) /\ Len(c) = (IF Limit < 0 THEN 0 ELSE IF Limit < Len(r) THEN Limit ELSE Len(r))
        /\ \A i \in 1 .. Len(c) : c[i] = r[i]
    BY <1>2, <1>3, CutIs
  <2> HIDE DEF c
  <2>2. /\ s \in Seq(S)
        /\ Len(s) = (IF MaxCandidates < 0 THEN 0 ELSE IF MaxCandidates < Len(c) THEN MaxCandidates ELSE Len(c))
        /\ \A i \in 1 .. Len(s) : s[i] = c[i]
    BY <1>3, <2>1, CutIs DEF c
  <2> HIDE DEF s
  <2>3. Len(r) \in Nat /\ Len(c) \in Nat /\ Len(s) \in Nat
    BY <1>2, <2>1, <2>2
  <2>4. Len(c) <= Len(r) /\ k <= Len(c)
    BY <1>3, <2>1, <2>3
  <2>5. Len(s) <= Len(c) /\ k <= Len(s)
    BY <1>3, <2>2, <2>3, <2>4
  <2> QED
    BY <2>1, <2>2, <2>3, <2>4, <2>5
<1> HIDE DEF s
<1>5. \A x \in S : Size[x[2]] \in Nat
  BY AnyTextIsRated DEF Listed
<1>6. IsFiniteSet(before \cup {own})
  <2>1. IsFiniteSet(before)
    BY FS_Subset DEF Listed
  <2> QED
    BY <2>1, FS_AddElement
<1>7. {s[m] : m \in 1 .. k} = before \cup {own}
  <2>1. ASSUME NEW m \in 1 .. k
        PROVE  s[m] \in before \cup {own}
    <3>1. s[m] \in S /\ Rank(S, s[m]) = m - 1
      <4>1. m \in 1 .. Len(s)
        BY <1>3, <1>4
      <4>2. m \in 1 .. Cardinality(S) /\ s[m] = r[m]
        BY <1>2, <1>4, <4>1
      <4> QED
        BY <1>2, <4>2
    <3>2. CASE s[m] = own
      BY <3>2
    <3>3. CASE s[m] # own
      <4>1. Better(s[m], own) \/ Better(own, s[m])
        BY <3>1, <3>3, BetterOrders
      <4>2. Better(own, s[m]) => Rank(S, own) < Rank(S, s[m])
        BY <3>1, RankGrows
      <4>3. Rank(S, own) = k - 1
        BY <1>1, <1>3, RankGrows
      <4>4. ~Better(own, s[m])
        BY <1>3, <3>1, <4>2, <4>3
      <4> QED
        BY <3>1, <4>1, <4>4
    <3> QED
      BY <3>2, <3>3
  <2>2. ASSUME NEW x \in before \cup {own}
        PROVE  \E m \in 1 .. k : x = s[m]
    <3>1. CASE x = own
      BY <1>3, <1>4, <3>1
    <3>2. CASE x \in before
      <4>1. x \in S /\ Rank(S, x) < Rank(S, own) /\ Rank(S, x) + 1 \in 1 .. Cardinality(S)
        BY <1>2, <3>2, RankGrows
      <4>2. Rank(S, x) \in Nat /\ Rank(S, own) \in Nat
        BY <4>1, RankGrows, <1>2
      <4>3. Rank(S, x) + 1 \in 1 .. k
        BY <1>1, <4>1, <4>2, <1>3
      <4>4. x = r[Rank(S, x) + 1] /\ Rank(S, x) + 1 \in 1 .. Len(s)
        BY <1>2, <1>3, <1>4, <4>1, <4>3
      <4> QED
        BY <1>4, <4>3, <4>4
    <3> QED
      BY <3>1, <3>2
  <2> QED
    BY <2>1, <2>2
<1>8. k \in fits
  <2>1. k \in 1 .. Len(s)
    BY <1>3, <1>4
  <2>2. CASE before = {}
    <3>1. k = 1
      BY <2>2, FS_EmptySet DEF k
    <3> QED
      BY <2>1, <3>1
  <2>3. CASE before # {}
    BY <1>7, <2>1, <2>3
  <2> QED
    BY <2>2, <2>3
<1>9. sole => k = 1
  <2> SUFFICES ASSUME sole, k # 1 PROVE FALSE
    OBVIOUS
  <2>1. 1 \in 1 .. k /\ k \in 1 .. Len(s)
    BY <1>3, <1>4
  <2>2. s[1] \in before \cup {own}
    BY <1>7, <2>1
  <2>3. before # {}
    BY FS_EmptySet DEF k
  <2>4. Size[s[1][2]] <= Length(before \cup {own}) /\ Length(before \cup {own}) \in Nat
    <3>1. \A x \in before \cup {own} : Size[x[2]] \in Nat
      BY <1>5
    <3> QED
      BY <1>6, <2>2, <3>1, LengthGrows
  <2>5. Size[s[1][2]] \in Nat
    BY <1>5, <2>2
  <2> QED
    BY <1>3, <2>3, <2>4, <2>5
<1>10. \E n \in k .. Len(s) : Taken(s) = SubSeq(s, 1, n)
  <2>1. s # <<>> /\ 1 \in 1 .. Len(s)
    BY <1>3, <1>4
  <2>2. CASE sole
    BY <1>3, <1>4, <1>9, <2>1, <2>2 DEF Taken
  <2>3. CASE ~sole
    <3> DEFINE n == CHOOSE n \in fits : \A m \in fits : m <= n
    <3>1. Taken(s) = SubSeq(s, 1, n)
      BY <2>1, <2>3 DEF Taken
    <3>2. \E m \in fits : \A i \in fits : i <= m
      BY <1>4, <1>8, Greatest
    <3>3. n \in fits /\ \A m \in fits : m <= n
      <4> HIDE DEF fits
      <4> QED
        BY <3>2, Zenon
    <3>4. n \in 1 .. Len(s) /\ k <= n
      BY <1>8, <3>3
    <3> HIDE DEF n
    <3>5. n \in k .. Len(s)
      BY <1>3, <1>4, <3>4
    <3> QED
      BY <3>1, <3>5
  <2> QED
    BY <2>2, <2>3
<1>11. PICK n \in k .. Len(s) : Taken(s) = SubSeq(s, 1, n)
  BY <1>10
<1> DEFINE t == SubSeq(s, 1, n)
<1>12. Len(t) = n /\ \A i \in 1 .. n : t[i] = s[i]
  <2>1. n \in Nat /\ \A i \in 1 .. n : s[i] \in S
    BY <1>3, <1>4
  <2> QED
    BY <1>4, <2>1, SubSeqProperties
<1>13. Evidence(S) = [i \in DOMAIN t |-> t[i][1]]
  BY <1>11 DEF Evidence, s, r
<1>14. DOMAIN t = 1 .. n /\ k \in 1 .. n /\ t[k] = own
  <2>1. k \in 1 .. n
    BY <1>3, <1>4
  <2> QED
    BY <1>3, <1>4, <1>12, <2>1
<1> HIDE DEF t
<1> QED
  BY <1>13, <1>14

LEMMA OfferInit == FlowInit => OfferInv
<1> SUFFICES ASSUME FlowInit PROVE OfferInv
  OBVIOUS
<1>1. {i \in Contents : home[i] # Unset} = {}
  BY DEF FlowInit, Init
<1>2. HomesAreFew
  BY <1>1, FS_EmptySet DEF HomesAreFew
<1>3. \A f \in Flows : OfferOf(f)
  BY DEF FlowInit, OfferOf, NoFlow, Completed
<1> QED
  BY <1>2, <1>3 DEF OfferInv

LEMMA HomesStep ==
  ASSUME RecordsInv, HomesAreFew, [FlowNext]_flowVars
  PROVE  HomesAreFew'
<1> DEFINE H == {i \in Contents : home[i] # Unset}
<1>1. CASE home' = home
  BY <1>1 DEF HomesAreFew
<1>2. ASSUME NEW i, NEW w, home' = [home EXCEPT ![i] = w]
      PROVE  HomesAreFew'
  <2>1. {j \in Contents : home'[j] # Unset} \subseteq H \cup {i}
    BY <1>2 DEF RecordsInv, TablesOK
  <2>2. IsFiniteSet(H \cup {i})
    BY FS_AddElement DEF HomesAreFew
  <2> HIDE DEF H
  <2> QED
    BY <2>1, <2>2, FS_Subset DEF HomesAreFew
<1>3. home' = home \/ \E i, w : home' = [home EXCEPT ![i] = w]
  <2>1. CASE UNCHANGED vars
    BY <2>1 DEF vars, tables
  <2>2. CASE \E i \in Contents : ApiChunks(i) \/ \E w \in Workspaces : ApiSave(i, w)
    BY <2>2 DEF ApiChunks, ApiSave
  <2>3. CASE \E c \in Clients : Ask(c) \/ Abort(c)
    BY <2>3 DEF Ask, Abort, tables
  <2>4. ASSUME NEW c \in Clients, Step(c)
        PROVE  home' = home \/ \E i, w : home' = [home EXCEPT ![i] = w]
    <3>1. CASE Commit(c)
      BY <3>1 DEF Commit, Stored
    <3>2. CASE ~Commit(c)
      BY <2>4, <3>2 DEF Step, Refuse, Begin, EnsureWorkspace, WriteContent, WriteState, WriteEvent,
                        ClearChunk, InsertChunk, Read, tables
    <3> QED
      BY <3>1, <3>2
  <2>5. ASSUME NEW f \in Flows, Submit(f) \/ FlowStep(f)
        PROVE  home' = home
    BY <2>5 DEF Submit, FlowStep, Ingest, PutAnswered, Record, ListAnswered, Pack, Make, vars, tables
  <2> QED
    BY <2>1, <2>2, <2>3, <2>4, <2>5 DEF FlowNext, flowVars
<1> QED
  BY <1>1, <1>2, <1>3

\* What is said of a flow rests on its variables, its call and the answer to it.
LEMMA OfferKeeps ==
  ASSUME NEW f \in Flows, OfferOf(f), flow'[f] = flow[f], call'[f] = call[f], answer'[f] = answer[f]
  PROVE  OfferOf(f)'
  BY DEF OfferOf, Completed

\* A listing has a record of each content that has a home.
LEMMA ListingIsListed ==
  ASSUME RecordsInv, HomesAreFew, NEW ws, ws \in Workspaces
  PROVE  Listed({<<i, Text(i)>> : i \in {j \in Contents : home[j] = ws}})
<1> DEFINE H == {j \in Contents : home[j] = ws}
           S == {<<i, Text(i)>> : i \in H}
           f == [i \in H |-> <<i, Text(i)>>]
<1>1. IsFiniteSet(H)
  <2>1. H \subseteq {j \in Contents : home[j] # Unset}
    BY RecordsAssumption
  <2> QED
    BY <2>1, FS_Subset DEF HomesAreFew
<1>2. IsFiniteSet(S)
  <2>1. f \in Surjection(H, S)
    <3> HIDE DEF H
    <3> QED
      BY DEF Surjection
  <2> HIDE DEF f, H, S
  <2> QED
    BY <1>1, <2>1, FS_Surjection
<1>3. \A x \in S : x[1] \in Contents /\ x[2] \in AnyText
  <2>1. \A i \in Contents : Text(i) \in AnyText
    BY DEF RecordsInv, TablesOK, Text, AnyText
  <2> QED
    BY <2>1
<1>4. \A x, y \in S : x[1] = y[1] => x = y
  OBVIOUS
<1> HIDE DEF S
<1>5. Listed(S)
  BY <1>2, <1>3, <1>4 DEF Listed
<1> QED
  BY <1>5 DEF S

LEMMA OfferClientStep ==
  ASSUME RecordsInv, OfferInv, NEW f \in Flows, NEW c \in Clients, Step(c) \/ Abort(c), UNCHANGED flow
  PROVE  OfferOf(f)'
<1>1. call' = call /\ flow' = flow
  BY DEF Step, Refuse, Begin, EnsureWorkspace, WriteContent, WriteState, WriteEvent,
         ClearChunk, InsertChunk, Read, Commit, Abort
<1>2. f \in Clients /\ OfferOf(f) /\ DOMAIN answer = Clients
  BY FlowAssumption DEF OfferInv, RecordsInv, CallsOK
<1>3. answer' = answer \/ \E code, value : Tell(c, code, value)
  BY DEF Step, Refuse, Begin, EnsureWorkspace, WriteContent, WriteState, WriteEvent, ClearChunk,
         InsertChunk, Commit, Abort, Read, GetContent, ListContent, GetState, ListEvents, Found
<1>4. CASE answer'[f] = answer[f]
  BY <1>1, <1>2, <1>4, OfferKeeps
<1>5. CASE c = f /\ flow[f].at # "list"
  BY <1>1, <1>2, <1>5 DEF OfferOf, Completed
<1>6. CASE c = f /\ flow[f].at = "list" /\ answer'[f] # answer[f]
  <2>1. call[f].op = "list_content"
    BY <1>2, <1>6 DEF OfferOf
  <2>2. answer'[f].code = "ok" => Listed(answer'[f].value)
    <3>1. CASE Read(f)
      <4>1. ListContent(f) /\ Waiting(f) /\ Abstract!WellFormed(call[f])
        BY <1>2, <2>1, <3>1 DEF Read, GetContent, GetState, ListEvents, RecordsInv, Owned, TxnOf
      <4>2. call[f].ws \in Workspaces
        BY <4>1 DEF Abstract!WellFormed
      <4>3. answer'[f].value = {<<i, Text(i)>> : i \in {j \in Contents : home[j] = call[f].ws}}
        BY <1>2, <4>1 DEF ListContent, Tell
      <4> QED
        BY <4>2, <4>3, ListingIsListed DEF OfferInv
    <3>2. CASE ~Read(f)
      <4>1. \E code, value : code # "ok" /\ Tell(f, code, value)
        <5>1. ~Commit(f)
          BY <2>1 DEF Commit, Stored
        <5> QED
          BY <1>6, <3>2, <5>1 DEF Step, Refuse, Begin, EnsureWorkspace, WriteContent, WriteState,
                                  WriteEvent, ClearChunk, InsertChunk, Abort
      <4> QED
        BY <1>2, <4>1 DEF Tell
    <3> QED
      BY <3>1, <3>2
  <2> QED
    BY <1>1, <1>2, <1>6, <2>1, <2>2 DEF OfferOf, Completed
<1>7. c # f => answer'[f] = answer[f]
  BY <1>2, <1>3 DEF Tell
<1> QED
  BY <1>4, <1>5, <1>6, <1>7

LEMMA OfferFlowStep ==
  ASSUME RecordsInv, OfferInv, NEW f \in Flows, Submit(f) \/ FlowStep(f)
  PROVE  OfferOf(f)'
<1>1. /\ f \in Clients /\ DOMAIN flow = Flows /\ DOMAIN answer = Clients /\ DOMAIN call = Clients
      /\ OfferOf(f) /\ DOMAIN flow[f] = {"at", "request", "listed", "evidence", "status"}
  BY FlowAssumption DEF OfferInv, OfferOf, NoFlow, RecordsInv, CallsOK, FlowOK
<1>2. CASE flow'[f].at \notin {"list", "pack"} /\ ~Completed(f)' /\ DOMAIN flow'[f] = DOMAIN flow[f]
  BY <1>1, <1>2 DEF OfferOf, Completed
<1>3. ASSUME NEW status, Finish(f, status),
             status \notin {"completed_with_prompt_package", "completed_with_prompt_package_and_llm_request_shape"}
      PROVE  OfferOf(f)'
  BY <1>1, <1>2, <1>3 DEF Finish, Completed
<1>4. ASSUME NEW place, flow' = [flow EXCEPT ![f].at = place], place \notin {"list", "pack", "done"}
      PROVE  OfferOf(f)'
  BY <1>1, <1>2, <1>4 DEF Completed
<1>5. CASE Submit(f)
  BY <1>1, <1>2, <1>5 DEF Submit, Completed
<1>6. CASE Ingest(f)
  <2>1. Missing(flow[f].request) \notin
          {"completed_with_prompt_package", "completed_with_prompt_package_and_llm_request_shape"}
    BY DEF Missing
  <2> QED
    BY <1>3, <1>4, <1>6, <2>1 DEF Ingest
<1>7. CASE PutAnswered(f)
  BY <1>3, <1>4, <1>7 DEF PutAnswered
<1>8. CASE Record(f)
  <2>1. CASE /\ Make(f, [op |-> "list_content", ws |-> flow[f].request.ws, id |-> Unset, value |-> Unset])
             /\ flow' = [flow EXCEPT ![f].at = "list"]
    <3>1. /\ call'[f].op = "list_content" /\ answer'[f].code = "none"
          /\ flow'[f].at = "list" /\ DOMAIN flow'[f] = DOMAIN flow[f]
      BY <1>1, <2>1 DEF Make, Abstract!NoAnswer
    <3> QED
      BY <1>1, <3>1 DEF OfferOf, Completed
  <2>2. CASE ~flow[f].request.use /\ flow' = [flow EXCEPT ![f].at = "pack",
                ![f].listed = {<<flow[f].request.id, flow[f].request.text>>}]
    BY <1>1, <2>2 DEF OfferOf, Completed
  <2> QED
    BY <1>3, <1>8, <2>1, <2>2 DEF Record
<1>9. CASE ListAnswered(f)
  <2>1. CASE answer[f].code = "ok" /\ flow' = [flow EXCEPT ![f].at = "pack", ![f].listed = answer[f].value]
    <3>1. Listed(answer[f].value)
      BY <1>1, <1>9, <2>1 DEF ListAnswered, OfferOf
    <3> QED
      BY <1>1, <2>1, <3>1 DEF OfferOf, Completed
  <2> QED
    BY <1>3, <1>9, <2>1 DEF ListAnswered
<1>10. CASE Pack(f)
  <2>1. /\ flow'[f].at = "done" /\ flow'[f].request = flow[f].request /\ flow'[f].listed = flow[f].listed
        /\ flow'[f].evidence = Evidence(flow[f].listed) /\ DOMAIN flow'[f] = DOMAIN flow[f]
        /\ flow[f].at = "pack"
    BY <1>1, <1>10 DEF Pack
  <2> QED
    BY <1>1, <2>1 DEF OfferOf
<1> QED
  BY <1>5, <1>6, <1>7, <1>8, <1>9, <1>10 DEF FlowStep

LEMMA OfferNext == RecordsInv /\ OfferInv /\ [FlowNext]_flowVars => OfferInv'
<1> SUFFICES ASSUME RecordsInv, OfferInv, [FlowNext]_flowVars, NEW f \in Flows PROVE OfferOf(f)'
  BY HomesStep DEF OfferInv
<1>1. /\ f \in Clients /\ DOMAIN flow = Flows /\ DOMAIN answer = Clients /\ DOMAIN call = Clients
      /\ OfferOf(f)
  BY FlowAssumption DEF OfferInv, RecordsInv, CallsOK, FlowOK
<1>2. ASSUME NEW g \in Flows, Submit(g) \/ FlowStep(g)
      PROVE  OfferOf(f)'
  <2>1. CASE g = f
    BY <1>2, <2>1, OfferFlowStep
  <2>2. CASE g # f
    <3>1. flow'[f] = flow[f] /\ call'[f] = call[f] /\ answer'[f] = answer[f]
      BY <1>1, <1>2, <2>2 DEF Submit, FlowStep, Ingest, PutAnswered, Record, ListAnswered, Pack, Finish,
                              Make, vars
    <3> QED
      BY <1>1, <3>1, OfferKeeps
  <2> QED
    BY <2>1, <2>2
<1>3. ASSUME NEW c \in Clients \ Flows, Ask(c), UNCHANGED flow
      PROVE  OfferOf(f)'
  <2>1. flow'[f] = flow[f] /\ call'[f] = call[f] /\ answer'[f] = answer[f]
    BY <1>1, <1>3 DEF Ask
  <2> QED
    BY <1>1, <2>1, OfferKeeps
<1>4. ASSUME NEW c \in Clients, Step(c) \/ Abort(c), UNCHANGED flow
      PROVE  OfferOf(f)'
  BY <1>4, OfferClientStep
<1>5. ASSUME NEW i \in Contents, ApiChunks(i) \/ \E w \in Workspaces : ApiSave(i, w), UNCHANGED flow
      PROVE  OfferOf(f)'
  BY <1>1, <1>5, OfferKeeps DEF ApiChunks, ApiSave
<1>6. CASE UNCHANGED flowVars
  BY <1>1, <1>6, OfferKeeps DEF flowVars, vars
<1> QED
  BY <1>2, <1>3, <1>4, <1>5, <1>6 DEF FlowNext

\* A flow that stored its text has it in the prompt it makes of the workspace, unless the record
\* is no longer listed with that text or better ones take its place (PublicSafeIngestionPromptFlow.run).
THEOREM FlowOffersItsText == FlowSpec => []OwnTextIsOffered
<1>1. RecordsInv /\ OfferInv => OwnTextIsOffered
  <2> SUFFICES ASSUME OfferInv, RecordsInv, NEW f \in Flows, Completed(f), flow[f].request.use
               PROVE  LET r == flow[f].request
                          own == <<r.id, r.text>>
                          before == {x \in flow[f].listed : \/ Score[x[2]] > Score[r.text]
                                                            \/ Score[x[2]] = Score[r.text] /\ x[1] < r.id}
                      IN  \/ r.id \in {flow[f].evidence[n] : n \in DOMAIN flow[f].evidence}
                          \/ own \notin flow[f].listed
                          \/ Cardinality(before) >= Limit \/ Cardinality(before) >= MaxCandidates
                          \/ before # {} /\ Length(before \cup {own}) > MaxContext
    BY DEF OwnTextIsOffered
  <2> DEFINE S == flow[f].listed
             own == <<flow[f].request.id, flow[f].request.text>>
             before == {x \in S : \/ Score[x[2]] > Score[flow[f].request.text]
                                  \/ Score[x[2]] = Score[flow[f].request.text] /\ x[1] < flow[f].request.id}
  <2>1. Listed(S) /\ flow[f].evidence = Evidence(S)
    BY DEF OfferInv, OfferOf
  <2>2. SUFFICES ASSUME own \in S, ~(Cardinality(before) >= Limit), ~(Cardinality(before) >= MaxCandidates),
                        ~(before # {} /\ Length(before \cup {own}) > MaxContext)
                 PROVE  own[1] \in {flow[f].evidence[n] : n \in DOMAIN flow[f].evidence}
    OBVIOUS
  <2>3. before = {x \in S : Better(x, own)}
    BY DEF Better
  <2> HIDE DEF S, own, before
  <2>4. IsFiniteSet(before) /\ Cardinality(before) \in Nat /\ IsFiniteSet(before \cup {own})
    BY <2>1, <2>3, FS_Subset, FS_CardinalityType, FS_AddElement DEF Listed
  <2>5. Length(before \cup {own}) \in Nat
    <3>1. \A x \in before \cup {own} : Size[x[2]] \in Nat
      BY <2>1, <2>2, <2>3, AnyTextIsRated DEF Listed
    <3> QED
      BY <2>4, <3>1, LengthGrows
  <2>6. /\ Cardinality(before) < Limit /\ Cardinality(before) < MaxCandidates
        /\ before # {} => Length(before \cup {own}) <= MaxContext
    BY <2>2, <2>4, <2>5, FlowAssumption
  <2> QED
    BY <2>1, <2>2, <2>3, <2>6, RoomIsGiven
<1>2. FlowSpec => []OfferInv
  <2>1. RecordsInv /\ OfferInv /\ [FlowNext]_flowVars => OfferInv'
    BY OfferNext
  <2> QED
    BY <2>1, OfferInit, RecordsInvariance, PTL DEF FlowSpec
<1> QED
  BY <1>1, <1>2, RecordsInvariance, PTL
=============================================================================
