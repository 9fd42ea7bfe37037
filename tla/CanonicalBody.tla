--------------------------- MODULE CanonicalBody ---------------------------
(***************************************************************************)
(* A body on its way through storage.  The save keeps the hash of the body *)
(* as it was submitted and stores the body only as chunks: line endings    *)
(* are normalised, the text is cut at the best boundary near a target      *)
(* length, and each chunk repeats the end of the one before it.  The read  *)
(* stitches the chunks together again, guessing at every junction whether  *)
(* they overlap, and answers with the body only if its hash is the stored  *)
(* one.  The hash is taken to be collision free: it is the body itself.    *)
(*                                                                         *)
(* Positions are counted as in Python: a chunk from a to b holds the       *)
(* characters a+1 .. b of the sequence.                                    *)
(***************************************************************************)
EXTENDS Integers, Sequences, FiniteSets

CONSTANTS Char,         \* the alphabet
          LF, CR,       \* line feed, carriage return
          Blanks,       \* the other characters of \s
          Stops,        \* . ! ?   end a sentence if whitespace follows
          WideStops,    \* the CJK stops, which need no whitespace
          MinChars, TargetChars, MaxChars, Overlap, MaxChunks,
          MaxLength,    \* bound: characters of a body
          Rare, MaxRare \* bound: characters of Rare in a body

ASSUME CharAssumption ==
  /\ {LF, CR} \cup Blanks \cup Stops \cup WideStops \subseteq Char
  /\ LF # CR
\* ChunkerConfig.validate() wants Overlap < MaxChars only; the configuration
\* that save and read share has Overlap = MinChars.
ASSUME ConfigAssumption ==
  /\ MinChars \in Nat \ {0} /\ TargetChars \in Nat /\ MaxChars \in Nat
  /\ MinChars <= TargetChars /\ TargetChars <= MaxChars
  /\ Overlap \in Nat /\ Overlap <= MinChars /\ Overlap < MaxChars
  /\ MaxChunks \in Nat \ {0}
ASSUME BoundAssumption == MaxLength \in Nat /\ MaxRare \in Nat

VARIABLES raw,       \* the submitted body; content_hash stands for it
          text,      \* its text with normalised line endings
          chunks,    \* the chunks cut so far
          start,     \* where the next one begins
          stitched,  \* what the reader has put together
          next,      \* the row it looks at
          pc, fidelity

bodyVars == <<raw, text, chunks, start, stitched, next, pc, fidelity>>

-----------------------------------------------------------------------------
(* _normalize_line_endings: CRLF and CR become LF.                         *)

Kept(r) == {p \in DOMAIN r : ~(r[p] = LF /\ p > 1 /\ r[p - 1] = CR)}

\* The n-th character of r that is kept.
NthKept(r, n) == CHOOSE p \in Kept(r) : Cardinality({q \in Kept(r) : q <= p}) = n

Normalised(r) ==
  [n \in 1 .. Cardinality(Kept(r)) |->
     IF r[NthKept(r, n)] = CR THEN LF ELSE r[NthKept(r, n)]]

-----------------------------------------------------------------------------
(* _boundary_candidates, on the window text[from:to].  A list boundary is  *)
(* left out: the line feed it starts with is a newline boundary, which is  *)
(* preferred, one character later.                                         *)

Space == Blanks \cup {LF, CR}

AllSpace(s) == \A p \in DOMAIN s : s[p] \in Space

SpaceBetween(a, b) == \A p \in a .. b : text[p] \in Space

\* \n\s*\n+ ends after the last line feed of a run of whitespace with two.
Paragraph(from, to, e) ==
  /\ text[e] = LF
  /\ \E d \in from + 1 .. e - 1 : text[d] = LF /\ SpaceBetween(d, e)
  /\ ~ \E d \in e + 1 .. to : text[d] = LF /\ SpaceBetween(e, d)

Newline(from, to, e) == text[e] = LF

\* A run of whitespace that begins after position a and ends at e.
SpaceRun(to, a, e) ==
  /\ SpaceBetween(a + 1, e)
  /\ e = to \/ text[e + 1] \notin Space

\* [.!?]\s+ or a CJK stop.
Sentence(from, to, e) ==
  \/ text[e] \in WideStops
  \/ \E a \in from + 1 .. e - 1 : text[a] \in Stops /\ SpaceRun(to, a, e)

Whitespace(from, to, e) == SpaceRun(to, e - 1, e)

Candidates(priority, from) ==
  LET to == from + MaxChars IN
  {e \in from + MinChars .. to :
     CASE priority = 1 -> Paragraph(from, to, e)
       [] priority = 2 -> Newline(from, to, e)
       [] priority = 3 -> Sentence(from, to, e)
       [] priority = 4 -> Whitespace(from, to, e)}

\* The last candidate up to the target, else the first one after it.
Best(S, target, e) ==
  /\ e \in S
  /\ \A f \in S : IF e <= target THEN f <= e \/ f > target ELSE e <= f

\* _choose_end.
IsEnd(from, e) ==
  IF Len(text) - from <= MaxChars THEN e = Len(text)
  ELSE \/ \E priority \in 1 .. 4 :
            /\ \A p \in 1 .. priority - 1 : Candidates(p, from) = {}
            /\ Best(Candidates(priority, from), from + TargetChars, e)
       \/ /\ \A p \in 1 .. 4 : Candidates(p, from) = {}
          /\ e = from + MaxChars

-----------------------------------------------------------------------------
(* chunk_content.                                                          *)

\* Defect: the guard against standing still is missing.
NextStart_Unguarded(from, end) == IF end > Overlap THEN end - Overlap ELSE 0

NextStart(from, end) ==
  IF end - Overlap <= from THEN end ELSE end - Overlap

Split ==
  /\ pc = "chunking"
  /\ ~AllSpace(text)
  /\ start < Len(text)
  /\ Len(chunks) < MaxChunks
  /\ \E end \in start + 1 .. Len(text) :
       /\ IsEnd(start, end)
       /\ chunks' = Append(chunks, [from |-> start, to |-> end])
       /\ IF end = Len(text)
          THEN pc' = "stored" /\ UNCHANGED start
          ELSE start' = NextStart(start, end) /\ UNCHANGED pc
  /\ UNCHANGED <<raw, text, stitched, next, fidelity>>

\* The guard on the number of chunks: the rest of the body is not stored.
GuardHit ==
  /\ pc = "chunking"
  /\ Len(chunks) >= MaxChunks
  /\ pc' = "stored"
  /\ UNCHANGED <<raw, text, chunks, start, stitched, next, fidelity>>

\* A body without a chunk is stored as one row, as it was submitted.
StoreUnsplit ==
  /\ pc = "chunking"
  /\ AllSpace(text)
  /\ pc' = "stored"
  /\ UNCHANGED <<raw, text, chunks, start, stitched, next, fidelity>>

\* The rows of content_chunks; persist_multi_chunks writes no empty one.
Rows ==
  IF raw = <<>> THEN <<>>
  ELSE IF chunks = <<>> THEN <<raw>>
  ELSE [k \in DOMAIN chunks |-> SubSeq(text, chunks[k].from + 1, chunks[k].to)]

-----------------------------------------------------------------------------
(* get_canonical_body and reconstruct_canonical_body.                      *)

\* expected_version is looked at before any chunk.
ReadBody(expected) ==
  /\ pc = "stored"
  /\ \/ /\ expected = "other"
        /\ fidelity' = "version_conflict"
        /\ UNCHANGED <<stitched, next, pc>>
     \/ /\ expected \in {"none", "same"}
        /\ Rows = <<>>
        /\ fidelity' = IF raw = <<>> THEN "hash-verified" ELSE "unavailable"
        /\ UNCHANGED <<stitched, next, pc>>
     \/ /\ expected \in {"none", "same"}
        /\ Rows # <<>>
        /\ pc' = "stitching"
        /\ stitched' = Rows[1]
        /\ next' = 2
        /\ fidelity' = "none"
  /\ UNCHANGED <<raw, text, chunks, start>>

\* The last n characters of s.
LastChars(s, n) == SubSeq(s, Len(s) - n + 1, Len(s))

\* Do the two look as if the second repeated the end of the first?
Overlapping(s, t) ==
  /\ Overlap > 0
  /\ Len(s) >= Overlap
  /\ Len(t) >= Overlap
  /\ LastChars(s, Overlap) = SubSeq(t, 1, Overlap)

\* Defect: the overlap is cut off without looking.
Stitched_Blind(s, t) == s \o SubSeq(t, Overlap + 1, Len(t))

Stitched(s, t) ==
  IF Overlapping(s, t) THEN s \o SubSeq(t, Overlap + 1, Len(t)) ELSE s \o t

Stitch ==
  /\ pc = "stitching"
  /\ next <= Len(Rows)
  /\ stitched' = Stitched(stitched, Rows[next])
  /\ next' = next + 1
  /\ UNCHANGED <<raw, text, chunks, start, pc, fidelity>>

\* Defect: the hash is taken of what was stored.
Verify_Stored ==
  /\ pc = "stitching"
  /\ next > Len(Rows)
  /\ fidelity' = IF \E n \in 0 .. Len(text) : stitched = SubSeq(text, 1, n) THEN "hash-verified" ELSE "unverifiable"
  /\ pc' = "stored"
  /\ stitched' = <<>>
  /\ next' = 0
  /\ UNCHANGED <<raw, text, chunks, start>>

Verify ==
  /\ pc = "stitching"
  /\ next > Len(Rows)
  /\ fidelity' = IF stitched = raw THEN "hash-verified" ELSE "unverifiable"
  /\ pc' = "stored"
  /\ stitched' = <<>>
  /\ next' = 0
  /\ UNCHANGED <<raw, text, chunks, start>>

-----------------------------------------------------------------------------
Bodies ==
  {r \in UNION {[1 .. n -> Char] : n \in 0 .. MaxLength} :
     Cardinality({p \in DOMAIN r : r[p] \in Rare}) <= MaxRare}

BodyInit ==
  /\ raw \in Bodies
  /\ text = Normalised(raw)
  /\ chunks = <<>>
  /\ start = 0
  /\ stitched = <<>>
  /\ next = 0
  /\ pc = "chunking"
  /\ fidelity = "none"

BodyNext ==
  \/ Split
  \/ GuardHit
  \/ StoreUnsplit
  \/ \E expected \in {"none", "same", "other"} : ReadBody(expected)
  \/ Stitch
  \/ Verify

BodySpec == BodyInit /\ [][BodyNext]_bodyVars

-----------------------------------------------------------------------------
(* Properties.                                                             *)

Chunk == [from : 0 .. MaxLength, to : 0 .. MaxLength]

\* Type invariant.
BodyTypeOK ==
  /\ raw \in Bodies
  /\ text \in Seq(Char) /\ Len(text) <= Len(raw)
  /\ chunks \in Seq(Chunk)
  /\ start \in 0 .. MaxLength
  /\ stitched \in Seq(Char)
  /\ next \in 0 .. MaxChunks + 1
  /\ pc \in {"chunking", "stored", "stitching"}
  /\ fidelity \in {"none", "hash-verified", "unverifiable", "unavailable",
                 "version_conflict"}

\* Whatever the boundaries, the chunks cover the body: no chunk is empty or
\* longer than the maximum, there is no gap between two of them, each starts
\* after the one before it and ends no earlier, and the last one ends where
\* the text does unless the guard on their number was hit.
ChunksCoverBody ==
  /\ \A k \in DOMAIN chunks :
       /\ chunks[k].from < chunks[k].to
       /\ chunks[k].to <= chunks[k].from + MaxChars
       /\ k = 1 => chunks[k].from = 0
       /\ k + 1 \in DOMAIN chunks =>
            /\ chunks[k].from < chunks[k + 1].from
            /\ chunks[k + 1].from <= chunks[k].to
            /\ chunks[k].to <= chunks[k + 1].to
  /\ pc # "chunking" /\ ~AllSpace(text) /\ Len(chunks) < MaxChunks =>
       /\ chunks # <<>>
       /\ chunks[Len(chunks)].to = Len(text)

\* A chunk that only repeats the end of its predecessor is followed by one
\* that does not: the chunker never spends two chunks on the same text.
EverySecondChunkAdvances ==
  \A k \in DOMAIN chunks :
    k + 2 \in DOMAIN chunks => chunks[k].to < chunks[k + 2].to

\* What the read is told nothing of: chunks k and k + 1 do not overlap, and
\* the text repeats itself where they meet.
Coincidence(k) ==
  /\ Overlap > 0
  /\ chunks[k + 1].from = chunks[k].to
  /\ Overlap <= chunks[k + 1].to - chunks[k + 1].from
  /\ \A i \in 1 .. Overlap :
       text[chunks[k].to - Overlap + i] = text[chunks[k].to + i]

Faithful ==
  /\ \A p \in DOMAIN raw : raw[p] # CR
  /\ chunks # <<>> => chunks[Len(chunks)].to = Len(text)
  /\ \A k \in 1 .. Len(chunks) - 1 : ~Coincidence(k)

\* "the body exists solely as normalized content_chunks rows": a body without
\* a carriage return that was stored to its end comes back from its chunks,
\* wherever they were cut, unless it repeats itself at a junction of two
\* chunks that do not overlap.
BodyComesBack ==
  fidelity \notin {"none", "version_conflict"} /\ Faithful =>
    fidelity = "hash-verified"

\* A body that the guard on the number of chunks cut off is never answered as
\* whole, whatever its junctions look like and however much the reader takes
\* for an overlap: the rows put together are never longer than what they cover.
VerifiedIsComplete ==
  fidelity = "hash-verified" /\ chunks # <<>> => chunks[Len(chunks)].to = Len(text)
=============================================================================
