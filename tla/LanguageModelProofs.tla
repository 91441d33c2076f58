------------------------- MODULE LanguageModelProofs -------------------------
(***************************************************************************)
(* What the language models are shown and what is believed of what they    *)
(* answer, for every conversation: proofs about PromptContext, the prompts *)
(* of the room agent, and MemoryFormation, the memory endpoints.           *)
(*                                                                         *)
(* The code of both walks lists.  The definitions do so with recursive     *)
(* functions, and what they yield is proved by the least place at which it *)
(* could fail (UpTo); a sorted list is described by the places its members *)
(* come from (ArrangedPlaces).                                             *)
(***************************************************************************)
EXTENDS MemoryFormation, PromptContext, SequenceTheorems, FiniteSetTheorems,
        NaturalsInduction, TLAPS

------------------------------------------------------------------------------
(* Numbers. *)

LEMMA Least ==
  ASSUME NEW T \in SUBSET Nat, T # {}
  PROVE  \E m \in T : \A n \in T : m <= n
<1> DEFINE R == {p \in Nat \X Nat : p[1] < p[2]}
<1>1. IsWellFoundedOn(R, Nat)
  BY NatLessThanWellFounded DEF OpToRel, R
<1>2. PICK m \in T : \A n \in T : <<n, m>> \notin R
  <2> HIDE DEF R
  <2> QED
    BY <1>1, WFMin
<1>3. ASSUME NEW n \in T
      PROVE  m <= n
  <2>1. <<n, m>> \in Nat \X Nat => ~(n < m)
    BY <1>2, <1>3 DEF R
  <2>2. QED
    BY <2>1
<1>4. QED
  BY <1>3

LEMMA UpTo ==
  ASSUME NEW N \in Nat, NEW T,
         \A n \in 1..N : n = 1 \/ n - 1 \in T => n \in T
  PROVE  1..N \subseteq T
<1>1. SUFFICES ASSUME (1..N) \ T # {} PROVE FALSE
  OBVIOUS
<1> DEFINE Rest == (1..N) \ T
<1>2. PICK m \in Rest : \A n \in Rest : m <= n
  <2>1. Rest \in SUBSET Nat
    OBVIOUS
  <2> HIDE DEF Rest
  <2>2. Rest # {}
    BY <1>1 DEF Rest
  <2>3. QED
    BY <2>1, <2>2, Least
<1>3. QED
  BY <1>2

LEMMA MinIs ==
  ASSUME NEW T \in SUBSET Nat, T # {}
  PROVE  Min(T) \in T /\ \A n \in T : Min(T) <= n
BY Least DEF Min

LEMMA MaxIs ==
  ASSUME NEW b \in Nat, NEW T \in SUBSET (0..b), T # {}
  PROVE  Max(T) \in T /\ \A n \in T : n <= Max(T)
<1> DEFINE Below == {b - n : n \in T}
<1>1. PICK m \in Below : \A n \in Below : m <= n
  <2>1. \A n \in T : b - n \in Nat
    OBVIOUS
  <2>2. Below \in SUBSET Nat /\ Below # {}
    BY <2>1
  <2>3. QED
    BY <2>2, Least
<1>2. PICK x \in T : m = b - x
  OBVIOUS
<1>3. \A n \in T : x >= n
  BY <1>1, <1>2
<1>4. QED
  BY <1>3 DEF Max

------------------------------------------------------------------------------
(* Texts. *)

LEMMA Piece ==
  ASSUME NEW text \in Text, NEW i \in Nat \ {0}, NEW n \in Nat, i + n - 1 <= Len(text)
  PROVE  /\ SubSeq(text, i, i + n - 1) \in Text /\ Len(SubSeq(text, i, i + n - 1)) = n
         /\ \A k \in 1..n : SubSeq(text, i, i + n - 1)[k] = text[i + k - 1]
<1>1. \A x \in i..i + n - 1 : text[x] \in Word
  BY DEF Text
<1>2. i \in Int /\ i + n - 1 \in Int /\ (i + n - 1) - i + 1 = n
  OBVIOUS
<1>3. /\ SubSeq(text, i, i + n - 1) \in Seq(Word)
      /\ Len(SubSeq(text, i, i + n - 1)) = IF i <= i + n - 1 THEN (i + n - 1) - i + 1 ELSE 0
      /\ \A k \in 1..(i + n - 1) - i + 1 : SubSeq(text, i, i + n - 1)[k] = text[i + k - 1]
  BY <1>1, <1>2, SubSeqProperties
<1>4. QED
  BY <1>2, <1>3 DEF Text

LEMMA WithinWords ==
  ASSUME NEW text \in Text, NEW quote \in Text, Within(quote, text)
  PROVE  Words(quote) \subseteq Words(text)
<1>1. PICK i \in 1..Len(text) + 1 - Len(quote) : SubSeq(text, i, i + Len(quote) - 1) = quote
  BY DEF Within, Occurrences
<1>2. ASSUME NEW k \in 1..Len(quote)
      PROVE  quote[k] \in Words(text)
  <2>1. i + k - 1 \in 1..Len(text)
    BY DEF Text
  <2>2. Len(quote) \in Nat /\ i \in Nat \ {0} /\ i + Len(quote) - 1 <= Len(text)
    BY DEF Text
  <2>3. quote[k] = text[i + k - 1]
    BY <1>1, <2>2, Piece
  <2>4. QED
    BY <2>1, <2>3 DEF Text, Words, Range
<1>3. QED
  BY <1>2 DEF Words, Range, Text

LEMMA WithinWithin ==
  ASSUME NEW text \in Text, NEW quote \in Text, NEW part \in Text,
         Within(part, quote), Within(quote, text)
  PROVE  Within(part, text)
<1>1. PICK i \in 1..Len(text) + 1 - Len(quote) : SubSeq(text, i, i + Len(quote) - 1) = quote
  BY DEF Within, Occurrences
<1>2. PICK j \in 1..Len(quote) + 1 - Len(part) : SubSeq(quote, j, j + Len(part) - 1) = part
  BY DEF Within, Occurrences
<1> DEFINE k == i + j - 1
           cut == SubSeq(text, k, k + Len(part) - 1)
<1>3. k \in 1..Len(text) + 1 - Len(part)
  BY DEF Text
<1>4. /\ i \in Nat \ {0} /\ Len(quote) \in Nat /\ i + Len(quote) - 1 <= Len(text)
      /\ j \in Nat \ {0} /\ Len(part) \in Nat /\ j + Len(part) - 1 <= Len(quote)
      /\ k \in Nat \ {0} /\ k + Len(part) - 1 <= Len(text)
  BY DEF Text
<1>5. cut \in Text /\ Len(cut) = Len(part)
  BY <1>4, Piece
<1>6. \A n \in 1..Len(part) : cut[n] = part[n]
  <2>1. SUFFICES ASSUME NEW n \in 1..Len(part)
                 PROVE  cut[n] = part[n]
    OBVIOUS
  <2>2. cut[n] = text[k + n - 1]
    BY <1>4, Piece
  <2>3. part[n] = quote[j + n - 1] /\ j + n - 1 \in 1..Len(quote)
    BY <1>2, <1>4, Piece
  <2>4. quote[j + n - 1] = text[i + (j + n - 1) - 1]
    <3> DEFINE x == j + n - 1
    <3>1. x \in 1..Len(quote)
      BY <2>3
    <3> HIDE DEF x
    <3>2. quote[x] = text[i + x - 1]
      BY <1>1, <1>4, <3>1, Piece
    <3>3. QED
      BY <3>2 DEF x
  <2>5. i + (j + n - 1) - 1 = k + n - 1
    BY <1>4
  <2>6. QED
    BY <2>2, <2>3, <2>4, <2>5
<1>7. cut = part
  <2> HIDE DEF cut
  <2> QED
    BY <1>5, <1>6, SeqEqual DEF Text
<1>8. QED
  BY <1>3, <1>7 DEF Within, Occurrences

LEMMA FlattenIs ==
  ASSUME NEW S, NEW seqs \in Seq(Seq(S)), Len(seqs) # 0
  PROVE  \E f \in [1..Len(seqs) -> Seq(S)] :
           /\ \A i \in 1..Len(seqs) : f[i] = IF i = 1 THEN seqs[i] ELSE f[i - 1] \o seqs[i]
           /\ FlattenSeq(seqs) = f[Len(seqs)]
<1> DEFINE N == Len(seqs)
           Follows(g, n) == \A i \in 1..n : g[i] = IF i = 1 THEN seqs[i] ELSE g[i - 1] \o seqs[i]
           Good == {n \in 1..N : \E g \in [1..n -> Seq(S)] : Follows(g, n)}
<1>0. N \in Nat \ {0} /\ \A i \in 1..N : seqs[i] \in Seq(S)
  OBVIOUS
<1>1. ASSUME NEW m \in 1..N, m = 1 \/ m - 1 \in Good PROVE m \in Good
  <2>4. CASE m = 1
    <3>1. [i \in 1..1 |-> seqs[1]] \in [1..1 -> Seq(S)]
      BY <1>0
    <3>2. Follows([i \in 1..1 |-> seqs[1]], 1)
      OBVIOUS
    <3>3. QED
      BY <2>4, <3>1, <3>2
  <2>5. CASE m # 1
    <3>2. PICK g \in [1..m - 1 -> Seq(S)] : Follows(g, m - 1)
      BY <1>1, <2>5
    <3> DEFINE h == [i \in 1..m |-> IF i = m THEN g[m - 1] \o seqs[m] ELSE g[i]]
    <3>3. g[m - 1] \o seqs[m] \in Seq(S)
      <4>1. g[m - 1] \in Seq(S) /\ seqs[m] \in Seq(S)
        BY <1>0, <2>5, <3>2
      <4>2. QED BY <4>1
    <3>4. h \in [1..m -> Seq(S)]
      BY <3>2, <3>3
    <3>5. Follows(h, m)
      <4>1. SUFFICES ASSUME NEW i \in 1..m PROVE h[i] = IF i = 1 THEN seqs[i] ELSE h[i - 1] \o seqs[i]
        OBVIOUS
      <4>2. CASE i = m
        <5>1. m - 1 \in 1..m /\ m - 1 # m /\ m \in 1..m
          BY <1>0, <2>5
        <5>2. h[m - 1] = g[m - 1] /\ h[m] = g[m - 1] \o seqs[m]
          BY <5>1
        <5> QED BY <4>2, <5>2, <2>5
      <4>3. CASE i # m
        <5>1. i \in 1..m-1 BY <4>3
        <5>2. h[i] = g[i] BY <4>3
        <5>3. i # 1 => i - 1 \in 1..m /\ i - 1 # m BY <5>1
        <5>5. i # 1 => h[i - 1] = g[i-1] BY <5>3
        <5>6. g[i] = IF i = 1 THEN seqs[i] ELSE g[i - 1] \o seqs[i]
          BY <5>1, <3>2
        <5> HIDE DEF h
        <5>4. QED BY <5>2, <5>5, <5>6
      <4>4. QED BY <4>2, <4>3
    <3>6. QED
      BY <3>4, <3>5
  <2>6. QED
    BY <2>4, <2>5
<1>2. PICK g \in [1..N -> Seq(S)] : Follows(g, N)
  <2>1. 1..N \subseteq Good
    <3> HIDE DEF Good
    <3> QED BY <1>0, <1>1, UpTo
  <2>2. N \in 1..N
    BY <1>0
  <2>3. N \in Good
    <3> HIDE DEF Good, N
    <3> QED BY <2>1, <2>2
  <2>4. QED
    BY <2>3
<1> DEFINE Rec(f) == f = [i \in 1..N |-> IF i = 1 THEN seqs[i] ELSE f[i - 1] \o seqs[i]]
           F == CHOOSE f : Rec(f)
<1>3. Rec(g)
  BY <1>2
<1>4. Rec(F)
  <2> HIDE DEF Rec
  <2> QED BY <1>3
<1>5. FlattenSeq(seqs) = F[N]
  BY DEF FlattenSeq
<1> HIDE DEF F
<1>6. \A i \in 1..N : F[i] = IF i = 1 THEN seqs[i] ELSE F[i - 1] \o seqs[i]
  BY <1>4
<1>7. \A n \in 1..N : n = 1 \/ n - 1 \in {i \in 1..N : F[i] \in Seq(S)} => F[n] \in Seq(S)
  <2>1. SUFFICES ASSUME NEW n \in 1..N, n = 1 \/ F[n-1] \in Seq(S) PROVE F[n] \in Seq(S)
    OBVIOUS
  <2>2. CASE n = 1
    BY <2>2, <1>6, <1>0
  <2>3. CASE F[n-1] \in Seq(S) /\ n # 1
    <3>1. seqs[n] \in Seq(S) /\ F[n] = F[n-1] \o seqs[n]
      BY <2>3, <1>6, <1>0
    <3>2. QED
      BY <2>3, <3>1
  <2>4. QED BY <2>1, <2>2, <2>3
<1>8. \A n \in 1..N : F[n] \in Seq(S)
  <2>1. 1..N \subseteq {i \in 1..N : F[i] \in Seq(S)}
    BY <1>0, <1>7, UpTo
  <2>2. QED BY <2>1
<1>9. F \in [1..N -> Seq(S)]
  BY <1>4, <1>8
<1>10. QED
  BY <1>5, <1>6, <1>9

\* The words of a joined text are those of its parts.
LEMMA FlattenWords ==
  ASSUME NEW S, NEW seqs \in Seq(Seq(S))
  PROVE  /\ FlattenSeq(seqs) \in Seq(S)
         /\ Range(FlattenSeq(seqs)) \subseteq UNION {Range(seqs[i]) : i \in 1..Len(seqs)}
<1>1. CASE Len(seqs) = 0
  <2>1. FlattenSeq(seqs) = seqs /\ seqs = << >>
    BY <1>1, EmptySeq DEF FlattenSeq
  <2>2. QED
    BY <2>1, EmptySeq DEF Range
<1>2. CASE Len(seqs) # 0
  <2> DEFINE N == Len(seqs)
             All == UNION {Range(seqs[i]) : i \in 1..N}
  <2>0. N \in Nat \ {0} /\ \A i \in 1..N : seqs[i] \in Seq(S)
    BY <1>2
  <2>1. PICK f \in [1..N -> Seq(S)] :
          /\ \A i \in 1..N : f[i] = IF i = 1 THEN seqs[i] ELSE f[i - 1] \o seqs[i]
          /\ FlattenSeq(seqs) = f[N]
    BY <1>2, FlattenIs
  <2> DEFINE Good == {i \in 1..N : Range(f[i]) \subseteq All}
  <2>2. ASSUME NEW n \in 1..N, n = 1 \/ n - 1 \in Good
        PROVE  n \in Good
    <3>1. Range(seqs[n]) \subseteq All
      OBVIOUS
    <3>2. CASE n = 1
      BY <2>1, <3>1, <3>2
    <3>3. CASE n # 1
      <4>1. f[n - 1] \in Seq(S) /\ seqs[n] \in Seq(S) /\ Range(f[n - 1]) \subseteq All
        BY <2>0, <2>1, <2>2, <3>3
      <4>2. f[n] = f[n - 1] \o seqs[n]
        BY <2>1, <3>3
      <4>3. Range(f[n]) = Range(f[n - 1]) \cup Range(seqs[n])
        BY <4>1, <4>2, RangeConcatenation
      <4> HIDE DEF All
      <4>4. QED
        BY <3>1, <4>1, <4>3
    <3>4. QED
      BY <3>2, <3>3
  <2>3. N \in Good
    <3>1. 1..N \subseteq Good
      <4> HIDE DEF Good, N
      <4> QED
        BY <2>0, <2>2, UpTo
    <3>2. N \in 1..N
      BY <2>0
    <3> HIDE DEF Good, N
    <3>3. QED
      BY <3>1, <3>2
  <2>4. QED
    BY <2>0, <2>1, <2>3
<1>3. QED
  BY <1>1, <1>2

LEMMA CitedTextWords ==
  ASSUME NEW atom \in Atom
  PROVE  /\ CitedText(atom) \in Text
         /\ Words(CitedText(atom)) \subseteq UNION {Words(f) : f \in Fragments(atom)}
<1> DEFINE quotes == [i \in DOMAIN atom.evidence |-> atom.evidence[i].quote]
<1>1. atom.evidence \in Seq(Quotation)
  BY DEF Atom
<1>2. quotes \in Seq(Seq(Word)) /\ Len(quotes) = Len(atom.evidence)
  <2>1. DOMAIN atom.evidence = 1..Len(atom.evidence) /\ Len(atom.evidence) \in Nat
    BY <1>1
  <2>2. \A i \in 1..Len(atom.evidence) : atom.evidence[i].quote \in Seq(Word)
    <3>1. \A i \in 1..Len(atom.evidence) : atom.evidence[i] \in Quotation
      BY <1>1, ElementOfSeq
    <3>2. QED
      BY <3>1 DEF Quotation, Text
  <2>3. quotes \in [1..Len(atom.evidence) -> Seq(Word)]
    BY <2>1, <2>2
  <2>4. QED
    BY <2>1, <2>3
<1>3. \A i \in 1..Len(quotes) : quotes[i] \in Fragments(atom)
  BY <1>1, <1>2 DEF Fragments, Range
<1> HIDE DEF quotes
<1>4. /\ FlattenSeq(quotes) \in Seq(Word)
      /\ Range(FlattenSeq(quotes)) \subseteq UNION {Range(quotes[i]) : i \in 1..Len(quotes)}
  BY <1>2, FlattenWords
<1>5. QED
  BY <1>3, <1>4 DEF CitedText, Text, Words, quotes

\* A part that stands in the joined text is made of words of the quotes.
LEMMA PartWords ==
  ASSUME NEW atom \in Atom, NEW part \in Text, Within(part, CitedText(atom))
  PROVE  Words(part) \subseteq UNION {Words(f) : f \in Fragments(atom)}
BY CitedTextWords, WithinWords

------------------------------------------------------------------------------
(* An atom that is not rejected. *)

\* Windows as the validators of the requests leave them.
Spoken(turns) ==
  \A turn \in Range(turns) : turn.text \in Text /\ turn.heard \in 0..100 \cup {Unknown}

\* The turns an atom with this predicate may be grounded in.
SourcesOf(turns, predicate) ==
  {turn \in Range(turns) : turn.role = Speaker(predicate) /\ turn.status # "safety_override"}

\* The atom, one item of its evidence: nothing is wrong with it.
Accepted(turns, atom) == Rejection(turns, atom) = ""
CleanItem(turns, evidence, i) == ItemFault(turns, evidence, i) = ""
Clean(turns, evidence) == EvidenceFault(turns, evidence) = ""
Grounded(atom) == Ungrounded(atom) = ""

LEMMA AcceptedParts ==
  ASSUME NEW turns, NEW atom, Accepted(turns, atom)
  PROVE  /\ Clean(turns, atom.evidence) /\ OnlySpeaker(turns, atom)
         /\ Grounded(atom) /\ Sensitivity(atom) = "normal"
<1>1. Sensitivity(atom) \in {"forbidden", "restricted", "normal"}
  BY DEF Sensitivity, MaxSensitivity
<1>2. QED
  BY <1>1 DEF Accepted, Rejection, Clean, Grounded

LEMMA GroundedParts ==
  ASSUME NEW atom, Grounded(atom)
  PROVE  /\ ObjectGrounded(atom)
         /\ \A part \in {atom.subject, atom.subjectHint, atom.target, atom.targetHint, atom.expression} :
              Within(part, CitedText(atom))
BY DEF Grounded, Ungrounded

LEMMA EvidenceItems ==
  ASSUME NEW evidence \in Seq(Quotation)
  PROVE  /\ Len(evidence) \in Nat /\ DOMAIN evidence = 1..Len(evidence)
         /\ \A i \in 1..Len(evidence) : evidence[i] \in Quotation
BY LenProperties, ElementOfSeq

\* No item is skipped: the first fault of the evidence is the first fault of an item.
LEMMA CleanEvidence ==
  ASSUME NEW turns, NEW evidence \in Seq(Quotation), Clean(turns, evidence),
         NEW i \in 1..Len(evidence)
  PROVE  CleanItem(turns, evidence, i)
<1> DEFINE N == Len(evidence)
           clean == {n \in 0..N : \A j \in 1..n : CleanItem(turns, evidence, j)}
           last == Max(clean)
<1>1. last \in clean /\ \A n \in clean : n <= last
  <2>1. N \in Nat /\ clean \in SUBSET (0..N)
    BY EvidenceItems
  <2>2. 0 \in clean
    BY <2>1
  <2> HIDE DEF clean, N
  <2>3. QED
    BY <2>1, <2>2, MaxIs
<1>2. IF last = N THEN TRUE ELSE CleanItem(turns, evidence, last + 1)
  BY DEF EvidenceFault, Clean, CleanItem
<1> HIDE DEF last
<1>3. last = N
  <2>1. N \in Nat /\ last \in 0..N /\ \A j \in 1..last : CleanItem(turns, evidence, j)
    BY <1>1, EvidenceItems
  <2>2. SUFFICES ASSUME last # N
                 PROVE  last + 1 \in clean
    BY <1>1, <2>1
  <2>3. last + 1 \in 0..N
    BY <2>1, <2>2
  <2>4. \A j \in 1..last + 1 : j \in 1..last \/ j = last + 1
    BY <2>1
  <2>5. QED
    BY <1>2, <2>1, <2>2, <2>3, <2>4
<1>4. QED
  BY <1>1, <1>3

LEMMA ItemSaid ==
  ASSUME NEW turns, NEW evidence, NEW i, CleanItem(turns, evidence, i)
  PROVE  /\ TurnsOf(turns, evidence[i].turn) # {}
         /\ \A turn \in TurnsOf(turns, evidence[i].turn) :
              turn.status # "safety_override" /\ Within(evidence[i].quote, turn.text)
BY DEF ItemFault, CleanItem

\* Every quote stands in a turn of the right speaker.
LEMMA FragmentSaid ==
  ASSUME NEW turns, NEW atom \in Atom, Accepted(turns, atom), NEW f \in Fragments(atom)
  PROVE  f \in Text /\ \E turn \in SourcesOf(turns, atom.predicate) : Within(f, turn.text)
<1>1. atom.evidence \in Seq(Quotation)
  BY DEF Atom
<1>2. PICK i \in 1..Len(atom.evidence) : f = atom.evidence[i].quote
  BY <1>1, EvidenceItems DEF Fragments, Range
<1>3. CleanItem(turns, atom.evidence, i)
  BY <1>1, AcceptedParts, CleanEvidence
<1>4. PICK turn \in TurnsOf(turns, atom.evidence[i].turn) :
        turn.status # "safety_override" /\ Within(f, turn.text)
  BY <1>2, <1>3, ItemSaid
<1>5. turn \in CitedTurns(turns, atom)
  <2>1. atom.evidence[i] \in Range(atom.evidence)
    BY <1>1, EvidenceItems DEF Range
  <2>2. QED
    BY <1>4, <2>1 DEF CitedTurns, Cited
<1>6. turn.role = Speaker(atom.predicate)
  BY <1>5, AcceptedParts DEF OnlySpeaker
<1>7. f \in Text
  BY <1>1, <1>2, EvidenceItems DEF Quotation
<1>8. QED
  BY <1>4, <1>6, <1>7 DEF TurnsOf, SourcesOf

FragmentWords(atom) == UNION {Words(f) : f \in Fragments(atom)}

LEMMA FragmentWordsSaid ==
  ASSUME NEW turns, Spoken(turns), NEW atom \in Atom, Accepted(turns, atom)
  PROVE  FragmentWords(atom) \subseteq UNION {Words(turn.text) : turn \in SourcesOf(turns, atom.predicate)}
<1>1. SUFFICES ASSUME NEW f \in Fragments(atom)
               PROVE  Words(f) \subseteq UNION {Words(turn.text) : turn \in SourcesOf(turns, atom.predicate)}
  BY DEF FragmentWords
<1>2. PICK turn \in SourcesOf(turns, atom.predicate) : Within(f, turn.text)
  BY FragmentSaid
<1>3. turn.text \in Text /\ f \in Text
  BY FragmentSaid DEF Spoken, SourcesOf
<1>4. QED
  BY <1>2, <1>3, WithinWords

\* The object stands in one message.
LEMMA ObjectSaid ==
  ASSUME NEW turns, Spoken(turns), NEW atom \in Atom, Accepted(turns, atom)
  PROVE  /\ \E turn \in SourcesOf(turns, atom.predicate) : Within(atom.object, turn.text)
         /\ Words(atom.object) \subseteq FragmentWords(atom)
<1>1. PICK f \in Fragments(atom) : Within(atom.object, f)
  BY AcceptedParts, GroundedParts DEF ObjectGrounded
<1>2. f \in Text /\ atom.object \in Text
  BY FragmentSaid DEF Atom
<1>3. PICK turn \in SourcesOf(turns, atom.predicate) : Within(f, turn.text)
  BY FragmentSaid
<1>4. turn.text \in Text
  BY DEF Spoken, SourcesOf
<1>5. Within(atom.object, turn.text)
  BY <1>1, <1>2, <1>3, <1>4, WithinWithin
<1>6. QED
  BY <1>1, <1>2, <1>3, <1>5, WithinWords DEF FragmentWords

\* The value is what was said, a canonical one, or a number.
LEMMA ValueIs ==
  ASSUME NEW atom \in Atom
  PROVE  \/ NormalizedValue(atom) = atom.object
         \/ \E p \in DOMAIN Canonical : NormalizedValue(atom) = <<Canonical[p]>>
         \/ \E n \in Number : NormalizedValue(atom) = <<n>>
<1>1. CASE atom.predicate \in DOMAIN Keyword /\ Keyword[atom.predicate] \in Words(atom.object)
  <2>1. NormalizedValue(atom) = <<Canonical[atom.predicate]>> /\ atom.predicate \in DOMAIN Canonical
    BY <1>1, WordsAssumption DEF NormalizedValue
  <2>2. QED
    BY <2>1
<1>2. CASE \E n \in Number : atom.normalized = <<n>> /\ NormalizedValue(atom) = atom.normalized
  BY <1>2
<1>3. CASE NormalizedValue(atom) = atom.object
  BY <1>3
<1>4. QED
  BY <1>1, <1>2, <1>3 DEF NormalizedValue

LEMMA ObservationWords ==
  ASSUME NEW turns, Spoken(turns), NEW atom \in Atom, NEW k, Accepted(turns, atom)
  PROVE  Observation(Job, turns, atom, k).words \subseteq FragmentWords(atom)
<1>1. Words(atom.object) \subseteq FragmentWords(atom)
  BY ObjectSaid
<1>2. ASSUME NEW part \in {atom.subject, atom.subjectHint, atom.target, atom.targetHint, atom.expression}
      PROVE  Words(part) \subseteq FragmentWords(atom)
  <2>1. part \in Text
    BY DEF Atom
  <2>2. Within(part, CitedText(atom))
    BY AcceptedParts, GroundedParts
  <2>3. QED
    BY <2>1, <2>2, PartWords DEF FragmentWords
<1>3. AffectParts(atom) \subseteq FragmentWords(atom)
  <2>1. atom.affectTarget \in Text /\ atom.affectCause \in Text
    BY DEF Atom
  <2>2. QED
    BY <2>1, PartWords DEF AffectParts, FragmentWords
<1>4. QED
  BY <1>1, <1>2, <1>3 DEF Observation

\* What the local classifier finds in the quotes rejects the atom.
LEMMA FragmentsNormal ==
  ASSUME NEW turns, NEW atom, Accepted(turns, atom)
  PROVE  FragmentWords(atom) \cap (Forbidden \cup Restricted) = {}
<1>1. SensitivityOf(FragmentWords(atom)) = "normal"
  <2>1. MaxSensitivity(SensitivityOf(FragmentWords(atom)), atom.sensitivity) = "normal"
    BY AcceptedParts DEF Sensitivity, FragmentWords
  <2>2. SensitivityOf(FragmentWords(atom)) \in {"forbidden", "restricted", "normal"}
    BY DEF SensitivityOf
  <2>3. QED
    BY <2>1, <2>2 DEF MaxSensitivity
<1>2. QED
  BY <1>1 DEF SensitivityOf

\* Doubt about one cited turn of the user is doubt about the whole.
LEMMA DoubtOf ==
  ASSUME NEW turns, Spoken(turns), NEW atom, NEW turn \in UserTurns(turns, atom)
  PROVE  /\ MinimumStt(turns, atom) <= Heard(turn) /\ MinimumStt(turns, atom) \in Nat
         /\ turn.heard \in Int /\ Heard(turn) = IF turn.heard > 0 THEN turn.heard ELSE 50
<1> DEFINE all == {Heard(t) : t \in UserTurns(turns, atom)}
<1>1. ASSUME NEW t \in UserTurns(turns, atom)
      PROVE  t.heard \in Int /\ Heard(t) = (IF t.heard > 0 THEN t.heard ELSE 50) /\ Heard(t) \in Nat
  <2>1. t \in Range(turns)
    BY DEF UserTurns, CitedTurns, Cited, TurnsOf
  <2>2. t.heard \in 0..100 \cup {-1}
    BY <2>1 DEF Spoken, Unknown
  <2>3. QED
    BY <2>2 DEF Heard, Unknown
<1>2. all \in SUBSET Nat /\ all # {} /\ Heard(turn) \in all
  BY <1>1
<1>3. Min(all) \in all /\ \A n \in all : Min(all) <= n
  <2> HIDE DEF all
  <2> QED
    BY <1>2, MinIs
<1>4. MinimumStt(turns, atom) = Min(all)
  BY DEF MinimumStt
<1>5. QED
  BY <1>1, <1>2, <1>3, <1>4

LEMMA MinOfTwo ==
  ASSUME NEW a \in Nat, NEW b \in Nat
  PROVE  Min({a, b}) <= a /\ Min({a, b}) <= b /\ Min({a, b}) \in Nat
<1>1. {a, b} \in SUBSET Nat /\ {a, b} # {}
  OBVIOUS
<1>2. QED
  BY <1>1, MinIs

LEMMA ObservationDoubt ==
  ASSUME NEW turns, Spoken(turns), NEW atom, NEW k, NEW turn \in UserTurns(turns, atom)
  PROVE  LET o == Observation(Job, turns, atom, k)
         IN  /\ turn.heard > 0 => o.confidence <= turn.heard /\ o.timeConfidence <= turn.heard
             /\ turn.heard < 78 => o.time = "uncertain" /\ o.timeConfidence <= 50
<1> DEFINE m == MinimumStt(turns, atom)
<1>1. /\ m <= Heard(turn) /\ m \in Nat /\ turn.heard \in Int
      /\ Heard(turn) = IF turn.heard > 0 THEN turn.heard ELSE 50
  BY DoubtOf
<1>2. Confidence(turns, atom) <= m /\ Confidence(turns, atom) \in Nat
  <2>1. (IF Explicitness(atom) = "implied" THEN 65 ELSE 95) \in Nat
    OBVIOUS
  <2>2. QED
    BY <1>1, <2>1, MinOfTwo DEF Confidence
<1>3. /\ TimeConfidence(turns, atom) <= m /\ TimeConfidence(turns, atom) \in Nat
      /\ TimeStatus(turns, atom) = "uncertain" => TimeConfidence(turns, atom) <= 50
  <2> DEFINE base == IF TimeStatus(turns, atom) = "uncertain" THEN 50
                     ELSE IF TimeStatus(turns, atom) = "current" \/ atom.expression # << >> THEN 90 ELSE 75
  <2>1. base \in Nat /\ (TimeStatus(turns, atom) = "uncertain" => base = 50)
    OBVIOUS
  <2>2. TimeConfidence(turns, atom) = Min({base, m})
    BY DEF TimeConfidence
  <2> HIDE DEF base, m
  <2>3. QED
    BY <1>1, <2>1, <2>2, MinOfTwo
<1>4. turn.heard < 78 => TimeStatus(turns, atom) = "uncertain"
  BY <1>1 DEF TimeStatus, Doubtful
<1>5. QED
  BY <1>1, <1>2, <1>3, <1>4 DEF Observation

------------------------------------------------------------------------------
(* The requests. *)

\* What a candidate is made of passed the checks; its id tells which proposal it was.
Found(o) ==
  /\ o.id.content \in Atom /\ o.id.index \in Nat /\ Accepted(window.turns, o.id.content)
  /\ o = Observation(Job, window.turns, o.id.content, o.id.index)
Approved(d) == SourceSafe(window.turns, d.proposal) /\ d = Decision(Job, d.proposal)

\* A list of such candidates, observations in the order of the answer.
Listed(list) ==
  /\ list \in Seq(Range(list))
  /\ window.route = "judge" => \A d \in Range(list) : Approved(d)
  /\ window.route = "compile" =>
       /\ \A o \in Range(list) : Found(o)
       /\ \A i, j \in DOMAIN list : i < j => list[i].id.index < list[j].id.index

FormationInv ==
  /\ window \in Windows /\ stage \in {"idle", "asking", "building"}
  /\ done \in Nat
  /\ stage = "building" => answer \in Answers[window.route]
  /\ Listed(built)
  /\ window.route = "compile" => \A o \in Range(built) : o.id.index < done
  /\ \A reply \in replies : Listed(reply.candidates)

LEMMA WindowSpoken ==
  ASSUME window \in Windows
  PROVE  Spoken(window.turns) /\ window.route \in {"judge", "compile"}
BY FormationAssumption DEF Spoken, Text

LEMMA AppendRange ==
  ASSUME NEW list, list \in Seq(Range(list)), NEW c
  PROVE  /\ Append(list, c) \in Seq(Range(Append(list, c)))
         /\ Range(Append(list, c)) = Range(list) \cup {c}
         /\ DOMAIN Append(list, c) = 1..Len(list) + 1
         /\ DOMAIN list = 1..Len(list) /\ Len(list) \in Nat
         /\ \A i \in 1..Len(list) : Append(list, c)[i] = list[i] /\ list[i] \in Range(list)
         /\ Append(list, c)[Len(list) + 1] = c
<1> DEFINE S == Range(list) \cup {c}
<1>1. list \in Seq(S) /\ c \in S
  <2>1. Range(list) \subseteq S
    OBVIOUS
  <2>2. QED
    BY <2>1, SeqMonotonic
<1>2. /\ Append(list, c) \in Seq(S) /\ Len(Append(list, c)) = Len(list) + 1
      /\ \A i \in 1..Len(list) : Append(list, c)[i] = list[i]
      /\ Append(list, c)[Len(list) + 1] = c
  BY <1>1, AppendProperties
<1>3. /\ DOMAIN Append(list, c) = 1..Len(list) + 1 /\ DOMAIN list = 1..Len(list) /\ Len(list) \in Nat
  BY <1>1, <1>2, LenProperties
<1>4. Append(list, c) \in Seq(Range(Append(list, c)))
  BY <1>2, SeqOfRange
<1>5. \A i \in 1..Len(list) : list[i] \in Range(list)
  BY <1>3 DEF Range
<1>6. Range(Append(list, c)) = Range(list) \cup {c}
  <2>1. ASSUME NEW x \in Range(Append(list, c))
        PROVE  x \in Range(list) \cup {c}
    BY <1>2, <1>3, <2>1 DEF Range
  <2>2. ASSUME NEW x \in Range(list)
        PROVE  x \in Range(Append(list, c))
    <3>1. PICK i \in 1..Len(list) : x = list[i]
      BY <1>3, <2>2 DEF Range
    <3>2. i \in 1..Len(list) + 1 /\ Append(list, c)[i] = x
      BY <1>2, <1>3, <3>1
    <3>3. QED
      BY <1>3, <3>2 DEF Range
  <2>3. c \in Range(Append(list, c))
    <3>1. Len(list) + 1 \in 1..Len(list) + 1
      BY <1>3
    <3>2. QED
      BY <1>2, <1>3, <3>1 DEF Range
  <2>4. QED
    BY <2>1, <2>2, <2>3
<1>7. QED
  BY <1>2, <1>3, <1>4, <1>5, <1>6

LEMMA EmptyListed == Listed(<< >>) /\ Range(<< >>) = {}
<1>1. Range(<< >>) = {} /\ DOMAIN << >> = {}
  BY DEF Range
<1>2. << >> \in Seq({})
  BY EmptySeq
<1>3. QED
  BY <1>1, <1>2 DEF Listed

\* The reasons are strings, and the empty one is none.
LEMMA ConstructCases ==
  ASSUME Construct
  PROVE  \/ built' = built
         \/ /\ Accepted(window.turns, answer[done + 1])
            /\ built' = Append(built, Observation(Job, window.turns, answer[done + 1], done))
<1> DEFINE atom == answer[done + 1]
<1>1. CASE Rejection(window.turns, atom) # ""
  BY <1>1 DEF Construct
<1>2. CASE Rejection(window.turns, atom) = ""
  BY <1>2 DEF Construct, Accepted
<1>3. QED
  BY <1>1, <1>2

LEMMA ConstructKeeps ==
  ASSUME FormationInv, Construct
  PROVE  FormationInv'
<1>1. /\ stage = "building" /\ window.route = "compile" /\ done < Len(answer) /\ done' = done + 1
      /\ UNCHANGED <<window, stage, answer, replies>>
  BY DEF Construct
<1>2. /\ Listed(built) /\ \A o \in Range(built) : o.id.index < done
      /\ done \in Nat /\ \A reply \in replies : Listed(reply.candidates)
  BY <1>1 DEF FormationInv
<1>3. answer \in Seq(Atom)
  BY <1>1, FormationAssumption DEF FormationInv
<1>4. done + 1 \in 1..Len(answer) /\ answer[done + 1] \in Atom
  BY <1>1, <1>2, <1>3, ElementOfSeq, LenProperties
<1>5. Listed(built') /\ \A o \in Range(built') : o.id.index < done + 1
  <2>1. CASE built' = built
    <3>1. ASSUME NEW o \in Range(built)
          PROVE  o.id.index < done + 1
      <4>1. o.id.index \in Nat /\ o.id.index < done
        BY <1>1, <1>2, <3>1 DEF Listed, Found
      <4>2. QED
        BY <1>2, <4>1
    <3>2. QED
      BY <1>2, <2>1, <3>1
  <2>2. CASE /\ Accepted(window.turns, answer[done + 1])
             /\ built' = Append(built, Observation(Job, window.turns, answer[done + 1], done))
    <3> DEFINE o == Observation(Job, window.turns, answer[done + 1], done)
    <3>1. o.id.content = answer[done + 1] /\ o.id.index = done
      BY DEF Observation, CandidateId
    <3>2. Found(o)
      BY <1>2, <1>4, <2>2, <3>1 DEF Found
    <3> HIDE DEF o
    <3>3. /\ built' \in Seq(Range(built')) /\ Range(built') = Range(built) \cup {o}
          /\ DOMAIN built' = 1..Len(built) + 1 /\ Len(built) \in Nat
          /\ \A i \in 1..Len(built) : built'[i] = built[i] /\ built[i] \in Range(built)
          /\ built'[Len(built) + 1] = o /\ DOMAIN built = 1..Len(built)
      BY <1>2, <2>2, AppendRange DEF Listed, o
    <3>4. \A p \in Range(built') : Found(p)
      BY <1>1, <1>2, <3>2, <3>3 DEF Listed
    <3>5. \A i, j \in DOMAIN built' : i < j => built'[i].id.index < built'[j].id.index
      <4>1. SUFFICES ASSUME NEW i \in 1..Len(built) + 1, NEW j \in 1..Len(built) + 1, i < j
                     PROVE  built'[i].id.index < built'[j].id.index
        BY <3>3
      <4>2. i \in 1..Len(built)
        BY <3>3, <4>1
      <4>3. CASE j \in 1..Len(built)
        BY <1>1, <1>2, <3>3, <4>1, <4>2, <4>3 DEF Listed
      <4>4. CASE j = Len(built) + 1
        BY <1>2, <3>1, <3>3, <4>2, <4>4
      <4>5. QED
        BY <3>3, <4>3, <4>4
    <3>6. ASSUME NEW p \in Range(built')
          PROVE  p.id.index < done + 1
      <4>1. CASE p = o
        BY <1>2, <3>1, <4>1
      <4>2. CASE p \in Range(built)
        <5>1. p.id.index \in Nat /\ p.id.index < done
          BY <1>1, <1>2, <4>2 DEF Listed, Found
        <5>2. QED
          BY <1>2, <5>1
      <4>3. QED
        BY <3>3, <3>6, <4>1, <4>2
    <3>7. QED
      BY <1>1, <3>3, <3>4, <3>5, <3>6 DEF Listed
  <2>3. QED
    BY <2>1, <2>2, ConstructCases
<1>6. QED
  BY <1>1, <1>2, <1>5 DEF FormationInv, Listed, Found, Approved

LEMMA FilterKeeps ==
  ASSUME FormationInv, Filter
  PROVE  FormationInv'
<1>1. /\ stage = "building" /\ window.route = "judge" /\ done' = done + 1
      /\ built' = IF SourceSafe(window.turns, answer[done + 1])
                  THEN Append(built, Decision(Job, answer[done + 1])) ELSE built
      /\ UNCHANGED <<window, stage, answer, replies>>
  BY DEF Filter
<1>2. Listed(built) /\ done \in Nat /\ \A reply \in replies : Listed(reply.candidates)
  BY DEF FormationInv
<1>3. Listed(built')
  <2>1. CASE built' = built
    BY <1>2, <2>1
  <2>2. CASE /\ SourceSafe(window.turns, answer[done + 1])
             /\ built' = Append(built, Decision(Job, answer[done + 1]))
    <3> DEFINE d == Decision(Job, answer[done + 1])
    <3>1. Approved(d)
      BY <2>2 DEF Approved, Decision
    <3> HIDE DEF d
    <3>2. built' \in Seq(Range(built')) /\ Range(built') = Range(built) \cup {d}
      BY <1>2, <2>2, AppendRange DEF Listed, d
    <3>3. QED
      BY <1>1, <1>2, <3>1, <3>2 DEF Listed
  <2>3. QED
    BY <1>1, <2>1, <2>2
<1>4. QED
  BY <1>1, <1>2, <1>3 DEF FormationInv, Listed, Found, Approved

LEMMA RespondCases ==
  ASSUME Respond
  PROVE  /\ stage' = "idle"
         /\ \E reply : replies' = replies \cup {reply} /\ reply.candidates = built
         /\ UNCHANGED <<window, answer, done, built>>
<1> DEFINE reply == [attempt |-> attempt, kind |-> "answer", candidates |-> built, cost |-> CostSource,
                     reason |-> IF window.route = "compile" THEN Reason ELSE ""]
<1>1. replies' = replies \cup {reply} /\ stage' = "idle" /\ UNCHANGED <<window, answer, done, built>>
  BY DEF Respond
<1>2. reply.candidates = built
  OBVIOUS
<1>3. QED
  BY <1>1, <1>2

LEMMA FormationNextKeeps ==
  ASSUME FormationInv, [FormationNext]_formationVars
  PROVE  FormationInv'
<1> USE DEF FormationInv, Listed, Found, Approved
<1>1. CASE Request
  <2> DEFINE empty == [attempt |-> attempt', kind |-> "disabled", candidates |-> << >>]
  <2>1. UNCHANGED window /\ done' = 0 /\ built' = << >> /\ stage = "idle"
    BY <1>1 DEF Request
  <2>2. empty.candidates = << >>
    OBVIOUS
  <2>3. replies' \subseteq replies \cup {empty} /\ stage' \in {"idle", "asking"}
    <3> HIDE DEF FormationInv
    <3>1. CASE setup = "disabled"
      BY <1>1, <2>1, <3>1 DEF Request
    <3>2. CASE setup # "disabled"
      BY <1>1, <2>1, <3>2 DEF Request
    <3>3. QED
      BY <3>1, <3>2
  <2> HIDE DEF empty
  <2>4. Listed(<< >>)' /\ Range(<< >>)' = {}
    BY EmptyListed, <2>1 DEF Range
  <2>5. QED
    BY <2>1, <2>2, <2>3, <2>4
<1>2. CASE ProviderFails
  <2> DEFINE empty == [attempt |-> attempt, kind |-> "unavailable", candidates |-> << >>]
  <2>1. /\ UNCHANGED <<window, done, built, answer>> /\ stage' = "idle"
        /\ replies' = replies \cup {empty}
    BY <1>2 DEF ProviderFails
  <2>2. empty.candidates = << >>
    OBVIOUS
  <2> HIDE DEF empty
  <2>3. Listed(<< >>)
    BY EmptyListed
  <2>4. QED
    BY <2>1, <2>2, <2>3
<1>3. CASE ProviderAnswers
  BY <1>3 DEF ProviderAnswers
<1>4. CASE Respond
  BY <1>4, RespondCases
<1>5. CASE UNCHANGED formationVars
  BY <1>5 DEF formationVars
<1>6. QED
  BY <1>1, <1>2, <1>3, <1>4, <1>5, ConstructKeeps, FilterKeeps DEF FormationNext

LEMMA FormationInitHolds == FormationInit => FormationInv
BY EmptyListed DEF FormationInit, FormationInv

------------------------------------------------------------------------------
(* The theorems. *)

\* Whatever the model proposes, the phone is answered with candidates that have
\* passed every check, in the order in which they were proposed.
THEOREM FormationInvariance == FormationSpec => []FormationInv
<1>1. FormationInit => FormationInv
  BY FormationInitHolds
<1>2. FormationInv /\ [FormationNext]_formationVars => FormationInv'
  BY FormationNextKeeps
<1>3. QED
  BY <1>1, <1>2, PTL DEF FormationSpec

LEMMA CandidatesMade ==
  ASSUME FormationInv
  PROVE  /\ \A o \in Observations : window.route = "compile" /\ Found(o)
         /\ \A d \in Decisions : window.route = "judge" /\ Approved(d)
<1>1. ASSUME NEW c \in Candidates
      PROVE  /\ window.route = "compile" => Found(c)
             /\ window.route = "judge" => Approved(c)
  <2>1. PICK reply \in replies : c \in Range(reply.candidates)
    BY <1>1 DEF Candidates
  <2>2. QED
    BY <2>1 DEF FormationInv, Listed
<1>2. QED
  BY <1>1 DEF Observations, Decisions

LEMMA DecisionSourced ==
  ASSUME NEW turns, NEW candidate, SourceSafe(turns, candidate)
  PROVE  \E turn \in Range(turns) : turn.role = Speaker(candidate.kind)
                                    /\ turn.id \in Range(candidate.turns)
<1>1. Speaker(candidate.kind) \in RolesOf(turns, Range(candidate.turns))
  BY DEF SourceSafe, CommitmentSourced, UserSourced, Speaker
<1>2. QED
  BY <1>1 DEF RolesOf, Cited, TurnsOf

\* The words of an observation are those of its speaker, in messages that are not
\* marked safety_override, and a decision cites its speaker
\* (_construct_memory_observation, filter_source_safe_candidates).
THEOREM SpokenByItsSpeaker == FormationSpec => []SaidInWindow
<1>1. FormationInv => SaidInWindow
  <2>1. SUFFICES ASSUME FormationInv
                 PROVE  SaidInWindow
    OBVIOUS
  <2>2. Spoken(window.turns)
    BY <2>1, WindowSpoken DEF FormationInv
  <2>3. ASSUME NEW o \in Observations
        PROVE  LET heard == {turn \in SaidBy(Speaker(o.predicate)) : turn.status # "safety_override"}
               IN  /\ \E turn \in heard : Within(o.object, turn.text)
                   /\ o.words \subseteq UNION {Words(turn.text) : turn \in heard}
                   /\ \/ \E turn \in heard : Within(o.value, turn.text)
                      \/ \E word \in Number \cup Range(Canonical) : o.value = <<word>>
    <3> DEFINE atom == o.id.content
               heard == {turn \in SaidBy(Speaker(o.predicate)) : turn.status # "safety_override"}
    <3>1. /\ atom \in Atom /\ Accepted(window.turns, atom)
          /\ o = Observation(Job, window.turns, atom, o.id.index)
      BY <2>1, CandidatesMade DEF Found
    <3>2. o.predicate = atom.predicate /\ o.object = atom.object /\ o.value = NormalizedValue(atom)
      BY <3>1 DEF Observation
    <3>3. heard = SourcesOf(window.turns, atom.predicate)
      BY <3>2 DEF SaidBy, SourcesOf
    <3> HIDE DEF atom, heard
    <3>4. \E turn \in heard : Within(o.object, turn.text)
      BY <2>2, <3>1, <3>2, <3>3, ObjectSaid
    <3>5. o.words \subseteq UNION {Words(turn.text) : turn \in heard}
      <4>1. o.words \subseteq FragmentWords(atom)
        BY <2>2, <3>1, ObservationWords
      <4>2. FragmentWords(atom) \subseteq UNION {Words(turn.text) : turn \in heard}
        BY <2>2, <3>1, <3>3, FragmentWordsSaid
      <4>3. QED
        BY <4>1, <4>2
    <3>6. \/ \E turn \in heard : Within(o.value, turn.text)
          \/ \E word \in Number \cup Range(Canonical) : o.value = <<word>>
      <4>1. \A p \in DOMAIN Canonical : Canonical[p] \in Range(Canonical)
        BY DEF Range
      <4>2. \/ o.value = o.object
            \/ \E p \in DOMAIN Canonical : o.value = <<Canonical[p]>>
            \/ \E n \in Number : o.value = <<n>>
        BY <3>1, <3>2, ValueIs
      <4>3. QED
        BY <3>4, <4>1, <4>2
    <3>7. QED
      BY <3>4, <3>5, <3>6 DEF heard
  <2>4. ASSUME NEW d \in Decisions
        PROVE  \E turn \in SaidBy(Speaker(d.proposal.kind)) : turn.id \in Range(d.proposal.turns)
    BY <2>1, CandidatesMade, DecisionSourced DEF Approved, SaidBy
  <2>5. QED
    BY <2>3, <2>4 DEF SaidInWindow
<1>2. QED
  BY <1>1, FormationInvariance, PTL

\* Nothing of the private classes reaches the phone, whatever the sensitivity the
\* model claims (classify_local_memory_sensitivity, _SENSITIVE_EVIDENCE_MARKERS), but
\* as a number that the model proposed for the value: any number may be private, and
\* no number is searched for what is.
THEOREM NothingPrivate == FormationSpec => []PrivateKeptOut
<1>1. FormationInv => PrivateKeptOut
  <2>1. SUFFICES ASSUME FormationInv
                 PROVE  PrivateKeptOut
    OBVIOUS
  <2>2. Spoken(window.turns)
    BY <2>1, WindowSpoken DEF FormationInv
  <2>3. ASSUME NEW o \in Observations
        PROVE  /\ o.words \cap Private = {}
               /\ Words(o.value) \cap Private = {} \/ \E n \in Number : o.value = <<n>>
    <3> DEFINE atom == o.id.content
    <3>1. /\ atom \in Atom /\ Accepted(window.turns, atom)
          /\ o = Observation(Job, window.turns, atom, o.id.index)
      BY <2>1, CandidatesMade DEF Found
    <3> HIDE DEF atom
    <3>2. o.words \subseteq FragmentWords(atom) /\ Words(atom.object) \subseteq FragmentWords(atom)
      BY <2>2, <3>1, ObservationWords, ObjectSaid
    <3>3. FragmentWords(atom) \cap Private = {}
      BY <3>1, FragmentsNormal DEF Private
    <3>4. o.value = NormalizedValue(atom)
      BY <3>1 DEF Observation
    <3>5. CASE o.value = atom.object
      BY <3>2, <3>3, <3>5
    <3>6. CASE \E p \in DOMAIN Canonical : o.value = <<Canonical[p]>>
      <4>1. PICK p \in DOMAIN Canonical : o.value = <<Canonical[p]>>
        BY <3>6
      <4>2. Canonical[p] \notin Private
        BY WordsAssumption DEF Private
      <4>3. Words(o.value) = {Canonical[p]}
        BY <4>1 DEF Words, Range
      <4>4. QED
        BY <3>2, <3>3, <4>2, <4>3
    <3>7. CASE \E n \in Number : o.value = <<n>>
      BY <3>2, <3>3, <3>7
    <3>8. QED
      BY <3>1, <3>4, <3>5, <3>6, <3>7, ValueIs
  <2>4. ASSUME NEW d \in Decisions, NEW turn \in Range(window.turns), turn.id \in Range(d.proposal.turns)
        PROVE  (Words(turn.text) \cup d.proposal.words) \cap Marked = {}
    <3>1. EvidenceWords(window.turns, d.proposal) \cap Marked = {}
      BY <2>1, <2>4, CandidatesMade DEF Approved, SourceSafe, Flagged
    <3>2. turn \in Cited(window.turns, Range(d.proposal.turns))
      BY <2>4 DEF Cited, TurnsOf
    <3>3. QED
      BY <3>1, <3>2 DEF EvidenceWords
  <2>5. QED
    BY <2>3, <2>4 DEF PrivateKeptOut
<1>2. QED
  BY <1>1, FormationInvariance, PTL

\* One turn that was not heard well makes the whole observation doubtful.
THEOREM DoubtNotOutvoted == FormationSpec => []DoubtKept
<1>1. FormationInv => DoubtKept
  <2>1. SUFFICES ASSUME FormationInv, NEW o \in Observations, NEW i \in DOMAIN o.evidence,
                        NEW turn \in Range(window.turns),
                        turn.id = o.evidence[i].turn, turn.role = "user"
                 PROVE  /\ turn.heard > 0 => o.confidence <= turn.heard /\ o.timeConfidence <= turn.heard
                        /\ turn.heard < 78 => o.time = "uncertain" /\ o.timeConfidence <= 50
    BY DEF DoubtKept
  <2> DEFINE atom == o.id.content
  <2>2. o = Observation(Job, window.turns, atom, o.id.index)
    BY <2>1, CandidatesMade DEF Found
  <2>3. o.evidence = atom.evidence
    BY <2>2 DEF Observation
  <2>4. turn \in UserTurns(window.turns, atom)
    BY <2>1, <2>3 DEF UserTurns, CitedTurns, Cited, TurnsOf, Range
  <2> HIDE DEF atom
  <2>5. Spoken(window.turns)
    BY <2>1, WindowSpoken DEF FormationInv
  <2>6. QED
    BY <2>2, <2>4, <2>5, ObservationDoubt
<1>2. QED
  BY <1>1, FormationInvariance, PTL

------------------------------------------------------------------------------
(* The members of a sequence in an order of their places. *)

\* A strict total order of places.
OrderOf(order, places) ==
  /\ \A i \in places : <<i, i>> \notin order
  /\ \A i, j \in places : i = j \/ <<i, j>> \in order \/ <<j, i>> \in order
  /\ \A i, j, k \in places : <<i, j>> \in order /\ <<j, k>> \in order => <<i, k>> \in order

\* A place is found by the number of places before it.
LEMMA ArrangedPlaces ==
  ASSUME NEW s, NEW places, IsFiniteSet(places), NEW order, OrderOf(order, places)
  PROVE  /\ Cardinality(places) \in Nat
         /\ \E p \in [1..Cardinality(places) -> places] :
              /\ Arranged(s, places, order) = [n \in 1..Cardinality(places) |-> s[p[n]]]
              /\ \A i \in places : \E n \in 1..Cardinality(places) : p[n] = i
              /\ \A m, n \in 1..Cardinality(places) : m < n => <<p[m], p[n]>> \in order
<1> DEFINE N == Cardinality(places)
           Before(i) == {j \in places : <<j, i>> \in order}
           rank == [i \in places |-> Cardinality(Before(i)) + 1]
           p == [n \in 1..N |-> CHOOSE i \in places : Cardinality(Before(i)) = n - 1]
<1>1. N \in Nat
  BY FS_CardinalityType
<1>2. \A i \in places : IsFiniteSet(Before(i)) /\ Cardinality(Before(i)) \in 0..N - 1
  <2>1. SUFFICES ASSUME NEW i \in places
                 PROVE  IsFiniteSet(Before(i)) /\ Cardinality(Before(i)) \in 0..N - 1
    OBVIOUS
  <2>2. Before(i) \in SUBSET (places \ {i})
    BY DEF OrderOf
  <2>3. IsFiniteSet(places \ {i}) /\ Cardinality(places \ {i}) = N - 1
    BY FS_RemoveElement
  <2> HIDE DEF Before, N
  <2>4. IsFiniteSet(Before(i)) /\ Cardinality(Before(i)) <= N - 1
    BY <2>2, <2>3, FS_Subset
  <2>5. Cardinality(Before(i)) \in Nat
    BY <2>4, FS_CardinalityType
  <2>6. QED
    BY <1>1, <2>4, <2>5
<1>3. \A i, j \in places : <<i, j>> \in order => rank[i] < rank[j]
  <2>1. SUFFICES ASSUME NEW i \in places, NEW j \in places, <<i, j>> \in order
                 PROVE  rank[i] < rank[j]
    OBVIOUS
  <2>2. i \notin Before(i) /\ Before(i) \cup {i} \in SUBSET Before(j)
    BY <2>1 DEF OrderOf
  <2> HIDE DEF Before
  <2>3. Cardinality(Before(i) \cup {i}) = Cardinality(Before(i)) + 1
    BY <1>2, <2>2, FS_AddElement
  <2>4. Cardinality(Before(i) \cup {i}) <= Cardinality(Before(j))
    BY <1>2, <2>2, FS_Subset
  <2>5. QED
    BY <1>2, <2>3, <2>4
<1>4. /\ rank \in [places -> 1..N]
      /\ \A i \in places : Cardinality(Before(i)) = rank[i] - 1
  <2> HIDE DEF Before, N
  <2>1. \A i \in places : Cardinality(Before(i)) + 1 \in 1..N
    BY <1>1, <1>2
  <2>2. QED
    BY <1>2, <2>1
<1>5. \A i, j \in places : rank[i] = rank[j] => i = j
  <2>1. SUFFICES ASSUME NEW i \in places, NEW j \in places, rank[i] = rank[j], i # j
                 PROVE  FALSE
    OBVIOUS
  <2>2. <<i, j>> \in order \/ <<j, i>> \in order
    BY <2>1 DEF OrderOf
  <2> HIDE DEF rank, N
  <2>3. rank[i] < rank[j] \/ rank[j] < rank[i]
    BY <1>3, <2>2
  <2>4. rank[i] \in Int /\ rank[j] \in Int
    BY <1>1, <1>4
  <2>5. QED
    BY <2>1, <2>3, <2>4
<1>6. \A n \in 1..N : \E i \in places : rank[i] = n
  <2>1. rank \in Injection(places, 1..N)
    BY <1>4, <1>5 DEF Injection, IsInjective
  <2>2. IsFiniteSet(1..N) /\ Cardinality(1..N) = N
    BY <1>1, FS_Interval
  <2> HIDE DEF rank
  <2>3. rank \in Surjection(places, 1..N)
    BY <2>1, <2>2, FS_Injection
  <2>4. QED
    BY <2>3 DEF Surjection
<1>7. \A n \in 1..N : p[n] \in places /\ rank[p[n]] = n
  <2>1. SUFFICES ASSUME NEW n \in 1..N
                 PROVE  p[n] \in places /\ rank[p[n]] = n
    OBVIOUS
  <2>2. \E i \in places : Cardinality(Before(i)) = n - 1
    BY <1>4, <1>6
  <2>3. p[n] \in places /\ Cardinality(Before(p[n])) = n - 1
    <3> HIDE DEF Before
    <3> QED
      BY <2>2
  <2>4. QED
    BY <2>3
<1>8. Arranged(s, places, order) = [n \in 1..N |-> s[p[n]]]
  BY DEF Arranged
<1> HIDE DEF p, rank, N
<1>9. p \in [1..N -> places]
  BY <1>7 DEF p
<1>10. \A i \in places : p[rank[i]] = i
  BY <1>4, <1>5, <1>7
<1>11. \A m, n \in 1..N : m < n => <<p[m], p[n]>> \in order
  <2>1. SUFFICES ASSUME NEW m \in 1..N, NEW n \in 1..N, m < n, <<p[m], p[n]>> \notin order
                 PROVE  FALSE
    OBVIOUS
  <2>2. p[m] # p[n]
    BY <1>7, <2>1
  <2>3. <<p[n], p[m]>> \in order
    BY <1>7, <2>1, <2>2 DEF OrderOf
  <2>4. n < m
    BY <1>3, <1>7, <2>3
  <2>5. QED
    BY <1>1, <2>1, <2>4
<1>12. QED
  BY <1>1, <1>4, <1>8, <1>9, <1>10, <1>11 DEF N

\* What goes over a sequence from its start has a result after each of its members.
Walked(g, n, start, step) == g[0] = start /\ \A k \in 1..n : g[k] = step[g[k - 1]][k]

LEMMA Walk ==
  ASSUME NEW N \in Nat, NEW S, NEW start \in S, NEW step \in [S -> [1..N -> S]]
  PROVE  \E g \in [0..N -> S] : Walked(g, N, start, step)
<1> USE DEF Walked
<1> DEFINE Follows(g, m) == Walked(g, m, start, step)
           Good == {m \in 1..N : \E g \in [0..m -> S] : Follows(g, m)}
<1>1. ASSUME NEW m \in 1..N, m = 1 \/ m - 1 \in Good
      PROVE  m \in Good
  <2>1. PICK g \in [0..m - 1 -> S] : Follows(g, m - 1)
    <3>1. CASE m = 1
      <4>1. [n \in 0..m - 1 |-> start] \in [0..m - 1 -> S] /\ 0 \in 0..m - 1 /\ 1..m - 1 = {}
        BY <3>1
      <4>2. QED
        BY <4>1
    <3>2. CASE m - 1 \in Good
      BY <3>2
    <3>3. QED
      BY <1>1, <3>1, <3>2
  <2> DEFINE h == [n \in 0..m |-> IF n = m THEN step[g[m - 1]][m] ELSE g[n]]
  <2>2. g[m - 1] \in S
    BY <1>1, <2>1
  <2>3. h \in [0..m -> S]
    BY <2>1, <2>2
  <2>4. \A n \in 0..m - 1 : h[n] = g[n]
    OBVIOUS
  <2>5. h[m] = step[g[m - 1]][m]
    OBVIOUS
  <2> HIDE DEF h
  <2>6. Follows(h, m)
    <3>1. h[0] = start
      BY <2>1, <2>4
    <3>2. ASSUME NEW n \in 1..m
          PROVE  h[n] = step[h[n - 1]][n]
      <4>1. h[n - 1] = g[n - 1]
        BY <2>4, <3>2
      <4>2. CASE n = m
        BY <2>5, <4>1, <4>2
      <4>3. CASE n # m
        <5>1. n \in 1..m - 1 /\ n \in 0..m - 1
          BY <4>3
        <5>2. QED
          BY <2>1, <2>4, <4>1, <5>1
      <4>4. QED
        BY <4>2, <4>3
    <3>3. QED
      BY <3>1, <3>2
  <2>7. QED
    BY <2>3, <2>6
<1>2. CASE N = 0
  <2>1. [n \in 0..N |-> start] \in [0..N -> S] /\ 0 \in 0..N /\ 1..N = {}
    BY <1>2
  <2>2. QED
    BY <2>1
<1>3. CASE N > 0
  <2> HIDE DEF Good
  <2>1. 1..N \subseteq Good
    BY <1>1, UpTo
  <2>2. N \in Good
    BY <1>3, <2>1
  <2>3. QED
    BY <2>2 DEF Good
<1>4. N = 0 \/ N > 0
  OBVIOUS
<1>5. QED
  BY <1>2, <1>3, <1>4
------------------------------------------------------------------------------
(* Turns without repetitions. *)

\* What the builder relies on: turns by time, and none twice.
Timed(turns) == turns \in Seq(ToSet(turns)) /\ \A t \in ToSet(turns) : t.created \in Int
InTime(turns) == \A i, j \in DOMAIN turns : i < j => turns[i].created <= turns[j].created
Distinct(turns) == \A i, j \in DOMAIN turns : i # j => Key(turns[i]) # Key(turns[j])
Same(t, u) == t.role = u.role /\ t.text = u.text

TimeOrder(turns) == Stable(turns, LAMBDA a, b : a.created < b.created)

LEMMA SeqPlaces ==
  ASSUME NEW S, NEW s \in Seq(S)
  PROVE  /\ Len(s) \in Nat /\ DOMAIN s = 1..Len(s) /\ \A i \in 1..Len(s) : s[i] \in S
         /\ s = [i \in 1..Len(s) |-> s[i]]
         /\ ToSet(s) \subseteq S /\ s \in Seq(ToSet(s))
<1>1. Len(s) \in Nat /\ DOMAIN s = 1..Len(s) /\ s \in [1..Len(s) -> S]
  BY LenProperties
<1>2. s \in [1..Len(s) -> ToSet(s)]
  BY <1>1 DEF ToSet
<1>3. QED
  BY <1>1, <1>2 DEF ToSet

LEMMA TimeOrderIs ==
  ASSUME NEW turns, Timed(turns), NEW places, places \subseteq DOMAIN turns
  PROVE  /\ \A i, j \in places :
              <<i, j>> \in TimeOrder(turns) <=>
                \/ turns[i].created < turns[j].created
                \/ turns[i].created = turns[j].created /\ i < j
         /\ OrderOf(TimeOrder(turns), places) /\ IsFiniteSet(places)
<1>1. Len(turns) \in Nat /\ DOMAIN turns = 1..Len(turns)
  BY SeqPlaces DEF Timed
<1>2. \A i \in DOMAIN turns : turns[i].created \in Int
  BY DEF Timed, ToSet
<1>3. \A i, j \in DOMAIN turns :
        <<i, j>> \in TimeOrder(turns) <=>
          \/ turns[i].created < turns[j].created
          \/ ~(turns[j].created < turns[i].created) /\ i < j
  BY DEF TimeOrder, Stable
<1>4. \A i, j \in places :
        <<i, j>> \in TimeOrder(turns) <=>
          \/ turns[i].created < turns[j].created
          \/ turns[i].created = turns[j].created /\ i < j
  <2>1. SUFFICES ASSUME NEW i \in places, NEW j \in places
                 PROVE  <<i, j>> \in TimeOrder(turns) <=>
                          \/ turns[i].created < turns[j].created
                          \/ turns[i].created = turns[j].created /\ i < j
    OBVIOUS
  <2>2. turns[i].created \in Int /\ turns[j].created \in Int
    BY <1>2
  <2>3. <<i, j>> \in TimeOrder(turns) <=>
          \/ turns[i].created < turns[j].created
          \/ ~(turns[j].created < turns[i].created) /\ i < j
    BY <1>3
  <2>4. QED
    BY <2>2, <2>3
<1> DEFINE time == [i \in places |-> turns[i].created]
<1>5. \A i \in places : i \in Nat /\ time[i] \in Int
  BY <1>1, <1>2
<1>6. \A i, j \in places :
        <<i, j>> \in TimeOrder(turns) <=> time[i] < time[j] \/ (time[i] = time[j] /\ i < j)
  BY <1>4
<1>7. OrderOf(TimeOrder(turns), places)
  <2> HIDE DEF time
  <2> QED
    BY <1>5, <1>6 DEF OrderOf
<1>8. IsFiniteSet(places)
  <2>1. IsFiniteSet(1..Len(turns)) /\ places \in SUBSET (1..Len(turns))
    BY <1>1, FS_Interval
  <2>2. QED
    BY <2>1, FS_Subset
<1>9. QED
  BY <1>4, <1>7, <1>8

\* The turns at some places, sorted: where each came from.
LEMMA ByTime ==
  ASSUME NEW turns, Timed(turns), NEW places, places \subseteq DOMAIN turns
  PROVE  /\ Cardinality(places) \in Nat
         /\ \E p \in [1..Cardinality(places) -> places] :
              /\ Arranged(turns, places, TimeOrder(turns)) =
                   [n \in 1..Cardinality(places) |-> turns[p[n]]]
              /\ \A i \in places : \E n \in 1..Cardinality(places) : p[n] = i
              /\ \A m, n \in 1..Cardinality(places) : m < n =>
                   /\ p[m] # p[n] /\ turns[p[m]].created <= turns[p[n]].created
                   /\ InTime(turns) => p[m] < p[n]
<1> DEFINE N == Cardinality(places)
<1>1. /\ N \in Nat
      /\ \E p \in [1..N -> places] :
           /\ Arranged(turns, places, TimeOrder(turns)) = [n \in 1..N |-> turns[p[n]]]
           /\ \A i \in places : \E n \in 1..N : p[n] = i
           /\ \A m, n \in 1..N : m < n => <<p[m], p[n]>> \in TimeOrder(turns)
  <2>1. OrderOf(TimeOrder(turns), places) /\ IsFiniteSet(places)
    BY TimeOrderIs
  <2>2. QED
    BY <2>1, ArrangedPlaces
<1>2. \A i \in DOMAIN turns : turns[i].created \in Int /\ i \in Nat
  BY SeqPlaces DEF Timed, ToSet
<1>3. PICK p \in [1..N -> places] :
           /\ Arranged(turns, places, TimeOrder(turns)) = [n \in 1..N |-> turns[p[n]]]
           /\ \A i \in places : \E n \in 1..N : p[n] = i
           /\ \A m, n \in 1..N : m < n => <<p[m], p[n]>> \in TimeOrder(turns)
  BY <1>1
<1>4. ASSUME NEW m \in 1..N, NEW n \in 1..N, m < n
      PROVE  /\ p[m] # p[n] /\ turns[p[m]].created <= turns[p[n]].created
             /\ InTime(turns) => p[m] < p[n]
  <2>1. p[m] \in places /\ p[n] \in places
    OBVIOUS
  <2>2. \/ turns[p[m]].created < turns[p[n]].created
        \/ turns[p[m]].created = turns[p[n]].created /\ p[m] < p[n]
    BY <1>3, <1>4, <2>1, TimeOrderIs
  <2>3. /\ turns[p[m]].created \in Int /\ turns[p[n]].created \in Int
        /\ p[m] \in Nat /\ p[n] \in Nat
    BY <1>2, <2>1
  <2>4. p[m] # p[n]
    BY <2>2, <2>3
  <2>5. ASSUME InTime(turns), p[n] < p[m]
        PROVE  FALSE
    <3>1. turns[p[n]].created <= turns[p[m]].created
      BY <2>1, <2>5 DEF InTime
    <3>2. QED
      BY <2>2, <2>3, <2>5, <3>1
  <2>6. QED
    BY <2>2, <2>3, <2>4, <2>5
<1>5. QED
  BY <1>1, <1>3, <1>4

\* What is kept of the first n turns of q.
Deduped(q, n, kept) ==
  /\ kept \in Seq(ToSet(q))
  /\ \A a \in 1..Len(kept) : \E m \in 1..n : kept[a] = q[m]
  /\ \A a, b \in 1..Len(kept) : a < b =>
       /\ \E m, k \in 1..n : m < k /\ kept[a] = q[m] /\ kept[b] = q[k]
       /\ Key(kept[a]) # Key(kept[b])
  /\ Distinct(q) =>
       /\ \A m \in 1..n : \E a \in 1..Len(kept) :
            /\ Same(kept[a], q[m])
            /\ \A b \in 1..Len(kept) : kept[b].created < q[m].created => b <= a
       /\ n > 0 => kept # << >> /\ Same(Last(kept), q[n])

LEMMA AddKeeps ==
  ASSUME NEW q, Timed(q), InTime(q), NEW n \in 1..Len(q), NEW kept, Deduped(q, n - 1, kept)
  PROVE  Deduped(q, n, Add(kept, q[n]))
<1> DEFINE L == Len(kept)
           t == q[n]
<1>0. Len(q) \in Nat /\ DOMAIN q = 1..Len(q) /\ t \in ToSet(q)
  BY SeqPlaces DEF Timed, ToSet
<1>1. L \in Nat /\ DOMAIN kept = 1..L /\ kept \in Seq(ToSet(q))
  BY SeqPlaces DEF Deduped
<1>2. 1..n - 1 \subseteq 1..n /\ n \in 1..n /\ n \in Nat \ {0}
  BY <1>0
<1>3. \A a \in 1..L : \E m \in 1..n - 1 : kept[a] = q[m]
  BY DEF Deduped
<1>4. CASE Repeats(kept, t)
  <2>1. Add(kept, t) = kept
    BY <1>4 DEF Add
  <2>2. Distinct(q) => kept # << >> /\ Same(Last(kept), t)
    <3>1. SUFFICES ASSUME Distinct(q), NEW a \in 1..L, Key(kept[a]) = Key(t)
                   PROVE  FALSE
      BY <1>1, <1>4 DEF Repeats, Same
    <3>2. PICK m \in 1..n - 1 : kept[a] = q[m]
      BY <1>3
    <3>3. QED
      BY <1>0, <1>2, <3>1, <3>2 DEF Distinct
  <2>3. Distinct(q) => /\ Same(kept[L], t) /\ L \in 1..L
                       /\ \A b \in 1..L : b <= L
    <3>1. kept # << >> => L > 0
      BY <1>1
    <3>2. QED
      BY <1>1, <2>2, <3>1 DEF Last
  <2>4. \A m \in 1..n : m = n \/ m \in 1..n - 1
    BY <1>0
  <2>5. Distinct(q) =>
          \A m \in 1..n : \E a \in 1..L :
            /\ Same(kept[a], q[m])
            /\ \A b \in 1..L : kept[b].created < q[m].created => b <= a
    BY <2>3, <2>4 DEF Deduped
  <2>6. Deduped(q, n, kept)
    <3>1. \A a \in 1..L : \E m \in 1..n : kept[a] = q[m]
      BY <1>2, <1>3
    <3>2. ASSUME NEW a \in 1..L, NEW b \in 1..L, a < b
          PROVE  /\ \E m, k \in 1..n : m < k /\ kept[a] = q[m] /\ kept[b] = q[k]
                 /\ Key(kept[a]) # Key(kept[b])
      <4>1. /\ \E m, k \in 1..n - 1 : m < k /\ kept[a] = q[m] /\ kept[b] = q[k]
            /\ Key(kept[a]) # Key(kept[b])
        BY <3>2 DEF Deduped
      <4>2. QED
        BY <1>2, <4>1
    <3>3. QED
      BY <1>1, <2>2, <2>5, <3>1, <3>2 DEF Deduped
  <2>7. QED
    BY <2>1, <2>6 DEF t
<1>5. CASE ~Repeats(kept, t)
  <2> DEFINE new == Append(kept, t)
  <2>1. Add(kept, t) = new
    BY <1>5 DEF Add
  <2>2. /\ new \in Seq(ToSet(q)) /\ Len(new) = L + 1 /\ new # << >>
        /\ new[L + 1] = t /\ \A a \in 1..L : new[a] = kept[a]
    BY <1>0, <1>1, AppendProperties
  <2>3. \A a \in 1..L + 1 : a = L + 1 \/ a \in 1..L
    BY <1>1
  <2>4. \A a \in 1..L : Key(kept[a]) # Key(t)
    BY <1>1, <1>5 DEF Repeats
  <2>5. \A m \in 1..n - 1 : q[m].created <= t.created /\ m < n
    BY <1>0 DEF InTime
  <2>6. \A m \in 1..n - 1 : q[m].created \in Int /\ t.created \in Int
    BY <1>0 DEF Timed, ToSet
  <2> HIDE DEF new, L, t
  <2>7. \A a \in 1..L + 1 : \E m \in 1..n : new[a] = q[m]
    BY <1>2, <1>3, <2>2, <2>3 DEF t
  <2>8. ASSUME NEW a \in 1..L + 1, NEW b \in 1..L + 1, a < b
        PROVE  /\ \E m, k \in 1..n : m < k /\ new[a] = q[m] /\ new[b] = q[k]
               /\ Key(new[a]) # Key(new[b])
    <3>1. a \in 1..L
      BY <1>1, <2>8
    <3>2. CASE b = L + 1
      <4>1. PICK m \in 1..n - 1 : kept[a] = q[m]
        BY <1>3, <3>1
      <4>2. new[a] = q[m] /\ new[b] = q[n] /\ m < n
        BY <2>2, <2>5, <3>1, <3>2, <4>1 DEF t
      <4>3. QED
        BY <1>2, <2>2, <2>4, <3>1, <3>2, <4>2
    <3>3. CASE b # L + 1
      <4>1. b \in 1..L
        BY <2>3, <3>3
      <4>2. /\ \E m, k \in 1..n - 1 : m < k /\ kept[a] = q[m] /\ kept[b] = q[k]
            /\ Key(kept[a]) # Key(kept[b])
        BY <2>8, <3>1, <4>1 DEF Deduped, L
      <4>3. QED
        BY <1>2, <2>2, <3>1, <4>1, <4>2
    <3>4. QED
      BY <3>2, <3>3
  <2>9. ASSUME Distinct(q), NEW m \in 1..n
        PROVE  \E a \in 1..L + 1 :
                 /\ Same(new[a], q[m])
                 /\ \A b \in 1..L + 1 : new[b].created < q[m].created => b <= a
    <3>1. CASE m = n
      <4>1. L + 1 \in 1..L + 1 /\ \A b \in 1..L + 1 : b <= L + 1
        BY <1>1
      <4>2. Same(new[L + 1], q[m])
        BY <2>2, <3>1 DEF Same, t
      <4>3. QED
        BY <4>1, <4>2
    <3>2. CASE m # n
      <4>1. m \in 1..n - 1
        BY <1>0, <3>2
      <4>2. PICK a \in 1..L : /\ Same(kept[a], q[m])
                              /\ \A b \in 1..L : kept[b].created < q[m].created => b <= a
        BY <2>9, <4>1 DEF Deduped, L
      <4>3. ~(new[L + 1].created < q[m].created)
        BY <2>2, <2>5, <2>6, <4>1
      <4>4. a \in 1..L + 1 /\ new[a] = kept[a]
        BY <1>1, <2>2
      <4>5. \A b \in 1..L + 1 : new[b].created < q[m].created => b <= a
        BY <2>2, <2>3, <4>2, <4>3
      <4>6. QED
        BY <4>2, <4>4, <4>5
    <3>3. QED
      BY <3>1, <3>2
  <2>10. Same(Last(new), q[n])
    BY <2>2 DEF Last, Same, t
  <2>11. Deduped(q, n, new)
    BY <2>2, <2>7, <2>8, <2>9, <2>10 DEF Deduped
  <2>12. QED
    BY <2>1, <2>11 DEF t
<1>6. QED
  BY <1>4, <1>5

\* Dedupe goes once over the sorted turns.
LEMMA DedupeIs ==
  ASSUME NEW turns, NEW places, NEW q, q = Arranged(turns, places, TimeOrder(turns)),
         Timed(q), InTime(q)
  PROVE  Deduped(q, Len(q), Dedupe(turns, places))
<1> DEFINE N == Len(q)
           S == Seq(ToSet(q))
           step == [kept \in S |-> [n \in 1..N |-> Add(kept, q[n])]]
           start == << >>
<1>1. N \in Nat /\ \A n \in 1..N : q[n] \in ToSet(q)
  BY SeqPlaces DEF Timed, ToSet
<1>2. step \in [S -> [1..N -> S]] /\ start \in S
  <2>1. \A kept \in S, n \in 1..N : Add(kept, q[n]) \in S
    BY <1>1, AppendProperties DEF Add
  <2>2. QED
    BY <2>1, EmptySeq
<1>3. PICK g \in [0..N -> S] : Walked(g, N, start, step)
  <2> HIDE DEF N, S, step, start
  <2>1. N \in Nat
    BY <1>1
  <2>2. step \in [S -> [1..N -> S]]
    BY <1>2
  <2>3. start \in S
    BY <1>2
  <2>4. QED
    BY <2>1, <2>2, <2>3, Walk
<1> DEFINE Rec(f) == f = [n \in 0..N |-> IF n = 0 THEN << >> ELSE Add(f[n - 1], q[n])]
           F == CHOOSE f : Rec(f)
<1>4. Rec(F)
  <2> HIDE DEF N, S, step
  <2>2. \A n \in 1..N : g[n] = Add(g[n - 1], q[n])
    <3>1. SUFFICES ASSUME NEW n \in 1..N
                   PROVE  g[n] = Add(g[n - 1], q[n])
      OBVIOUS
    <3>2. n - 1 \in 0..N
      BY <1>1
    <3>3. g[n - 1] \in S
      BY <1>3, <3>2
    <3>4. QED
      BY <1>3, <3>3 DEF step, Walked
  <2>3. \A n \in 0..N : n = 0 \/ n \in 1..N
    OBVIOUS
  <2>4. Rec(g)
    BY <1>3, <2>2, <2>3 DEF Walked
  <2> HIDE DEF Rec
  <2>5. QED
    BY <2>4
<1>5. Dedupe(turns, places) = F[N]
  BY DEF Dedupe, TimeOrder
<1> HIDE DEF F
<1>6. F[0] = << >> /\ \A n \in 1..N : F[n] = Add(F[n - 1], q[n])
  <2>1. \A n \in 1..N : n \in 0..N /\ n # 0
    OBVIOUS
  <2>2. 0 \in 0..N
    BY <1>1
  <2> HIDE DEF N
  <2>3. QED
    BY <1>4, <2>1, <2>2
<1>7. Deduped(q, 0, << >>)
  BY EmptySeq DEF Deduped
<1> DEFINE Good == {n \in 1..N : Deduped(q, n, F[n])}
<1>8. \A n \in 1..N : n = 1 \/ n - 1 \in Good => n \in Good
  <2>1. SUFFICES ASSUME NEW n \in 1..N, n = 1 \/ n - 1 \in Good
                 PROVE  Deduped(q, n, F[n])
    OBVIOUS
  <2>2. Deduped(q, n - 1, F[n - 1])
    BY <1>6, <1>7, <2>1
  <2>3. QED
    BY <1>6, <2>2, AddKeeps
<1>9. 1..N \subseteq Good
  <2> HIDE DEF Good, N
  <2> QED
    BY <1>1, <1>8, UpTo
<1>10. QED
  <2>1. N = 0 \/ N \in 1..N
    BY <1>1
  <2>2. QED
    BY <1>5, <1>6, <1>7, <1>9, <2>1

LEMMA DedupeOf ==
  ASSUME NEW turns, Timed(turns), NEW places, places \subseteq DOMAIN turns,
         NEW d, d = Dedupe(turns, places)
  PROVE  /\ Timed(d) /\ InTime(d) /\ Distinct(d)
         /\ \A a \in DOMAIN d : \E i \in places : d[a] = turns[i]
         /\ InTime(turns) =>
              \A a, b \in DOMAIN d : a < b =>
                \E i, j \in DOMAIN turns : i < j /\ d[a] = turns[i] /\ d[b] = turns[j]
         /\ Distinct(turns) =>
              /\ \A i \in places : \E a \in DOMAIN d :
                   /\ Same(d[a], turns[i])
                   /\ \A b \in DOMAIN d : d[b].created < turns[i].created => b <= a
              /\ places # {} =>
                   /\ d # << >>
                   /\ \E i \in places : /\ Same(Last(d), turns[i])
                                        /\ \A j \in places : turns[j].created <= turns[i].created
<1> DEFINE N == Cardinality(places)
           q == Arranged(turns, places, TimeOrder(turns))
<1>1. N \in Nat
  BY ByTime
<1>2. PICK p \in [1..N -> places] :
        /\ q = [n \in 1..N |-> turns[p[n]]]
        /\ \A i \in places : \E n \in 1..N : p[n] = i
        /\ \A m, n \in 1..N : m < n =>
             /\ p[m] # p[n] /\ turns[p[m]].created <= turns[p[n]].created
             /\ InTime(turns) => p[m] < p[n]
  BY ByTime
<1> HIDE DEF N, q
<1>3. \A n \in 1..N : /\ p[n] \in places /\ p[n] \in DOMAIN turns /\ q[n] = turns[p[n]]
                      /\ turns[p[n]] \in ToSet(turns) /\ q[n].created \in Int
  <2>1. SUFFICES ASSUME NEW n \in 1..N
                 PROVE  /\ p[n] \in places /\ p[n] \in DOMAIN turns /\ q[n] = turns[p[n]]
                        /\ turns[p[n]] \in ToSet(turns) /\ q[n].created \in Int
    OBVIOUS
  <2>2. p[n] \in places /\ p[n] \in DOMAIN turns /\ q[n] = turns[p[n]]
    BY <1>2
  <2>3. turns[p[n]] \in ToSet(turns)
    BY <2>2 DEF ToSet
  <2>4. QED
    BY <2>2, <2>3 DEF Timed
<1>4. q \in Seq(ToSet(q)) /\ Len(q) = N /\ DOMAIN q = 1..N
  <2>1. DOMAIN q = 1..N
    BY <1>2
  <2>2. q \in [1..N -> ToSet(q)]
    BY <1>2, <2>1 DEF ToSet
  <2>3. q \in Seq(ToSet(q))
    BY <1>1, <2>2, SeqDef
  <2>4. QED
    BY <1>1, <2>1, <2>2, <2>3
<1>5. Timed(q) /\ InTime(q)
  <2>1. \A t \in ToSet(q) : t.created \in Int
    BY <1>3, <1>4 DEF ToSet
  <2>2. \A i, j \in 1..N : i < j => q[i].created <= q[j].created
    BY <1>2, <1>3
  <2>3. QED
    BY <1>4, <2>1, <2>2 DEF Timed, InTime
<1>6. Distinct(turns) => Distinct(q)
  <2>1. SUFFICES ASSUME Distinct(turns), NEW i \in 1..N, NEW j \in 1..N, i # j
                 PROVE  Key(q[i]) # Key(q[j])
    BY <1>4 DEF Distinct
  <2>2. i < j \/ j < i
    BY <1>1, <2>1
  <2>3. p[i] # p[j]
    BY <1>2, <2>2
  <2>4. QED
    BY <1>3, <2>1, <2>3 DEF Distinct
<1>7. Deduped(q, N, d)
  BY <1>4, <1>5, DedupeIs DEF q
<1>8. d \in Seq(ToSet(q)) /\ DOMAIN d = 1..Len(d) /\ Len(d) \in Nat
  BY <1>7, SeqPlaces DEF Deduped
<1>9. \A a \in DOMAIN d : \E n \in 1..N : d[a] = q[n]
  BY <1>7, <1>8 DEF Deduped
<1>10. ASSUME NEW a \in DOMAIN d, NEW b \in DOMAIN d, a < b
       PROVE  /\ \E m, n \in 1..N : m < n /\ d[a] = q[m] /\ d[b] = q[n]
              /\ Key(d[a]) # Key(d[b])
  <2>1. \A x, y \in 1..Len(d) : x < y =>
          /\ \E m, n \in 1..N : m < n /\ d[x] = q[m] /\ d[y] = q[n]
          /\ Key(d[x]) # Key(d[y])
    BY <1>7 DEF Deduped
  <2>2. QED
    BY <1>8, <1>10, <2>1
<1>11. Timed(d) /\ InTime(d) /\ Distinct(d)
  <2>1. d \in Seq(ToSet(d))
    BY <1>8, SeqPlaces
  <2>2. \A t \in ToSet(d) : t.created \in Int
    BY <1>3, <1>9 DEF ToSet
  <2>3. ASSUME NEW a \in DOMAIN d, NEW b \in DOMAIN d, a < b
        PROVE  d[a].created <= d[b].created
    <3>1. PICK m \in 1..N, n \in 1..N : m < n /\ d[a] = q[m] /\ d[b] = q[n]
      BY <1>10, <2>3
    <3>2. QED
      BY <1>4, <1>5, <3>1 DEF InTime
  <2>4. ASSUME NEW a \in DOMAIN d, NEW b \in DOMAIN d, a # b
        PROVE  Key(d[a]) # Key(d[b])
    <3>1. a < b \/ b < a
      BY <1>8, <2>4
    <3>2. QED
      BY <1>10, <3>1
  <2>5. QED
    BY <2>1, <2>2, <2>3, <2>4 DEF Timed, InTime, Distinct
<1>12. \A a \in DOMAIN d : \E i \in places : d[a] = turns[i]
  BY <1>3, <1>9
<1>13. ASSUME InTime(turns), NEW a \in DOMAIN d, NEW b \in DOMAIN d, a < b
       PROVE  \E i, j \in DOMAIN turns : i < j /\ d[a] = turns[i] /\ d[b] = turns[j]
  <2>1. PICK m \in 1..N, n \in 1..N : m < n /\ d[a] = q[m] /\ d[b] = q[n]
    BY <1>10, <1>13
  <2>2. p[m] < p[n]
    BY <1>2, <1>13, <2>1
  <2>3. QED
    BY <1>3, <2>1, <2>2
<1>14. ASSUME Distinct(turns), NEW i \in places
       PROVE  \E a \in DOMAIN d :
                /\ Same(d[a], turns[i])
                /\ \A b \in DOMAIN d : d[b].created < turns[i].created => b <= a
  <2>1. PICK n \in 1..N : p[n] = i
    BY <1>2
  <2>2. q[n] = turns[i]
    BY <1>3, <2>1
  <2>3. QED
    BY <1>6, <1>7, <1>8, <1>14, <2>2 DEF Deduped
<1>15. ASSUME Distinct(turns), places # {}
       PROVE  /\ d # << >>
              /\ \E i \in places : /\ Same(Last(d), turns[i])
                                   /\ \A j \in places : turns[j].created <= turns[i].created
  <2>1. N \in 1..N /\ N > 0
    BY <1>1, <1>2, <1>15
  <2>2. d # << >> /\ Same(Last(d), turns[p[N]])
    BY <1>3, <1>6, <1>7, <1>15, <2>1 DEF Deduped
  <2>3. ASSUME NEW j \in places
        PROVE  turns[j].created <= turns[p[N]].created
    <3>1. PICK n \in 1..N : p[n] = j
      BY <1>2
    <3>2. n = N \/ n < N
      BY <1>1
    <3>3. turns[p[N]].created \in Int
      BY <1>3, <2>1
    <3>4. QED
      BY <1>2, <2>1, <3>1, <3>2, <3>3
  <2>4. QED
    BY <1>3, <2>1, <2>2, <2>3
<1>16. QED
  BY <1>11, <1>12, <1>13, <1>14, <1>15

\* The slice s[-n:] of a sequence is its last members.
LEMMA LastOfIs ==
  ASSUME NEW S, NEW s \in Seq(S), NEW n \in Nat \ {0}
  PROVE  \E k \in 0..Len(s) :
           /\ LastOf(s, n) \in Seq(ToSet(s)) /\ Len(LastOf(s, n)) = Len(s) - k
           /\ \A i \in 1..Len(s) - k : LastOf(s, n)[i] = s[k + i]
           /\ s # << >> => k < Len(s)
<1>1. Len(s) \in Nat /\ \A i \in 1..Len(s) : s[i] \in ToSet(s)
  BY SeqPlaces DEF ToSet
<1>2. CASE Len(s) <= n
  <2>1. 0 \in 0..Len(s) /\ s \in Seq(ToSet(s)) /\ \A i \in 1..Len(s) : s[0 + i] = s[i]
    BY <1>1, SeqPlaces
  <2>2. s # << >> => 0 < Len(s)
    BY <1>1
  <2>3. QED
    BY <1>1, <1>2, <2>1, <2>2 DEF LastOf
<1>3. CASE ~(Len(s) <= n)
  <2> DEFINE k == Len(s) - n
             r == SubSeq(s, k + 1, Len(s))
  <2>1. k \in 0..Len(s) /\ k < Len(s) /\ k + 1 \in Int /\ Len(s) \in Int /\ k + 1 <= Len(s)
    BY <1>1, <1>3
  <2>2. \A i \in k + 1..Len(s) : s[i] \in ToSet(s)
    BY <1>1, <2>1
  <2>3. r = LastOf(s, n)
    BY <1>3 DEF LastOf
  <2> HIDE DEF k
  <2>4. /\ r \in Seq(ToSet(s))
        /\ Len(r) = IF k + 1 <= Len(s) THEN Len(s) - (k + 1) + 1 ELSE 0
        /\ \A i \in 1..Len(s) - (k + 1) + 1 : r[i] = s[(k + 1) + i - 1]
    BY <2>1, <2>2, SubSeqProperties
  <2>5. Len(r) = Len(s) - k /\ \A i \in 1..Len(s) - k : r[i] = s[k + i]
    BY <1>1, <2>1, <2>4
  <2> HIDE DEF r
  <2>6. QED
    BY <2>1, <2>3, <2>4, <2>5
<1>4. QED
  BY <1>2, <1>3
------------------------------------------------------------------------------
(* The turns the builder keeps. *)

Recents(turns) ==
  /\ Timed(turns) /\ InTime(turns) /\ Distinct(turns)
  /\ \A t \in ToSet(turns) : IsFiniteSet(t.text)

\* s is what d ends with, from place k + 1.
EndOf(s, d, k) ==
  /\ k \in 0..Len(d) /\ s \in Seq(ToSet(d)) /\ Len(s) = Len(d) - k
  /\ \A i \in 1..Len(d) - k : s[i] = d[k + i]
  /\ d # << >> => k < Len(d)

LEMMA EndOfRecents ==
  ASSUME NEW d, Recents(d), NEW s, NEW k, EndOf(s, d, k)
  PROVE  Recents(s)
<1>1. Len(d) \in Nat /\ DOMAIN d = 1..Len(d)
  BY SeqPlaces DEF Recents, Timed
<1>2. DOMAIN s = 1..Len(d) - k /\ s \in Seq(ToSet(s)) /\ ToSet(s) \subseteq ToSet(d)
  BY SeqPlaces DEF EndOf
<1>3. \A i \in DOMAIN s : k + i \in DOMAIN d /\ s[i] = d[k + i] /\ i \in Int /\ k \in Int
  BY <1>1, <1>2 DEF EndOf
<1>4. Timed(s)
  BY <1>2 DEF Recents, Timed
<1>5. InTime(s)
  <2>1. SUFFICES ASSUME NEW i \in DOMAIN s, NEW j \in DOMAIN s, i < j
                 PROVE  s[i].created <= s[j].created
    BY DEF InTime
  <2>2. k + i < k + j
    BY <1>3, <2>1
  <2>3. QED
    BY <1>3, <2>2 DEF Recents, InTime
<1>6. Distinct(s)
  <2>1. SUFFICES ASSUME NEW i \in DOMAIN s, NEW j \in DOMAIN s, i # j
                 PROVE  Key(s[i]) # Key(s[j])
    BY DEF Distinct
  <2>2. k + i # k + j
    BY <1>3, <2>1
  <2>3. QED
    BY <1>3, <2>2 DEF Recents, Distinct
<1>7. QED
  BY <1>2, <1>4, <1>5, <1>6 DEF Recents

LEMMA DedupeRecents ==
  ASSUME NEW turns, Timed(turns), \A t \in ToSet(turns) : IsFiniteSet(t.text),
         NEW places, places \subseteq DOMAIN turns
  PROVE  Recents(Dedupe(turns, places))
<1> DEFINE d == Dedupe(turns, places)
<1>1. /\ Timed(d) /\ InTime(d) /\ Distinct(d)
      /\ \A a \in DOMAIN d : \E i \in places : d[a] = turns[i]
  BY DedupeOf
<1> HIDE DEF d
<1>2. \A t \in ToSet(d) : t \in ToSet(turns)
  BY <1>1 DEF ToSet
<1>3. QED
  BY <1>1, <1>2 DEF Recents, d

\* remember_complete_turn keeps the turns in the shape in which it found them.
LEMMA RememberedRecents ==
  ASSUME Recents(recent), NEW t, NEW question, IsFiniteSet(question),
         NEW text, IsFiniteSet(text), NEW status, Remembered(t, question, text, status)
  PROVE  Recents(recent)'
<1> DEFINE pair == Exchange(t, question, text, status)
           all == recent \o pair
           now == IF recent = << >> THEN 1 ELSE Last(recent).created + 1
           S == ToSet(recent) \cup {pair[1], pair[2]}
<1>1. now \in Int
  <2>1. CASE recent = << >>
    BY <2>1
  <2>2. CASE recent # << >>
    <3>1. Len(recent) \in 1..Len(recent) /\ DOMAIN recent = 1..Len(recent)
      BY <2>2, SeqPlaces DEF Recents, Timed
    <3>2. Last(recent) \in ToSet(recent)
      BY <3>1 DEF Last, ToSet
    <3>3. QED
      BY <2>2, <3>2 DEF Recents, Timed
  <2>3. QED
    BY <2>1, <2>2
<1>2. /\ pair = <<pair[1], pair[2]>>
      /\ pair[1].text = question /\ pair[2].text = text
      /\ pair[1].created = now /\ pair[2].created = now + 1
  BY DEF Exchange
<1>3. recent' = Kept(Dedupe(all, DOMAIN all))
  BY DEF Remembered
<1> HIDE DEF pair, now
<1>4. pair \in Seq(S) /\ recent \in Seq(S)
  <2>1. recent \in Seq(ToSet(recent))
    BY DEF Recents, Timed
  <2>2. recent \in Seq(S)
    BY <2>1, SeqMonotonic
  <2>3. <<pair[1], pair[2]>> \in Seq(S)
    OBVIOUS
  <2>4. QED
    BY <1>2, <2>2, <2>3
<1> HIDE DEF S
<1>5. all \in Seq(S)
  BY <1>4, ConcatProperties
<1> HIDE DEF all
<1>6. all \in Seq(ToSet(all)) /\ ToSet(all) \subseteq S
  BY <1>5, SeqPlaces
<1>7. \A u \in S : u.created \in Int /\ IsFiniteSet(u.text)
  BY <1>1, <1>2 DEF S, Recents, Timed
<1>8. Recents(Dedupe(all, DOMAIN all))
  BY <1>6, <1>7, DedupeRecents DEF Timed
<1> DEFINE d == Dedupe(all, DOMAIN all)
<1>9. d \in Seq(ToSet(d))
  BY <1>8 DEF Recents, Timed
<1> HIDE DEF d
<1>10. \E k : EndOf(Kept(d), d, k)
  <2>1. MaxRecent \in Nat \ {0}
    BY PromptAssumption
  <2>2. QED
    BY <1>9, <2>1, LastOfIs DEF Kept, EndOf
<1>11. QED
  BY <1>3, <1>8, <1>10, EndOfRecents DEF d

\* What a request is built from.
FitPlaces(question) == {i \in DOMAIN recent : Fit(recent[i]) /\ recent[i].text # question}

LEMMA SelectedIs ==
  ASSUME Recents(recent), NEW question
  PROVE  LET d == Dedupe(recent, FitPlaces(question))
         IN  Recents(d) /\ \E k : EndOf(SelectRecent(question), d, k)
<1> DEFINE d == Dedupe(recent, FitPlaces(question))
<1>1. Recents(d)
  BY DedupeRecents DEF Recents, FitPlaces
<1>2. \E n \in {MaxRecent, 2 * MinExchanges} : SelectRecent(question) = LastOf(d, n)
  BY DEF SelectRecent, FitPlaces
<1>3. {MaxRecent, 2 * MinExchanges} \subseteq Nat \ {0}
  BY PromptAssumption
<1> HIDE DEF d
<1>4. \E k : EndOf(SelectRecent(question), d, k)
  <2>1. PICK n \in Nat \ {0} : SelectRecent(question) = LastOf(d, n)
    BY <1>2, <1>3
  <2>2. d \in Seq(ToSet(d))
    BY <1>1 DEF Recents, Timed
  <2>3. QED
    BY <2>1, <2>2, LastOfIs DEF EndOf
<1>5. QED
  BY <1>1, <1>4 DEF d
------------------------------------------------------------------------------
(* The memories of a request. *)

\* a is tried before b: by rank, then by place.
Over(a, b) ==
  \/ a[1] > b[1]
  \/ a[1] = b[1] /\ a[2] > b[2]
  \/ a[1] = b[1] /\ a[2] = b[2] /\ a[3] > b[3]
  \/ a[1] = b[1] /\ a[2] = b[2] /\ a[3] = b[3] /\ a[4] > b[4]
Ahead(a, b) == Over(a, b) \/ (~Over(b, a) /\ a[5] < b[5])

LEMMA AboveIs ==
  ASSUME NEW a, NEW b
  PROVE  Above(a, b) <=> Over(a, b)
<1> DEFINE First(i) == a[i] > b[i] /\ \A j \in 1..i - 1 : a[j] = b[j]
<1>1. Above(a, b) <=> \E i \in 1..4 : First(i)
  BY DEF Above
<1>2. 1..4 = {1, 2, 3, 4}
  OBVIOUS
<1>3. First(1) <=> a[1] > b[1]
  <2>1. 1..1 - 1 = {}
    OBVIOUS
  <2>2. QED
    BY <2>1
<1>4. First(2) <=> a[1] = b[1] /\ a[2] > b[2]
  <2>1. 1..2 - 1 = {1}
    OBVIOUS
  <2>2. QED
    BY <2>1
<1>5. First(3) <=> a[1] = b[1] /\ a[2] = b[2] /\ a[3] > b[3]
  <2>1. 1..3 - 1 = {1, 2}
    OBVIOUS
  <2>2. QED
    BY <2>1
<1>6. First(4) <=> a[1] = b[1] /\ a[2] = b[2] /\ a[3] = b[3] /\ a[4] > b[4]
  <2>1. 1..4 - 1 = {1, 2, 3}
    OBVIOUS
  <2>2. QED
    BY <2>1
<1> HIDE DEF First
<1>7. QED
  BY <1>1, <1>2, <1>3, <1>4, <1>5, <1>6 DEF Over

LEMMA AheadIsTransitive ==
  ASSUME NEW a, NEW b, NEW c, \A n \in 1..5 : a[n] \in Int /\ b[n] \in Int /\ c[n] \in Int,
         Ahead(a, b), Ahead(b, c)
  PROVE  Ahead(a, c)
<1> DEFINE Ints(x) == x[1] \in Int /\ x[2] \in Int /\ x[3] \in Int /\ x[4] \in Int /\ x[5] \in Int
           Alike(x, y) == x[1] = y[1] /\ x[2] = y[2] /\ x[3] = y[3] /\ x[4] = y[4]
<1>1. Ints(a) /\ Ints(b) /\ Ints(c)
  OBVIOUS
<1>2. \A x, y : Ints(x) /\ Ints(y) => (~Over(x, y) /\ ~Over(y, x) <=> Alike(x, y))
  BY DEF Over
<1>3. Over(a, b) \/ (Alike(a, b) /\ a[5] < b[5])
  BY <1>1, <1>2 DEF Ahead
<1>4. Over(b, c) \/ (Alike(b, c) /\ b[5] < c[5])
  BY <1>1, <1>2 DEF Ahead
<1>5. Over(a, b) /\ Over(b, c) => Over(a, c)
  BY <1>1 DEF Over
<1>6. Over(a, b) /\ Alike(b, c) => Over(a, c)
  BY <1>1 DEF Over
<1>7. Alike(a, b) /\ Over(b, c) => Over(a, c)
  BY <1>1 DEF Over
<1>8. Alike(a, b) /\ Alike(b, c) => Alike(a, c)
  OBVIOUS
<1>9. a[5] < b[5] /\ b[5] < c[5] => a[5] < c[5]
  BY <1>1
<1>10. Alike(a, c) => ~Over(c, a)
  BY <1>1, <1>2
<1> HIDE DEF Alike
<1>11. QED
  BY <1>3, <1>4, <1>5, <1>6, <1>7, <1>8, <1>9, <1>10 DEF Ahead

LEMMA RelevanceInt ==
  ASSUME NEW b, NEW question
  PROVE  Relevance(b, question) \in Int
BY DEF Relevance, Intent, Profile

\* The blocks of the session and of the turn, in the order in which they are tried.
Higher(all, question) == Stable(all, LAMBDA a, b : Above(Rank(a, question), Rank(b, question)))

LEMMA HigherIsOrder ==
  ASSUME NEW all, all \in Seq(ToSet(all)), NEW question,
         \A b \in ToSet(all) : {b.importance, b.confidence, b.updated} \subseteq Int,
         NEW places, places \subseteq DOMAIN all
  PROVE  OrderOf(Higher(all, question), places) /\ IsFiniteSet(places)
<1> DEFINE v(i) == <<Relevance(all[i], question), all[i].importance, all[i].confidence,
                     all[i].updated, i>>
<1>1. Len(all) \in Nat /\ DOMAIN all = 1..Len(all)
  BY SeqPlaces
<1>2. \A i \in places : /\ i \in DOMAIN all /\ i \in Int
                        /\ Relevance(all[i], question) \in Int /\ all[i].importance \in Int
                        /\ all[i].confidence \in Int /\ all[i].updated \in Int
  <2>1. \A i \in places : i \in DOMAIN all /\ i \in Int /\ all[i] \in ToSet(all)
    BY <1>1 DEF ToSet
  <2>2. QED
    BY <2>1, RelevanceInt
<1>3. \A i, j \in places :
        Above(Rank(all[i], question), Rank(all[j], question)) <=> Over(v(i), v(j))
  <2>1. SUFFICES ASSUME NEW i \in places, NEW j \in places
                 PROVE  Above(Rank(all[i], question), Rank(all[j], question)) <=> Over(v(i), v(j))
    OBVIOUS
  <2> DEFINE a == Rank(all[i], question)
             b == Rank(all[j], question)
  <2>2. \A n \in 1..4 : a[n] = v(i)[n] /\ b[n] = v(j)[n]
    BY DEF Rank
  <2> HIDE DEF a, b, v
  <2>3. Over(a, b) <=> Over(v(i), v(j))
    BY <2>2 DEF Over
  <2>4. Above(a, b) <=> Over(a, b)
    BY AboveIs
  <2>5. QED
    BY <2>3, <2>4 DEF a, b
<1>4. \A i, j \in places : <<i, j>> \in Higher(all, question) <=> Ahead(v(i), v(j))
  <2>1. SUFFICES ASSUME NEW i \in places, NEW j \in places
                 PROVE  <<i, j>> \in Higher(all, question) <=> Ahead(v(i), v(j))
    OBVIOUS
  <2>2. <<i, j>> \in Higher(all, question) <=>
          \/ Above(Rank(all[i], question), Rank(all[j], question))
          \/ ~Above(Rank(all[j], question), Rank(all[i], question)) /\ i < j
    BY DEF Higher, Stable
  <2>3. v(i)[5] = i /\ v(j)[5] = j
    OBVIOUS
  <2> HIDE DEF v
  <2>4. QED
    BY <1>3, <2>2, <2>3 DEF Ahead
<1>5. OrderOf(Higher(all, question), places)
  <2>1. ASSUME NEW i \in places
        PROVE  ~Ahead(v(i), v(i))
    BY <1>2 DEF Ahead, Over
  <2>2. ASSUME NEW i \in places, NEW j \in places, i # j
        PROVE  Ahead(v(i), v(j)) \/ Ahead(v(j), v(i))
    <3>1. v(i)[5] = i /\ v(j)[5] = j /\ (i < j \/ j < i)
      BY <1>2, <2>2
    <3> HIDE DEF v
    <3>2. QED
      BY <3>1 DEF Ahead
  <2>3. ASSUME NEW i \in places, NEW j \in places, NEW k \in places,
               Ahead(v(i), v(j)), Ahead(v(j), v(k))
        PROVE  Ahead(v(i), v(k))
    <3>1. ASSUME NEW x \in places
          PROVE  /\ v(x)[1] \in Int /\ v(x)[2] \in Int /\ v(x)[3] \in Int
                 /\ v(x)[4] \in Int /\ v(x)[5] \in Int
      BY <1>2
    <3>2. \A n \in 1..5 : n = 1 \/ n = 2 \/ n = 3 \/ n = 4 \/ n = 5
      OBVIOUS
    <3> HIDE DEF v
    <3>3. \A n \in 1..5 : v(i)[n] \in Int /\ v(j)[n] \in Int /\ v(k)[n] \in Int
      BY <3>1, <3>2
    <3>4. QED
      BY <2>3, <3>3, AheadIsTransitive
  <2> HIDE DEF v
  <2>4. \A i \in places : <<i, i>> \notin Higher(all, question)
    BY <1>4, <2>1
  <2>5. \A i, j \in places :
          i = j \/ <<i, j>> \in Higher(all, question) \/ <<j, i>> \in Higher(all, question)
    BY <1>4, <2>2
  <2>6. ASSUME NEW i \in places, NEW j \in places, NEW k \in places,
               <<i, j>> \in Higher(all, question), <<j, k>> \in Higher(all, question)
        PROVE  <<i, k>> \in Higher(all, question)
    BY <1>4, <2>3, <2>6
  <2>7. QED
    BY <2>4, <2>5, <2>6 DEF OrderOf
<1>6. IsFiniteSet(places)
  <2>1. IsFiniteSet(1..Len(all)) /\ places \in SUBSET (1..Len(all))
    BY <1>1, FS_Interval
  <2>2. QED
    BY <2>1, FS_Subset
<1>7. QED
  BY <1>5, <1>6

\* The selection of memories admits the eligible ones only.
LEMMA SelectedMemory ==
  ASSUME blocks \in Stored, NEW sent \in Packets, NEW question
  PROVE  \A i \in DOMAIN SelectMemory(question, sent) : Eligible(SelectMemory(question, sent)[i])
<1> DEFINE all == blocks \o sent
           S == ToSet(blocks) \cup ToSet(sent)
           places == {i \in DOMAIN all : Eligible(all[i])}
           ranked == Arranged(all, places, Higher(all, question))
           N == Len(ranked)
           Good == {b \in S : Eligible(b)}
           step == [chosen \in Seq(Good) |-> [n \in 1..N |-> Take(chosen, ranked[n], question)]]
<1>1. /\ all \in Seq(ToSet(all)) /\ ToSet(all) \subseteq S
      /\ \A b \in ToSet(all) : {b.importance, b.confidence, b.updated} \subseteq Int
  <2>1. /\ blocks \in Seq(ToSet(blocks)) /\ sent \in Seq(ToSet(sent))
        /\ \A b \in S : {b.importance, b.confidence, b.updated} \subseteq Int
    BY PromptAssumption
  <2>2. blocks \in Seq(S) /\ sent \in Seq(S)
    BY <2>1, SeqMonotonic
  <2> HIDE DEF S
  <2>3. all \in Seq(S)
    BY <2>2, ConcatProperties
  <2> HIDE DEF all
  <2>4. QED
    BY <2>1, <2>3, SeqPlaces
<1> HIDE DEF all, S
<1>2. /\ ranked \in Seq(Good) /\ N \in Nat /\ \A n \in 1..N : ranked[n] \in Good
  <2> DEFINE C == Cardinality(places)
  <2>1. OrderOf(Higher(all, question), places) /\ IsFiniteSet(places)
    <3>1. places \subseteq DOMAIN all
      OBVIOUS
    <3> HIDE DEF places
    <3>2. QED
      BY <1>1, <3>1, HigherIsOrder
  <2>2. /\ C \in Nat
        /\ \E p \in [1..C -> places] :
             /\ ranked = [n \in 1..C |-> all[p[n]]]
             /\ \A i \in places : \E n \in 1..C : p[n] = i
             /\ \A m, n \in 1..C : m < n => <<p[m], p[n]>> \in Higher(all, question)
    <3> HIDE DEF places
    <3> QED
      BY <2>1, ArrangedPlaces
  <2>3. PICK p \in [1..C -> places] : ranked = [n \in 1..C |-> all[p[n]]]
    BY <2>2
  <2>4. \A n \in 1..C : all[p[n]] \in Good
    <3>1. \A i \in places : all[i] \in ToSet(all) /\ Eligible(all[i])
      BY DEF ToSet
    <3> HIDE DEF places
    <3>2. \A n \in 1..C : p[n] \in places
      OBVIOUS
    <3>3. QED
      BY <1>1, <3>1, <3>2
  <2> HIDE DEF C, Good, ranked
  <2>5. ranked \in [1..C -> Good]
    BY <2>3, <2>4
  <2>6. ranked \in Seq(Good)
    BY <2>2, <2>5, SeqDef
  <2>7. QED
    BY <2>6, LenProperties
<1> HIDE DEF ranked, Good
<1>3. \A chosen \in Seq(Good), n \in 1..N : Take(chosen, ranked[n], question) \in Seq(Good)
  BY <1>2, AppendProperties DEF Take
<1>4. step \in [Seq(Good) -> [1..N -> Seq(Good)]] /\ << >> \in Seq(Good)
  BY <1>3, EmptySeq
<1>5. PICK g \in [0..N -> Seq(Good)] : Walked(g, N, << >>, step)
  <2> HIDE DEF N, step
  <2>1. QED
    BY <1>2, <1>4, Walk
<1> DEFINE Rec(f) == f = [n \in 0..N |->
                            IF n = 0 THEN << >> ELSE Take(f[n - 1], ranked[n], question)]
           F == CHOOSE f : Rec(f)
<1>6. Rec(F)
  <2> HIDE DEF N, step
  <2>1. \A n \in 1..N : g[n] = Take(g[n - 1], ranked[n], question)
    <3>1. SUFFICES ASSUME NEW n \in 1..N
                   PROVE  g[n] = Take(g[n - 1], ranked[n], question)
      OBVIOUS
    <3>2. n - 1 \in 0..N
      BY <1>2
    <3>3. g[n - 1] \in Seq(Good)
      BY <1>5, <3>2
    <3>4. QED
      BY <1>5, <3>3 DEF step, Walked
  <2>2. \A n \in 0..N : n = 0 \/ n \in 1..N
    OBVIOUS
  <2>3. Rec(g)
    BY <1>5, <2>1, <2>2 DEF Walked
  <2> HIDE DEF Rec
  <2>4. QED
    BY <2>3
<1>7. SelectMemory(question, sent) = F[N]
  BY DEF SelectMemory, Higher, ranked, all
<1> HIDE DEF F
<1>8. F[0] = << >> /\ \A n \in 1..N : F[n] = Take(F[n - 1], ranked[n], question)
  <2>1. \A n \in 1..N : n \in 0..N /\ n # 0
    OBVIOUS
  <2>2. 0 \in 0..N
    BY <1>2
  <2> HIDE DEF N
  <2>3. QED
    BY <1>6, <2>1, <2>2
<1> DEFINE Held == {n \in 1..N : F[n] \in Seq(Good)}
<1>9. \A n \in 1..N : n = 1 \/ n - 1 \in Held => n \in Held
  <2>1. SUFFICES ASSUME NEW n \in 1..N, n = 1 \/ n - 1 \in Held
                 PROVE  F[n] \in Seq(Good)
    OBVIOUS
  <2>2. CASE n = 1
    <3>1. n - 1 = 0
      BY <2>2
    <3>2. F[n - 1] = << >>
      BY <1>8, <3>1
    <3>3. F[n] = Take(<< >>, ranked[n], question)
      BY <1>8, <3>2
    <3>4. QED
      BY <1>4, <1>3, <3>3
  <2>3. CASE n - 1 \in Held
    BY <1>8, <1>3, <2>3
  <2>4. QED
    BY <2>1, <2>2, <2>3
<1>10. 1..N \subseteq Held
  <2> HIDE DEF Held, N
  <2> QED
    BY <1>2, <1>9, UpTo
<1>11. F[N] \in Seq(Good)
  <2>1. N = 0 \/ N \in 1..N
    BY <1>2
  <2>2. QED
    BY <1>8, <1>10, <2>1, EmptySeq
<1>12. \A i \in DOMAIN F[N] : F[N][i] \in Good
  BY <1>11, LenProperties
<1>13. QED
  BY <1>7, <1>12 DEF Good
------------------------------------------------------------------------------
(* Trimming. *)

LEMMA SizeOfThree ==
  ASSUME NEW a, NEW b, NEW c, a.size \in Int, b.size \in Int, c.size \in Int
  PROVE  SizeOf(<<a, b, c>>) = a.size + b.size + c.size
<1> DEFINE s == [i \in DOMAIN <<a, b, c>> |-> <<a, b, c>>[i].size]
           Rec(f) == f = [n \in 0..Len(s) |-> IF n = 0 THEN 0 ELSE f[n - 1] + s[n]]
           F == CHOOSE f : Rec(f)
           g == [n \in 0..3 |-> IF n = 0 THEN 0
                                ELSE IF n = 1 THEN 0 + a.size
                                ELSE IF n = 2 THEN 0 + a.size + b.size
                                ELSE 0 + a.size + b.size + c.size]
<1>1. SizeOf(<<a, b, c>>) = F[Len(s)]
  BY DEF SizeOf, Total
<1>2. s[1] = a.size /\ s[2] = b.size /\ s[3] = c.size /\ Len(s) = 3
  <2>1. DOMAIN <<a, b, c>> = 1..3
    OBVIOUS
  <2>2. s = [i \in 1..3 |-> <<a, b, c>>[i].size]
    BY <2>1
  <2>3. s[1] = a.size /\ s[2] = b.size /\ s[3] = c.size
    BY <2>2
  <2>4. s \in [1..3 -> {a.size, b.size, c.size}]
    BY <2>2, <2>3
  <2> HIDE DEF s
  <2>5. s \in Seq({a.size, b.size, c.size})
    BY <2>4, SeqDef
  <2>6. Len(s) \in Nat /\ DOMAIN s = 1..Len(s) /\ DOMAIN s = 1..3
    BY <2>4, <2>5, LenProperties
  <2>7. 1..Len(s) = 1..3
    BY <2>6
  <2>8. Len(s) = 3
    BY <2>6, <2>7
  <2>9. QED
    BY <2>3, <2>8
<1> HIDE DEF s
<1>3. Rec(g)
  <2>1. g[0] = 0 /\ g[1] = g[0] + s[1] /\ g[2] = g[1] + s[2] /\ g[3] = g[2] + s[3]
    BY <1>2
  <2>2. \A n \in 0..3 : n = 0 \/ n = 1 \/ n = 2 \/ n = 3
    OBVIOUS
  <2>3. \A n \in 0..3 : g[n] = IF n = 0 THEN 0 ELSE g[n - 1] + s[n]
    <3> HIDE DEF g
    <3>1. 1 - 1 = 0 /\ 2 - 1 = 1 /\ 3 - 1 = 2
      OBVIOUS
    <3>2. QED
      BY <2>1, <2>2, <3>1
  <2>4. g = [n \in 0..3 |-> g[n]]
    OBVIOUS
  <2> HIDE DEF g
  <2>5. QED
    BY <1>2, <2>3, <2>4
<1>4. Rec(F)
  <2> HIDE DEF Rec, g
  <2> QED
    BY <1>3
<1> HIDE DEF F, g
<1>5. F[0] = 0 /\ F[1] = F[0] + s[1] /\ F[2] = F[1] + s[2] /\ F[3] = F[2] + s[3]
  <2>1. F = [n \in 0..3 |-> IF n = 0 THEN 0 ELSE F[n - 1] + s[n]]
    BY <1>2, <1>4
  <2>2. \A n \in 0..3 : F[n] = IF n = 0 THEN 0 ELSE F[n - 1] + s[n]
    BY <2>1
  <2>3. QED
    BY <2>2
<1>6. QED
  BY <1>1, <1>2, <1>5

\* The instructions, the context, the turns of sel after the first k, the latest text.
Whole(b, sel, k, context, last) ==
  /\ b \in Seq(ToSet(b)) /\ Len(b) = Len(sel) - k + 3
  /\ b[1] = Persona /\ b[2] = context /\ b[Len(b)] = last
  /\ \A i \in 1..Len(sel) - k : b[2 + i] = Said(sel[k + i])

Newest(sel, last) == <<Persona, Said(Last(sel)), last>>

\* What trimming may leave of the messages.
Trimmed(b, sel, context, last) ==
  \/ \E k \in 0..Len(sel) : (sel # << >> => k < Len(sel)) /\ Whole(b, sel, k, context, last)
                            /\ SizeOf(b) <= MaxSize
  \/ sel # << >> /\ b = Newest(sel, last) /\ SizeOf(b) <= MaxSize
  \/ b = <<Persona, last>> /\ (sel # << >> => ~(SizeOf(Newest(sel, last)) <= MaxSize))

LEMMA WithoutOldestIs ==
  ASSUME NEW messages, NEW sel, sel \in Seq(ToSet(sel)), NEW context, NEW last,
         Whole(messages, sel, 0, context, last),
         NEW n \in 1..Max({Len(sel), 1})
  PROVE  /\ Max({Len(sel), 1}) \in Nat /\ n - 1 \in 0..Len(sel)
         /\ sel # << >> => n - 1 < Len(sel)
         /\ Whole(SubSeq(messages, 1, 2) \o SubSeq(messages, n + 2, Len(messages)),
                  sel, n - 1, context, last)
<1> DEFINE N == Len(sel)
           S == ToSet(messages)
           x == SubSeq(messages, 1, 2)
           y == SubSeq(messages, n + 2, Len(messages))
<1>1. N \in Nat /\ Len(messages) = N + 3 /\ \A i \in 1..N + 3 : messages[i] \in S
  BY SeqPlaces DEF Whole
<1>2. /\ Max({N, 1}) \in Nat /\ n - 1 \in 0..N /\ n \in 1..N + 1
      /\ sel # << >> => N > 0 /\ n - 1 < N
  <2>1. {N, 1} \in SUBSET (0..N + 1) /\ N + 1 \in Nat /\ {N, 1} # {}
    BY <1>1
  <2>2. Max({N, 1}) \in {N, 1} /\ \A m \in {N, 1} : m <= Max({N, 1})
    <3> HIDE DEF N
    <3> QED
      BY <2>1, MaxIs
  <2>3. sel # << >> => N > 0
    BY EmptySeq
  <2> HIDE DEF N
  <2>4. QED
    BY <1>1, <2>2, <2>3 DEF N
<1>3. x \in Seq(S) /\ Len(x) = 2 /\ x[1] = messages[1] /\ x[2] = messages[2]
  <2>1. \A i \in 1..2 : messages[i] \in S
    BY <1>1
  <2> HIDE DEF S
  <2>2. /\ x \in Seq(S) /\ Len(x) = IF 1 <= 2 THEN 2 - 1 + 1 ELSE 0
        /\ \A i \in 1..2 - 1 + 1 : x[i] = messages[1 + i - 1]
    BY <2>1, SubSeqProperties
  <2> HIDE DEF x
  <2>3. QED
    BY <2>2
<1>4. y \in Seq(S) /\ Len(y) = N - n + 2 /\ \A i \in 1..N - n + 2 : y[i] = messages[n + 1 + i]
  <2>1. /\ \A i \in n + 2..N + 3 : messages[i] \in S
        /\ n + 2 \in Int /\ N + 3 \in Int /\ n + 2 <= N + 3
    BY <1>1, <1>2
  <2> DEFINE m == n + 2
             l == Len(messages)
  <2>2. m \in Int /\ l \in Int /\ m <= l /\ l = N + 3 /\ \A i \in m..l : messages[i] \in S
    BY <1>1, <2>1
  <2> HIDE DEF S, m, l
  <2>3. /\ SubSeq(messages, m, l) \in Seq(S)
        /\ Len(SubSeq(messages, m, l)) = IF m <= l THEN l - m + 1 ELSE 0
        /\ \A i \in 1..l - m + 1 : SubSeq(messages, m, l)[i] = messages[m + i - 1]
    BY <2>2, SubSeqProperties
  <2>4. y = SubSeq(messages, m, l)
    BY DEF m, l
  <2> HIDE DEF y
  <2>5. l - m + 1 = N - n + 2 /\ \A i \in Int : m + i - 1 = n + 1 + i
    BY <1>1, <1>2, <2>2 DEF m
  <2>6. Len(y) = N - n + 2
    BY <2>2, <2>3, <2>4, <2>5
  <2>7. \A i \in 1..N - n + 2 : y[i] = messages[n + 1 + i]
    <3>1. SUFFICES ASSUME NEW i \in 1..N - n + 2
                   PROVE  y[i] = messages[n + 1 + i]
      OBVIOUS
    <3>2. i \in 1..l - m + 1 /\ m + i - 1 = n + 1 + i
      BY <2>5
    <3>3. y[i] = messages[m + i - 1]
      BY <2>3, <2>4, <3>2
    <3>4. QED
      BY <3>2, <3>3
  <2>8. QED
    BY <2>3, <2>4, <2>6, <2>7
<1> HIDE DEF x, y, S
<1> DEFINE b == x \o y
<1>5. /\ b \in Seq(S) /\ Len(b) = N - n + 4
      /\ \A i \in 1..N - n + 4 : b[i] = IF i <= 2 THEN x[i] ELSE y[i - 2]
  <2>1. /\ b \in Seq(S) /\ Len(b) = Len(x) + Len(y)
        /\ \A i \in 1..Len(x) + Len(y) : b[i] = IF i <= Len(x) THEN x[i] ELSE y[i - Len(x)]
    BY <1>3, <1>4, ConcatProperties
  <2>2. Len(x) + Len(y) = N - n + 4
    BY <1>1, <1>2, <1>3, <1>4
  <2> HIDE DEF b
  <2>3. QED
    BY <1>3, <2>1, <2>2
<1> HIDE DEF b
<1>6. b[1] = Persona /\ b[2] = context
  <2>1. 1 \in 1..N - n + 4 /\ 2 \in 1..N - n + 4 /\ 1 <= 2 /\ 2 <= 2
    BY <1>1, <1>2
  <2>2. b[1] = x[1] /\ b[2] = x[2]
    BY <1>5, <2>1
  <2>3. QED
    BY <1>3, <2>2 DEF Whole
<1>7. \A i \in 3..N - n + 4 : b[i] = messages[n - 1 + i]
  <2>1. SUFFICES ASSUME NEW i \in 3..N - n + 4
                 PROVE  b[i] = messages[n - 1 + i]
    OBVIOUS
  <2>2. i \in 1..N - n + 4 /\ ~(i <= 2) /\ i - 2 \in 1..N - n + 2 /\ n + 1 + (i - 2) = n - 1 + i
    BY <1>1, <1>2
  <2>3. QED
    BY <1>4, <1>5, <2>2
<1>8. b[N - n + 4] = last
  <2>1. N - n + 4 \in 3..N - n + 4 /\ n - 1 + (N - n + 4) = N + 3
    BY <1>1, <1>2
  <2>2. QED
    BY <1>1, <1>7, <2>1 DEF Whole
<1>9. \A i \in 1..N - (n - 1) : b[2 + i] = Said(sel[(n - 1) + i])
  <2>1. SUFFICES ASSUME NEW i \in 1..N - (n - 1)
                 PROVE  b[2 + i] = Said(sel[(n - 1) + i])
    OBVIOUS
  <2>2. 2 + i \in 3..N - n + 4 /\ n - 1 + (2 + i) = 2 + (n - 1 + i) /\ n - 1 + i \in 1..N - 0
    BY <1>1, <1>2
  <2>3. b[2 + i] = messages[2 + (n - 1 + i)]
    BY <1>7, <2>2
  <2>4. \A j \in 1..N - 0 : messages[2 + j] = Said(sel[0 + j])
    BY DEF Whole
  <2>5. 0 + (n - 1 + i) = n - 1 + i
    BY <1>1, <1>2
  <2>6. QED
    BY <2>2, <2>3, <2>4, <2>5
<1>10. b \in Seq(ToSet(b)) /\ Len(b) = N - (n - 1) + 3 /\ Len(b) = N - n + 4
  BY <1>1, <1>2, <1>5, SeqPlaces
<1>11. Whole(b, sel, n - 1, context, last)
  BY <1>6, <1>8, <1>9, <1>10 DEF Whole
<1>12. QED
  BY <1>2, <1>11 DEF b, x, y

LEMMA FirstAndEnd ==
  ASSUME NEW m, m \in Seq(ToSet(m)), NEW p
  PROVE  /\ Len(m) = 3 => <<p>> \o SubSeq(m, 3, 3) = <<p, m[3]>>
         /\ Len(m) = 4 => /\ <<p>> \o SubSeq(m, 3, 4) = <<p, m[3], m[4]>>
                          /\ <<p>> \o SubSeq(m, 4, 4) = <<p, m[4]>>
<1> DEFINE S == ToSet(m) \cup {p}
<1>1. \A i \in 1..Len(m) : m[i] \in S
  BY SeqPlaces DEF ToSet
<1>2. <<p>> \in Seq(S) /\ Len(<<p>>) = 1 /\ <<p>>[1] = p
  OBVIOUS
<1> HIDE DEF S
<1>3. ASSUME NEW k \in {3, 4}, k <= Len(m), Len(m) \in Int
      PROVE  /\ <<p>> \o SubSeq(m, k, k) = <<p, m[k]>>
  <2> DEFINE y == SubSeq(m, k, k)
  <2>1. k \in Int /\ \A i \in k..k : m[i] \in S
    BY <1>1, <1>3
  <2>2. /\ y \in Seq(S) /\ Len(y) = IF k <= k THEN k - k + 1 ELSE 0
        /\ \A i \in 1..k - k + 1 : y[i] = m[k + i - 1]
    BY <2>1, SubSeqProperties
  <2>3. Len(y) = 1 /\ y[1] = m[k]
    BY <2>1, <2>2
  <2>4. /\ <<p>> \o y \in Seq(S) /\ Len(<<p>> \o y) = Len(<<p>>) + Len(y)
        /\ \A i \in 1..Len(<<p>>) + Len(y) :
             (<<p>> \o y)[i] = IF i <= Len(<<p>>) THEN <<p>>[i] ELSE y[i - Len(<<p>>)]
    BY <1>2, <2>2, ConcatProperties
  <2> HIDE DEF y
  <2> DEFINE z == <<p>> \o y
  <2>5. Len(z) = 2 /\ z[1] = p /\ z[2] = m[k] /\ z \in Seq(S)
    BY <1>2, <2>3, <2>4
  <2>6. m[k] \in S /\ p \in S
    BY <1>1, <1>3 DEF S
  <2>7. <<p, m[k]>> \in Seq(S) /\ Len(<<p, m[k]>>) = 2
    BY <2>6
  <2> HIDE DEF z
  <2>8. \A i \in 1..2 : z[i] = <<p, m[k]>>[i]
    BY <2>5
  <2>9. z = <<p, m[k]>>
    BY <2>5, <2>7, <2>8, SeqEqual
  <2>10. QED
    BY <2>9 DEF z, y
<1>4. ASSUME Len(m) = 4
      PROVE  <<p>> \o SubSeq(m, 3, 4) = <<p, m[3], m[4]>>
  <2> DEFINE y == SubSeq(m, 3, 4)
  <2>1. \A i \in 3..4 : m[i] \in S
    BY <1>1, <1>4
  <2>2. /\ y \in Seq(S) /\ Len(y) = IF 3 <= 4 THEN 4 - 3 + 1 ELSE 0
        /\ \A i \in 1..4 - 3 + 1 : y[i] = m[3 + i - 1]
    BY <2>1, SubSeqProperties
  <2>3. Len(y) = 2 /\ y[1] = m[3] /\ y[2] = m[4]
    BY <2>2
  <2>4. /\ <<p>> \o y \in Seq(S) /\ Len(<<p>> \o y) = Len(<<p>>) + Len(y)
        /\ \A i \in 1..Len(<<p>>) + Len(y) :
             (<<p>> \o y)[i] = IF i <= Len(<<p>>) THEN <<p>>[i] ELSE y[i - Len(<<p>>)]
    BY <1>2, <2>2, ConcatProperties
  <2> HIDE DEF y
  <2> DEFINE z == <<p>> \o y
  <2>5. Len(z) = 3 /\ z[1] = p /\ z[2] = m[3] /\ z[3] = m[4] /\ z \in Seq(S)
    BY <1>2, <2>3, <2>4
  <2>6. m[3] \in S /\ m[4] \in S /\ p \in S
    BY <1>1, <1>4 DEF S
  <2>7. <<p, m[3], m[4]>> \in Seq(S) /\ Len(<<p, m[3], m[4]>>) = 3
    BY <2>6
  <2> HIDE DEF z
  <2>8. \A i \in 1..3 : z[i] = <<p, m[3], m[4]>>[i]
    BY <2>5
  <2>9. z = <<p, m[3], m[4]>>
    BY <2>5, <2>7, <2>8, SeqEqual
  <2>10. QED
    BY <2>9 DEF z, y
<1>5. QED
  BY <1>3, <1>4

LEMMA WithoutContextIs ==
  ASSUME NEW sel, sel \in Seq(ToSet(sel)), NEW context, NEW last, NEW m,
         NEW k, Whole(m, sel, k, context, last), k = Max({Len(sel), 1}) - 1
  PROVE  /\ sel = << >> => WithoutContext(m) = [n \in 1..1 |-> <<Persona, last>>]
         /\ sel # << >> => WithoutContext(m) =
                             [n \in 1..2 |-> IF n = 1 THEN Newest(sel, last) ELSE <<Persona, last>>]
<1> DEFINE N == Len(sel)
<1>1. N \in Nat /\ (sel = << >> => N = 0) /\ (sel # << >> => N > 0)
  BY EmptySeq, SeqPlaces
<1>2. (N = 0 => k = 0) /\ (N > 0 => k = N - 1)
  <2>1. {N, 1} \in SUBSET (0..N + 1) /\ N + 1 \in Nat /\ {N, 1} # {}
    BY <1>1
  <2>2. Max({N, 1}) \in {N, 1} /\ \A i \in {N, 1} : i <= Max({N, 1})
    <3> HIDE DEF N
    <3> QED
      BY <2>1, MaxIs
  <2> HIDE DEF N
  <2>3. QED
    BY <1>1, <2>2 DEF N
<1>3. m[1] = Persona /\ m \in Seq(ToSet(m)) /\ m[Len(m)] = last /\ Len(m) = N - k + 3
  BY DEF Whole
<1>4. CASE sel = << >>
  <2>1. Len(m) = 3 /\ m[3] = last /\ Len(m) - 2 = 1
    BY <1>1, <1>2, <1>3, <1>4
  <2>2. <<Persona>> \o SubSeq(m, 3, 3) = <<Persona, last>>
    BY <1>3, <2>1, FirstAndEnd
  <2>3. WithoutContext(m) = [n \in 1..1 |-> <<Persona>> \o SubSeq(m, n + 2, 3)]
    BY <1>3, <2>1 DEF WithoutContext
  <2>4. \A n \in 1..1 : n + 2 = 3
    OBVIOUS
  <2>5. \A n \in 1..1 : <<Persona>> \o SubSeq(m, n + 2, 3) = <<Persona, last>>
    BY <2>2, <2>4
  <2>6. QED
    BY <1>4, <2>3, <2>5
<1>5. CASE sel # << >>
  <2>1. Len(m) = 4 /\ m[4] = last /\ Len(m) - 2 = 2
    BY <1>1, <1>2, <1>3, <1>5
  <2>2. m[3] = Said(Last(sel))
    <3>1. 1 \in 1..N - k /\ 2 + 1 = 3 /\ k + 1 = N
      BY <1>1, <1>2, <1>5
    <3>2. m[2 + 1] = Said(sel[k + 1])
      BY <3>1 DEF Whole
    <3>3. QED
      BY <3>1, <3>2 DEF Last
  <2>3. /\ <<Persona>> \o SubSeq(m, 3, 4) = Newest(sel, last)
        /\ <<Persona>> \o SubSeq(m, 4, 4) = <<Persona, last>>
    BY <1>3, <2>1, <2>2, FirstAndEnd DEF Newest
  <2>4. WithoutContext(m) = [n \in 1..2 |-> <<Persona>> \o SubSeq(m, n + 2, 4)]
    BY <1>3, <2>1 DEF WithoutContext
  <2>5. \A n \in 1..2 : (n = 1 => n + 2 = 3) /\ (n # 1 => n + 2 = 4)
    OBVIOUS
  <2>6. \A n \in 1..2 : <<Persona>> \o SubSeq(m, n + 2, 4) =
                          IF n = 1 THEN Newest(sel, last) ELSE <<Persona, last>>
    BY <2>3, <2>5
  <2>7. QED
    BY <1>5, <2>4, <2>6
<1>6. QED
  BY <1>4, <1>5

\* The first of the candidates that fits, or the last one.
LEMMA BoundedIs ==
  ASSUME NEW sel, sel \in Seq(ToSet(sel)), NEW context, NEW last, NEW messages,
         Whole(messages, sel, 0, context, last)
  PROVE  Trimmed(Bounded(messages), sel, context, last)
<1> DEFINE N == Len(sel)
           D == Max({N, 1})
           shorter == WithoutOldest(messages)
           W == WithoutContext(Last(shorter))
           all == shorter \o W
           E == IF sel = << >> THEN 1 ELSE 2
           S == {shorter[n] : n \in 1..D} \cup {W[n] : n \in 1..E}
           fitting == {n \in DOMAIN all : SizeOf(all[n]) <= MaxSize}
<1>1. N \in Nat /\ Len(messages) - 3 = N
  BY SeqPlaces DEF Whole
<1>2. D \in Nat /\ D >= 1
  <2>1. {N, 1} \in SUBSET (0..N + 1) /\ N + 1 \in Nat /\ {N, 1} # {}
    BY <1>1
  <2>2. D \in {N, 1} /\ \A i \in {N, 1} : i <= D
    <3> HIDE DEF N
    <3> QED
      BY <2>1, MaxIs
  <2> HIDE DEF N, D
  <2>3. QED
    BY <1>1, <2>2
<1>3. shorter = [n \in 1..D |-> SubSeq(messages, 1, 2) \o SubSeq(messages, n + 2, Len(messages))]
  BY <1>1 DEF WithoutOldest
<1>4. ASSUME NEW n \in 1..D
      PROVE  /\ n - 1 \in 0..N /\ (sel # << >> => n - 1 < N)
             /\ Whole(shorter[n], sel, n - 1, context, last)
  <2>1. shorter[n] = SubSeq(messages, 1, 2) \o SubSeq(messages, n + 2, Len(messages))
    BY <1>3
  <2> HIDE DEF shorter
  <2>2. QED
    BY <2>1, WithoutOldestIs
<1> HIDE DEF shorter, D
<1>5. shorter \in Seq(S) /\ Len(shorter) = D
  <2>1. shorter \in [1..D -> S]
    BY <1>3
  <2> HIDE DEF S
  <2>2. shorter \in Seq(S)
    BY <1>2, <2>1, SeqDef
  <2>3. Len(shorter) \in Nat /\ 1..Len(shorter) = 1..D
    BY <2>1, <2>2, LenProperties
  <2>4. QED
    BY <1>2, <2>2, <2>3
<1>6. Whole(Last(shorter), sel, D - 1, context, last)
  BY <1>2, <1>4, <1>5 DEF Last
<1>7. /\ sel = << >> => W = [n \in 1..1 |-> <<Persona, last>>]
      /\ sel # << >> => W = [n \in 1..2 |-> IF n = 1 THEN Newest(sel, last) ELSE <<Persona, last>>]
  <2>1. D - 1 = Max({Len(sel), 1}) - 1
    BY DEF D
  <2> DEFINE m == Last(shorter)
             k == D - 1
  <2>2. Whole(m, sel, k, context, last) /\ k = Max({Len(sel), 1}) - 1
    BY <1>6, <2>1
  <2> HIDE DEF m, k
  <2>3. /\ sel = << >> => WithoutContext(m) = [n \in 1..1 |-> <<Persona, last>>]
        /\ sel # << >> => WithoutContext(m) =
                            [n \in 1..2 |-> IF n = 1 THEN Newest(sel, last) ELSE <<Persona, last>>]
    BY <2>2, WithoutContextIs
  <2>4. QED
    BY <2>3 DEF m
<1> HIDE DEF W
<1>8. W \in Seq(S) /\ Len(W) = E
  <2>1. W \in [1..E -> S]
    BY <1>7
  <2>2. E \in Nat
    OBVIOUS
  <2> HIDE DEF S, E
  <2>3. W \in Seq(S)
    BY <2>1, <2>2, SeqDef
  <2>4. Len(W) \in Nat /\ 1..Len(W) = 1..E
    BY <2>1, <2>3, LenProperties
  <2>5. QED
    BY <2>2, <2>3, <2>4
<1> HIDE DEF S
<1>9. /\ all \in Seq(S) /\ Len(all) = D + E /\ DOMAIN all = 1..D + E
      /\ \A n \in 1..D : all[n] = shorter[n]
      /\ \A n \in 1..E : all[D + n] = W[n]
  <2>1. /\ all \in Seq(S) /\ Len(all) = Len(shorter) + Len(W)
        /\ \A i \in 1..Len(shorter) + Len(W) :
             all[i] = IF i <= Len(shorter) THEN shorter[i] ELSE W[i - Len(shorter)]
    BY <1>5, <1>8, ConcatProperties
  <2> HIDE DEF all
  <2>2. DOMAIN all = 1..Len(all)
    BY <2>1, LenProperties
  <2>3. E \in {1, 2}
    OBVIOUS
  <2> HIDE DEF E
  <2>4. QED
    BY <1>2, <1>5, <1>8, <2>1, <2>2, <2>3
<1>10. Bounded(messages) = IF fitting = {} THEN Last(all) ELSE all[Min(fitting)]
  BY DEF Bounded, shorter, W
<1> HIDE DEF all
<1>11. PICK n \in 1..D + E : /\ Bounded(messages) = all[n]
                             /\ SizeOf(all[n]) <= MaxSize \/ n = D + E
                             /\ \A m \in 1..D + E : m < n => ~(SizeOf(all[m]) <= MaxSize)
  <2>1. D + E \in 1..D + E /\ D + E \in Nat
    BY <1>2
  <2>2. CASE fitting = {}
    <3>1. \A m \in 1..D + E : ~(SizeOf(all[m]) <= MaxSize)
      BY <1>9, <2>2
    <3>2. Bounded(messages) = all[D + E]
      BY <1>9, <1>10, <2>2 DEF Last
    <3>3. QED
      BY <2>1, <3>1, <3>2
  <2>3. CASE fitting # {}
    <3>1. fitting \in SUBSET Nat
      BY <1>9
    <3>2. Min(fitting) \in fitting /\ \A m \in fitting : Min(fitting) <= m
      <4> HIDE DEF fitting
      <4> QED
        BY <2>3, <3>1, MinIs
    <3>3. Min(fitting) \in 1..D + E /\ SizeOf(all[Min(fitting)]) <= MaxSize
      BY <1>9, <3>2
    <3>4. \A m \in 1..D + E : m < Min(fitting) => ~(SizeOf(all[m]) <= MaxSize)
      <4>1. SUFFICES ASSUME NEW m \in 1..D + E, m < Min(fitting), SizeOf(all[m]) <= MaxSize
                     PROVE  FALSE
        OBVIOUS
      <4>2. m \in fitting
        BY <1>9, <4>1
      <4>3. m \in Int
        BY <1>2
      <4>4. Min(fitting) \in Int
        BY <1>2, <3>3
      <4> HIDE DEF fitting
      <4>5. Min(fitting) <= m
        BY <3>2, <4>2
      <4>6. QED
        BY <4>1, <4>3, <4>4, <4>5
    <3>5. QED
      BY <1>10, <2>3, <3>3, <3>4
  <2>4. QED
    BY <2>2, <2>3
<1> HIDE DEF fitting
<1>12. CASE n <= D
  <2>1. n \in 1..D /\ n # D + E
    BY <1>2, <1>12
  <2>2. all[n] = shorter[n] /\ SizeOf(all[n]) <= MaxSize
    BY <1>9, <1>11, <2>1
  <2>3. QED
    BY <1>4, <1>11, <2>1, <2>2 DEF Trimmed
<1>13. CASE ~(n <= D)
  <2>1. CASE sel = << >>
    <3>1. n = D + 1 /\ E = 1 /\ 1 \in 1..1
      BY <1>2, <1>13, <2>1
    <3>2. all[n] = <<Persona, last>>
      BY <1>7, <1>9, <2>1, <3>1
    <3>3. QED
      BY <1>11, <2>1, <3>2 DEF Trimmed
  <2>2. CASE sel # << >>
    <3>1. E = 2 /\ (n = D + 1 \/ n = D + 2)
      BY <1>2, <1>13, <2>2
    <3>2. all[D + 1] = Newest(sel, last) /\ all[D + 2] = <<Persona, last>>
      BY <1>7, <1>9, <2>2, <3>1
    <3>3. CASE n = D + 1
      <4>1. n # D + E
        BY <1>2, <3>1, <3>3
      <4>2. QED
        BY <1>11, <2>2, <3>2, <3>3, <4>1 DEF Trimmed
    <3>4. CASE n = D + 2
      <4>1. D + 1 \in 1..D + E /\ D + 1 < n
        BY <1>2, <3>1, <3>4
      <4>2. ~(SizeOf(Newest(sel, last)) <= MaxSize)
        BY <1>11, <3>2, <4>1
      <4>3. QED
        BY <1>11, <2>2, <3>2, <3>4, <4>2 DEF Trimmed
    <3>5. QED
      BY <3>1, <3>3, <3>4
  <2>3. QED
    BY <2>1, <2>2
<1>14. QED
  BY <1>12, <1>13
------------------------------------------------------------------------------
(* The invariant. *)

\* context.py:417: while a response is awaited, the messages the model was given are
\* those of the turns and memories the builder still holds.
PromptInv ==
  /\ Recents(recent)
  /\ blocks \in Stored /\ IsFiniteSet(latest)
  /\ Waiting =>
       /\ packets \in Packets
       /\ \E receipts, cues : prompt = Bounded(Messages(latest, packets, receipts, cues))

\* The messages as functions of what the builder holds.
RecentFrom(turns, question) ==
  LET fit == Dedupe(turns, {i \in DOMAIN turns : Fit(turns[i]) /\ turns[i].text # question})
      known == UNION {Topic(fit[i].text) : i \in DOMAIN fit}
  IN  IF \/ FollowUp(question) \/ DialogueReference(question)
         \/ Topic(question) \cap known # {}
      THEN LastOf(fit, MaxRecent)
      ELSE LastOf(fit, 2 * MinExchanges)

MemoryFrom(held, question, sent) ==
  LET all == held \o sent
      higher == Stable(all, LAMBDA a, b : Above(Rank(a, question), Rank(b, question)))
      ranked == Arranged(all, {i \in DOMAIN all : Eligible(all[i])}, higher)
      chosen[n \in 0..Len(ranked)] ==
        IF n = 0 THEN << >> ELSE Take(chosen[n - 1], ranked[n], question)
  IN  chosen[Len(ranked)]

LEMMA MemoryIsFrom == SelectMemory(latest, packets) = MemoryFrom(blocks, latest, packets)
BY DEF SelectMemory, MemoryFrom

\* They change only when the turns or the memories do.
LEMMA MessagesUnchanged ==
  ASSUME recent' = recent, blocks' = blocks, NEW receipts, NEW cues
  PROVE  Messages(latest, packets, receipts, cues)' =
           Messages(latest', packets', receipts, cues)
<1>1. /\ \A q : SelectRecent(q) = RecentFrom(recent, q)
      /\ SelectRecent(latest)' = RecentFrom(recent', latest')
  BY DEF SelectRecent, RecentFrom
<1>2. SelectMemory(latest', packets') = MemoryFrom(blocks, latest', packets')
  BY DEF SelectMemory, MemoryFrom
<1>3. (SelectMemory(latest, packets) = MemoryFrom(blocks, latest, packets))'
  BY MemoryIsFrom, PTL
<1>4. SelectRecent(latest)' = SelectRecent(latest')
  BY <1>1
<1>5. SelectMemory(latest, packets)' = SelectMemory(latest', packets')
  BY <1>2, <1>3
<1>6. QED
  BY <1>4, <1>5 DEF Messages

LEMMA InitialRecents ==
  ASSUME NEW h \in Histories
  PROVE  Recents(Dedupe(h, DOMAIN h))
<1>1. Timed(h) /\ \A t \in ToSet(h) : IsFiniteSet(t.text)
  BY PromptAssumption DEF Timed
<1>2. QED
  BY <1>1, DedupeRecents

\* The invariant holds in every state of a session of the builder.
THEOREM PromptInvariance == PromptSpec => []PromptInv
<1>1. PromptInit => PromptInv
  BY InitialRecents, FS_EmptySet DEF PromptInit, PromptInv, Waiting
<1>2. PromptInv /\ [PromptNext]_promptVars => PromptInv'
  <2>1. SUFFICES ASSUME PromptInv, [PromptNext]_promptVars
                 PROVE  PromptInv'
    OBVIOUS
  <2>2. \A text \in Texts \cup AssistantTexts : IsFiniteSet(text)
    BY PromptAssumption
  <2>3. ASSUME NEW question \in Texts, NEW sent \in Packets, NEW extra \in Extras,
               Build(question, sent, extra.receipts, extra.cues)
        PROVE  PromptInv'
    <3>1. /\ recent' = recent /\ blocks' = blocks /\ latest' = question /\ packets' = sent
          /\ prompt' = Bounded(Messages(question, sent, extra.receipts, extra.cues))
      BY <2>3 DEF Build
    <3>2. Recents(recent)' /\ blocks' \in Stored /\ IsFiniteSet(latest')
      BY <2>1, <2>2, <3>1 DEF PromptInv, Recents, Timed, InTime, Distinct
    <3>3. Messages(latest, packets, extra.receipts, extra.cues)' =
            Messages(question, sent, extra.receipts, extra.cues)
      BY <3>1, MessagesUnchanged
    <3>4. prompt' = Bounded(Messages(latest, packets, extra.receipts, extra.cues))'
      BY <3>1, <3>3
    <3>5. QED
      BY <3>1, <3>2, <3>4 DEF PromptInv
  <2>4. ASSUME NEW question \in Texts, Direct(question)
        PROVE  PromptInv'
    <3>1. recent' = recent /\ blocks' = blocks /\ latest' = question /\ prompt' = << >>
      BY <2>4 DEF Direct
    <3>2. QED
      BY <2>1, <2>2, <3>1 DEF PromptInv, Recents, Timed, InTime, Distinct, Waiting
  <2>5. ASSUME NEW question \in Texts, NEW text \in AssistantTexts, Override(question, text)
        PROVE  PromptInv'
    <3>1. /\ \E t \in 1..MaxExchange : Remembered(t, question, text, "safety_override")
          /\ blocks' = blocks /\ latest' = question /\ prompt' = << >>
      BY <2>5 DEF Override
    <3>2. Recents(recent)'
      BY <2>1, <2>2, <3>1, RememberedRecents DEF PromptInv
    <3>3. QED
      BY <2>1, <2>2, <3>1, <3>2 DEF PromptInv, Waiting
  <2>6. ASSUME NEW text \in AssistantTexts, Remember(text)
        PROVE  PromptInv'
    <3>1. /\ Remembered(turnId, latest, text, "final")
          /\ blocks' = blocks /\ latest' = latest /\ answered' = TRUE
      BY <2>6 DEF Remember
    <3>2. IsFiniteSet(latest)
      BY <2>1 DEF PromptInv
    <3>3. Recents(recent)'
      BY <2>1, <2>2, <3>1, <3>2, RememberedRecents DEF PromptInv
    <3>4. QED
      BY <2>1, <3>1, <3>3 DEF PromptInv, Waiting
  <2>7. CASE UNCHANGED promptVars
    <3>1. /\ recent' = recent /\ blocks' = blocks /\ latest' = latest /\ packets' = packets
          /\ prompt' = prompt /\ answered' = answered
      BY <2>7 DEF promptVars
    <3>2. \A receipts, cues : Messages(latest, packets, receipts, cues)' =
                                Messages(latest, packets, receipts, cues)
      BY <3>1, MessagesUnchanged
    <3>3. QED
      BY <2>1, <3>1, <3>2 DEF PromptInv, Recents, Timed, InTime, Distinct, Waiting
  <2>8. QED
    BY <2>1, <2>3, <2>4, <2>5, <2>6, <2>7 DEF PromptNext
<1>3. QED
  BY <1>1, <1>2, PTL DEF PromptSpec
------------------------------------------------------------------------------
(* What is shown. *)

\* The prompt shows the turns of sel after the first f, at places shifted by k.
ShowsFrom(sel, context, last, f, k) ==
  /\ f \in 0..Len(sel) /\ Shown = {sel[j] : j \in f + 1..Len(sel)}
  /\ k \in Int
  /\ \A i \in DOMAIN prompt : /\ i \in Int
                              /\ prompt[i].kind = "recent" => /\ k + i - 2 \in 1..Len(sel)
                                                              /\ prompt[i].said = sel[k + i - 2]
  /\ prompt[1].kind = "persona" /\ Last(prompt).kind = "latest"
  /\ ContextShown => prompt[2] = context
  /\ SizeOf(prompt) <= MaxSize \/ (Len(prompt) = 2 /\ ~ContextShown)
  /\ ~ContextShown => f >= Len(sel) - 1
  /\ f = Len(sel) => sel = << >> \/ ~(SizeOf(Newest(sel, last)) <= MaxSize)

LEMMA TrimmedShows ==
  ASSUME NEW sel, sel \in Seq(ToSet(sel)), NEW context, NEW last,
         context.kind = "context", last.kind = "latest",
         Trimmed(prompt, sel, context, last)
  PROVE  \E f, k : ShowsFrom(sel, context, last, f, k)
<1> DEFINE N == Len(sel)
<1>1. N \in Nat /\ (sel = << >> <=> N = 0)
  BY EmptySeq, SeqPlaces
<1>2. /\ Persona.kind = "persona"
      /\ \A t : Said(t).kind = "recent" /\ Said(t).said = t
  BY DEF Persona, Said
<1>3. ASSUME NEW k \in 0..N, sel # << >> => k < N, Whole(prompt, sel, k, context, last),
             SizeOf(prompt) <= MaxSize
      PROVE  ShowsFrom(sel, context, last, k, k)
  <2>1. DOMAIN prompt = 1..N - k + 3 /\ Len(prompt) = N - k + 3
    BY <1>3, SeqPlaces DEF Whole
  <2>2. ContextShown /\ prompt[2] = context
    BY <1>3, <1>1, <2>1 DEF Whole, ContextShown
  <2>3. prompt[1].kind = "persona" /\ Last(prompt).kind = "latest"
    BY <1>3, <1>2, <2>1 DEF Whole, Last
  <2>4. ASSUME NEW i \in DOMAIN prompt
        PROVE  \/ i \in {1, 2, N - k + 3} /\ prompt[i].kind # "recent"
               \/ /\ k + i - 2 \in 1..N /\ prompt[i].said = sel[k + i - 2]
                  /\ prompt[i].kind = "recent" /\ k + i - 2 \in k + 1..N
    <3>1. CASE i \in {1, 2, N - k + 3}
      BY <1>3, <1>2, <3>1 DEF Whole
    <3>2. CASE i \notin {1, 2, N - k + 3}
      <4>1. i - 2 \in 1..N - k /\ 2 + (i - 2) = i /\ k + (i - 2) = k + i - 2
        BY <1>1, <2>1, <3>2
      <4>2. prompt[i] = Said(sel[k + i - 2])
        BY <1>3, <4>1 DEF Whole
      <4>3. k + i - 2 \in 1..N /\ k + i - 2 \in k + 1..N
        BY <1>1, <4>1
      <4>4. QED
        BY <1>2, <4>2, <4>3
    <3>3. QED
      BY <3>1, <3>2
  <2>5. \A j \in k + 1..N : /\ j - k + 2 \in DOMAIN prompt /\ prompt[j - k + 2].said = sel[j]
                            /\ prompt[j - k + 2].kind = "recent"
    <3>1. SUFFICES ASSUME NEW j \in k + 1..N
                   PROVE  /\ j - k + 2 \in DOMAIN prompt /\ prompt[j - k + 2].said = sel[j]
                          /\ prompt[j - k + 2].kind = "recent"
      OBVIOUS
    <3>2. j - k \in 1..N - k /\ 2 + (j - k) = j - k + 2 /\ k + (j - k) = j /\ j - k + 2 \in DOMAIN prompt
      BY <1>1, <2>1
    <3>3. prompt[j - k + 2] = Said(sel[j])
      BY <1>3, <3>2 DEF Whole
    <3>4. QED
      BY <1>2, <3>2, <3>3
  <2>6. Shown = {sel[j] : j \in k + 1..N}
    BY <2>4, <2>5 DEF Shown
  <2>7. \A i \in DOMAIN prompt : i \in Int
    BY <2>1
  <2>8. k = N => sel = << >>
    BY <1>1, <1>3
  <2>9. QED
    BY <1>3, <2>2, <2>3, <2>4, <2>6, <2>7, <2>8 DEF ShowsFrom
<1>4. ASSUME sel # << >>, prompt = Newest(sel, last), SizeOf(prompt) <= MaxSize
      PROVE  ShowsFrom(sel, context, last, N - 1, N)
  <2>1. /\ DOMAIN prompt = 1..3 /\ Len(prompt) = 3
        /\ prompt[1] = Persona /\ prompt[2] = Said(sel[N]) /\ prompt[3] = last
    BY <1>4 DEF Newest, Last
  <2>2. ~ContextShown
    BY <1>2, <2>1 DEF ContextShown
  <2>3. prompt[1].kind = "persona" /\ Last(prompt).kind = "latest"
    BY <1>2, <2>1 DEF Last
  <2>4. \A i \in DOMAIN prompt : /\ i \in Int /\ (i = 1 \/ i = 2 \/ i = 3)
                                 /\ prompt[i].kind = "recent" => i = 2
    BY <1>2, <2>1
  <2>5. prompt[2].said = sel[N] /\ prompt[2].kind = "recent" /\ 2 \in DOMAIN prompt
    BY <1>2, <2>1
  <2>6. Shown = {sel[N]}
    BY <2>4, <2>5 DEF Shown
  <2>7. {sel[j] : j \in (N - 1) + 1..N} = {sel[N]}
    <3>1. (N - 1) + 1..N = {N}
      BY <1>1
    <3>2. QED
      BY <3>1
  <2>8. N - 1 \in 0..N /\ N + 2 - 2 = N /\ N \in 1..N /\ N - 1 # N /\ N - 1 >= N - 1
    BY <1>1, <1>4
  <2>9. \A i \in DOMAIN prompt : prompt[i].kind = "recent" =>
          N + i - 2 \in 1..N /\ prompt[i].said = sel[N + i - 2]
    BY <2>4, <2>5, <2>8
  <2>10. Shown = {sel[j] : j \in (N - 1) + 1..N}
    BY <2>6, <2>7
  <2>11. \A i \in DOMAIN prompt : i \in Int
    BY <2>4
  <2>12. N \in Int
    BY <1>1
  <2>13. QED
    BY <1>4, <2>2, <2>3, <2>8, <2>9, <2>10, <2>11, <2>12 DEF ShowsFrom
<1>5. ASSUME prompt = <<Persona, last>>,
             sel # << >> => ~(SizeOf(Newest(sel, last)) <= MaxSize)
      PROVE  ShowsFrom(sel, context, last, N, N)
  <2>1. DOMAIN prompt = 1..2 /\ Len(prompt) = 2 /\ prompt[1] = Persona /\ prompt[2] = last
    BY <1>5
  <2>2. ~ContextShown
    BY <2>1 DEF ContextShown
  <2>3. prompt[1].kind = "persona" /\ Last(prompt).kind = "latest"
    BY <1>2, <2>1 DEF Last
  <2>4. \A i \in DOMAIN prompt : i \in Int /\ prompt[i].kind # "recent"
    <3>1. \A i \in DOMAIN prompt : i \in Int /\ (i = 1 \/ i = 2)
      BY <2>1
    <3>2. QED
      BY <1>2, <2>1, <3>1
  <2>5. Shown = {}
    BY <2>4 DEF Shown
  <2>6. {sel[j] : j \in N + 1..N} = {}
    BY <1>1
  <2>7. N \in 0..N /\ N >= N - 1 /\ N \in Int
    BY <1>1
  <2>8. QED
    BY <1>5, <2>1, <2>2, <2>3, <2>4, <2>5, <2>6, <2>7 DEF ShowsFrom
<1>6. QED
  BY <1>3, <1>4, <1>5 DEF Trimmed

LEMMA MessagesWhole ==
  ASSUME NEW sel, sel \in Seq(ToSet(sel)), NEW context, NEW last
  PROVE  Whole(<<Persona, context>> \o [i \in DOMAIN sel |-> Said(sel[i])] \o <<last>>,
               sel, 0, context, last)
<1> DEFINE N == Len(sel)
           x == <<Persona, context>>
           y == [i \in DOMAIN sel |-> Said(sel[i])]
           z == <<last>>
           S == {Persona, context, last} \cup {Said(t) : t \in ToSet(sel)}
           m == x \o y \o z
<1>1. N \in Nat /\ DOMAIN sel = 1..N /\ \A i \in 1..N : sel[i] \in ToSet(sel)
  BY SeqPlaces DEF ToSet
<1>2. y \in Seq(S) /\ Len(y) = N /\ \A i \in 1..N : y[i] = Said(sel[i])
  <2>1. y \in [1..N -> S] /\ \A i \in 1..N : y[i] = Said(sel[i])
    BY <1>1
  <2> HIDE DEF y, S
  <2>2. y \in Seq(S)
    BY <1>1, <2>1, SeqDef
  <2>3. Len(y) \in Nat /\ 1..Len(y) = 1..N
    BY <2>1, <2>2, LenProperties
  <2>4. QED
    BY <1>1, <2>1, <2>2, <2>3
<1>3. /\ x \in Seq(S) /\ Len(x) = 2 /\ x[1] = Persona /\ x[2] = context
      /\ z \in Seq(S) /\ Len(z) = 1 /\ z[1] = last
  OBVIOUS
<1> HIDE DEF x, y, z, S
<1>4. /\ x \o y \in Seq(S) /\ Len(x \o y) = 2 + N
      /\ \A i \in 1..2 + N : (x \o y)[i] = IF i <= 2 THEN x[i] ELSE y[i - 2]
  <2>1. /\ x \o y \in Seq(S) /\ Len(x \o y) = Len(x) + Len(y)
        /\ \A i \in 1..Len(x) + Len(y) : (x \o y)[i] = IF i <= Len(x) THEN x[i] ELSE y[i - Len(x)]
    <3>1. x \in Seq(S) /\ y \in Seq(S)
      BY <1>2, <1>3
    <3>2. QED
      BY <3>1, ConcatProperties
  <2>2. QED
    BY <1>2, <1>3, <2>1
<1> DEFINE w == x \o y
<1>5. /\ m \in Seq(S) /\ Len(m) = N + 3
      /\ \A i \in 1..N + 3 : m[i] = IF i <= N + 2 THEN w[i] ELSE last
  <2>1. w \in Seq(S) /\ Len(w) = 2 + N
    BY <1>4
  <2>2. m = w \o z
    OBVIOUS
  <2> HIDE DEF w, m
  <2>3. /\ m \in Seq(S) /\ Len(m) = Len(w) + Len(z)
        /\ \A i \in 1..Len(w) + Len(z) : m[i] = IF i <= Len(w) THEN w[i] ELSE z[i - Len(w)]
    BY <1>3, <2>1, <2>2, ConcatProperties
  <2>4. Len(w) + Len(z) = N + 3 /\ Len(w) = N + 2
    BY <1>1, <1>3, <2>1
  <2>5. \A i \in 1..N + 3 : ~(i <= N + 2) => i - (N + 2) = 1
    BY <1>1
  <2>6. QED
    BY <1>3, <2>3, <2>4, <2>5
<1> HIDE DEF m
<1>6. m[1] = Persona /\ m[2] = context /\ m[Len(m)] = last
  <2>1. /\ 1 \in 1..N + 3 /\ 2 \in 1..N + 3 /\ N + 3 \in 1..N + 3 /\ 1 \in 1..2 + N /\ 2 \in 1..2 + N
        /\ 1 <= N + 2 /\ 2 <= N + 2 /\ ~(N + 3 <= N + 2)
    BY <1>1
  <2>2. m[1] = w[1] /\ m[2] = w[2] /\ m[N + 3] = last
    BY <1>5, <2>1
  <2>3. w[1] = x[1] /\ w[2] = x[2]
    BY <1>4, <2>1
  <2>4. QED
    BY <1>3, <1>5, <2>2, <2>3
<1>7. \A i \in 1..N - 0 : m[2 + i] = Said(sel[0 + i])
  <2>1. SUFFICES ASSUME NEW i \in 1..N - 0
                 PROVE  m[2 + i] = Said(sel[0 + i])
    OBVIOUS
  <2>2. /\ 2 + i \in 1..N + 3 /\ 2 + i <= N + 2 /\ 2 + i \in 1..2 + N /\ ~(2 + i <= 2)
        /\ 2 + i - 2 = i /\ 0 + i = i /\ i \in 1..N
    BY <1>1
  <2>3. m[2 + i] = w[2 + i]
    BY <1>5, <2>2
  <2>4. w[2 + i] = y[i]
    BY <1>4, <2>2
  <2>5. QED
    BY <1>2, <2>2, <2>3, <2>4
<1>8. m \in Seq(ToSet(m)) /\ Len(m) = N - 0 + 3
  BY <1>1, <1>5, SeqPlaces
<1>9. Whole(m, sel, 0, context, last)
  BY <1>6, <1>7, <1>8 DEF Whole
<1>10. QED
  BY <1>9 DEF m, x, y, z

LEMMA PromptShows ==
  ASSUME PromptInv, Waiting
  PROVE  \E context, f, k :
           /\ ShowsFrom(SelectRecent(latest), context, Latest(latest), f, k)
           /\ \A i \in DOMAIN context.memory : Eligible(context.memory[i])
<1>1. PICK receipts, cues : prompt = Bounded(Messages(latest, packets, receipts, cues))
  BY DEF PromptInv
<1> DEFINE sel == SelectRecent(latest)
           memory == SelectMemory(latest, packets)
           state == DialogueState(sel, latest)
           receipt == Receipt(receipts, latest)
           context == Context(memory, state, receipt, cues)
           last == Latest(latest)
           m == Messages(latest, packets, receipts, cues)
<1>2. sel \in Seq(ToSet(sel))
  <2> DEFINE d == Dedupe(recent, FitPlaces(latest))
  <2>1. Recents(d) /\ \E k : EndOf(sel, d, k)
    BY SelectedIs DEF PromptInv
  <2> HIDE DEF d, sel
  <2>2. Recents(sel)
    BY <2>1, EndOfRecents
  <2>3. QED
    BY <2>2 DEF Recents, Timed
<1>3. m = <<Persona, context>> \o [i \in DOMAIN sel |-> Said(sel[i])] \o <<last>>
  BY DEF Messages
<1>4. \A i \in DOMAIN memory : Eligible(memory[i])
  BY SelectedMemory DEF PromptInv
<1>5. context.kind = "context" /\ last.kind = "latest" /\ context.memory = memory
  <2> HIDE DEF memory, state, receipt
  <2>1. QED
    BY DEF Context, Latest
<1> HIDE DEF sel, memory, context, last, m
<1>6. Whole(m, sel, 0, context, last)
  BY <1>2, <1>3, MessagesWhole
<1>7. Trimmed(Bounded(m), sel, context, last)
  BY <1>2, <1>6, BoundedIs
<1>8. Trimmed(prompt, sel, context, last)
  BY <1>1, <1>7 DEF m
<1>9. \E f, k : ShowsFrom(sel, context, last, f, k)
  BY <1>2, <1>5, <1>8, TrimmedShows
<1>10. QED
  BY <1>4, <1>5, <1>9 DEF sel, last

\* What a request is shown of the turns that are kept.
LEMMA SelectedTurns ==
  ASSUME PromptInv, NEW sel, sel = SelectRecent(latest)
  PROVE  /\ Len(sel) \in Nat /\ (sel = << >> <=> Len(sel) = 0)
         /\ \A j \in 1..Len(sel) : \E i \in FitPlaces(latest) : sel[j] = recent[i]
         /\ \A j, l \in 1..Len(sel) : j < l =>
              \E m, n \in DOMAIN recent : m < n /\ sel[j] = recent[m] /\ sel[l] = recent[n]
         /\ \A i \in FitPlaces(latest), j \in 1..Len(sel) :
              sel[j].created < recent[i].created =>
                \E l \in 1..Len(sel) : j <= l /\ Same(sel[l], recent[i])
         /\ FitPlaces(latest) # {} =>
              /\ sel # << >>
              /\ \E i \in FitPlaces(latest) :
                   /\ Same(Last(sel), recent[i])
                   /\ \A j \in FitPlaces(latest) : recent[j].created <= recent[i].created
<1> DEFINE d == Dedupe(recent, FitPlaces(latest))
<1>1. Recents(recent) /\ FitPlaces(latest) \subseteq DOMAIN recent
  BY DEF PromptInv, FitPlaces
<1>2. Recents(d) /\ \E k : EndOf(sel, d, k)
  BY <1>1, SelectedIs
<1>3. /\ \A a \in DOMAIN d : \E i \in FitPlaces(latest) : d[a] = recent[i]
      /\ \A a, b \in DOMAIN d : a < b =>
           \E i, j \in DOMAIN recent : i < j /\ d[a] = recent[i] /\ d[b] = recent[j]
      /\ \A i \in FitPlaces(latest) : \E a \in DOMAIN d :
           /\ Same(d[a], recent[i])
           /\ \A b \in DOMAIN d : d[b].created < recent[i].created => b <= a
      /\ FitPlaces(latest) # {} =>
           /\ d # << >>
           /\ \E i \in FitPlaces(latest) :
                /\ Same(Last(d), recent[i])
                /\ \A j \in FitPlaces(latest) : recent[j].created <= recent[i].created
  <2>1. Timed(recent) /\ InTime(recent) /\ Distinct(recent)
    BY <1>1 DEF Recents
  <2>2. QED
    BY <1>1, <2>1, DedupeOf
<1> HIDE DEF d
<1>4. PICK k : EndOf(sel, d, k)
  BY <1>2
<1>5. Len(d) \in Nat /\ DOMAIN d = 1..Len(d) /\ d \in Seq(ToSet(d))
  BY <1>2, SeqPlaces DEF Recents, Timed
<1>6. /\ k \in 0..Len(d) /\ Len(sel) = Len(d) - k /\ sel \in Seq(ToSet(d))
      /\ \A j \in 1..Len(sel) : sel[j] = d[k + j] /\ k + j \in DOMAIN d
      /\ d # << >> => k < Len(d)
  BY <1>4, <1>5 DEF EndOf
<1>7. Len(sel) \in Nat /\ (sel = << >> <=> Len(sel) = 0) /\ (d = << >> <=> Len(d) = 0)
  <2>1. sel = << >> <=> Len(sel) = 0
    <3>1. sel \in Seq(ToSet(d))
      BY <1>6
    <3>2. QED
      BY <3>1, EmptySeq
  <2>2. d = << >> <=> Len(d) = 0
    BY <1>5, EmptySeq
  <2>3. Len(sel) \in Nat
    <3>1. sel \in Seq(ToSet(d))
      BY <1>6
    <3>2. QED
      BY <3>1, LenProperties
  <2>4. QED
    BY <2>1, <2>2, <2>3
<1>8. \A j \in 1..Len(sel) : \E i \in FitPlaces(latest) : sel[j] = recent[i]
  <2>1. SUFFICES ASSUME NEW j \in 1..Len(sel)
                 PROVE  \E i \in FitPlaces(latest) : sel[j] = recent[i]
    OBVIOUS
  <2>2. sel[j] = d[k + j] /\ k + j \in DOMAIN d
    BY <1>6
  <2>3. QED
    BY <1>3, <2>2
<1>9. ASSUME NEW j \in 1..Len(sel), NEW l \in 1..Len(sel), j < l
      PROVE  \E m, n \in DOMAIN recent : m < n /\ sel[j] = recent[m] /\ sel[l] = recent[n]
  <2>1. k + j \in DOMAIN d /\ k + l \in DOMAIN d /\ k + j < k + l
    BY <1>6, <1>7, <1>9
  <2>2. sel[j] = d[k + j] /\ sel[l] = d[k + l]
    BY <1>6
  <2> DEFINE a == k + j
             b == k + l
  <2>3. a \in DOMAIN d /\ b \in DOMAIN d /\ a < b /\ sel[j] = d[a] /\ sel[l] = d[b]
    BY <2>1, <2>2
  <2> HIDE DEF a, b
  <2>4. QED
    BY <1>3, <2>3
<1>10. ASSUME NEW i \in FitPlaces(latest), NEW j \in 1..Len(sel),
              sel[j].created < recent[i].created
       PROVE  \E l \in 1..Len(sel) : j <= l /\ Same(sel[l], recent[i])
  <2>1. PICK a \in DOMAIN d : /\ Same(d[a], recent[i])
                              /\ \A b \in DOMAIN d : d[b].created < recent[i].created => b <= a
    BY <1>3
  <2>2. k + j \in DOMAIN d /\ k + j <= a
    BY <1>6, <1>10, <2>1
  <2>3. a - k \in 1..Len(sel) /\ j <= a - k /\ k + (a - k) = a
    <3>1. a \in 1..Len(d) /\ k \in Nat /\ Len(d) \in Nat /\ j \in Nat /\ j >= 1
      <4>1. a \in 1..Len(d) /\ Len(d) \in Nat
        BY <1>5
      <4>2. k \in Nat
        BY <1>6, <4>1
      <4>3. j \in Nat /\ j >= 1
        BY <1>7
      <4>4. QED
        BY <4>1, <4>2, <4>3
    <3>2. Len(sel) = Len(d) - k
      BY <1>6
    <3>3. QED
      BY <2>2, <3>1, <3>2
  <2>4. sel[a - k] = d[a]
    BY <1>6, <2>3
  <2>5. QED
    BY <2>1, <2>3, <2>4
<1>11. d # << >> => sel # << >> /\ Last(sel) = Last(d)
  <2>1. SUFFICES ASSUME d # << >>
                 PROVE  sel # << >> /\ Last(sel) = Last(d)
    OBVIOUS
  <2>2. Len(sel) \in 1..Len(sel) /\ Len(sel) # 0 /\ k + Len(sel) = Len(d)
    <3>1. k \in Nat /\ Len(d) \in Nat /\ k < Len(d) /\ Len(sel) = Len(d) - k
      BY <1>5, <1>6, <2>1
    <3>2. QED
      BY <3>1
  <2>3. sel[Len(sel)] = d[k + Len(sel)]
    BY <1>6, <2>2
  <2>4. QED
    BY <1>7, <2>2, <2>3 DEF Last
<1>12. QED
  BY <1>3, <1>7, <1>8, <1>9, <1>10, <1>11

\* context.py:417, 226: only turns and memories that may be used again reach the model,
\* the turns in the order they were said.
THEOREM FitForTheModel == PromptSpec => []OnlyFitContext
<1>1. PromptInv => OnlyFitContext
  <2>1. SUFFICES ASSUME PromptInv, Waiting
                 PROVE  OnlyFitContext
    BY DEF OnlyFitContext
  <2> DEFINE sel == SelectRecent(latest)
  <2>2. PICK context, f, k : /\ ShowsFrom(sel, context, Latest(latest), f, k)
                             /\ \A i \in DOMAIN context.memory : Eligible(context.memory[i])
    BY <2>1, PromptShows
  <2>3. /\ Len(sel) \in Nat
        /\ \A j \in 1..Len(sel) : \E i \in FitPlaces(latest) : sel[j] = recent[i]
        /\ \A j, l \in 1..Len(sel) : j < l =>
             \E m, n \in DOMAIN recent : m < n /\ sel[j] = recent[m] /\ sel[l] = recent[n]
    BY <2>1, SelectedTurns
  <2> HIDE DEF sel
  <2>4. prompt[1].kind = "persona" /\ Last(prompt).kind = "latest"
    BY <2>2 DEF ShowsFrom
  <2>5. \A t \in Shown : \E i \in FitPlaces(latest) : t = recent[i]
    <3>1. f + 1..Len(sel) \subseteq 1..Len(sel) /\ Shown = {sel[j] : j \in f + 1..Len(sel)}
      BY <2>2, <2>3 DEF ShowsFrom
    <3>2. QED
      BY <2>3, <3>1
  <2>6. Shown \subseteq ToSet(recent)
    BY <2>5 DEF FitPlaces, ToSet
  <2>7. \A t \in Shown : /\ t.status # "safety_override" /\ t.confidence >= 55
                         /\ t.text \cap SensitiveWords = {}
    BY <2>5 DEF FitPlaces, Fit, Sensitive
  <2>8. ASSUME NEW i \in DOMAIN prompt, NEW j \in DOMAIN prompt,
               i < j, prompt[i].kind = "recent", prompt[j].kind = "recent"
        PROVE  \E m, n \in DOMAIN recent :
                 /\ m < n /\ recent[m] = prompt[i].said /\ recent[n] = prompt[j].said
                 /\ recent[m].created <= recent[n].created
    <3>1. /\ k + i - 2 \in 1..Len(sel) /\ prompt[i].said = sel[k + i - 2]
          /\ k + j - 2 \in 1..Len(sel) /\ prompt[j].said = sel[k + j - 2]
          /\ k \in Int /\ i \in Int /\ j \in Int
      BY <2>2, <2>8 DEF ShowsFrom
    <3> DEFINE x == k + i - 2
               y == k + j - 2
    <3>2. x \in 1..Len(sel) /\ y \in 1..Len(sel) /\ x < y /\ prompt[i].said = sel[x] /\ prompt[j].said = sel[y]
      BY <2>8, <3>1
    <3> HIDE DEF x, y
    <3>3. PICK m \in DOMAIN recent, n \in DOMAIN recent :
                m < n /\ sel[x] = recent[m] /\ sel[y] = recent[n]
      BY <2>3, <3>2
    <3>4. recent[m].created <= recent[n].created
      BY <2>1, <3>3 DEF PromptInv, Recents, InTime
    <3>5. QED
      BY <3>2, <3>3, <3>4
  <2>9. ASSUME ContextShown, NEW i \in DOMAIN prompt[2].memory
        PROVE  Eligible(prompt[2].memory[i])
    <3>1. prompt[2] = context
      BY <2>2, <2>9 DEF ShowsFrom
    <3>2. QED
      BY <2>2, <2>9, <3>1
  <2>10. ASSUME ContextShown, NEW i \in DOMAIN prompt[2].memory
         PROVE  LET b == prompt[2].memory[i]
                IN  /\ b.receipt # "rejected" /\ b.temporal \notin {"stale", "expired"}
                    /\ b.sourced \/ b.kind = "session_summary"
                    /\ b.sensitivity = "normal" /\ b.text \cap SensitiveWords = {}
    <3>1. Eligible(prompt[2].memory[i])
      BY <2>9, <2>10
    <3>2. QED
      BY <3>1 DEF Eligible, Sensitive
  <2>11. QED
    BY <2>4, <2>6, <2>7, <2>8, <2>10 DEF OnlyFitContext
<1>2. QED
  BY <1>1, PromptInvariance, PTL

LEMMA NewestSize ==
  ASSUME NEW sel, NEW t, Same(Last(sel), t), IsFiniteSet(t.text), IsFiniteSet(latest)
  PROVE  SizeOf(Newest(sel, Latest(latest))) =
           Persona.size + Cardinality(t.text) + Cardinality(latest)
<1> DEFINE a == Persona
           b == Said(Last(sel))
           c == Latest(latest)
<1>1. a.size = 2 /\ b.size = Cardinality(t.text) /\ c.size = Cardinality(latest)
  BY DEF Persona, Said, Latest, Same
<1>2. Cardinality(t.text) \in Nat /\ Cardinality(latest) \in Nat
  BY FS_CardinalityType
<1>3. Newest(sel, Latest(latest)) = <<a, b, c>>
  BY DEF Newest
<1> HIDE DEF a, b, c
<1>4. SizeOf(<<a, b, c>>) = a.size + b.size + c.size
  BY <1>1, <1>2, SizeOfThree
<1>5. QED
  BY <1>1, <1>3, <1>4 DEF a

\* context.py:791, 262: what is left out of a prompt goes in the order of the code, and
\* no more of it than the budget asks for.
THEOREM TrimmedByAge == PromptSpec => []TrimmedInOrder
<1>1. PromptInv => TrimmedInOrder
  <2>1. SUFFICES ASSUME PromptInv, Waiting
                 PROVE  NewestShown /\ WithinBudget
    BY DEF TrimmedInOrder
  <2> DEFINE sel == SelectRecent(latest)
             last == Latest(latest)
  <2>2. PICK context, f, k : ShowsFrom(sel, context, last, f, k)
    BY <2>1, PromptShows
  <2>3. /\ Len(sel) \in Nat /\ (sel = << >> <=> Len(sel) = 0)
        /\ \A i \in FitPlaces(latest), j \in 1..Len(sel) :
             sel[j].created < recent[i].created =>
               \E l \in 1..Len(sel) : j <= l /\ Same(sel[l], recent[i])
        /\ FitPlaces(latest) # {} =>
             /\ sel # << >>
             /\ \E i \in FitPlaces(latest) :
                  /\ Same(Last(sel), recent[i])
                  /\ \A j \in FitPlaces(latest) : recent[j].created <= recent[i].created
    BY <2>1, SelectedTurns
  <2>4. \A j \in 1..Len(sel) : \E i \in FitPlaces(latest) : sel[j] = recent[i]
    BY <2>1, SelectedTurns
  <2>5. \A i \in DOMAIN recent : recent[i].created \in Int
    BY <2>1 DEF PromptInv, Recents, Timed, ToSet
  <2> HIDE DEF sel
  <2>6. f \in 0..Len(sel) /\ Shown = {sel[j] : j \in f + 1..Len(sel)}
    BY <2>2 DEF ShowsFrom
  <2>7. ASSUME NEW t \in Shown, NEW i \in DOMAIN recent,
               recent[i].created > t.created, Fit(recent[i]), recent[i].text # latest
        PROVE  \E s \in Shown : s.role = recent[i].role /\ s.text = recent[i].text
    <3>1. PICK j \in f + 1..Len(sel) : t = sel[j]
      BY <2>6
    <3>2. i \in FitPlaces(latest) /\ j \in 1..Len(sel)
      BY <2>3, <2>6, <2>7 DEF FitPlaces
    <3>3. sel[j].created < recent[i].created
      <4>1. PICK h \in FitPlaces(latest) : sel[j] = recent[h]
        BY <2>4, <3>2
      <4>2. recent[h].created \in Int /\ recent[i].created \in Int
        BY <2>5 DEF FitPlaces
      <4>3. QED
        BY <2>7, <3>1, <4>1, <4>2
    <3>4. PICK l \in 1..Len(sel) : j <= l /\ Same(sel[l], recent[i])
      BY <2>3, <3>2, <3>3
    <3>5. l \in f + 1..Len(sel)
      BY <2>3, <2>6, <3>1, <3>4
    <3>6. sel[l] \in Shown
      BY <2>6, <3>5
    <3>7. QED
      BY <3>4, <3>6 DEF Same
  <2>8. NewestShown
    BY <2>7 DEF NewestShown
  <2>9. SizeOf(prompt) <= MaxSize \/ (Len(prompt) = 2 /\ ~ContextShown)
    BY <2>2 DEF ShowsFrom
  <2>10. ~ContextShown => Cardinality(Shown) <= 1
    <3>1. SUFFICES ASSUME f >= Len(sel) - 1
                   PROVE  Cardinality(Shown) <= 1
      BY <2>2 DEF ShowsFrom
    <3>2. CASE f = Len(sel)
      <4>1. Shown = {}
        BY <2>3, <2>6, <3>2
      <4>2. QED
        BY <4>1, FS_EmptySet
    <3>3. CASE f # Len(sel)
      <4>1. f + 1..Len(sel) = {Len(sel)}
        BY <2>3, <2>6, <3>1, <3>3
      <4>2. Shown = {sel[Len(sel)]}
        BY <2>6, <4>1
      <4>3. Cardinality({sel[Len(sel)]}) = 1
        BY FS_Singleton
      <4>4. QED
        BY <4>2, <4>3
    <3>4. QED
      BY <3>2, <3>3
  <2>11. ASSUME Shown = {}, NEW i \in DOMAIN recent, Fit(recent[i]), recent[i].text # latest
        PROVE  \E t \in ToSet(recent) :
                 /\ t.created >= recent[i].created /\ Fit(t)
                 /\ Persona.size + Cardinality(t.text) + Cardinality(latest) > MaxSize
    <3>1. i \in FitPlaces(latest)
      BY <2>11 DEF FitPlaces
    <3>2. PICK h \in FitPlaces(latest) :
               /\ Same(Last(sel), recent[h])
               /\ \A j \in FitPlaces(latest) : recent[j].created <= recent[h].created
      BY <2>3, <3>1
    <3>3. f = Len(sel) /\ sel # << >>
      <4>1. sel # << >>
        BY <2>3, <3>1
      <4>2. f # Len(sel) => sel[Len(sel)] \in Shown
        <5>1. f # Len(sel) => Len(sel) \in f + 1..Len(sel)
          BY <2>3, <2>6
        <5>2. QED
          BY <2>6, <5>1
      <4>3. QED
        BY <2>11, <4>1, <4>2
    <3>4. ~(SizeOf(Newest(sel, last)) <= MaxSize)
      BY <2>2, <3>3 DEF ShowsFrom
    <3> DEFINE t == recent[h]
    <3>5. t \in ToSet(recent) /\ Fit(t) /\ recent[i].created <= t.created
      BY <3>1, <3>2 DEF FitPlaces, ToSet
    <3>6. IsFiniteSet(t.text) /\ IsFiniteSet(latest)
      BY <2>1, <3>5 DEF PromptInv, Recents
    <3>7. SizeOf(Newest(sel, last)) = Persona.size + Cardinality(t.text) + Cardinality(latest)
      BY <3>2, <3>6, NewestSize
    <3>8. /\ Persona.size + Cardinality(t.text) + Cardinality(latest) \in Int /\ MaxSize \in Int
          /\ t.created \in Int /\ recent[i].created \in Int
      <4>1. Cardinality(t.text) \in Nat /\ Cardinality(latest) \in Nat /\ Persona.size = 2
        BY <3>6, FS_CardinalityType DEF Persona
      <4>2. t.created \in Int /\ recent[i].created \in Int /\ MaxSize \in Int
        BY <2>5, PromptAssumption DEF FitPlaces
      <4> HIDE DEF t
      <4>3. QED
        BY <4>1, <4>2
    <3> HIDE DEF t, last
    <3>9. QED
      BY <3>4, <3>5, <3>7, <3>8
  <2>12. WithinBudget
    BY <2>9, <2>10, <2>11 DEF WithinBudget
  <2>13. QED
    BY <2>8, <2>12
<1>2. QED
  BY <1>1, PromptInvariance, PTL
==============================================================================
