------------------------- MODULE SessionRecordsProofs -------------------------
(***************************************************************************)
(* Proofs about SessionRecords for every number of utterances, agents and  *)
(* notices, and every way the calls may be priced: the records of a turn   *)
(* are cumulative, say truly whether they are complete, and a judgement is *)
(* counted once.                                                           *)
(***************************************************************************)
EXTENDS SessionRecords, TLAPS

\* What has been stored or is on its way to the store.
Made == Range(rows) \cup posting

\* Turn ids are handed out in order.
TurnsInOrder ==
  /\ response.turn <= counter /\ joining.turn <= counter
  /\ response.turn = 0 <=> response.stage = "none"

\* A source is "unknown" if and only if a call without a price was added, and
\* nothing has been added to a turn that has no utterance yet.
SourceHonest ==
  /\ \A t \in Turn, i \in Item : source[t][i] = "unknown" <=> <<t, i>> \in unpriced
  /\ \A t \in Turn, i \in Item : t > counter => source[t][i] = "none"

\* A record of the agent at work contains no more than what its turn has cost.
RecordsBehind ==
  \A r \in Made :
    /\ r.agent <= agent
    /\ r.id.kind = "voice" => r.id.number < ended
    /\ r.id.kind = "voice" /\ r.agent = agent => r.total <= Total(cost[r.id.turn])
    /\ r.id.kind = "judge" => r.id.number = r.id.turn

\* record_id is the primary key of the store.
IdsUnique == \A i, j \in DOMAIN rows : rows[i].id = rows[j].id => i = j

IInv ==
  /\ TypeOK
  /\ TurnsInOrder
  /\ SourceHonest
  /\ RecordsBehind
  /\ IdsUnique
  /\ RecordsCumulative
  /\ CompleteIsHonest

------------------------------------------------------------------------------
(* Costs, envelopes and rows *)

\* The sum of three costs is a number, and grows with each of them.
LEMMA TotalGrows ==
  ASSUME NEW c \in [Item -> Nat], NEW d \in [Item -> Nat],
         \A i \in Item : c[i] <= d[i]
  PROVE  Total(c) \in Nat /\ Total(c) <= Total(d)
<1>1. /\ c["stt"] \in Nat /\ c["llm"] \in Nat /\ c["tts"] \in Nat
      /\ d["stt"] \in Nat /\ d["llm"] \in Nat /\ d["tts"] \in Nat
      /\ c["stt"] <= d["stt"] /\ c["llm"] <= d["llm"] /\ c["tts"] <= d["tts"]
  BY DEF Item
<1>2. QED
  BY <1>1 DEF Total

\* Adding the cost of a call keeps the sums growing and the sources honest.
LEMMA CostAdded ==
  ASSUME TypeOK, NEW t \in Turn, NEW i \in Item, NEW from \in Source, AddCost(t, i, from),
         \A s \in Turn, k \in Item : source[s][k] = "unknown" <=> <<s, k>> \in unpriced
  PROVE  /\ cost' \in [Turn -> [Item -> Nat]] /\ source' \in [Turn -> [Item -> Source]]
         /\ unpriced' \subseteq Turn \X Item
         /\ \A s \in Turn, k \in Item : cost[s][k] <= cost'[s][k]
         /\ \A s \in Turn, k \in Item : source'[s][k] = "unknown" <=> <<s, k>> \in unpriced'
         /\ \A s \in Turn \ {t} : source'[s] = source[s]
         /\ \A k \in Item : k # i => source'[t][k] = source[t][k]
         /\ source'[t][i] = Combined(source[t][i], from)
<1>1. cost \in [Turn -> [Item -> Nat]] /\ source \in [Turn -> [Item -> Source]]
      /\ unpriced \subseteq Turn \X Item
  BY DEF TypeOK
<1>2. Amount(from) \in Nat
  BY DEF Amount
<1>3. \A previous \in Source : /\ Combined(previous, from) \in Source
                               /\ Combined(previous, from) = "unknown" <=>
                                    previous = "unknown" \/ from = "unknown"
  <2> SUFFICES ASSUME NEW previous \in Source
               PROVE  /\ Combined(previous, from) \in Source
                      /\ Combined(previous, from) = "unknown" <=>
                           previous = "unknown" \/ from = "unknown"
    OBVIOUS
  <2>1. CASE previous = "unknown" \/ from = "unknown"
    BY <2>1 DEF Combined, Source
  <2>2. CASE previous # "unknown" /\ from # "unknown"
    <3>1. Combined(previous, from) \in {"estimated", "provider_reported", "none"}
      BY <2>2 DEF Combined
    <3>2. QED
      BY <2>2, <3>1 DEF Source
  <2>3. QED
    BY <2>1, <2>2
<1>4. cost' = [cost EXCEPT ![t] = [cost[t] EXCEPT ![i] = cost[t][i] + Amount(from)]]
  BY DEF AddCost
<1>5. source' = [source EXCEPT ![t] = [source[t] EXCEPT ![i] = Combined(source[t][i], from)]]
  BY DEF AddCost
<1>6. unpriced' = IF from = "unknown" THEN unpriced \cup {<<t, i>>} ELSE unpriced
  BY DEF AddCost
<1>7. cost[t] \in [Item -> Nat] /\ cost[t][i] \in Nat /\ source[t] \in [Item -> Source]
      /\ source[t][i] \in Source
  BY <1>1
<1>8. cost'[t] = [cost[t] EXCEPT ![i] = cost[t][i] + Amount(from)]
      /\ \A s \in Turn \ {t} : cost'[s] = cost[s]
  BY <1>1, <1>4
<1>9. source'[t] = [source[t] EXCEPT ![i] = Combined(source[t][i], from)]
      /\ \A s \in Turn \ {t} : source'[s] = source[s]
  BY <1>1, <1>5
<1>10. cost' \in [Turn -> [Item -> Nat]]
  BY <1>1, <1>2, <1>4, <1>7
<1>11. source' \in [Turn -> [Item -> Source]]
  BY <1>1, <1>3, <1>5, <1>7
<1>12. unpriced' \subseteq Turn \X Item
  BY <1>1, <1>6
<1>13. /\ \A k \in Item : k # i => cost'[t][k] = cost[t][k] /\ source'[t][k] = source[t][k]
       /\ cost'[t][i] = cost[t][i] + Amount(from)
       /\ source'[t][i] = Combined(source[t][i], from)
  BY <1>7, <1>8, <1>9
<1>14. ASSUME NEW s \in Turn, NEW k \in Item
       PROVE  cost[s][k] <= cost'[s][k]
  <2>1. cost[s][k] \in Nat /\ cost'[s][k] \in Nat
    BY <1>1, <1>10
  <2>2. CASE s = t /\ k = i
    BY <1>2, <1>13, <2>1, <2>2
  <2>3. CASE s = t /\ k # i
    BY <1>13, <2>1, <2>3
  <2>4. CASE s # t
    BY <1>8, <2>1, <2>4
  <2>5. QED
    BY <2>2, <2>3, <2>4
<1>15. ASSUME NEW s \in Turn, NEW k \in Item
       PROVE  source'[s][k] = "unknown" <=> <<s, k>> \in unpriced'
  <2>1. <<s, k>> \in unpriced' <=> <<s, k>> \in unpriced \/ (from = "unknown" /\ s = t /\ k = i)
    BY <1>6
  <2>2. CASE s = t /\ k = i
    BY <1>3, <1>7, <1>13, <2>1, <2>2
  <2>3. CASE ~(s = t /\ k = i)
    <3>1. source'[s][k] = source[s][k]
      BY <1>9, <1>13, <2>3
    <3>2. QED
      BY <2>1, <2>3, <3>1
  <2>4. QED
    BY <2>2, <2>3
<1>16. QED
  BY <1>9, <1>10, <1>11, <1>12, <1>13, <1>14, <1>15

------------------------------------------------------------------------------
(* Records *)

\* A record that this step made.
Filed(e) ==
  /\ e \in Record /\ e.agent = agent /\ e.complete = e.priced
  /\ e.id.kind = "voice" => e.id.number = ended /\ e.total = Total(cost'[e.id.turn])
  /\ e.id.kind = "judge" => e.id.number = e.id.turn

\* A step of the agent at work: costs grow, and a record is made at most once.
AtWork ==
  /\ agent' = agent /\ ended' >= ended
  /\ \A t \in Turn, i \in Item : cost[t][i] <= cost'[t][i]
  /\ \A r \in Made' : r \in Made \/ (Filed(r) /\ ended' = ended + 1)

LEMMA MadeTyped ==
  ASSUME TypeOK
  PROVE  \A r \in Made : r \in Record
<1>1. rows \in Seq(Record) /\ posting \subseteq Record
  BY DEF TypeOK
<1>2. \A i \in DOMAIN rows : rows[i] \in Record
  BY <1>1
<1>3. QED
  BY <1>1, <1>2 DEF Made, Range

\* The parts of a record.
LEMMA RecordParts ==
  ASSUME NEW r \in Record
  PROVE  /\ r.id.turn \in Turn /\ r.id.number \in Nat /\ r.agent \in 1..MaxAgent /\ r.total \in Nat
         /\ r.id.kind \in {"voice", "judge"}
BY DEF Record

\* An envelope made of what the turn has cost says truly whether all of it had
\* a price.
LEMMA EnvelopeFiled ==
  ASSUME TypeOK, cost' \in [Turn -> [Item -> Nat]], NEW t \in Turn,
         NEW by \in {"task", "response"}, NEW hidden,
         hidden = {} <=> \A i \in Item : source'[t][i] # "unknown"
  PROVE  Filed(Envelope(t, by, cost'[t], source'[t], hidden))
<1> DEFINE e == Envelope(t, by, cost'[t], source'[t], hidden)
<1>1. /\ e.id = [kind |-> "voice", turn |-> t, number |-> ended] /\ e.agent = agent
      /\ e.by = by /\ e.total = Total(cost'[t])
  BY DEF Envelope
<1>2. e.complete = (\A i \in Item : source'[t][i] # "unknown") /\ e.priced = (hidden = {})
  BY DEF Envelope
<1>3. e.complete = e.priced /\ e.complete \in BOOLEAN /\ e.priced \in BOOLEAN
  BY <1>2
<1>4. cost'[t] \in [Item -> Nat]
  OBVIOUS
<1>5. Total(cost'[t]) \in Nat
  BY <1>4, TotalGrows DEF Item
<1>6. agent \in 1..MaxAgent /\ ended \in Nat
  BY DEF TypeOK
<1>7. e = [id |-> e.id, agent |-> e.agent, by |-> e.by, total |-> e.total,
           complete |-> e.complete, priced |-> e.priced]
  BY DEF Envelope
<1>8. e.id \in [kind : {"voice", "judge"}, turn : Turn, number : Nat]
  BY <1>1, <1>6
<1> HIDE DEF e
<1>9. e \in Record
  BY <1>1, <1>3, <1>5, <1>6, <1>7, <1>8 DEF Record
<1>10. e.id.kind = "voice" /\ e.id.turn = t /\ e.id.number = ended
  BY <1>1
<1>11. Filed(e)
  BY <1>1, <1>3, <1>9, <1>10 DEF Filed
<1>12. QED
  BY <1>11 DEF e

\* What a step of the agent at work means to the records.
LEMMA AtWorkKeepsRecords ==
  ASSUME IInv, TypeOK', AtWork
  PROVE  RecordsBehind' /\ RecordsCumulative' /\ CompleteIsHonest'
<1>1. TypeOK /\ RecordsBehind /\ RecordsCumulative /\ CompleteIsHonest
  BY DEF IInv
<1>2. agent \in Nat /\ ended \in Nat /\ ended' \in Nat /\ agent' = agent /\ ended <= ended'
  BY <1>1 DEF TypeOK, AtWork
<1>3. ASSUME NEW t \in Turn
      PROVE  /\ Total(cost[t]) \in Nat /\ Total(cost'[t]) \in Nat
             /\ Total(cost[t]) <= Total(cost'[t])
  <2>1. cost[t] \in [Item -> Nat] /\ cost'[t] \in [Item -> Nat]
        /\ \A i \in Item : cost[t][i] <= cost'[t][i]
    BY <1>1 DEF TypeOK, AtWork
  <2>2. \A i \in Item : cost'[t][i] <= cost'[t][i]
    BY <2>1
  <2>3. QED
    BY <2>1, <2>2, TotalGrows
<1>4. \A r \in Made : r \in Record
  BY <1>1, MadeTyped
<1>5. \A r \in Made' : r \in Made \/ (Filed(r) /\ ended' = ended + 1)
  BY DEF AtWork
<1>6. \A r \in Made' : r \in Record
  BY <1>4, <1>5 DEF Filed
<1>7. RecordsBehind'
  <2> SUFFICES ASSUME NEW r \in Made'
               PROVE  /\ r.agent <= agent
                      /\ r.id.kind = "voice" => r.id.number < ended'
                      /\ r.id.kind = "voice" /\ r.agent = agent => r.total <= Total(cost'[r.id.turn])
                      /\ r.id.kind = "judge" => r.id.number = r.id.turn
    BY <1>2 DEF RecordsBehind
  <2>1. /\ r.id.turn \in Turn /\ r.id.number \in Nat /\ r.agent \in Nat /\ r.total \in Nat
    BY <1>6, RecordParts
  <2>2. CASE r \in Made
    BY <1>1, <1>2, <1>3, <2>1, <2>2 DEF RecordsBehind
  <2>3. CASE Filed(r) /\ ended' = ended + 1
    BY <1>2, <1>3, <2>1, <2>3 DEF Filed
  <2>4. QED
    BY <1>5, <2>2, <2>3
<1>8. RecordsCumulative'
  <2> SUFFICES ASSUME NEW r \in Made', NEW q \in Made',
                      r.id.kind = "voice", q.id.kind = "voice", r.agent = q.agent,
                      r.id.turn = q.id.turn, r.id.number < q.id.number
               PROVE  r.total <= q.total
    BY DEF RecordsCumulative, Made
  <2>1. /\ r.id.turn \in Turn /\ r.id.number \in Nat /\ r.total \in Nat
        /\ q.id.number \in Nat /\ q.total \in Nat
    BY <1>6, RecordParts
  <2>2. CASE r \in Made /\ q \in Made
    BY <1>1, <2>2 DEF RecordsCumulative, Made
  <2>3. CASE r \in Made /\ Filed(q)
    <3>1. r.total <= Total(cost[r.id.turn]) /\ q.total = Total(cost'[r.id.turn])
      BY <1>1, <2>3 DEF RecordsBehind, Filed
    <3>2. QED
      BY <1>3, <2>1, <3>1
  <2>4. CASE Filed(r) /\ q \in Made
    <3>1. r.id.number = ended /\ q.id.number < ended
      BY <1>1, <2>4 DEF RecordsBehind, Filed
    <3>2. QED
      BY <1>2, <2>1, <3>1
  <2>5. CASE Filed(r) /\ Filed(q)
    BY <2>1, <2>5 DEF Filed
  <2>6. QED
    BY <1>5, <2>2, <2>3, <2>4, <2>5
<1>9. CompleteIsHonest'
  BY <1>1, <1>5 DEF CompleteIsHonest, Made, Filed
<1>10. QED
  BY <1>7, <1>8, <1>9

\* _emit_turn_metrics makes one record of its turn.
LEMMA TerminalFiles ==
  ASSUME IInv, NEW t \in Turn, NEW by \in {"task", "response"}, Terminal(t, by)
  PROVE  /\ UNCHANGED <<cost, source, unpriced>> /\ ended' = ended + 1
         /\ \A r \in posting' : r \in posting \/ Filed(r)
<1>1. UNCHANGED <<cost, source, unpriced>> /\ ended' = ended + 1
  BY DEF Terminal, Retained, metricVars
<1>2. UnpricedOf(t) = {} <=> \A i \in Item : source'[t][i] # "unknown"
  BY <1>1 DEF IInv, SourceHonest, UnpricedOf
<1>3. Filed(Envelope(t, by, cost'[t], source'[t], UnpricedOf(t)))
  BY <1>1, <1>2, EnvelopeFiled DEF IInv, TypeOK
<1>4. posting' = posting \cup {Envelope(t, by, cost'[t], source'[t], UnpricedOf(t))}
  BY <1>1 DEF Terminal
<1>5. QED
  BY <1>1, <1>3, <1>4

\* A step that leaves the store alone.
LEMMA RowsKept ==
  ASSUME UNCHANGED rows
  PROVE  /\ IdsUnique => IdsUnique'
         /\ \A r \in Made' : r \in Made \/ r \in posting'
BY DEF IdsUnique, Made

------------------------------------------------------------------------------
(* The steps *)

LEMMA TurnFacts ==
  /\ Turn = 1..MaxUtterance /\ Utterance = Turn /\ MaxUtterance \in Nat /\ MaxAgent \in Nat
  /\ \A t : t \in 0..MaxUtterance /\ t # 0 => t \in Turn
  /\ SttSources \subseteq Source /\ LlmSources \subseteq Source /\ TtsSources \subseteq Source
  /\ Notice \subseteq Turn
BY RecordsAssumption DEF Turn, Utterance, Notice

LEMMA CostsStay ==
  ASSUME TypeOK
  PROVE  \A t \in Turn, i \in Item : cost[t][i] <= cost[t][i]
<1>1. \A t \in Turn, i \in Item : cost[t][i] \in Nat
  BY DEF TypeOK
<1>2. QED
  BY <1>1

\* A step that books no cost: what is left to show for it.
LEMMA NoCostPreserves ==
  ASSUME IInv, TypeOK', TurnsInOrder', IdsUnique',
         UNCHANGED <<agent, cost, source, unpriced>>, counter' >= counter, ended' >= ended,
         \A r \in Made' : r \in Made \/ (Filed(r) /\ ended' = ended + 1)
  PROVE  IInv'
<1>1. TypeOK /\ SourceHonest
  BY DEF IInv
<1>2. SourceHonest'
  <2>1. counter \in Nat /\ counter' \in Nat
    BY <1>1 DEF TypeOK
  <2>2. \A t \in Turn, i \in Item : t > counter' => t > counter
    BY <2>1, TurnFacts
  <2>3. QED
    BY <1>1, <2>2 DEF SourceHonest
<1>3. AtWork
  BY <1>1, CostsStay DEF AtWork
<1>4. QED
  BY <1>2, <1>3, AtWorkKeepsRecords DEF IInv

\* A step that books the cost of a call to a turn that has begun.
LEMMA CostPreserves ==
  ASSUME IInv, TypeOK', TurnsInOrder', IdsUnique', NEW t \in Turn, NEW i \in Item,
         NEW from \in Source, AddCost(t, i, from), t <= counter', counter' >= counter,
         UNCHANGED agent, ended' >= ended,
         \A r \in Made' : r \in Made \/ (Filed(r) /\ ended' = ended + 1)
  PROVE  IInv'
<1>1. TypeOK /\ SourceHonest
  BY DEF IInv
<1>2. /\ \A s \in Turn, k \in Item : cost[s][k] <= cost'[s][k]
      /\ \A s \in Turn, k \in Item : source'[s][k] = "unknown" <=> <<s, k>> \in unpriced'
      /\ \A s \in Turn \ {t} : source'[s] = source[s]
  BY <1>1, CostAdded DEF SourceHonest
<1>3. SourceHonest'
  <2>1. counter \in Nat /\ counter' \in Nat
    BY <1>1 DEF TypeOK
  <2>2. \A s \in Turn : s > counter' => s # t /\ s > counter
    BY <2>1, TurnFacts
  <2>3. QED
    BY <1>1, <1>2, <2>2 DEF SourceHonest
<1>4. AtWork
  BY <1>2 DEF AtWork
<1>5. QED
  BY <1>3, <1>4, AtWorkKeepsRecords DEF IInv

\* The next turn id is one of the session's, and nothing is known of it.
LEMMA NextTurnId ==
  ASSUME IInv, uttered < MaxUtterance
  PROVE  /\ counter + 1 \in Turn /\ uttered + 1 \in Utterance /\ counter + 1 \in 0..(uttered + 1)
         /\ uttered + 1 \in 0..MaxUtterance /\ counter \in Nat
         /\ \A i \in Item : source[counter + 1][i] = "none"
<1>1. counter \in 0..uttered /\ uttered \in 0..MaxUtterance
  BY DEF IInv, TypeOK
<1>2. counter + 1 \in Turn /\ counter + 1 > counter
  BY <1>1, TurnFacts
<1>3. QED
  BY <1>1, <1>2, TurnFacts DEF IInv, SourceHonest

LEMMA UsableFinalPreserves ==
  ASSUME IInv, UsableFinal
  PROVE  IInv'
<1> DEFINE turn == IF joining.turn = 0 THEN counter + 1 ELSE joining.turn
<1>1. TypeOK /\ TurnsInOrder /\ SourceHonest /\ IdsUnique
  BY DEF IInv
<1>2. /\ uttered < MaxUtterance /\ uttered' = uttered + 1 /\ counter' = counter + 1
      /\ messages' = [messages EXCEPT ![turn] = AllWords]
      /\ response' = [turn |-> turn, words |-> AllWords, stage |-> "thinking"]
      /\ shown' = shown \cup {uttered + 1} /\ joining' = NoTurn
      /\ UNCHANGED <<agent, relayed, ended, posting, rows>>
  BY DEF UsableFinal
<1>3. PICK from \in SttSources : AddCost(counter + 1, "stt", from)
  BY DEF UsableFinal
<1>4. /\ counter + 1 \in Turn /\ uttered + 1 \in Utterance /\ counter + 1 \in 0..(uttered + 1)
      /\ uttered + 1 \in 0..MaxUtterance /\ counter \in Nat /\ from \in Source /\ "stt" \in Item
  BY <1>2, NextTurnId, TurnFacts DEF Item
<1>5. /\ joining.turn \in 0..MaxUtterance /\ joining.turn <= counter
      /\ joining.words \in SUBSET Utterance
  BY <1>1 DEF TypeOK, TurnsInOrder
<1>6. turn \in Turn /\ turn # 0 /\ turn <= counter + 1 /\ turn \in 0..MaxUtterance
      /\ AllWords \in SUBSET Utterance
  BY <1>4, <1>5, TurnFacts DEF AllWords
<1> HIDE DEF turn
<1>7. /\ cost' \in [Turn -> [Item -> Nat]] /\ source' \in [Turn -> [Item -> Source]]
      /\ unpriced' \subseteq Turn \X Item
  BY <1>1, <1>3, <1>4, CostAdded DEF SourceHonest
<1>8. response' \in [turn : 0..MaxUtterance, words : SUBSET Utterance,
                     stage : {"none", "thinking", "speaking", "ending"}]
      /\ joining' \in [turn : 0..MaxUtterance, words : SUBSET Utterance]
  BY <1>2, <1>6, TurnFacts DEF NoTurn
<1>9. messages' \in [Turn -> SUBSET Utterance] /\ shown' \subseteq Utterance
  BY <1>1, <1>2, <1>4, <1>6 DEF TypeOK
<1>10. TypeOK'
  BY <1>1, <1>2, <1>4, <1>7, <1>8, <1>9 DEF TypeOK
<1>11. TurnsInOrder'
  BY <1>2, <1>4, <1>6 DEF TurnsInOrder, NoTurn
<1>12. /\ IdsUnique' /\ ended' >= ended /\ counter' >= counter /\ counter + 1 <= counter'
       /\ \A r \in Made' : r \in Made
  BY <1>1, <1>2, <1>4 DEF IdsUnique, Made, TypeOK
<1>13. QED
  BY <1>2, <1>3, <1>4, <1>10, <1>11, <1>12, CostPreserves

LEMMA UnusableFinalPreserves ==
  ASSUME IInv, UnusableFinal
  PROVE  IInv'
<1> DEFINE t == counter + 1
<1>1. TypeOK /\ TurnsInOrder /\ SourceHonest /\ IdsUnique
  BY DEF IInv
<1>2. /\ uttered < MaxUtterance /\ uttered' = uttered + 1 /\ counter' = t
      /\ UNCHANGED <<agent, response, joining, relayed, rows, messages, shown>>
  BY DEF UnusableFinal
<1>3. PICK from \in SttSources :
        /\ AddCost(t, "stt", from)
        /\ ended' = ended + 1
        /\ posting' = posting \cup {Envelope(t, "task", cost'[t], source'[t],
                                             IF from = "unknown" THEN {"stt"} ELSE {})}
  BY DEF UnusableFinal
<1>4. /\ t \in Turn /\ t \in 0..(uttered + 1) /\ uttered + 1 \in 0..MaxUtterance
      /\ counter \in Nat /\ from \in Source /\ "stt" \in Item
      /\ \A i \in Item : source[t][i] = "none"
  BY <1>2, NextTurnId, TurnFacts DEF Item
<1>5. t <= counter' /\ counter' >= counter
  BY <1>2, <1>4
<1> HIDE DEF t
<1>6. /\ cost' \in [Turn -> [Item -> Nat]] /\ source' \in [Turn -> [Item -> Source]]
      /\ unpriced' \subseteq Turn \X Item
      /\ \A k \in Item : k # "stt" => source'[t][k] = source[t][k]
      /\ source'[t]["stt"] = Combined(source[t]["stt"], from)
  BY <1>1, <1>3, <1>4, CostAdded DEF SourceHonest
<1>7. source'[t]["stt"] = "unknown" <=> from = "unknown"
  BY <1>4, <1>6 DEF Combined
<1>8. (IF from = "unknown" THEN {"stt"} ELSE {}) = {} <=> \A i \in Item : source'[t][i] # "unknown"
  BY <1>4, <1>6, <1>7
<1>10. ended \in Nat /\ ended' \in Nat /\ ended' >= ended
  BY <1>1, <1>3 DEF TypeOK
<1>9. Filed(Envelope(t, "task", cost'[t], source'[t], IF from = "unknown" THEN {"stt"} ELSE {}))
  BY <1>1, <1>4, <1>6, <1>8, EnvelopeFiled
<1>11. posting' \subseteq Record
  BY <1>1, <1>3, <1>9 DEF TypeOK, Filed
<1>12. TypeOK'
  BY <1>1, <1>2, <1>4, <1>6, <1>10, <1>11 DEF TypeOK
<1>13. TurnsInOrder'
  BY <1>1, <1>2, <1>4, <1>5 DEF TurnsInOrder, TypeOK
<1>14. IdsUnique' /\ \A r \in Made' : r \in Made \/ (Filed(r) /\ ended' = ended + 1)
  BY <1>1, <1>2, <1>3, <1>9 DEF IdsUnique, Made
<1>15. QED
  BY <1>2, <1>3, <1>4, <1>5, <1>10, <1>12, <1>13, <1>14, CostPreserves

LEMMA SttErrorPreserves ==
  ASSUME IInv, SttError
  PROVE  IInv'
<1>1. TypeOK /\ TurnsInOrder /\ IdsUnique
  BY DEF IInv
<1>2. /\ uttered < MaxUtterance /\ uttered' = uttered + 1 /\ counter' = counter + 1
      /\ Terminal(counter + 1, "task")
      /\ UNCHANGED <<agent, response, joining, relayed, rows, messages, shown>>
  BY DEF SttError
<1>3. /\ counter + 1 \in Turn /\ counter + 1 \in 0..(uttered + 1)
      /\ uttered + 1 \in 0..MaxUtterance /\ counter \in Nat
  BY <1>2, NextTurnId
<1>4. /\ UNCHANGED <<cost, source, unpriced>> /\ ended' = ended + 1
      /\ \A r \in posting' : r \in posting \/ Filed(r)
  BY <1>2, <1>3, TerminalFiles
<1>5. /\ posting' \subseteq Record /\ ended' \in Nat /\ ended' >= ended /\ counter' >= counter
  BY <1>1, <1>2, <1>3, <1>4 DEF TypeOK, Filed
<1>6. TypeOK'
  BY <1>1, <1>2, <1>3, <1>4, <1>5 DEF TypeOK
<1>7. TurnsInOrder'
  BY <1>1, <1>2, <1>3 DEF TurnsInOrder, TypeOK
<1>8. IdsUnique' /\ \A r \in Made' : r \in Made \/ (Filed(r) /\ ended' = ended + 1)
  BY <1>1, <1>2, <1>4 DEF IdsUnique, Made
<1>9. QED
  BY <1>2, <1>4, <1>5, <1>6, <1>7, <1>8, NoCostPreserves

\* The language model, and the chunks of speech, are paid by the turn at work.
LEMMA ResponseCostPreserves ==
  ASSUME IInv, LlmComplete \/ TtsChunk
  PROVE  IInv'
<1>1. TypeOK /\ TurnsInOrder /\ SourceHonest /\ IdsUnique
  BY DEF IInv
<1>2. /\ response.stage \in {"thinking", "speaking"}
      /\ response' = response \/ response' = [response EXCEPT !.stage = "speaking"]
      /\ UNCHANGED <<agent, uttered, counter, joining, relayed, ended, posting, rows, messages,
                     shown>>
  BY DEF LlmComplete, TtsChunk
<1>3. PICK i \in {"llm", "tts"}, from \in Source : AddCost(response.turn, i, from)
  BY TurnFacts DEF LlmComplete, TtsChunk
<1>4. /\ response.turn \in 0..MaxUtterance /\ response.words \in SUBSET Utterance
      /\ response.turn # 0 /\ response.turn <= counter
      /\ response = [turn |-> response.turn, words |-> response.words, stage |-> response.stage]
  BY <1>1, <1>2 DEF TypeOK, TurnsInOrder
<1>5. response.turn \in Turn /\ i \in Item
  BY <1>4, TurnFacts DEF Item
<1>6. response'.turn = response.turn /\ response'.stage \in {"thinking", "speaking"}
      /\ response' \in [turn : 0..MaxUtterance, words : SUBSET Utterance,
                        stage : {"none", "thinking", "speaking", "ending"}]
  BY <1>2, <1>4
<1>7. /\ cost' \in [Turn -> [Item -> Nat]] /\ source' \in [Turn -> [Item -> Source]]
      /\ unpriced' \subseteq Turn \X Item
  BY <1>1, <1>3, <1>5, CostAdded DEF SourceHonest
<1>8. TypeOK'
  BY <1>1, <1>2, <1>6, <1>7 DEF TypeOK
<1>9. TurnsInOrder'
  BY <1>1, <1>2, <1>4, <1>6 DEF TurnsInOrder
<1>10. /\ IdsUnique' /\ \A r \in Made' : r \in Made
       /\ ended' >= ended /\ counter' >= counter
  BY <1>1, <1>2 DEF IdsUnique, Made, TypeOK
<1>11. response.turn <= counter'
  BY <1>2, <1>4
<1>12. QED
  BY <1>2, <1>3, <1>5, <1>8, <1>9, <1>10, <1>11, CostPreserves

\* A record is made of the turn at work, or those being posted are fewer.
LEMMA ReportPreserves ==
  ASSUME IInv,
         UNCHANGED <<agent, uttered, counter, relayed, rows, messages, shown>>,
         response' \in [turn : 0..MaxUtterance, words : SUBSET Utterance,
                        stage : {"none", "thinking", "speaking", "ending"}],
         joining' \in [turn : 0..MaxUtterance, words : SUBSET Utterance],
         TurnsInOrder',
         \/ response.turn \in Turn /\ \E by \in {"task", "response"} : Terminal(response.turn, by)
         \/ posting' \subseteq posting /\ UNCHANGED <<ended, metricVars>>
  PROVE  IInv'
<1>1. TypeOK /\ IdsUnique
  BY DEF IInv
<1>2. /\ UNCHANGED <<cost, source, unpriced>> /\ ended' \in {ended, ended + 1}
      /\ \A r \in posting' : r \in posting \/ (Filed(r) /\ ended' = ended + 1)
  <2>1. CASE response.turn \in Turn /\ \E by \in {"task", "response"} : Terminal(response.turn, by)
    BY <2>1, TerminalFiles
  <2>2. CASE posting' \subseteq posting /\ UNCHANGED <<ended, metricVars>>
    BY <2>2 DEF metricVars
  <2>3. QED
    BY <2>1, <2>2
<1>3. ended \in Nat /\ ended' \in Nat /\ ended' >= ended
  BY <1>1, <1>2 DEF TypeOK
<1>4. posting' \subseteq Record
  BY <1>1, <1>2 DEF TypeOK, Filed
<1>5. TypeOK'
  BY <1>1, <1>2, <1>3, <1>4 DEF TypeOK
<1>6. counter' >= counter
  BY <1>1 DEF TypeOK
<1>7. IdsUnique' /\ \A r \in Made' : r \in Made \/ (Filed(r) /\ ended' = ended + 1)
  BY <1>1, <1>2 DEF IdsUnique, Made
<1>8. QED
  BY <1>2, <1>3, <1>5, <1>6, <1>7, NoCostPreserves

LEMMA ResponsePreserves ==
  ASSUME IInv, TurnEnds \/ Finished \/ \E rejoin \in BOOLEAN : Cancel(rejoin)
  PROVE  IInv'
<1>1. TypeOK /\ TurnsInOrder
  BY DEF IInv
<1>2. /\ response.turn \in 0..MaxUtterance /\ response.words \in SUBSET Utterance
      /\ response.turn <= counter
      /\ response.turn = 0 <=> response.stage = "none"
      /\ response = [turn |-> response.turn, words |-> response.words, stage |-> response.stage]
      /\ joining \in [turn : 0..MaxUtterance, words : SUBSET Utterance] /\ joining.turn <= counter
      /\ counter \in Nat
  BY <1>1 DEF TypeOK, TurnsInOrder
<1>3. response.turn # 0 => response.turn \in Turn
  BY <1>2, TurnFacts
<1>4. /\ Idle \in [turn : 0..MaxUtterance, words : SUBSET Utterance,
                   stage : {"none", "thinking", "speaking", "ending"}]
      /\ Idle.turn = 0 /\ Idle.stage = "none" /\ 0 <= counter
  BY <1>2, TurnFacts DEF Idle
<1>5. CASE TurnEnds
  <2>1. /\ response.stage \in {"thinking", "speaking"} /\ Terminal(response.turn, "response")
        /\ response' = [response EXCEPT !.stage = "ending"]
        /\ UNCHANGED <<agent, uttered, counter, joining, relayed, rows, messages, shown>>
    BY <1>5 DEF TurnEnds
  <2>2. response.turn \in Turn
    BY <1>2, <1>3, <2>1
  <2>3. /\ response'.turn = response.turn /\ response'.stage = "ending"
        /\ response' \in [turn : 0..MaxUtterance, words : SUBSET Utterance,
                          stage : {"none", "thinking", "speaking", "ending"}]
    BY <1>2, <2>1
  <2>4. TurnsInOrder'
    BY <1>2, <2>1, <2>2, <2>3, TurnFacts DEF TurnsInOrder
  <2>5. QED
    BY <1>2, <2>1, <2>2, <2>3, <2>4, ReportPreserves
<1>6. CASE Finished
  <2>1. /\ response' = Idle
        /\ UNCHANGED <<agent, uttered, counter, joining, relayed, rows, messages, shown>>
        /\ UNCHANGED <<ended, posting, metricVars>>
    BY <1>6 DEF Finished, metricVars
  <2>2. TurnsInOrder'
    BY <1>2, <1>4, <2>1 DEF TurnsInOrder
  <2>3. QED
    BY <1>2, <1>4, <2>1, <2>2, ReportPreserves
<1>7. ASSUME NEW rejoin \in BOOLEAN, Cancel(rejoin)
      PROVE  IInv'
  <2>1. /\ response.turn # 0 /\ response' = Idle
        /\ joining' = IF rejoin THEN [turn |-> response.turn, words |-> response.words]
                                ELSE joining
        /\ UNCHANGED <<agent, uttered, counter, relayed, rows, messages, shown>>
        /\ \/ Terminal(response.turn, "task")
           \/ UNCHANGED <<ended, posting, metricVars>>
           \/ posting' = {r \in posting : r.by # "response"} /\ UNCHANGED <<ended, metricVars>>
    BY <1>7 DEF Cancel, metricVars
  <2>2. joining' \in [turn : 0..MaxUtterance, words : SUBSET Utterance] /\ joining'.turn <= counter
    <3>1. joining' = joining \/ joining' = [turn |-> response.turn, words |-> response.words]
      BY <2>1
    <3>2. QED
      BY <1>2, <3>1
  <2>3. TurnsInOrder'
    BY <1>2, <1>4, <2>1, <2>2 DEF TurnsInOrder
  <2>4. \/ Terminal(response.turn, "task")
        \/ posting' \subseteq posting /\ UNCHANGED <<ended, metricVars>>
    BY <2>1
  <2>5. QED
    BY <1>3, <1>4, <2>1, <2>2, <2>3, <2>4, ReportPreserves
<1>8. QED
  BY <1>5, <1>6, <1>7

\* A judgement reported by the phone is filed under the id of its notice.
LEMMA JudgeNoticePreserves ==
  ASSUME IInv, JudgeNotice
  PROVE  IInv'
<1>1. TypeOK /\ TurnsInOrder /\ IdsUnique
  BY DEF IInv
<1>2. PICK n \in Notice, priced \in BOOLEAN :
        /\ relayed' = relayed \cup {n} /\ ended' = ended + 1
        /\ posting' = posting \cup
             {[id |-> RecordIdOf(n, n), agent |-> agent, by |-> "task",
               total |-> IF priced THEN 1 ELSE 0, complete |-> priced, priced |-> priced]}
        /\ UNCHANGED <<agent, uttered, counter, metricVars, response, joining, rows, messages,
                       shown>>
  BY DEF JudgeNotice
<1> DEFINE e == [id |-> RecordIdOf(n, n), agent |-> agent, by |-> "task",
                 total |-> IF priced THEN 1 ELSE 0, complete |-> priced, priced |-> priced]
<1>3. n \in Turn /\ n \in Nat /\ agent \in 1..MaxAgent /\ ended \in Nat
  BY <1>1, TurnFacts DEF TypeOK
<1>4. /\ e.id = [kind |-> "judge", turn |-> n, number |-> n] /\ e.agent = agent
      /\ e.complete = e.priced
  BY DEF RecordIdOf
<1>5. e.id \in [kind : {"voice", "judge"}, turn : Turn, number : Nat]
  BY <1>3, <1>4
<1>6. (IF priced THEN 1 ELSE 0) \in Nat
  OBVIOUS
<1>7. e \in Record
  BY <1>3, <1>4, <1>5, <1>6 DEF Record
<1>8. e.id.kind = "judge" /\ e.id.number = e.id.turn
  BY <1>4
<1>9. Filed(e)
  BY <1>4, <1>7, <1>8 DEF Filed
<1>10. posting' = posting \cup {e}
  BY <1>2
<1> HIDE DEF e
<1>11. UNCHANGED <<cost, source, unpriced>> /\ ended' \in Nat /\ ended' >= ended
       /\ counter' >= counter
  BY <1>1, <1>2, <1>3 DEF metricVars, TypeOK
<1>12. TypeOK'
  BY <1>1, <1>2, <1>7, <1>10, <1>11 DEF TypeOK
<1>13. TurnsInOrder'
  BY <1>1, <1>2 DEF TurnsInOrder
<1>14. IdsUnique' /\ \A r \in Made' : r \in Made \/ (Filed(r) /\ ended' = ended + 1)
  BY <1>1, <1>2, <1>9, <1>10 DEF IdsUnique, Made
<1>15. QED
  BY <1>2, <1>11, <1>12, <1>13, <1>14, NoCostPreserves

------------------------------------------------------------------------------
(* The store *)

\* A step of the store makes no record.
LEMMA StorePreserves ==
  ASSUME IInv, TypeOK', IdsUnique', \A q \in Made' : q \in Made,
         UNCHANGED <<agent, uttered, counter, metricVars, response, joining, relayed, ended,
                     messages, shown>>
  PROVE  IInv'
<1>1. TurnsInOrder' /\ UNCHANGED <<cost, source, unpriced>>
  BY DEF IInv, TurnsInOrder, metricVars
<1>2. counter' >= counter /\ ended' >= ended
  BY DEF IInv, TypeOK
<1>3. QED
  BY <1>1, <1>2, NoCostPreserves

\* ON CONFLICT DO NOTHING: a record is stored unless its id is.
LEMMA IngestPreserves ==
  ASSUME IInv, Ingest
  PROVE  IInv'
<1>1. TypeOK /\ TurnsInOrder /\ IdsUnique /\ rows \in Seq(Record) /\ posting \subseteq Record
  BY DEF IInv, TypeOK
<1>2. PICK r \in posting :
        /\ rows' \in {rows, Inserted(r)} /\ posting' = posting \ {r}
        /\ UNCHANGED <<agent, uttered, counter, metricVars, response, joining, relayed, ended,
                       messages, shown>>
  BY DEF Ingest
<1>3. r \in Record
  BY <1>1, <1>2
<1>4. CASE rows' = rows
  <2>1. TypeOK'
    BY <1>1, <1>2, <1>4 DEF TypeOK, metricVars
  <2>2. IdsUnique' /\ \A q \in Made' : q \in Made
    BY <1>1, <1>2, <1>4 DEF IdsUnique, Made
  <2>3. QED
    BY <1>1, <1>2, <2>1, <2>2, StorePreserves
<1>5. CASE rows' = Append(rows, r) /\ \A q \in Range(rows) : q.id # r.id
  <2>1. /\ rows' \in Seq(Record) /\ Len(rows') = Len(rows) + 1 /\ Len(rows) \in Nat
        /\ rows'[Len(rows) + 1] = r /\ \A i \in 1..Len(rows) : rows'[i] = rows[i]
        /\ DOMAIN rows = 1..Len(rows) /\ DOMAIN rows' = 1..(Len(rows) + 1)
    BY <1>1, <1>3, <1>5
  <2>2. \A i \in DOMAIN rows' : i \in DOMAIN rows \/ i = Len(rows) + 1
    BY <2>1
  <2>3. TypeOK'
    BY <1>1, <1>2, <2>1 DEF TypeOK, metricVars
  <2>4. \A i \in DOMAIN rows : rows[i].id # r.id
    BY <1>5 DEF Range
  <2>5. IdsUnique'
    BY <1>1, <2>1, <2>2, <2>4 DEF IdsUnique
  <2>6. \A q \in Made' : q \in Made
    BY <1>2, <2>1, <2>2 DEF Made, Range
  <2>7. QED
    BY <1>1, <1>2, <2>3, <2>5, <2>6, StorePreserves
<1>6. QED
  BY <1>2, <1>4, <1>5 DEF Inserted

\* purge_before drops the oldest records.
LEMMA PurgePreserves ==
  ASSUME IInv, Purge
  PROVE  IInv'
<1>1. TypeOK /\ IdsUnique /\ rows \in Seq(Record)
  BY DEF IInv, TypeOK
<1>2. PICK n \in 2..Len(rows) + 1 : rows' = SubSeq(rows, n, Len(rows))
  BY DEF Purge
<1>3. UNCHANGED <<agent, uttered, counter, metricVars, response, joining, relayed, ended,
                  posting, messages, shown>>
  BY DEF Purge
<1>4. n \in Nat /\ Len(rows) \in Nat /\ DOMAIN rows = 1..Len(rows)
  BY <1>1
<1>5. /\ rows' \in Seq(Record) /\ DOMAIN rows' = 1..(Len(rows) - n + 1)
      /\ \A i \in DOMAIN rows' : i + n - 1 \in DOMAIN rows /\ rows'[i] = rows[i + n - 1]
  BY <1>1, <1>2, <1>4
<1>6. TypeOK'
  BY <1>1, <1>3, <1>5 DEF TypeOK, metricVars
<1>7. IdsUnique'
  <2> SUFFICES ASSUME NEW i \in DOMAIN rows', NEW j \in DOMAIN rows', rows'[i].id = rows'[j].id
               PROVE  i = j
    BY DEF IdsUnique
  <2>1. i + n - 1 = j + n - 1
    BY <1>1, <1>5 DEF IdsUnique
  <2>2. QED
    BY <1>4, <1>5, <2>1
<1>8. \A q \in Made' : q \in Made
  BY <1>3, <1>5 DEF Made, Range
<1>9. QED
  BY <1>3, <1>6, <1>7, <1>8, StorePreserves

\* A new agent starts without metrics; what was stored is of earlier agents.
LEMMA NewAgentPreserves ==
  ASSUME IInv, NewAgent
  PROVE  IInv'
<1>1. /\ TypeOK /\ RecordsBehind /\ IdsUnique /\ RecordsCumulative /\ CompleteIsHonest
  BY DEF IInv
<1>2. /\ agent < MaxAgent /\ agent' = agent + 1 /\ counter' = 0
      /\ cost' = NoCost /\ source' = NoSource /\ unpriced' = {}
      /\ response' = Idle /\ joining' = NoTurn /\ relayed' = {} /\ posting' = {}
      /\ UNCHANGED <<uttered, ended, rows, messages, shown>>
  BY DEF NewAgent
<1>3. /\ agent \in 1..MaxAgent /\ uttered \in 0..MaxUtterance
  BY <1>1 DEF TypeOK
<1>4. agent' \in 1..MaxAgent /\ counter' \in 0..uttered
  BY <1>2, <1>3, TurnFacts
<1>5. /\ cost' \in [Turn -> [Item -> Nat]] /\ source' \in [Turn -> [Item -> Source]]
      /\ \A t \in Turn, i \in Item : source'[t][i] = "none"
  BY <1>2 DEF NoCost, NoSource, Source
<1>6. /\ response' \in [turn : 0..MaxUtterance, words : SUBSET Utterance,
                        stage : {"none", "thinking", "speaking", "ending"}]
      /\ joining' \in [turn : 0..MaxUtterance, words : SUBSET Utterance]
      /\ response'.turn = 0 /\ response'.stage = "none" /\ joining'.turn = 0
  BY <1>2, TurnFacts DEF Idle, NoTurn
<1>7. TypeOK'
  BY <1>1, <1>2, <1>4, <1>5, <1>6 DEF TypeOK
<1>8. TurnsInOrder'
  BY <1>2, <1>6 DEF TurnsInOrder
<1>9. SourceHonest'
  BY <1>2, <1>5 DEF SourceHonest
<1>10. \A r \in Made' : r \in Made /\ r \in Range(rows) /\ r \in Record
  BY <1>1, <1>2, MadeTyped DEF Made
<1>11. RecordsBehind'
  <2> SUFFICES ASSUME NEW r \in Made'
               PROVE  /\ r.agent <= agent' /\ r.agent # agent'
                      /\ r.id.kind = "voice" => r.id.number < ended
                      /\ r.id.kind = "judge" => r.id.number = r.id.turn
    BY <1>2 DEF RecordsBehind
  <2>1. r.agent \in 1..MaxAgent /\ r.agent <= agent
    BY <1>1, <1>10, RecordParts DEF RecordsBehind
  <2>2. QED
    BY <1>1, <1>2, <1>3, <1>10, <2>1 DEF RecordsBehind
<1>12. IdsUnique' /\ RecordsCumulative' /\ CompleteIsHonest'
  BY <1>1, <1>2 DEF IdsUnique, RecordsCumulative, CompleteIsHonest
<1>13. QED
  BY <1>7, <1>8, <1>9, <1>11, <1>12 DEF IInv

------------------------------------------------------------------------------
(* The theorems *)

LEMMA InitEstablishes == Init => IInv
<1> SUFFICES ASSUME Init PROVE IInv
  OBVIOUS
<1>1. /\ agent = 1 /\ uttered = 0 /\ counter = 0 /\ cost = NoCost /\ source = NoSource
      /\ unpriced = {} /\ response = Idle /\ joining = NoTurn /\ relayed = {} /\ ended = 0
      /\ posting = {} /\ rows = <<>> /\ messages = [t \in Turn |-> {}] /\ shown = {}
  BY DEF Init
<1>2. /\ cost \in [Turn -> [Item -> Nat]] /\ source \in [Turn -> [Item -> Source]]
      /\ \A t \in Turn, i \in Item : source[t][i] = "none"
  BY <1>1 DEF NoCost, NoSource, Source
<1>3. /\ response \in [turn : 0..MaxUtterance, words : SUBSET Utterance,
                       stage : {"none", "thinking", "speaking", "ending"}]
      /\ joining \in [turn : 0..MaxUtterance, words : SUBSET Utterance]
      /\ response.turn = 0 /\ response.stage = "none" /\ joining.turn = 0
  BY <1>1, TurnFacts DEF Idle, NoTurn
<1>4. agent \in 1..MaxAgent /\ uttered \in 0..MaxUtterance /\ counter \in 0..uttered
  BY <1>1, RecordsAssumption
<1>5. rows \in Seq(Record) /\ DOMAIN rows = {}
  BY <1>1
<1>6. TypeOK
  BY <1>1, <1>2, <1>3, <1>4, <1>5 DEF TypeOK
<1>7. TurnsInOrder
  BY <1>1, <1>3 DEF TurnsInOrder
<1>8. SourceHonest
  BY <1>1, <1>2 DEF SourceHonest
<1>9. Made = {} /\ Range(rows) \cup posting = {}
  BY <1>1, <1>5 DEF Made, Range
<1>10. RecordsBehind /\ RecordsCumulative /\ CompleteIsHonest
  BY <1>9 DEF RecordsBehind, RecordsCumulative, CompleteIsHonest
<1>11. IdsUnique
  BY <1>5 DEF IdsUnique
<1>12. QED
  BY <1>6, <1>7, <1>8, <1>10, <1>11 DEF IInv

LEMMA NextPreserves == IInv /\ [Next]_vars => IInv'
<1> SUFFICES ASSUME IInv, [Next]_vars PROVE IInv'
  OBVIOUS
<1>1. CASE UsableFinal \/ UnusableFinal \/ SttError
  BY <1>1, UsableFinalPreserves, UnusableFinalPreserves, SttErrorPreserves
<1>2. CASE LlmComplete \/ TtsChunk
  BY <1>2, ResponseCostPreserves
<1>3. CASE TurnEnds \/ Finished
  BY <1>3, ResponsePreserves
<1>4. CASE SpeechStart \/ SpeechStartAtError \/ ClientCancel
  <2>1. (response.stage = "thinking") \in BOOLEAN
    OBVIOUS
  <2>2. \E rejoin \in BOOLEAN : Cancel(rejoin)
    BY <1>4, <2>1 DEF SpeechStart, SpeechStartAtError, ClientCancel
  <2>3. QED
    BY <2>2, ResponsePreserves
<1>5. CASE JudgeNotice \/ Ingest \/ Purge \/ NewAgent
  BY <1>5, JudgeNoticePreserves, IngestPreserves, PurgePreserves, NewAgentPreserves
<1>6. CASE UNCHANGED vars
  <2>1. UNCHANGED <<agent, uttered, counter, cost, source, unpriced, response, joining, relayed,
                    ended, posting, rows, messages, shown>>
    BY <1>6 DEF vars, metricVars
  <2>2. TypeOK' /\ TurnsInOrder' /\ SourceHonest' /\ IdsUnique'
    BY <2>1 DEF IInv, TypeOK, TurnsInOrder, SourceHonest, IdsUnique
  <2>3. RecordsBehind' /\ RecordsCumulative' /\ CompleteIsHonest'
    BY <2>1 DEF IInv, RecordsBehind, RecordsCumulative, CompleteIsHonest, Made
  <2>4. QED
    BY <2>2, <2>3 DEF IInv
<1>7. QED
  BY <1>1, <1>2, <1>3, <1>4, <1>5, <1>6 DEF Next

\* The inductive invariant holds in every reachable state.
THEOREM Invariance == Spec => []IInv
<1>1. Init => IInv
  BY InitEstablishes
<1>2. IInv /\ [Next]_vars => IInv'
  BY NextPreserves
<1>3. QED
  BY <1>1, <1>2, PTL DEF Spec

\* Every variable keeps its type.
THEOREM TypeCorrect == Spec => []TypeOK
<1>1. IInv => TypeOK
  BY DEF IInv
<1>2. QED
  BY <1>1, Invariance, PTL

\* A later record of a turn contains the earlier ones of the same agent
\* (TurnMetricsCollector.turn keeps the metrics of a turn that has ended).
THEOREM RecordsAddUp == Spec => []RecordsCumulative
<1>1. IInv => RecordsCumulative
  BY DEF IInv
<1>2. QED
  BY <1>1, Invariance, PTL

\* cost_complete says truly whether every call of the turn had a price
\* (_combined_cost_source never forgets an unknown one).
THEOREM CompletenessHonest == Spec => []CompleteIsHonest
<1>1. IInv => CompleteIsHonest
  BY DEF IInv
<1>2. QED
  BY <1>1, Invariance, PTL

\* A judgement is stored once, whoever reports it and however often
\* (the record id of memory_judge_notice and ON CONFLICT DO NOTHING).
THEOREM JudgementsOnce == Spec => []JudgedOnce
<1>1. IInv => JudgedOnce
  <2> SUFFICES ASSUME IInv, NEW i \in DOMAIN rows, NEW j \in DOMAIN rows,
                      rows[i].id.kind = "judge", rows[j].id.kind = "judge",
                      rows[i].id.turn = rows[j].id.turn
               PROVE  i = j
    BY DEF JudgedOnce
  <2>1. rows[i] \in Made /\ rows[j] \in Made /\ rows[i] \in Record /\ rows[j] \in Record
    BY MadeTyped DEF Made, Range, IInv
  <2>2. rows[i].id.number = rows[j].id.number
    BY <2>1 DEF IInv, RecordsBehind
  <2>3. rows[i].id = rows[j].id
    BY <2>1, <2>2 DEF Record
  <2>4. QED
    BY <2>3 DEF IInv, IdsUnique
<1>2. QED
  BY <1>1, Invariance, PTL

==============================================================================
