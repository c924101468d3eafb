-------------------------- MODULE SaveResponseProofs --------------------------
(***************************************************************************)
(* Theorems about SaveResponse, for every value of its constants.          *)
(*                                                                         *)
(* What a save writes is a row whose answers have provenance, from         *)
(* whatever response and version it read; and it writes that row only in   *)
(* the round that is open when it does.                                    *)
(***************************************************************************)
EXTENDS SaveResponse, TLAPS

\* The response a save read still exists: no row is ever deleted.
BasesExist ==
  \A s \in Sessions : tab[s].base # Null => tab[s].round \in Rounds /\ rows[tab[s].round] # Null

IInv == TypeOK /\ AnswersHaveProvenance /\ BasesExist

-----------------------------------------------------------------------------
\* Maps.

\* What a map is.
LEMMA MapsAre ==
  ASSUME NEW S, NEW T, NEW f
  PROVE  f \in Maps(S, T) <=> \E D \in SUBSET S : f \in [D -> T]
BY DEF Maps

\* The domain and the values of a map.
LEMMA MapOf ==
  ASSUME NEW S, NEW T, NEW f \in Maps(S, T)
  PROVE  /\ DOMAIN f \subseteq S /\ f \in [DOMAIN f -> T]
         /\ \A x \in DOMAIN f : f[x] \in T
BY MapsAre

\* A map is what is defined on a subset.
LEMMA IsMap ==
  ASSUME NEW S, NEW T, NEW f, NEW D \in SUBSET S, f \in [D -> T]
  PROVE  f \in Maps(S, T)
BY MapsAre

\* The empty map.
LEMMA EmptyMap ==
  ASSUME NEW S, NEW T
  PROVE  <<>> \in Maps(S, T) /\ DOMAIN <<>> = {}
<1>1. DOMAIN <<>> = {} /\ <<>> \in [{} -> T]  OBVIOUS
<1> QED  BY <1>1, IsMap

\* A part of a map.
LEMMA RestrictedMap ==
  ASSUME NEW S, NEW T, NEW f \in Maps(S, T), NEW D \in SUBSET DOMAIN f
  PROVE  Restrict(f, D) \in Maps(S, T) /\ DOMAIN Restrict(f, D) = D
<1>1. D \in SUBSET S /\ \A x \in D : f[x] \in T  BY MapOf
<1>2. Restrict(f, D) \in [D -> T]  BY <1>1 DEF Restrict
<1> QED  BY <1>1, <1>2, IsMap

-----------------------------------------------------------------------------
\* What a save writes.

\* Hiding drops answers and changes none.
LEMMA DropHiddenIsMap ==
  ASSUME NEW v, NEW a \in Maps(Fields, Values)
  PROVE  DropHidden(v, a) \in Maps(Fields, Values)
<1> DEFINE shown[f \in Fields] ==
             /\ IsFieldVisible(v, f, a)
             /\ schemas[v][f] = Null \/ Trigger[f] = Null \/ shown[Trigger[f]]
           D == {f \in DOMAIN a : shown[f]}
<1>1. DropHidden(v, a) = Restrict(a, D)  BY DEF DropHidden
<1> HIDE DEF shown
<1>2. D \in SUBSET DOMAIN a  OBVIOUS
<1> QED  BY <1>1, <1>2, RestrictedMap

\* Nor does the projection of stored answers on a schema.
LEMMA SanitizedIsMap ==
  ASSUME NEW v, NEW a \in Maps(Fields, Values)
  PROVE  Sanitized(v, a) \in Maps(Fields, Values)
<1> DEFINE D == {f \in DOMAIN a \cap FieldsOf(v) : a[f] \in schemas[v][f]}
<1>1. D \in SUBSET DOMAIN a  OBVIOUS
<1> HIDE DEF D
<1>2. Restrict(a, D) \in Maps(Fields, Values)  BY <1>1, RestrictedMap
<1>3. DropHidden(v, Restrict(a, D)) \in Maps(Fields, Values)  BY <1>2, DropHiddenIsMap
<1> QED  BY <1>3 DEF Sanitized, D

\* The answers of a response, or none.
LEMMA StoredIsMap ==
  ASSUME NEW base \in Row \cup {Null}
  PROVE  Stored(base) \in Maps(Fields, Values)
BY EmptyMap DEF Stored, Row

\* The answers a save writes.
LEMMA PersistedIsMap ==
  ASSUME NEW v, NEW base \in Row \cup {Null}, NEW submitted \in Maps(Fields, Values)
  PROVE  PersistedAnswers(v, base, submitted) \in Maps(Fields, Values)
<1> DEFINE stored == Stored(base)
           changed == Changed(v, base, submitted)
           kept == DOMAIN stored \ changed
           D == kept \cup (changed \cap DOMAIN submitted)
           merged == [f \in D |-> IF f \in changed THEN submitted[f] ELSE stored[f]]
           E == DOMAIN merged \ HiddenByChange(v, stored, merged, changed)
<1>1. PersistedAnswers(v, base, submitted) = Restrict(merged, E)  BY DEF PersistedAnswers
<1>2. stored \in Maps(Fields, Values)  BY StoredIsMap
<1> HIDE DEF stored, changed
<1>3. D \in SUBSET Fields  BY <1>2, MapOf
<1>4. merged \in [D -> Values]
  <2>1. \A f \in D : (IF f \in changed THEN submitted[f] ELSE stored[f]) \in Values
    BY <1>2, MapOf
  <2> QED  BY <2>1
<1> HIDE DEF D, merged
<1>5. merged \in Maps(Fields, Values)  BY <1>3, <1>4, IsMap
<1>6. E \in SUBSET DOMAIN merged  OBVIOUS
<1> HIDE DEF E
<1> QED  BY <1>1, <1>5, <1>6, RestrictedMap

\* The fallback gives every answer a stamp.
LEMMA FallbackCovers ==
  ASSUME NEW stamps \in Maps(Fields, 0..MaxVersions), NEW a \in Maps(Fields, Values)
  PROVE  /\ WithFallback(stamps, a) \in Maps(Fields, 0..MaxVersions)
         /\ DOMAIN a \subseteq DOMAIN WithFallback(stamps, a)
<1> DEFINE D == DOMAIN stamps \cup DOMAIN a
           g == [f \in D |-> IF f \in DOMAIN stamps THEN stamps[f] ELSE 0]
<1>1. D \in SUBSET Fields  BY MapOf
<1>2. g \in [D -> 0..MaxVersions]
  <2>1. 0 \in 0..MaxVersions  BY SaveResponseAssumption
  <2>2. \A f \in DOMAIN stamps : stamps[f] \in 0..MaxVersions  BY MapOf
  <2> QED  BY <2>1, <2>2
<1>3. WithFallback(stamps, a) = g  BY DEF WithFallback
<1> HIDE DEF g
<1>4. g \in Maps(Fields, 0..MaxVersions) /\ DOMAIN g = D  BY <1>1, <1>2, IsMap
<1> QED  BY <1>3, <1>4

\* The stamps a save writes: none, or one for every answer.
LEMMA StampsCover ==
  ASSUME NEW v \in 1..MaxVersions, NEW base \in Row \cup {Null},
         NEW a \in Maps(Fields, Values), NEW changed
  PROVE  LET stamps == ReconciledStamps(v, base, a, changed)
         IN  /\ stamps \in Maps(Fields, 0..MaxVersions)
             /\ stamps = <<>> \/ DOMAIN a \subseteq DOMAIN stamps
<1> DEFINE revised == changed \cap DOMAIN a
           stamp(f) == IF f \notin revised THEN base.stamps[f]
                       ELSE IF f \in FieldsOf(v) THEN v ELSE 0
           D == DOMAIN base.stamps \cup revised
           g == [f \in D |-> stamp(f)]
           all == [f \in FieldsOf(v) |-> v]
<1>1. v \in 0..MaxVersions /\ 0 \in 0..MaxVersions  BY SaveResponseAssumption
<1>2. all \in Maps(Fields, 0..MaxVersions)
  <2>1. FieldsOf(v) \in SUBSET Fields  BY DEF FieldsOf
  <2>2. all \in [FieldsOf(v) -> 0..MaxVersions]  BY <1>1
  <2> HIDE DEF all
  <2> QED  BY <2>1, <2>2, IsMap
<1>3. ASSUME base \in Row
      PROVE  g \in Maps(Fields, 0..MaxVersions)
  <2>1. base.stamps \in Maps(Fields, 0..MaxVersions)  BY <1>3 DEF Row
  <2>2. DOMAIN base.stamps \subseteq Fields /\ DOMAIN a \subseteq Fields  BY <2>1, MapOf
  <2>3. \A f \in DOMAIN base.stamps : base.stamps[f] \in 0..MaxVersions  BY <2>1, MapOf
  <2>4. D \in SUBSET Fields /\ g \in [D -> 0..MaxVersions]
    <3>1. \A f \in D : stamp(f) \in 0..MaxVersions  BY <1>1, <2>3
    <3> QED  BY <2>2, <3>1
  <2> HIDE DEF g, D
  <2> QED  BY <2>4, IsMap
<1> HIDE DEF all, g
<1>4. \/ ReconciledStamps(v, base, a, changed) = WithFallback(all, a)
      \/ ReconciledStamps(v, base, a, changed) = <<>>
      \/ base # Null /\ ReconciledStamps(v, base, a, changed) = WithFallback(g, a)
  <2>1. CASE base = Null \/ (IsLegacy(base) /\ IsCodingComplete(v, a))
    BY <2>1 DEF ReconciledStamps, StampAll, all
  <2>2. CASE base # Null /\ IsLegacy(base) /\ ~IsCodingComplete(v, a)
    BY <2>2 DEF ReconciledStamps
  <2>3. CASE base # Null /\ ~IsLegacy(base)
    BY <2>3 DEF ReconciledStamps, g
  <2> QED  BY <2>1, <2>2, <2>3
<1> QED  BY <1>2, <1>3, <1>4, FallbackCovers, EmptyMap
\* What the UPDATE and the INSERT write: the INSERT has a version.
LEMMA PayloadIsRow ==
  ASSUME NEW v \in 1..MaxVersions, NEW base \in Row \cup {Null},
         NEW form \in Maps(Fields, Values)
  PROVE  LET new == Payload(v, base, form)
         IN  /\ new \in [answers : Maps(Fields, Values), stamps : Maps(Fields, 0..MaxVersions),
                         partial : BOOLEAN, version : 0..MaxVersions \cup {Null}]
             /\ HasProvenance(new)
             /\ base = Null => new.version \in 0..MaxVersions
<1> DEFINE submitted == DropHidden(v, form)
           changed == Changed(v, base, submitted)
           a == PersistedAnswers(v, base, submitted)
           stamps == ReconciledStamps(v, base, a, changed)
           partial == MissingRequired(v, a, stamps) # {}
           version == IF StampsCurrentSchema(v, base, a, changed) THEN v ELSE Null
           new == [answers |-> a, stamps |-> stamps, partial |-> partial, version |-> version]
<1>1. Payload(v, base, form) = new  BY DEF Payload
<1>2. submitted \in Maps(Fields, Values)  BY DropHiddenIsMap
<1> HIDE DEF submitted
<1>3. a \in Maps(Fields, Values)  BY <1>2, PersistedIsMap
<1> HIDE DEF a, changed
<1>4. /\ stamps \in Maps(Fields, 0..MaxVersions)
      /\ stamps = <<>> \/ DOMAIN a \subseteq DOMAIN stamps
  BY <1>3, StampsCover
<1> HIDE DEF stamps
<1>5. partial \in BOOLEAN  OBVIOUS
<1>6. /\ version \in 0..MaxVersions \cup {Null}
      /\ base = Null => version \in 0..MaxVersions
  <2>1. v \in 0..MaxVersions  BY SaveResponseAssumption
  <2> QED  BY <2>1 DEF StampsCurrentSchema
<1> HIDE DEF partial, version
<1>7. new \in [answers : Maps(Fields, Values), stamps : Maps(Fields, 0..MaxVersions),
               partial : BOOLEAN, version : 0..MaxVersions \cup {Null}]
  BY <1>3, <1>4, <1>5, <1>6
<1>8. HasProvenance(new)  BY <1>4 DEF HasProvenance
<1>9. base = Null => new.version \in 0..MaxVersions  BY <1>6
<1> QED  BY <1>1, <1>7, <1>8, <1>9

-----------------------------------------------------------------------------
\* The steps of a tab.

\* A step of one tab, which deletes no row.
LEMMA TabStep ==
  ASSUME IInv, NEW s \in Sessions, NEW t \in Tab, tab' = [tab EXCEPT ![s] = t],
         UNCHANGED <<schemas, round>>, saves' \in Nat,
         status' \in [Rounds -> {"none", "pendente", "em_andamento", "concluido"}],
         rows' \in [Rounds -> Row \cup {Null}], AnswersHaveProvenance',
         \A r \in Rounds : rows[r] # Null => rows'[r] # Null,
         t.at # "closed" => t.version \in 1..Version /\ t.round \in 1..round,
         t.base # Null => t.round \in Rounds /\ rows'[t.round] # Null
  PROVE  IInv'
<1>1. \A u \in Sessions : tab'[u] = IF u = s THEN t ELSE tab[u]  BY DEF IInv, TypeOK
<1>2. Version' = Version  BY DEF Version
<1>3. TypeOK'
  <2>1. tab' \in [Sessions -> Tab]  BY DEF IInv, TypeOK
  <2>2. \A u \in Sessions : tab'[u].at # "closed" =>
          tab'[u].version \in 1..Version /\ tab'[u].round \in 1..round
    BY <1>1 DEF IInv, TypeOK
  <2> QED  BY <1>2, <2>1, <2>2 DEF IInv, TypeOK
<1>4. BasesExist'  BY <1>1 DEF IInv, BasesExist
<1> QED  BY <1>3, <1>4 DEF IInv

\* A step of one tab that writes nothing.
LEMMA ReadingStep ==
  ASSUME IInv, NEW s \in Sessions, NEW t \in Tab, tab' = [tab EXCEPT ![s] = t],
         UNCHANGED <<schemas, round, rows>>, saves' \in Nat,
         status' \in [Rounds -> {"none", "pendente", "em_andamento", "concluido"}],
         t.at # "closed" => t.version \in 1..Version /\ t.round \in 1..round,
         t.base # Null => t.round \in Rounds /\ rows[t.round] # Null
  PROVE  IInv'
<1>1. rows' \in [Rounds -> Row \cup {Null}] /\ AnswersHaveProvenance'
  BY DEF IInv, TypeOK, AnswersHaveProvenance
<1> QED  BY <1>1, TabStep

\* What a tab is.
LEMMA TabIs ==
  ASSUME IInv, NEW s \in Sessions
  PROVE  /\ tab[s] \in Tab
         /\ tab[s].at # "closed" => tab[s].version \in 1..Version /\ tab[s].round \in 1..round
         /\ tab[s].base # Null => tab[s].round \in Rounds /\ rows[tab[s].round] # Null
         /\ Version \in 1..MaxVersions /\ round \in Rounds
BY DEF IInv, TypeOK, BasesExist

\* What a closed tab holds.
LEMMA ClosedIs == Closed \in Tab /\ Closed.at = "closed" /\ Closed.base = Null
<1>1. <<>> \in Maps(Fields, Values)  BY EmptyMap
<1>2. 0 \in 0..MaxRounds /\ 0 \in 0..MaxVersions  BY SaveResponseAssumption
<1> QED  BY <1>1, <1>2 DEF Closed, Tab

\* A save is over.
LEMMA QuitStep ==
  ASSUME IInv, NEW s \in Sessions, Quit(s),
         UNCHANGED <<schemas, round, rows, saves>>,
         status' \in [Rounds -> {"none", "pendente", "em_andamento", "concluido"}]
  PROVE  IInv'
<1>1. tab' = [tab EXCEPT ![s] = Closed]  BY DEF Quit
<1>2. saves' \in Nat  BY DEF IInv, TypeOK
<1> QED  BY <1>1, <1>2, ClosedIs, ReadingStep

\* The page is rendered.
LEMMA OpenStep ==
  ASSUME IInv, NEW s \in Sessions, Open(s)
  PROVE  IInv'
<1> DEFINE shown == Sanitized(Version, Stored(rows[round]))
           t == [Closed EXCEPT !.at = "open", !.round = round, !.shown = shown,
                               !.version = Version]
<1>1. Version \in 1..MaxVersions /\ round \in Rounds /\ rows[round] \in Row \cup {Null}
  BY DEF IInv, TypeOK
<1>2. shown \in Maps(Fields, Values)  BY <1>1, StoredIsMap, SanitizedIsMap
<1>3. /\ tab' = [tab EXCEPT ![s] = t] /\ UNCHANGED <<schemas, round, rows, status, saves>>
  BY DEF Open
<1>4. saves' \in Nat /\ status' \in [Rounds -> {"none", "pendente", "em_andamento", "concluido"}]
  BY <1>3 DEF IInv, TypeOK
<1>5. Version \in 0..MaxVersions /\ round \in 0..MaxRounds /\ Version \in 1..Version /\ round \in 1..round
  BY <1>1, SaveResponseAssumption DEF Rounds
<1> HIDE DEF shown
<1>6. t \in Tab  BY <1>2, <1>5, ClosedIs DEF Tab
<1>7. t.version = Version /\ t.round = round /\ t.base = Null  BY ClosedIs DEF Tab
<1> HIDE DEF t
<1> QED  BY <1>3, <1>4, <1>5, <1>6, <1>7, ReadingStep

\* The form is submitted.
LEMMA SubmitStep ==
  ASSUME IInv, NEW s \in Sessions, Submit(s)
  PROVE  IInv'
<1>1. tab[s].at = "open" /\ saves' \in Nat /\ UNCHANGED <<schemas, round, rows, status>>
  BY DEF Submit, IInv, TypeOK
<1>2. PICK form \in Maps(FieldsOf(tab[s].version), Values) :
        tab' = [tab EXCEPT ![s].at = "read", ![s].form = form, ![s].attempt = 1]
  BY DEF Submit
<1>3. form \in Maps(Fields, Values)
  BY MapsAre DEF FieldsOf
<1> DEFINE t == [tab[s] EXCEPT !.at = "read", !.form = form, !.attempt = 1]
<1>4. tab[s] \in Tab /\ tab[s].version \in 1..Version /\ tab[s].round \in 1..round
  BY <1>1, TabIs
<1>5. t \in Tab
  <2>1. 1 \in 0..2  OBVIOUS
  <2> QED  BY <1>3, <1>4, <2>1 DEF Tab
<1>6. t.version = tab[s].version /\ t.round = tab[s].round /\ t.base = tab[s].base
  BY <1>4 DEF Tab
<1>7. tab' = [tab EXCEPT ![s] = t]  BY <1>2
<1>8. status' \in [Rounds -> {"none", "pendente", "em_andamento", "concluido"}]
  BY <1>1 DEF IInv, TypeOK
<1> HIDE DEF t
<1> QED  BY <1>1, <1>4, <1>5, <1>6, <1>7, <1>8, TabIs, ReadingStep

\* The current response is read.
LEMMA ReadResponseStep ==
  ASSUME IInv, NEW s \in Sessions, ReadResponse(s)
  PROVE  IInv'
<1> DEFINE base == IF tab[s].round = round THEN rows[tab[s].round] ELSE Null
           t == [tab[s] EXCEPT !.got = @ \cup {"response"}, !.base = base]
<1>1. /\ tab[s].at = "read" /\ tab' = [tab EXCEPT ![s] = t]
      /\ UNCHANGED <<schemas, round, rows, status, saves>>
  BY DEF ReadResponse
<1>2. /\ tab[s] \in Tab /\ tab[s].version \in 1..Version /\ tab[s].round \in 1..round
      /\ round \in Rounds
  BY <1>1, TabIs
<1>3. base \in Row \cup {Null} /\ (base # Null => tab[s].round \in Rounds /\ rows[tab[s].round] # Null)
  BY <1>2 DEF IInv, TypeOK
<1>4. t \in Tab  BY <1>2, <1>3 DEF Tab
<1>5. t.version = tab[s].version /\ t.round = tab[s].round /\ t.base = base
  BY <1>2 DEF Tab
<1>6. saves' \in Nat /\ status' \in [Rounds -> {"none", "pendente", "em_andamento", "concluido"}]
  BY <1>1 DEF IInv, TypeOK
<1> HIDE DEF base, t
<1> QED  BY <1>1, <1>2, <1>3, <1>4, <1>5, <1>6, ReadingStep

\* The project is read.
LEMMA ReadProjectStep ==
  ASSUME IInv, NEW s \in Sessions, ReadProject(s)
  PROVE  IInv'
<1>1. tab[s].at = "read" /\ UNCHANGED <<schemas, round, rows, status, saves>>
  BY DEF ReadProject
<1>2. saves' \in Nat /\ status' \in [Rounds -> {"none", "pendente", "em_andamento", "concluido"}]
  BY <1>1 DEF IInv, TypeOK
<1>3. CASE tab[s].round # round
  BY <1>1, <1>2, <1>3, QuitStep DEF ReadProject
<1>4. CASE tab[s].round = round
  <2> DEFINE t == [tab[s] EXCEPT !.got = @ \cup {"project"}, !.version = Version]
  <2>1. tab' = [tab EXCEPT ![s] = t]  BY <1>4 DEF ReadProject
  <2>2. /\ tab[s] \in Tab /\ tab[s].round \in 1..round
        /\ tab[s].base # Null => tab[s].round \in Rounds /\ rows[tab[s].round] # Null
        /\ Version \in 1..MaxVersions
    BY <1>1, TabIs
  <2>3. Version \in 0..MaxVersions /\ Version \in 1..Version  BY <2>2, SaveResponseAssumption
  <2>4. t \in Tab  BY <2>2, <2>3 DEF Tab
  <2>5. t.version = Version /\ t.round = tab[s].round /\ t.base = tab[s].base
    BY <2>2 DEF Tab
  <2> HIDE DEF t
  <2> QED  BY <1>1, <1>2, <2>1, <2>2, <2>3, <2>4, <2>5, ReadingStep
<1> QED  BY <1>3, <1>4

\* A step of one tab that moves to another place.
LEMMA GoStep ==
  ASSUME IInv, NEW s \in Sessions, tab[s].at # "closed",
         NEW place \in {"insert", "sync", "refused", "keep"},
         tab' = [tab EXCEPT ![s].at = place],
         UNCHANGED <<schemas, round, saves, status>>,
         rows' \in [Rounds -> Row \cup {Null}], AnswersHaveProvenance',
         \A r \in Rounds : rows[r] # Null => rows'[r] # Null
  PROVE  IInv'
<1> DEFINE t == [tab[s] EXCEPT !.at = place]
<1>1. /\ tab[s] \in Tab /\ tab[s].version \in 1..Version /\ tab[s].round \in 1..round
      /\ tab[s].base # Null => tab[s].round \in Rounds /\ rows[tab[s].round] # Null
  BY TabIs
<1>2. t \in Tab  BY <1>1 DEF Tab
<1>3. t.version = tab[s].version /\ t.round = tab[s].round /\ t.base = tab[s].base
  BY <1>1 DEF Tab
<1>4. tab' = [tab EXCEPT ![s] = t]  OBVIOUS
<1>5. saves' \in Nat /\ status' \in [Rounds -> {"none", "pendente", "em_andamento", "concluido"}]
  BY DEF IInv, TypeOK
<1> HIDE DEF t
<1>6. /\ t.version \in 1..Version /\ t.round \in 1..round
      /\ t.base # Null => t.round \in Rounds /\ rows'[t.round] # Null
  BY <1>1, <1>3
<1> QED  BY <1>2, <1>4, <1>5, <1>6, TabStep

\* One row is written, and has provenance.
LEMMA WriteRow ==
  ASSUME IInv, NEW r \in Rounds, NEW new \in Row, HasProvenance(new),
         rows' = [rows EXCEPT ![r] = new]
  PROVE  /\ rows' \in [Rounds -> Row \cup {Null}] /\ AnswersHaveProvenance'
         /\ \A q \in Rounds : rows[q] # Null => rows'[q] # Null
<1>1. \A q \in Rounds : rows'[q] = IF q = r THEN new ELSE rows[q]  BY DEF IInv, TypeOK
<1>2. new # Null  BY ResponsesAssumption
<1>3. rows' \in [Rounds -> Row \cup {Null}]  BY DEF IInv, TypeOK
<1>4. AnswersHaveProvenance'  BY <1>1 DEF IInv, AnswersHaveProvenance
<1> QED  BY <1>1, <1>2, <1>3, <1>4

\* The UPDATE writes the row of its key, or finds none.
LEMMA UpdateStep ==
  ASSUME IInv, NEW s \in Sessions, Update(s)
  PROVE  IInv'
<1> DEFINE r == tab[s].round
           new == Payload(tab[s].version, tab[s].base, tab[s].form)
           version == IF new.version = Null THEN rows[r].version ELSE new.version
           row == [new EXCEPT !.version = version]
<1>1. tab[s].at = "read" /\ UNCHANGED <<schemas, round, status, saves>>
  BY DEF Update
<1>2. /\ tab[s] \in Tab /\ tab[s].version \in 1..Version /\ round \in Rounds
      /\ Version \in 1..MaxVersions
  BY <1>1, TabIs
<1>3. CASE r = round /\ rows[r] # Null
  <2>1. /\ rows' = [rows EXCEPT ![r] = row] /\ tab' = [tab EXCEPT ![s].at = "sync"]
    BY <1>3 DEF Update
  <2>2. tab[s].version \in 1..MaxVersions /\ tab[s].base \in Row \cup {Null}
        /\ tab[s].form \in Maps(Fields, Values)
    BY <1>2, SaveResponseAssumption DEF Tab
  <2>3. /\ new \in [answers : Maps(Fields, Values), stamps : Maps(Fields, 0..MaxVersions),
                    partial : BOOLEAN, version : 0..MaxVersions \cup {Null}]
        /\ HasProvenance(new)
    BY <2>2, PayloadIsRow
  <2>4. r \in Rounds /\ rows[r] \in Row  BY <1>2, <1>3 DEF IInv, TypeOK
  <2> HIDE DEF new
  <2>5. version \in 0..MaxVersions  BY <2>3, <2>4 DEF Row
  <2> HIDE DEF version
  <2>6. row \in Row /\ row.answers = new.answers /\ row.stamps = new.stamps
    BY <2>3, <2>5 DEF Row
  <2> HIDE DEF row
  <2>7. HasProvenance(row)  BY <2>3, <2>6 DEF HasProvenance
  <2>8. /\ rows' \in [Rounds -> Row \cup {Null}] /\ AnswersHaveProvenance'
        /\ \A q \in Rounds : rows[q] # Null => rows'[q] # Null
    BY <2>1, <2>4, <2>6, <2>7, WriteRow
  <2> QED  BY <1>1, <2>1, <2>8, GoStep
<1>4. CASE ~(r = round /\ rows[r] # Null)
  <2>1. tab' = [tab EXCEPT ![s].at = "insert"] /\ UNCHANGED rows
    BY <1>4 DEF Update
  <2>2. /\ rows' \in [Rounds -> Row \cup {Null}] /\ AnswersHaveProvenance'
        /\ \A q \in Rounds : rows[q] # Null => rows'[q] # Null
    BY <2>1 DEF IInv, TypeOK, AnswersHaveProvenance
  <2> QED  BY <1>1, <2>1, <2>2, GoStep
<1> QED  BY <1>3, <1>4

\* The INSERT is refused, or writes the first row of the round.
LEMMA InsertStep ==
  ASSUME IInv, NEW s \in Sessions, Insert(s)
  PROVE  IInv'
<1> DEFINE r == tab[s].round
           new == Payload(tab[s].version, tab[s].base, tab[s].form)
<1>1. tab[s].at = "insert" /\ UNCHANGED <<schemas, round, status, saves>>
  BY DEF Insert
<1>2. /\ tab[s] \in Tab /\ tab[s].version \in 1..Version /\ tab[s].round \in 1..round
      /\ tab[s].base # Null => tab[s].round \in Rounds /\ rows[tab[s].round] # Null
      /\ round \in Rounds /\ Version \in 1..MaxVersions
  BY <1>1, TabIs
<1>3. status' \in [Rounds -> {"none", "pendente", "em_andamento", "concluido"}] /\ saves' \in Nat
  BY <1>1 DEF IInv, TypeOK
<1>4. UNCHANGED rows =>
        /\ rows' \in [Rounds -> Row \cup {Null}] /\ AnswersHaveProvenance'
        /\ \A q \in Rounds : rows[q] # Null => rows'[q] # Null
  BY DEF IInv, TypeOK, AnswersHaveProvenance
<1>5. CASE Quit(s) /\ UNCHANGED rows
  BY <1>1, <1>3, <1>5, QuitStep
<1>6. CASE UNCHANGED rows /\ tab' = [tab EXCEPT ![s] = [tab[s] EXCEPT !.at = "refused"]]
  <2>1. tab' = [tab EXCEPT ![s].at = "refused"]  BY <1>6
  <2> QED  BY <1>1, <1>4, <1>6, <2>1, GoStep
<1>7. CASE UNCHANGED rows /\ tab' = [tab EXCEPT ![s] = Retry(tab[s])]
  <2> DEFINE t == Retry(tab[s])
  <2>1. t \in Tab
    <3>1. 2 \in 0..2 /\ {} \in SUBSET {"response", "project"}  OBVIOUS
    <3> QED  BY <1>2, <3>1 DEF Tab, Retry
  <2>2. t.version = tab[s].version /\ t.round = tab[s].round /\ t.base = tab[s].base
    BY <1>2 DEF Tab, Retry
  <2>3. tab' = [tab EXCEPT ![s] = t]  BY <1>7
  <2> HIDE DEF t
  <2>4. /\ t.version \in 1..Version /\ t.round \in 1..round
        /\ t.base # Null => t.round \in Rounds /\ rows[t.round] # Null
    BY <1>1, <1>2, <2>2
  <2>5. UNCHANGED <<schemas, round, rows>>  BY <1>1, <1>7
  <2> QED  BY <1>3, <2>1, <2>3, <2>4, <2>5, ReadingStep
<1>8. CASE /\ IsCurrentRound(r) /\ rows[r] = Null
           /\ rows' = [rows EXCEPT ![r] = new] /\ tab' = [tab EXCEPT ![s].at = "sync"]
  <2>1. r \in Rounds /\ tab[s].base = Null  BY <1>2, <1>8 DEF IsCurrentRound
  <2>2. tab[s].version \in 1..MaxVersions /\ tab[s].form \in Maps(Fields, Values)
    BY <1>2, SaveResponseAssumption DEF Tab
  <2>3. /\ new \in [answers : Maps(Fields, Values), stamps : Maps(Fields, 0..MaxVersions),
                    partial : BOOLEAN, version : 0..MaxVersions \cup {Null}]
        /\ HasProvenance(new) /\ new.version \in 0..MaxVersions
    BY <2>1, <2>2, PayloadIsRow
  <2> HIDE DEF new
  <2>4. new \in Row  BY <2>3 DEF Row
  <2>5. /\ rows' \in [Rounds -> Row \cup {Null}] /\ AnswersHaveProvenance'
        /\ \A q \in Rounds : rows[q] # Null => rows'[q] # Null
    BY <1>8, <2>1, <2>3, <2>4, WriteRow
  <2> QED  BY <1>1, <1>8, <2>5, GoStep
<1> QED  BY <1>5, <1>6, <1>7, <1>8 DEF Insert
\* The assignment is concluded, or stays.
LEMMA SyncCompleteStep ==
  ASSUME IInv, NEW s \in Sessions, SyncComplete(s)
  PROVE  IInv'
<1>1. Quit(s) /\ UNCHANGED <<schemas, round, rows, saves>>  BY DEF SyncComplete
<1>2. status' = status \/ status' = [status EXCEPT ![tab[s].round] = "concluido"]
  BY DEF SyncComplete
<1>3. status' \in [Rounds -> {"none", "pendente", "em_andamento", "concluido"}]
  BY <1>2 DEF IInv, TypeOK
<1> QED  BY <1>1, <1>3, QuitStep

\* The assignment of an incomplete answer is read.
LEMMA SyncIncompleteStep ==
  ASSUME IInv, NEW s \in Sessions, SyncIncomplete(s)
  PROVE  IInv'
<1>1. tab[s].at = "sync" /\ UNCHANGED <<schemas, round, rows, status, saves>>
  BY DEF SyncIncomplete
<1>2. CASE Quit(s)
  <2>1. status' \in [Rounds -> {"none", "pendente", "em_andamento", "concluido"}]
    BY <1>1 DEF IInv, TypeOK
  <2> QED  BY <1>1, <1>2, <2>1, QuitStep
<1>3. CASE tab' = [tab EXCEPT ![s].at = "keep"]
  <2>1. /\ rows' \in [Rounds -> Row \cup {Null}] /\ AnswersHaveProvenance'
        /\ \A q \in Rounds : rows[q] # Null => rows'[q] # Null
    BY <1>1 DEF IInv, TypeOK, AnswersHaveProvenance
  <2> QED  BY <1>1, <1>3, <2>1, GoStep
<1> QED  BY <1>2, <1>3 DEF SyncIncomplete

\* It is kept in progress.
LEMMA KeepInProgressStep ==
  ASSUME IInv, NEW s \in Sessions, KeepInProgress(s)
  PROVE  IInv'
<1>1. Quit(s) /\ UNCHANGED <<schemas, round, rows, saves>>  BY DEF KeepInProgress
<1>2. status' = status \/ status' = [status EXCEPT ![tab[s].round] = "em_andamento"]
  BY DEF KeepInProgress
<1>3. status' \in [Rounds -> {"none", "pendente", "em_andamento", "concluido"}]
  BY <1>2 DEF IInv, TypeOK
<1> QED  BY <1>1, <1>3, QuitStep

\* The page is left, or the save dies.
LEMMA OverStep ==
  ASSUME IInv, NEW s \in Sessions, Leave(s) \/ Fail(s)
  PROVE  IInv'
<1>1. Quit(s) /\ UNCHANGED <<schemas, round, rows, status, saves>>
  BY DEF Leave, Fail, Quit
<1>2. status' \in [Rounds -> {"none", "pendente", "em_andamento", "concluido"}]
  BY <1>1 DEF IInv, TypeOK
<1> QED  BY <1>1, <1>2, QuitStep

-----------------------------------------------------------------------------
\* The coordinator.

\* A schema is published: the versions that tabs read are still versions.
LEMMA PublishSchemaStep ==
  ASSUME IInv, NEW f \in Fields, NEW d \in Revisions, PublishSchema(f, d)
  PROVE  IInv'
<1> DEFINE S == [Fields -> Definitions \cup {Null}]
           last == schemas[Version]
           new == [last EXCEPT ![f] = d]
<1>1. /\ schemas \in Seq(S) /\ Version \in 1..MaxVersions /\ Version = Len(schemas)
      /\ MaxVersions \in Nat
  BY SaveResponseAssumption DEF IInv, TypeOK, Version
<1>2. last \in S  BY <1>1
<1>3. d \in Definitions \cup {Null}  BY SaveResponseAssumption
<1>4. new \in S  BY <1>2, <1>3
<1>5. schemas' = Append(schemas, new) /\ Version < MaxVersions
      /\ UNCHANGED <<round, rows, status, saves, tab>>
  BY DEF PublishSchema
<1> HIDE DEF new, S, last
<1>6. schemas' \in Seq(S) /\ Len(schemas') = Len(schemas) + 1  BY <1>1, <1>4, <1>5
<1>7. Version' = Version + 1 /\ Version' \in 1..MaxVersions
  BY <1>1, <1>5, <1>6 DEF Version
<1>8. TypeOK'
  <2>1. \A s \in Sessions : tab[s].at # "closed" =>
          tab[s].version \in 1..Version' /\ tab[s].round \in 1..round
    BY <1>1, <1>7 DEF IInv, TypeOK
  <2> QED  BY <1>5, <1>6, <1>7, <2>1 DEF IInv, TypeOK, S
<1>9. AnswersHaveProvenance' /\ BasesExist'
  BY <1>5 DEF IInv, AnswersHaveProvenance, BasesExist
<1> QED  BY <1>8, <1>9 DEF IInv

\* A round starts.
LEMMA StartRoundStep ==
  ASSUME IInv, StartRound
  PROVE  IInv'
<1>1. /\ round \in Rounds /\ round < MaxRounds /\ round' = round + 1
      /\ status' = [status EXCEPT ![round + 1] = "pendente"]
      /\ UNCHANGED <<schemas, rows, saves, tab>>
  BY DEF StartRound, IInv, TypeOK
<1>2. round' \in Rounds /\ 1..round \subseteq 1..round'
  BY <1>1, SaveResponseAssumption DEF Rounds
<1>3. status' \in [Rounds -> {"none", "pendente", "em_andamento", "concluido"}]
  BY <1>1 DEF IInv, TypeOK
<1>4. Version' = Version  BY <1>1 DEF Version
<1>5. TypeOK'  BY <1>1, <1>2, <1>3, <1>4 DEF IInv, TypeOK
<1>6. AnswersHaveProvenance' /\ BasesExist'
  BY <1>1 DEF IInv, AnswersHaveProvenance, BasesExist
<1> QED  BY <1>5, <1>6 DEF IInv

-----------------------------------------------------------------------------
\* Theorems.

\* The first version, and the response of before.
LEMMA InitOK == Init => IInv
<1> SUFFICES ASSUME Init PROVE IInv
  OBVIOUS
<1>1. schemas \in Seq([Fields -> Definitions \cup {Null}]) /\ Len(schemas) = 1
  BY SaveResponseAssumption DEF Init
<1>2. Version \in 1..MaxVersions  BY <1>1, SaveResponseAssumption DEF Version
<1>3. PICK response \in Responses :
        rows = [r \in Rounds |-> IF r = 1 THEN response ELSE Null]
  BY DEF Init
<1>4. rows \in [Rounds -> Row \cup {Null}] /\ AnswersHaveProvenance
  BY <1>3, ResponsesAssumption DEF AnswersHaveProvenance
<1>5. /\ round \in Rounds /\ saves \in Nat
      /\ status \in [Rounds -> {"none", "pendente", "em_andamento", "concluido"}]
  BY SaveResponseAssumption DEF Init, Rounds
<1>6. /\ tab \in [Sessions -> Tab]
      /\ \A s \in Sessions : tab[s].at = "closed" /\ tab[s].base = Null
  BY ClosedIs DEF Init
<1>7. BasesExist  BY <1>6 DEF BasesExist
<1> QED  BY <1>1, <1>2, <1>4, <1>5, <1>6, <1>7 DEF IInv, TypeOK

\* Every step.
LEMMA NextOK == IInv /\ [Next]_vars => IInv'
<1> SUFFICES ASSUME IInv, [Next]_vars PROVE IInv'
  OBVIOUS
<1>1. CASE UNCHANGED vars
  BY <1>1 DEF vars, IInv, TypeOK, Version, AnswersHaveProvenance, BasesExist
<1>2. ASSUME NEW s \in Sessions, Save(s) PROVE IInv'
  BY <1>2, OpenStep, OverStep, SubmitStep, ReadResponseStep, ReadProjectStep, UpdateStep,
     InsertStep, SyncCompleteStep, SyncIncompleteStep, KeepInProgressStep DEF Save
<1> QED  BY <1>1, <1>2, PublishSchemaStep, StartRoundStep DEF Next

\* The inductive invariant.
THEOREM Invariance == Spec => []IInv
BY InitOK, NextOK, PTL DEF Spec

\* Every variable keeps its type: what a save writes is a row, from whatever
\* response and version of the schema it read.
THEOREM TypeCorrect == Spec => []TypeOK
BY Invariance, PTL DEF IInv

\* Every stored answer has a key among the stamps, or the whole map is unknown.
THEOREM ProvenanceIsKept == Spec => []AnswersHaveProvenance
BY Invariance, PTL DEF IInv

\* Only the UPDATE and the INSERT write a row, that of the round that is open.
LEMMA WritesTheOpenRound ==
  ASSUME IInv, [Next]_vars, NEW r \in Rounds, r < round
  PROVE  rows'[r] = rows[r]
<1>1. CASE rows' = rows  BY <1>1
<1>2. ASSUME NEW s \in Sessions, Update(s) \/ Insert(s), rows' # rows
      PROVE  rows'[r] = rows[r]
  <2>1. \E new : rows' = [rows EXCEPT ![round] = new]
    BY <1>2 DEF Update, Insert, IsCurrentRound
  <2>2. r # round /\ round \in Rounds  BY SaveResponseAssumption DEF Rounds, IInv, TypeOK
  <2> QED  BY <2>1, <2>2 DEF IInv, TypeOK
<1> QED
  BY <1>1, <1>2 DEF Next, Save, Open, Leave, Submit, ReadResponse, ReadProject, SyncComplete,
     SyncIncomplete, KeepInProgress, Fail, PublishSchema, StartRound, vars

\* Nothing of a closed round changes, and nothing appears in it, whatever save
\* was under way when it closed.
THEOREM ClosedRoundsStayFrozen == Spec => ClosedRoundsAreFrozen
<1>1. IInv /\ [Next]_vars => \A r \in Rounds : r < round => rows'[r] = rows[r]
  BY WritesTheOpenRound
<1>2. Spec => [][\A r \in Rounds : r < round => rows'[r] = rows[r]]_vars
  BY <1>1, Invariance, PTL DEF Spec
<1> QED  BY <1>2 DEF ClosedRoundsAreFrozen

=============================================================================
