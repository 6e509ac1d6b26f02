--------------------------- MODULE ProfilesProofs ---------------------------
(***************************************************************************)
(* The profile of a member, for any names, any sets of fields that         *)
(* requests send and any number of requests and records.                   *)
(***************************************************************************)
EXTENDS Profiles, TLAPS

Record == [rel : Relations, name : Names, at : Nat]

TypeInv ==
  /\ data \in [Fields -> Values \cup {Absent}]
  /\ columns \in Names /\ account \in Names \cup {Null}
  /\ family \in Seq(Record)
  /\ offices \in Seq(Names \cup {Null})
  /\ DOMAIN last \subseteq Fields /\ \A f \in DOMAIN last : last[f] \in Values
  /\ calls \in Nat

\* A spelling of the first son's slot is stored with the other one.
Paired == data[Son] = Absent <=> data[SonLegacy] = Absent

IInv == TypeInv /\ Paired /\ ShownAsSent /\ RecordsFollow

-----------------------------------------------------------------------------
(* Values that are sent *)

SomeValues(v) == DOMAIN v \subseteq Fields /\ \A f \in DOMAIN v : v[f] \in Values

LEMMA SentValues == ASSUME NEW v \in Sent PROVE SomeValues(v)
BY Parameters DEF Sent, SomeValues

\* Either spelling is sent for both.
LEMMA Twins ==
  /\ \A f \in Fields : Twin(f) \in Fields /\ Twin(Twin(f)) = f
  /\ Twin(Son) = SonLegacy /\ Twin(SonLegacy) = Son
  /\ \A f \in Fields \ {Son, SonLegacy} : Twin(f) = f
BY DEF Twin, Fields, Son, SonLegacy

LEMMA Normalized ==
  ASSUME NEW v, SomeValues(v)
  PROVE  /\ DOMAIN Normalize(v) = {f \in Fields : f \in DOMAIN v \/ Twin(f) \in DOMAIN v}
         /\ \A f \in DOMAIN v : f \in DOMAIN Normalize(v) /\ Normalize(v)[f] = v[f]
         /\ \A f \in Fields : f \notin DOMAIN v /\ Twin(f) \in DOMAIN v =>
                                f \in DOMAIN Normalize(v) /\ Normalize(v)[f] = v[Twin(f)]
         /\ SomeValues(Normalize(v))
<1>1. DOMAIN Normalize(v) = {f \in Fields : f \in DOMAIN v \/ Twin(f) \in DOMAIN v}
  BY Twins DEF Normalize, SomeValues
<1>2. \A f \in DOMAIN Normalize(v) :
        Normalize(v)[f] = IF f \in DOMAIN v THEN v[f] ELSE v[Twin(f)]
  BY DEF Normalize
<1>. QED
  BY <1>1, <1>2, Twins DEF SomeValues

\* A request's values, and the name of the columns behind them.
LEMMA Sending ==
  ASSUME NEW v, SomeValues(v), NEW name \in Names
  PROVE  LET d == [f \in {"full_name"} |-> name] IN
         /\ SomeValues(d) /\ SomeValues(Over(v, d))
         /\ DOMAIN Over(v, d) = DOMAIN v \cup {"full_name"}
         /\ \A f \in DOMAIN v : Over(v, d)[f] = v[f]
         /\ "full_name" \notin DOMAIN v => Over(v, d)["full_name"] = name
BY DEF SomeValues, Over, Fields, Values

\* What is stored: what is sent, and what the caller adds to it.
LEMMA Storing ==
  ASSUME TypeInv, NEW n, SomeValues(n), NEW more, SomeValues(more)
  PROVE  LET d == Over(n, Over(more, data)) IN
         /\ d \in [Fields -> Values \cup {Absent}]
         /\ \A f \in DOMAIN n : d[f] = n[f]
         /\ \A f \in DOMAIN more : f \notin DOMAIN n => d[f] = more[f]
         /\ \A f \in Fields : f \notin DOMAIN n /\ f \notin DOMAIN more => d[f] = data[f]
<1>. DEFINE d == Over(n, Over(more, data))
<1>1. DOMAIN Over(more, data) = Fields
      /\ \A f \in Fields : Over(more, data)[f] = IF f \in DOMAIN more THEN more[f] ELSE data[f]
  BY DEF Over, SomeValues, TypeInv
<1>2. d = [f \in Fields |-> IF f \in DOMAIN n THEN n[f] ELSE Over(more, data)[f]]
  BY <1>1 DEF Over, SomeValues
<1>3. \A f \in Fields : d[f] = IF f \in DOMAIN n THEN n[f]
                               ELSE IF f \in DOMAIN more THEN more[f] ELSE data[f]
  BY <1>1, <1>2
<1>4. \A f \in Fields : d[f] \in Values \cup {Absent}
  BY <1>3 DEF SomeValues, TypeInv
<1>. QED
  BY <1>2, <1>3, <1>4 DEF SomeValues

-----------------------------------------------------------------------------
(* Family records *)

Kinds == {SpouseAliases, {"son"}}

Has(rows, aliases, name) ==
  \E i \in DOMAIN rows : rows[i].rel \in aliases /\ rows[i].name = name

LEMMA Made ==
  ASSUME NEW aliases \in Kinds
  PROVE  (CHOOSE r \in aliases : r # "wife") \in aliases
<1>1. \E r \in aliases : r # "wife"
  BY DEF Kinds, SpouseAliases
<1>. QED
  BY <1>1

\* A name that fits is recorded, a record of another relation stays, and
\* nothing but records is left.
LEMMA RenamedTyped ==
  ASSUME calls \in Nat, NEW rows \in Seq(Record), NEW aliases \in Kinds, NEW name,
         NEW out \in Renamed(rows, aliases, name)
  PROVE  /\ out \in Seq(Record)
         /\ name \in Names => Has(out, aliases, name)
<1>. DEFINE rec == [rel |-> CHOOSE r \in aliases : r # "wife", name |-> name, at |-> calls + 1]
<1>1. aliases \subseteq Relations
  BY DEF Kinds, Relations
<1>2. CASE out = rows /\ name \notin Names
  BY <1>2
<1>3. CASE name \in Names /\ out = Append(rows, rec)
  <2>1. rec \in Record /\ rec.rel \in aliases /\ rec.name = name
    BY <1>1, <1>3, Made DEF Record
  <2>2. out \in Seq(Record) /\ Len(rows) + 1 \in DOMAIN out /\ out[Len(rows) + 1] = rec
    BY <1>3, <2>1
  <2>. QED
    BY <2>1, <2>2 DEF Has
<1>4. ASSUME name \in Names, NEW i \in Eldest(rows, aliases), out = [rows EXCEPT ![i].name = name]
      PROVE  out \in Seq(Record) /\ Has(out, aliases, name)
  <2>1. i \in DOMAIN rows /\ rows[i].rel \in aliases /\ rows[i] \in Record
    BY <1>4 DEF Eldest
  <2>2. [rows[i] EXCEPT !.name = name] \in Record /\ [rows[i] EXCEPT !.name = name].rel = rows[i].rel
        /\ [rows[i] EXCEPT !.name = name].name = name
    BY <2>1, <1>4 DEF Record
  <2>3. out = [rows EXCEPT ![i] = [rows[i] EXCEPT !.name = name]]
    BY <1>4, <2>1
  <2>4. out \in Seq(Record) /\ DOMAIN out = DOMAIN rows /\ out[i] = [rows[i] EXCEPT !.name = name]
    BY <2>1, <2>2, <2>3
  <2>. QED
    BY <2>1, <2>2, <2>4 DEF Has
<1>. QED
  BY <1>2, <1>3, <1>4, Parameters DEF Renamed, Fits

LEMMA RenamedKeeps ==
  ASSUME calls \in Nat, NEW rows \in Seq(Record), NEW aliases \in Kinds, NEW name,
         NEW out \in Renamed(rows, aliases, name),
         NEW others \in Kinds, others \cap aliases = {}, NEW other, Has(rows, others, other)
  PROVE  Has(out, others, other)
<1>1. PICK j \in DOMAIN rows : rows[j].rel \in others /\ rows[j].name = other
  BY DEF Has
<1>2. j \in DOMAIN out /\ out[j] = rows[j]
  <2>1. CASE out = rows
    BY <2>1
  <2>2. ASSUME NEW rec, out = Append(rows, rec)
        PROVE  j \in DOMAIN out /\ out[j] = rows[j]
    BY <2>2
  <2>3. ASSUME NEW i \in Eldest(rows, aliases), out = [rows EXCEPT ![i].name = name]
        PROVE  j \in DOMAIN out /\ out[j] = rows[j]
    <3>1. i # j
      BY <1>1 DEF Eldest
    <3>. QED
      BY <2>3, <3>1
  <2>. QED
    BY <2>1, <2>2, <2>3 DEF Renamed
<1>. QED
  BY <1>1, <1>2 DEF Has

LEMMA WithSonKeeps ==
  ASSUME calls \in Nat, NEW rows \in Seq(Record), NEW name
  PROVE  LET out == WithSon(rows, name) IN
         /\ out \in Seq(Record)
         /\ name \in Names => Has(out, {"son"}, name)
         /\ \A aliases \in Kinds : \A other : Has(rows, aliases, other) => Has(out, aliases, other)
<1>. DEFINE out == WithSon(rows, name)
            rec == [rel |-> "son", name |-> name, at |-> calls + 1]
<1>1. CASE out = rows /\ (name \in Names => Has(rows, {"son"}, name))
  BY <1>1
<1>2. CASE name \in Names /\ out = Append(rows, rec)
  <2>1. rec \in Record
    BY <1>2 DEF Record, Relations
  <2>2. out \in Seq(Record) /\ Len(rows) + 1 \in DOMAIN out /\ out[Len(rows) + 1] = rec
        /\ \A i \in DOMAIN rows : i \in DOMAIN out /\ out[i] = rows[i]
    BY <1>2, <2>1
  <2>. QED
    BY <2>2 DEF Has
<1>. QED
  BY <1>1, <1>2 DEF WithSon, Fits, Has

\* The spouse, the first son and another son, in that order.
LEMMA FamilySynced ==
  ASSUME TypeInv, NEW n, NEW out \in SyncFamilyFields(n)
  PROVE  /\ out \in Seq(Record)
         /\ Of(n, "spouse_name") \in Names => Has(out, SpouseAliases, Of(n, "spouse_name"))
         /\ \A f \in {SonLegacy, "unmarried_son2_details"} :
              Of(n, f) \in Names => Has(out, {"son"}, Of(n, f))
<1>. DEFINE sp == Of(n, "spouse_name")  son == Of(n, SonLegacy)
            son2 == Of(n, "unmarried_son2_details")
<1>1. PICK r1, r2 : /\ r1 \in Renamed(family, SpouseAliases, sp)
                    /\ r2 \in Renamed(r1, {"son"}, son)
                    /\ out = WithSon(r2, son2)
  BY DEF SyncFamilyFields
<1>2. SpouseAliases \in Kinds /\ {"son"} \in Kinds /\ SpouseAliases \cap {"son"} = {}
  BY DEF Kinds, SpouseAliases
<1>. HIDE DEF sp, son, son2
<1>3. calls \in Nat /\ family \in Seq(Record)
  BY DEF TypeInv
<1>4. r1 \in Seq(Record) /\ (sp \in Names => Has(r1, SpouseAliases, sp))
  BY <1>1, <1>2, <1>3, RenamedTyped
<1>5. r2 \in Seq(Record) /\ (son \in Names => Has(r2, {"son"}, son))
  BY <1>1, <1>2, <1>3, <1>4, RenamedTyped
<1>6. sp \in Names => Has(r2, SpouseAliases, sp)
  BY <1>1, <1>2, <1>3, <1>4, RenamedKeeps
<1>7. /\ out \in Seq(Record)
      /\ son2 \in Names => Has(out, {"son"}, son2)
      /\ \A aliases \in Kinds : \A other : Has(r2, aliases, other) => Has(out, aliases, other)
  BY <1>1, <1>3, <1>5, WithSonKeeps
<1>8. out \in Seq(Record) /\ (sp \in Names => Has(out, SpouseAliases, sp))
      /\ (son \in Names => Has(out, {"son"}, son)) /\ (son2 \in Names => Has(out, {"son"}, son2))
  BY <1>2, <1>5, <1>6, <1>7
<1>. QED
  BY <1>8 DEF sp, son, son2

-----------------------------------------------------------------------------
(* Professional records *)

LEMMA OfficesSynced ==
  ASSUME TypeInv, NEW n, SomeValues(n)
  PROVE  LET out == SyncProfessionalFields(n)
             sent == Of(n, "group_designation")
         IN  /\ out \in Seq(Names \cup {Null})
             /\ sent \in Names \cup {Null} =>
                  (out = <<>> /\ sent = Null) \/ (out # <<>> /\ Head(out) = sent)
<1>. DEFINE out == SyncProfessionalFields(n)
            sent == Of(n, "group_designation")
<1>1. offices \in Seq(Names \cup {Null}) /\ sent \in Names \cup {Null, Long, Absent}
  BY DEF TypeInv, SomeValues, Of, Values
<1>2. CASE out = offices /\ (sent \notin Names \cup {Null} \/ (sent = Null /\ offices = <<>>))
  BY <1>1, <1>2
<1>3. CASE offices = <<>> /\ out = <<IF Fits(sent) THEN sent ELSE Null>> /\ sent # Null
  BY <1>1, <1>3 DEF Fits
<1>4. CASE offices # <<>> /\ sent \in Names \cup {Null} /\ out = ReplaceAt(offices, 1, sent)
  <2>1. Len(offices) \in Nat /\ Len(offices) # 0 /\ DOMAIN offices = 1..Len(offices)
    BY <1>1, <1>4
  <2>2. out = [offices EXCEPT ![1] = sent]
    BY <1>4 DEF ReplaceAt
  <2>3. out \in Seq(Names \cup {Null}) /\ DOMAIN out = 1..Len(offices) /\ out[1] = sent
    BY <1>1, <1>4, <2>1, <2>2
  <2>4. out # <<>> /\ Head(out) = sent
    BY <2>1, <2>3
  <2>. QED
    BY <1>4, <2>3, <2>4
<1>. QED
  BY <1>1, <1>2, <1>3, <1>4, Parameters DEF SyncProfessionalFields

-----------------------------------------------------------------------------
(* Both updates: v is sent, and "more" stored where v does not say it. *)

LEMMA Applied ==
  ASSUME IInv, NEW v, SomeValues(v), NEW more, SomeValues(more),
         DOMAIN more \subseteq {"full_name"}, ApplyValues(v, more),
         last' = Over(v, more), columns' \in Names, calls' \in Nat
  PROVE  IInv'
<1>. DEFINE n == Normalize(v)
            both == {Son, SonLegacy}
<1>1. /\ SomeValues(n)
      /\ DOMAIN n = {f \in Fields : f \in DOMAIN v \/ Twin(f) \in DOMAIN v}
      /\ \A f \in DOMAIN v : f \in DOMAIN n /\ n[f] = v[f]
      /\ \A f \in Fields : f \notin DOMAIN v /\ Twin(f) \in DOMAIN v =>
                             f \in DOMAIN n /\ n[f] = v[Twin(f)]
  BY Normalized
<1>2. /\ DOMAIN last' = DOMAIN v \cup DOMAIN more
      /\ \A f \in DOMAIN v : last'[f] = v[f]
      /\ \A f \in DOMAIN more : f \notin DOMAIN v => last'[f] = more[f]
      /\ SomeValues(last')
  BY DEF Over, SomeValues
<1>3. both \subseteq Fields /\ Twin(Son) = SonLegacy /\ Twin(SonLegacy) = Son /\ Son # SonLegacy
      /\ \A f \in Fields \ both : Twin(f) = f
  BY Twins DEF Fields, Son, SonLegacy
<1>3a. "full_name" \in Fields /\ "full_name" # Son /\ "full_name" # SonLegacy
  BY DEF Fields, Son, SonLegacy
<1>3b. \A f \in DOMAIN more : f = "full_name" /\ f \in Fields \ both /\ Twin(f) = f
  BY <1>3, <1>3a
<1>. HIDE DEF n, both
<1>4. /\ data' \in [Fields -> Values \cup {Absent}]
      /\ \A f \in DOMAIN n : data'[f] = n[f]
      /\ \A f \in DOMAIN more : f \notin DOMAIN n => data'[f] = more[f]
      /\ \A f \in Fields : f \notin DOMAIN n /\ f \notin DOMAIN more => data'[f] = data[f]
  BY <1>1, Storing DEF ApplyValues, IInv, n
<1>5. /\ family' \in Seq(Record)
      /\ Of(n, "spouse_name") \in Names => Has(family', SpouseAliases, Of(n, "spouse_name"))
      /\ \A f \in {SonLegacy, "unmarried_son2_details"} :
           Of(n, f) \in Names => Has(family', {"son"}, Of(n, f))
  BY FamilySynced DEF ApplyValues, IInv, n
<1>6. /\ offices' \in Seq(Names \cup {Null})
      /\ Of(n, "group_designation") \in Names \cup {Null} =>
           \/ offices' = <<>> /\ Of(n, "group_designation") = Null
           \/ offices' # <<>> /\ Head(offices') = Of(n, "group_designation")
  BY <1>1, OfficesSynced DEF ApplyValues, IInv, n
<1>7. account' \in Names \cup {Null}
  <2>1. account \in Names \cup {Null}
    BY DEF IInv, TypeInv
  <2>2. account' = IF account # Null /\ Fits(Of(n, "full_name")) THEN n["full_name"] ELSE account
    BY DEF ApplyValues, n
  <2>3. Fits(Of(n, "full_name")) => n["full_name"] \in Names
    BY Parameters DEF Fits, Of
  <2>. QED
    BY <2>1, <2>2, <2>3
<1>8. TypeInv'
  BY <1>2, <1>4, <1>5, <1>6, <1>7 DEF TypeInv, SomeValues
\* Either spelling is sent, and both are stored, or none is.
<1>9. Paired'
  <2>1. Son \in DOMAIN n <=> SonLegacy \in DOMAIN n
    BY <1>1, <1>3 DEF both
  <2>2. CASE Son \in DOMAIN n
    BY <1>1, <1>4, <2>1, <2>2, Parameters DEF Paired, SomeValues, Values
  <2>3. CASE Son \notin DOMAIN n
    <3>1. Son \notin DOMAIN more /\ SonLegacy \notin DOMAIN more
      BY <1>3b DEF both
    <3>. QED
      BY <1>3, <1>4, <2>1, <2>3, <3>1 DEF Paired, IInv, both
  <2>. QED
    BY <2>2, <2>3
<1>10. ShownAsSent'
  <2>. SUFFICES ASSUME Consistent', NEW f \in DOMAIN last'
                PROVE  Shown(f)' = {last'[f]}
    BY DEF ShownAsSent
  <2>1. data'[f] = last'[f] /\ last'[f] # Absent /\ f \in Fields
    <3>1. f \in DOMAIN v => data'[f] = last'[f]
      BY <1>1, <1>2, <1>4
    <3>2. f \notin DOMAIN v => data'[f] = last'[f]
      BY <1>1, <1>2, <1>4, <1>3b
    <3>. QED
      BY <1>2, <3>1, <3>2, Parameters DEF SomeValues, Values
  <2>2. CASE f \notin both
    BY <2>1, <2>2 DEF Shown, both
  <2>3. CASE f \in both
    <3>1. f \in DOMAIN v
      BY <1>2, <1>3b, <2>3
    <3>2. data'[Son] = last'[f] /\ data'[SonLegacy] = last'[f]
      <4>1. CASE both \subseteq DOMAIN v
        BY <1>1, <1>2, <1>4, <2>3, <4>1 DEF Consistent, both
      <4>2. CASE ~(both \subseteq DOMAIN v)
        BY <1>1, <1>2, <1>3, <1>4, <2>3, <3>1, <4>2 DEF both
      <4>. QED
        BY <4>1, <4>2
    <3>. QED
      BY <2>1, <2>3, <3>2 DEF Shown, both
  <2>. QED
    BY <2>2, <2>3
\* What is displayed of the columns goes to no record.
<1>11. RecordsFollow'
  <2>. DEFINE w == last'
              N == Normalize(w)
  <2>0. SomeValues(w)
    BY <1>2
  <2>. HIDE DEF w
  <2>1. /\ SomeValues(N)
        /\ DOMAIN N = {f \in Fields : f \in DOMAIN w \/ Twin(f) \in DOMAIN w}
        /\ \A f \in DOMAIN w : f \in DOMAIN N /\ N[f] = w[f]
        /\ \A f \in Fields : f \notin DOMAIN w /\ Twin(f) \in DOMAIN w =>
                               f \in DOMAIN N /\ N[f] = w[Twin(f)]
    BY <2>0, Normalized
  <2>. HIDE DEF N
  <2>2. ASSUME NEW f \in Fields, f # "full_name"
        PROVE  /\ Of(N, f) = Of(n, f)
               /\ Of(N, f) # Absent => Of(N, f) = N[f]
    <3>1. Twin(f) # "full_name"
      BY <1>3, <1>3a, <2>2 DEF both
    <3>2. f \in DOMAIN w <=> f \in DOMAIN v
      BY <1>2, <2>2 DEF w
    <3>3. Twin(f) \in DOMAIN w <=> Twin(f) \in DOMAIN v
      BY <1>2, <3>1 DEF w
    <3>4. f \in DOMAIN N <=> f \in DOMAIN n
      BY <1>1, <2>1, <3>2, <3>3
    <3>5. f \in DOMAIN n => N[f] = n[f]
      BY <1>1, <1>2, <2>1, <3>2, <3>3 DEF w
    <3>. QED
      BY <3>4, <3>5 DEF Of
  <2>3. "spouse_name" \in Fields /\ "unmarried_son2_details" \in Fields
        /\ SonLegacy \in Fields /\ "group_designation" \in Fields
        /\ SonLegacy # "full_name"
    BY DEF Fields, SonLegacy
  <2>4. Fits(Of(N, "spouse_name")) => Has(family', SpouseAliases, N["spouse_name"])
    BY <1>5, <2>2, <2>3, Parameters DEF Fits
  <2>5. \A f \in {SonLegacy, "unmarried_son2_details"} :
           Fits(Of(N, f)) => Has(family', {"son"}, N[f])
    BY <1>5, <2>2, <2>3, Parameters DEF Fits
  <2>6. Of(N, "group_designation") \in Names \cup {Null} =>
           \/ offices' = <<>> /\ N["group_designation"] = Null
           \/ offices' # <<>> /\ Head(offices') = N["group_designation"]
    BY <1>6, <2>2, <2>3, Parameters
  <2>. QED
    BY <2>4, <2>5, <2>6 DEF RecordsFollow, Recorded, Has, N, w
<1>. QED
  BY <1>8, <1>9, <1>10, <1>11 DEF IInv

-----------------------------------------------------------------------------
(* The invariant *)

\* A request that sends no profile field says nothing of the profile.
LEMMA Unsent ==
  ASSUME IInv, last' = Nothing, UNCHANGED <<data, columns, account>>,
         family' \in Seq(Record), offices' \in Seq(Names \cup {Null}), calls' \in Nat
  PROVE  IInv'
<1>1. DOMAIN Nothing = {}
  BY DEF Nothing
<1>2. TypeInv' /\ Paired'
  BY <1>1 DEF IInv, TypeInv, Paired
<1>3. ShownAsSent'
  BY <1>1 DEF ShownAsSent
<1>4. \A f : Of(Normalize(Nothing), f) = Absent
  BY <1>1 DEF Of, Normalize
<1>5. RecordsFollow'
  BY <1>4, Parameters DEF RecordsFollow, Fits
<1>. QED
  BY <1>2, <1>3, <1>5 DEF IInv

LEMMA Removed ==
  ASSUME NEW S, NEW s \in Seq(S), NEW i \in DOMAIN s
  PROVE  RemoveAt(s, i) \in Seq(S)
<1>1. SubSeq(s, 1, i - 1) \in Seq(S) /\ SubSeq(s, i + 1, Len(s)) \in Seq(S)
  <2>1. i \in 1..Len(s) /\ Len(s) \in Nat
    OBVIOUS
  <2>. QED
    BY <2>1
<1>. QED
  BY <1>1 DEF RemoveAt

LEMMA Started == Init => IInv
<1>. SUFFICES ASSUME Init
              PROVE  IInv
  OBVIOUS
<1>1. DOMAIN last = {} /\ last = Nothing
  BY DEF Init, Nothing
<1>2. TypeInv
  BY <1>1 DEF Init, TypeInv
<1>3. Paired
  BY DEF Init, Paired, Fields, Son, SonLegacy
<1>4. ShownAsSent
  BY <1>1 DEF ShownAsSent
<1>5. \A f : Of(Normalize(last), f) = Absent
  BY <1>1 DEF Of, Normalize
<1>6. RecordsFollow
  BY <1>5, Parameters DEF RecordsFollow, Fits
<1>. QED
  BY <1>2, <1>3, <1>4, <1>6 DEF IInv

LEMMA Step == IInv /\ [Next]_vars => IInv'
<1>. SUFFICES ASSUME IInv, [Next]_vars
              PROVE  IInv'
  OBVIOUS
<1>1. /\ family \in Seq(Record) /\ offices \in Seq(Names \cup {Null})
      /\ columns \in Names /\ calls \in Nat /\ calls + 1 \in Nat
  BY DEF IInv, TypeInv
<1>2. ASSUME NEW v \in Sent, UpdateProfile(v)
      PROVE  IInv'
  <2>1. SomeValues(v) /\ SomeValues(Nothing) /\ DOMAIN Nothing = {}
    BY SentValues DEF Nothing, SomeValues
  <2>2. v = Over(v, Nothing)
    <3>1. v = [f \in DOMAIN v |-> v[f]]
      BY DEF Sent
    <3>. QED
      BY <2>1, <3>1 DEF Over
  <2>3. last' = Over(v, Nothing) /\ columns' \in Names /\ calls' \in Nat
    BY <1>1, <1>2, <2>2 DEF UpdateProfile, Request
  <2>4. ApplyValues(v, Nothing)
    BY <1>2 DEF UpdateProfile
  <2>. QED
    BY <2>1, <2>3, <2>4, Applied
<1>3. ASSUME NEW v \in Sent, NEW name \in Names, UpdateMember(v, name)
      PROVE  IInv'
  <2>. DEFINE d == [f \in {"full_name"} |-> name]
  <2>1. SomeValues(v)
    BY SentValues
  <2>2. SomeValues(d) /\ DOMAIN d \subseteq {"full_name"}
    BY <2>1, Sending
  <2>3. last' = Over(v, d) /\ columns' \in Names /\ calls' \in Nat /\ ApplyValues(v, d)
    BY <1>1, <1>3 DEF UpdateMember, Request
  <2>. HIDE DEF d
  <2>. QED
    BY <2>1, <2>2, <2>3, Applied
<1>4. ASSUME NEW name \in Names, NEW rel \in Relations, CreateFamilyMember(rel, name)
      PROVE  IInv'
  <2>1. [rel |-> rel, name |-> name, at |-> calls + 1] \in Record
    BY <1>1 DEF Record
  <2>2. family' \in Seq(Record)
    BY <1>1, <1>4, <2>1 DEF CreateFamilyMember
  <2>. QED
    BY <1>1, <1>4, <2>2, Unsent DEF CreateFamilyMember, FamilyOnly, Request
<1>5. ASSUME NEW name \in Names, NEW i \in DOMAIN family, UpdateFamilyMember(i, name)
      PROVE  IInv'
  <2>1. family[i] \in Record
    BY <1>1
  <2>2. [family[i] EXCEPT !.name = name] \in Record
    BY <2>1 DEF Record
  <2>3. family' = [family EXCEPT ![i] = [family[i] EXCEPT !.name = name]]
    BY <1>5 DEF UpdateFamilyMember
  <2>4. family' \in Seq(Record)
    BY <1>1, <2>2, <2>3
  <2>. QED
    BY <1>1, <1>5, <2>4, Unsent DEF UpdateFamilyMember, FamilyOnly, Request
<1>6. ASSUME NEW i \in DOMAIN family, DeleteFamilyMember(i)
      PROVE  IInv'
  <2>1. family' \in Seq(Record)
    BY <1>1, <1>6, Removed DEF DeleteFamilyMember
  <2>. QED
    BY <1>1, <1>6, <2>1, Unsent DEF DeleteFamilyMember, FamilyOnly, Request
<1>7. ASSUME NEW designation \in Names \cup {Null}, CreateProfessionalInfo(designation)
      PROVE  IInv'
  <2>1. offices' \in Seq(Names \cup {Null})
    BY <1>1, <1>7 DEF CreateProfessionalInfo
  <2>. QED
    BY <1>1, <1>7, <2>1, Unsent DEF CreateProfessionalInfo, OfficesOnly, Request
<1>8. ASSUME NEW designation \in Names \cup {Null}, NEW i \in DOMAIN offices,
             UpdateProfessionalInfo(i, designation)
      PROVE  IInv'
  <2>1. offices' = [offices EXCEPT ![i] = designation]
    BY <1>8 DEF UpdateProfessionalInfo, ReplaceAt
  <2>2. offices' \in Seq(Names \cup {Null})
    BY <1>1, <2>1
  <2>. QED
    BY <1>1, <1>8, <2>2, Unsent DEF UpdateProfessionalInfo, OfficesOnly, Request
<1>9. ASSUME NEW i \in DOMAIN offices, DeleteProfessionalInfo(i)
      PROVE  IInv'
  <2>1. offices' \in Seq(Names \cup {Null})
    BY <1>1, <1>9, Removed DEF DeleteProfessionalInfo
  <2>. QED
    BY <1>1, <1>9, <2>1, Unsent DEF DeleteProfessionalInfo, OfficesOnly, Request
<1>10. CASE UNCHANGED vars
  <2>1. UNCHANGED <<data, columns, account, family, offices, last, calls>>
    BY <1>10 DEF vars
  <2>2. TypeInv' /\ Paired'
    BY <2>1 DEF IInv, TypeInv, Paired
  <2>3. ShownAsSent'
    <3>1. ASSUME NEW aliases
          PROVE  EldestNames(aliases)' = EldestNames(aliases)
      BY <2>1 DEF EldestNames, Eldest
    <3>2. ASSUME NEW f
          PROVE  FallbackValues(f)' = FallbackValues(f)
      BY <2>1, <3>1 DEF FallbackValues
    <3>3. ASSUME NEW f
          PROVE  Shown(f)' = Shown(f)
      BY <2>1, <3>2 DEF Shown
    <3>. QED
      BY <2>1, <3>3 DEF IInv, ShownAsSent, Consistent
  <2>4. RecordsFollow'
    BY <2>1 DEF IInv, RecordsFollow, Consistent, Recorded
  <2>. QED
    BY <2>2, <2>3, <2>4 DEF IInv
<1>. QED
  BY <1>2, <1>3, <1>4, <1>5, <1>6, <1>7, <1>8, <1>9, <1>10 DEF Next

LEMMA Invariant == Spec => []IInv
BY Started, Step, PTL DEF Spec

-----------------------------------------------------------------------------
(* Theorems *)

\* The profile shows what the last request sent, by whichever route and
\* spelling, unless it sent two values for the one slot.
THEOREM SentIsShown == Spec => []ShownAsSent
<1>1. IInv => ShownAsSent
  BY DEF IInv
<1>. QED
  BY <1>1, Invariant, PTL

\* The two spellings of the first son's slot show the same value, once either
\* is stored.
THEOREM TwinsAlike == Spec => []TwinsShownAlike
<1>1. IInv => TwinsShownAlike
  <2>. SUFFICES ASSUME IInv, data[Son] # Absent, data[SonLegacy] # Absent
                PROVE  Shown(Son) = Shown(SonLegacy)
    BY DEF IInv, Paired, TwinsShownAlike
  <2>. QED
    BY DEF Shown
<1>. QED
  BY <1>1, Invariant, PTL

\* After an update the records of the family and of the profession hold what
\* was sent.
THEOREM RecordsHold == Spec => []RecordsFollow
<1>1. IInv => RecordsFollow
  BY DEF IInv
<1>. QED
  BY <1>1, Invariant, PTL
=============================================================================
