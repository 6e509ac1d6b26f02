------------------------------ MODULE Profiles ------------------------------
(***************************************************************************)
(* The profile of one member (services/profile_service.py).  A value lies  *)
(* in members.profile_data and, for some fields, also in the account, in   *)
(* the member's columns, its family records or its professional records,   *)
(* where routes of their own write it (api/v1/family.py, professional.py); *)
(* a reader sees profile_data first and the records behind it.  Two fields *)
(* of one slot, the first son's, have two spellings.                       *)
(*                                                                         *)
(* The fields kept are one of each sort.  One request at a time.           *)
(***************************************************************************)
EXTENDS Integers, Sequences, SequencesExt, TLC

CONSTANTS
  Names,      \* values that fit every column
  Long,       \* a value that fits no column
  Null,       \* the null that a client sends
  Absent,     \* not in profile_data, or not sent
  Bodies,     \* the sets of fields that requests send
  MaxRows,    \* bound: family records, professional records
  MaxCalls    \* bound: requests

Son == "unmarried_son1_details"     \* and in the legacy spelling:
SonLegacy == "son_name"
Fields == {"full_name", "spouse_name", Son, SonLegacy, "unmarried_son2_details",
           "group_designation"}

ASSUME Parameters ==
  /\ Long # Null /\ Long # Absent /\ Null # Absent
  /\ {Long, Null, Absent} \cap Names = {}
  /\ MaxRows \in Nat /\ MaxCalls \in Nat
  /\ \A F \in Bodies : F \subseteq Fields

Values == Names \cup {Long, Null}

\* PROFILE_FIELD_PAIRS
Twin(f) == CASE f = Son -> SonLegacy [] f = SonLegacy -> Son [] OTHER -> f

Sent == UNION {[F -> Values] : F \in Bodies}

SpouseAliases == {"spouse", "wife"}
Relations == SpouseAliases \cup {"son"}

VARIABLES
  data,      \* members.profile_data
  columns,   \* first, middle and last name of the member
  account,   \* users.full_name, Null where the member has no account
  family,    \* the family records: [rel, name, at], "at" in order of created_at
  offices,   \* the designations of the professional records, eldest first
  last,      \* history: the profile fields sent by the last request
  calls

vars == <<data, columns, account, family, offices, last, calls>>

Nothing == [f \in {} |-> Null]

Init ==
  /\ data = [f \in Fields |-> Absent]
  /\ columns \in Names /\ account \in {Null, columns}
  /\ family = <<>> /\ offices = <<>>
  /\ last = Nothing
  /\ calls = 0

-----------------------------------------------------------------------------
(* Reading *)

\* The eldest of the records; records of one transaction are of one age.
Eldest(rows, aliases) ==
  {i \in DOMAIN rows : /\ rows[i].rel \in aliases
                       /\ \A j \in DOMAIN rows : rows[j].rel \in aliases => rows[i].at <= rows[j].at}

EldestNames(aliases) ==
  IF Eldest(family, aliases) = {} THEN {Null}
  ELSE {family[i].name : i \in Eldest(family, aliases)}

\* What is shown of a field that profile_data does not hold.
FallbackValues(f) ==
  CASE f = "full_name" -> {IF account # Null THEN account ELSE columns}
    [] f = "spouse_name" -> EldestNames(SpouseAliases)
    [] f = SonLegacy -> EldestNames({"son"})
    [] f = "group_designation" -> {IF offices = <<>> THEN Null ELSE Head(offices)}
    [] OTHER -> {Null}

\* Faulty: each spelling is read for itself.
ShownAlone(f) == IF data[f] # Absent THEN {data[f]} ELSE FallbackValues(f)

\* get_profile_dict: what profile_data holds, under either spelling.
Shown(f) ==
  LET Held(g) == data[g] \notin {Absent, Null}
  IN  CASE f \in {Son, SonLegacy} /\ Held(Son) -> {data[Son]}
        [] f \in {Son, SonLegacy} /\ ~Held(Son) /\ Held(SonLegacy) -> {data[SonLegacy]}
        [] OTHER -> IF data[f] # Absent THEN {data[f]} ELSE FallbackValues(f)

-----------------------------------------------------------------------------
(* Writing *)

\* Faulty: a spelling that is sent leaves the other one as it was.
NormalizeAsSent(v) == v

\* _normalize_values: one spelling sent is both.
Normalize(v) ==
  [f \in DOMAIN v \cup {Twin(f) : f \in DOMAIN v} |-> IF f \in DOMAIN v THEN v[f] ELSE v[Twin(f)]]

\* v, and what "more" says of other fields.
Over(v, more) ==
  [f \in DOMAIN v \cup DOMAIN more |-> IF f \in DOMAIN v THEN v[f] ELSE more[f]]

Of(v, f) == IF f \in DOMAIN v THEN v[f] ELSE Absent
Fits(x) == x \in Names

\* A record is made, or the eldest one is given the name; null leaves it.
Renamed(rows, aliases, name) ==
  IF name \in {Absent, Null} THEN {rows}
  ELSE IF Eldest(rows, aliases) = {}
       THEN {IF Fits(name) THEN Append(rows, [rel |-> CHOOSE r \in aliases : r # "wife",
                                              name |-> name, at |-> calls + 1])
             ELSE rows}
  ELSE {IF Fits(name) THEN [rows EXCEPT ![i].name = name] ELSE rows : i \in Eldest(rows, aliases)}

\* The other sons are known by their names.
WithSon(rows, name) ==
  IF ~Fits(name) \/ \E i \in DOMAIN rows : rows[i].rel = "son" /\ rows[i].name = name
  THEN rows
  ELSE Append(rows, [rel |-> "son", name |-> name, at |-> calls + 1])

\* Faulty: the other sons come first.
SyncOthersFirst(v) ==
  UNION {Renamed(rows, {"son"}, Of(v, SonLegacy)) :
           rows \in {WithSon(r, Of(v, "unmarried_son2_details")) :
                       r \in Renamed(family, SpouseAliases, Of(v, "spouse_name"))}}

\* _sync_family_fields: the records it can leave.  They go by the legacy spelling.
SyncFamilyFields(v) ==
  {WithSon(rows, Of(v, "unmarried_son2_details")) :
     rows \in UNION {Renamed(r, {"son"}, Of(v, SonLegacy)) :
                       r \in Renamed(family, SpouseAliases, Of(v, "spouse_name"))}}

\* _sync_professional_fields
SyncProfessionalFields(v) ==
  LET sent == Of(v, "group_designation") IN
  CASE sent = Absent \/ (sent = Null /\ offices = <<>>) -> offices
    [] sent # Absent /\ sent # Null /\ offices = <<>> -> <<IF Fits(sent) THEN sent ELSE Null>>
    [] OTHER -> IF sent = Long THEN offices ELSE ReplaceAt(offices, 1, sent)

Request(sent) == calls < MaxCalls /\ calls' = calls + 1 /\ last' = sent

\* apply_values, and what the caller then stores in profile_data itself.
ApplyValues(v, more) ==
  LET n == Normalize(v) IN
  /\ data' = Over(n, Over(more, data))
  /\ account' = IF account # Null /\ Fits(Of(n, "full_name")) THEN n["full_name"] ELSE account
  /\ family' \in SyncFamilyFields(n)
  /\ offices' = SyncProfessionalFields(n)

\* PUT /profile, and the update of a row of the registration sheet
UpdateProfile(v) == Request(v) /\ ApplyValues(v, Nothing) /\ UNCHANGED columns

\* PATCH /members/{id} with a name in its columns: the name that is displayed
\* follows, unless it is sent itself.
UpdateMember(v, name) ==
  LET displayed == [f \in {"full_name"} |-> name] IN
  /\ account = Null \/ Of(v, "full_name") # Long     \* users.full_name refuses it
  /\ Request(Over(v, displayed))
  /\ columns' = name
  /\ ApplyValues(v, displayed)

\* The records' own routes look at nothing else.
FamilyOnly == Request(Nothing) /\ UNCHANGED <<data, columns, account, offices>>

CreateFamilyMember(rel, name) ==
  /\ FamilyOnly
  /\ Len(family) < MaxRows
  /\ family' = Append(family, [rel |-> rel, name |-> name, at |-> calls + 1])

UpdateFamilyMember(i, name) == FamilyOnly /\ family' = [family EXCEPT ![i].name = name]
DeleteFamilyMember(i) == FamilyOnly /\ family' = RemoveAt(family, i)

OfficesOnly == Request(Nothing) /\ UNCHANGED <<data, columns, account, family>>

CreateProfessionalInfo(designation) ==
  OfficesOnly /\ Len(offices) < MaxRows /\ offices' = Append(offices, designation)
UpdateProfessionalInfo(i, designation) ==
  OfficesOnly /\ offices' = ReplaceAt(offices, i, designation)
DeleteProfessionalInfo(i) == OfficesOnly /\ offices' = RemoveAt(offices, i)

Next ==
  \/ \E v \in Sent : UpdateProfile(v) \/ \E name \in Names : UpdateMember(v, name)
  \/ \E name \in Names : \/ \E rel \in Relations : CreateFamilyMember(rel, name)
                         \/ \E i \in DOMAIN family : UpdateFamilyMember(i, name)
  \/ \E i \in DOMAIN family : DeleteFamilyMember(i)
  \/ \E d \in Names \cup {Null} : \/ CreateProfessionalInfo(d)
                                  \/ \E i \in DOMAIN offices : UpdateProfessionalInfo(i, d)
  \/ \E i \in DOMAIN offices : DeleteProfessionalInfo(i)

Spec == Init /\ [][Next]_vars

-----------------------------------------------------------------------------
(* Properties *)

\* The two spellings are not sent apart from each other.
Consistent == {Son, SonLegacy} \subseteq DOMAIN last => last[Son] = last[SonLegacy]

(***************************************************************************)
(* The profile shows what the last request sent, whatever was stored       *)
(* before, in which spelling, and by which route: "or a rename would       *)
(* silently not show up" (members.py:549).                                 *)
(***************************************************************************)
ShownAsSent == Consistent => \A f \in DOMAIN last : Shown(f) = {last[f]}

(***************************************************************************)
(* Once either spelling of the first son is stored, both show the same:    *)
(* "both spellings of the same slot always hold the same values"           *)
(* (PROFILE_FIELD_PAIRS, profile_service.py:84).  Before that, a record    *)
(* of the family shows under the legacy spelling alone.                    *)
(***************************************************************************)
TwinsShownAlike ==
  (data[Son] # Absent \/ data[SonLegacy] # Absent) => Shown(Son) = Shown(SonLegacy)

(***************************************************************************)
(* After an update the directory's records hold the names that were sent,  *)
(* those of two sons in two records, and the designation is that of the    *)
(* record the profile reads.  A null stays in profile_data: it clears the  *)
(* designation, and no name.                                               *)
(***************************************************************************)
Recorded(aliases, name) ==
  \E i \in DOMAIN family : family[i].rel \in aliases /\ family[i].name = name

RecordsFollow ==
  Consistent =>
    LET n == Normalize(last) IN
    /\ Fits(Of(n, "spouse_name")) => Recorded(SpouseAliases, n["spouse_name"])
    /\ \A f \in {SonLegacy, "unmarried_son2_details"} :
         Fits(Of(n, f)) => Recorded({"son"}, n[f])
    /\ Of(n, "group_designation") \in Names \cup {Null} =>
         (offices = <<>> /\ n["group_designation"] = Null)
           \/ (offices # <<>> /\ Head(offices) = n["group_designation"])
=============================================================================
