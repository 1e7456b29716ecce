-------------------------- MODULE OrganisationProofs --------------------------
(***************************************************************************)
(* Theorems about what an organisation has: Integrations, Agents and the   *)
(* catalog of its MCP servers (ToolBridges).                               *)
(*                                                                         *)
(* Integrations: for any clients and keys and any number of edits.  While  *)
(* no edit has met another writer, at most one edit is on its way to the   *)
(* local store, which it leaves in order, step by step, and all that       *)
(* lookups bring there is what the service holds.                          *)
(*                                                                         *)
(* Agents: for any users and projects and any number of requests.          *)
(*                                                                         *)
(* ToolBridges: for any servers, bridges at a time and events of programs. *)
(***************************************************************************)
EXTENDS Agents, Integrations, ToolBridges, FiniteSetTheorems, TLAPS

-----------------------------------------------------------------------------
(* Integrations. *)

Stages == {"idle", "upsert", "mirror", "row", "prune", "unkey", "sync", "key", "ended"}
Pending(c) == ask[c] \in {"upsert", "mirror", "row", "prune", "unkey"}
NonePending == \A c \in Clients : ~Pending(c)

\* The integration and the key that count.
TrueRow == IF hosted THEN canon ELSE shadow
TrueKey == IF hosted THEN canonKey ELSE shadowKey

Types ==
    /\ IntegrationTypeOK
    /\ \A c \in Clients : ask[c] \in {"upsert", "mirror"} => how[c] \in KeyEdits

\* An integration says truly whether it has a key, and one that is gone has none.
TellsOfKey(i, key) ==
    /\ i.here => (i.keyed <=> key # NoKey)
    /\ ~i.here => i = Nothing /\ key = NoKey

\* At the service that always holds.
ServiceTells == hosted => TellsOfKey(canon, canonKey)

\* Lookups copy what a service says, and edits start from the local store without one.
Paired == \A c \in Clients : IF hosted THEN ask[c] # "upsert" ELSE ask[c] # "sync"

OneEditor == calm => \A c, d \in Clients : Pending(c) /\ Pending(d) => c = d

\* What is on its way to the local store makes it a true copy of the service's.
Mirroring ==
    hosted /\ calm =>
        /\ \A c \in Clients : ask[c] \in {"sync", "mirror", "row"} => got[c] = canon
        /\ \A c \in Clients : ask[c] = "mirror" => KeyAfter(shadowKey, how[c]) = canonKey
        /\ \A c \in Clients : ask[c] = "row" => shadowKey = canonKey
        /\ \A c \in Clients :
               ask[c] \in {"prune", "unkey"} => canon = Nothing /\ canonKey = NoKey
        /\ \A c \in Clients : ask[c] = "unkey" => shadow = Nothing
        /\ NonePending => shadow = canon /\ shadowKey = canonKey

\* Without one, an edit leaves there an integration that tells of its key.
Writing ==
    ~hosted /\ calm =>
        /\ \A c \in Clients : ask[c] = "upsert" => TellsOfKey(shadow, shadowKey)
        /\ \A c \in Clients : ask[c] \in {"upsert", "mirror", "row"} => got[c].here
        /\ \A c \in Clients :
               ask[c] = "mirror" =>
                   (got[c].keyed <=> KeyAfter(shadowKey, how[c]) # NoKey)
        /\ \A c \in Clients : ask[c] = "row" => (got[c].keyed <=> shadowKey # NoKey)
        /\ \A c \in Clients : ask[c] = "unkey" => shadow = Nothing
        /\ NonePending => TellsOfKey(shadow, shadowKey)

\* A call that has met no edit is on its way to what the data demand.
OnTheWay(c) ==
    /\ calm /\ NonePending
    /\ ask[c] \in {"sync", "key", "ended"}
    /\ ask[c] = "ended" => result[c] = due[c]
    /\ ask[c] # "ended" => due[c] = Outcome(TrueRow, TrueKey, how[c])
    /\ ask[c] = "key" => Fits(TrueRow, how[c])
Calls == \A c \in Clients : due[c] # "any" => OnTheWay(c)

IntegrationInv ==
    Types /\ ServiceTells /\ Paired /\ OneEditor /\ Mirroring /\ Writing /\ Calls

LEMMA RowTypes ==
    /\ Nothing \in Integration
    /\ \A key \in Keys \cup {NoKey} : Written(key) \subseteq Integration
  <1>1. Nothing \in Integration BY DEF Nothing, Integration
  <1>2. ASSUME NEW key \in Keys \cup {NoKey}, NEW i \in Written(key)
        PROVE  i \in Integration
    <2>1. PICK b \in BOOLEAN : i = [here |-> TRUE, on |-> b, keyed |-> key # NoKey]
      BY DEF Written
    <2>2. (key # NoKey) \in BOOLEAN OBVIOUS
    <2> HIDE DEF Written
    <2> QED BY <2>1, <2>2, Zenon DEF Integration
  <1> QED BY <1>1, <1>2

LEMMA KeyTypes ==
    ASSUME NEW key \in Keys \cup {NoKey}, NEW edit \in KeyEdits
    PROVE  KeyAfter(key, edit) \in Keys \cup {NoKey}
  BY DEF KeyAfter, KeyEdits

LEMMA OutcomeTypes ==
    ASSUME NEW i, NEW key \in Keys \cup {NoKey}, NEW path
    PROVE  Outcome(i, key, path) \in Keys \cup {NoKey, "any", "refused"}
  BY DEF Outcome

\* An integration that will not do is one whose call is to be refused.
LEMMA UnfitIsRefused ==
    ASSUME IntegrationInv, hosted \/ (calm /\ NonePending), NEW path, ~Fits(TrueRow, path)
    PROVE  Outcome(TrueRow, TrueKey, path) = "refused"
  <1>1. TellsOfKey(TrueRow, TrueKey)
    BY DEF IntegrationInv, ServiceTells, Writing, TrueRow, TrueKey
  <1> QED BY <1>1 DEF TellsOfKey, Fits, Outcome

\* Nobody is editing just when nobody is to write an edit.
LEMMA NoneUnderWay == EditsUnderWay = {} <=> NonePending
  BY DEF EditsUnderWay, NonePending, Pending

\* The steps of an edit that begins while nobody is to write.
LEMMA NobodyWrites ==
    ASSUME Writers = {}
    PROVE  NonePending /\ \A c \in Clients : ask[c] # "sync"
  BY DEF Writers, EditsUnderWay, NonePending, Pending

\* The key a call is told is the one that counts.
LEMMA KeyIsFound ==
    ASSUME IntegrationInv, calm, NonePending
    PROVE  KeysFound = {TrueKey}
  BY DEF IntegrationInv, Mirroring, KeysFound, TrueKey

\* The row a lookup in the local store finds is the one that counts.
LEMMA ShadowIsTrue ==
    ASSUME IntegrationInv, calm, NonePending
    PROVE  shadow = TrueRow /\ shadowKey = TrueKey
  BY DEF IntegrationInv, Mirroring, TrueRow, TrueKey

LEMMA IntegrationStarts == IntegrationInit => IntegrationInv
  <1> SUFFICES ASSUME IntegrationInit PROVE IntegrationInv OBVIOUS
  <1> USE DEF IntegrationInit
  <1>1. Types
    <2>1. canon \in Integration /\ shadow \in Integration /\ got \in [Clients -> Integration]
      BY RowTypes
    <2>2. how \in [Clients -> Paths \cup KeyEdits] BY DEF Paths
    <2>3. result \in [Clients -> Keys \cup {NoKey, "none", "refused"}] OBVIOUS
    <2>4. due \in [Clients -> Keys \cup {NoKey, "any", "refused"}] OBVIOUS
    <2>5. ask \in [Clients -> Stages] BY DEF Stages
    <2> QED BY <2>1, <2>2, <2>3, <2>4, <2>5 DEF Types, IntegrationTypeOK, Stages
  <1>2. ServiceTells /\ Paired /\ OneEditor /\ Mirroring /\ Calls
    BY DEF ServiceTells, TellsOfKey, Paired, OneEditor, Mirroring, Calls, Nothing,
           Pending, NonePending
  <1>3. Writing
    BY DEF Writing, TellsOfKey, Nothing
  <1> QED BY <1>1, <1>2, <1>3 DEF IntegrationInv

-----------------------------------------------------------------------------
(* Edits.                                                                  *)

\* After an edit has begun, no call counts on what it has found.
LEMMA EditResetsCalls ==
    ASSUME due' = [d \in Clients |-> "any"]
    PROVE  Calls' /\ due' \in [Clients -> Keys \cup {NoKey, "any", "refused"}]
  BY DEF Calls

\* What the service holds after an edit tells of its key.
LEMMA WrittenTells ==
    ASSUME NEW key \in Keys \cup {NoKey}, NEW i \in Written(key)
    PROVE  i.here /\ (i.keyed <=> key # NoKey)
  <1>1. PICK b \in BOOLEAN : i = [here |-> TRUE, on |-> b, keyed |-> key # NoKey]
    BY DEF Written
  <1>2. CASE key = NoKey BY <1>1, <1>2
  <1>3. CASE key # NoKey BY <1>1, <1>3
  <1> QED BY <1>2, <1>3

LEMMA EditAtServiceKeeps ==
    ASSUME IntegrationInv, NEW c \in Clients, EditAtService(c)
    PROVE  IntegrationInv'
  <1> USE DEF IntegrationInv
  <1>1. PICK edit \in KeyEdits, i \in Integration :
            /\ i \in Written(KeyAfter(canonKey, edit))
            /\ canon' = i /\ canonKey' = KeyAfter(canonKey, edit)
            /\ \/ /\ ask' = [ask EXCEPT ![c] = "mirror"]
                  /\ how' = [how EXCEPT ![c] = edit]
                  /\ got' = [got EXCEPT ![c] = i]
                  /\ calm' = (calm /\ Writers = {})
               \/ calm' = FALSE /\ UNCHANGED <<ask, how, got>>
    <2>1. \A edit \in KeyEdits : Written(KeyAfter(canonKey, edit)) \subseteq Integration
      BY RowTypes, KeyTypes DEF Types, IntegrationTypeOK
    <2> QED BY <2>1 DEF EditAtService
  <1>2. /\ hosted /\ hosted' = hosted /\ shadow' = shadow /\ shadowKey' = shadowKey
        /\ result' = result /\ ask[c] = "idle" /\ changes' = changes + 1
        /\ due' = [d \in Clients |-> "any"]
    BY DEF EditAtService, BeginEdit
  <1>3. canonKey' \in Keys \cup {NoKey}
    BY <1>1, KeyTypes DEF Types, IntegrationTypeOK
  <1>4. canon' \in Integration BY <1>1, <1>3, RowTypes
  <1>5. Calls' /\ due' \in [Clients -> Keys \cup {NoKey, "any", "refused"}]
    BY <1>2, EditResetsCalls
  <1>6. ServiceTells'
    <2>1. canon'.here /\ (canon'.keyed <=> canonKey' # NoKey) BY <1>1, <1>3, WrittenTells
    <2> QED BY <2>1 DEF ServiceTells, TellsOfKey
  <1>7. Paired' BY <1>1, <1>2 DEF Paired, Types, IntegrationTypeOK
  <1>10. Writing' BY <1>2 DEF Writing
  <1>8. CASE /\ ask' = [ask EXCEPT ![c] = "mirror"]
             /\ how' = [how EXCEPT ![c] = edit]
             /\ got' = [got EXCEPT ![c] = i]
             /\ calm' = (calm /\ Writers = {})
    <2>1. Types'
      <3>1. i \in Integration BY <1>1, <1>4
      <3>2. got' \in [Clients -> Integration]
        BY <1>8, <3>1 DEF Types, IntegrationTypeOK
      <3>3. how' \in [Clients -> Paths \cup KeyEdits]
        BY <1>8 DEF Types, IntegrationTypeOK
      <3>4. ask' \in [Clients -> Stages]
        BY <1>8 DEF Types, IntegrationTypeOK, Stages
      <3>5. \A d \in Clients : ask'[d] \in {"upsert", "mirror"} => how'[d] \in KeyEdits
        BY <1>8 DEF Types, IntegrationTypeOK
      <3>6. calm' \in BOOLEAN BY <1>8
      <3> QED BY <1>2, <1>3, <1>4, <1>5, <3>2, <3>3, <3>4, <3>5, <3>6
           DEF Types, IntegrationTypeOK, Stages
    <2>2. ASSUME calm' PROVE Mirroring' /\ OneEditor'
      <3>1. calm /\ NonePending /\ \A d \in Clients : ask[d] # "sync"
        BY <1>8, <2>2, NobodyWrites
      <3>2. shadowKey = canonKey
        BY <1>2, <3>1 DEF Mirroring
      <3>3. \A d \in Clients \ {c} :
                ask'[d] \notin {"upsert", "mirror", "row", "prune", "unkey", "sync"}
        BY <1>8, <3>1 DEF Types, IntegrationTypeOK, NonePending, Pending
      <3>4. ask'[c] = "mirror" /\ got'[c] = canon' /\ how'[c] = edit
        BY <1>1, <1>8 DEF Types, IntegrationTypeOK
      <3>5. KeyAfter(shadowKey', how'[c]) = canonKey' BY <1>1, <1>2, <3>2, <3>4
      <3>6. Mirroring' BY <3>3, <3>4, <3>5 DEF Mirroring, NonePending, Pending
      <3>7. OneEditor' BY <3>3 DEF OneEditor, Pending
      <3> QED BY <3>6, <3>7
    <2>3. Mirroring' /\ OneEditor' BY <2>2 DEF Mirroring, OneEditor
    <2> QED BY <1>5, <1>6, <1>7, <1>10, <2>1, <2>3
  <1>9. CASE calm' = FALSE /\ UNCHANGED <<ask, how, got>>
    <2>1. Mirroring' /\ OneEditor' BY <1>9 DEF Mirroring, OneEditor
    <2>2. changes' \in Nat BY <1>2 DEF Types, IntegrationTypeOK
    <2>3. calm' \in BOOLEAN BY <1>9
    <2>4. IntegrationTypeOK'
      BY <1>2, <1>3, <1>4, <1>5, <1>9, <2>2, <2>3, Zenon DEF Types, IntegrationTypeOK
    <2>5. Types' BY <1>9, <2>4 DEF Types
    <2> QED BY <1>5, <1>6, <1>7, <1>10, <2>1, <2>5
  <1> QED BY <1>1, <1>8, <1>9

LEMMA DeleteAtServiceKeeps ==
    ASSUME IntegrationInv, NEW c \in Clients, DeleteAtService(c)
    PROVE  IntegrationInv'
  <1> USE DEF IntegrationInv
  <1>1. /\ hosted /\ hosted' = hosted /\ shadow' = shadow /\ shadowKey' = shadowKey
        /\ how' = how /\ got' = got /\ result' = result
        /\ ask[c] = "idle" /\ changes' = changes + 1
        /\ canon' = Nothing /\ canonKey' = NoKey
        /\ due' = [d \in Clients |-> "any"]
        /\ \/ ask' = [ask EXCEPT ![c] = "prune"] /\ calm' = (calm /\ Writers = {})
           \/ calm' = FALSE /\ UNCHANGED ask
    BY DEF DeleteAtService, BeginEdit
  <1>2. Calls' /\ due' \in [Clients -> Keys \cup {NoKey, "any", "refused"}]
    BY <1>1, EditResetsCalls
  <1>3. ServiceTells'
    BY <1>1 DEF ServiceTells, TellsOfKey, Nothing
  <1>4. Paired' BY <1>1 DEF Paired, Types, IntegrationTypeOK
  <1>5. Types'
    <2>1. ask' \in [Clients -> Stages]
      BY <1>1 DEF Types, IntegrationTypeOK, Stages
    <2>2. \A d \in Clients : ask'[d] \in {"upsert", "mirror"} => ask[d] \in {"upsert", "mirror"}
      BY <1>1 DEF Types, IntegrationTypeOK
    <2>3. calm' \in BOOLEAN BY <1>1
    <2> QED BY <1>1, <1>2, <2>1, <2>2, <2>3, RowTypes DEF Types, IntegrationTypeOK, Stages
  <1>6. ASSUME calm' PROVE Mirroring' /\ OneEditor'
    <2>1. ask' = [ask EXCEPT ![c] = "prune"] /\ calm /\ Writers = {} BY <1>1, <1>6
    <2>2. \A d \in Clients \ {c} :
              ask'[d] \notin {"upsert", "mirror", "row", "prune", "unkey", "sync"}
      BY <2>1, NobodyWrites DEF NonePending, Pending, Types, IntegrationTypeOK
    <2>3. ask'[c] = "prune" BY <2>1 DEF Types, IntegrationTypeOK
    <2>4. Mirroring' BY <1>1, <2>2, <2>3 DEF Mirroring, NonePending, Pending
    <2>5. OneEditor' BY <2>2 DEF OneEditor, Pending
    <2> QED BY <2>4, <2>5
  <1>7. Mirroring' /\ OneEditor' BY <1>6 DEF Mirroring, OneEditor
  <1>8. Writing' BY <1>1 DEF Writing
  <1> QED BY <1>2, <1>3, <1>4, <1>5, <1>7, <1>8

LEMMA EditLocallyKeeps ==
    ASSUME IntegrationInv, NEW c \in Clients, EditLocally(c)
    PROVE  IntegrationInv'
  <1> USE DEF IntegrationInv
  <1>1. PICK edit \in KeyEdits, on \in BOOLEAN :
            /\ how' = [how EXCEPT ![c] = edit]
            /\ got' = [got EXCEPT ![c] = [here |-> TRUE, on |-> on, keyed |-> FALSE]]
    BY DEF EditLocally
  <1>2. /\ ~hosted /\ hosted' = hosted /\ ask[c] = "idle" /\ changes' = changes + 1
        /\ due' = [d \in Clients |-> "any"]
        /\ ask' = [ask EXCEPT ![c] = "upsert"] /\ calm' = (calm /\ Writers = {})
        /\ UNCHANGED <<canon, canonKey, shadow, shadowKey, result>>
    BY DEF EditLocally, BeginEdit
  <1>3. Calls' /\ due' \in [Clients -> Keys \cup {NoKey, "any", "refused"}]
    BY <1>2, EditResetsCalls
  <1>4. /\ ask'[c] = "upsert" /\ how'[c] = edit /\ got'[c].here
        /\ \A d \in Clients \ {c} :
               ask'[d] = ask[d] /\ how'[d] = how[d] /\ got'[d] = got[d]
    BY <1>1, <1>2 DEF Types, IntegrationTypeOK
  <1>5. Types'
    <2>1. [here |-> TRUE, on |-> on, keyed |-> FALSE] \in Integration BY DEF Integration
    <2>2. got' \in [Clients -> Integration] BY <1>1, <2>1 DEF Types, IntegrationTypeOK
    <2>3. ask' \in [Clients -> Stages] BY <1>2 DEF Types, IntegrationTypeOK, Stages
    <2>4. how' \in [Clients -> Paths \cup KeyEdits] BY <1>1 DEF Types, IntegrationTypeOK
    <2>5. calm' \in BOOLEAN BY <1>2
    <2>6. \A d \in Clients : ask'[d] \in {"upsert", "mirror"} => how'[d] \in KeyEdits
      BY <1>4 DEF Types
    <2> QED BY <1>2, <1>3, <2>2, <2>3, <2>4, <2>5, <2>6 DEF Types, IntegrationTypeOK, Stages
  <1>6. ServiceTells' /\ Mirroring' BY <1>2 DEF ServiceTells, Mirroring
  <1>7. Paired' BY <1>2, <1>4 DEF Paired
  <1>8. ASSUME calm' PROVE Writing' /\ OneEditor'
    <2>1. calm /\ NonePending BY <1>2, <1>8, NobodyWrites
    <2>2. \A d \in Clients \ {c} : ~Pending(d)' BY <1>4, <2>1 DEF NonePending, Pending
    <2>3. TellsOfKey(shadow', shadowKey') BY <1>2, <2>1 DEF Writing
    <2>4. \A d \in Clients : Pending(d)' => d = c BY <2>2
    <2>5. OneEditor' BY <2>4 DEF OneEditor
    <2>6. Writing' BY <1>4, <2>3, <2>4 DEF Writing, Pending
    <2> QED BY <2>5, <2>6
  <1>9. Writing' /\ OneEditor' BY <1>8 DEF Writing, OneEditor
  <1> QED BY <1>3, <1>5, <1>6, <1>7, <1>9

LEMMA FindExistingKeeps ==
    ASSUME IntegrationInv, NEW c \in Clients, FindExisting(c)
    PROVE  IntegrationInv'
  <1> USE DEF IntegrationInv
  <1> DEFINE keyed == IF how[c] = "keep" THEN shadow.keyed ELSE how[c] # NoKey
             i == [got[c] EXCEPT !.keyed = keyed]
  <1>1. /\ ask[c] = "upsert" /\ got' = [got EXCEPT ![c] = i]
        /\ ask' = [ask EXCEPT ![c] = "mirror"]
        /\ UNCHANGED <<hosted, canon, canonKey, shadow, shadowKey, how, result, changes,
                       calm, due>>
    BY DEF FindExisting
  <1>2. ~hosted BY <1>1 DEF Paired
  <1>3. i \in Integration
    <2>1. got[c] \in Integration /\ shadow \in Integration BY DEF Types, IntegrationTypeOK
    <2>2. shadow.keyed \in BOOLEAN BY <2>1 DEF Integration
    <2>3. keyed \in BOOLEAN
      <3>1. (how[c] # NoKey) \in BOOLEAN OBVIOUS
      <3> QED BY <2>2, <3>1
    <2> HIDE DEF keyed
    <2> QED BY <2>1, <2>3 DEF Integration
  <1>4. i.here = got[c].here /\ i.keyed = keyed
    BY DEF Types, IntegrationTypeOK, Integration
  <1> HIDE DEF i, keyed
  <1>5. /\ ask'[c] = "mirror" /\ got'[c] = i
        /\ \A d \in Clients \ {c} : ask'[d] = ask[d] /\ got'[d] = got[d]
    BY <1>1 DEF Types, IntegrationTypeOK
  <1>6. Types'
    <2>1. got' \in [Clients -> Integration] BY <1>1, <1>3 DEF Types, IntegrationTypeOK
    <2>2. ask' \in [Clients -> Stages] BY <1>1 DEF Types, IntegrationTypeOK, Stages
    <2>3. \A d \in Clients : ask'[d] \in {"upsert", "mirror"} => how'[d] \in KeyEdits
      BY <1>1, <1>5 DEF Types
    <2> QED BY <1>1, <2>1, <2>2, <2>3, Zenon DEF Types, IntegrationTypeOK, Stages
  <1>7. ServiceTells' /\ Mirroring' BY <1>1, <1>2 DEF ServiceTells, Mirroring
  <1>8. Paired' BY <1>1, <1>5 DEF Paired
  <1>9. OneEditor' BY <1>1, <1>5 DEF OneEditor, Pending
  <1>10. ASSUME calm PROVE Writing'
    <2>1. TellsOfKey(shadow, shadowKey) /\ got[c].here BY <1>1, <1>2, <1>10 DEF Writing
    <2>2. \A d \in Clients : Pending(d) => d = c BY <1>1, <1>10 DEF OneEditor, Pending
    <2>3. \A d \in Clients \ {c} : ~Pending(d)' BY <1>5, <2>2 DEF Pending
    <2>4. keyed <=> KeyAfter(shadowKey, how[c]) # NoKey
      <3>1. shadow.here \/ ~shadow.keyed BY <2>1 DEF TellsOfKey, Nothing
      <3>2. shadow.keyed <=> shadowKey # NoKey BY <2>1, <3>1 DEF TellsOfKey
      <3>3. CASE how[c] = "keep" BY <3>2, <3>3 DEF KeyAfter, keyed
      <3>4. CASE how[c] # "keep" BY <3>4 DEF KeyAfter, keyed
      <3> QED BY <3>3, <3>4
    <2>5. Pending(c)' BY <1>5 DEF Pending
    <2>6. \A d \in Clients : Pending(d)' => d = c BY <2>3
    <2> QED BY <1>1, <1>4, <1>5, <2>1, <2>4, <2>5, <2>6 DEF Writing, Pending, NonePending
  <1>11. Writing' BY <1>1, <1>10 DEF Writing
  <1>12. Calls'
    <2>1. ~NonePending BY <1>1 DEF NonePending, Pending
    <2> QED BY <1>1, <2>1 DEF Calls, OnTheWay
  <1> QED BY <1>6, <1>7, <1>8, <1>9, <1>11, <1>12

LEMMA DeleteLocallyKeeps ==
    ASSUME IntegrationInv, NEW c \in Clients, DeleteLocally(c)
    PROVE  IntegrationInv'
  <1> USE DEF IntegrationInv
  <1>1. /\ ~hosted /\ ask[c] = "idle" /\ changes' = changes + 1
        /\ due' = [d \in Clients |-> "any"]
        /\ ask' = [ask EXCEPT ![c] = "prune"] /\ calm' = (calm /\ Writers = {})
        /\ UNCHANGED <<hosted, canon, canonKey, shadow, shadowKey, how, got, result>>
    BY DEF DeleteLocally, BeginEdit
  <1>2. Calls' /\ due' \in [Clients -> Keys \cup {NoKey, "any", "refused"}]
    BY <1>1, EditResetsCalls
  <1>3. ask'[c] = "prune" /\ \A d \in Clients \ {c} : ask'[d] = ask[d]
    BY <1>1 DEF Types, IntegrationTypeOK
  <1>4. Types'
    <2>1. ask' \in [Clients -> Stages] BY <1>1 DEF Types, IntegrationTypeOK, Stages
    <2>2. \A d \in Clients : ask'[d] \in {"upsert", "mirror"} => how'[d] \in KeyEdits
      BY <1>1, <1>3 DEF Types
    <2>3. calm' \in BOOLEAN BY <1>1
    <2> QED BY <1>1, <1>2, <2>1, <2>2, <2>3 DEF Types, IntegrationTypeOK, Stages
  <1>5. ServiceTells' /\ Mirroring' BY <1>1 DEF ServiceTells, Mirroring
  <1>6. Paired' BY <1>1, <1>3 DEF Paired
  <1>7. ASSUME calm' PROVE Writing' /\ OneEditor'
    <2>1. calm /\ NonePending BY <1>1, <1>7, NobodyWrites
    <2>2. \A d \in Clients \ {c} : ~Pending(d)' BY <1>3, <2>1 DEF NonePending, Pending
    <2>3. OneEditor' BY <2>2 DEF OneEditor
    <2>4. Pending(c)' BY <1>3 DEF Pending
    <2>5. \A d \in Clients : ask'[d] \notin {"upsert", "mirror", "row", "unkey"}
      BY <1>3, <2>2 DEF Pending
    <2>6. Writing' BY <2>4, <2>5 DEF Writing, NonePending
    <2> QED BY <2>3, <2>6
  <1>8. Writing' /\ OneEditor' BY <1>7 DEF Writing, OneEditor
  <1> QED BY <1>2, <1>4, <1>5, <1>6, <1>8

\* A step of an edit that has begun: it moves the editor on, and what it does to the
\* local store is left to be shown.
LEMMA EditStepKeeps ==
    ASSUME IntegrationInv, NEW c \in Clients, Pending(c), Types',
           UNCHANGED <<hosted, canon, canonKey, result, calm, due>>,
           \A d \in Clients \ {c} :
               ask'[d] = ask[d] /\ how'[d] = how[d] /\ got'[d] = got[d],
           ask'[c] \in {"row", "unkey", "idle"},
           hosted /\ calm =>
               /\ ask'[c] = "row" => got'[c] = canon /\ shadowKey' = canonKey
               /\ ask'[c] = "unkey" =>
                      canon = Nothing /\ canonKey = NoKey /\ shadow' = Nothing
               /\ ask'[c] = "idle" => shadow' = canon /\ shadowKey' = canonKey,
           ~hosted /\ calm =>
               /\ ask'[c] = "row" => got'[c].here /\ (got'[c].keyed <=> shadowKey' # NoKey)
               /\ ask'[c] = "unkey" => shadow' = Nothing
               /\ ask'[c] = "idle" => TellsOfKey(shadow', shadowKey')
    PROVE  IntegrationInv'
  <1> USE DEF IntegrationInv
  <1>1. ServiceTells' BY DEF ServiceTells
  <1>2. Paired' BY DEF Paired
  <1>3. ~NonePending BY DEF NonePending
  <1>4. Calls' BY <1>3 DEF Calls, OnTheWay
  <1>5. \A d \in Clients : Pending(d)' => Pending(d) BY DEF Pending
  <1>6. OneEditor' BY <1>5 DEF OneEditor
  <1>7. ASSUME calm PROVE \A d \in Clients \ {c} : ~Pending(d) /\ ~Pending(d)'
    <2>1. \A d \in Clients : Pending(d) => d = c BY <1>7 DEF OneEditor
    <2> QED BY <1>5, <2>1
  <1>8. NonePending' => ask'[c] = "idle" BY DEF NonePending, Pending
  <1>9. ASSUME hosted, calm PROVE Mirroring'
    <2>1. \A d \in Clients : ask'[d] \in {"mirror", "row", "prune", "unkey"} => d = c
      BY <1>7, <1>9 DEF Pending
    <2>2. \A d \in Clients : ask'[d] \in {"sync", "mirror", "row"} => got'[d] = canon'
      BY <1>9, <2>1 DEF Mirroring
    <2>3. \A d \in Clients : ask'[d] = "row" => shadowKey' = canonKey' BY <1>9, <2>1
    <2>4. \A d \in Clients : ask'[d] # "mirror" BY <2>1
    <2>5. \A d \in Clients :
              ask'[d] \in {"prune", "unkey"} => canon' = Nothing /\ canonKey' = NoKey
      BY <1>9, <2>1
    <2>6. \A d \in Clients : ask'[d] = "unkey" => shadow' = Nothing BY <1>9, <2>1
    <2>7. NonePending' => shadow' = canon' /\ shadowKey' = canonKey' BY <1>8, <1>9
    <2> QED BY <2>2, <2>3, <2>4, <2>5, <2>6, <2>7 DEF Mirroring
  <1>10. Mirroring' BY <1>9 DEF Mirroring
  <1>11. ASSUME ~hosted, calm PROVE Writing'
    <2>1. \A d \in Clients : ask'[d] \in {"upsert", "mirror", "row", "prune", "unkey"} => d = c
      BY <1>7, <1>11 DEF Pending
    <2>2. \A d \in Clients : ask'[d] \notin {"upsert", "mirror"} BY <2>1
    <2>3. \A d \in Clients :
              ask'[d] = "row" => got'[d].here /\ (got'[d].keyed <=> shadowKey' # NoKey)
      BY <1>11, <2>1
    <2>4. \A d \in Clients : ask'[d] = "unkey" => shadow' = Nothing BY <1>11, <2>1
    <2>5. NonePending' => TellsOfKey(shadow', shadowKey') BY <1>8, <1>11
    <2> QED BY <2>2, <2>3, <2>4, <2>5 DEF Writing
  <1>12. Writing' BY <1>11 DEF Writing
  <1> QED BY <1>1, <1>2, <1>4, <1>6, <1>10, <1>12

LEMMA WriteKeyKeeps ==
    ASSUME IntegrationInv, NEW c \in Clients, WriteKey(c)
    PROVE  IntegrationInv'
  <1> USE DEF IntegrationInv
  <1>1. /\ ask[c] = "mirror" /\ ask' = [ask EXCEPT ![c] = "row"]
        /\ shadowKey' = KeyAfter(shadowKey, how[c])
        /\ how' = [how EXCEPT ![c] = "id"]
        /\ UNCHANGED <<hosted, canon, canonKey, shadow, got, result, changes, calm, due>>
    BY DEF WriteKey
  <1>2. /\ ask'[c] = "row"
        /\ \A d \in Clients \ {c} : ask'[d] = ask[d] /\ how'[d] = how[d]
    BY <1>1 DEF Types, IntegrationTypeOK
  <1>3. Types'
    <2>1. how[c] \in KeyEdits BY <1>1 DEF Types
    <2>2. shadowKey' \in Keys \cup {NoKey} BY <1>1, <2>1, KeyTypes DEF Types, IntegrationTypeOK
    <2>3. ask' \in [Clients -> Stages] BY <1>1 DEF Types, IntegrationTypeOK, Stages
    <2>4. how' \in [Clients -> Paths \cup KeyEdits]
      BY <1>1 DEF Types, IntegrationTypeOK, Paths
    <2>5. \A d \in Clients : ask'[d] \in {"upsert", "mirror"} => how'[d] \in KeyEdits
      BY <1>2 DEF Types
    <2> QED BY <1>1, <2>2, <2>3, <2>4, <2>5, Zenon DEF Types, IntegrationTypeOK, Stages
  <1>4. hosted /\ calm => got[c] = canon /\ shadowKey' = canonKey
    BY <1>1 DEF Mirroring
  <1>5. ~hosted /\ calm => got[c].here /\ (got[c].keyed <=> shadowKey' # NoKey)
    BY <1>1 DEF Writing
  <1>6. Pending(c) BY <1>1 DEF Pending
  <1> QED BY <1>1, <1>2, <1>3, <1>4, <1>5, <1>6, EditStepKeeps

LEMMA WriteRowKeeps ==
    ASSUME IntegrationInv, NEW c \in Clients, WriteRow(c)
    PROVE  IntegrationInv'
  <1> USE DEF IntegrationInv
  <1>1. /\ ask[c] = "row" /\ ask' = [ask EXCEPT ![c] = "idle"]
        /\ shadow' = got[c] /\ got' = [got EXCEPT ![c] = Nothing]
        /\ UNCHANGED <<hosted, canon, canonKey, shadowKey, how, result, changes, calm, due>>
    BY DEF WriteRow
  <1>2. /\ ask'[c] = "idle"
        /\ \A d \in Clients \ {c} : ask'[d] = ask[d] /\ got'[d] = got[d]
    BY <1>1 DEF Types, IntegrationTypeOK
  <1>3. Types'
    <2>1. shadow' \in Integration /\ got' \in [Clients -> Integration]
      BY <1>1, RowTypes DEF Types, IntegrationTypeOK
    <2>2. ask' \in [Clients -> Stages] BY <1>1 DEF Types, IntegrationTypeOK, Stages
    <2>3. \A d \in Clients : ask'[d] \in {"upsert", "mirror"} => how'[d] \in KeyEdits
      BY <1>1, <1>2 DEF Types
    <2> QED BY <1>1, <2>1, <2>2, <2>3, Zenon DEF Types, IntegrationTypeOK, Stages
  <1>4. hosted /\ calm => shadow' = canon /\ shadowKey' = canonKey
    BY <1>1 DEF Mirroring
  <1>5. ~hosted /\ calm => TellsOfKey(shadow', shadowKey')
    BY <1>1 DEF Writing, TellsOfKey
  <1>6. Pending(c) BY <1>1 DEF Pending
  <1> QED BY <1>1, <1>2, <1>3, <1>4, <1>5, <1>6, EditStepKeeps

LEMMA PruneRowKeeps ==
    ASSUME IntegrationInv, NEW c \in Clients, PruneRow(c)
    PROVE  IntegrationInv'
  <1> USE DEF IntegrationInv
  <1>1. /\ ask[c] = "prune" /\ ask' = [ask EXCEPT ![c] = "unkey"]
        /\ shadow' = Nothing
        /\ UNCHANGED <<hosted, canon, canonKey, shadowKey, how, got, result, changes, calm,
                       due>>
    BY DEF PruneRow
  <1>2. ask'[c] = "unkey" /\ \A d \in Clients \ {c} : ask'[d] = ask[d]
    BY <1>1 DEF Types, IntegrationTypeOK
  <1>3. Types'
    <2>1. ask' \in [Clients -> Stages] BY <1>1 DEF Types, IntegrationTypeOK, Stages
    <2>2. \A d \in Clients : ask'[d] \in {"upsert", "mirror"} => how'[d] \in KeyEdits
      BY <1>1, <1>2 DEF Types
    <2> QED BY <1>1, <2>1, <2>2, RowTypes, Zenon DEF Types, IntegrationTypeOK, Stages
  <1>4. hosted /\ calm => canon = Nothing /\ canonKey = NoKey BY <1>1 DEF Mirroring
  <1>5. Pending(c) BY <1>1 DEF Pending
  <1> QED BY <1>1, <1>2, <1>3, <1>4, <1>5, EditStepKeeps

LEMMA PruneKeyKeeps ==
    ASSUME IntegrationInv, NEW c \in Clients, PruneKey(c)
    PROVE  IntegrationInv'
  <1> USE DEF IntegrationInv
  <1>1. /\ ask[c] = "unkey" /\ ask' = [ask EXCEPT ![c] = "idle"]
        /\ shadowKey' = NoKey
        /\ UNCHANGED <<hosted, canon, canonKey, shadow, how, got, result, changes, calm, due>>
    BY DEF PruneKey
  <1>2. ask'[c] = "idle" /\ \A d \in Clients \ {c} : ask'[d] = ask[d]
    BY <1>1 DEF Types, IntegrationTypeOK
  <1>3. Types'
    <2>1. ask' \in [Clients -> Stages] BY <1>1 DEF Types, IntegrationTypeOK, Stages
    <2>2. \A d \in Clients : ask'[d] \in {"upsert", "mirror"} => how'[d] \in KeyEdits
      BY <1>1, <1>2 DEF Types
    <2>3. shadowKey' \in Keys \cup {NoKey} BY <1>1
    <2> QED BY <1>1, <2>1, <2>2, <2>3, Zenon DEF Types, IntegrationTypeOK, Stages
  <1>4. hosted /\ calm => shadow' = canon /\ shadowKey' = canonKey
    BY <1>1 DEF Mirroring
  <1>5. ~hosted /\ calm => TellsOfKey(shadow', shadowKey')
    BY <1>1 DEF Writing, TellsOfKey, Nothing
  <1>6. Pending(c) BY <1>1 DEF Pending
  <1> QED BY <1>1, <1>2, <1>3, <1>4, <1>5, <1>6, EditStepKeeps

LEMMA EditElsewhereKeeps ==
    ASSUME IntegrationInv, EditElsewhere
    PROVE  IntegrationInv'
  <1> USE DEF IntegrationInv
  <1>1. /\ hosted /\ changes' = changes + 1 /\ due' = [d \in Clients |-> "any"]
        /\ calm' = FALSE
        /\ UNCHANGED <<hosted, shadow, shadowKey, ask, how, got, result>>
    BY DEF EditElsewhere
  <1>2. /\ canonKey' \in Keys \cup {NoKey}
        /\ canon' \in Written(canonKey') \/ (canon' = Nothing /\ canonKey' = NoKey)
    BY DEF EditElsewhere
  <1>3. Calls' /\ due' \in [Clients -> Keys \cup {NoKey, "any", "refused"}]
    BY <1>1, EditResetsCalls
  <1>4. canon' \in Integration BY <1>2, RowTypes
  <1>5. Types'
    <2>1. calm' \in BOOLEAN BY <1>1
    <2>2. changes' \in Nat BY <1>1 DEF Types, IntegrationTypeOK
    <2>3. IntegrationTypeOK'
      BY <1>1, <1>2, <1>3, <1>4, <2>1, <2>2, Zenon DEF Types, IntegrationTypeOK
    <2> QED BY <1>1, <2>3 DEF Types
  <1>6. ServiceTells'
    <2>1. CASE canon' \in Written(canonKey')
      <3>1. canon'.here /\ (canon'.keyed <=> canonKey' # NoKey)
        BY <1>2, <2>1, WrittenTells
      <3> QED BY <3>1 DEF ServiceTells, TellsOfKey
    <2>2. CASE canon' = Nothing /\ canonKey' = NoKey
      BY <2>2 DEF ServiceTells, TellsOfKey, Nothing
    <2> QED BY <1>2, <2>1, <2>2
  <1>7. Paired' BY <1>1 DEF Paired
  <1>8. Mirroring' /\ Writing' /\ OneEditor' BY <1>1 DEF Mirroring, Writing, OneEditor
  <1> QED BY <1>3, <1>5, <1>6, <1>7, <1>8

-----------------------------------------------------------------------------
(* Calls.                                                                  *)

\* A step of a call changes neither rows nor keys that count, no edit's copy, and
\* the local store by what the service holds only; what it does to the call itself
\* is left to be shown.
LEMMA CallStepKeeps ==
    ASSUME IntegrationInv, NEW c \in Clients, IntegrationTypeOK',
           UNCHANGED <<hosted, canon, canonKey, shadowKey, changes, calm>>,
           \A d \in Clients \ {c} :
               /\ ask'[d] = ask[d] /\ how'[d] = how[d] /\ got'[d] = got[d]
               /\ result'[d] = result[d] /\ due'[d] = due[d],
           ~Pending(c), ~Pending(c)', ask'[c] = "sync" => hosted /\ got'[c] = canon,
           shadow' = shadow \/ (ask[c] = "sync" /\ got[c].here /\ shadow' = got[c]),
           due'[c] # "any" => OnTheWay(c)'
    PROVE  IntegrationInv'
  <1> USE DEF IntegrationInv
  <1>1. \A d \in Clients : Pending(d)' <=> Pending(d) BY DEF Pending
  <1>2. NonePending' <=> NonePending BY <1>1 DEF NonePending
  <1>13. \A d \in Clients :
             Pending(d) \/ Pending(d)' => d # c /\ ask'[d] = ask[d] /\ how'[d] = how[d]
                                         /\ got'[d] = got[d]
    BY <1>1
  <1>3. Types' BY <1>13 DEF Types, Pending
  <1>4. shadow' # shadow => hosted BY DEF Paired
  <1>5. TrueRow' = TrueRow /\ TrueKey' = TrueKey BY <1>4 DEF TrueRow, TrueKey
  <1>6. ServiceTells' BY DEF ServiceTells
  <1>7. Paired' BY <1>13 DEF Paired, Pending
  <1>11. OneEditor' BY <1>1 DEF OneEditor
  <1>8. ASSUME hosted, calm PROVE Mirroring'
    <2>1. \A d \in Clients : ask'[d] \in {"sync", "mirror", "row"} => got'[d] = canon
      BY <1>8 DEF Mirroring, Pending
    <2>2. \A d \in Clients :
              ask'[d] \in {"mirror", "row", "prune", "unkey"} =>
                  ask[d] = ask'[d] /\ how'[d] = how[d]
      BY <1>13 DEF Pending
    <2>3. NonePending => shadow' = canon BY <1>8 DEF Mirroring
    <2>4. ASSUME NEW d \in Clients, ask'[d] = "unkey"
          PROVE  shadow' = Nothing
      <3>1. shadow = Nothing /\ canon = Nothing BY <1>8, <2>2, <2>4 DEF Mirroring
      <3>2. ask[c] = "sync" => got[c] = canon BY <1>8 DEF Mirroring
      <3> QED BY <3>1, <3>2
    <2>5. \A d \in Clients : ask'[d] = "mirror" => KeyAfter(shadowKey', how'[d]) = canonKey'
      BY <1>8, <2>2 DEF Mirroring
    <2>6. \A d \in Clients : ask'[d] = "row" => shadowKey' = canonKey'
      BY <1>8, <2>2 DEF Mirroring
    <2>7. \A d \in Clients :
              ask'[d] \in {"prune", "unkey"} => canon' = Nothing /\ canonKey' = NoKey
      BY <1>8, <2>2 DEF Mirroring
    <2>8. NonePending' => shadow' = canon' /\ shadowKey' = canonKey'
      BY <1>2, <1>8, <2>3 DEF Mirroring
    <2> QED BY <2>1, <2>4, <2>5, <2>6, <2>7, <2>8 DEF Mirroring
  <1>9. Mirroring' BY <1>8 DEF Mirroring
  <1>12. ASSUME ~hosted, calm PROVE Writing'
    <2>1. shadow' = shadow BY <1>4, <1>12
    <2>2. \A d \in Clients :
              ask'[d] \in {"upsert", "mirror", "row", "prune", "unkey"} =>
                  ask[d] = ask'[d] /\ how'[d] = how[d] /\ got'[d] = got[d]
      BY <1>13 DEF Pending
    <2>3. NonePending' => TellsOfKey(shadow', shadowKey')
      BY <1>2, <1>12, <2>1 DEF Writing
    <2>4. \A d \in Clients : ask'[d] = "upsert" => TellsOfKey(shadow', shadowKey')
      BY <1>12, <2>1, <2>2 DEF Writing
    <2> QED BY <1>12, <2>1, <2>2, <2>3, <2>4 DEF Writing, TellsOfKey
  <1>14. Writing' BY <1>12 DEF Writing
  <1>10. ASSUME NEW d \in Clients, due'[d] # "any" PROVE OnTheWay(d)'
    <2>1. CASE d = c BY <1>10, <2>1
    <2>2. CASE d # c
      <3>1. OnTheWay(d) BY <1>10, <2>2 DEF Calls
      <3> QED BY <1>2, <1>5, <2>2, <3>1 DEF OnTheWay
    <2> QED BY <2>1, <2>2
  <1> QED BY <1>3, <1>6, <1>7, <1>9, <1>10, <1>11, <1>14 DEF Calls

LEMMA CallProviderKeeps ==
    ASSUME IntegrationInv, NEW c \in Clients, CallProvider(c)
    PROVE  IntegrationInv'
  <1> USE DEF IntegrationInv
  <1>1. /\ ask[c] = "ended"
        /\ ask' = [ask EXCEPT ![c] = "idle"] /\ how' = [how EXCEPT ![c] = "id"]
        /\ result' = [result EXCEPT ![c] = "none"] /\ due' = [due EXCEPT ![c] = "any"]
        /\ UNCHANGED <<hosted, canon, canonKey, shadow, shadowKey, got, changes, calm>>
    BY DEF CallProvider
  <1>2. IntegrationTypeOK' BY <1>1 DEF Types, IntegrationTypeOK, Paths
  <1>3. ask'[c] = "idle" /\ due'[c] = "any" BY <1>1 DEF Types, IntegrationTypeOK
  <1>4. \A d \in Clients \ {c} :
            /\ ask'[d] = ask[d] /\ how'[d] = how[d] /\ got'[d] = got[d]
            /\ result'[d] = result[d] /\ due'[d] = due[d]
    BY <1>1 DEF Types, IntegrationTypeOK
  <1> QED BY <1>1, <1>2, <1>3, <1>4, CallStepKeeps DEF Pending

\* What a call is to end with, when it begins.
LEMMA CallBegins ==
    ASSUME IntegrationInv, NEW c \in Clients, NEW path \in Paths, Begins(c, path)
    PROVE  /\ due' \in [Clients -> Keys \cup {NoKey, "any", "refused"}]
           /\ how' \in [Clients -> Paths \cup KeyEdits]
           /\ ask[c] = "idle" /\ how'[c] = path
           /\ \A d \in Clients \ {c} : due'[d] = due[d] /\ how'[d] = how[d]
           /\ due'[c] # "any" =>
                 calm /\ NonePending /\ due'[c] = Outcome(TrueRow, TrueKey, path)
  <1> USE DEF IntegrationInv
  <1> DEFINE met == ~calm \/ EditsUnderWay # {}
             end == IF met THEN "any" ELSE Outcome(TrueRow, TrueKey, path)
  <1>1. due' = [due EXCEPT ![c] = end]
    BY DEF Begins, TrueRow, TrueKey
  <1>2. TrueKey \in Keys \cup {NoKey} BY DEF Types, IntegrationTypeOK, TrueKey
  <1>3. end \in Keys \cup {NoKey, "any", "refused"} BY <1>2, OutcomeTypes
  <1>4. end # "any" => calm /\ NonePending /\ end = Outcome(TrueRow, TrueKey, path)
    BY NoneUnderWay
  <1>5. ask[c] = "idle" /\ how' = [how EXCEPT ![c] = path] BY DEF Begins
  <1> HIDE DEF end
  <1> QED BY <1>1, <1>3, <1>4, <1>5 DEF Types, IntegrationTypeOK

\* A call goes on to the key with the integration that counts, or is refused.
LEMMA GoesOnRightly ==
    ASSUME IntegrationInv, NEW c \in Clients, NEW i, NEW path, GoesOn(c, i, path)
    PROVE  /\ ask' \in [Clients -> Stages]
           /\ result' \in [Clients -> Keys \cup {NoKey, "none", "refused"}]
           /\ \A d \in Clients \ {c} : ask'[d] = ask[d] /\ result'[d] = result[d]
           /\ \/ ask'[c] = "key" /\ Fits(i, path)
              \/ ask'[c] = "ended" /\ result'[c] = "refused" /\ ~Fits(i, path)
  <1>1. CASE Fits(i, path)
    BY <1>1 DEF GoesOn, IntegrationInv, Types, IntegrationTypeOK, Stages
  <1>2. CASE ~Fits(i, path)
    BY <1>2 DEF GoesOn, CallEnds, IntegrationInv, Types, IntegrationTypeOK, Stages
  <1> QED BY <1>1, <1>2

LEMMA LookAtShadowKeeps ==
    ASSUME IntegrationInv, NEW c \in Clients, NEW path \in Paths, LookAtShadow(c, path)
    PROVE  IntegrationInv'
  <1> USE DEF IntegrationInv
  <1>1. /\ Begins(c, path) /\ GoesOn(c, shadow, path)
        /\ UNCHANGED <<hosted, canon, canonKey, shadow, shadowKey, got, changes, calm>>
    BY DEF LookAtShadow
  <1>2. IntegrationTypeOK'
    BY <1>1, CallBegins, GoesOnRightly, Zenon DEF Types, IntegrationTypeOK, Stages
  <1>3. \A d \in Clients \ {c} :
            /\ ask'[d] = ask[d] /\ how'[d] = how[d] /\ got'[d] = got[d]
            /\ result'[d] = result[d] /\ due'[d] = due[d]
    BY <1>1, CallBegins, GoesOnRightly
  <1>4. ask[c] = "idle" /\ ask'[c] \in {"key", "ended"}
    BY <1>1, CallBegins, GoesOnRightly
  <1>5. ASSUME due'[c] # "any" PROVE OnTheWay(c)'
    <2>1. /\ calm /\ NonePending /\ how'[c] = path
          /\ due'[c] = Outcome(TrueRow, TrueKey, path)
      BY <1>1, <1>5, CallBegins
    <2>2. shadow = TrueRow BY <2>1, ShadowIsTrue
    <2>3. NonePending' BY <1>3, <1>4, <2>1 DEF NonePending, Pending
    <2>4. TrueRow' = TrueRow /\ TrueKey' = TrueKey BY <1>1 DEF TrueRow, TrueKey
    <2>5. CASE ask'[c] = "key" /\ Fits(shadow, path)
      BY <1>1, <2>1, <2>2, <2>3, <2>4, <2>5 DEF OnTheWay
    <2>6. CASE ask'[c] = "ended" /\ result'[c] = "refused" /\ ~Fits(shadow, path)
      <3>1. due'[c] = "refused" BY <2>1, <2>2, <2>6, UnfitIsRefused
      <3> QED BY <1>1, <2>1, <2>3, <2>6, <3>1 DEF OnTheWay
    <2> QED BY <1>1, <2>5, <2>6, GoesOnRightly
  <1> QED BY <1>1, <1>2, <1>3, <1>4, <1>5, CallStepKeeps DEF Pending

\* The service answers what is to be mirrored.
LEMMA ToldKeeps ==
    ASSUME IntegrationInv, hosted, NEW c \in Clients, NEW path \in Paths,
           Begins(c, path), IsTold(c)
    PROVE  IntegrationInv'
  <1> USE DEF IntegrationInv
  <1>1. /\ ask' = [ask EXCEPT ![c] = "sync"] /\ got' = [got EXCEPT ![c] = canon]
        /\ UNCHANGED <<hosted, canon, canonKey, shadow, shadowKey, result, changes, calm>>
    BY DEF IsTold
  <1>2. IntegrationTypeOK'
    <2>1. /\ ask' \in [Clients -> Stages]
          /\ got' \in [Clients -> Integration]
      BY <1>1 DEF Types, IntegrationTypeOK, Stages
    <2> QED BY <1>1, <2>1, CallBegins, Zenon DEF Types, IntegrationTypeOK, Stages
  <1>3. \A d \in Clients \ {c} :
            /\ ask'[d] = ask[d] /\ how'[d] = how[d] /\ got'[d] = got[d]
            /\ result'[d] = result[d] /\ due'[d] = due[d]
    BY <1>1, CallBegins DEF Types, IntegrationTypeOK
  <1>4. ask[c] = "idle" /\ ask'[c] = "sync" /\ got'[c] = canon
    BY <1>1, CallBegins DEF Types, IntegrationTypeOK
  <1>5. ASSUME due'[c] # "any" PROVE OnTheWay(c)'
    <2>1. /\ calm /\ NonePending /\ how'[c] = path
          /\ due'[c] = Outcome(TrueRow, TrueKey, path)
      BY <1>5, CallBegins
    <2>2. NonePending' BY <1>3, <1>4, <2>1 DEF NonePending, Pending
    <2>3. TrueRow' = TrueRow /\ TrueKey' = TrueKey BY <1>1 DEF TrueRow, TrueKey
    <2> QED BY <1>1, <1>4, <2>1, <2>2, <2>3 DEF OnTheWay
  <1> QED BY <1>1, <1>2, <1>3, <1>4, <1>5, CallStepKeeps DEF Pending

LEMMA LookAtOneKeeps ==
    ASSUME IntegrationInv, NEW c \in Clients, NEW path \in Paths, LookAtOne(c, path)
    PROVE  IntegrationInv'
  <1> USE DEF IntegrationInv
  <1>1. CASE IsTold(c) BY <1>1, ToldKeeps DEF LookAtOne
  <1>2. CASE ~Fits(canon, path) /\ CallEnds(c, "refused")
             /\ UNCHANGED <<hosted, canon, canonKey, shadow, shadowKey, got, changes, calm>>
    <2>1. hosted /\ Begins(c, path) BY DEF LookAtOne
    <2>2. ask' = [ask EXCEPT ![c] = "ended"] /\ result' = [result EXCEPT ![c] = "refused"]
      BY <1>2 DEF CallEnds
    <2>3. IntegrationTypeOK'
      <3>1. /\ ask' \in [Clients -> Stages]
            /\ result' \in [Clients -> Keys \cup {NoKey, "none", "refused"}]
        BY <2>2 DEF Types, IntegrationTypeOK, Stages
      <3> QED BY <1>2, <2>1, <3>1, CallBegins, Zenon DEF Types, IntegrationTypeOK, Stages
    <2>4. \A d \in Clients \ {c} :
              /\ ask'[d] = ask[d] /\ how'[d] = how[d] /\ got'[d] = got[d]
              /\ result'[d] = result[d] /\ due'[d] = due[d]
      BY <1>2, <2>1, <2>2, CallBegins DEF Types, IntegrationTypeOK
    <2>5. ask[c] = "idle" /\ ask'[c] = "ended" /\ result'[c] = "refused"
      BY <2>1, <2>2, CallBegins DEF Types, IntegrationTypeOK
    <2>6. ASSUME due'[c] # "any" PROVE OnTheWay(c)'
      <3>1. calm /\ NonePending /\ due'[c] = Outcome(TrueRow, TrueKey, path)
        BY <2>1, <2>6, CallBegins
      <3>2. due'[c] = "refused"
        BY <1>2, <2>1, <3>1, UnfitIsRefused DEF TrueRow
      <3>3. NonePending' BY <2>4, <2>5, <3>1 DEF NonePending, Pending
      <3> QED BY <1>2, <2>5, <3>1, <3>2, <3>3 DEF OnTheWay
    <2> QED BY <1>2, <2>3, <2>4, <2>5, <2>6, CallStepKeeps DEF Pending
  <1> QED BY <1>1, <1>2 DEF LookAtOne

LEMMA SyncKeeps ==
    ASSUME IntegrationInv, NEW c \in Clients, Sync(c)
    PROVE  IntegrationInv'
  <1> USE DEF IntegrationInv
  <1>1. /\ ask[c] = "sync"
        /\ shadow' = IF got[c].here THEN got[c] ELSE shadow
        /\ GoesOn(c, got[c], how[c])
        /\ got' = [got EXCEPT ![c] = Nothing]
        /\ UNCHANGED <<hosted, canon, canonKey, shadowKey, how, changes, calm, due>>
    BY DEF Sync
  <1>2. hosted BY <1>1 DEF Paired
  <1>3. IntegrationTypeOK'
    <2>1. got' \in [Clients -> Integration]
      BY <1>1, RowTypes DEF Types, IntegrationTypeOK
    <2>2. shadow' \in Integration BY <1>1 DEF Types, IntegrationTypeOK
    <2> QED BY <1>1, <2>1, <2>2, GoesOnRightly, Zenon DEF Types, IntegrationTypeOK, Stages
  <1>4. \A d \in Clients \ {c} :
            /\ ask'[d] = ask[d] /\ how'[d] = how[d] /\ got'[d] = got[d]
            /\ result'[d] = result[d] /\ due'[d] = due[d]
    BY <1>1, GoesOnRightly DEF Types, IntegrationTypeOK
  <1>5. ask'[c] \in {"key", "ended"} BY <1>1, GoesOnRightly
  <1>6. ASSUME due'[c] # "any" PROVE OnTheWay(c)'
    <2>1. calm /\ NonePending /\ due[c] = Outcome(TrueRow, TrueKey, how[c])
      BY <1>1, <1>6 DEF Calls, OnTheWay
    <2>2. got[c] = TrueRow BY <1>1, <1>2, <2>1 DEF Mirroring, TrueRow
    <2>3. NonePending' BY <1>4, <1>5, <2>1 DEF NonePending, Pending
    <2>4. TrueRow' = TrueRow /\ TrueKey' = TrueKey BY <1>1, <1>2 DEF TrueRow, TrueKey
    <2>5. CASE ask'[c] = "key" /\ Fits(got[c], how[c])
      BY <1>1, <2>1, <2>2, <2>3, <2>4, <2>5 DEF OnTheWay
    <2>6. CASE ask'[c] = "ended" /\ result'[c] = "refused" /\ ~Fits(got[c], how[c])
      <3>1. due[c] = "refused" BY <2>1, <2>2, <2>6, UnfitIsRefused
      <3> QED BY <1>1, <2>1, <2>3, <2>6, <3>1 DEF OnTheWay
    <2> QED BY <1>1, <2>5, <2>6, GoesOnRightly
  <1> QED BY <1>1, <1>3, <1>4, <1>5, <1>6, CallStepKeeps DEF Pending

LEMMA WithKeyKeeps ==
    ASSUME IntegrationInv, NEW c \in Clients, ask[c] = "key", WithKey(c)
    PROVE  IntegrationInv'
  <1> USE DEF IntegrationInv
  <1>1. PICK key \in KeysFound :
            CallEnds(c, IF key # NoKey \/ how[c] \in Keyless THEN key ELSE "refused")
    BY DEF WithKey
  <1>2. UNCHANGED <<hosted, canon, canonKey, shadow, shadowKey, how, got, changes, calm, due>>
    BY DEF WithKey
  <1>3. key \in Keys \cup {NoKey} BY <1>1 DEF KeysFound, Types, IntegrationTypeOK
  <1> DEFINE end == IF key # NoKey \/ how[c] \in Keyless THEN key ELSE "refused"
  <1>4. end \in Keys \cup {NoKey, "none", "refused"} BY <1>3
  <1>5. ask' = [ask EXCEPT ![c] = "ended"] /\ result' = [result EXCEPT ![c] = end]
    BY <1>1 DEF CallEnds
  <1>6. ASSUME due[c] # "any" PROVE calm /\ NonePending /\ due[c] = end
    <2>1. /\ calm /\ NonePending /\ due[c] = Outcome(TrueRow, TrueKey, how[c])
          /\ Fits(TrueRow, how[c])
      BY <1>6 DEF Calls, OnTheWay
    <2>2. key = TrueKey BY <1>1, <2>1, KeyIsFound
    <2> QED BY <2>1, <2>2 DEF Outcome, Fits
  <1> HIDE DEF end
  <1>7. IntegrationTypeOK'
    <2>1. /\ ask' \in [Clients -> Stages]
          /\ result' \in [Clients -> Keys \cup {NoKey, "none", "refused"}]
      BY <1>4, <1>5 DEF Types, IntegrationTypeOK, Stages
    <2> QED BY <1>2, <2>1, Zenon DEF Types, IntegrationTypeOK, Stages
  <1>8. \A d \in Clients \ {c} :
            /\ ask'[d] = ask[d] /\ how'[d] = how[d] /\ got'[d] = got[d]
            /\ result'[d] = result[d] /\ due'[d] = due[d]
    BY <1>2, <1>5 DEF Types, IntegrationTypeOK
  <1>9. ask'[c] = "ended" /\ result'[c] = end
    BY <1>4, <1>5 DEF Types, IntegrationTypeOK
  <1>10. ASSUME due'[c] # "any" PROVE OnTheWay(c)'
    <2>1. calm /\ NonePending /\ due[c] = end BY <1>2, <1>6, <1>10
    <2>2. NonePending' BY <1>8, <1>9, <2>1 DEF NonePending, Pending
    <2> QED BY <1>2, <1>9, <2>1, <2>2 DEF OnTheWay
  <1> QED BY <1>2, <1>7, <1>8, <1>9, <1>10, CallStepKeeps DEF Pending

LEMMA IntegrationStep == IntegrationInv /\ [IntegrationNext]_integrationVars => IntegrationInv'
  <1> SUFFICES ASSUME IntegrationInv, [IntegrationNext]_integrationVars PROVE IntegrationInv'
    OBVIOUS
  <1>1. ASSUME NEW c \in Clients, EditAtService(c) \/ DeleteAtService(c) \/ EditLocally(c)
                                   \/ FindExisting(c) \/ DeleteLocally(c)
        PROVE  IntegrationInv'
    BY <1>1, EditAtServiceKeeps, DeleteAtServiceKeeps, EditLocallyKeeps, FindExistingKeeps,
       DeleteLocallyKeeps
  <1>6. ASSUME NEW c \in Clients, WriteKey(c) \/ WriteRow(c) \/ PruneRow(c) \/ PruneKey(c)
        PROVE  IntegrationInv'
    BY <1>6, WriteKeyKeeps, WriteRowKeeps, PruneRowKeeps, PruneKeyKeeps
  <1>2. ASSUME NEW c \in Clients, Sync(c) \/ GetKey(c) \/ GetKeyForTools(c) \/ CallProvider(c)
        PROVE  IntegrationInv'
    BY <1>2, SyncKeeps, WithKeyKeeps, CallProviderKeeps DEF GetKey, GetKeyForTools
  <1>3. ASSUME NEW c \in Clients, NEW path \in Paths,
               LookAtOne(c, path) \/ LookAtList(c, path) \/ LookAtShadow(c, path)
        PROVE  IntegrationInv'
    <2>1. CASE LookAtList(c, path) BY <2>1, ToldKeeps DEF LookAtList
    <2> QED BY <1>3, <2>1, LookAtOneKeeps, LookAtShadowKeeps
  <1>4. CASE EditElsewhere BY <1>4, EditElsewhereKeeps
  <1>5. CASE UNCHANGED integrationVars
    <2>1. /\ hosted' = hosted /\ canon' = canon /\ canonKey' = canonKey /\ shadow' = shadow
          /\ shadowKey' = shadowKey /\ ask' = ask /\ how' = how /\ got' = got
          /\ result' = result /\ changes' = changes /\ calm' = calm /\ due' = due
      BY <1>5 DEF integrationVars
    <2>2. Types' BY <2>1, Zenon DEF IntegrationInv, Types, IntegrationTypeOK
    <2>3. ServiceTells' /\ Paired' /\ OneEditor'
      BY <2>1 DEF IntegrationInv, ServiceTells, TellsOfKey, Paired, OneEditor, Pending
    <2>6. Writing'
      BY <2>1 DEF IntegrationInv, Writing, TellsOfKey, NonePending, Pending
    <2>4. Mirroring' BY <2>1 DEF IntegrationInv, Mirroring, NonePending, Pending
    <2>5. Calls'
      BY <2>1 DEF IntegrationInv, Calls, OnTheWay, NonePending, Pending, TrueRow, TrueKey
    <2> QED BY <2>2, <2>3, <2>4, <2>5, <2>6 DEF IntegrationInv
  <1> QED BY <1>1, <1>2, <1>3, <1>4, <1>5, <1>6 DEF IntegrationNext

\* The inductive invariant of the module, from which the theorems below follow.
THEOREM IntegrationInvHolds == IntegrationSpec => []IntegrationInv
  BY IntegrationStarts, IntegrationStep, PTL DEF IntegrationSpec

-----------------------------------------------------------------------------
(* Theorems.                                                               *)

\* Rows, keys and requests are what they should be.
THEOREM IntegrationTypes == IntegrationSpec => []IntegrationTypeOK
  <1>1. IntegrationInv => IntegrationTypeOK BY DEF IntegrationInv, Types
  <1> QED BY <1>1, IntegrationInvHolds, PTL

\* Between edits the local store is a true copy of what the service holds, as long as
\* they go through this server, do not overlap each other or the writing of what a
\* lookup was told, and are answered (sync_integration_shadow, sync_integrations_shadow).
THEOREM LookupsUndoNoEdit == IntegrationSpec => []QuietEditsAreMirrored
  <1>1. IntegrationInv => QuietEditsAreMirrored
    BY NoneUnderWay DEF IntegrationInv, Mirroring, QuietEditsAreMirrored
  <1> QED BY <1>1, IntegrationInvHolds, PTL

\* As long as edits do not overlap in that way, a call of a tool that meets none is made
\* with the key the data demand, or refused when they demand that, whether or not there
\* is a service and it can be reached for the integration and for the key
\* (resolve_org_integration and its like); without a service it rests on the writes of
\* upsert_integration, one after the other, leaving a row that tells of its key.
THEOREM CallsGetTheirKey == IntegrationSpec => []CallsSeeQuietEdits
  <1>1. IntegrationInv => CallsSeeQuietEdits
    BY DEF IntegrationInv, Calls, OnTheWay, CallsSeeQuietEdits
  <1> QED BY <1>1, IntegrationInvHolds, PTL

-----------------------------------------------------------------------------
(* Agents. *)

Phases == {"idle", "post", "keep", "provision", "record", "ask", "take", "put",
           "match", "make", "unbind", "projects", "check", "forget"}

Handlers ==
    [job : Errands \cup {"none"}, phase : Phases,
     wish : Machines \cup {"same"}, by : Fields,
     read : Machines \cup {"none", "gone", "nothing", "failed"},
     left : SUBSET Projects, blind : SUBSET Projects]

\* What a handler is doing fits its request, and it knows the machine it is about
\* to write.
FitsJob(h) ==
    /\ h.job = "create" => /\ h.phase \in {"post", "keep", "provision", "record"}
                           /\ h.wish \in Machines
    /\ h.job = "update" => /\ h.phase \in {"ask", "take", "put", "keep"}
                           /\ h.phase \in {"put", "keep"} => h.read \in Machines
    /\ h.job = "delete" => h.phase \in {"projects", "check", "forget"}
    /\ h.phase \in {"post", "provision", "record"} => h.job = "create"
    /\ h.phase = "keep" => h.job \in {"create", "update"}
    /\ h.phase = "put" => h.job = "update"
    /\ h.phase \in {"projects", "check", "forget"} => h.job = "delete"

\* An agent is created once: while it is being posted it is not there.
CreatedOnce ==
    \A u \in Users : Stands(u, "post") =>
        agentRow = "none" /\ \A v \in Users : Stands(v, "post") => v = u

OnlyTheGoneIsForgotten ==
    \A u \in Users : Stands(u, "forget") => agentRow = "gone"

\* A deletion under way has still to look into the project of every binding made
\* before it, or could not.
SearchIsComplete ==
    \A u \in Users : Stands(u, "projects") \/ Stands(u, "check") =>
        \A b \in bound : b.late \/ b.in \in handler[u].left \cup handler[u].blind

Edits(u) == Does(u, "update") \/ Stands(u, "post") \/ (Does(u, "create") /\ Stands(u, "keep"))

\* Edits that come one at a time: what the editor is about to write is the machine
\* last asked for, and until it writes, nothing has changed.
WishOnTheWay ==
    tidy =>
        /\ \A u, v \in Users : Edits(u) /\ Edits(v) => u = v
        /\ \A u \in Users : Does(u, "update") => agentRow # "none"
        /\ \A u \in Users : Edits(u) /\ There =>
               /\ agentRow = asked
               /\ Stands(u, "keep") => Merged(u) = asked
               /\ ~Stands(u, "keep") => config = asked
               /\ Does(u, "update") /\ Stands(u, "put") => handler[u].read = asked

AgentsInv ==
    /\ AgentsTypeOK /\ \A u \in Users : FitsJob(handler[u])
    /\ CreatedOnce /\ OnlyTheGoneIsForgotten
    /\ SearchIsComplete /\ NoBindingIsOrphaned
    /\ WishOnTheWay /\ LastWishHolds


------------------------------------------------------------------------------
(* What the steps do to a handler.                                           *)

\* h is what becomes of the handler of u.
Becomes(u, h) ==
    /\ handler' = [handler EXCEPT ![u] = h]
    /\ h \in Handlers /\ FitsJob(h)

LEMMA HandlersAfter ==
    ASSUME AgentsTypeOK, NEW u \in Users, NEW h, Becomes(u, h)
    PROVE  /\ handler' \in [Users -> Handlers]
           /\ handler'[u] = h
           /\ \A v \in Users \ {u} : handler'[v] = handler[v]
  BY DEF Becomes, AgentsTypeOK, Handlers, Phases

LEMMA IdleFits == Idle \in Handlers /\ FitsJob(Idle) /\ Idle.job = "none" /\ Idle.phase = "idle"
  <1>1. Idle \in Handlers
    <2>1. "idle" \in Phases BY DEF Phases
    <2>2. {} \in SUBSET Projects OBVIOUS
    <2>3. "environment" \in Fields BY DEF Fields
    <2> QED BY <2>1, <2>2, <2>3, Zenon DEF Idle, Handlers
  <1> QED BY <1>1 DEF Idle, FitsJob

LEMMA DoneMeansIdle ==
    ASSUME NEW u \in Users, Done(u)
    PROVE  Becomes(u, Idle)
  BY IdleFits DEF Done, Becomes

LEMMA PhaseChanged ==
    ASSUME NEW h \in Handlers, NEW phase \in Phases
    PROVE  LET g == [h EXCEPT !.phase = phase]
           IN  /\ g \in Handlers /\ g.phase = phase /\ g.job = h.job /\ g.wish = h.wish /\ g.by = h.by
               /\ g.read = h.read /\ g.left = h.left /\ g.blind = h.blind
  BY DEF Handlers

LEMMA ReadChanged ==
    ASSUME NEW h \in Handlers, NEW read \in Machines \cup {"none", "gone", "nothing", "failed"}
    PROVE  LET g == [h EXCEPT !.read = read]
           IN  /\ g \in Handlers /\ g.phase = h.phase /\ g.job = h.job /\ g.wish = h.wish /\ g.by = h.by
               /\ g.read = read /\ g.left = h.left /\ g.blind = h.blind
  BY DEF Handlers

LEMMA LeftChanged ==
    ASSUME NEW h \in Handlers, NEW left \in SUBSET Projects
    PROVE  LET g == [h EXCEPT !.left = left]
           IN  /\ g \in Handlers /\ g.phase = h.phase /\ g.job = h.job /\ g.wish = h.wish /\ g.by = h.by
               /\ g.read = h.read /\ g.left = left /\ g.blind = h.blind
  BY DEF Handlers

LEMMA BlindChanged ==
    ASSUME NEW h \in Handlers, NEW blind \in SUBSET Projects
    PROVE  LET g == [h EXCEPT !.blind = blind]
           IN  /\ g \in Handlers /\ g.phase = h.phase /\ g.job = h.job /\ g.wish = h.wish /\ g.by = h.by
               /\ g.read = h.read /\ g.left = h.left /\ g.blind = blind
  BY DEF Handlers

LEMMA GoesMeansMoved ==
    ASSUME AgentsInv, NEW u \in Users, NEW phase \in Phases, Goes(u, phase),
           FitsJob([handler[u] EXCEPT !.phase = phase])
    PROVE  \E h \in Handlers :
               /\ Becomes(u, h) /\ h.phase = phase /\ h.job = handler[u].job
               /\ h.wish = handler[u].wish /\ h.by = handler[u].by /\ h.read = handler[u].read
               /\ h.left = handler[u].left /\ h.blind = handler[u].blind
  <1>1. handler[u] \in Handlers BY DEF AgentsInv, AgentsTypeOK, Handlers, Phases
  <1>2. handler' = [handler EXCEPT ![u] = [handler[u] EXCEPT !.phase = phase]]
    BY DEF Goes, AgentsInv, AgentsTypeOK
  <1> QED BY <1>1, <1>2, PhaseChanged DEF Becomes

------------------------------------------------------------------------------
(* Steps that leave the machine alone.                                       *)

\* The next state of a handler that does not edit, or is not yet at it.
LEMMA QuietStep ==
    ASSUME AgentsInv, NEW u \in Users, NEW h \in Handlers, Becomes(u, h),
           UNCHANGED <<agentRow, config, asked, tidy, unseen>>,
           box' \in {"none", "made", "known"}, agentShadow' \in Machines \cup {"none"},
           bound' \subseteq [by : Users, in : Projects, late : BOOLEAN],
           requests' \in 0 .. MaxRequests,
           handler[u].phase \notin {"post", "keep"}, h.phase \notin {"post", "keep", "forget"},
           h.job \in {handler[u].job, "none"},
           h.phase = "put" => (tidy /\ There => h.read = asked),
           \A b \in bound' :
               \/ b \in bound
               \/ b.late
               \/ ~Deleting /\ agentRow # "gone",
           h.phase \in {"projects", "check"} =>
               \A b \in bound' : b.late \/ b.in \in h.left \cup h.blind
    PROVE  AgentsInv'
  <1>1. /\ handler' \in [Users -> Handlers] /\ handler'[u] = h
        /\ \A v \in Users \ {u} : handler'[v] = handler[v]
    BY HandlersAfter DEF AgentsInv
  <1>2. AgentsTypeOK' BY <1>1 DEF AgentsInv, AgentsTypeOK, Handlers, Phases
  <1>3. \A v \in Users : FitsJob(handler'[v]) BY <1>1 DEF AgentsInv, Becomes
  <1>4. CreatedOnce' /\ OnlyTheGoneIsForgotten'
    BY <1>1 DEF AgentsInv, CreatedOnce, OnlyTheGoneIsForgotten, Stands
  <1>5. SearchIsComplete'
    BY <1>1 DEF AgentsInv, SearchIsComplete, Stands, Deleting, Does, FitsJob
  <1>6. NoBindingIsOrphaned' BY DEF AgentsInv, NoBindingIsOrphaned
  <1>7. \A v \in Users : Edits(v)' => Edits(v) /\ (Stands(v, "keep") <=> Stands(v, "keep")')
    BY <1>1 DEF Edits, Does, Stands
  <1>8. WishOnTheWay'
    BY <1>1, <1>7 DEF AgentsInv, WishOnTheWay, Does, Stands, Merged, AsksForNone, There
  <1>9. LastWishHolds'
    BY <1>1 DEF AgentsInv, WishOnTheWay, LastWishHolds, Editing, Edits, Does, Stands, There
  <1> QED BY <1>2, <1>3, <1>4, <1>5, <1>6, <1>8, <1>9 DEF AgentsInv

LEMMA KnownMachine ==
    ASSUME AgentsInv, NEW u \in Users, Known(u) # "none"
    PROVE  Known(u) \in Machines
  BY DEF AgentsInv, AgentsTypeOK, Known, Applied

LEMMA KnownIsWanted ==
    ASSUME AgentsInv, NEW u \in Users, Does(u, "update"), handler[u].phase = "take",
           tidy, There, Known(u) # "none"
    PROVE  Known(u) = asked
  <1>1. agentRow = asked /\ config = asked
    BY DEF AgentsInv, WishOnTheWay, Edits, Does, Stands
  <1> QED BY <1>1 DEF Known, Applied, There

LEMMA NextPhases ==
    /\ NextPhase("update") = "put" /\ NextPhase("bind") = "make"
    /\ \A job \in Errands \cup {"none"} : job \notin {"update", "bind"} => NextPhase(job) = "match"
  BY Zenon DEF NextPhase

LEMMA AskNetworkKeeps == ASSUME AgentsInv, NEW u \in Users, AskNetwork(u) PROVE AgentsInv'
  <1>1. PICK answer \in {agentRow, "failed"} :
            handler' = [handler EXCEPT ![u].phase = "take", ![u].read = answer]
    BY DEF AskNetwork
  <1> DEFINE g == [handler[u] EXCEPT !.phase = "take"]
             h == [g EXCEPT !.read = answer]
  <1>2. handler[u] \in Handlers /\ FitsJob(handler[u]) /\ handler[u].phase = "ask"
    BY DEF AgentsInv, AgentsTypeOK, Handlers, Phases, AskNetwork, Stands
  <1>3. answer \in Machines \cup {"none", "gone", "nothing", "failed"}
    BY DEF AgentsInv, AgentsTypeOK
  <1>4. /\ g \in Handlers /\ g.phase = "take" /\ g.job = handler[u].job /\ g.wish = handler[u].wish
        /\ g.left = handler[u].left /\ g.blind = handler[u].blind
    BY <1>2, PhaseChanged DEF Phases
  <1>5. h \in Handlers /\ h.phase = "take" /\ h.job = handler[u].job /\ h.wish = handler[u].wish
    BY <1>3, <1>4, ReadChanged
  <1>6. handler' = [handler EXCEPT ![u] = h] BY <1>1 DEF AgentsInv, AgentsTypeOK
  <1> HIDE DEF h
  <1>7. Becomes(u, h) BY <1>2, <1>5, <1>6 DEF Becomes, FitsJob
  <1> QED
    BY <1>2, <1>5, <1>7, QuietStep
    DEF AskNetwork, agentRecords, historyVars, AgentsInv, AgentsTypeOK

LEMMA TakeKeeps == ASSUME AgentsInv, NEW u \in Users, Take(u) PROVE AgentsInv'
  <1>1. handler[u] \in Handlers /\ FitsJob(handler[u]) /\ handler[u].phase = "take"
    BY DEF AgentsInv, AgentsTypeOK, Handlers, Phases, Take, Stands
  <1>2. agentShadow' \in Machines \cup {"none"}
    BY DEF Take, AgentsInv, AgentsTypeOK, Applied
  <1>3. CASE Known(u) = "none" \/ Does(u, "show")
    <2>1. Becomes(u, Idle) BY <1>3, DoneMeansIdle DEF Take
    <2> QED
      BY <1>1, <1>2, <2>1, IdleFits, QuietStep DEF Take, historyVars, AgentsInv, AgentsTypeOK
  <1>4. CASE ~(Known(u) = "none" \/ Does(u, "show"))
    <2> DEFINE phase == NextPhase(handler[u].job)
               g == [handler[u] EXCEPT !.phase = phase]
               h == [g EXCEPT !.read = Known(u)]
    <2>1. /\ phase \in Phases /\ phase \in {"put", "make", "match"}
          /\ phase = "put" <=> handler[u].job = "update"
      BY <1>1, NextPhases DEF Phases, Handlers
    <2>2. Known(u) \in Machines BY <1>4, KnownMachine
    <2>3. g \in Handlers /\ g.phase = phase /\ g.job = handler[u].job /\ g.wish = handler[u].wish
      BY <1>1, <2>1, PhaseChanged
    <2>4. /\ h \in Handlers /\ h.phase = phase /\ h.job = handler[u].job
          /\ h.wish = handler[u].wish /\ h.read = Known(u)
      BY <2>2, <2>3, ReadChanged
    <2>5. handler' = [handler EXCEPT ![u] = h]
      BY <1>4 DEF AgentsInv, AgentsTypeOK, Take
    <2> HIDE DEF h, phase
    <2>6. Becomes(u, h)
      BY <1>1, <2>1, <2>2, <2>4, <2>5 DEF Becomes, FitsJob
    <2>7. h.phase = "put" => (tidy /\ There => h.read = asked)
      BY <1>1, <1>4, <2>1, <2>4, KnownIsWanted DEF Does
    <2> QED
      BY <1>1, <1>2, <2>1, <2>4, <2>6, <2>7, QuietStep
      DEF Take, historyVars, AgentsInv, AgentsTypeOK
  <1> QED BY <1>3, <1>4

\* A step of a request that ends it and leaves the machine alone.
LEMMA QuietEnd ==
    ASSUME AgentsInv, NEW u \in Users, Done(u), handler[u].phase \notin {"post", "keep"},
           UNCHANGED <<agentRow, config, asked, tidy, unseen, requests>>,
           box' \in {"none", "made", "known"}, agentShadow' \in Machines \cup {"none"},
           bound' \subseteq [by : Users, in : Projects, late : BOOLEAN],
           \A b \in bound' : b \in bound \/ b.late \/ (~Deleting /\ agentRow # "gone")
    PROVE  AgentsInv'
  <1>1. Becomes(u, Idle) BY DoneMeansIdle
  <1>2. requests' \in 0 .. MaxRequests BY DEF AgentsInv, AgentsTypeOK
  <1> QED BY <1>1, <1>2, IdleFits, QuietStep

LEMMA BoxesKeep ==
    ASSUME AgentsInv, NEW u \in Users, Provision(u) \/ RecordBox(u)
    PROVE  AgentsInv'
  <1>1. handler[u] \in Handlers /\ FitsJob(handler[u])
    BY DEF AgentsInv, AgentsTypeOK, Handlers, Phases
  <1>2. CASE Provision(u) /\ Done(u)
    BY <1>2, QuietEnd DEF Provision, Stands, historyVars, AgentsInv, AgentsTypeOK
  <1>3. CASE RecordBox(u)
    BY <1>3, QuietEnd DEF RecordBox, Stands, historyVars, AgentsInv, AgentsTypeOK, Applied, There
  <1>4. CASE Provision(u) /\ Goes(u, "record")
    <2>1. handler[u].phase = "provision" /\ handler[u].job = "create"
      BY <1>1, <1>4 DEF Provision, Stands, FitsJob
    <2>2. FitsJob([handler[u] EXCEPT !.phase = "record"])
      BY <1>1, <2>1, PhaseChanged DEF FitsJob, Phases
    <2> "record" \in Phases BY DEF Phases
    <2>3. PICK h \in Handlers :
               Becomes(u, h) /\ h.phase = "record" /\ h.job = handler[u].job
      BY <1>4, <2>2, GoesMeansMoved
    <2> QED
      BY <1>4, <2>1, <2>3, QuietStep DEF Provision, historyVars, AgentsInv, AgentsTypeOK
  <1> QED BY <1>2, <1>3, <1>4 DEF Provision

LEMMA MatchKeeps ==
    ASSUME AgentsInv, NEW u \in Users, Match(u) \/ MatchForBridge(u)
    PROVE  AgentsInv'
  <1>1. handler[u] \in Handlers /\ FitsJob(handler[u]) /\ handler[u].phase = "match"
    BY DEF AgentsInv, AgentsTypeOK, Handlers, Phases, Match, MatchForBridge, Stands
  <1>2. UNCHANGED <<agentRecords, requests, historyVars>> BY DEF Match, MatchForBridge
  <1>3. CASE Done(u)
    BY <1>1, <1>2, <1>3, QuietEnd DEF agentRecords, historyVars, AgentsInv, AgentsTypeOK
  <1>4. CASE Goes(u, "make")
    <2>1. FitsJob([handler[u] EXCEPT !.phase = "make"])
      BY <1>1, PhaseChanged DEF FitsJob, Phases
    <2> "make" \in Phases BY DEF Phases
    <2>2. PICK h \in Handlers : Becomes(u, h) /\ h.phase = "make" /\ h.job = handler[u].job
      BY <1>4, <2>1, GoesMeansMoved
    <2> QED
      BY <1>1, <1>2, <2>2, QuietStep DEF agentRecords, historyVars, AgentsInv, AgentsTypeOK
  <1>5. CASE handler' = [handler EXCEPT ![u].phase = "make", ![u].left = {First}]
    <2> DEFINE g == [handler[u] EXCEPT !.phase = "make"]
               h == [g EXCEPT !.left = {First}]
    <2>1. g \in Handlers /\ g.phase = "make" /\ g.job = handler[u].job /\ g.wish = handler[u].wish
      BY <1>1, PhaseChanged DEF Phases
    <2>2. h \in Handlers /\ h.phase = "make" /\ h.job = handler[u].job /\ h.wish = handler[u].wish
      BY <2>1, LeftChanged, AgentsAssumption DEF AgentsAssumption
    <2>3. handler' = [handler EXCEPT ![u] = h] BY <1>5 DEF AgentsInv, AgentsTypeOK
    <2> HIDE DEF h
    <2>4. Becomes(u, h) BY <1>1, <2>2, <2>3 DEF Becomes, FitsJob
    <2> QED
      BY <1>1, <1>2, <2>2, <2>4, QuietStep
      DEF agentRecords, historyVars, AgentsInv, AgentsTypeOK
  <1> QED BY <1>3, <1>4, <1>5 DEF Match, MatchForBridge

LEMMA MakeKeeps == ASSUME AgentsInv, NEW u \in Users, Make(u) PROVE AgentsInv'
  <1>1. handler[u] \in Handlers /\ handler[u].phase = "make"
    BY DEF AgentsInv, AgentsTypeOK, Handlers, Phases, Make, Stands
  <1>2. CASE UNCHANGED bound
    BY <1>1, <1>2, QuietEnd DEF Make, historyVars, AgentsInv, AgentsTypeOK
  <1>3. CASE \E p \in handler[u].left :
                bound' = bound \cup {[by |-> u, in |-> p, late |-> Deleting \/ agentRow = "gone"]}
    <2>1. PICK p \in Projects :
              bound' = bound \cup {[by |-> u, in |-> p, late |-> Deleting \/ agentRow = "gone"]}
      BY <1>1, <1>3 DEF Handlers
    <2>2. PICK late \in BOOLEAN : late = (Deleting \/ agentRow = "gone")
      OBVIOUS
    <2>3. PICK new \in [by : Users, in : Projects, late : BOOLEAN] :
              new = [by |-> u, in |-> p, late |-> late]
      OBVIOUS
    <2>4. bound' = bound \cup {new} BY <2>1, <2>2, <2>3
    <2>5. new.late = late BY <2>3
    <2>6. \A b \in bound' : b \in bound \/ b.late \/ (~Deleting /\ agentRow # "gone")
      BY <2>2, <2>4, <2>5
    <2>7. bound' \subseteq [by : Users, in : Projects, late : BOOLEAN]
      BY <2>4 DEF AgentsInv, AgentsTypeOK
    <2> QED
      BY <1>1, <2>6, <2>7, QuietEnd DEF Make, historyVars, AgentsInv, AgentsTypeOK
  <1> QED BY <1>2, <1>3 DEF Make

LEMMA UnbindKeeps == ASSUME AgentsInv, NEW u \in Users, Unbind(u) PROVE AgentsInv'
  <1>1. handler[u].phase = "unbind" BY DEF Unbind, Stands
  <1> QED BY <1>1, QuietEnd DEF Unbind, historyVars, AgentsInv, AgentsTypeOK

LEMMA SearchStep ==
    ASSUME AgentsInv, NEW u \in Users, ListProjects(u) \/ Check(u)
    PROVE  AgentsInv'
  <1>1. /\ handler[u] \in Handlers /\ FitsJob(handler[u])
        /\ handler[u].phase \in {"projects", "check"} /\ handler[u].job = "delete"
    BY DEF AgentsInv, AgentsTypeOK, Handlers, Phases, ListProjects, Check, Stands, FitsJob
  <1>2. UNCHANGED <<agentRecords, requests, historyVars>> BY DEF ListProjects, Check
  <1>3. \A b \in bound : b.late \/ b.in \in handler[u].left \cup handler[u].blind
    BY <1>1 DEF AgentsInv, SearchIsComplete, Stands
  <1>4. CASE Done(u)
    BY <1>1, <1>2, <1>4, QuietEnd DEF agentRecords, historyVars, AgentsInv, AgentsTypeOK
  <1>5. CASE Goes(u, "check")
    <2>1. FitsJob([handler[u] EXCEPT !.phase = "check"])
      BY <1>1, PhaseChanged DEF FitsJob, Phases
    <2> "check" \in Phases BY DEF Phases
    <2>2. PICK h \in Handlers :
              /\ Becomes(u, h) /\ h.phase = "check" /\ h.job = handler[u].job
              /\ h.left = handler[u].left /\ h.blind = handler[u].blind
      BY <1>5, <2>1, GoesMeansMoved
    <2> QED
      BY <1>1, <1>2, <1>3, <2>2, QuietStep
      DEF agentRecords, historyVars, AgentsInv, AgentsTypeOK
  <1>6. ASSUME NEW p \in handler[u].left, Check(u),
               \/ /\ BoundIn({p}) = {}
                  /\ handler' = [handler EXCEPT ![u].left = @ \ {p}]
               \/ handler' = [handler EXCEPT ![u].left = @ \ {p}, ![u].blind = @ \cup {p}]
        PROVE  AgentsInv'
    <2>1. handler[u].phase = "check" /\ p \in Projects
      BY <1>1, <1>6 DEF Check, Stands, Handlers
    <2>2. handler[u].left \in SUBSET Projects /\ handler[u].blind \in SUBSET Projects
      BY <1>1 DEF Handlers
    <2> DEFINE g == [handler[u] EXCEPT !.left = handler[u].left \ {p}]
               k == [g EXCEPT !.blind = handler[u].blind \cup {p}]
    <2>3. /\ g \in Handlers /\ g.phase = "check" /\ g.job = "delete"
          /\ g.left = handler[u].left \ {p} /\ g.blind = handler[u].blind
      BY <1>1, <2>1, <2>2, LeftChanged
    <2>4. /\ k \in Handlers /\ k.phase = "check" /\ k.job = "delete"
          /\ k.left = handler[u].left \ {p} /\ k.blind = handler[u].blind \cup {p}
      BY <2>1, <2>2, <2>3, BlindChanged
    <2>5. \/ BoundIn({p}) = {} /\ handler' = [handler EXCEPT ![u] = g]
          \/ handler' = [handler EXCEPT ![u] = k]
      BY <1>6 DEF AgentsInv, AgentsTypeOK
    <2> HIDE DEF g, k
    <2>6. CASE BoundIn({p}) = {} /\ handler' = [handler EXCEPT ![u] = g]
      <3>1. Becomes(u, g) BY <2>3, <2>6 DEF Becomes, FitsJob
      <3>2. \A b \in bound : b.late \/ b.in \in g.left \cup g.blind
        BY <1>3, <2>3, <2>6 DEF BoundIn
      <3> QED
        BY <1>1, <1>2, <2>3, <3>1, <3>2, QuietStep
        DEF agentRecords, historyVars, AgentsInv, AgentsTypeOK
    <2>7. CASE handler' = [handler EXCEPT ![u] = k]
      <3>1. Becomes(u, k) BY <2>4, <2>7 DEF Becomes, FitsJob
      <3>2. \A b \in bound : b.late \/ b.in \in k.left \cup k.blind BY <1>3, <2>4
      <3> QED
        BY <1>1, <1>2, <2>4, <3>1, <3>2, QuietStep
        DEF agentRecords, historyVars, AgentsInv, AgentsTypeOK
    <2> QED BY <2>5, <2>6, <2>7
  <1> QED BY <1>4, <1>5, <1>6 DEF ListProjects, Check

------------------------------------------------------------------------------
(* Requests, and the steps that write the machine.                           *)

LEMMA EditingIsEdits == 
    ASSUME AgentsInv
    PROVE  Editing <=> \E u \in Users : Edits(u)
  BY DEF AgentsInv, Editing, Edits, FitsJob, Does, Stands

LEMMA FirstPhases ==
    /\ FirstPhase("create") = "post" /\ FirstPhase("delete") = "projects"
    /\ FirstPhase("events") = "match" /\ FirstPhase("unbind") = "unbind"
    /\ \A job \in Errands : job \notin {"create", "delete", "events", "unbind"}
           => FirstPhase(job) = "ask"
  BY Zenon DEF FirstPhase

LEMMA WishTypes ==
    /\ Wishes("create") = Machines
    /\ \A job \in Errands : Wishes(job) \subseteq Machines \cup {"same"}
  <1>1. Wishes("create") = Machines BY Zenon DEF Wishes
  <1>2. Wishes("update") = Machines \cup {"same"} BY Zenon DEF Wishes
  <1>3. \A job \in Errands : job \notin {"create", "update"} => Wishes(job) = {"same"}
    BY Zenon DEF Wishes
  <1> QED BY <1>1, <1>2, <1>3

LEMMA RequestKeeps == ASSUME AgentsInv, NEW u \in Users, Request(u) PROVE AgentsInv'
  <1>1. PICK job \in Errands :
            /\ job = "create" <=> agentRow = "none" /\ ~Editing
            /\ \E wish \in Wishes(job), left \in Targets(job) :
               \E by \in FieldsFor(job, wish) :
                   handler' = [handler EXCEPT ![u] =
                       [Idle EXCEPT !.job = job, !.phase = FirstPhase(job),
                                    !.wish = wish, !.by = by, !.left = left]]
            /\ tidy' = (tidy /\ (job = "update" => ~Editing))
    BY DEF Request
  <1>0. PICK wish \in Wishes(job), left \in Targets(job) :
            \E by \in FieldsFor(job, wish) :
            handler' = [handler EXCEPT ![u] =
                [Idle EXCEPT !.job = job, !.phase = FirstPhase(job),
                             !.wish = wish, !.by = by, !.left = left]]
    BY <1>1
  <1>2. PICK by \in FieldsFor(job, wish) :
            handler' = [handler EXCEPT ![u] =
                [Idle EXCEPT !.job = job, !.phase = FirstPhase(job),
                             !.wish = wish, !.by = by, !.left = left]]
    BY <1>0
  <1>3. left \in SUBSET Projects /\ (job = "delete" => left = Projects)
    BY DEF Targets
  <1>4. wish \in Machines \cup {"same"} /\ (job = "create" => wish \in Machines)
    BY WishTypes
  <1>5. FirstPhase(job) \in Phases BY FirstPhases DEF Phases
  <1>6. PICK phase \in Phases : phase = FirstPhase(job)
    BY <1>5
  <1> DEFINE h == [Idle EXCEPT !.job = job, !.phase = phase, !.wish = wish, !.by = by,
                               !.left = left]
  <1>7. Idle \in Handlers BY IdleFits
  <1>8. /\ h \in Handlers /\ h.job = job /\ h.phase = FirstPhase(job) /\ h.wish = wish
        /\ h.left = left
    <2>1. wish \in Machines \cup {"same"} BY <1>4
    <2>2. left \in SUBSET Projects BY <1>3
    <2>4. by \in Fields BY DEF FieldsFor, Fields
    <2>3. h \in Handlers /\ h.job = job /\ h.phase = phase /\ h.wish = wish /\ h.left = left
      BY <1>7, <2>1, <2>2, <2>4 DEF Handlers
    <2> QED BY <1>6, <2>3
  <1>9. handler' = [handler EXCEPT ![u] = h] BY <1>2, <1>6
  <1> HIDE DEF h
  <1>10. FitsJob(h) BY <1>4, <1>8, FirstPhases DEF FitsJob, Errands
  <1>11. /\ handler' \in [Users -> Handlers] /\ handler'[u] = h
         /\ \A v \in Users \ {u} : handler'[v] = handler[v]
    BY <1>8, <1>9, <1>10, HandlersAfter DEF Becomes, AgentsInv
  <1>12. h.phase = "post" <=> job = "create" BY <1>8, FirstPhases
  <1>13. h.phase \notin {"keep", "forget", "put", "check"} BY <1>8, FirstPhases
  <1>14. h.phase = "projects" <=> job = "delete" BY <1>8, FirstPhases
  <1>15. UNCHANGED <<agentRow, config, bound, asked, unseen, box, agentShadow>>
    BY DEF Request, agentRecords
  <1>16. AgentsTypeOK'
    <2>1. requests' \in 0 .. MaxRequests
      BY AgentsAssumption DEF Request, AgentsInv, AgentsTypeOK, AgentsAssumption
    <2>2. tidy' \in BOOLEAN BY <1>1 DEF AgentsInv, AgentsTypeOK
    <2> QED BY <1>11, <1>15, <2>1, <2>2 DEF AgentsInv, AgentsTypeOK, Handlers, Phases
  <1>17. \A v \in Users : FitsJob(handler'[v]) BY <1>10, <1>11 DEF AgentsInv
  <1>18. CreatedOnce'
    <2>1. job = "create" => agentRow = "none" /\ \A v \in Users : ~Stands(v, "post")
      BY <1>1, EditingIsEdits DEF Edits
    <2> QED BY <1>11, <1>12, <1>15, <2>1 DEF AgentsInv, CreatedOnce, Stands
  <1>19. OnlyTheGoneIsForgotten'
    BY <1>11, <1>13, <1>15 DEF AgentsInv, OnlyTheGoneIsForgotten, Stands
  <1>20. SearchIsComplete'
    <2>1. \A b \in bound : b.in \in Projects BY DEF AgentsInv, AgentsTypeOK
    <2> QED
      BY <1>3, <1>8, <1>11, <1>13, <1>14, <1>15, <2>1 DEF AgentsInv, SearchIsComplete, Stands
  <1>21. NoBindingIsOrphaned' BY <1>15 DEF AgentsInv, NoBindingIsOrphaned
  <1>22. tidy' => tidy BY <1>1
  <1>23. Edits(u)' <=> job \in {"create", "update"}
    BY <1>8, <1>11, <1>12, <1>13 DEF Edits, Does, Stands
  <1>24. Edits(u)' /\ tidy' => \A v \in Users : ~Edits(v)
    BY <1>1, <1>23, EditingIsEdits
  <1>25. \A v \in Users \ {u} : Edits(v)' <=> Edits(v)
    BY <1>11 DEF Edits, Does, Stands
  <1>26. handler[u].phase = "idle" /\ FitsJob(handler[u])
    BY DEF AgentsInv, Request, Stands
  <1>27. ~Edits(u) BY <1>26 DEF Edits, FitsJob, Does, Stands
  <1>28. tidy => LastWishHolds /\ (~Editing /\ There => agentRow = asked /\ config = asked)
    BY DEF AgentsInv, LastWishHolds
  <1>29. job = "update" /\ tidy' => agentRow # "none"
    BY <1>1
  <1>30. WishOnTheWay'
    <2> SUFFICES ASSUME tidy' PROVE WishOnTheWay'
      BY DEF WishOnTheWay
    <2>1. (\A v, w \in Users : Edits(v) /\ Edits(w) => v = w)'
      BY <1>22, <1>24, <1>25 DEF AgentsInv, WishOnTheWay
    <2>2. (\A v \in Users : Does(v, "update") => agentRow # "none")'
      BY <1>8, <1>11, <1>15, <1>22, <1>29 DEF AgentsInv, WishOnTheWay, Does
    <2>3. ASSUME NEW v \in Users, Edits(v)', There'
          PROVE  (/\ agentRow = asked
                  /\ Stands(v, "keep") => Merged(v) = asked
                  /\ ~Stands(v, "keep") => config = asked
                  /\ Does(v, "update") /\ Stands(v, "put") => handler[v].read = asked)'
      <3>1. CASE v = u
        <4>1. ~Editing BY <1>24, <2>3, <3>1, EditingIsEdits
        <4>2. agentRow = asked /\ config = asked
          BY <1>15, <1>22, <1>28, <2>3, <4>1 DEF There
        <4> QED BY <1>11, <1>13, <1>15, <3>1, <4>2 DEF Stands
      <3>2. CASE v # u
        BY <1>11, <1>15, <1>22, <1>25, <2>3, <3>2
        DEF AgentsInv, WishOnTheWay, Stands, Does, There, Merged, AsksForNone
      <3> QED BY <3>1, <3>2
    <2> QED BY <2>1, <2>2, <2>3 DEF WishOnTheWay
  <1>31. LastWishHolds'
    <2>1. Editing => Editing'
      <3>1. \A v \in Users : Edits(v) => v # u BY <1>27
      <3>2. \A v \in Users : Edits(v) => handler'[v] = handler[v] BY <1>11, <3>1
      <3> QED BY <3>2, EditingIsEdits DEF Editing, Edits, Does, Stands
    <2> QED BY <1>15, <1>22, <2>1 DEF AgentsInv, LastWishHolds, There
  <1> QED
    BY <1>16, <1>17, <1>18, <1>19, <1>20, <1>21, <1>30, <1>31 DEF AgentsInv

LEMMA Merges ==
    ASSUME AgentsInv, NEW u \in Users, handler[u].phase \in {"put", "keep"}
    PROVE  Merged(u) \in Machines
  <1>1. handler[u] \in Handlers /\ FitsJob(handler[u])
    BY DEF AgentsInv, AgentsTypeOK, Handlers, Phases
  <1>2. handler[u].wish \in Machines \cup {"same"} BY <1>1 DEF Handlers
  <1>3. AsksForNone(u) => handler[u].read \in Machines
    BY <1>1 DEF FitsJob, Machines, AsksForNone, Does
  <1> QED BY <1>2, <1>3 DEF Merged, AsksForNone

LEMMA PostKeeps == ASSUME AgentsInv, NEW u \in Users, Post(u) PROVE AgentsInv'
  <1>1. /\ handler[u] \in Handlers /\ FitsJob(handler[u]) /\ handler[u].phase = "post"
        /\ handler[u].job = "create" /\ handler[u].wish \in Machines /\ agentRow = "none"
    BY DEF AgentsInv, AgentsTypeOK, Handlers, Phases, Post, Stands, FitsJob, CreatedOnce
  <1>2. UNCHANGED <<box, config, agentShadow, bound, requests, tidy, unseen>> BY DEF Post
  <1>3. CASE Done(u) /\ UNCHANGED <<agentRow, asked>>
    <2>1. Becomes(u, Idle) BY <1>3, DoneMeansIdle
    <2>2. /\ handler' \in [Users -> Handlers] /\ handler'[u] = Idle
          /\ \A v \in Users \ {u} : handler'[v] = handler[v]
      BY <2>1, HandlersAfter DEF AgentsInv
    <2>3. AgentsTypeOK' BY <1>2, <1>3, <2>2 DEF AgentsInv, AgentsTypeOK, Handlers, Phases
    <2>4. (\A v \in Users : FitsJob(handler[v]))'
      BY <2>1, <2>2 DEF AgentsInv, Becomes
    <2>5. CreatedOnce' /\ OnlyTheGoneIsForgotten' /\ SearchIsComplete' /\ NoBindingIsOrphaned'
      BY <1>2, <1>3, <2>2, IdleFits
      DEF AgentsInv, CreatedOnce, OnlyTheGoneIsForgotten, SearchIsComplete,
          NoBindingIsOrphaned, Stands
    <2>6. \A v \in Users : Edits(v)' => Edits(v) /\ handler'[v] = handler[v]
      BY <2>2, IdleFits DEF Edits, Does, Stands
    <2>7. WishOnTheWay'
      <3> SUFFICES ASSUME tidy' PROVE WishOnTheWay' BY DEF WishOnTheWay
      <3>1. \A v, w \in Users : Edits(v)' /\ Edits(w)' => v = w
        BY <1>2, <2>6 DEF AgentsInv, WishOnTheWay
      <3>2. \A v \in Users : Does(v, "update")' => Does(v, "update")
        BY <2>2, IdleFits DEF Does
      <3>3. agentRow' = "none" /\ \A v \in Users : ~Does(v, "update")'
        BY <1>1, <1>2, <1>3, <3>2 DEF AgentsInv, WishOnTheWay
      <3>4. ~There' BY <3>3 DEF There, Machines
      <3> QED BY <3>1, <3>3, <3>4 DEF WishOnTheWay
    <2>8. LastWishHolds' BY <1>1, <1>3 DEF LastWishHolds, There, Machines
    <2> QED BY <2>3, <2>4, <2>5, <2>7, <2>8 DEF AgentsInv
  <1>4. CASE agentRow' = handler[u].wish /\ asked' = handler[u].wish /\ Goes(u, "keep")
    <2>1. FitsJob([handler[u] EXCEPT !.phase = "keep"])
      BY <1>1, PhaseChanged DEF FitsJob, Phases
    <2> "keep" \in Phases BY DEF Phases
    <2>2. PICK h \in Handlers :
              /\ Becomes(u, h) /\ h.phase = "keep" /\ h.job = handler[u].job
              /\ h.wish = handler[u].wish
      BY <1>4, <2>1, GoesMeansMoved
    <2>3. /\ handler' \in [Users -> Handlers] /\ handler'[u] = h
          /\ \A v \in Users \ {u} : handler'[v] = handler[v]
      BY <2>2, HandlersAfter DEF AgentsInv
    <2>4. AgentsTypeOK' BY <1>1, <1>2, <1>4, <2>3 DEF AgentsInv, AgentsTypeOK, Handlers, Phases
    <2>5. (\A v \in Users : FitsJob(handler[v]))'
      BY <2>2, <2>3 DEF AgentsInv, Becomes
    <2>6. CreatedOnce' BY <1>1, <2>2, <2>3 DEF AgentsInv, CreatedOnce, Stands
    <2>7. OnlyTheGoneIsForgotten' /\ SearchIsComplete' /\ NoBindingIsOrphaned'
      BY <1>1, <1>2, <1>4, <2>2, <2>3
      DEF AgentsInv, OnlyTheGoneIsForgotten, SearchIsComplete, NoBindingIsOrphaned, Stands,
          Machines
    <2>8. Edits(u) BY <1>1 DEF Edits, Stands
    <2>9. \A v \in Users : v # u => (Edits(v)' <=> Edits(v)) BY <2>3 DEF Edits, Does, Stands
    <2>10. WishOnTheWay'
      <3> SUFFICES ASSUME tidy' PROVE WishOnTheWay' BY DEF WishOnTheWay
      <3>1. \A v \in Users : Edits(v)' => v = u
        BY <1>2, <2>8, <2>9 DEF AgentsInv, WishOnTheWay
      <3>2. Merged(u)' = asked' /\ agentRow' = asked' /\ agentRow' # "none"
        BY <1>1, <1>4, <2>2, <2>3 DEF Merged, AsksForNone, Does, Machines
      <3>3. Stands(u, "keep")' /\ ~Stands(u, "put")' BY <2>2, <2>3 DEF Stands
      <3> QED BY <3>1, <3>2, <3>3 DEF WishOnTheWay
    <2>11. LastWishHolds'
      <3>1. Editing' BY <1>1, <2>2, <2>3 DEF Editing, Does, Stands
      <3> QED BY <3>1 DEF LastWishHolds
    <2> QED BY <2>4, <2>5, <2>6, <2>7, <2>10, <2>11 DEF AgentsInv
  <1> QED BY <1>3, <1>4 DEF Post

LEMMA TellKeeps == ASSUME AgentsInv, NEW u \in Users, Tell(u) PROVE AgentsInv'
  <1>1. /\ handler[u] \in Handlers /\ FitsJob(handler[u]) /\ handler[u].phase = "put"
        /\ handler[u].job = "update" /\ handler[u].read \in Machines
    BY DEF AgentsInv, AgentsTypeOK, Handlers, Phases, Tell, Stands, FitsJob
  <1>2. UNCHANGED <<box, config, agentShadow, bound, requests, unseen>> BY DEF Tell
  <1>3. CASE Done(u) /\ UNCHANGED <<agentRow, asked, tidy>>
    BY <1>1, <1>2, <1>3, QuietEnd DEF AgentsInv, AgentsTypeOK
  <1>4. CASE /\ There /\ agentRow' = Merged(u)
             /\ asked' = IF AsksForNone(u) THEN asked ELSE handler[u].wish
             /\ \/ Goes(u, "keep") /\ UNCHANGED tidy
                \/ Done(u) /\ tidy' = FALSE
    <2>1. agentRow' \in Machines BY <1>1, <1>4, Merges
    <2>2. asked' \in Machines \cup {"none"}
      BY <1>1, <1>4 DEF Handlers, AgentsInv, AgentsTypeOK, AsksForNone
    <2>3. PICK h \in Handlers :
              /\ Becomes(u, h) /\ h.phase \in {"keep", "idle"}
              /\ \/ /\ h.phase = "keep" /\ h.job = "update" /\ h.wish = handler[u].wish
                    /\ h.by = handler[u].by /\ h.read = handler[u].read /\ tidy' = tidy
                 \/ h.job = "none" /\ tidy' = FALSE
      <3>1. CASE Done(u) /\ tidy' = FALSE
        BY <3>1, DoneMeansIdle, IdleFits
      <3>2. CASE Goes(u, "keep") /\ UNCHANGED tidy
        <4>1. FitsJob([handler[u] EXCEPT !.phase = "keep"])
          BY <1>1, PhaseChanged DEF FitsJob, Phases
        <4>2. "keep" \in Phases BY DEF Phases
        <4>3. PICK h \in Handlers :
                  /\ Becomes(u, h) /\ h.phase = "keep" /\ h.job = handler[u].job
                  /\ h.wish = handler[u].wish /\ h.by = handler[u].by
                  /\ h.read = handler[u].read
          BY <3>2, <4>1, <4>2, GoesMeansMoved
        <4> QED BY <1>1, <3>2, <4>3
      <3> QED BY <1>4, <3>1, <3>2
    <2>4. /\ handler' \in [Users -> Handlers] /\ handler'[u] = h
          /\ \A v \in Users \ {u} : handler'[v] = handler[v]
      BY <2>3, HandlersAfter DEF AgentsInv
    <2>5. AgentsTypeOK'
      <3>1. tidy' \in BOOLEAN BY <2>3 DEF AgentsInv, AgentsTypeOK
      <3> QED
        BY <1>2, <2>1, <2>2, <2>4, <3>1 DEF AgentsInv, AgentsTypeOK, Handlers, Phases
    <2>6. (\A v \in Users : FitsJob(handler[v]))'
      BY <2>3, <2>4 DEF AgentsInv, Becomes
    <2>7. agentRow # "none" /\ agentRow # "gone" BY <1>4 DEF There, Machines
    <2>8. CreatedOnce' /\ OnlyTheGoneIsForgotten' /\ SearchIsComplete' /\ NoBindingIsOrphaned'
      BY <1>2, <2>1, <2>3, <2>4, <2>7
      DEF AgentsInv, CreatedOnce, OnlyTheGoneIsForgotten, SearchIsComplete,
          NoBindingIsOrphaned, Stands, Machines
    <2>9. CASE tidy' = FALSE BY <2>5, <2>6, <2>8, <2>9 DEF AgentsInv, WishOnTheWay, LastWishHolds
    <2>10. CASE h.phase = "keep" /\ h.job = "update" /\ tidy' = tidy
      <3>1. Edits(u) BY <1>1 DEF Edits, Does
      <3>2. \A v \in Users : v # u => (Edits(v)' <=> Edits(v)) BY <2>4 DEF Edits, Does, Stands
      <3>3. WishOnTheWay'
        <4> SUFFICES ASSUME tidy' PROVE WishOnTheWay' BY DEF WishOnTheWay
        <4>1. \A v \in Users : Edits(v)' => v = u
          BY <2>10, <3>1, <3>2 DEF AgentsInv, WishOnTheWay
        <4>2. handler[u].read = asked
          BY <1>1, <1>4, <2>10, <3>1 DEF AgentsInv, WishOnTheWay, Does, Stands
        <4>3. agentRow' = asked' BY <1>4, <4>2 DEF Merged
        <4>4. Merged(u)' = asked'
          <5>1. h.wish = handler[u].wish /\ h.by = handler[u].by /\ h.read = handler[u].read
            BY <2>3, <2>10, IdleFits
          <5>2. AsksForNone(u)' <=> AsksForNone(u)
            BY <1>1, <2>4, <2>10, <5>1 DEF AsksForNone, Does
          <5> QED BY <1>4, <2>4, <4>2, <5>1, <5>2 DEF Merged
        <4>5. Stands(u, "keep")' /\ ~Stands(u, "put")' BY <2>4, <2>10 DEF Stands
        <4>6. agentRow' # "none" BY <2>1 DEF Machines
        <4> QED BY <4>1, <4>3, <4>4, <4>5, <4>6 DEF WishOnTheWay
      <3>4. LastWishHolds'
        <4>1. Editing' BY <2>4, <2>10 DEF Editing, Does
        <4> QED BY <4>1 DEF LastWishHolds
      <3> QED BY <2>5, <2>6, <2>8, <3>3, <3>4 DEF AgentsInv
    <2> QED BY <2>3, <2>9, <2>10
  <1> QED BY <1>3, <1>4 DEF Tell

LEMMA KeepKeeps == ASSUME AgentsInv, NEW u \in Users, Keep(u) PROVE AgentsInv'
  <1>1. /\ handler[u] \in Handlers /\ FitsJob(handler[u]) /\ handler[u].phase = "keep"
        /\ handler[u].job \in {"create", "update"}
    BY DEF AgentsInv, AgentsTypeOK, Handlers, Phases, Keep, Stands, FitsJob
  <1>2. UNCHANGED <<agentRow, box, bound, requests, asked, unseen>> BY DEF Keep
  <1>3. Merged(u) \in Machines BY <1>1, Merges
  <1>4. PICK h \in Handlers :
            Becomes(u, h) /\ h.phase \in {"provision", "idle"} /\ h.job \in {"create", "none"}
    <2>1. CASE Done(u)
      BY <2>1, DoneMeansIdle, IdleFits
    <2>2. CASE Goes(u, "provision") /\ Does(u, "create")
      <3>1. FitsJob([handler[u] EXCEPT !.phase = "provision"])
        BY <1>1, <2>2, PhaseChanged DEF FitsJob, Phases, Does
      <3>2. "provision" \in Phases BY DEF Phases
      <3>3. PICK h \in Handlers :
                Becomes(u, h) /\ h.phase = "provision" /\ h.job = handler[u].job
        BY <2>2, <3>1, <3>2, GoesMeansMoved
      <3> QED BY <2>2, <3>3 DEF Does
    <2> QED BY <2>1, <2>2 DEF Keep
  <1>5. /\ handler' \in [Users -> Handlers] /\ handler'[u] = h
        /\ \A v \in Users \ {u} : handler'[v] = handler[v]
    BY <1>4, HandlersAfter DEF AgentsInv
  <1>6. config' \in Machines \cup {"none"} /\ agentShadow' \in Machines \cup {"none"}
        /\ tidy' \in BOOLEAN /\ (tidy' => tidy /\ config' = Merged(u))
    <2>1. CASE config' = Merged(u) /\ agentShadow' \in {agentShadow, Merged(u)} /\ UNCHANGED tidy
      BY <1>3, <2>1 DEF AgentsInv, AgentsTypeOK
    <2>2. CASE tidy' = FALSE /\ UNCHANGED <<config, agentShadow>>
      BY <2>2 DEF AgentsInv, AgentsTypeOK
    <2> QED BY <2>1, <2>2 DEF Keep
  <1>7. AgentsTypeOK' BY <1>2, <1>5, <1>6 DEF AgentsInv, AgentsTypeOK, Handlers, Phases
  <1>8. (\A v \in Users : FitsJob(handler[v]))'
    BY <1>4, <1>5 DEF AgentsInv, Becomes
  <1>9. CreatedOnce' /\ OnlyTheGoneIsForgotten' /\ SearchIsComplete' /\ NoBindingIsOrphaned'
    BY <1>2, <1>4, <1>5
    DEF AgentsInv, CreatedOnce, OnlyTheGoneIsForgotten, SearchIsComplete,
        NoBindingIsOrphaned, Stands
  <1>10. Edits(u) BY <1>1 DEF Edits, Does, Stands
  <1>11. \A v \in Users : Edits(v)' => v # u /\ Edits(v)
    BY <1>4, <1>5 DEF Edits, Does, Stands
  <1>12. tidy' => \A v \in Users : ~Edits(v)'
    BY <1>6, <1>10, <1>11 DEF AgentsInv, WishOnTheWay
  <1>13. WishOnTheWay'
    BY <1>2, <1>4, <1>5, <1>6, <1>12 DEF AgentsInv, WishOnTheWay, Does
  <1>14. LastWishHolds'
    <2>1. tidy' /\ There => agentRow = asked /\ Merged(u) = asked
      BY <1>1, <1>6, <1>10 DEF AgentsInv, WishOnTheWay, Stands
    <2> QED BY <1>2, <1>6, <2>1 DEF LastWishHolds, There
  <1> QED BY <1>7, <1>8, <1>9, <1>13, <1>14 DEF AgentsInv

------------------------------------------------------------------------------
(* The deletion.                                                             *)

\* When the agent is gone, no machine is wanted any more.
LEMMA GoneIsGone ==
    ASSUME agentRow' = "gone"
    PROVE  LastWishHolds' /\ ~There'
  BY DEF LastWishHolds, There, Machines

LEMMA DeleteKeeps == ASSUME AgentsInv, NEW u \in Users, Delete(u) PROVE AgentsInv'
  <1>1. /\ handler[u] \in Handlers /\ FitsJob(handler[u]) /\ handler[u].phase = "check"
        /\ handler[u].job = "delete" /\ handler[u].left = {}
    BY DEF AgentsInv, AgentsTypeOK, Handlers, Phases, Delete, Stands, FitsJob
  <1>2. UNCHANGED <<box, config, agentShadow, bound, requests, asked, tidy>> BY DEF Delete
  <1>3. CASE Done(u) /\ UNCHANGED <<agentRow, unseen>>
    BY <1>1, <1>2, <1>3, QuietEnd DEF AgentsInv, AgentsTypeOK
  <1>4. CASE /\ There /\ agentRow' = "gone" /\ unseen' = handler[u].blind
             /\ (Goes(u, "forget") \/ Done(u))
    <2>1. PICK h \in Handlers :
              Becomes(u, h) /\ h.phase \in {"forget", "idle"} /\ h.job \in {"delete", "none"}
      <3>1. CASE Done(u) BY <3>1, DoneMeansIdle, IdleFits
      <3>2. CASE Goes(u, "forget")
        <4>1. FitsJob([handler[u] EXCEPT !.phase = "forget"])
          BY <1>1, PhaseChanged DEF FitsJob, Phases
        <4>2. "forget" \in Phases BY DEF Phases
        <4>3. PICK h \in Handlers : Becomes(u, h) /\ h.phase = "forget" /\ h.job = handler[u].job
          BY <3>2, <4>1, <4>2, GoesMeansMoved
        <4> QED BY <1>1, <4>3
      <3> QED BY <1>4, <3>1, <3>2
    <2>2. /\ handler' \in [Users -> Handlers] /\ handler'[u] = h
          /\ \A v \in Users \ {u} : handler'[v] = handler[v]
      BY <2>1, HandlersAfter DEF AgentsInv
    <2>3. handler[u].blind \subseteq Projects BY <1>1 DEF Handlers
    <2>4. AgentsTypeOK'
      BY <1>2, <1>4, <2>2, <2>3 DEF AgentsInv, AgentsTypeOK, Handlers, Phases
    <2>5. (\A v \in Users : FitsJob(handler[v]))'
      BY <2>1, <2>2 DEF AgentsInv, Becomes
    <2>6. CreatedOnce'
      <3>1. \A v \in Users : ~Stands(v, "post")
        BY <1>4 DEF AgentsInv, CreatedOnce, There, Machines
      <3> QED BY <2>1, <2>2, <3>1 DEF CreatedOnce, Stands
    <2>7. OnlyTheGoneIsForgotten' BY <1>4 DEF OnlyTheGoneIsForgotten
    <2>8. SearchIsComplete'
      BY <1>2, <2>1, <2>2 DEF AgentsInv, SearchIsComplete, Stands
    <2>9. NoBindingIsOrphaned'
      <3>1. \A b \in bound : b.late \/ b.in \in handler[u].blind
        BY <1>1 DEF AgentsInv, SearchIsComplete, Stands
      <3> QED BY <1>2, <1>4, <3>1 DEF NoBindingIsOrphaned
    <2>10. \A v \in Users : Edits(v)' => Edits(v) /\ v # u
      BY <2>1, <2>2 DEF Edits, Does, Stands
    <2>11. WishOnTheWay' /\ LastWishHolds'
      BY <1>2, <1>4, <2>1, <2>2, <2>10, GoneIsGone DEF AgentsInv, WishOnTheWay, Does
    <2> QED BY <2>4, <2>5, <2>6, <2>7, <2>8, <2>9, <2>11 DEF AgentsInv
  <1> QED BY <1>3, <1>4 DEF Delete

LEMMA ForgetKeeps == ASSUME AgentsInv, NEW u \in Users, Forget(u) PROVE AgentsInv'
  <1>1. handler[u].phase = "forget" /\ agentRow = "gone"
    BY DEF AgentsInv, OnlyTheGoneIsForgotten, Forget, Stands
  <1>2. UNCHANGED <<agentRow, box, bound, requests, asked, tidy, unseen>>
    BY DEF Forget, historyVars
  <1>3. Becomes(u, Idle) BY DoneMeansIdle DEF Forget
  <1>4. /\ handler' \in [Users -> Handlers] /\ handler'[u] = Idle
        /\ \A v \in Users \ {u} : handler'[v] = handler[v]
    BY <1>3, HandlersAfter DEF AgentsInv
  <1>5. AgentsTypeOK'
    <2>1. config' \in Machines \cup {"none"} /\ agentShadow' \in Machines \cup {"none"}
      BY DEF Forget, AgentsInv, AgentsTypeOK
    <2> QED BY <1>2, <1>4, <2>1 DEF AgentsInv, AgentsTypeOK, Handlers, Phases
  <1>6. (\A v \in Users : FitsJob(handler[v]))'
    BY <1>3, <1>4 DEF AgentsInv, Becomes
  <1>7. CreatedOnce' /\ OnlyTheGoneIsForgotten' /\ SearchIsComplete' /\ NoBindingIsOrphaned'
    BY <1>2, <1>4, IdleFits
    DEF AgentsInv, CreatedOnce, OnlyTheGoneIsForgotten, SearchIsComplete,
        NoBindingIsOrphaned, Stands
  <1>8. \A v \in Users : Edits(v)' => Edits(v)
    BY <1>4, IdleFits DEF Edits, Does, Stands
  <1>9. WishOnTheWay' /\ LastWishHolds'
    BY <1>1, <1>2, <1>4, <1>8, GoneIsGone, IdleFits DEF AgentsInv, WishOnTheWay, Does
  <1> QED BY <1>5, <1>6, <1>7, <1>9 DEF AgentsInv

------------------------------------------------------------------------------
LEMMA AgentsStart == AgentsInit => AgentsInv
  <1> SUFFICES ASSUME AgentsInit PROVE AgentsInv OBVIOUS
  <1> USE DEF AgentsInit
  <1>1. \A u \in Users : handler[u] = Idle OBVIOUS
  <1>2. AgentsTypeOK
    <2>1. handler \in [Users -> Handlers] BY IdleFits
    <2>2. requests \in 0 .. MaxRequests BY AgentsAssumption DEF AgentsAssumption
    <2> QED BY <2>1, <2>2 DEF AgentsTypeOK, Handlers, Phases
  <1>3. \A u \in Users : ~Edits(u) BY <1>1, IdleFits DEF Edits, Does, Stands
  <1> QED
    BY <1>1, <1>2, <1>3, IdleFits
    DEF AgentsInv, CreatedOnce, OnlyTheGoneIsForgotten, SearchIsComplete,
        NoBindingIsOrphaned, WishOnTheWay, LastWishHolds, Does, Stands, There, Machines

LEMMA AgentsStep == AgentsInv /\ [AgentsNext]_agentsVars => AgentsInv'
  <1> SUFFICES ASSUME AgentsInv, [AgentsNext]_agentsVars PROVE AgentsInv' OBVIOUS
  <1>1. CASE UNCHANGED agentsVars
    <2>1. UNCHANGED <<agentRow, box, config, agentShadow, bound, handler, requests, asked,
                      tidy, unseen>>
      BY <1>1 DEF agentsVars, agentRecords, historyVars
    <2> QED
      BY <2>1
      DEF AgentsInv, AgentsTypeOK, CreatedOnce, OnlyTheGoneIsForgotten, SearchIsComplete,
          NoBindingIsOrphaned, WishOnTheWay, LastWishHolds, Editing, Edits, Does, Stands,
          There, Merged, AsksForNone
  <1>2. ASSUME NEW u \in Users,
               \/ Request(u) \/ AskNetwork(u) \/ Take(u)
               \/ Post(u) \/ Keep(u) \/ Provision(u) \/ RecordBox(u)
               \/ Tell(u)
               \/ Match(u) \/ MatchForBridge(u) \/ Make(u) \/ Unbind(u)
               \/ ListProjects(u) \/ Check(u) \/ Delete(u) \/ Forget(u)
        PROVE  AgentsInv'
    BY <1>2, RequestKeeps, AskNetworkKeeps, TakeKeeps, PostKeeps, KeepKeeps, BoxesKeep,
       TellKeeps, MatchKeeps, MakeKeeps, UnbindKeeps, SearchStep, DeleteKeeps, ForgetKeeps
  <1> QED BY <1>1, <1>2 DEF AgentsNext

------------------------------------------------------------------------------
(* Theorems.                                                                 *)

\* The inductive invariant of the module, from which the theorems below follow.
THEOREM AgentsInvHolds == AgentsSpec => []AgentsInv
  BY AgentsStart, AgentsStep, PTL DEF AgentsSpec

\* Rows, bindings and handlers are what they should be.
THEOREM AgentsTypes == AgentsSpec => []AgentsTypeOK
  <1>1. AgentsInv => AgentsTypeOK BY DEF AgentsInv
  <1> QED BY <1>1, AgentsInvHolds, PTL

\* An agent that is gone has no binding but those made during its deletion or
\* later, or in a project the deletion could not look into (delete_agent).
THEOREM DeletionSpotsBindings == AgentsSpec => []NoBindingIsOrphaned
  <1>1. AgentsInv => NoBindingIsOrphaned BY DEF AgentsInv
  <1> QED BY <1>1, AgentsInvHolds, PTL

\* As long as edits come one at a time and none is cut short, network and local
\* config agree on the machine last asked for by the creation or the environment of
\* an update, whatever the edits have read; an update that names only machine_type
\* changes nothing (create_agent, update_agent, apply_runtime_config).
THEOREM LoneEditsAgree == AgentsSpec => []LastWishHolds
  <1>1. AgentsInv => LastWishHolds BY DEF AgentsInv
  <1> QED BY <1>1, AgentsInvHolds, PTL

-----------------------------------------------------------------------------
(* The catalog of MCP servers. *)

BridgesTypeOK ==
    /\ known \in 0 .. MaxServers
    /\ bridge \in [Servers -> {"queued"} \cup UnderWay \cup Over]
    /\ program \in [Servers -> {"none", "running", "list", "garbage", "error", "forked"}]
    /\ ended \in Seq(Servers) /\ opened \in BOOLEAN

HasEnded(s) == \E i \in DOMAIN ended : ended[i] = s

\* A bridge ends once, and only that of a server of the organisation; it lists what
\* its program has.
EndsAreTrue ==
    /\ \A i, j \in DOMAIN ended : ended[i] = ended[j] => i = j
    /\ \A s \in Servers :
          /\ bridge[s] \in Over <=> HasEnded(s)
          /\ bridge[s] # "queued" => s <= known
          /\ bridge[s] = "read" => program[s] = "list"

\* The catalog has all that its servers' bridges have come to.
CatalogIsWhole ==
    /\ \A s \in 1 .. known : HasEnded(s)
    /\ \A i, j \in DOMAIN catalog : i < j => catalog[i] < catalog[j]
    /\ Range(catalog) = {s \in Servers : bridge[s] = "read"}
    /\ Range(warnings) = {s \in Servers : bridge[s] = "failed"}

BridgesInv ==
    /\ BridgesTypeOK /\ EndsAreTrue
    /\ opened => CatalogIsWhole

LEMMA KnownAreServers ==
    ASSUME BridgesTypeOK
    PROVE  known \in Nat /\ 1 .. known \subseteq Servers
BY BridgeAssumption DEF BridgesTypeOK, Servers, BridgeAssumption

LEMMA AllHaveEnded ==
    ASSUME BridgesTypeOK, EndsAreTrue, Len(ended) = known
    PROVE  \A s \in 1 .. known : HasEnded(s)
<1>1. known \in Nat /\ 1 .. known \subseteq Servers
  BY KnownAreServers
<1>2. DOMAIN ended = 1 .. known /\ ended \in [1 .. known -> Servers]
  BY DEF BridgesTypeOK
<1>3. \A i \in 1 .. known : ended[i] \in 1 .. known
  <2> SUFFICES ASSUME NEW i \in 1 .. known PROVE ended[i] \in 1 .. known
    OBVIOUS
  <2>1. ended[i] \in Servers /\ HasEnded(ended[i])
    BY <1>2 DEF HasEnded
  <2>2. ended[i] <= known
    BY <2>1 DEF EndsAreTrue, Over
  <2> QED BY <1>1, <2>1, <2>2, BridgeAssumption DEF Servers, BridgeAssumption
<1>4. ended \in Injection(1 .. known, 1 .. known)
  BY <1>2, <1>3 DEF EndsAreTrue, Injection, IsInjective
<1>5. IsFiniteSet(1 .. known)
  BY <1>1, FS_Interval
<1>6. ended \in Surjection(1 .. known, 1 .. known)
  BY <1>4, <1>5, FS_Injection
<1> QED BY <1>2, <1>6 DEF Surjection, HasEnded

\* A listing has every server whose bridge ended so, once, in order.
LEMMA ListingsAreWhole ==
    ASSUME BridgesTypeOK, EndsAreTrue, NEW fate \in Over, NEW l \in Listings(fate)
    PROVE  /\ \A i, j \in DOMAIN l : i < j => l[i] < l[j]
           /\ Range(l) = {s \in Servers : bridge[s] = fate}
<1> DEFINE P == EndedSo(fate)
           n == Cardinality(P)
<1>1. PICK o \in [1 .. n -> P] :
          /\ \A i, j \in 1 .. n : i < j => Before(o[i], o[j])
          /\ l = [i \in 1 .. n |-> ended[o[i]]]
  BY DEF Listings
<1>2. P \subseteq 1 .. Len(ended) /\ Len(ended) \in Nat /\ ended \in [1 .. Len(ended) -> Servers]
  BY DEF EndedSo, BridgesTypeOK
<1>3. IsFiniteSet(P) /\ n \in Nat
  <2>1. IsFiniteSet(1 .. Len(ended))
    BY <1>2, FS_Interval
  <2>2. IsFiniteSet(P)
    BY <1>2, <2>1, FS_Subset
  <2> QED BY <2>2, FS_CardinalityType
<1>4. \A i, j \in 1 .. n : i < j => ended[o[i]] < ended[o[j]]
  BY <1>1, <1>2, <1>3 DEF Before, EndsAreTrue, Servers
<1>5. o \in Injection(1 .. n, P)
  <2>1. ASSUME NEW i \in 1 .. n, NEW j \in 1 .. n, o[i] = o[j] PROVE i = j
    <3>1. o[i] \in P /\ ended[o[i]] \in Nat
      BY <1>1, <1>2 DEF Servers
    <3> QED BY <1>3, <1>4, <2>1, <3>1
  <2> QED BY <1>1, <2>1 DEF Injection, IsInjective
<1>6. o \in Surjection(1 .. n, P)
  <2>1. IsFiniteSet(1 .. n) /\ Cardinality(1 .. n) = n
    BY <1>3, FS_Interval
  <2> QED BY <1>3, <1>5, <2>1, FS_Injection
<1>7. Range(l) = {s \in Servers : bridge[s] = fate}
  <2>1. Range(l) = {ended[o[i]] : i \in 1 .. n}
    BY <1>1 DEF Range
  <2>2. ASSUME NEW s \in Servers, bridge[s] = fate
        PROVE  \E i \in 1 .. n : ended[o[i]] = s
    <3>1. PICK k \in DOMAIN ended : ended[k] = s
      BY <2>2 DEF EndsAreTrue, HasEnded
    <3>2. k \in P
      BY <2>2, <3>1 DEF EndedSo
    <3> QED BY <1>6, <3>1, <3>2 DEF Surjection
  <2>3. ASSUME NEW i \in 1 .. n
        PROVE  ended[o[i]] \in Servers /\ bridge[ended[o[i]]] = fate
    BY <1>1, <1>2 DEF EndedSo
  <2> QED BY <2>1, <2>2, <2>3
<1> HIDE DEF n, P
<1> QED BY <1>1, <1>4, <1>7

LEMMA EndBridgeKeeps ==
    ASSUME BridgesInv, NEW s \in Servers, NEW fate \in Over, EndBridge(s, fate), s <= known,
           bridge[s] \notin Over, fate = "read" => program[s] = "list", program' = program
    PROVE  BridgesInv'
<1>1. ~opened
  <2>1. s \in 1 .. known
    BY KnownAreServers, BridgeAssumption DEF BridgesInv, Servers, BridgeAssumption
  <2>2. ~HasEnded(s)
    BY DEF BridgesInv, EndsAreTrue
  <2> QED BY <2>1, <2>2 DEF BridgesInv, CatalogIsWhole
<1>2. /\ bridge' = [bridge EXCEPT ![s] = fate] /\ ended' = Append(ended, s)
      /\ known' = known /\ opened' = opened
  BY DEF EndBridge
<1>3. BridgesTypeOK'
  BY <1>2 DEF BridgesInv, BridgesTypeOK
<1>4. ended \in Seq(Servers)
  BY DEF BridgesInv, BridgesTypeOK
<1>5. /\ DOMAIN ended' = DOMAIN ended \cup {Len(ended) + 1}
      /\ \A i \in DOMAIN ended : ended'[i] = ended[i]
      /\ ended'[Len(ended) + 1] = s
  BY <1>2, <1>4
<1>6. ~\E i \in DOMAIN ended : ended[i] = s
  BY DEF BridgesInv, EndsAreTrue, HasEnded
<1>7. \A r : HasEnded(r)' <=> HasEnded(r) \/ r = s
  BY <1>5 DEF HasEnded
<1>8. \A i, j \in DOMAIN ended' : ended'[i] = ended'[j] => i = j
  BY <1>5, <1>6 DEF BridgesInv, EndsAreTrue
<1>9. ASSUME NEW r \in Servers
      PROVE  /\ bridge'[r] \in Over <=> HasEnded(r)'
             /\ bridge'[r] # "queued" => r <= known'
             /\ bridge'[r] = "read" => program'[r] = "list"
  <2>1. bridge'[r] = IF r = s THEN fate ELSE bridge[r]
    BY <1>2 DEF BridgesInv, BridgesTypeOK
  <2> QED BY <1>2, <1>7, <2>1 DEF BridgesInv, EndsAreTrue
<1>10. EndsAreTrue'
  BY <1>8, <1>9 DEF EndsAreTrue
<1> QED BY <1>1, <1>2, <1>3, <1>10 DEF BridgesInv

\* A bridge that goes on, and a program that comes to something.
LEMMA GoingOnKeeps ==
    ASSUME BridgesInv, NEW s \in Servers,
           \/ /\ bridge[s] \in {"queued"} \cup UnderWay /\ s <= known
              /\ \E to \in UnderWay : bridge' = [bridge EXCEPT ![s] = to]
              /\ program' \in {program, [program EXCEPT ![s] = "running"]}
           \/ /\ program[s] \in {"running", "forked"} /\ bridge' = bridge
              /\ \E fate \in {"list", "garbage", "error", "forked"} :
                    program' = [program EXCEPT ![s] = fate],
           UNCHANGED <<known, ended, catalog, warnings, opened>>
    PROVE  BridgesInv'
<1>1. BridgesTypeOK'
  BY DEF BridgesInv, BridgesTypeOK, UnderWay
<1>2. \A r : HasEnded(r)' <=> HasEnded(r)
  BY DEF HasEnded
<1>3. ASSUME NEW r \in Servers
      PROVE  /\ \A fate \in Over : bridge'[r] = fate <=> bridge[r] = fate
             /\ bridge'[r] \in Over <=> bridge[r] \in Over
             /\ bridge'[r] # "queued" => r <= known
             /\ bridge'[r] = "read" => bridge[r] = "read"
             /\ program[r] = "list" /\ bridge[r] \in Over => program'[r] = "list"
  BY DEF BridgesInv, BridgesTypeOK, EndsAreTrue, UnderWay, Over
<1>4. EndsAreTrue'
  <2>1. \A i, j \in DOMAIN ended' : ended'[i] = ended'[j] => i = j
    BY DEF BridgesInv, EndsAreTrue
  <2>2. ASSUME NEW r \in Servers
        PROVE  /\ bridge'[r] \in Over <=> HasEnded(r)'
               /\ bridge'[r] # "queued" => r <= known'
               /\ bridge'[r] = "read" => program'[r] = "list"
    BY <1>2, <1>3 DEF BridgesInv, EndsAreTrue, Over
  <2> QED BY <2>1, <2>2 DEF EndsAreTrue
<1>5. opened => CatalogIsWhole'
  <2>1. {r \in Servers : bridge'[r] = "read"} = {r \in Servers : bridge[r] = "read"}
    BY <1>3 DEF Over
  <2>2. {r \in Servers : bridge'[r] = "failed"} = {r \in Servers : bridge[r] = "failed"}
    BY <1>3 DEF Over
  <2> QED BY <1>2, <2>1, <2>2 DEF BridgesInv, CatalogIsWhole
<1> QED BY <1>1, <1>4, <1>5 DEF BridgesInv

LEMMA OpeningKeeps ==
    ASSUME BridgesInv, OpenCatalog
    PROVE  BridgesInv'
<1>1. /\ Len(ended) = known /\ catalog' \in Listings("read") /\ warnings' \in Listings("failed")
      /\ UNCHANGED <<known, bridge, program, ended>> /\ opened' = TRUE
  BY DEF OpenCatalog
<1>2. BridgesTypeOK' /\ EndsAreTrue'
  BY <1>1 DEF BridgesInv, BridgesTypeOK, EndsAreTrue, HasEnded
<1>3. \A s \in 1 .. known : HasEnded(s)
  BY <1>1, AllHaveEnded DEF BridgesInv
<1>4. /\ \A i, j \in DOMAIN catalog' : i < j => catalog'[i] < catalog'[j]
      /\ Range(catalog') = {s \in Servers : bridge[s] = "read"}
  BY <1>1, ListingsAreWhole DEF BridgesInv, Over
<1>5. Range(warnings') = {s \in Servers : bridge[s] = "failed"}
  BY <1>1, ListingsAreWhole DEF BridgesInv, Over
<1>6. CatalogIsWhole'
  BY <1>1, <1>3, <1>4, <1>5 DEF CatalogIsWhole, HasEnded
<1> QED BY <1>2, <1>6 DEF BridgesInv

LEMMA BridgesStep ==
    ASSUME BridgesInv, [BridgesNext]_bridgeVars
    PROVE  BridgesInv'
<1>1. ASSUME NEW s \in Servers, StartBridge(s) PROVE BridgesInv'
  <2>1. s <= known /\ bridge[s] = "queued"
    BY <1>1 DEF StartBridge
  <2>2. CASE EndBridge(s, "failed") /\ UNCHANGED program
    BY <2>1, <2>2, EndBridgeKeeps DEF Over
  <2>3. CASE /\ bridge' = [bridge EXCEPT ![s] = "writing"]
             /\ program' = [program EXCEPT ![s] = "running"]
             /\ UNCHANGED <<known, ended, catalog, warnings, opened>>
    BY <2>1, <2>3, GoingOnKeeps DEF UnderWay
  <2> QED BY <1>1, <2>2, <2>3 DEF StartBridge
<1>2. ASSUME NEW s \in Servers, WritePayload(s) PROVE BridgesInv'
  <2>1. s <= known /\ bridge[s] = "writing" /\ program' = program
    BY <1>2 DEF WritePayload, BridgesInv, EndsAreTrue
  <2>2. CASE EndBridge(s, "failed")
    BY <2>1, <2>2, EndBridgeKeeps DEF Over
  <2>3. CASE ~EndBridge(s, "failed")
    BY <1>2, <2>1, <2>3, GoingOnKeeps DEF WritePayload, UnderWay
  <2> QED BY <2>2, <2>3
<1>3. ASSUME NEW s \in Servers, ReadBridge(s) PROVE BridgesInv'
  <2>1. s <= known /\ bridge[s] = "waiting" /\ program' = program
    BY <1>3 DEF ReadBridge, BridgesInv, EndsAreTrue
  <2>2. PICK fate \in Over : EndBridge(s, fate) /\ (fate = "read" => program[s] = "list")
    BY <1>3 DEF ReadBridge, Over
  <2> QED BY <2>1, <2>2, EndBridgeKeeps DEF Over
<1>4. ASSUME NEW s \in Servers, GiveUpBridge(s) PROVE BridgesInv'
  <2>1. s <= known /\ bridge[s] = "waiting" /\ program' = program /\ EndBridge(s, "failed")
    BY <1>4 DEF GiveUpBridge, BridgesInv, EndsAreTrue
  <2> QED BY <2>1, EndBridgeKeeps DEF Over
<1>5. ASSUME NEW s \in Servers, NEW fate \in {"list", "garbage", "error", "forked"},
             ProgramEnds(s, fate)
      PROVE  BridgesInv'
  BY <1>5, GoingOnKeeps DEF ProgramEnds
<1>6. CASE OpenCatalog
  BY <1>6, OpeningKeeps
<1>7. CASE UNCHANGED bridgeVars
  BY <1>7 DEF bridgeVars, BridgesInv, BridgesTypeOK, EndsAreTrue, HasEnded, CatalogIsWhole
<1> QED BY <1>1, <1>2, <1>3, <1>4, <1>5, <1>6, <1>7 DEF BridgesNext

\* The inductive invariant of the module, from which the theorem below follows.
THEOREM BridgesInvHolds == BridgesSpec => []BridgesInv
<1>1. BridgesInit => BridgesInv
  <2> SUFFICES ASSUME BridgesInit PROVE BridgesInv
    OBVIOUS
  <2>1. BridgesTypeOK
    <3>1. bridge \in [Servers -> {"queued"} \cup UnderWay \cup Over]
      BY DEF BridgesInit
    <3>2. program \in [Servers -> {"none", "running", "list", "garbage", "error", "forked"}]
      BY DEF BridgesInit
    <3>3. ended = <<>> /\ <<>> \in Seq(Servers)
      BY DEF BridgesInit
    <3> QED BY <3>1, <3>2, <3>3 DEF BridgesInit, BridgesTypeOK
  <2>2. EndsAreTrue
    BY DEF BridgesInit, EndsAreTrue, HasEnded, Over
  <2> QED BY <2>1, <2>2 DEF BridgesInit, BridgesInv
<1>2. BridgesInv /\ [BridgesNext]_bridgeVars => BridgesInv'
  BY BridgesStep
<1> QED BY <1>1, <1>2, PTL DEF BridgesSpec

\* The catalog says of each server of the organisation, once and in the order of the
\* servers, what it has or that it failed, in whatever order and however many at a
\* time their bridges come to an end (discovered_trusted_mcp_tool_catalog).
THEOREM ServersAreToldOf == BridgesSpec => []EveryServerIsToldOf
<1>1. BridgesInv => EveryServerIsToldOf
  <2> SUFFICES ASSUME BridgesInv, opened PROVE EveryServerIsToldOf
    BY DEF EveryServerIsToldOf
  <2>1. CatalogIsWhole /\ EndsAreTrue
    BY DEF BridgesInv
  <2>2. \A i \in DOMAIN catalog : catalog[i] \in Range(catalog)
    BY DEF Range
  <2>3. \A i \in DOMAIN catalog : program[catalog[i]] = "list"
    BY <2>1, <2>2 DEF CatalogIsWhole, EndsAreTrue
  <2>4. ASSUME NEW s \in 1 .. known PROVE (s \in Range(catalog)) # (s \in Range(warnings))
    <3>1. s \in Servers /\ bridge[s] \in Over
      BY <2>1, KnownAreServers DEF BridgesInv, CatalogIsWhole, EndsAreTrue
    <3>2. s \in Range(catalog) <=> bridge[s] = "read"
      BY <2>1, <3>1 DEF CatalogIsWhole
    <3>3. s \in Range(warnings) <=> bridge[s] = "failed"
      BY <2>1, <3>1 DEF CatalogIsWhole
    <3>4. bridge[s] = "read" <=> bridge[s] # "failed"
      BY <3>1 DEF Over
    <3> QED BY <3>2, <3>3, <3>4
  <2> QED BY <2>1, <2>3, <2>4 DEF CatalogIsWhole, EveryServerIsToldOf
<1> QED BY <1>1, BridgesInvHolds, PTL
=============================================================================
