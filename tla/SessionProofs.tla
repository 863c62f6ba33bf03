----------------------------- MODULE SessionProofs -----------------------------
(***************************************************************************)
(* Proofs about Session: a configured account finds its tokens at every    *)
(* start, for any number of tasks that refresh, grants, failures of        *)
(* storage and restarts, as long as it is always the same account that     *)
(* signs in.                                                               *)
(***************************************************************************)
EXTENDS Session, TLAPS

(* Who signs in.  With a second account the property fails: re-authorising *)
(* with it moves the tokens to its own key and leaves the first one in the *)
(* configuration.                                                          *)
User == CHOOSE a \in Accounts : TRUE
OneAccount == Accounts = {User}

(* load_tokens finds something under k.                                    *)
Has(k) == keyring[k] # None \/ file[k] # None

RequestSteps == {"idle", "refresh", "key", "store"}
SignInSteps == {"idle", "browser", "exchanging", "drive", "migrating", "deleting", "saving"}
RestoreSteps == {"done", "loading", "deleting"}
Signed == {"exchanging", "drive", "migrating", "deleting", "saving"}

ProviderTypes ==
  /\ granted \in Nat /\ granted <= MaxGrants
  /\ owner \in [Grants -> Accounts \cup {NoAccount}]
  /\ \A n \in 1..granted : owner[n] = User

StorageTypes == keyring \in [Keys -> 0..granted] /\ file \in [Keys -> 0..granted]

MemoryTypes ==
  /\ tokens \in 0..granted
  /\ accountId \in {NoAccount, User} /\ config \in {NoAccount, User}

RequestOf(n) == [pc : RequestSteps, key : Keys, grant : 0..n]
SignInOf(n) == [pc : SignInSteps, key : Keys, grant : 0..n]

ThreadTypes ==
  /\ request \in [Requests -> RequestOf(granted)]
  /\ \A r \in Requests : request[r].pc # "idle" => request[r].grant # None
  /\ signIn \in SignInOf(granted)
  /\ signIn.pc = "exchanging" => signIn.grant # None
  /\ restore \in RestoreSteps

Types == ProviderTypes /\ StorageTypes /\ MemoryTypes /\ ThreadTypes

(* Sign-out waits for a sign-in that has come back from the browser, and   *)
(* both for the restore.                                                   *)
Alone ==
  /\ signIn.pc \in Signed => signOut.pc = "idle"
  /\ restore # "done" => signIn.pc = "idle" /\ signOut.pc = "idle" /\ config = User

(* What a sign-in, and a migration between keys, has stored so far.        *)
Stored ==
  /\ signIn.pc \in {"exchanging", "drive"} => signIn.key = storageKey
  /\ signIn.pc \in {"drive", "migrating"} => Has(signIn.key)
  /\ signIn.pc \in {"migrating", "deleting"} => signIn.key = Client
  /\ signIn.pc \in {"migrating", "deleting", "saving"} => accountId = User
  /\ signIn.pc \in {"deleting", "saving"} => Has(User)
  /\ restore = "deleting" => Has(User)

Found == config # NoAccount /\ ~forgotten => Has(User) \/ Has(Client)

Held == Alone /\ Stored /\ Found
Inv == Types /\ Held

-----------------------------------------------------------------------------
(* The storage.                                                            *)

LEMMA Names ==
  ASSUME OneAccount
  PROVE  User \in Keys /\ Client \in Keys /\ User # Client /\ User # NoAccount /\ Client # NoAccount
BY SessionConstants DEF OneAccount, Keys

LEMMA LoadFinds ==
  ASSUME NEW k
  PROVE  Load(k) # None <=> Has(k)
BY DEF Load, Has

(* Storing under a key leaves every other entry, and fills this one.       *)
LEMMA StoreFills ==
  ASSUME StorageTypes, NEW k \in Keys, NEW n \in 1..granted', Store(k, n),
         granted \in Nat, granted' \in Nat, granted <= granted'
  PROVE  StorageTypes' /\ Has(k)' /\ \A j \in Keys : Has(j) => Has(j)'
<1>1. n # None /\ n \in 0..granted'
  BY DEF None
<1>2. 0..granted \subseteq 0..granted'
  OBVIOUS
<1>3. CASE keyring' = [keyring EXCEPT ![k] = n] /\ file' = file
  BY <1>1, <1>2, <1>3 DEF StorageTypes, Has
<1>4. CASE file' = [file EXCEPT ![k] = n] /\ keyring' = keyring
  BY <1>1, <1>2, <1>4 DEF StorageTypes, Has
<1> QED BY <1>3, <1>4 DEF Store

LEMMA DeleteKeepsOthers ==
  ASSUME StorageTypes, NEW k, Delete(k), granted \in Nat, UNCHANGED granted
  PROVE  StorageTypes' /\ \A j \in Keys \ {k} : Has(j) => Has(j)'
<1>1. None \in 0..granted
  BY DEF None
<1>2. CASE keyring' = keyring
  BY <1>1, <1>2 DEF StorageTypes, Has, Delete
<1>3. CASE keyring' = [keyring EXCEPT ![k] = None]
  BY <1>1, <1>3 DEF StorageTypes, Has, Delete
<1> QED BY <1>2, <1>3 DEF Delete

(* A step that only adds to the storage, and moves neither a sign-in, a    *)
(* sign-out nor the restore.                                               *)
LEMMA Unmoved ==
  ASSUME OneAccount, Held, signIn.key \in Keys, \A j \in Keys : Has(j) => Has(j)',
         accountId' = accountId, config' = config, signIn' = signIn, signOut' = signOut,
         restore' = restore, forgotten' = forgotten
  PROVE  Held'
<1>1. Alone'
  BY DEF Held, Alone
<1>2. Stored'
  BY Names DEF Held, Stored, storageKey
<1>3. Found'
  BY Names DEF Held, Found
<1> QED BY <1>1, <1>2, <1>3 DEF Held

LEMMA SameStorage ==
  ASSUME StorageTypes, storage' = storage, granted \in Nat, granted' \in Nat, granted <= granted'
  PROVE  StorageTypes' /\ \A j \in Keys : Has(j)' <=> Has(j)
BY DEF StorageTypes, storage, Has

(* A new grant belongs to the user.                                        *)
LEMMA NewGrant ==
  ASSUME OneAccount, ProviderTypes, Grant(User)
  PROVE  /\ ProviderTypes' /\ granted' = granted + 1 /\ granted \in Nat /\ granted' \in Nat
         /\ granted' \in 1..granted' /\ \A n \in 0..granted : n \in 0..granted'
<1>1. /\ granted \in Nat /\ MaxGrants \in Nat /\ granted < MaxGrants /\ granted' = granted + 1
      /\ owner' = [owner EXCEPT ![granted + 1] = User]
  BY SessionConstants DEF ProviderTypes, Grant
<1>2. granted + 1 \in Grants /\ 1..granted \subseteq Grants
  BY <1>1 DEF Grants
<1>3. \A n \in 1..granted' : n = granted + 1 \/ n \in 1..granted
  BY <1>1
<1>4. \A n \in 1..granted' : owner'[n] = User
  BY <1>1, <1>2, <1>3 DEF ProviderTypes
<1>5. User \in Accounts \cup {NoAccount} => owner' \in [Grants -> Accounts \cup {NoAccount}]
  BY <1>1, <1>2 DEF ProviderTypes
<1>6. User \in Accounts
  BY DEF OneAccount
<1>7. granted' <= MaxGrants /\ granted' \in Nat
  BY <1>1
<1>8. ProviderTypes'
  BY <1>4, <1>5, <1>6, <1>7 DEF ProviderTypes
<1> QED BY <1>1, <1>8

LEMMA IdleTypes ==
  ASSUME NEW n \in Nat
  PROVE  Idle \in RequestOf(n) /\ Idle \in SignInOf(n) /\ Idle.pc = "idle"
<1>1. None \in 0..n /\ Client \in Keys
  BY DEF None, Keys
<1> QED BY <1>1 DEF Idle, RequestOf, SignInOf, RequestSteps, SignInSteps

-----------------------------------------------------------------------------
(* access_token and refresh.                                               *)

RequestInto(r, m) == request' = [request EXCEPT ![r] = m]

LEMMA RequestTypes ==
  ASSUME ThreadTypes, NEW r \in Requests, NEW m \in RequestOf(granted'),
         m.pc # "idle" => m.grant # None, RequestInto(r, m),
         signIn' = signIn, restore' = restore, granted \in Nat, granted' \in Nat, granted <= granted'
  PROVE  ThreadTypes'
<1>1. 0..granted \subseteq 0..granted'
  OBVIOUS
<1>2. RequestOf(granted) \subseteq RequestOf(granted') /\ SignInOf(granted) \subseteq SignInOf(granted')
  BY <1>1 DEF RequestOf, SignInOf
<1>3. request' \in [Requests -> RequestOf(granted')]
  BY <1>2 DEF ThreadTypes, RequestInto
<1>4. \A s \in Requests : request'[s].pc # "idle" => request'[s].grant # None
  BY DEF ThreadTypes, RequestInto
<1> QED BY <1>2, <1>3, <1>4 DEF ThreadTypes

LEMMA RequestKeepsInv ==
  ASSUME OneAccount, Inv, NEW r \in Requests, RequestStep(r)
  PROVE  Inv'
<1> DEFINE q == request[r]
<1>1. /\ granted \in Nat /\ q \in RequestOf(granted) /\ (q.pc # "idle" => q.grant # None)
      /\ tokens \in 0..granted /\ signIn.key \in Keys
  BY DEF Inv, Types, ProviderTypes, MemoryTypes, ThreadTypes, SignInOf
<1>2. Idle \in RequestOf(granted) /\ \A n \in Nat : Idle \in RequestOf(n) /\ Idle.pc = "idle"
  BY <1>1, IdleTypes
<1>3. /\ accountId' = accountId /\ config' = config /\ signIn' = signIn /\ signOut' = signOut
      /\ restore' = restore /\ forgotten' = forgotten
  BY DEF RequestStep, AccessToken, Refreshed, RefreshLost, RefreshRefused, RefreshKey, RefreshStore,
         StepRequest, memory, history
<1>4. CASE AccessToken(r)
  <2> DEFINE m == [Idle EXCEPT !.pc = "refresh", !.grant = tokens]
  <2>1. /\ RequestInto(r, m) /\ tokens # None
        /\ granted' = granted /\ owner' = owner /\ tokens' = tokens /\ storage' = storage
    BY <1>4 DEF RequestInto, AccessToken, StepRequest, provider, memory
  <2>2. m \in RequestOf(granted') /\ m.grant # None
    BY <1>1, <1>2, <2>1 DEF RequestOf, RequestSteps
  <2> HIDE DEF m
  <2>3. ThreadTypes'
    BY <1>1, <1>3, <2>1, <2>2, RequestTypes DEF Inv, Types
  <2>4. StorageTypes' /\ \A j \in Keys : Has(j)' <=> Has(j)
    BY <1>1, <2>1, SameStorage DEF Inv, Types
  <2> QED BY <1>1, <1>3, <2>1, <2>3, <2>4, Unmoved DEF Inv, Types, ProviderTypes, MemoryTypes
<1>5. CASE Refreshed(r)
  <2> DEFINE m == [Idle EXCEPT !.pc = "key", !.grant = granted + 1]
  <2>1. /\ RequestInto(r, m) /\ q.pc = "refresh" /\ Grant(owner[q.grant])
        /\ tokens' = tokens /\ storage' = storage
    BY <1>5 DEF RequestInto, Refreshed, StepRequest, Running, memory
  <2>2. owner[q.grant] = User
    <3>1. q.grant \in 1..granted
      BY <1>1, <2>1 DEF RequestOf, None
    <3> QED BY <3>1 DEF Inv, Types, ProviderTypes
  <2>3. /\ ProviderTypes' /\ granted' = granted + 1 /\ granted' \in Nat /\ granted <= granted'
        /\ granted' \in 1..granted' /\ \A n \in 0..granted : n \in 0..granted'
    BY <1>1, <2>1, <2>2, NewGrant DEF Inv, Types
  <2>4. m \in RequestOf(granted') /\ m.grant # None
    <3>1. Idle \in RequestOf(granted') /\ "key" \in RequestSteps
      BY <1>2, <2>3 DEF RequestSteps
    <3>2. granted + 1 \in 0..granted' /\ granted + 1 # None
      BY <1>1, <2>3 DEF None
    <3> QED BY <3>1, <3>2 DEF RequestOf
  <2> HIDE DEF m
  <2>5. ThreadTypes'
    BY <1>1, <1>3, <2>1, <2>3, <2>4, RequestTypes DEF Inv, Types
  <2>6. StorageTypes' /\ \A j \in Keys : Has(j)' <=> Has(j)
    BY <1>1, <2>1, <2>3, SameStorage DEF Inv, Types
  <2> QED BY <1>1, <1>3, <2>1, <2>3, <2>5, <2>6, Unmoved DEF Inv, Types, MemoryTypes
<1>6. CASE RefreshLost(r) \/ RefreshRefused(r)
  <2>1. /\ RequestInto(r, Idle)
        /\ granted' = granted /\ owner' = owner /\ tokens' = tokens /\ storage' = storage
    BY <1>6 DEF RequestInto, RefreshLost, RefreshRefused, StepRequest, provider, memory
  <2>2. ThreadTypes'
    BY <1>1, <1>2, <1>3, <2>1, RequestTypes DEF Inv, Types
  <2>3. StorageTypes' /\ \A j \in Keys : Has(j)' <=> Has(j)
    BY <1>1, <2>1, SameStorage DEF Inv, Types
  <2> QED BY <1>1, <1>3, <2>1, <2>2, <2>3, Unmoved DEF Inv, Types, ProviderTypes, MemoryTypes
<1>7. CASE RefreshKey(r)
  <2> DEFINE m == [q EXCEPT !.pc = "store", !.key = storageKey]
  <2>1. /\ RequestInto(r, m) /\ q.pc = "key"
        /\ granted' = granted /\ owner' = owner /\ tokens' = tokens /\ storage' = storage
    BY <1>7 DEF RequestInto, RefreshKey, StepRequest, Running, provider, memory
  <2>2. storageKey \in Keys
    BY Names DEF storageKey, Inv, Types, MemoryTypes
  <2>3. m \in RequestOf(granted') /\ m.grant # None
    BY <1>1, <2>1, <2>2 DEF RequestOf, RequestSteps
  <2> HIDE DEF m
  <2>4. ThreadTypes'
    BY <1>1, <1>3, <2>1, <2>3, RequestTypes DEF Inv, Types
  <2>5. StorageTypes' /\ \A j \in Keys : Has(j)' <=> Has(j)
    BY <1>1, <2>1, SameStorage DEF Inv, Types
  <2> QED BY <1>1, <1>3, <2>1, <2>4, <2>5, Unmoved DEF Inv, Types, ProviderTypes, MemoryTypes
<1>8. CASE RefreshStore(r)
  <2>1. /\ RequestInto(r, Idle) /\ q.pc = "store" /\ tokens' = q.grant
        /\ Store(q.key, q.grant) \/ storage' = storage
        /\ granted' = granted /\ owner' = owner
    BY <1>8 DEF RequestInto, RefreshStore, StepRequest, Running, StoreFails, provider
  <2>2. q.key \in Keys /\ q.grant \in 1..granted' /\ q.grant \in 0..granted
    BY <1>1, <2>1 DEF RequestOf, None
  <2>3. ThreadTypes'
    BY <1>1, <1>2, <1>3, <2>1, RequestTypes DEF Inv, Types
  <2>4. StorageTypes' /\ \A j \in Keys : Has(j) => Has(j)'
    <3>1. CASE Store(q.key, q.grant)
      BY <1>1, <2>1, <2>2, <3>1, StoreFills DEF Inv, Types
    <3>2. CASE storage' = storage
      BY <1>1, <2>1, <3>2, SameStorage DEF Inv, Types
    <3> QED BY <2>1, <3>1, <3>2
  <2> QED BY <1>1, <1>3, <2>1, <2>2, <2>3, <2>4, Unmoved DEF Inv, Types, ProviderTypes, MemoryTypes
<1> QED BY <1>4, <1>5, <1>6, <1>7, <1>8 DEF RequestStep

-----------------------------------------------------------------------------
(* The sign-in.                                                            *)

LEMMA SignInTypes ==
  ASSUME ThreadTypes, signIn' \in SignInOf(granted'),
         signIn'.pc = "exchanging" => signIn'.grant # None,
         request' = request, restore' = restore,
         granted \in Nat, granted' \in Nat, granted <= granted'
  PROVE  ThreadTypes'
<1>1. 0..granted \subseteq 0..granted'
  OBVIOUS
<1>2. RequestOf(granted) \subseteq RequestOf(granted')
  BY <1>1 DEF RequestOf
<1> QED BY <1>2 DEF ThreadTypes

(* A step of a sign-in that has come back from the browser: nobody else is *)
(* at work.                                                                *)
LEMMA SignInAlone ==
  ASSUME Alone, restore' = restore, signOut' = signOut,
         restore = "done", signOut.pc = "idle"
  PROVE  Alone'
BY DEF Alone

(* It advances with the grant and the key it has.                          *)
LEMMA Advances ==
  ASSUME ThreadTypes, NEW pc \in SignInSteps, signIn' = At(pc)
  PROVE  signIn' \in SignInOf(granted) /\ signIn'.pc = pc
         /\ signIn'.key = signIn.key /\ signIn'.grant = signIn.grant
BY DEF ThreadTypes, SignInOf, At

LEMMA StartKeepsInv ==
  ASSUME OneAccount, Inv, StartSignIn \/ CancelSignIn
  PROVE  Inv'
<1>1. /\ granted' = granted /\ owner' = owner /\ tokens' = tokens /\ accountId' = accountId
      /\ storage' = storage /\ config' = config /\ request' = request /\ signOut' = signOut
      /\ restore' = restore /\ forgotten' = forgotten
      /\ granted \in Nat
  BY DEF StartSignIn, CancelSignIn, provider, memory, history, Inv, Types, ProviderTypes
<1>2. signIn' = [Idle EXCEPT !.pc = "browser"] \/ signIn' = Idle
  BY DEF StartSignIn, CancelSignIn
<1>3. Idle \in SignInOf(granted) /\ Idle.pc = "idle" /\ "browser" \in SignInSteps
  BY <1>1, IdleTypes DEF SignInSteps
<1>4. signIn' \in SignInOf(granted) /\ signIn'.pc \in {"idle", "browser"}
  BY <1>2, <1>3 DEF SignInOf
<1>5. restore = "done"
  BY DEF StartSignIn, CancelSignIn, Inv, Held, Alone
<1>6. StorageTypes' /\ \A j \in Keys : Has(j)' <=> Has(j)
  BY <1>1, SameStorage DEF Inv, Types
<1>7. ThreadTypes'
  BY <1>1, <1>4, SignInTypes DEF Inv, Types
<1>8. Types'
  BY <1>1, <1>6, <1>7 DEF Inv, Types, ProviderTypes, MemoryTypes
<1>9. Alone' /\ Stored'
  BY <1>1, <1>4, <1>5 DEF Alone, Stored, Signed
<1>10. Found'
  BY <1>1, <1>6, Names DEF Inv, Held, Found
<1> QED BY <1>8, <1>9, <1>10 DEF Inv, Held

LEMMA SignInKeepsInv ==
  ASSUME OneAccount, Inv, SignInStep
  PROVE  Inv'
<1>1. /\ request' = request /\ signOut' = signOut /\ restore' = restore
      /\ restore = "done" /\ signOut.pc = "idle"
  <2>1. /\ request' = request /\ signOut' = signOut /\ restore' = restore
        /\ (signIn.pc = "browser" /\ signOut.pc = "idle") \/ signIn.pc \in Signed
    BY DEF SignInStep, Exchange, ExchangeStore, DriveFound, DriveFails, MigrateStore, MigrateDelete,
           SaveAccount, StepSignIn, Signed
  <2> QED BY <2>1 DEF Inv, Held, Alone, Signed
<1>2. Alone'
  BY <1>1, SignInAlone DEF Inv, Held
<1>3. /\ granted \in Nat /\ signIn \in SignInOf(granted) /\ tokens \in 0..granted /\ signIn.key \in Keys
      /\ User \in Keys /\ Client \in Keys /\ User # Client /\ User # NoAccount /\ Client # NoAccount
  BY Names DEF Inv, Types, ProviderTypes, MemoryTypes, ThreadTypes, SignInOf
<1>4. Idle \in SignInOf(granted) /\ Idle.pc = "idle" /\ storageKey \in Keys
  BY <1>3, IdleTypes DEF storageKey, Inv, Types, MemoryTypes
<1>5. CASE Exchange
  <2> DEFINE m == [Idle EXCEPT !.pc = "exchanging", !.grant = granted + 1, !.key = storageKey]
  <2>1. /\ Grant(User) /\ signIn' = m /\ signIn.pc = "browser" /\ tokens' = tokens
        /\ accountId' = accountId /\ storage' = storage /\ config' = config
        /\ (forgotten => forgotten')
    BY <1>5 DEF Exchange, StepSignIn, memory, OneAccount
  <2>2. /\ ProviderTypes' /\ granted' = granted + 1 /\ granted' \in Nat /\ granted <= granted'
        /\ granted' \in 1..granted' /\ \A n \in 0..granted : n \in 0..granted'
    BY <1>3, <2>1, NewGrant DEF Inv, Types
  <2>3. m \in SignInOf(granted') /\ m.grant # None /\ m.pc = "exchanging" /\ m.key = storageKey
    <3>1. Idle \in SignInOf(granted') /\ "exchanging" \in SignInSteps
      BY <2>2, IdleTypes DEF SignInSteps
    <3>2. granted + 1 \in 0..granted' /\ granted + 1 # None
      BY <1>3, <2>2 DEF None
    <3> QED BY <1>4, <3>1, <3>2 DEF SignInOf
  <2> HIDE DEF m
  <2>4. ThreadTypes'
    BY <1>1, <1>3, <2>1, <2>2, <2>3, SignInTypes DEF Inv, Types
  <2>5. StorageTypes' /\ \A j \in Keys : Has(j)' <=> Has(j)
    BY <1>3, <2>1, <2>2, SameStorage DEF Inv, Types
  <2>6. Types'
    BY <1>3, <2>1, <2>2, <2>4, <2>5 DEF Inv, Types, MemoryTypes
  <2>7. Stored'
    BY <1>1, <2>1, <2>3 DEF Stored, storageKey
  <2>8. Found'
    BY <1>3, <2>1, <2>5 DEF Inv, Held, Found
  <2> QED BY <1>2, <2>6, <2>7, <2>8 DEF Inv, Held
<1>6. CASE ExchangeStore
  <2>1. /\ granted' = granted /\ owner' = owner /\ accountId' = accountId /\ config' = config
        /\ tokens' = signIn.grant /\ (forgotten => forgotten') /\ signIn.pc = "exchanging"
    BY <1>6 DEF ExchangeStore, StepSignIn, provider
  <2> PICK k \in Keys : k = signIn.key
    BY <1>3
  <2>2. signIn.grant \in 1..granted' /\ signIn.grant \in 0..granted'
    <3>1. signIn.grant \in 0..granted /\ signIn.grant # 0
      BY <1>3, <2>1 DEF Inv, Types, ThreadTypes, SignInOf, None
    <3> QED BY <1>3, <2>1, <3>1
  <2>3. /\ StorageTypes' /\ \A j \in Keys : Has(j) => Has(j)'
        /\ \/ signIn' = At("drive") /\ Has(k)'
           \/ signIn' = Idle
    <3>1. CASE Store(k, signIn.grant) /\ signIn' = At("drive")
      BY <1>3, <2>1, <2>2, <3>1, StoreFills DEF Inv, Types
    <3>2. CASE storage' = storage /\ signIn' = Idle
      BY <1>3, <2>1, <3>2, SameStorage DEF Inv, Types
    <3> QED BY <1>6, <3>1, <3>2 DEF ExchangeStore, StepSignIn, StoreFails
  <2>4. /\ signIn' \in SignInOf(granted)
        /\ \/ signIn'.pc = "drive" /\ signIn'.key = k /\ Has(k)'
           \/ signIn'.pc = "idle"
    BY <1>4, <2>3, Advances DEF SignInSteps, Inv, Types
  <2>5. ThreadTypes'
    BY <1>1, <1>3, <2>1, <2>4, SignInTypes DEF Inv, Types
  <2>6. Types'
    BY <2>1, <2>2, <2>3, <2>5 DEF Inv, Types, ProviderTypes, MemoryTypes
  <2>7. Stored'
    BY <1>1, <2>1, <2>4 DEF Inv, Held, Stored, storageKey
  <2>8. Found'
    BY <1>3, <2>1, <2>3 DEF Inv, Held, Found
  <2> QED BY <1>2, <2>6, <2>7, <2>8 DEF Inv, Held
<1>7. CASE DriveFound
  <2>1. /\ granted' = granted /\ owner' = owner /\ tokens' = tokens /\ storage' = storage
        /\ config' = config /\ (forgotten => forgotten') /\ signIn.pc = "drive"
        /\ tokens # None /\ accountId' = owner[tokens]
    BY <1>7 DEF DriveFound, StepSignIn, provider
  <2>2. owner[tokens] = User
    <3>1. tokens \in 1..granted
      BY <1>3, <2>1 DEF None
    <3> QED BY <3>1 DEF Inv, Types, ProviderTypes
  <2>3. /\ signIn.key = storageKey /\ storageKey \in {User, Client} /\ Has(signIn.key)
        /\ \/ storageKey = User /\ signIn' = At("saving")
           \/ storageKey = Client /\ signIn' = [At("migrating") EXCEPT !.key = storageKey]
    BY <1>3, <1>7, <2>1, <2>2
       DEF DriveFound, StepSignIn, Inv, Held, Stored, storageKey, Types, MemoryTypes
  <2>4. /\ signIn' \in SignInOf(granted) /\ signIn'.key = signIn.key
        /\ \/ signIn'.pc = "saving" /\ signIn'.key = User
           \/ signIn'.pc = "migrating" /\ signIn'.key = Client
    BY <1>3, <2>3 DEF At, SignInOf, SignInSteps
  <2>5. StorageTypes' /\ \A j \in Keys : Has(j)' <=> Has(j)
    BY <1>3, <2>1, SameStorage DEF Inv, Types
  <2>6. ThreadTypes'
    BY <1>1, <1>3, <2>1, <2>4, SignInTypes DEF Inv, Types
  <2>7. Types'
    BY <2>1, <2>2, <2>5, <2>6 DEF Inv, Types, ProviderTypes, MemoryTypes
  <2>8. Stored'
    BY <1>1, <1>3, <2>1, <2>2, <2>3, <2>4, <2>5 DEF Stored
  <2>9. Found'
    BY <1>3, <2>1, <2>5 DEF Inv, Held, Found
  <2> QED BY <1>2, <2>7, <2>8, <2>9 DEF Inv, Held
<1>8. CASE DriveFails
  <2>1. /\ granted' = granted /\ owner' = owner /\ tokens' = tokens /\ storage' = storage
        /\ accountId' = accountId /\ config' = config /\ (forgotten => forgotten') /\ signIn' = Idle
    BY <1>8 DEF DriveFails, StepSignIn, provider, memory
  <2>2. StorageTypes' /\ \A j \in Keys : Has(j)' <=> Has(j)
    BY <1>3, <2>1, SameStorage DEF Inv, Types
  <2>3. ThreadTypes'
    BY <1>1, <1>3, <1>4, <2>1, SignInTypes DEF Inv, Types
  <2>4. Types'
    BY <2>1, <2>2, <2>3 DEF Inv, Types, ProviderTypes, MemoryTypes
  <2>5. Stored'
    BY <1>1, <1>4, <2>1 DEF Stored
  <2>6. Found'
    BY <1>3, <2>1, <2>2 DEF Inv, Held, Found
  <2> QED BY <1>2, <2>4, <2>5, <2>6 DEF Inv, Held
<1>9. CASE MigrateStore
  <2>1. /\ granted' = granted /\ owner' = owner /\ tokens' = tokens /\ accountId' = accountId
        /\ config' = config /\ (forgotten => forgotten') /\ signIn.pc = "migrating"
    BY <1>9 DEF MigrateStore, StepSignIn, provider, memory
  <2>2. accountId = User /\ signIn.key = Client /\ Has(Client) /\ Load(Client) # None
    BY <2>1, LoadFinds DEF Inv, Held, Stored
  <2>3. Load(Client) \in 1..granted'
    <3>1. Load(Client) \in 0..granted
      BY <1>3 DEF Load, Inv, Types, StorageTypes
    <3> QED BY <1>3, <2>1, <2>2, <3>1 DEF None
  <2>4. /\ StorageTypes' /\ \A j \in Keys : Has(j) => Has(j)'
        /\ \/ signIn' = At("deleting") /\ Has(User)'
           \/ signIn' = Idle
    <3> DEFINE n == Load(Client)
    <3>1. n \in 1..granted'
      BY <2>3
    <3> HIDE DEF n
    <3>2. CASE Store(User, n) /\ signIn' = At("deleting")
      BY <1>3, <2>1, <3>1, <3>2, StoreFills DEF Inv, Types
    <3>3. CASE storage' = storage /\ signIn' = Idle
      BY <1>3, <2>1, <3>3, SameStorage DEF Inv, Types
    <3>4. \/ Store(User, n) /\ signIn' = At("deleting")
          \/ storage' = storage /\ signIn' = Idle
      BY <1>9, <2>2 DEF n, MigrateStore, StepSignIn, StoreFails
    <3> QED BY <3>2, <3>3, <3>4
  <2>5. /\ signIn' \in SignInOf(granted)
        /\ \/ signIn'.pc = "deleting" /\ signIn'.key = Client /\ Has(User)'
           \/ signIn'.pc = "idle"
    BY <1>4, <2>2, <2>4, Advances DEF SignInSteps, Inv, Types
  <2>6. ThreadTypes'
    BY <1>1, <1>3, <2>1, <2>5, SignInTypes DEF Inv, Types
  <2>7. Types'
    BY <2>1, <2>4, <2>6 DEF Inv, Types, ProviderTypes, MemoryTypes
  <2>8. Stored'
    BY <1>1, <2>1, <2>2, <2>5 DEF Stored
  <2>9. Found'
    BY <1>3, <2>1, <2>4 DEF Inv, Held, Found
  <2> QED BY <1>2, <2>7, <2>8, <2>9 DEF Inv, Held
<1>10. CASE MigrateDelete
  <2>1. /\ granted' = granted /\ owner' = owner /\ tokens' = tokens /\ accountId' = accountId
        /\ config' = config /\ (forgotten => forgotten') /\ signIn.pc = "deleting"
        /\ signIn' = At("saving") /\ Delete(signIn.key)
    BY <1>10 DEF MigrateDelete, StepSignIn, provider, memory
  <2>2. accountId = User /\ signIn.key = Client /\ Has(User)
    BY <2>1 DEF Inv, Held, Stored
  <2>3. StorageTypes' /\ Has(User)'
    BY <1>3, <2>1, <2>2, DeleteKeepsOthers DEF Inv, Types
  <2>4. signIn' \in SignInOf(granted) /\ signIn'.pc = "saving"
    BY <2>1, Advances DEF SignInSteps, Inv, Types
  <2>5. ThreadTypes'
    BY <1>1, <1>3, <2>1, <2>4, SignInTypes DEF Inv, Types
  <2>6. Types'
    BY <2>1, <2>3, <2>5 DEF Inv, Types, ProviderTypes, MemoryTypes
  <2>7. Stored'
    BY <1>1, <2>1, <2>2, <2>3, <2>4 DEF Stored
  <2>8. Found'
    BY <2>3 DEF Found
  <2> QED BY <1>2, <2>6, <2>7, <2>8 DEF Inv, Held
<1>11. CASE SaveAccount
  <2>1. /\ granted' = granted /\ owner' = owner /\ tokens' = tokens /\ accountId' = accountId
        /\ storage' = storage /\ signIn.pc = "saving" /\ signIn' = Idle
        /\ config' \in {accountId, config}
    BY <1>11 DEF SaveAccount, StepSignIn, provider, memory
  <2>2. accountId = User /\ Has(User)
    BY <2>1 DEF Inv, Held, Stored
  <2>3. StorageTypes' /\ \A j \in Keys : Has(j)' <=> Has(j)
    BY <1>3, <2>1, SameStorage DEF Inv, Types
  <2>4. ThreadTypes'
    BY <1>1, <1>3, <1>4, <2>1, SignInTypes DEF Inv, Types
  <2>5. Types'
    BY <2>1, <2>3, <2>4 DEF Inv, Types, ProviderTypes, MemoryTypes
  <2>6. Stored'
    BY <1>1, <1>4, <2>1 DEF Stored
  <2>7. Found'
    BY <1>3, <2>2, <2>3 DEF Found
  <2> QED BY <1>2, <2>5, <2>6, <2>7 DEF Inv, Held
<1> QED BY <1>5, <1>6, <1>7, <1>8, <1>9, <1>10, <1>11 DEF SignInStep

-----------------------------------------------------------------------------
(* The provider, the sign-out, and the next start.                         *)

LEMMA ProviderKeepsInv ==
  ASSUME OneAccount, Inv, Expire \/ Withdraw
  PROVE  Inv'
<1>1. /\ granted' = granted /\ owner' = owner /\ tokens' = tokens /\ accountId' = accountId
      /\ storage' = storage /\ config' = config /\ request' = request /\ signIn' = signIn
      /\ signOut' = signOut /\ restore' = restore /\ forgotten' = forgotten
  BY DEF Expire, Withdraw, memory, threads, history
<1>2. granted \in Nat /\ signIn.key \in Keys
  BY DEF Inv, Types, ProviderTypes, ThreadTypes, SignInOf
<1>3. StorageTypes' /\ \A j \in Keys : Has(j)' <=> Has(j)
  BY <1>1, <1>2, SameStorage DEF Inv, Types
<1>4. Types'
  BY <1>1, <1>3 DEF Inv, Types, ProviderTypes, MemoryTypes, ThreadTypes
<1> QED BY <1>1, <1>2, <1>3, <1>4, Unmoved DEF Inv

LEMMA SignOutKeepsInv ==
  ASSUME OneAccount, Inv, StartSignOut \/ SignOutStep
  PROVE  Inv'
<1>1. /\ granted' = granted /\ owner' = owner /\ request' = request /\ signIn' = signIn
      /\ restore' = restore
      /\ granted \in Nat /\ tokens \in 0..granted
      /\ User \in Keys /\ Client \in Keys
  BY Names DEF StartSignOut, SignOutStep, ClearTokens, ForgetAccount, StepSignOut, provider,
               Inv, Types, ProviderTypes, MemoryTypes
<1>2. restore = "done" /\ signIn.pc \notin Signed
  <2>1. CASE StartSignOut
    BY <2>1 DEF StartSignOut, Signed
  <2>2. CASE SignOutStep
    BY <2>2 DEF SignOutStep, ClearTokens, ForgetAccount, StepSignOut, Inv, Held, Alone
  <2> QED BY <2>1, <2>2
<1>3. Alone' /\ Stored'
  BY <1>1, <1>2 DEF Alone, Stored, Signed
<1>4. ThreadTypes'
  BY <1>1 DEF Inv, Types, ThreadTypes
<1>5. CASE StartSignOut
  <2>1. /\ tokens' = tokens /\ accountId' = accountId /\ storage' = storage /\ config' = config
        /\ (forgotten => forgotten')
    BY <1>5 DEF StartSignOut, StepSignOut, memory
  <2>2. StorageTypes' /\ \A j \in Keys : Has(j)' <=> Has(j)
    BY <1>1, <2>1, SameStorage DEF Inv, Types
  <2>3. Types'
    BY <1>1, <1>4, <2>1, <2>2 DEF Inv, Types, ProviderTypes, MemoryTypes
  <2>4. Found'
    BY <1>1, <2>1, <2>2 DEF Inv, Held, Found
  <2> QED BY <1>3, <2>3, <2>4 DEF Inv, Held
<1>6. CASE ClearTokens
  <2>1. /\ tokens' = None /\ accountId' = NoAccount /\ Delete(signOut.key) /\ config' = config
        /\ forgotten'
    BY <1>6 DEF ClearTokens, StepSignOut
  <2>2. StorageTypes'
    BY <1>1, <2>1, DeleteKeepsOthers DEF Inv, Types
  <2>3. Types'
    BY <1>1, <1>4, <2>1, <2>2 DEF Inv, Types, ProviderTypes, MemoryTypes, None
  <2>4. Found'
    BY <2>1 DEF Found
  <2> QED BY <1>3, <2>3, <2>4 DEF Inv, Held
<1>7. CASE ForgetAccount
  <2>1. /\ tokens' = tokens /\ accountId' = accountId /\ storage' = storage /\ config' = NoAccount
    BY <1>7 DEF ForgetAccount, memory
  <2>2. StorageTypes'
    BY <1>1, <2>1, SameStorage DEF Inv, Types
  <2>3. Types'
    BY <1>1, <1>4, <2>1, <2>2 DEF Inv, Types, ProviderTypes, MemoryTypes
  <2>4. Found'
    BY <2>1 DEF Found
  <2> QED BY <1>3, <2>3, <2>4 DEF Inv, Held
<1> QED BY <1>5, <1>6, <1>7 DEF SignOutStep

(* A start, with storage as it was or torn, forgets every thread.           *)
LEMMA StartAgainKeeps ==
  ASSUME OneAccount, Inv, StartAgain, StorageTypes'
  PROVE  Types' /\ Alone' /\ Stored'
<1>1. /\ granted' = granted /\ owner' = owner /\ config' = config
      /\ tokens' = None /\ accountId' = NoAccount
      /\ request' = [r \in Requests |-> Idle] /\ signIn' = Idle /\ signOut' = Idle
      /\ restore' = IF config = NoAccount THEN "done" ELSE "loading"
  BY DEF StartAgain, provider
<1>2. granted \in Nat /\ Idle \in RequestOf(granted) /\ Idle \in SignInOf(granted) /\ Idle.pc = "idle"
  BY IdleTypes DEF Inv, Types, ProviderTypes
<1>3. ThreadTypes'
  BY <1>1, <1>2 DEF ThreadTypes, RestoreSteps
<1>4. Types'
  BY <1>1, <1>2, <1>3 DEF Inv, Types, ProviderTypes, MemoryTypes, None
<1>5. Alone'
  BY <1>1, <1>2 DEF Alone, Signed, Inv, Types, MemoryTypes
<1>6. Stored'
  BY <1>1, <1>2 DEF Stored
<1> QED BY <1>4, <1>5, <1>6

LEMMA RestartKeepsInv ==
  ASSUME OneAccount, Inv, Restart
  PROVE  Inv'
<1>1. StartAgain /\ granted' = granted /\ storage' = storage /\ config' = config /\ forgotten' = forgotten
  BY DEF Restart, StartAgain, provider, history
<1>2. StorageTypes' /\ \A j \in Keys : Has(j)' <=> Has(j)
  BY <1>1, SameStorage DEF Inv, Types, ProviderTypes
<1>3. Found'
  BY <1>1, <1>2, Names DEF Inv, Held, Found
<1> QED BY <1>1, <1>2, <1>3, StartAgainKeeps DEF Inv, Held

(* What the torn file held is in another place, or counts as forgotten.     *)
LEMMA TearFileKeepsInv ==
  ASSUME OneAccount, Inv, TearFile
  PROVE  Inv'
<1>1. PICK k \in Keys :
        /\ StartAgain /\ file' = [file EXCEPT ![k] = None] /\ keyring' = keyring
        /\ forgotten' = (forgotten \/ (file[k] # None /\ \A j \in Keys : Load(j)' = None))
  BY DEF TearFile
<1>2. granted' = granted /\ config' = config /\ granted \in Nat
  BY <1>1 DEF StartAgain, provider, Inv, Types, ProviderTypes
<1>3. StorageTypes'
  BY <1>1, <1>2 DEF Inv, Types, StorageTypes, None
<1>4. Found'
  <2>1. SUFFICES ASSUME config # NoAccount, ~forgotten'
                 PROVE  Has(User)' \/ Has(Client)'
    BY <1>2 DEF Found
  <2>2. Has(User) \/ Has(Client)
    BY <1>1, <2>1 DEF Inv, Held, Found
  <2>3. CASE file[k] = None
    <3>1. file' = file
      BY <1>1, <2>3 DEF Inv, Types, StorageTypes
    <3> QED BY <1>1, <2>2, <3>1 DEF Has
  <2>4. CASE file[k] # None
    <3>1. PICK j \in Keys : Load(j)' # None
      BY <1>1, <2>1, <2>4
    <3>2. j = User \/ j = Client
      BY <3>1, SessionConstants DEF OneAccount, Keys
    <3>3. keyring'[j] # None \/ file'[j] # None
      BY <3>1 DEF Load
    <3> QED BY <3>2, <3>3 DEF Has
  <2> QED BY <2>3, <2>4
<1> QED BY <1>1, <1>3, <1>4, StartAgainKeeps DEF Inv, Held

LEMMA RestoreKeepsInv ==
  ASSUME OneAccount, Inv, RestoreStep
  PROVE  Inv'
<1>1. /\ granted' = granted /\ owner' = owner /\ config' = config /\ request' = request
      /\ signIn' = signIn /\ signOut' = signOut /\ forgotten' = forgotten
      /\ restore # "done" /\ restore' \in RestoreSteps
  BY DEF RestoreStep, RestoreLoad, RestoreNothing, RestoreMigrate, RestoreDelete, StepRestore,
         provider, history, RestoreSteps
<1>2. /\ granted \in Nat /\ signIn.pc = "idle" /\ signOut.pc = "idle" /\ config = User
      /\ User \in Keys /\ Client \in Keys /\ User # Client
  BY <1>1, Names DEF Inv, Held, Alone, Types, ProviderTypes
<1>3. \A k \in Keys : Load(k) \in 0..granted /\ (Load(k) # None <=> Has(k))
  BY LoadFinds DEF Load, Inv, Types, StorageTypes
<1>4. Alone' /\ ThreadTypes'
  BY <1>1, <1>2 DEF Alone, Signed, Inv, Types, ThreadTypes
<1>5. /\ tokens' \in 0..granted /\ accountId' \in {NoAccount, User}
  <2>1. \/ tokens' = tokens /\ accountId' = accountId
        \/ tokens' = Load(config) /\ accountId' = config
    BY DEF RestoreStep, RestoreLoad, RestoreNothing, RestoreMigrate, RestoreDelete, Use, memory
  <2> QED BY <1>2, <1>3, <2>1 DEF Inv, Types, MemoryTypes
<1>6. StorageTypes' /\ (Has(User) => Has(User)') /\ (Has(Client) => Has(Client)' \/ Has(User)')
      /\ (restore' = "deleting" => Has(User)')
  <2>1. CASE RestoreLoad \/ RestoreNothing
    <3>1. storage' = storage /\ restore' = "done"
      BY <2>1 DEF RestoreLoad, RestoreNothing, StepRestore
    <3> QED BY <1>1, <1>2, <3>1, SameStorage DEF Inv, Types
  <2>2. CASE RestoreMigrate
    <3>1. PICK n \in 1..granted' : n = Load(Client)
      <4>1. Load(Client) \in 0..granted /\ Load(Client) # 0
        BY <1>2, <1>3, <2>2 DEF RestoreMigrate, None
      <4> QED BY <1>1, <1>2, <4>1
    <3>2. CASE Store(User, n)
      BY <1>1, <1>2, <3>2, StoreFills DEF Inv, Types
    <3>3. CASE storage' = storage /\ restore' = "done"
      BY <1>1, <1>2, <3>3, SameStorage DEF Inv, Types
    <3> QED BY <1>2, <2>2, <3>1, <3>2, <3>3 DEF RestoreMigrate, StoreFails, StepRestore
  <2>3. CASE RestoreDelete
    <3>1. Has(User) /\ Delete(Client) /\ restore' = "done"
      BY <2>3 DEF RestoreDelete, StepRestore, Inv, Held, Stored
    <3> QED BY <1>1, <1>2, <3>1, DeleteKeepsOthers DEF Inv, Types
  <2> QED BY <2>1, <2>2, <2>3 DEF RestoreStep
<1>7. Types'
  BY <1>1, <1>4, <1>5, <1>6 DEF Inv, Types, ProviderTypes, MemoryTypes
<1>8. Stored'
  BY <1>1, <1>2, <1>6 DEF Stored
<1>9. Found'
  BY <1>1, <1>6 DEF Inv, Held, Found
<1> QED BY <1>4, <1>7, <1>8, <1>9 DEF Inv, Held

-----------------------------------------------------------------------------
(* The theorem.                                                            *)

LEMMA InitInv ==
  ASSUME OneAccount, Init
  PROVE  Inv
<1>1. /\ granted = 0 /\ MaxGrants \in Nat
      /\ User \in Keys /\ Client \in Keys
  BY SessionConstants, Names DEF Init
<1>2. Idle \in RequestOf(granted) /\ Idle \in SignInOf(granted) /\ Idle.pc = "idle"
  BY <1>1, IdleTypes
<1>3. ProviderTypes /\ StorageTypes /\ MemoryTypes
  BY <1>1 DEF Init, ProviderTypes, StorageTypes, MemoryTypes, None
<1>4. ThreadTypes
  BY <1>2 DEF Init, ThreadTypes, RestoreSteps
<1>5. Held
  BY <1>2 DEF Init, Held, Alone, Stored, Found, Signed
<1> QED BY <1>3, <1>4, <1>5 DEF Inv, Types

LEMMA StepKeepsInv ==
  ASSUME OneAccount, Inv, [Next]_vars
  PROVE  Inv'
<1>1. CASE UNCHANGED vars
  <2>1. /\ granted' = granted /\ owner' = owner /\ tokens' = tokens /\ accountId' = accountId
        /\ keyring' = keyring /\ file' = file /\ config' = config /\ request' = request
        /\ signIn' = signIn /\ signOut' = signOut /\ restore' = restore /\ forgotten' = forgotten
    BY <1>1 DEF vars, provider, memory, storage, threads, history
  <2> QED BY <2>1 DEF Inv, Types, ProviderTypes, StorageTypes, MemoryTypes, ThreadTypes, Held, Alone,
              Stored, Found, Has, storageKey
<1>2. CASE Next
  BY <1>2, ProviderKeepsInv, RestartKeepsInv, TearFileKeepsInv,
     RequestKeepsInv, StartKeepsInv, SignInKeepsInv,
     SignOutKeepsInv, RestoreKeepsInv DEF Next
<1> QED BY <1>1, <1>2

LEMMA InvFinds ==
  ASSUME OneAccount, Inv
  PROVE  RestartFindsTokens
<1>1. config \in {NoAccount, User}
  BY DEF Inv, Types, MemoryTypes
<1> QED BY <1>1, LoadFinds DEF Inv, Held, Found, RestartFindsTokens

(* As long as one account signs in, whatever its number of sign-ins,       *)
(* refreshes and starts: a configured account that has not signed out      *)
(* finds its tokens under its own key or under the client's.               *)
THEOREM TokensAlwaysFound ==
  ASSUME \E a : Accounts = {a}
  PROVE  Spec => []RestartFindsTokens
<1>1. OneAccount
  BY DEF OneAccount, User
<1>2. Init => Inv
  BY <1>1, InitInv
<1>3. Inv /\ [Next]_vars => Inv'
  BY <1>1, StepKeepsInv
<1>4. Inv => RestartFindsTokens
  BY <1>1, InvFinds
<1> QED BY <1>2, <1>3, <1>4, PTL DEF Spec
================================================================================
