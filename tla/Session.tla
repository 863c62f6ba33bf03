-------------------------------- MODULE Session --------------------------------
(***************************************************************************)
(* The signed-in session: AuthManager (manager.rs of carminedesktop-auth), *)
(* the token storage (storage.rs), the commands that sign in and out       *)
(* (commands.rs), the restore at start-up and the delta loop's reaction to *)
(* a refused refresh (main.rs).                                            *)
(*                                                                         *)
(* A grant is an access and a refresh token from one answer of the         *)
(* identity provider, numbered in the order of the answers.  The provider  *)
(* may withdraw all grants of an account; a refresh is refused from then   *)
(* on.  Requests of the Graph client come from any number of tasks and     *)
(* survive the sign-out that stops the mounts.                             *)
(*                                                                         *)
(* The frontend signs in with start_sign_in and cancel_sign_in only, which *)
(* abort the previous sign-in task; so the cancellation token of           *)
(* AuthManager decides nothing an abort does not, and is left out.  The    *)
(* user does one thing at a time: a sign-out and the completion of a       *)
(* sign-in do not overlap.                                                 *)
(***************************************************************************)
EXTENDS Integers, FiniteSets

CONSTANTS
  Accounts,     (* accounts of the drives get_my_drive may answer           *)
  Client,       (* the storage key in use before the account is known       *)
  Requests,     (* tasks that ask for an access token, one of them ...      *)
  DeltaLoop,    (* ... the delta loop                                       *)
  NoAccount,
  MaxGrants, MaxFailures, MaxRestarts   (* bounds of the model              *)

ASSUME SessionConstants ==
  /\ Client \notin Accounts /\ NoAccount \notin Accounts \cup {Client}
  /\ DeltaLoop \in Requests
  /\ {MaxGrants, MaxFailures, MaxRestarts} \subseteq Nat

Keys == Accounts \cup {Client}
None == 0
Grants == 1..MaxGrants

VARIABLES
  granted,        (* grants so far                                          *)
  owner,          (* account of each grant                                  *)
  fresh,          (* grants whose access token has not expired              *)
  refused,        (* grants the provider does not refresh any more          *)
  tokens,         (* tokens and expiry of AuthState: a grant, or None       *)
  accountId,      (* AuthState::account_id                                  *)
  keyring, file,  (* grant stored under each key, per backend               *)
  config,         (* the first account of the configuration on disk         *)
  authenticated, degraded,   (* flags of AppState                           *)
  request,        (* step, key and grant of each token request              *)
  signIn,         (* the sign-in task                                       *)
  signOut,        (* the sign-out command                                   *)
  restore,        (* setup_after_launch                                     *)
  failures, restarts,
  forgotten       (* history: a sign-out has deleted the tokens, or a crash *)
                  (* has torn the file that held the only copy              *)

provider == <<granted, owner, fresh, refused>>
memory == <<tokens, accountId>>
storage == <<keyring, file>>
flags == <<authenticated, degraded>>
threads == <<request, signIn, signOut, restore>>
counts == <<failures, restarts>>
history == <<forgotten>>
vars == <<provider, memory, storage, config, flags, threads, counts, history>>

Idle == [pc |-> "idle", key |-> Client, grant |-> None]

Init ==
  /\ granted = 0 /\ owner = [n \in Grants |-> NoAccount] /\ fresh = {} /\ refused = {}
  /\ tokens = None /\ accountId = NoAccount
  /\ keyring = [k \in Keys |-> None] /\ file = [k \in Keys |-> None]
  /\ config = NoAccount /\ authenticated = FALSE /\ degraded = FALSE
  /\ request = [r \in Requests |-> Idle] /\ signIn = Idle /\ signOut = Idle
  /\ restore = "done" /\ failures = 0 /\ restarts = 0 /\ forgotten = FALSE

-----------------------------------------------------------------------------
(* The provider, and the storage.                                           *)

Grant(account) ==
  /\ granted < MaxGrants /\ granted' = granted + 1
  /\ owner' = [owner EXCEPT ![granted + 1] = account]
  /\ fresh' = fresh \cup {granted + 1}
  /\ UNCHANGED refused

Expire == \E n \in fresh :
  /\ fresh' = fresh \ {n}
  /\ UNCHANGED <<granted, owner, refused, memory, storage, config, flags, threads, counts, history>>

Withdraw == \E account \in Accounts :
  /\ refused' = refused \cup {n \in 1..granted : owner[n] = account}
  /\ refused' # refused
  /\ UNCHANGED <<granted, owner, fresh, memory, storage, config, flags, threads, counts, history>>

Load(k) == IF keyring[k] # None THEN keyring[k] ELSE file[k]

Fails == failures < MaxFailures /\ failures' = failures + 1

(* store_tokens: the keyring, or the encrypted file when it does not keep   *)
(* them.  What the keyring held before stays, and load_tokens prefers it.   *)
Store(k, n) ==
  \/ keyring' = [keyring EXCEPT ![k] = n] /\ UNCHANGED <<file, failures>>
  \/ file' = [file EXCEPT ![k] = n] /\ Fails /\ UNCHANGED keyring
StoreFails == Fails /\ UNCHANGED storage

(* delete_tokens: a keyring that fails is only logged.                      *)
Delete(k) ==
  /\ file' = [file EXCEPT ![k] = None]
  /\ \/ keyring' = [keyring EXCEPT ![k] = None] /\ UNCHANGED failures
     \/ keyring[k] # None /\ Fails /\ UNCHANGED keyring

storageKey == IF accountId = NoAccount THEN Client ELSE accountId

-----------------------------------------------------------------------------
(* access_token and refresh, for every request to Graph.                    *)

Running(r) == request[r].pc
StepRequest(r, from, next) ==
  /\ Running(r) = from /\ request' = [request EXCEPT ![r] = next]
  /\ UNCHANGED <<config, signIn, signOut, restore, restarts, history>>

(* The delta loop ticks while the session lasts; others ask at any time.    *)
MayAsk(r) == IF r = DeltaLoop THEN authenticated ELSE tokens # None

NeedsRefresh == tokens \notin fresh

AccessToken(r) ==
  /\ MayAsk(r) /\ tokens # None /\ NeedsRefresh
  /\ StepRequest(r, "idle", [Idle EXCEPT !.pc = "refresh", !.grant = tokens])
  /\ UNCHANGED <<provider, memory, storage, flags, failures>>

Refreshed(r) ==
  /\ StepRequest(r, "refresh", [Idle EXCEPT !.pc = "key", !.grant = granted + 1])
  /\ request[r].grant \notin refused /\ Grant(owner[request[r].grant])
  /\ UNCHANGED <<memory, storage, flags, failures>>

(* At the bound on grants the provider does not answer any more.            *)
RefreshLost(r) ==
  /\ StepRequest(r, "refresh", Idle)
  /\ \/ Fails
     \/ granted = MaxGrants /\ request[r].grant \notin refused /\ UNCHANGED failures
  /\ UNCHANGED <<provider, memory, storage, flags>>

(* Mutant of RefreshRefused: the refusal is taken for a lost connection.    *)
RefreshRefusedQuietly(r) ==
  /\ request[r].grant \in refused
  /\ StepRequest(r, "refresh", Idle)
  /\ UNCHANGED <<provider, memory, storage, flags, failures>>

(* Only the delta loop tells the user.                                      *)
RefreshRefused(r) ==
  /\ request[r].grant \in refused
  /\ StepRequest(r, "refresh", Idle)
  /\ degraded' = (degraded \/ r = DeltaLoop)
  /\ UNCHANGED <<provider, memory, storage, authenticated, failures>>

RefreshKey(r) ==
  /\ StepRequest(r, "key", [request[r] EXCEPT !.pc = "store", !.key = storageKey])
  /\ UNCHANGED <<provider, memory, storage, flags, failures>>

(* Under the write lock of the state, which the sign-out may have cleared.  *)
RefreshStore(r) ==
  /\ StepRequest(r, "store", Idle)
  /\ tokens' = request[r].grant
  /\ Store(request[r].key, request[r].grant) \/ StoreFails
  /\ UNCHANGED <<provider, accountId, flags>>

-----------------------------------------------------------------------------
(* sign_in, then complete_sign_in.                                          *)

StepSignIn(from, next) ==
  /\ signIn.pc = from /\ signIn' = next
  /\ forgotten' = (forgotten /\ from # "saving")
  /\ UNCHANGED <<request, signOut, restore, restarts>>
At(pc) == [signIn EXCEPT !.pc = pc]

(* start_sign_in: aborts the sign-in before, wherever it waits.             *)
StartSignIn ==
  /\ restore = "done" /\ signOut.pc = "idle"
  /\ ~authenticated \/ degraded
  /\ signIn.pc \in {"idle", "browser", "exchanging", "drive"}
  /\ signIn' = [Idle EXCEPT !.pc = "browser"]
  /\ UNCHANGED <<provider, memory, storage, config, flags, request, signOut, restore, counts, history>>

CancelSignIn ==
  /\ signIn.pc \in {"browser", "exchanging", "drive"}
  /\ signIn' = Idle
  /\ UNCHANGED <<provider, memory, storage, config, flags, request, signOut, restore, counts, history>>

(* The user signs in at the provider with any account, and exchange_code    *)
(* gets the grant.                                                          *)
Exchange == \E account \in Accounts :
  /\ signOut.pc = "idle" /\ Grant(account)
  /\ StepSignIn("browser", [Idle EXCEPT !.pc = "exchanging", !.grant = granted + 1, !.key = storageKey])
  /\ UNCHANGED <<memory, storage, config, flags, failures>>

ExchangeStore ==
  /\ tokens' = signIn.grant
  /\ \/ Store(signIn.key, signIn.grant) /\ StepSignIn("exchanging", At("drive"))
     \/ StoreFails /\ StepSignIn("exchanging", Idle)
  /\ UNCHANGED <<provider, accountId, config, flags>>

(* get_my_drive answers for whoever the tokens belong to by now; then       *)
(* finalize_sign_in, one step of storage after the other.                   *)
DriveFound ==
  /\ tokens # None /\ accountId' = owner[tokens]
  /\ IF storageKey = owner[tokens] THEN StepSignIn("drive", At("saving"))
     ELSE StepSignIn("drive", [At("migrating") EXCEPT !.key = storageKey])
  /\ UNCHANGED <<provider, tokens, storage, config, flags, failures>>

DriveFails ==
  /\ \/ Fails
     \/ tokens = None /\ UNCHANGED failures
  /\ StepSignIn("drive", Idle)
  /\ UNCHANGED <<provider, memory, storage, config, flags>>

(* Mutant of MigrateStore: the old entry goes although the new one failed.  *)
MigrateStoreAnyway ==
  /\ IF Load(signIn.key) = None
     THEN StepSignIn("migrating", At("saving")) /\ UNCHANGED <<storage, failures>>
     ELSE /\ StepSignIn("migrating", At("deleting"))
          /\ Store(accountId, Load(signIn.key)) \/ StoreFails
  /\ UNCHANGED <<provider, memory, config, flags>>

MigrateStore ==
  /\ IF Load(signIn.key) = None
     THEN StepSignIn("migrating", At("saving")) /\ UNCHANGED <<storage, failures>>
     ELSE \/ StepSignIn("migrating", At("deleting")) /\ Store(accountId, Load(signIn.key))
          \/ StepSignIn("migrating", Idle) /\ StoreFails
  /\ UNCHANGED <<provider, memory, config, flags>>

MigrateDelete ==
  /\ StepSignIn("deleting", At("saving")) /\ Delete(signIn.key)
  /\ UNCHANGED <<provider, memory, config, flags>>

(* An account that is configured already stays the first one.               *)
SaveAccount ==
  /\ config' = IF config = NoAccount THEN accountId ELSE config
  /\ StepSignIn("saving", Idle)
  /\ authenticated' = TRUE /\ degraded' = FALSE
  /\ UNCHANGED <<provider, memory, storage, failures>>

-----------------------------------------------------------------------------
(* sign_out.                                                                *)

StepSignOut(from, next) ==
  /\ signOut.pc = from /\ signOut' = next
  /\ forgotten' = (forgotten \/ from = "clearing")
  /\ UNCHANGED <<provider, request, signIn, restore, restarts>>

StartSignOut ==
  /\ authenticated /\ restore = "done" /\ signIn.pc \in {"idle", "browser"}
  /\ StepSignOut("idle", [Idle EXCEPT !.pc = "clearing", !.key = storageKey])
  /\ UNCHANGED <<memory, storage, config, flags, failures>>

(* The write lock is held to the end of the deletion.                       *)
ClearTokens ==
  /\ StepSignOut("clearing", [signOut EXCEPT !.pc = "forgetting"])
  /\ tokens' = None /\ accountId' = NoAccount /\ Delete(signOut.key)
  /\ UNCHANGED <<config, flags>>

ForgetAccount ==
  /\ StepSignOut("forgetting", Idle)
  /\ config' = NoAccount /\ authenticated' = FALSE /\ degraded' = FALSE
  /\ UNCHANGED <<memory, storage, failures>>

-----------------------------------------------------------------------------
(* A crash or exit at any step, and setup_after_launch with try_restore.    *)

StartAgain ==
  /\ restarts < MaxRestarts /\ restarts' = restarts + 1
  /\ tokens' = None /\ accountId' = NoAccount /\ authenticated' = FALSE /\ degraded' = FALSE
  /\ request' = [r \in Requests |-> Idle] /\ signIn' = Idle /\ signOut' = Idle
  /\ restore' = IF config = NoAccount THEN "done" ELSE "loading"
  /\ UNCHANGED <<provider, config>>

Restart == StartAgain /\ UNCHANGED <<storage, failures, history>>

(* Somebody is about to store tokens under the key.                         *)
Storing(k) ==
  \/ \E r \in Requests : Running(r) = "store" /\ request[r].key = k
  \/ signIn.pc = "exchanging" /\ signIn.key = k
  \/ signIn.pc = "migrating" /\ accountId = k /\ Load(signIn.key) # None
  \/ restore = "loading" /\ config = k /\ Load(k) = None /\ Load(Client) # None

(* The file is emptied before it is written: a crash in between leaves a    *)
(* file that load_tokens finds too short and removes.                       *)
TearFile == \E k \in Keys :
  /\ StartAgain /\ Storing(k) /\ Fails
  /\ file' = [file EXCEPT ![k] = None] /\ UNCHANGED keyring
  /\ forgotten' = (forgotten \/ (file[k] # None /\ \A j \in Keys : Load(j)' = None))

StepRestore(from, to) ==
  /\ restore = from /\ restore' = to
  /\ UNCHANGED <<provider, config, degraded, request, signIn, signOut, restarts, history>>

Use(n) == tokens' = n /\ accountId' = config /\ authenticated' = TRUE

RestoreLoad ==
  /\ StepRestore("loading", "done") /\ Load(config) # None /\ Use(Load(config))
  /\ UNCHANGED <<storage, failures>>

(* Nothing to restore: the wizard opens.                                    *)
RestoreNothing ==
  /\ StepRestore("loading", "done")
  /\ Load(config) = None /\ Load(Client) = None
  /\ UNCHANGED <<memory, storage, authenticated, failures>>

RestoreMigrate ==
  /\ restore = "loading" /\ Load(config) = None /\ Load(Client) # None
  /\ \/ Store(config, Load(Client)) /\ StepRestore("loading", "deleting")
     \/ StoreFails /\ StepRestore("loading", "done")
  /\ UNCHANGED <<memory, authenticated>>

RestoreDelete ==
  /\ StepRestore("deleting", "done") /\ Use(Load(config)) /\ Delete(Client)

-----------------------------------------------------------------------------
RequestStep(r) ==
  AccessToken(r) \/ Refreshed(r) \/ RefreshLost(r) \/ RefreshRefused(r) \/ RefreshKey(r) \/ RefreshStore(r)
SignInStep ==
  Exchange \/ ExchangeStore \/ DriveFound \/ DriveFails \/ MigrateStore \/ MigrateDelete \/ SaveAccount
SignOutStep == ClearTokens \/ ForgetAccount
RestoreStep == RestoreLoad \/ RestoreNothing \/ RestoreMigrate \/ RestoreDelete

Next ==
  \/ Expire \/ Withdraw \/ Restart \/ TearFile
  \/ \E r \in Requests : RequestStep(r)
  \/ StartSignIn \/ CancelSignIn \/ SignInStep
  \/ StartSignOut \/ SignOutStep \/ RestoreStep

(* Tokens expire, the provider answers, and the delta loop goes on.         *)
Fairness ==
  /\ WF_vars(Expire) /\ WF_vars(RequestStep(DeltaLoop))
  /\ WF_vars(SignOutStep) /\ WF_vars(RestoreStep)

Spec == Init /\ [][Next]_vars
LiveSpec == Spec /\ Fairness

-----------------------------------------------------------------------------
(* Properties.                                                              *)

(* As long as an account is configured and nobody has signed out, a start   *)
(* finds its tokens, however the migration between keys was cut off,        *)
(* whatever storage failed and whatever requests refreshed in between,      *)
(* unless a crash has emptied the file that held the only copy.             *)
RestartFindsTokens ==
  config # NoAccount /\ ~forgotten =>
    Load(config) # None \/ Load(Client) # None

(* A session the provider has ended does not go unnoticed: the user is told *)
(* to sign in again, or has signed out or restarted.                        *)
EndIsAnnounced ==
  (authenticated /\ tokens \in refused) ~> (degraded \/ ~authenticated \/ tokens \notin refused)
=============================================================================
