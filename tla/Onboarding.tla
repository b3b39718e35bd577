----------------------------- MODULE Onboarding -----------------------------
(***************************************************************************)
(* The onboarding of an Alpaca account: backend/app/onboarding.py and its  *)
(* router.  connect, retry and restart are requests, each one transaction; *)
(* the pipeline walks through STEP_CODES, skips what is COMPLETED, stops   *)
(* at the first step that fails, and is committed as a whole.              *)
(*                                                                         *)
(* The rows are ORM objects: a request works on the values it has loaded,  *)
(* and an UPDATE carries only the columns it has changed from them.  A row *)
(* updated and not committed is locked.  Requests of one session follow    *)
(* each other (the row of the session), those of two sessions interleave.  *)
(***************************************************************************)
EXTENDS Naturals, Sequences, FiniteSets

CONSTANTS
  Sessions,    \* logins of the user that send requests
  Keys,        \* the pairs of Alpaca keys a user may submit
  GoodKeys,    \* those Alpaca accepts
  None,        \* no key, no account
  STEP_CODES,  \* the steps of the pipeline, in their order
  Keyed,       \* the steps that call Alpaca with the stored keys
  Checked,     \* those that look at the configuration of the server
  Writing,     \* those that write the row of the account
  MaxRequests  \* bound of the model: requests of the user

First == STEP_CODES[1]
Codes == {STEP_CODES[i] : i \in DOMAIN STEP_CODES}

ASSUME OnboardingAssumption ==
  /\ STEP_CODES # <<>> /\ Keyed \subseteq Codes \ {First}
  /\ Checked \subseteq Codes \ (Keyed \cup {First}) /\ Writing \subseteq Codes
  /\ {"key", "status"} \cap Codes = {}
  /\ \A i, j \in DOMAIN STEP_CODES : STEP_CODES[i] = STEP_CODES[j] => i = j
  /\ GoodKeys \subseteq Keys /\ None \notin Keys
  /\ MaxRequests \in Nat

VARIABLES
  account,    \* account[s]: the committed account that s created, or None
  request,    \* request[s]: what the transaction of session s is doing
  accepted,   \* the keys Alpaca has accepted so far
  overlapped, \* two requests have been in progress at the same time
  begun       \* how many requests have begun

vars == <<account, request, accepted, overlapped, begun>>
-----------------------------------------------------------------------------
(* user_trading_accounts with its onboarding_steps; the key under which a  *)
(* step was last completed is kept beside it for the properties.           *)
Blank == [key |-> None, status |-> "pending",
          step |-> [c \in Codes |-> "PENDING"],
          with |-> [c \in Codes |-> None]]

Idle == [op |-> "none", id |-> None, key |-> None, row |-> Blank,
         changed |-> {}, locked |-> {}, over |-> FALSE]

Stored == {s \in Sessions : account[s] # None}

(* scalar_one_or_none: no unique constraint forbids a second account, and  *)
(* every request fails (500) once there are two.                           *)
Accessible == Cardinality(Stored) <= 1

(* The rows of the database: one per step, and that of the account.        *)
RowOf(field) == IF field \in Codes THEN field ELSE "account"

(* No other transaction has updated the row.                               *)
Free(s, rows) ==
  \A t \in Sessions \ {s} :
    request[t].id = request[s].id => request[t].locked \cap rows = {}

Columns(row) == [f \in Codes \cup {"key", "status"} |->
                   IF f \in Codes THEN <<row.step[f]>> ELSE <<row[f]>>]

(* The columns an UPDATE carries: those that differ from what was loaded.  *)
Differing(old, new) ==
  {f \in DOMAIN Columns(old) : Columns(old)[f] # Columns(new)[f]}

(* Mutant: the failed step is where the pipeline goes on next time.        *)
RemainingAfterFailure(row) ==
  {i \in DOMAIN STEP_CODES : row.step[STEP_CODES[i]] = "PENDING"}

(* run_pipeline skips the steps that are COMPLETED.                        *)
Remaining(row) ==
  {i \in DOMAIN STEP_CODES : row.step[STEP_CODES[i]] # "COMPLETED"}

(* The first of them is the next.                                          *)
Earliest(row, code) ==
  \E i \in Remaining(row) : code = STEP_CODES[i] /\ \A j \in Remaining(row) : i <= j
-----------------------------------------------------------------------------
Init ==
  /\ account = [s \in Sessions |-> None]
  /\ request = [s \in Sessions |-> Idle]
  /\ accepted = {}
  /\ overlapped = FALSE
  /\ begun = 0

(* A request begins and loads the account; get_or_create_account makes a   *)
(* new one when it sees none.                                              *)
Begin(s, r) ==
  /\ request[s] = Idle
  /\ begun < MaxRequests
  /\ Accessible
  /\ begun' = begun + 1
  /\ overlapped' = (overlapped \/ \E t \in Sessions : request[t] # Idle)
  /\ request' = [request EXCEPT ![s] = r]
  /\ UNCHANGED <<account, accepted>>

Loaded == IF Stored = {} THEN Blank
          ELSE account[CHOOSE s \in Stored : TRUE]

IdOf(s) == IF Stored = {} THEN s ELSE CHOOSE t \in Stored : TRUE

(* POST /api/onboarding/connect, and /retry, which brings no keys.         *)
Connect(s, k) ==
  Begin(s, [Idle EXCEPT !.op = "run", !.id = IdOf(s), !.key = k,
                        !.row = Loaded])

(* Mutant: only the first step is taken back.                              *)
ResetFirst(row) == [row EXCEPT !.key = None, !.status = "pending",
                               !.step[First] = "PENDING"]

(* reset_pipeline: everything PENDING, the keys erased.                    *)
Reset(row) == [Blank EXCEPT !.with = row.with]

(* POST /api/onboarding/restart: nothing to do without an account.         *)
Restart(s) ==
  /\ Stored # {}
  /\ Begin(s, [Idle EXCEPT !.op = "restart", !.id = IdOf(s),
                 !.row = Reset(Loaded), !.over = TRUE,
                 !.changed = Differing(Loaded, Reset(Loaded))])

(* The next step of the pipeline, with what its flush locks: its own row,  *)
(* and that of the account for a step that writes there.                   *)
Pipeline(s, code) ==
  /\ request[s].op = "run"
  /\ ~request[s].over
  /\ Earliest(request[s].row, code)

Touches(code) ==
  IF code \in Writing THEN {code, "account"} ELSE {code}

(* The keys a step calls Alpaca with: those submitted, or those stored.    *)
KeyFor(s, code) == IF code = First THEN request[s].key ELSE request[s].row.key

(* Mutant: the keys are stored before Alpaca has been asked.               *)
FailStepKeepingKeys(s, code) ==
  LET r == request[s] IN
  /\ Pipeline(s, code)
  /\ code \in Keyed \cup {First}
  /\ Free(s, {code})
  /\ request' = [request EXCEPT ![s] =
       [r EXCEPT !.row = [r.row EXCEPT !.step[code] = "FAILED", !.status = "failed",
                                       !.key = IF code = First THEN r.key ELSE @],
                 !.locked = @ \cup {code}, !.over = TRUE,
                 !.changed = @ \cup {code, "key"} \cup
                   (IF r.row.status = "failed" THEN {} ELSE {"status"})]]
  /\ UNCHANGED <<account, accepted, overlapped, begun>>

(* OnboardingStepFailed: keys missing or refused, Alpaca out of reach, or  *)
(* a configuration that does not point to Paper.  The pipeline stops there *)
(* and the account is failed.                                              *)
FailStep(s, code) ==
  LET r == request[s] IN
  /\ Pipeline(s, code)
  /\ code \in Keyed \cup Checked \cup {First}
  /\ Free(s, {code})
  /\ code \in Keyed => r.row.key # None
  /\ request' = [request EXCEPT ![s] =
       [r EXCEPT !.row = [r.row EXCEPT !.step[code] = "FAILED", !.status = "failed"],
                 !.locked = @ \cup {code}, !.over = TRUE,
                 !.changed = @ \cup {code} \cup
                   (IF r.row.status = "failed" THEN {} ELSE {"status"})]]
  /\ UNCHANGED <<account, accepted, overlapped, begun>>

(* The step succeeds; credentials_validated stores the keys it has tried.  *)
(* decrypt_secret raises (500) when the account has none.                  *)
CompleteStep(s, code) ==
  LET r == request[s]
      key == KeyFor(s, code)
      calls == code \in Keyed \cup {First} IN
  /\ Pipeline(s, code)
  /\ Free(s, Touches(code))
  /\ calls => key \in GoodKeys
  /\ request' = [request EXCEPT ![s] =
       [r EXCEPT !.row = [r.row EXCEPT !.step[code] = "COMPLETED",
                                       !.with[code] = IF calls THEN key ELSE None,
                                       !.key = IF code = First THEN key ELSE @],
                 !.locked = @ \cup Touches(code),
                 !.changed = @ \cup {code} \cup (IF code = First THEN {"key"} ELSE {})]]
  /\ accepted' = IF calls THEN accepted \cup {key} ELSE accepted
  /\ UNCHANGED <<account, overlapped, begun>>

(* Every step is COMPLETED: the account is connected.                      *)
Finish(s) ==
  LET r == request[s] IN
  /\ r.op = "run" /\ ~r.over
  /\ Remaining(r.row) = {}
  /\ request' = [request EXCEPT ![s] =
       [r EXCEPT !.row = [r.row EXCEPT !.status = "connected"], !.over = TRUE,
                 !.changed = IF r.row.status = "connected" THEN @ ELSE @ \cup {"status"}]]
  /\ UNCHANGED <<account, accepted, overlapped, begun>>

(* The committed row with the changed columns of the request.              *)
Merged(row, r) ==
  [key    |-> IF "key" \in r.changed THEN r.row.key ELSE row.key,
   status |-> IF "status" \in r.changed THEN r.row.status ELSE row.status,
   step   |-> [c \in Codes |-> IF c \in r.changed THEN r.row.step[c]
                               ELSE row.step[c]],
   with   |-> [c \in Codes |-> IF c \in r.changed THEN r.row.with[c]
                               ELSE row.with[c]]]

(* The last flush waits for the rows it updates; then COMMIT.              *)
Commit(s) ==
  LET r == request[s] IN
  /\ r.over
  /\ Free(s, {RowOf(f) : f \in r.changed})
  /\ account' = [account EXCEPT ![r.id] =
                   IF @ = None THEN r.row ELSE Merged(@, r)]
  /\ request' = [request EXCEPT ![s] = Idle]
  /\ UNCHANGED <<accepted, overlapped, begun>>

(* An exception nobody expects, or a deadlock PostgreSQL breaks: ROLLBACK. *)
Rollback(s) ==
  /\ request[s] # Idle
  /\ request' = [request EXCEPT ![s] = Idle]
  /\ UNCHANGED <<account, accepted, overlapped, begun>>

Next ==
  \E s \in Sessions :
    \/ \E k \in Keys \cup {None} : Connect(s, k)
    \/ Restart(s)
    \/ \E code \in Codes : FailStep(s, code) \/ CompleteStep(s, code)
    \/ Finish(s)
    \/ Commit(s)
    \/ Rollback(s)

Spec == Init /\ [][Next]_vars
-----------------------------------------------------------------------------
Accounts == {account[s] : s \in Stored}

Completed(row) == {i \in DOMAIN STEP_CODES : row.step[STEP_CODES[i]] = "COMPLETED"}

(* The types.                                                              *)
RowType ==
  [key : Keys \cup {None}, status : {"pending", "failed", "connected"},
   step : [Codes -> {"PENDING", "FAILED", "COMPLETED"}],
   with : [Codes -> Keys \cup {None}]]

RequestType ==
  [op : {"none", "run", "restart"}, id : Sessions \cup {None},
   key : Keys \cup {None}, row : RowType,
   changed : SUBSET (Codes \cup {"key", "status"}),
   locked : SUBSET (Codes \cup {"account"}), over : BOOLEAN]

TypeOK ==
  /\ account \in [Sessions -> RowType \cup {None}]
  /\ request \in [Sessions -> RequestType]
  /\ accepted \subseteq Keys
  /\ overlapped \in BOOLEAN
  /\ begun \in Nat

(* No keys are stored that Alpaca has refused or never seen, whichever     *)
(* requests cross (onboarding.py: the keys are assigned after get_account).*)
KeysWereAccepted ==
  \A row \in Accounts : row.key # None => row.key \in accepted

(* A step is done only when the steps before it are, as long as no two     *)
(* requests have overlapped (onboarding.py: run_pipeline returns at the    *)
(* first failure; reset_pipeline resets every step).                       *)
CompletedIsPrefix ==
  overlapped \/ \A row \in Accounts : \A i \in Completed(row) :
                  \A j \in 1..i : j \in Completed(row)

(* A connected account has every step done, each with the keys it stores:  *)
(* neither a failure, nor other keys, nor a restart leaves a mixture, as   *)
(* long as no two requests have overlapped (run_pipeline, reset_pipeline). *)
ConnectedIsCurrent ==
  overlapped \/ \A row \in Accounts :
    row.status = "connected" =>
      /\ row.key # None
      /\ \A c \in Codes : row.step[c] = "COMPLETED"
      /\ \A c \in Keyed \cup {First} : row.with[c] = row.key

=============================================================================
