--------------------------- MODULE AccountProofs ----------------------------
(***************************************************************************)
(* The credentials of the paper accounts: how requests come to store them  *)
(* (Onboarding) and what the market agent does with those that are stored  *)
(* (MarketFeed).                                                           *)
(***************************************************************************)
EXTENDS Onboarding, MarketFeed, TLAPS

(***************************************************************************)
(* Onboarding.  Keys reach the account only after Alpaca has accepted      *)
(* them, whatever requests overlap.  A COMMIT merges the columns a request *)
(* has changed into a row another request has written since, so the        *)
(* invariant covers both: the rows of the database and the copies requests *)
(* work on.  While no requests overlap a copy is all a COMMIT writes, and  *)
(* the steps are completed in order.                                       *)
(***************************************************************************)

StoredAccepted ==
  \A s \in Sessions : account[s] # None => account[s].key \in accepted \cup {None}

LoadedAccepted ==
  \A s \in Sessions : request[s].row.key \in accepted \cup {None}

IInv == TypeOK /\ StoredAccepted /\ LoadedAccepted

-----------------------------------------------------------------------------
LEMMA FirstIsCode == First \in Codes
<1>1. 1 \in DOMAIN STEP_CODES
  BY OnboardingAssumption
<1>2. QED BY <1>1 DEF First, Codes

LEMMA BlankIsRow == Blank \in RowType
BY DEF Blank, RowType

LEMMA IdleIsRequest == Idle \in RequestType /\ Idle.row.key = None
<1>1. Idle \in RequestType
  BY BlankIsRow DEF Idle, RequestType
<1>2. QED BY <1>1 DEF Idle, Blank

LEMMA InitEstablishes == Init => IInv
<1> SUFFICES ASSUME Init PROVE IInv
  OBVIOUS
<1>1. TypeOK
  BY IdleIsRequest DEF Init, TypeOK
<1>2. QED BY <1>1, IdleIsRequest DEF Init, IInv, StoredAccepted, LoadedAccepted

\* What a request loads is the blank row or one of the database.
LEMMA LoadedIsRow ==
  ASSUME IInv
  PROVE  Loaded \in RowType /\ Loaded.key \in accepted \cup {None}
<1>1. CASE Stored = {}
  BY <1>1, BlankIsRow DEF Loaded, Blank
<1>2. CASE Stored # {}
  <2>1. PICK s : s = CHOOSE t \in Stored : TRUE
    OBVIOUS
  <2>2. s \in Sessions /\ account[s] # None
    BY <1>2, <2>1 DEF Stored
  <2>3. QED BY <1>2, <2>1, <2>2 DEF Loaded, IInv, TypeOK, StoredAccepted
<1>3. QED BY <1>1, <1>2

LEMMA IdIsSession ==
  ASSUME NEW s \in Sessions
  PROVE  IdOf(s) \in Sessions
<1>1. CASE Stored = {}
  BY <1>1 DEF IdOf
<1>2. CASE Stored # {}
  <2>1. (CHOOSE t \in Stored : TRUE) \in Stored
    BY <1>2
  <2>2. QED BY <1>2, <2>1 DEF IdOf, Stored
<1>3. QED BY <1>1, <1>2

\* A request that begins has a copy with keys Alpaca has accepted.
LEMMA BeginPreserves ==
  ASSUME IInv, NEW s \in Sessions, NEW r \in RequestType, Begin(s, r),
         r.row.key \in accepted \cup {None}
  PROVE  IInv'
<1>1. TypeOK'
  BY DEF IInv, Begin, TypeOK
<1>2. StoredAccepted'
  BY DEF IInv, Begin, StoredAccepted
<1>3. LoadedAccepted'
  BY DEF IInv, Begin, TypeOK, LoadedAccepted
<1>4. QED BY <1>1, <1>2, <1>3 DEF IInv

\* A step of the pipeline replaces the copy of its request, and Alpaca may have
\* accepted more keys.
LEMMA PipelinePreserves ==
  ASSUME IInv, NEW s \in Sessions, NEW r \in RequestType,
         request' = [request EXCEPT ![s] = r],
         accepted \subseteq accepted', accepted' \subseteq Keys,
         r.row.key \in accepted' \cup {None},
         UNCHANGED <<account, overlapped, begun>>
  PROVE  IInv'
<1>1. TypeOK'
  BY DEF IInv, TypeOK
<1>2. StoredAccepted'
  BY DEF IInv, StoredAccepted
<1>3. LoadedAccepted'
  BY DEF IInv, TypeOK, LoadedAccepted
<1>4. QED BY <1>1, <1>2, <1>3 DEF IInv

LEMMA ConnectPreserves ==
  ASSUME IInv, NEW s \in Sessions, NEW k \in Keys \cup {None}, Connect(s, k)
  PROVE  IInv'
<1> DEFINE r == [Idle EXCEPT !.op = "run", !.id = IdOf(s), !.key = k, !.row = Loaded]
<1>1. r \in RequestType
  BY IdleIsRequest, LoadedIsRow, IdIsSession DEF RequestType
<1>2. r.row = Loaded
  BY IdleIsRequest DEF RequestType
<1>3. Begin(s, r)
  BY DEF Connect
<1>4. QED BY <1>1, <1>2, <1>3, LoadedIsRow, BeginPreserves

LEMMA ResetIsBlank ==
  ASSUME NEW row \in RowType
  PROVE  Reset(row) \in RowType /\ Reset(row).key = None
<1>1. Reset(row) \in RowType
  BY BlankIsRow DEF Reset, RowType
<1>2. Reset(row).key = None
  BY DEF Reset, Blank
<1>3. QED BY <1>1, <1>2

LEMMA RestartPreserves ==
  ASSUME IInv, NEW s \in Sessions, Restart(s)
  PROVE  IInv'
<1> DEFINE r == [Idle EXCEPT !.op = "restart", !.id = IdOf(s),
                   !.row = Reset(Loaded), !.over = TRUE,
                   !.changed = Differing(Loaded, Reset(Loaded))]
<1>1. Differing(Loaded, Reset(Loaded)) \subseteq Codes \cup {"key", "status"}
  BY DEF Differing, Columns
<1>2. r \in RequestType
  BY <1>1, IdleIsRequest, LoadedIsRow, ResetIsBlank, IdIsSession DEF RequestType
<1>3. r.row = Reset(Loaded)
  BY IdleIsRequest DEF RequestType
<1>4. Begin(s, r)
  BY DEF Restart
<1>5. r.row.key = None
  BY <1>3, LoadedIsRow, ResetIsBlank
<1> HIDE DEF r
<1>6. QED BY <1>2, <1>4, <1>5, BeginPreserves

LEMMA FailStepPreserves ==
  ASSUME IInv, NEW s \in Sessions, NEW code \in Codes, FailStep(s, code)
  PROVE  IInv'
<1> DEFINE row == [request[s].row EXCEPT !.step[code] = "FAILED", !.status = "failed"]
           r == [request[s] EXCEPT
                   !.row = row, !.locked = @ \cup {code}, !.over = TRUE,
                   !.changed = @ \cup {code} \cup
                     (IF request[s].row.status = "failed" THEN {} ELSE {"status"})]
<1>1. request[s] \in RequestType /\ request[s].row \in RowType
  BY DEF IInv, TypeOK, RequestType
<1>2. row \in RowType /\ row.key = request[s].row.key
  BY <1>1 DEF RowType
<1>3. request' = [request EXCEPT ![s] = r]
  BY DEF FailStep
<1> HIDE DEF row
<1>4. r \in RequestType /\ r.row = row
  BY <1>1, <1>2 DEF RequestType
<1>5. /\ r.row.key \in accepted' \cup {None}
      /\ accepted' = accepted /\ accepted \subseteq Keys
      /\ UNCHANGED <<account, overlapped, begun>>
  BY <1>2, <1>4 DEF FailStep, IInv, LoadedAccepted, TypeOK
<1> HIDE DEF r
<1>6. QED BY <1>3, <1>4, <1>5, PipelinePreserves

LEMMA CompleteStepPreserves ==
  ASSUME IInv, NEW s \in Sessions, NEW code \in Codes, CompleteStep(s, code)
  PROVE  IInv'
<1> DEFINE key == KeyFor(s, code)
           calls == code \in Keyed \cup {First}
           row == [request[s].row EXCEPT !.step[code] = "COMPLETED",
                                         !.with[code] = IF calls THEN key ELSE None,
                                         !.key = IF code = First THEN key ELSE @]
           r == [request[s] EXCEPT
                   !.row = row, !.locked = @ \cup Touches(code),
                   !.changed = @ \cup {code} \cup (IF code = First THEN {"key"} ELSE {})]
<1>1. request[s] \in RequestType /\ request[s].row \in RowType
  BY DEF IInv, TypeOK, RequestType
<1>2. key \in Keys \cup {None}
  BY <1>1 DEF KeyFor, RequestType, RowType
<1>3. Touches(code) \subseteq Codes \cup {"account"}
  BY DEF Touches
<1>4. /\ row \in RowType
      /\ row.key = IF code = First THEN key ELSE request[s].row.key
  BY <1>1, <1>2 DEF RowType
<1>5. request' = [request EXCEPT ![s] = r]
  BY DEF CompleteStep
<1> HIDE DEF row
<1>6. /\ r \in RequestType
      /\ r.row = row
  BY <1>1, <1>3, <1>4 DEF RequestType
<1>7. /\ accepted' = IF calls THEN accepted \cup {key} ELSE accepted
      /\ calls => key \in Keys
  BY OnboardingAssumption DEF CompleteStep
<1>8. r.row.key \in accepted' \cup {None}
  BY <1>4, <1>6, <1>7 DEF IInv, LoadedAccepted
<1>9. /\ UNCHANGED <<account, overlapped, begun>>
      /\ accepted \subseteq accepted' /\ accepted' \subseteq Keys
  BY <1>7 DEF CompleteStep, IInv, TypeOK
<1> HIDE DEF r
<1>10. QED BY <1>5, <1>6, <1>8, <1>9, PipelinePreserves

LEMMA FinishPreserves ==
  ASSUME IInv, NEW s \in Sessions, Finish(s)
  PROVE  IInv'
<1> DEFINE r == [request[s] EXCEPT
       !.row = [request[s].row EXCEPT !.status = "connected"], !.over = TRUE,
       !.changed = IF request[s].row.status = "connected" THEN @ ELSE @ \cup {"status"}]
<1>1. request[s] \in RequestType /\ request[s].row \in RowType
  BY DEF IInv, TypeOK, RequestType
<1>2. r \in RequestType
  BY <1>1 DEF RequestType, RowType
<1>3. r.row.key = request[s].row.key
  BY <1>1 DEF RequestType, RowType
<1>4. request' = [request EXCEPT ![s] = r]
  BY <1>1 DEF Finish, IInv, TypeOK
<1>5. /\ r.row.key \in accepted' \cup {None}
      /\ accepted' = accepted /\ accepted \subseteq Keys
      /\ UNCHANGED <<account, overlapped, begun>>
  BY <1>3 DEF Finish, IInv, LoadedAccepted, TypeOK
<1> HIDE DEF r
<1>6. QED BY <1>2, <1>4, <1>5, PipelinePreserves

\* The columns of a COMMIT come from a copy or from the row that is there.
LEMMA MergedIsRow ==
  ASSUME NEW row \in RowType, NEW r \in RequestType
  PROVE  /\ Merged(row, r) \in RowType
         /\ Merged(row, r).key \in {row.key, r.row.key}
<1>1. r.row \in RowType
  BY DEF RequestType
<1>2. QED BY <1>1 DEF Merged, RowType

LEMMA CommitPreserves ==
  ASSUME IInv, NEW s \in Sessions, Commit(s)
  PROVE  IInv'
<1>1. request[s] \in RequestType /\ request[s].row \in RowType
  BY DEF IInv, TypeOK, RequestType
<1>2. ASSUME NEW t \in Sessions
      PROVE  /\ account'[t] \in RowType \cup {None}
             /\ account'[t] # None => account'[t].key \in accepted \cup {None}
  <2>1. CASE t = request[s].id /\ account[t] = None
    BY <1>1, <2>1 DEF Commit, IInv, TypeOK, LoadedAccepted
  <2>2. CASE t = request[s].id /\ account[t] # None
    <3>1. account[t] \in RowType /\ account[t].key \in accepted \cup {None}
      BY <2>2 DEF IInv, TypeOK, StoredAccepted
    <3>2. account'[t] = Merged(account[t], request[s])
      BY <2>2 DEF Commit, IInv, TypeOK
    <3>3. QED
      BY <1>1, <3>1, <3>2, MergedIsRow DEF IInv, LoadedAccepted
  <2>3. CASE t # request[s].id
    BY <2>3 DEF Commit, IInv, TypeOK, StoredAccepted
  <2>4. QED BY <2>1, <2>2, <2>3
<1>3. account' \in [Sessions -> RowType \cup {None}]
  BY <1>2 DEF Commit, IInv, TypeOK
<1>4. TypeOK'
  BY <1>3, IdleIsRequest DEF Commit, IInv, TypeOK
<1>5. StoredAccepted'
  BY <1>2 DEF Commit, StoredAccepted
<1>6. LoadedAccepted'
  BY IdleIsRequest DEF Commit, IInv, TypeOK, LoadedAccepted
<1>7. QED BY <1>4, <1>5, <1>6 DEF IInv

LEMMA RollbackPreserves ==
  ASSUME IInv, NEW s \in Sessions, Rollback(s)
  PROVE  IInv'
BY IdleIsRequest, PipelinePreserves DEF Rollback, IInv, TypeOK

LEMMA NextPreserves == IInv /\ [Next]_vars => IInv'
<1> SUFFICES ASSUME IInv, [Next]_vars PROVE IInv'
  OBVIOUS
<1>1. CASE Next
  <2>1. PICK s \in Sessions :
          \/ \E k \in Keys \cup {None} : Connect(s, k)
          \/ Restart(s)
          \/ \E code \in Codes : FailStep(s, code) \/ CompleteStep(s, code)
          \/ Finish(s)
          \/ Commit(s)
          \/ Rollback(s)
    BY <1>1 DEF Next
  <2>2. QED
    BY <2>1, ConnectPreserves, RestartPreserves, FailStepPreserves,
       CompleteStepPreserves, FinishPreserves, CommitPreserves, RollbackPreserves
<1>2. CASE UNCHANGED vars
  BY <1>2 DEF vars, IInv, TypeOK, StoredAccepted, LoadedAccepted
<1>3. QED BY <1>1, <1>2

\* The keys stored for an account were accepted by Alpaca, whichever requests of
\* however many sessions overlap, merge their columns or roll back
\* (onboarding.py, _step_credentials_validated; the ORM's UPDATE of changed columns).
THEOREM StoredKeysWereAccepted == Spec => []KeysWereAccepted
<1>1. IInv => KeysWereAccepted
  BY DEF IInv, StoredAccepted, KeysWereAccepted, Accounts, Stored
<1>2. QED BY <1>1, InitEstablishes, NextPreserves, PTL DEF Spec

\* The rows and the requests keep their types: a COMMIT of some columns over a row
\* another request wrote is a row (onboarding.py, run_pipeline and reset_pipeline).
THEOREM OnboardingTypes == Spec => []TypeOK
<1>1. IInv => TypeOK
  BY DEF IInv
<1>2. QED BY <1>1, InitEstablishes, NextPreserves, PTL DEF Spec

-----------------------------------------------------------------------------
\* Without overlapping requests the copy of the one in progress differs from the row
\* of the database in the columns it has changed and no others, so that its COMMIT
\* writes the copy; and the pipeline keeps a copy sound.
CurrentKeys(row) ==
  \A c \in Keyed \cup {First} :
    row.step[c] = "COMPLETED" => row.with[c] = row.key /\ row.key # None

SoundRow(row) ==
  /\ \A i \in Completed(row) : \A j \in 1 .. i : j \in Completed(row)
  /\ CurrentKeys(row)
  /\ row.status = "connected" => \A c \in Codes : row.step[c] = "COMPLETED"

\* Outside the columns of the request, its copy is the row it has loaded.
Agrees(row, r) ==
  /\ "key" \notin r.changed => r.row.key = row.key
  /\ "status" \notin r.changed => r.row.status = row.status
  /\ \A c \in Codes \ r.changed : r.row.step[c] = row.step[c] /\ r.row.with[c] = row.with[c]

InOrder(r) ==
  /\ SoundRow(r.row)
  /\ account[r.id] # None => Agrees(account[r.id], r)

Alone == \A s, t \in Sessions : request[s] # Idle /\ request[t] # Idle => s = t

Sequential ==
  \/ overlapped
  \/ /\ Alone
     /\ \A s \in Sessions : account[s] # None => SoundRow(account[s])
     /\ \A s \in Sessions : request[s] # Idle => InOrder(request[s])

LEMMA BlankIsSound == SoundRow(Blank)
<1>1. First \in Codes /\ Keyed \subseteq Codes /\ \A i \in DOMAIN STEP_CODES : STEP_CODES[i] \in Codes
  BY FirstIsCode, OnboardingAssumption DEF Codes
<1>2. QED BY <1>1 DEF SoundRow, CurrentKeys, Completed, Blank

LEMMA ResetIsSound ==
  ASSUME NEW row \in RowType
  PROVE  SoundRow(Reset(row)) /\ Reset(row).with = row.with
<1>1. /\ Reset(row).step = [c \in Codes |-> "PENDING"] /\ Reset(row).status = "pending"
      /\ Reset(row).with = row.with
  BY DEF Reset, Blank
<1>2. First \in Codes /\ Keyed \subseteq Codes /\ \A i \in DOMAIN STEP_CODES : STEP_CODES[i] \in Codes
  BY FirstIsCode, OnboardingAssumption DEF Codes
<1>3. QED BY <1>1, <1>2 DEF SoundRow, CurrentKeys, Completed

\* A COMMIT of a request in order writes its copy.
LEMMA MergedIsCopy ==
  ASSUME NEW row \in RowType, NEW r \in RequestType, Agrees(row, r)
  PROVE  Merged(row, r) = r.row
<1> DEFINE m == Merged(row, r)
<1>1. r.row \in RowType /\ m \in RowType
  BY MergedIsRow DEF RequestType
<1>2. m.key = r.row.key /\ m.status = r.row.status
  BY DEF Merged, Agrees
<1>3. m.step = r.row.step
  BY <1>1 DEF Merged, Agrees, RowType
<1>4. m.with = r.row.with
  BY <1>1 DEF Merged, Agrees, RowType
<1> HIDE DEF m
<1>5. m = r.row
  BY <1>1, <1>2, <1>3, <1>4 DEF RowType
<1>6. QED BY <1>5 DEF m

\* The row a request loads is the one of the account it works on.
LEMMA LoadedIsOfId ==
  ASSUME IInv, NEW s \in Sessions
  PROVE  IF Stored = {} THEN account[IdOf(s)] = None /\ Loaded = Blank
                        ELSE account[IdOf(s)] # None /\ Loaded = account[IdOf(s)]
<1>1. CASE Stored = {}
  BY <1>1 DEF IdOf, Loaded, Stored
<1>2. CASE Stored # {}
  <2>1. PICK t : t = CHOOSE x \in Stored : TRUE
    OBVIOUS
  <2>2. t \in Stored
    BY <1>2, <2>1
  <2>3. QED BY <1>2, <2>1, <2>2 DEF IdOf, Loaded, Stored
<1>3. QED BY <1>1, <1>2

LEMMA BeginIsSequential ==
  ASSUME IInv, Sequential, NEW s \in Sessions, NEW r \in RequestType, Begin(s, r),
         ~overlapped' => InOrder(r)
  PROVE  Sequential'
<1> SUFFICES ASSUME ~overlapped' PROVE Sequential'
  BY DEF Sequential
<1>1. /\ ~overlapped /\ \A t \in Sessions : request[t] = Idle
      /\ request' = [request EXCEPT ![s] = r] /\ account' = account
  BY DEF Begin
<1>2. DOMAIN request = Sessions
  BY DEF IInv, TypeOK
<1>3. \A t \in Sessions : request'[t] # Idle => t = s /\ request'[t] = r
  BY <1>1, <1>2
<1>4. QED BY <1>1, <1>3 DEF Sequential, Alone, InOrder

LEMMA StepIsSequential ==
  ASSUME IInv, Sequential, NEW s \in Sessions, NEW r, request[s] # Idle,
         request' = [request EXCEPT ![s] = r], UNCHANGED <<account, overlapped>>,
         InOrder(request[s]) => InOrder(r)
  PROVE  Sequential'
<1>1. DOMAIN request = Sessions
  BY DEF IInv, TypeOK
<1>2. QED BY <1>1 DEF Sequential, Alone, InOrder

LEMMA ConnectIsSequential ==
  ASSUME IInv, Sequential, NEW s \in Sessions, NEW k \in Keys \cup {None}, Connect(s, k)
  PROVE  Sequential'
<1> DEFINE r == [Idle EXCEPT !.op = "run", !.id = IdOf(s), !.key = k, !.row = Loaded]
<1>1. r \in RequestType
  BY IdleIsRequest, LoadedIsRow, IdIsSession DEF RequestType
<1>2. r.row = Loaded /\ r.id = IdOf(s)
  BY IdleIsRequest DEF RequestType
<1>3. Begin(s, r)
  BY DEF Connect
<1> HIDE DEF r
<1>4. ASSUME ~overlapped' PROVE InOrder(r)
  <2>1. \A t \in Sessions : account[t] # None => SoundRow(account[t])
    BY <1>3, <1>4 DEF Begin, Sequential
  <2>2. SoundRow(Loaded)
    BY <2>1, LoadedIsOfId, BlankIsSound, IdIsSession
  <2>3. QED BY <1>2, <2>2, LoadedIsOfId DEF InOrder, Agrees
<1>5. QED BY <1>1, <1>3, <1>4, BeginIsSequential

LEMMA RestartIsSequential ==
  ASSUME IInv, Sequential, NEW s \in Sessions, Restart(s)
  PROVE  Sequential'
<1> DEFINE new == Reset(Loaded)
           r == [Idle EXCEPT !.op = "restart", !.id = IdOf(s),
                   !.row = Reset(Loaded), !.over = TRUE,
                   !.changed = Differing(Loaded, Reset(Loaded))]
<1>1. Differing(Loaded, new) \subseteq Codes \cup {"key", "status"}
  BY DEF Differing, Columns
<1>2. r \in RequestType
  BY <1>1, IdleIsRequest, LoadedIsRow, ResetIsBlank, IdIsSession DEF RequestType
<1>3. r.row = new /\ r.id = IdOf(s) /\ r.changed = Differing(Loaded, new)
  BY IdleIsRequest DEF RequestType
<1>4. Begin(s, r) /\ Loaded = account[IdOf(s)]
  BY LoadedIsOfId DEF Restart
<1>5. SoundRow(new) /\ new.with = Loaded.with
  BY LoadedIsRow, ResetIsSound
<1> HIDE DEF r, new
<1>6. Agrees(Loaded, r)
  <2>1. /\ "key" \notin Codes /\ "status" \notin Codes
    BY OnboardingAssumption
  <2>2. \A f \in Codes \cup {"key", "status"} :
          f \notin r.changed => Columns(Loaded)[f] = Columns(new)[f]
    BY <1>3 DEF Differing, Columns
  <2>3. "key" \notin r.changed => <<Loaded["key"]>> = <<new["key"]>>
    BY <2>1, <2>2 DEF Columns
  <2>4. "status" \notin r.changed => <<Loaded["status"]>> = <<new["status"]>>
    BY <2>1, <2>2 DEF Columns
  <2>5. \A c \in Codes \ r.changed : <<Loaded.step[c]>> = <<new.step[c]>>
    BY <2>2 DEF Columns
  <2>6. QED BY <1>3, <1>5, <2>3, <2>4, <2>5 DEF Agrees
<1>7. InOrder(r)
  BY <1>3, <1>4, <1>5, <1>6 DEF InOrder
<1>8. QED BY <1>2, <1>4, <1>7, BeginIsSequential

\* A step that is not completed and fails leaves a copy sound, and so does completing
\* the first one that remains.
LEMMA FailureIsSound ==
  ASSUME NEW row \in RowType, SoundRow(row), NEW code \in Codes, Earliest(row, code)
  PROVE  SoundRow([row EXCEPT !.step[code] = "FAILED", !.status = "failed"])
<1> DEFINE new == [row EXCEPT !.step[code] = "FAILED", !.status = "failed"]
<1>1. /\ new.step = [row.step EXCEPT ![code] = "FAILED"]
      /\ new.key = row.key /\ new.with = row.with /\ new.status = "failed"
  BY DEF RowType
<1>2. row.step[code] # "COMPLETED" /\ row.step \in [Codes -> {"PENDING", "FAILED", "COMPLETED"}]
  BY DEF Earliest, Remaining, RowType
<1>3. \A c \in Codes : new.step[c] = "COMPLETED" <=> row.step[c] = "COMPLETED"
  BY <1>1, <1>2
<1>4. Completed(new) = Completed(row)
  BY <1>3 DEF Completed, Codes
<1>5. First \in Codes /\ Keyed \subseteq Codes
  BY FirstIsCode, OnboardingAssumption
<1> HIDE DEF new
<1>6. SoundRow(new)
  BY <1>1, <1>3, <1>4, <1>5 DEF SoundRow, CurrentKeys
<1>7. QED BY <1>6 DEF new

LEMMA CompletionIsSound ==
  ASSUME NEW row \in RowType, SoundRow(row), NEW code \in Codes, Earliest(row, code),
         NEW key \in Keys \cup {None}, code \in Keyed \cup {First} => key \in Keys,
         code # First => key = row.key,
         NEW new \in RowType,
         new.step = [row.step EXCEPT ![code] = "COMPLETED"],
         new.with = [row.with EXCEPT ![code] = IF code \in Keyed \cup {First} THEN key ELSE None],
         new.key = IF code = First THEN key ELSE row.key,
         new.status = row.status
  PROVE  SoundRow(new)
<1>1. PICK i \in DOMAIN STEP_CODES :
        /\ code = STEP_CODES[i] /\ i \in Remaining(row)
        /\ \A j \in Remaining(row) : i <= j
  BY DEF Earliest, Remaining
<1>2. DOMAIN STEP_CODES = 1 .. Len(STEP_CODES) /\ Len(STEP_CODES) \in Nat /\ 1 \in DOMAIN STEP_CODES
  BY OnboardingAssumption
<1>3. /\ row.step \in [Codes -> {"PENDING", "FAILED", "COMPLETED"}]
      /\ row.with \in [Codes -> Keys \cup {None}]
  BY DEF RowType
<1>4. \A c \in Codes : new.step[c] = "COMPLETED" <=> row.step[c] = "COMPLETED" \/ c = code
  BY <1>3
<1>5. \A j \in DOMAIN STEP_CODES : j \in Remaining(row) <=> j \notin Completed(row)
  BY DEF Remaining, Completed
<1>6. \A j \in DOMAIN STEP_CODES : STEP_CODES[j] = code <=> j = i
  BY <1>1, OnboardingAssumption
<1>7. Completed(new) = Completed(row) \cup {i}
  BY <1>1, <1>4, <1>6 DEF Completed, Codes
<1>8. \A j \in 1 .. i : j # i => j \in Completed(row)
  BY <1>1, <1>2, <1>5
<1>9. \A k \in Completed(new) : \A j \in 1 .. k : j \in Completed(new)
  BY <1>7, <1>8 DEF SoundRow
<1>10. CurrentKeys(new)
  <2>1. First \in Codes /\ Keyed \subseteq Codes
    BY FirstIsCode, OnboardingAssumption
  <2>2. CASE code = First
    <3>1. i = 1
      BY <1>2, <1>6, <2>2 DEF First
    <3>2. Completed(row) = {}
      BY <1>1, <1>2, <1>5, <3>1 DEF SoundRow, Completed
    <3>3. \A c \in Codes : row.step[c] # "COMPLETED"
      BY <3>2 DEF Completed, Codes
    <3>4. QED
      BY <1>3, <1>4, <2>1, <2>2, <3>3, OnboardingAssumption DEF CurrentKeys
  <2>3. CASE code # First
    BY <1>3, <1>4, <2>1, <2>3, OnboardingAssumption DEF CurrentKeys, SoundRow
  <2>4. QED BY <2>2, <2>3
<1>11. new.status = "connected" => \A c \in Codes : new.step[c] = "COMPLETED"
  BY <1>4 DEF SoundRow
<1>12. QED BY <1>9, <1>10, <1>11 DEF SoundRow

LEMMA FailStepIsSequential ==
  ASSUME IInv, Sequential, NEW s \in Sessions, NEW code \in Codes, FailStep(s, code)
  PROVE  Sequential'
<1> DEFINE row == [request[s].row EXCEPT !.step[code] = "FAILED", !.status = "failed"]
           r == [request[s] EXCEPT
       !.row = [request[s].row EXCEPT !.step[code] = "FAILED", !.status = "failed"],
       !.locked = @ \cup {code}, !.over = TRUE,
       !.changed = @ \cup {code} \cup
         (IF request[s].row.status = "failed" THEN {} ELSE {"status"})]
<1>1. request[s] \in RequestType /\ request[s].row \in RowType
  BY DEF IInv, TypeOK, RequestType
<1>2. /\ request' = [request EXCEPT ![s] = r]
      /\ request[s].op = "run" /\ Earliest(request[s].row, code)
      /\ UNCHANGED <<account, overlapped>>
  BY DEF FailStep, Pipeline
<1>3. /\ r.row = row /\ r.id = request[s].id
      /\ r.changed = request[s].changed \cup {code} \cup
           (IF request[s].row.status = "failed" THEN {} ELSE {"status"})
  BY <1>1 DEF RequestType
<1>4. /\ row.key = request[s].row.key /\ row.with = request[s].row.with /\ row.status = "failed"
      /\ \A c \in Codes \ {code} : row.step[c] = request[s].row.step[c]
  BY <1>1 DEF RowType
<1>5. request[s] # Idle
  BY <1>2 DEF Idle
<1> HIDE DEF r
<1>6. ASSUME InOrder(request[s]) PROVE InOrder(r)
  <2>1. SoundRow(row)
    BY <1>1, <1>2, <1>6, FailureIsSound DEF InOrder
  <2> HIDE DEF row
  <2>2. account[r.id] # None => Agrees(account[r.id], r)
    BY <1>3, <1>4, <1>6 DEF InOrder, Agrees
  <2>3. QED BY <1>3, <2>1, <2>2 DEF InOrder
<1>7. QED BY <1>2, <1>5, <1>6, StepIsSequential

LEMMA CompleteStepIsSequential ==
  ASSUME IInv, Sequential, NEW s \in Sessions, NEW code \in Codes, CompleteStep(s, code)
  PROVE  Sequential'
<1> DEFINE key == KeyFor(s, code)
           calls == code \in Keyed \cup {First}
           row == [request[s].row EXCEPT !.step[code] = "COMPLETED",
                                         !.with[code] = IF calls THEN key ELSE None,
                                         !.key = IF code = First THEN key ELSE @]
           r == [request[s] EXCEPT
                   !.row = row, !.locked = @ \cup Touches(code),
                   !.changed = @ \cup {code} \cup (IF code = First THEN {"key"} ELSE {})]
<1>1. request[s] \in RequestType /\ request[s].row \in RowType
  BY DEF IInv, TypeOK, RequestType
<1>2. key \in Keys \cup {None} /\ (code # First => key = request[s].row.key)
  BY <1>1 DEF KeyFor, RequestType, RowType
<1>3. /\ request' = [request EXCEPT ![s] = r]
      /\ request[s].op = "run" /\ Earliest(request[s].row, code)
      /\ calls => key \in Keys
      /\ UNCHANGED <<account, overlapped>>
  BY OnboardingAssumption DEF CompleteStep, Pipeline
<1>4. /\ row \in RowType
      /\ row.step = [request[s].row.step EXCEPT ![code] = "COMPLETED"]
      /\ row.with = [request[s].row.with EXCEPT ![code] = IF calls THEN key ELSE None]
      /\ row.key = IF code = First THEN key ELSE request[s].row.key
      /\ row.status = request[s].row.status
  BY <1>1, <1>2 DEF RowType
<1> HIDE DEF row, key
<1>5. /\ r.row = row /\ r.id = request[s].id
      /\ r.changed = request[s].changed \cup {code} \cup (IF code = First THEN {"key"} ELSE {})
  BY <1>1 DEF RequestType
<1>6. request[s] # Idle
  BY <1>3 DEF Idle
<1> HIDE DEF r
<1>7. ASSUME InOrder(request[s]) PROVE InOrder(r)
  <2>1. SoundRow(row)
    BY <1>1, <1>2, <1>3, <1>4, <1>7, CompletionIsSound DEF InOrder
  <2>2. \A c \in Codes \ {code} :
          row.step[c] = request[s].row.step[c] /\ row.with[c] = request[s].row.with[c]
    BY <1>1, <1>4 DEF RowType
  <2>3. account[r.id] # None => Agrees(account[r.id], r)
    BY <1>4, <1>5, <1>7, <2>2 DEF InOrder, Agrees
  <2>4. QED BY <1>5, <2>1, <2>3 DEF InOrder
<1>8. QED BY <1>3, <1>6, <1>7, StepIsSequential

LEMMA FinishIsSequential ==
  ASSUME IInv, Sequential, NEW s \in Sessions, Finish(s)
  PROVE  Sequential'
<1> DEFINE row == [request[s].row EXCEPT !.status = "connected"]
           r == [request[s] EXCEPT
       !.row = row, !.over = TRUE,
       !.changed = IF request[s].row.status = "connected" THEN @ ELSE @ \cup {"status"}]
<1>1. request[s] \in RequestType /\ request[s].row \in RowType
  BY DEF IInv, TypeOK, RequestType
<1>2. /\ request' = [request EXCEPT ![s] = r]
      /\ request[s].op = "run" /\ Remaining(request[s].row) = {}
      /\ UNCHANGED <<account, overlapped>>
  BY DEF Finish
<1>3. /\ row.key = request[s].row.key /\ row.with = request[s].row.with
      /\ row.step = request[s].row.step /\ row.status = "connected"
  BY <1>1 DEF RowType
<1>4. /\ r.row = row /\ r.id = request[s].id
      /\ r.changed = IF request[s].row.status = "connected" THEN request[s].changed
                     ELSE request[s].changed \cup {"status"}
  BY <1>1 DEF RequestType
<1>5. \A c \in Codes : row.step[c] = "COMPLETED"
  BY <1>2, <1>3 DEF Remaining, Codes
<1>6. request[s] # Idle
  BY <1>2 DEF Idle
<1> HIDE DEF r, row
<1>7. ASSUME InOrder(request[s]) PROVE InOrder(r)
  BY <1>3, <1>4, <1>5, <1>7 DEF InOrder, SoundRow, CurrentKeys, Completed, Agrees
<1>8. QED BY <1>2, <1>6, <1>7, StepIsSequential

LEMMA CommitIsSequential ==
  ASSUME IInv, Sequential, NEW s \in Sessions, Commit(s)
  PROVE  Sequential'
<1> SUFFICES ASSUME ~overlapped PROVE Sequential'
  BY DEF Sequential, Commit
<1>1. request[s] \in RequestType /\ DOMAIN request = Sessions /\ DOMAIN account = Sessions
      /\ \A t \in Sessions : account[t] \in RowType \cup {None}
  BY DEF IInv, TypeOK
<1>2. request[s] # Idle
  BY DEF Commit, Idle
<1>3. InOrder(request[s])
  BY <1>2 DEF Sequential
<1>4. \A t \in Sessions : request'[t] = Idle
  BY <1>1, <1>2 DEF Commit, Sequential, Alone
<1>5. ASSUME NEW t \in Sessions, account'[t] # None
      PROVE  SoundRow(account'[t])
  <2>1. CASE t # request[s].id
    BY <1>1, <1>5, <2>1 DEF Commit, Sequential
  <2>2. CASE t = request[s].id /\ account[t] = None
    BY <1>1, <1>3, <2>2 DEF Commit, InOrder
  <2>3. CASE t = request[s].id /\ account[t] # None
    <3>1. account'[t] = Merged(account[t], request[s])
      BY <1>1, <2>3 DEF Commit
    <3>2. Agrees(account[t], request[s])
      BY <1>3, <2>3 DEF InOrder
    <3>3. QED BY <1>1, <1>3, <2>3, <3>1, <3>2, MergedIsCopy DEF InOrder
  <2>4. QED BY <2>1, <2>2, <2>3
<1>6. QED BY <1>4, <1>5 DEF Sequential, Alone

LEMMA RollbackIsSequential ==
  ASSUME IInv, Sequential, NEW s \in Sessions, Rollback(s)
  PROVE  Sequential'
<1>1. DOMAIN request = Sessions
  BY DEF IInv, TypeOK
<1>2. QED BY <1>1 DEF Rollback, Sequential, Alone, InOrder

LEMMA NextIsSequential == IInv /\ Sequential /\ [Next]_vars => Sequential'
<1> SUFFICES ASSUME IInv, Sequential, [Next]_vars PROVE Sequential'
  OBVIOUS
<1>1. CASE Next
  <2>1. PICK s \in Sessions :
          \/ \E k \in Keys \cup {None} : Connect(s, k)
          \/ Restart(s)
          \/ \E code \in Codes : FailStep(s, code) \/ CompleteStep(s, code)
          \/ Finish(s)
          \/ Commit(s)
          \/ Rollback(s)
    BY <1>1 DEF Next
  <2>2. QED
    BY <2>1, ConnectIsSequential, RestartIsSequential, FailStepIsSequential,
       CompleteStepIsSequential, FinishIsSequential, CommitIsSequential, RollbackIsSequential
<1>2. CASE UNCHANGED vars
  BY <1>2 DEF vars, Sequential, Alone, InOrder
<1>3. QED BY <1>1, <1>2

LEMMA SequentialAlways == Spec => []Sequential
<1>1. Init => Sequential
  BY DEF Init, Sequential, Alone
<1>2. QED BY <1>1, InitEstablishes, NextPreserves, NextIsSequential, PTL DEF Spec

\* As long as no requests overlap, steps are completed in the order of the pipeline,
\* for any list of steps (onboarding.py, run_pipeline and reset_pipeline).
THEOREM StepsInOrder == Spec => []CompletedIsPrefix
<1>1. Sequential => CompletedIsPrefix
  BY DEF Sequential, CompletedIsPrefix, SoundRow, Accounts, Stored
<1>2. QED BY <1>1, SequentialAlways, PTL

\* As long as no requests overlap, a connected account has completed every step with
\* the keys it stores (onboarding.py, run_pipeline and reset_pipeline).
THEOREM ConnectedWithOwnKeys == Spec => []ConnectedIsCurrent
<1>1. First \in Codes /\ Keyed \subseteq Codes
  BY FirstIsCode, OnboardingAssumption
<1>2. Sequential => ConnectedIsCurrent
  BY <1>1 DEF Sequential, ConnectedIsCurrent, SoundRow, CurrentKeys, Accounts, Stored
<1>3. QED BY <1>2, SequentialAlways, PTL

-----------------------------------------------------------------------------
(***************************************************************************)
(* The market agent.  The manager of an account hands its supervisor the   *)
(* credentials, and only the tick touches the managers; the invariant ties *)
(* what a supervisor is to read next to what the tick has written, between *)
(* the two writes of restart() too.                                        *)
(***************************************************************************)

FeedTypeOK ==
  /\ stored \in [PaperAccounts -> Credentials \cup {Nothing}]
  /\ manager \in [PaperAccounts -> Threads \cup {NoThread}]
  /\ known \in [PaperAccounts -> Credentials \cup {Nothing}]
  /\ sup \in [Threads -> Supervisors]
  /\ at \in {"idle", "next", "signal", "report", "gather", "publish", "status", "options"}
  /\ todo \subseteq Visits
  /\ current \in Visits \cup {Nobody}

\* The supervisor of a manager runs, was not told to stop and is of that account alone.
ManagersRun ==
  \A a \in PaperAccounts :
    manager[a] # NoThread =>
      /\ Session(a).phase # "ended" /\ ~Session(a).stop
      /\ \A b \in PaperAccounts : manager[b] = manager[a] => b = a

\* What a supervisor will read next are the credentials given last, or those being given.
WantedIsGiven ==
  \A a \in PaperAccounts :
    manager[a] # NoThread =>
      Session(a).wanted = IF at = "signal" /\ Visit(a) THEN current.keys ELSE known[a]

FeedInv == FeedTypeOK /\ ManagersRun /\ WantedIsGiven /\ OneSessionPerAccount /\ OldSessionIsTold


-----------------------------------------------------------------------------
LEMMA NoThreadIsNone == NoThread \notin Threads
BY FeedAssumption DEF NoThread

LEMMA EndedIsSupervisor == Ended \in Supervisors /\ Ended.phase = "ended"
BY DEF Ended, Supervisors

LEMMA NobodyIsNoAccount ==
  ASSUME NEW a \in PaperAccounts, current \in Visits \cup {Nobody}, Visit(a)
  PROVE  current \in Visits /\ current.account = a /\ current.keys \in Credentials
BY FeedAssumption DEF Visit, Nobody, Nothing, Visits

LEMMA FeedInitEstablishes == FeedInit => FeedInv
<1> SUFFICES ASSUME FeedInit PROVE FeedInv
  OBVIOUS
<1>1. FeedTypeOK
  BY EndedIsSupervisor DEF FeedInit, FeedTypeOK, Nobody
<1>2. ManagersRun /\ WantedIsGiven /\ OldSessionIsTold
  BY DEF FeedInit, ManagersRun, WantedIsGiven, OldSessionIsTold
<1>3. OneSessionPerAccount
  BY DEF FeedInit, OneSessionPerAccount
<1>4. QED BY <1>1, <1>2, <1>3 DEF FeedInv

-----------------------------------------------------------------------------
(* A step that leaves the sessions alone, and the request to restart with
   them, changes nothing of what is promised about them. *)
LEMMA SessionsStay ==
  ASSUME FeedInv, FeedTypeOK', UNCHANGED sessionVars,
         at # "signal", at' # "signal"
  PROVE  FeedInv'
<1>1. manager' = manager /\ known' = known /\ sup' = sup
  BY DEF sessionVars
<1>2. \A a \in PaperAccounts : Session(a)' = Session(a)
  BY <1>1 DEF Session
<1>3. ManagersRun'
  BY <1>1, <1>2 DEF FeedInv, ManagersRun
<1>4. WantedIsGiven'
  BY <1>1, <1>2 DEF FeedInv, WantedIsGiven
<1>5. OneSessionPerAccount'
  BY <1>1 DEF FeedInv, OneSessionPerAccount
<1>6. OldSessionIsTold'
  BY <1>1, <1>2 DEF FeedInv, OldSessionIsTold
<1>7. QED BY <1>3, <1>4, <1>5, <1>6 DEF FeedInv

(* What a supervisor may do to its own attributes: nobody but stop() sets the
   stop, and it ends only when it was told to. *)
SupervisorMoves(s, t) ==
  /\ s.phase # "ended" /\ t \in Supervisors
  /\ \/ s.stop /\ t = Ended
     \/ /\ t.phase # "ended" /\ t.stop = s.stop /\ t.wanted = s.wanted
        /\ t.phase \in {"connecting", "open"} =>
             \/ t.using = s.wanted
             \/ s.phase \in {"connecting", "open"} /\ t.using = s.using /\ t.restart = s.restart

LEMMA SupervisorStepMoves ==
  ASSUME FeedTypeOK, NEW i \in Threads, SupervisorStep(i)
  PROVE  \E t \in Supervisors : SupervisorMoves(sup[i], t) /\ Becomes(i, t)
<1>0. PICK s \in Supervisors : s = sup[i]
  BY DEF FeedTypeOK
<1>1. CASE Exit(i)
  BY <1>0, <1>1, EndedIsSupervisor DEF Exit, Supervising, SupervisorMoves
<1>2. CASE ClearRestart(i)
  <2> DEFINE t == [s EXCEPT !.restart = FALSE, !.phase = "read"]
  <2>1. t \in Supervisors /\ SupervisorMoves(s, t)
    BY <1>0, <1>2 DEF ClearRestart, Supervising, SupervisorMoves, Supervisors
  <2>2. QED BY <1>0, <1>2, <2>1 DEF ClearRestart
<1>3. CASE ReadCredentials(i)
  <2> DEFINE t == [s EXCEPT !.using = s.wanted, !.phase = "connecting"]
  <2>1. t \in Supervisors /\ SupervisorMoves(s, t)
    BY <1>0, <1>3 DEF ReadCredentials, Supervising, SupervisorMoves, Supervisors
  <2>2. QED BY <1>0, <1>3, <2>1 DEF ReadCredentials
<1>4. CASE Opened(i)
  <2> DEFINE t == [s EXCEPT !.phase = "open", !.session = TRUE, !.health = "HEALTHY"]
  <2>1. t \in Supervisors /\ SupervisorMoves(s, t)
    BY <1>0, <1>4 DEF Opened, Supervising, SupervisorMoves, Supervisors
  <2>2. QED BY <1>0, <1>4, <2>1 DEF Opened
<1>5. CASE Leave(i)
  <2> DEFINE t == [s EXCEPT !.phase = "top"]
  <2>1. t \in Supervisors /\ SupervisorMoves(s, t)
    BY <1>0, <1>5 DEF Leave, Supervising, SupervisorMoves, Supervisors
  <2>2. QED BY <1>0, <1>5, <2>1 DEF Leave
<1>6. CASE Retry(i)
  <2> DEFINE t == [s EXCEPT !.phase = "top"]
  <2>1. t \in Supervisors /\ SupervisorMoves(s, t)
    BY <1>0, <1>6 DEF Retry, Supervising, SupervisorMoves, Supervisors
  <2>2. QED BY <1>0, <1>6, <2>1 DEF Retry
<1>7. CASE Lost(i)
  <2> DEFINE t == [s EXCEPT !.phase = "backoff", !.session = FALSE, !.health = "RECONNECTING"]
  <2>1. CASE s.stop
    BY <1>0, <1>7, <2>1, EndedIsSupervisor DEF Lost, SupervisorMoves
  <2>2. CASE ~s.stop
    <3>1. t \in Supervisors /\ SupervisorMoves(s, t)
      BY <1>0, <1>7 DEF Lost, SupervisorMoves, Supervisors
    <3>2. QED BY <1>0, <1>7, <2>2, <3>1 DEF Lost
  <2>3. QED BY <2>1, <2>2
<1>8. QED BY <1>1, <1>2, <1>3, <1>4, <1>5, <1>6, <1>7 DEF SupervisorStep, Supervise

LEMMA SupervisorPreserves ==
  ASSUME FeedInv, NEW i \in Threads, SupervisorStep(i)
  PROVE  FeedInv'
<1>1. PICK t \in Supervisors : SupervisorMoves(sup[i], t) /\ sup' = [sup EXCEPT ![i] = t]
  BY SupervisorStepMoves DEF FeedInv, Becomes
<1>2. UNCHANGED <<stored, manager, known, at, todo, current>>
  BY DEF SupervisorStep, accountVars, tickVars
<1>3. FeedTypeOK'
  BY <1>1, <1>2 DEF FeedInv, FeedTypeOK
<1>4. sup'[i] = t /\ \A j \in Threads \ {i} : sup'[j] = sup[j]
  BY <1>1 DEF FeedInv, FeedTypeOK
<1>5. ASSUME NEW a \in PaperAccounts, manager[a] # NoThread
      PROVE  manager[a] \in Threads /\ Session(a)' = sup'[manager[a]] /\ ~Session(a).stop
  BY <1>2, <1>5 DEF FeedInv, FeedTypeOK, ManagersRun, Session
<1>6. ASSUME NEW a \in PaperAccounts, manager[a] # NoThread, manager[a] = i
      PROVE  /\ Session(a)' = t /\ Session(a) = sup[i]
             /\ t.phase # "ended" /\ t.stop = Session(a).stop /\ t.wanted = Session(a).wanted
  BY <1>1, <1>4, <1>5, <1>6 DEF SupervisorMoves, Session
<1>7. ASSUME NEW a \in PaperAccounts, manager[a] # NoThread, manager[a] # i
      PROVE  Session(a)' = Session(a)
  BY <1>4, <1>5, <1>7 DEF Session
<1>8. ManagersRun'
  BY <1>2, <1>5, <1>6, <1>7 DEF FeedInv, ManagersRun
<1>9. WantedIsGiven'
  BY <1>2, <1>6, <1>7 DEF FeedInv, WantedIsGiven, Visit
<1>10. OneSessionPerAccount'
  <2> SUFFICES ASSUME NEW j \in Threads, sup'[j] # Ended, ~sup'[j].stop
               PROVE  \E a \in PaperAccounts : manager'[a] = j
    BY DEF OneSessionPerAccount
  <2>1. CASE j # i
    BY <1>2, <1>4, <2>1 DEF FeedInv, OneSessionPerAccount
  <2>2. CASE j = i
    <3>1. sup[i] # Ended /\ ~sup[i].stop
      BY <1>1, <1>4, <2>2, EndedIsSupervisor DEF SupervisorMoves
    <3>2. QED BY <1>2, <2>2, <3>1 DEF FeedInv, OneSessionPerAccount
  <2>3. QED BY <2>1, <2>2
<1>11. OldSessionIsTold'
  <2> SUFFICES ASSUME NEW a \in PaperAccounts, manager'[a] # NoThread,
                      Session(a)'.phase \in {"connecting", "open"},
                      Session(a)'.using # known'[a]
               PROVE  Session(a)'.restart \/ (at' = "signal" /\ Visit(a)')
    BY DEF OldSessionIsTold
  <2>1. CASE manager[a] # i
    BY <1>2, <1>7, <2>1 DEF FeedInv, OldSessionIsTold, Visit
  <2>2. CASE manager[a] = i /\ t.using = sup[i].wanted
    BY <1>2, <1>6, <2>2 DEF FeedInv, WantedIsGiven, Visit
  <2>3. CASE manager[a] = i /\ t.using # sup[i].wanted
    <3>1. Session(a)' = t /\ Session(a) = sup[i] /\ t.phase # "ended"
      BY <1>2, <1>6, <2>3
    <3>2. Session(a).phase \in {"connecting", "open"} /\ t.using = Session(a).using /\ t.restart = Session(a).restart
      BY <1>1, <2>3, <3>1, EndedIsSupervisor DEF SupervisorMoves
    <3>3. QED BY <1>2, <3>1, <3>2 DEF FeedInv, OldSessionIsTold, Visit
  <2>4. QED BY <2>1, <2>2, <2>3
<1>12. QED BY <1>3, <1>8, <1>9, <1>10, <1>11 DEF FeedInv

-----------------------------------------------------------------------------
(* The managers of disconnected accounts are stopped and forgotten; no other
   account uses their supervisors. *)
LEMMA StartTickPreserves ==
  ASSUME FeedInv, StartTick
  PROVE  FeedInv'
<1> DEFINE Dropped(i) == \E a \in PaperAccounts \ Connected : manager[a] = i
<1>1. /\ manager' = [a \in PaperAccounts |-> IF a \in Connected THEN manager[a] ELSE NoThread]
      /\ known' = [a \in PaperAccounts |-> IF a \in Connected THEN known[a] ELSE Nothing]
      /\ sup' = [i \in Threads |-> IF Dropped(i) THEN Stopped(sup[i]) ELSE sup[i]]
      /\ at = "idle" /\ at' = "next" /\ stored' = stored /\ current' = current
      /\ todo' = {[account |-> a, keys |-> stored[a]] : a \in Connected}
  BY DEF StartTick, Cleanup, accountVars
<1> HIDE DEF Dropped
<1>2. ASSUME NEW i \in Threads
      PROVE  /\ Stopped(sup[i]) \in Supervisors /\ Stopped(sup[i]).stop
             /\ sup'[i] = IF Dropped(i) THEN Stopped(sup[i]) ELSE sup[i]
  BY <1>1 DEF FeedInv, FeedTypeOK, Supervisors, Stopped
<1>3. FeedTypeOK'
  <2>1. todo' \subseteq Visits
    BY <1>1 DEF FeedInv, FeedTypeOK, Visits, Connected
  <2>2. sup' \in [Threads -> Supervisors]
    BY <1>1, <1>2 DEF FeedInv, FeedTypeOK
  <2>3. QED BY <1>1, <2>1, <2>2 DEF FeedInv, FeedTypeOK, NoThread
<1>4. ASSUME NEW a \in PaperAccounts, manager'[a] # NoThread
      PROVE  /\ a \in Connected /\ manager'[a] = manager[a] /\ manager[a] # NoThread
             /\ known'[a] = known[a] /\ Session(a)' = Session(a)
  <2>1. a \in Connected /\ manager'[a] = manager[a] /\ known'[a] = known[a]
    BY <1>1, <1>4
  <2>2. manager[a] \in Threads /\ ~Dropped(manager[a])
    BY <1>4, <2>1 DEF FeedInv, FeedTypeOK, ManagersRun, Dropped
  <2>3. QED BY <1>1, <1>2, <1>4, <2>1, <2>2 DEF Session
<1>5. ManagersRun'
  BY <1>4 DEF FeedInv, ManagersRun
<1>6. WantedIsGiven'
  BY <1>1, <1>4 DEF FeedInv, WantedIsGiven
<1>7. OneSessionPerAccount'
  <2> SUFFICES ASSUME NEW i \in Threads, sup'[i] # Ended, ~sup'[i].stop
               PROVE  \E a \in PaperAccounts : manager'[a] = i
    BY DEF OneSessionPerAccount
  <2>1. ~Dropped(i) /\ sup'[i] = sup[i]
    BY <1>2
  <2>2. PICK a \in PaperAccounts : manager[a] = i
    BY <2>1 DEF FeedInv, OneSessionPerAccount
  <2>3. a \in Connected
    BY <2>1, <2>2 DEF Dropped
  <2>4. QED BY <1>1, <2>2, <2>3
<1>8. OldSessionIsTold'
  BY <1>1, <1>4 DEF FeedInv, OldSessionIsTold
<1>9. QED BY <1>3, <1>5, <1>6, <1>7, <1>8 DEF FeedInv

\* A new manager starts a supervisor that no account uses.
LEMMA NewManagerPreserves ==
  ASSUME FeedInv, NEW v \in todo, NEW i \in Threads,
         manager[v.account] = NoThread, sup[i] = Ended,
         manager' = [manager EXCEPT ![v.account] = i],
         Becomes(i, [Ended EXCEPT !.phase = "top", !.wanted = v.keys, !.health = "STARTING"]),
         known' = [known EXCEPT ![v.account] = v.keys],
         at = "next", at' = "report", current' = v, stored' = stored, todo' = todo \ {v}
  PROVE  FeedInv'
<1>0. PICK t : t = [Ended EXCEPT !.phase = "top", !.wanted = v.keys, !.health = "STARTING"]
  OBVIOUS
<1>1. v \in Visits /\ v.account \in PaperAccounts /\ v.keys \in Credentials
  BY DEF FeedInv, FeedTypeOK, Visits
<1>2. t \in Supervisors /\ t.phase = "top" /\ ~t.stop /\ t.wanted = v.keys
  BY <1>0, <1>1 DEF Ended, Supervisors
<1>3. sup' = [sup EXCEPT ![i] = t]
  BY <1>0 DEF Becomes
<1>4. FeedTypeOK'
  BY <1>1, <1>2, <1>3 DEF FeedInv, FeedTypeOK
<1>5. Session(v.account)' = t /\ manager'[v.account] = i /\ known'[v.account] = v.keys
  BY <1>1, <1>3 DEF FeedInv, FeedTypeOK, Session
<1>6. ASSUME NEW b \in PaperAccounts, b # v.account
      PROVE  manager'[b] = manager[b] /\ known'[b] = known[b]
  BY <1>6 DEF FeedInv, FeedTypeOK
<1>7. ASSUME NEW b \in PaperAccounts, b # v.account, manager[b] # NoThread
      PROVE  manager[b] # i /\ Session(b)' = Session(b)
  <2>1. manager[b] # i /\ manager[b] \in Threads
    BY <1>7, EndedIsSupervisor DEF FeedInv, FeedTypeOK, ManagersRun, Session
  <2>2. QED BY <1>3, <1>6, <1>7, <2>1 DEF Session, FeedInv, FeedTypeOK
<1>8. ManagersRun'
  BY <1>2, <1>5, <1>6, <1>7 DEF FeedInv, ManagersRun
<1>9. WantedIsGiven'
  BY <1>2, <1>5, <1>6, <1>7 DEF FeedInv, WantedIsGiven
<1>10. OneSessionPerAccount'
  <2> SUFFICES ASSUME NEW j \in Threads, sup'[j] # Ended, ~sup'[j].stop
               PROVE  \E a \in PaperAccounts : manager'[a] = j
    BY DEF OneSessionPerAccount
  <2>1. CASE j = i
    BY <1>1, <1>5, <2>1
  <2>2. CASE j # i
    <3>1. sup'[j] = sup[j]
      BY <1>3, <2>2 DEF FeedInv, FeedTypeOK
    <3>2. PICK a \in PaperAccounts : manager[a] = j
      BY <3>1 DEF FeedInv, OneSessionPerAccount
    <3>3. a # v.account
      BY <3>2, NoThreadIsNone
    <3>4. QED BY <1>6, <3>2, <3>3
  <2>3. QED BY <2>1, <2>2
<1>11. OldSessionIsTold'
  <2> SUFFICES ASSUME NEW a \in PaperAccounts, manager'[a] # NoThread,
                      Session(a)'.phase \in {"connecting", "open"},
                      Session(a)'.using # known'[a]
               PROVE  Session(a)'.restart
    BY DEF OldSessionIsTold
  <2>1. a # v.account
    BY <1>2, <1>5
  <2>2. QED BY <1>6, <1>7, <2>1 DEF FeedInv, OldSessionIsTold
<1>12. QED BY <1>4, <1>8, <1>9, <1>10, <1>11 DEF FeedInv

(* A known manager is given other credentials: they are written, and the
   restart is yet to be asked for. *)
LEMMA OtherCredentialsPreserve ==
  ASSUME FeedInv, NEW v \in todo, manager[v.account] # NoThread,
         Becomes(manager[v.account], [Session(v.account) EXCEPT !.wanted = v.keys]),
         at = "next", at' = "signal", current' = v, stored' = stored, todo' = todo \ {v},
         UNCHANGED <<manager, known>>
  PROVE  FeedInv'
<1>0. PICK a \in PaperAccounts, i \in Threads, s \in Supervisors :
        v \in Visits /\ a = v.account /\ i = manager[a] /\ s = Session(a) /\ s = sup[i]
  BY DEF FeedInv, FeedTypeOK, Visits, Session
<1>1. PICK t : t = [s EXCEPT !.wanted = v.keys]
  OBVIOUS
<1>2. /\ t \in Supervisors /\ t.wanted = v.keys /\ t.phase = s.phase /\ t.stop = s.stop
      /\ t # Ended => s # Ended
  BY <1>0, <1>1, EndedIsSupervisor DEF FeedInv, Visits, Supervisors, ManagersRun
<1>3. sup' = [sup EXCEPT ![i] = t]
  BY <1>0, <1>1 DEF Becomes
<1>4. FeedTypeOK'
  BY <1>0, <1>2, <1>3 DEF FeedInv, FeedTypeOK
<1>5. Session(a)' = t /\ Visit(a)'
  BY <1>0, <1>3 DEF FeedInv, FeedTypeOK, Session, Visit
<1>6. ASSUME NEW b \in PaperAccounts, b # a, manager[b] # NoThread
      PROVE  Session(b)' = Session(b) /\ ~Visit(b)'
  <2>1. manager[b] # i /\ manager[b] \in Threads
    BY <1>0, <1>6 DEF FeedInv, FeedTypeOK, ManagersRun
  <2>2. QED BY <1>0, <1>3, <1>6, <2>1 DEF Session, FeedInv, FeedTypeOK, Visit
<1>7. ManagersRun'
  <2>1. ASSUME NEW b \in PaperAccounts, manager[b] # NoThread
        PROVE  Session(b)'.phase = Session(b).phase /\ Session(b)'.stop = Session(b).stop
    BY <1>0, <1>2, <1>5, <1>6, <2>1
  <2>2. QED BY <2>1 DEF FeedInv, ManagersRun
<1>8. WantedIsGiven'
  BY <1>0, <1>2, <1>5, <1>6 DEF FeedInv, WantedIsGiven
<1>9. OneSessionPerAccount'
  <2> SUFFICES ASSUME NEW j \in Threads, sup'[j] # Ended, ~sup'[j].stop
               PROVE  \E b \in PaperAccounts : manager[b] = j
    BY DEF OneSessionPerAccount
  <2>1. CASE j = i
    BY <1>0, <2>1
  <2>2. CASE j # i
    BY <1>3, <2>2 DEF FeedInv, FeedTypeOK, OneSessionPerAccount
  <2>3. QED BY <2>1, <2>2
<1>10. OldSessionIsTold'
  BY <1>0, <1>5, <1>6 DEF FeedInv, OldSessionIsTold
<1>11. QED BY <1>4, <1>7, <1>8, <1>9, <1>10 DEF FeedInv

\* The restart is asked for, and the credentials are remembered as given.
LEMMA SignalPreserves ==
  ASSUME FeedInv, NEW a \in PaperAccounts, SignalRestart(a)
  PROVE  FeedInv'
<1>0. /\ current \in Visits /\ current.account = a /\ current.keys \in Credentials
      /\ at = "signal" /\ at' = "report" /\ Visit(a) /\ UNCHANGED <<stored, manager, todo, current>>
      /\ known' = [known EXCEPT ![a] = current.keys]
  BY NobodyIsNoAccount DEF FeedInv, FeedTypeOK, SignalRestart, accountVars
<1>1. PICK t : t = [Session(a) EXCEPT !.restart = TRUE]
  OBVIOUS
<1>2. sup' = [sup EXCEPT ![manager[a]] = t]
  BY <1>1 DEF SignalRestart, Becomes
<1>3. ASSUME manager[a] # NoThread
      PROVE  /\ manager[a] \in Threads /\ t \in Supervisors /\ t.restart /\ t.stop = Session(a).stop
             /\ t.phase = Session(a).phase /\ t.wanted = Session(a).wanted
  <2>1. manager[a] \in Threads /\ Session(a) \in Supervisors
    BY <1>3 DEF FeedInv, FeedTypeOK, Session
  <2>2. QED BY <1>1, <2>1 DEF Supervisors
<1>4. manager[a] = NoThread => sup' = sup
  BY <1>2, NoThreadIsNone DEF FeedInv, FeedTypeOK
<1>5. FeedTypeOK'
  BY <1>0, <1>2, <1>3, <1>4 DEF FeedInv, FeedTypeOK
<1>6. manager[a] # NoThread => Session(a)' = t
  BY <1>0, <1>2, <1>3 DEF FeedInv, FeedTypeOK, Session
<1>7. ASSUME NEW b \in PaperAccounts, b # a, manager[b] # NoThread
      PROVE  Session(b)' = Session(b) /\ known'[b] = known[b] /\ ~Visit(b)
  <2>1. manager[b] # manager[a] /\ manager[b] \in Threads
    BY <1>7 DEF FeedInv, FeedTypeOK, ManagersRun
  <2>2. QED BY <1>0, <1>2, <1>7, <2>1 DEF Session, FeedInv, FeedTypeOK, Visit
<1>8. known'[a] = current.keys
  BY <1>0 DEF FeedInv, FeedTypeOK
<1>9. ManagersRun'
  BY <1>0, <1>3, <1>6, <1>7 DEF FeedInv, ManagersRun
<1>10. WantedIsGiven'
  BY <1>0, <1>3, <1>6, <1>7, <1>8 DEF FeedInv, WantedIsGiven
<1>11. OneSessionPerAccount'
  <2> SUFFICES ASSUME NEW j \in Threads, sup'[j] # Ended, ~sup'[j].stop
               PROVE  \E b \in PaperAccounts : manager[b] = j
    BY <1>0 DEF OneSessionPerAccount
  <2>1. CASE j # manager[a]
    BY <1>2, <2>1 DEF FeedInv, FeedTypeOK, OneSessionPerAccount
  <2>2. QED BY <2>1
<1>12. OldSessionIsTold'
  BY <1>0, <1>3, <1>6, <1>7 DEF FeedInv, OldSessionIsTold
<1>13. QED BY <1>5, <1>9, <1>10, <1>11, <1>12 DEF FeedInv

LEMMA AgentRestartsPreserves ==
  ASSUME FeedInv, AgentRestarts
  PROVE  FeedInv'
<1>1. FeedTypeOK'
  BY EndedIsSupervisor DEF FeedInv, FeedTypeOK, AgentRestarts, accountVars, Nobody
<1>2. \A a \in PaperAccounts : manager'[a] = NoThread
  BY DEF AgentRestarts
<1>3. ManagersRun' /\ WantedIsGiven' /\ OldSessionIsTold'
  BY <1>2 DEF ManagersRun, WantedIsGiven, OldSessionIsTold
<1>4. OneSessionPerAccount'
  BY DEF AgentRestarts, OneSessionPerAccount
<1>5. QED BY <1>1, <1>3, <1>4 DEF FeedInv

LEMMA ManagePreserves ==
  ASSUME FeedInv, NEW v \in todo, Manage(v)
  PROVE  FeedInv'
<1>0. at = "next" /\ todo' = todo \ {v} /\ current' = v /\ stored' = stored
  BY DEF Manage, Take, accountVars
<1>1. CASE manager[v.account] = NoThread
  BY <1>0, <1>1, NewManagerPreserves DEF Manage
<1>2. CASE manager[v.account] # NoThread /\ known[v.account] # v.keys
  BY <1>0, <1>2, OtherCredentialsPreserve DEF Manage
<1>3. CASE manager[v.account] # NoThread /\ known[v.account] = v.keys
  <2>1. at' = "report" /\ UNCHANGED sessionVars
    BY <1>3 DEF Manage
  <2>2. FeedTypeOK'
    BY <1>0, <2>1 DEF FeedInv, FeedTypeOK, sessionVars
  <2>3. QED BY <1>0, <2>1, <2>2, SessionsStay
<1>4. QED BY <1>1, <1>2, <1>3

\* The other steps of the tick leave the sessions alone.
LEMMA VisitPreserves ==
  ASSUME FeedInv, NEW a \in PaperAccounts,
         Report(a) \/ Gather(a) \/ Publish(a) \/ WriteStatus(a) \/ RefreshOptions(a)
  PROVE  FeedInv'
<1>1. UNCHANGED <<sessionVars, stored, todo>> /\ at # "signal" /\ current' \in {current, Nobody}
  BY DEF Report, Gather, Publish, WriteStatus, RefreshOptions, accountVars, Proceed
<1>2. at' \in {"next", "gather", "publish", "status", "options"}
  BY DEF Report, Gather, Publish, WriteStatus, RefreshOptions, Proceed
<1>3. FeedTypeOK'
  BY <1>1, <1>2 DEF FeedInv, FeedTypeOK, sessionVars
<1>4. QED BY <1>1, <1>2, <1>3, SessionsStay

LEMMA TickPreserves ==
  ASSUME FeedInv, TickStep
  PROVE  FeedInv'
<1>1. CASE EndTick
  <2>1. UNCHANGED <<sessionVars, stored, todo, current>> /\ at = "next" /\ at' = "idle"
    BY <1>1 DEF EndTick, accountVars
  <2>2. FeedTypeOK'
    BY <2>1 DEF FeedInv, FeedTypeOK, sessionVars
  <2>3. QED BY <2>1, <2>2, SessionsStay
<1>2. QED BY <1>1, StartTickPreserves, ManagePreserves, SignalPreserves, VisitPreserves DEF TickStep

LEMMA FailurePreserves ==
  ASSUME FeedInv, TickFails \/ \E v \in todo : Undecryptable(v)
  PROVE  FeedInv'
<1>1. UNCHANGED <<sessionVars, stored>> /\ at # "signal" /\ at' \in {"idle", "next"}
  BY DEF TickFails, TickDies, Undecryptable, Take, accountVars
<1>2. todo' \subseteq todo /\ current' \in {current, Nobody}
  BY DEF TickFails, TickDies, Undecryptable, Take
<1>3. FeedTypeOK'
  BY <1>1, <1>2 DEF FeedInv, FeedTypeOK, sessionVars
<1>4. QED BY <1>1, <1>3, SessionsStay

\* Onboarding changes what is stored, and no session.
LEMMA EditPreserves ==
  ASSUME FeedInv, NEW a \in PaperAccounts, NEW k \in Credentials \cup {Nothing}, Edit(a, k)
  PROVE  FeedInv'
<1>1. UNCHANGED <<manager, known, sup, at, todo, current>> /\ stored' = [stored EXCEPT ![a] = k]
  BY DEF Edit, sessionVars, tickVars
<1>2. FeedTypeOK'
  BY <1>1 DEF FeedInv, FeedTypeOK
<1>3. QED
  BY <1>1, <1>2 DEF FeedInv, ManagersRun, WantedIsGiven, OneSessionPerAccount, OldSessionIsTold, Session, Visit

LEMMA FeedNextPreserves == FeedInv /\ [FeedNext]_feedVars => FeedInv'
<1> SUFFICES ASSUME FeedInv, [FeedNext]_feedVars PROVE FeedInv'
  OBVIOUS
<1>1. CASE UNCHANGED feedVars
  <2>1. UNCHANGED <<stored, manager, known, sup, at, todo, current>>
    BY <1>1 DEF feedVars, accountVars, sessionVars, tickVars
  <2>2. QED
    BY <2>1 DEF FeedInv, FeedTypeOK, ManagersRun, WantedIsGiven, OneSessionPerAccount, OldSessionIsTold,
                Session, Visit
<1>2. QED
  BY <1>1, EditPreserves, SupervisorPreserves, TickPreserves, FailurePreserves, AgentRestartsPreserves
  DEF FeedNext

-----------------------------------------------------------------------------
(* The attributes of managers and supervisors stay of their types, a manager's
   supervisor runs and is its alone (market_agent/main.py:230-261). *)
THEOREM FeedInvariant == FeedSpec => []FeedInv
BY FeedInitEstablishes, FeedNextPreserves, PTL DEF FeedSpec

(* No session is orphaned: a supervisor nobody told to stop is the one of an
   account's manager (market_agent/main.py:230-261). *)
THEOREM SessionsAreOwned == FeedSpec => []OneSessionPerAccount
<1>1. FeedInv => OneSessionPerAccount
  BY DEF FeedInv
<1>2. QED BY <1>1, FeedInvariant, PTL

(* However a change of credentials falls between the steps of the supervisor,
   a session with old ones is told to restart (mcp_session.py:248-329). *)
THEOREM RestartsAreNotMissed == FeedSpec => []OldSessionIsTold
<1>1. FeedInv => OldSessionIsTold
  BY DEF FeedInv
<1>2. QED BY <1>1, FeedInvariant, PTL
=============================================================================
