-------------------------- MODULE EnrollmentProofs --------------------------
(***************************************************************************)
(* For any number of intents, codes and requests at a time, and whichever  *)
(* of the requests die: the relayer's transactions have nonces of their    *)
(* own without a gap, what the API calls final is so for good, and an      *)
(* admission code admits one account.                                      *)
(*                                                                         *)
(* Requests share nothing but the database and the chain, so what a        *)
(* request may assume (`Rightly`) is what the confirmed block has settled  *)
(* for ever; the rest relates rows, codes, nonces and the chain.           *)
(***************************************************************************)
EXTENDS Enrollment, FiniteSetTheorems, TLAPS

\* The registration of i can be executed no more, and was not.
Lost(i) == i \in Registrations /\ ~Ok(settled, i) /\ (Taken(settled, i) \/ Passed(settled, i))

\* What a request knows of its intent when it is about to write a final status.
Rightly(x) ==
  /\ x.pc # "idle" => x.intent \in Intents
  /\ x.pc = "confirm" => Ok(settled, x.intent)
  /\ x.pc = "fail" => Lost(x.intent)
  /\ x.failing => x.pc \in {"broadcast", "fail"} /\ Lost(x.intent)
  /\ x.pc = "revert" => x.intent \in Actions /\ settled.result[x.intent] = "reverted"
  /\ x.pc \in {"receipt", "expire"} => x.intent \in Actions
  /\ x.pc = "create" /\ x.intent \in Registrations => x.code \in Codes
  /\ x.blocked \in Registrations => x.code \in Codes

\* The chain only adds to what it settled; an intent is executed once, in time, and for a handle
\* and an owner that are free.
Chain ==
  /\ latest \in Blocks /\ settled \in Blocks /\ known \subseteq Intents /\ mined \in Nat
  /\ settled.time <= latest.time
  /\ \A i \in Intents :
       /\ settled.result[i] # "none" => latest.result[i] = settled.result[i]
       /\ Ok(latest, i) /\ Passed(settled, i) => Ok(settled, i)
  /\ \A i, j \in Registrations :
       Ok(latest, i) /\ Ok(latest, j) /\ (Handle[i] = Handle[j] \/ Owner[i] = Owner[j]) => i = j

\* Transactions: only what was prepared has one, below the next nonce; once one exists the chain is
\* not ahead of the database.
Signed ==
  /\ \A i \in Intents :
       /\ row[i].status \in {"none", "ready", "expired"} => row[i].tx = NoTx
       /\ row[i].tx # NoTx => row[i].tx < nextNonce /\ mined <= nextNonce
       /\ latest.result[i] # "none" => row[i].tx # NoTx /\ row[i].tx < mined

\* Codes: a registration that is not over claims its own.
Claims ==
  /\ \A i \in Registrations :
       /\ row[i].status \in Active \cup {"confirmed"} => row[i].code \in Codes /\ claimedBy[row[i].code] = i
       /\ row[i].status = "confirmed" => row[i].code \in consumed
  /\ \A c \in consumed : claimedBy[c] \in Registrations /\ row[claimedBy[c]].status = "confirmed"

\* Final statuses.
Final ==
  \A i \in Intents :
    /\ row[i].status = "confirmed" => Ok(settled, i)
    /\ row[i].status = "failed" => Lost(i)
    /\ row[i].status = "reverted" => settled.result[i] = "reverted"

RowRecords == [status : {"none", "ready", "submitted", "confirmed", "failed", "reverted", "expired"},
               tx : Nat \cup {NoTx}, code : Codes \cup {NoCode}]
RequestRecords ==
  [pc : {"idle", "create", "check", "prepare", "broadcast", "receipt", "confirm", "fail", "revert", "expire"},
   intent : Intents \cup {NoIntent}, code : Codes \cup {NoCode}, seen : {"none"} \cup Active,
   failing : BOOLEAN, blocked : Intents \cup {NoIntent}, tried : SUBSET Intents]

\* The database as a whole.
Database ==
  /\ row \in [Intents -> RowRecords] /\ nextNonce \in Nat
  /\ \A i \in Intents : row[i].status = "submitted" => row[i].tx # NoTx
  /\ claimedBy \in [Codes -> Registrations \cup {NoIntent}] /\ consumed \subseteq Codes
  /\ \A c \in Codes : claimedBy[c] # NoIntent => row[claimedBy[c]].status \in Active \cup {"confirmed"}
  /\ Signed /\ Claims /\ Final /\ NoncesAreShared

EnrollmentInv ==
  /\ Database /\ Chain
  /\ requests \in [Requests -> RequestRecords]
  /\ \A q \in Requests : Rightly(requests[q])

-----------------------------------------------------------------------------

\* The records without content are of their types.
LEMMA RecordsFit ==
    /\ NoRow \in RowRecords /\ NoRow.status = "none" /\ NoRow.tx = NoTx
    /\ Idle \in RequestRecords /\ Idle.pc = "idle" /\ Idle.failing = FALSE /\ Idle.blocked = NoIntent
  BY EnrollmentAssumption DEF NoRow, RowRecords, Idle, RequestRecords, Active

\* An empty database; the relayer may have been used before.
LEMMA EnrollmentInit == Init => EnrollmentInv
<1> SUFFICES ASSUME Init PROVE EnrollmentInv
  OBVIOUS
<1>1. /\ row \in [Intents -> RowRecords] /\ nextNonce = 0 /\ mined \in {0, 1} /\ known = {}
      /\ \A i \in Intents : row[i].status = "none" /\ row[i].tx = NoTx
      /\ claimedBy \in [Codes -> Registrations \cup {NoIntent}] /\ consumed = {}
      /\ \A c \in Codes : claimedBy[c] = NoIntent
  BY RecordsFit DEF Init
<1>2. latest \in Blocks /\ settled = latest /\ latest.time = 0 /\ \A i \in Intents : latest.result[i] = "none"
  BY EnrollmentAssumption DEF Init, Blocks, Times
<1>3. Chain
  BY <1>1, <1>2 DEF Chain, Ok, Intents
<1>4. Signed /\ Claims /\ Final
  BY <1>1, <1>2 DEF Signed, Claims, Final, Active, Intents
<1>5. NoncesAreShared
  BY <1>1 DEF NoncesAreShared, Prepared
<1>6. \A q \in Requests : requests[q] = Idle
  BY DEF Init
<1>7. requests \in [Requests -> RequestRecords]
  BY RecordsFit DEF Init
<1>8. Rightly(Idle)
  BY RecordsFit, EnrollmentAssumption DEF Rightly, Intents
<1> QED
  BY <1>1, <1>3, <1>4, <1>5, <1>6, <1>7, <1>8 DEF EnrollmentInv, Database

-----------------------------------------------------------------------------
(* The chain.                                                              *)

\* What the chain settled, and that an intent is lost, is so for good.
LEMMA ChainStep ==
    ASSUME EnrollmentInv, Tick \/ Settle \/ \E i \in Intents : Execute(i)
    PROVE  /\ Chain' /\ Signed'
           /\ UNCHANGED <<row, claimedBy, consumed, nextNonce, requests>>
           /\ \A i \in Intents :
                /\ Ok(settled, i) => Ok(settled, i)'
                /\ settled.result[i] = "reverted" => settled'.result[i] = "reverted"
                /\ Lost(i) => Lost(i)'
<1>1. /\ Chain /\ Signed /\ row \in [Intents -> RowRecords] /\ nextNonce \in Nat
      /\ Registrations \subseteq Intents
  BY DEF EnrollmentInv, Database, Intents
<1>2. /\ latest \in Blocks /\ settled \in Blocks /\ known \subseteq Intents /\ mined \in Nat
      /\ latest.time \in Times /\ settled.time \in Times /\ settled.time <= latest.time
      /\ MaxTime \in Nat /\ \A i \in Intents : Deadline[i] \in Nat
  BY <1>1, EnrollmentAssumption DEF Chain, Blocks
<1>3. UNCHANGED <<row, claimedBy, consumed, nextNonce, requests>>
  BY DEF Tick, Settle, Execute, dbVars
<1>4. CASE Tick
  <2>1. /\ latest'.time = latest.time + 1 /\ latest'.result = latest.result /\ latest' \in Blocks
        /\ UNCHANGED <<settled, known, mined>>
    BY <1>2, <1>4 DEF Tick, Blocks, Times
  <2>2. settled'.time <= latest'.time
    BY <1>2, <2>1 DEF Times
  <2>3. Chain'
    BY <1>1, <2>1, <2>2 DEF Chain, Ok, Passed
  <2>4. Signed'
    BY <1>1, <1>3, <2>1 DEF Signed
  <2>5. \A i \in Intents : /\ Ok(settled, i) => Ok(settled, i)'
                           /\ settled.result[i] = "reverted" => settled'.result[i] = "reverted"
                           /\ Lost(i) => Lost(i)'
    BY <2>1 DEF Ok, Lost, Taken, Passed
  <2> QED
    BY <1>3, <2>3, <2>4, <2>5
<1>5. ASSUME NEW i \in Intents, Execute(i)
      PROVE  /\ Chain' /\ Signed'
             /\ \A j \in Intents : /\ Ok(settled, j) => Ok(settled, j)'
                                   /\ settled.result[j] = "reverted" => settled'.result[j] = "reverted"
                                   /\ Lost(j) => Lost(j)'
  <2> DEFINE outcome == IF Executable(i) THEN "ok" ELSE "reverted"
  <2>1. /\ row[i].tx = mined /\ mined' = mined + 1 /\ UNCHANGED <<settled, known>>
        /\ latest' = [latest EXCEPT !.result[i] = outcome]
    BY <1>5 DEF Execute
  <2>2. /\ latest' \in Blocks /\ latest'.time = latest.time /\ latest'.result[i] = outcome
        /\ \A j \in Intents : j # i => latest'.result[j] = latest.result[j]
    BY <1>2, <2>1 DEF Blocks
  <2>3. row[i].tx # NoTx /\ ~ (row[i].tx < mined)
    BY <1>2, <2>1 DEF NoTx
  <2>4. latest.result[i] = "none" /\ settled.result[i] = "none"
    BY <1>1, <2>3 DEF Signed, Chain
  <2>5. Executable(i) => ~Passed(settled, i)
    BY <1>2 DEF Executable, Passed, Times
  <2>6. Executable(i) /\ i \in Registrations => ~Taken(latest, i)
    BY DEF Executable
  <2>7. Chain'
    <3>1. settled'.time <= latest'.time
      BY <1>2, <2>1, <2>2
    <3>2. ASSUME NEW j \in Intents
          PROVE  /\ settled'.result[j] # "none" => latest'.result[j] = settled'.result[j]
                 /\ latest'.result[j] = "ok" /\ settled'.time > Deadline[j] => settled'.result[j] = "ok"
      BY <1>1, <2>1, <2>2, <2>4, <2>5 DEF Chain, Ok, Passed
    <3>3. ASSUME NEW j \in Registrations, NEW k \in Registrations,
                 latest'.result[j] = "ok", latest'.result[k] = "ok", Handle[j] = Handle[k] \/ Owner[j] = Owner[k]
          PROVE  j = k
      BY <1>1, <2>2, <2>6, <3>3 DEF Chain, Ok, Taken
    <3> QED
      BY <1>2, <2>1, <2>2, <3>1, <3>2, <3>3 DEF Chain, Ok, Passed
  <2>8. Signed'
    <3>1. row[i].tx < nextNonce
      BY <1>1, <2>3 DEF Signed
    <3>2. mined' <= nextNonce
      BY <1>1, <1>2, <2>1, <3>1
    <3>3. ASSUME NEW j \in Intents, latest'.result[j] # "none" PROVE row[j].tx # NoTx /\ row[j].tx < mined'
      <4>1. CASE j = i
        BY <1>2, <2>1, <2>3, <4>1
      <4>2. CASE j # i
        <5>1. row[j].tx # NoTx /\ row[j].tx < mined
          BY <1>1, <2>2, <3>3, <4>2 DEF Signed
        <5>2. row[j].tx \in Int
          BY <1>1 DEF RowRecords, NoTx
        <5> QED
          BY <1>2, <2>1, <5>1, <5>2
      <4> QED
        BY <4>1, <4>2
    <3> QED
      BY <1>1, <1>3, <3>2, <3>3 DEF Signed
  <2>9. \A j \in Intents : /\ Ok(settled, j) => Ok(settled, j)'
                           /\ settled.result[j] = "reverted" => settled'.result[j] = "reverted"
                           /\ Lost(j) => Lost(j)'
    BY <2>1 DEF Ok, Lost, Taken, Passed
  <2> QED
    BY <2>7, <2>8, <2>9
<1>6. CASE Settle
  <2>1. settled' = latest /\ UNCHANGED <<latest, known, mined>>
    BY <1>6 DEF Settle
  <2>2. \A i \in Intents : settled.result[i] # "none" => latest.result[i] = settled.result[i]
    BY <1>1 DEF Chain
  <2>3. Chain'
    BY <1>1, <1>2, <2>1 DEF Chain, Ok, Passed, Times
  <2>4. Signed'
    BY <1>1, <1>3, <2>1 DEF Signed
  <2>5. ASSUME NEW i \in Intents PROVE Ok(settled, i) => Ok(settled, i)'
    BY <2>1, <2>2 DEF Ok
  <2>6. ASSUME NEW i \in Intents, Lost(i) PROVE Lost(i)'
    <3>1. ~Ok(latest, i)
      <4>1. CASE Passed(settled, i)
        BY <1>1, <2>6, <4>1 DEF Chain, Lost
      <4>2. CASE Taken(settled, i)
        <5>1. PICK j \in Registrations : Ok(settled, j) /\ (Handle[j] = Handle[i] \/ Owner[j] = Owner[i])
          BY <4>2 DEF Taken
        <5>2. Ok(latest, j)
          BY <1>1, <2>2, <5>1 DEF Ok
        <5> QED
          BY <1>1, <2>6, <5>1, <5>2 DEF Chain, Lost
      <4> QED
        BY <2>6, <4>1, <4>2 DEF Lost
    <3>2. Taken(settled, i) => Taken(latest, i)
      BY <1>1, <2>2 DEF Taken, Ok
    <3>3. Passed(settled, i) => Passed(latest, i)
      BY <1>2 DEF Passed, Times
    <3> QED
      BY <2>1, <2>6, <3>1, <3>2, <3>3 DEF Lost, Ok, Taken, Passed
  <2> QED
    BY <1>3, <2>1, <2>2, <2>3, <2>4, <2>5, <2>6
<1> QED
  BY <1>3, <1>4, <1>5, <1>6

\* Time, blocks and confirmations keep the invariant.
LEMMA ChainKeeps ==
    ASSUME EnrollmentInv, Tick \/ Settle \/ \E i \in Intents : Execute(i)
    PROVE  EnrollmentInv'
<1>1. /\ Chain' /\ Signed'
      /\ UNCHANGED <<row, claimedBy, consumed, nextNonce, requests>>
      /\ \A i \in Intents : /\ Ok(settled, i) => Ok(settled, i)'
                            /\ settled.result[i] = "reverted" => settled'.result[i] = "reverted"
                            /\ Lost(i) => Lost(i)'
  BY ChainStep
<1>2. Database /\ requests \in [Requests -> RequestRecords] /\ \A q \in Requests : Rightly(requests[q])
  BY DEF EnrollmentInv
<1>3. Final'
  BY <1>1, <1>2 DEF Database, Final
<1>4. Claims' /\ NoncesAreShared'
  BY <1>1, <1>2 DEF Database, Claims, NoncesAreShared, Prepared
<1>5. ASSUME NEW q \in Requests PROVE Rightly(requests[q])'
  <2>1. Rightly(requests[q]) /\ requests[q] \in RequestRecords
    BY <1>2
  <2>2. requests[q].pc = "confirm" => Ok(settled, requests[q].intent)'
    BY <1>1, <2>1 DEF Rightly, Ok
  <2>3. requests[q].pc = "fail" \/ requests[q].failing => Lost(requests[q].intent)'
    BY <1>1, <2>1 DEF Rightly, Lost, Ok, Taken, Passed, Intents
  <2>4. requests[q].pc = "revert" => settled'.result[requests[q].intent] = "reverted"
    BY <1>1, <2>1 DEF Rightly
  <2> QED
    BY <1>1, <2>1, <2>2, <2>3, <2>4 DEF Rightly, Ok, Lost, Taken, Passed
<1> QED
  BY <1>1, <1>2, <1>3, <1>4, <1>5 DEF EnrollmentInv, Database

-----------------------------------------------------------------------------
(* The database.                                                           *)

\* A new row, with the code it claims if it is a registration.
LEMMA InsertKeeps ==
    ASSUME EnrollmentInv, NEW i \in Intents, NEW c \in Codes \cup {NoCode}, row[i].status = "none",
           row' = [row EXCEPT ![i] = [NoRow EXCEPT !.status = "ready", !.code = c]],
           UNCHANGED <<consumed, nextNonce, latest, settled, mined>>,
           \/ /\ i \in Registrations /\ c \in Codes /\ CodeFree(i, c)
              /\ claimedBy' = [claimedBy EXCEPT ![c] = i]
           \/ i \in Actions /\ claimedBy' = claimedBy
    PROVE  Database'
<1>1. /\ Database /\ row \in [Intents -> RowRecords] /\ claimedBy \in [Codes -> Registrations \cup {NoIntent}]
      /\ Signed /\ Claims /\ Final /\ NoncesAreShared
      /\ Registrations \subseteq Intents /\ NoIntent \notin Intents /\ NoCode \notin Codes
      /\ Registrations \cap Actions = {}
  BY EnrollmentAssumption DEF EnrollmentInv, Database, Intents
<1> DEFINE r == [NoRow EXCEPT !.status = "ready", !.code = c]
<1>2. r \in RowRecords /\ r.status = "ready" /\ r.tx = NoTx /\ r.code = c
  BY DEF NoRow, RowRecords
<1> HIDE DEF r
<1>3. row' = [row EXCEPT ![i] = r]
  BY DEF r
<1>4. /\ row' \in [Intents -> RowRecords] /\ row'[i] = r
      /\ \A j \in Intents : j # i => row'[j] = row[j]
  BY <1>1, <1>2, <1>3
<1>5. row[i].tx = NoTx /\ \A j \in Intents : row'[j].tx = row[j].tx
  BY <1>1, <1>2, <1>4 DEF Signed
<1>6. Signed'
  BY <1>1, <1>2, <1>4, <1>5 DEF Signed
<1>7. NoncesAreShared'
  BY <1>1, <1>5 DEF NoncesAreShared, Prepared
<1>8. Final'
  BY <1>1, <1>2, <1>4 DEF Final, Lost, Ok, Taken, Passed
<1>9. \A d \in Codes : claimedBy[d] # i
  BY <1>1 DEF Database, Active
<1>10. /\ claimedBy' \in [Codes -> Registrations \cup {NoIntent}]
       /\ \A d \in Codes : claimedBy'[d] = claimedBy[d] \/ (claimedBy'[d] = i /\ claimedBy[d] = NoIntent)
       /\ i \in Registrations => c \in Codes /\ claimedBy'[c] = i
  BY <1>1, <1>9 DEF CodeFree
<1>11. \A d \in Codes : claimedBy'[d] # NoIntent => row'[claimedBy'[d]].status \in Active \cup {"confirmed"}
  BY <1>1, <1>2, <1>4, <1>9, <1>10 DEF Database, Active
<1>12. Claims'
  <2>1. \A j \in Registrations :
          /\ row'[j].status \in Active \cup {"confirmed"} =>
               row'[j].code \in Codes /\ claimedBy'[row'[j].code] = j
          /\ row'[j].status = "confirmed" => row'[j].code \in consumed
    BY <1>1, <1>2, <1>4, <1>10 DEF Claims, Active
  <2>2. \A d \in consumed : claimedBy'[d] \in Registrations /\ row'[claimedBy'[d]].status = "confirmed"
    BY <1>1, <1>4, <1>9, <1>10 DEF Claims, Database
  <2> QED
    BY <2>1, <2>2 DEF Claims
<1>13. \A j \in Intents : row'[j].status = "submitted" => row'[j].tx # NoTx
  BY <1>1, <1>2, <1>4 DEF Database
<1> QED
  BY <1>1, <1>4, <1>6, <1>7, <1>8, <1>10, <1>11, <1>12, <1>13 DEF Database

\* The relayer's next nonce: where transactions exist, the node's count never passes the database's.
LEMMA NonceIsNext ==
    ASSUME EnrollmentInv, NEW pending \in PendingNonces
    PROVE  /\ TxNonce(pending) \in Nat /\ TxNonce(pending) >= nextNonce
           /\ Prepared # {} => TxNonce(pending) = nextNonce
           /\ mined <= TxNonce(pending)
<1>1. /\ nextNonce \in Nat /\ mined \in Nat /\ known \subseteq Intents /\ Signed
      /\ row \in [Intents -> RowRecords]
  BY DEF EnrollmentInv, Database, Chain
<1>2. Cardinality(known) \in Nat
  BY <1>1, EnrollmentAssumption, FS_Subset, FS_CardinalityType
<1>3. pending \in Nat /\ mined <= pending /\ \A m \in mined..(pending - 1) : \E i \in known : row[i].tx = m
  BY <1>1, <1>2 DEF PendingNonces
<1>4. ASSUME Prepared # {} PROVE pending <= nextNonce
  <2>1. mined <= nextNonce
    BY <1>1, <1>4 DEF Prepared, Signed
  <2>2. CASE pending = mined
    BY <2>1, <2>2
  <2>3. CASE pending > mined
    <3>1. pending - 1 \in mined..(pending - 1)
      BY <1>1, <1>3, <2>3
    <3>2. PICK i \in known : row[i].tx = pending - 1
      BY <1>3, <3>1
    <3>3. pending - 1 < nextNonce
      BY <1>1, <1>3, <2>3, <3>2 DEF Signed, NoTx
    <3> QED
      BY <1>1, <1>3, <3>3
  <2> QED
    BY <1>1, <1>3, <2>2, <2>3
<1> QED
  BY <1>1, <1>3, <1>4 DEF TxNonce

\* A signed transaction is stored.
LEMMA PrepareKeeps ==
    ASSUME EnrollmentInv, NEW i \in Intents, row[i].status = "ready", NEW pending \in PendingNonces,
           row' = [row EXCEPT ![i].status = "submitted", ![i].tx = TxNonce(pending)],
           nextNonce' = TxNonce(pending) + 1,
           UNCHANGED <<claimedBy, consumed, latest, settled, mined>>
    PROVE  Database'
<1>1. /\ Database /\ row \in [Intents -> RowRecords] /\ claimedBy \in [Codes -> Registrations \cup {NoIntent}]
      /\ Signed /\ Claims /\ Final /\ NoncesAreShared /\ mined \in Nat /\ nextNonce \in Nat
      /\ Registrations \subseteq Intents /\ NoIntent \notin Intents
  BY EnrollmentAssumption DEF EnrollmentInv, Database, Intents, Chain
<1> DEFINE t == TxNonce(pending)
<1>2. t \in Nat /\ t >= nextNonce /\ mined <= t /\ (Prepared # {} => t = nextNonce)
  BY NonceIsNext
<1>3. row' = [row EXCEPT ![i].status = "submitted", ![i].tx = t] /\ nextNonce' = t + 1
  OBVIOUS
<1> HIDE DEF t
<1>4. /\ row' \in [Intents -> RowRecords]
      /\ row'[i].status = "submitted" /\ row'[i].tx = t /\ row'[i].code = row[i].code
      /\ \A j \in Intents : j # i => row'[j] = row[j]
  <2> DEFINE r == [row[i] EXCEPT !.status = "submitted", !.tx = t]
  <2>1. row' = [row EXCEPT ![i] = r]
    BY <1>1, <1>3
  <2>2. r \in RowRecords /\ r.status = "submitted" /\ r.tx = t /\ r.code = row[i].code
    BY <1>1, <1>2 DEF RowRecords
  <2> HIDE DEF r
  <2> QED
    BY <1>1, <2>1, <2>2
<1>5. row[i].tx = NoTx /\ latest.result[i] = "none" /\ t # NoTx /\ \A j \in Intents : row[j].tx \in Int
  BY <1>1, <1>2 DEF Signed, NoTx, RowRecords
<1>6. Signed'
  <2>1. ASSUME NEW j \in Intents, row'[j].tx # NoTx PROVE row'[j].tx < nextNonce' /\ mined <= nextNonce'
    <3>1. CASE j = i
      BY <1>1, <1>2, <1>3, <1>4, <3>1
    <3>2. CASE j # i
      <4>1. row[j].tx < nextNonce /\ row'[j].tx = row[j].tx
        BY <1>1, <1>4, <2>1, <3>2 DEF Signed
      <4> QED
        BY <1>1, <1>2, <1>3, <1>5, <4>1
    <3> QED
      BY <3>1, <3>2
  <2>2. \A j \in Intents : row'[j].status \in {"none", "ready", "expired"} => row'[j].tx = NoTx
    BY <1>1, <1>4 DEF Signed
  <2>3. \A j \in Intents : latest.result[j] # "none" => row'[j].tx # NoTx /\ row'[j].tx < mined
    BY <1>1, <1>4, <1>5 DEF Signed
  <2> QED
    BY <2>1, <2>2, <2>3 DEF Signed
<1>7. NoncesAreShared'
  <2>1. ASSUME NEW j \in Intents, row[j].tx # NoTx PROVE row[j].tx < nextNonce /\ t = nextNonce
    BY <1>1, <1>2, <2>1 DEF Signed, Prepared
  <2>2. ASSUME NEW j \in Intents, NEW k \in Intents, row'[j].tx # NoTx, row'[j].tx = row'[k].tx PROVE j = k
    <3>1. CASE j # i /\ k # i
      BY <1>1, <1>4, <2>2, <3>1 DEF NoncesAreShared, Prepared
    <3>2. CASE j = i /\ k # i
      BY <1>1, <1>4, <1>5, <2>1, <2>2, <3>2
    <3>3. CASE k = i /\ j # i
      BY <1>1, <1>4, <1>5, <2>1, <2>2, <3>3
    <3> QED
      BY <3>1, <3>2, <3>3
  <2>3. ASSUME NEW j \in Intents, row'[j].tx # NoTx, NEW n \in 0..nextNonce', row'[j].tx < n, n < nextNonce'
        PROVE  \E k \in Intents : row'[k].tx # NoTx /\ row'[k].tx = n
    <3>1. n \in Nat /\ n <= t
      BY <1>2, <1>3, <2>3
    <3>2. CASE n = t
      BY <1>4, <1>5, <3>2
    <3>3. CASE n # t
      <4>1. j # i
        BY <1>2, <1>4, <2>3, <3>1, <3>3
      <4>2. row[j].tx # NoTx /\ row[j].tx < n /\ t = nextNonce
        BY <1>4, <2>1, <2>3, <4>1
      <4>3. n \in 0..nextNonce /\ n < nextNonce
        BY <1>1, <3>1, <3>3, <4>2
      <4>4. PICK k \in Intents : row[k].tx # NoTx /\ row[k].tx = n
        BY <1>1, <4>2, <4>3 DEF NoncesAreShared, Prepared
      <4> QED
        BY <1>4, <1>5, <4>4
    <3> QED
      BY <3>2, <3>3
  <2> QED
    BY <2>2, <2>3 DEF NoncesAreShared, Prepared
<1>8. Final'
  BY <1>1, <1>4 DEF Final, Lost, Ok, Taken, Passed
<1>9. Claims'
  BY <1>1, <1>4 DEF Claims, Active
<1>10. \A d \in Codes : claimedBy[d] # NoIntent => row'[claimedBy[d]].status \in Active \cup {"confirmed"}
  BY <1>1, <1>4 DEF Database, Active
<1>11. \A j \in Intents : row'[j].status = "submitted" => row'[j].tx # NoTx
  BY <1>1, <1>4, <1>5 DEF Database
<1>12. nextNonce' \in Nat
  BY <1>2, <1>3
<1> QED
  BY <1>1, <1>4, <1>6, <1>7, <1>8, <1>9, <1>10, <1>11, <1>12 DEF Database

\* A row takes a final status: what was said of its transaction, and of the other rows, holds on.
LEMMA RowCloses ==
    ASSUME EnrollmentInv, NEW i \in Intents, NEW to \in {"confirmed", "failed", "reverted", "expired"},
           to = "expired" => row[i].status = "ready",
           row' = [row EXCEPT ![i].status = to], UNCHANGED <<nextNonce, latest, settled, mined>>
    PROVE  /\ row' \in [Intents -> RowRecords] /\ nextNonce' \in Nat
           /\ row'[i].status = to /\ row'[i].code = row[i].code
           /\ \A j \in Intents : j # i => row'[j] = row[j]
           /\ \A j \in Intents : row'[j].status = "submitted" => row'[j].tx # NoTx
           /\ Signed' /\ NoncesAreShared'
<1>1. /\ Database /\ row \in [Intents -> RowRecords] /\ Signed /\ NoncesAreShared /\ nextNonce \in Nat
  BY DEF EnrollmentInv, Database
<1> DEFINE r == [row[i] EXCEPT !.status = to]
<1>2. row' = [row EXCEPT ![i] = r]
  BY <1>1
<1>3. r \in RowRecords /\ r.status = to /\ r.tx = row[i].tx /\ r.code = row[i].code
  BY <1>1 DEF RowRecords
<1> HIDE DEF r
<1>4. /\ row' \in [Intents -> RowRecords] /\ row'[i] = r
      /\ \A j \in Intents : j # i => row'[j] = row[j]
  BY <1>1, <1>2, <1>3
<1>5. \A j \in Intents : row'[j].tx = row[j].tx
  BY <1>3, <1>4
<1>6. \A j \in Intents : row'[j].status \in {"none", "ready", "expired"} => row'[j].tx = NoTx
  BY <1>1, <1>3, <1>4, <1>5 DEF Signed
<1>7. Signed'
  BY <1>1, <1>5, <1>6 DEF Signed
<1>8. NoncesAreShared'
  BY <1>1, <1>5 DEF NoncesAreShared, Prepared
<1>9. \A j \in Intents : row'[j].status = "submitted" => row'[j].tx # NoTx
  BY <1>1, <1>3, <1>4, <1>5 DEF Database
<1> QED
  BY <1>1, <1>3, <1>4, <1>7, <1>8, <1>9

\* The intent is on the chain: its code is used up.
LEMMA ConfirmKeeps ==
    ASSUME EnrollmentInv, NEW i \in Intents, row[i].status \in Active, Ok(settled, i),
           row' = [row EXCEPT ![i].status = "confirmed"],
           consumed' = consumed \cup {c \in Codes : c = row[i].code /\ claimedBy[c] = i},
           UNCHANGED <<claimedBy, nextNonce, latest, settled, mined>>
    PROVE  Database'
<1>1. /\ Database /\ claimedBy \in [Codes -> Registrations \cup {NoIntent}] /\ consumed \subseteq Codes
      /\ Claims /\ Final /\ Registrations \subseteq Intents
  BY DEF EnrollmentInv, Database, Intents
<1>2. /\ row' \in [Intents -> RowRecords] /\ nextNonce' \in Nat
      /\ row'[i].status = "confirmed" /\ row'[i].code = row[i].code
      /\ \A j \in Intents : j # i => row'[j] = row[j]
      /\ \A j \in Intents : row'[j].status = "submitted" => row'[j].tx # NoTx
      /\ Signed' /\ NoncesAreShared'
  BY RowCloses DEF Active
<1>3. Final'
  BY <1>1, <1>2 DEF Final, Lost, Ok, Taken, Passed
<1>4. \A c \in Codes : claimedBy[c] # NoIntent => row'[claimedBy[c]].status \in Active \cup {"confirmed"}
  BY <1>1, <1>2 DEF Database
<1>5. ASSUME NEW j \in Registrations
      PROVE  /\ row'[j].status \in Active \cup {"confirmed"} =>
                  row'[j].code \in Codes /\ claimedBy[row'[j].code] = j
             /\ row'[j].status = "confirmed" => row'[j].code \in consumed'
  <2>1. CASE j = i
    <3>1. row[i].code \in Codes /\ claimedBy[row[i].code] = i
      BY <1>1, <2>1 DEF Claims
    <3> QED
      BY <1>2, <2>1, <3>1
  <2>2. CASE j # i
    BY <1>1, <1>2, <2>2 DEF Claims
  <2> QED
    BY <2>1, <2>2
<1>6. ASSUME NEW c \in consumed'
      PROVE  claimedBy[c] \in Registrations /\ row'[claimedBy[c]].status = "confirmed"
  <2>1. CASE c \in consumed
    BY <1>1, <1>2, <2>1 DEF Claims
  <2>2. CASE c \in Codes /\ claimedBy[c] = i
    BY <1>1, <1>2, <2>2, EnrollmentAssumption
  <2> QED
    BY <2>1, <2>2
<1>7. Claims'
  BY <1>5, <1>6 DEF Claims
<1>8. consumed' \subseteq Codes
  BY <1>1
<1> QED
  BY <1>1, <1>2, <1>3, <1>4, <1>7, <1>8 DEF Database

\* The registration can be executed no more: its code is free again.
LEMMA FailKeeps ==
    ASSUME EnrollmentInv, NEW i \in Intents, row[i].status \in Active, Lost(i),
           row' = [row EXCEPT ![i].status = "failed"], claimedBy' = Freed(i),
           UNCHANGED <<consumed, nextNonce, latest, settled, mined>>
    PROVE  Database'
<1>1. /\ Database /\ claimedBy \in [Codes -> Registrations \cup {NoIntent}] /\ consumed \subseteq Codes
      /\ Claims /\ Final /\ Registrations \subseteq Intents /\ NoIntent \notin Intents
  BY EnrollmentAssumption DEF EnrollmentInv, Database, Intents
<1>2. /\ row' \in [Intents -> RowRecords] /\ nextNonce' \in Nat
      /\ row'[i].status = "failed" /\ row'[i].code = row[i].code
      /\ \A j \in Intents : j # i => row'[j] = row[j]
      /\ \A j \in Intents : row'[j].status = "submitted" => row'[j].tx # NoTx
      /\ Signed' /\ NoncesAreShared'
  BY RowCloses
<1>3. Final'
  BY <1>1, <1>2 DEF Final, Lost, Ok, Taken, Passed
<1>4. row[i].status # "confirmed"
  BY DEF Active
<1>5. \A c \in consumed : claimedBy[c] # i /\ claimedBy'[c] = claimedBy[c]
  BY <1>1, <1>4 DEF Claims, Freed
<1>6. /\ claimedBy' \in [Codes -> Registrations \cup {NoIntent}]
      /\ \A c \in Codes : /\ claimedBy[c] # i => claimedBy'[c] = claimedBy[c]
                          /\ claimedBy[c] = i => claimedBy'[c] = NoIntent
  BY <1>1, <1>5 DEF Freed
<1>7. \A c \in Codes : claimedBy'[c] # NoIntent => row'[claimedBy'[c]].status \in Active \cup {"confirmed"}
  BY <1>1, <1>2, <1>6 DEF Database
<1>8. ASSUME NEW j \in Registrations
      PROVE  /\ row'[j].status \in Active \cup {"confirmed"} =>
                  row'[j].code \in Codes /\ claimedBy'[row'[j].code] = j
             /\ row'[j].status = "confirmed" => row'[j].code \in consumed
  BY <1>1, <1>2, <1>6 DEF Claims, Active
<1>9. \A c \in consumed : claimedBy'[c] \in Registrations /\ row'[claimedBy'[c]].status = "confirmed"
  BY <1>1, <1>2, <1>5 DEF Claims
<1>10. Claims'
  BY <1>8, <1>9 DEF Claims
<1> QED
  BY <1>1, <1>2, <1>3, <1>6, <1>7, <1>10 DEF Database

\* A device action is over: reverted on the chain, or never signed in time.
LEMMA CloseKeeps ==
    ASSUME EnrollmentInv, NEW a \in Actions, NEW to \in {"reverted", "expired"},
           to = "expired" => row[a].status = "ready",
           to = "reverted" => settled.result[a] = "reverted",
           row' = [row EXCEPT ![a].status = to],
           UNCHANGED <<claimedBy, consumed, nextNonce, latest, settled, mined>>
    PROVE  Database'
<1>1. /\ Database /\ claimedBy \in [Codes -> Registrations \cup {NoIntent}] /\ consumed \subseteq Codes
      /\ Claims /\ Final /\ a \in Intents /\ a \notin Registrations /\ a # NoIntent
      /\ Registrations \subseteq Intents
  BY EnrollmentAssumption DEF EnrollmentInv, Database, Intents
<1>2. /\ row' \in [Intents -> RowRecords] /\ nextNonce' \in Nat
      /\ row'[a].status = to /\ row'[a].code = row[a].code
      /\ \A j \in Intents : j # a => row'[j] = row[j]
      /\ \A j \in Intents : row'[j].status = "submitted" => row'[j].tx # NoTx
      /\ Signed' /\ NoncesAreShared'
  BY <1>1, RowCloses
<1>3. Final'
  BY <1>1, <1>2 DEF Final, Lost, Ok, Taken, Passed
<1>4. \A c \in Codes : claimedBy[c] # a
  BY <1>1
<1>5. \A c \in Codes : claimedBy[c] # NoIntent => row'[claimedBy[c]].status \in Active \cup {"confirmed"}
  BY <1>1, <1>2, <1>4 DEF Database
<1>6. Claims'
  BY <1>1, <1>2 DEF Claims
<1> QED
  BY <1>1, <1>2, <1>3, <1>5, <1>6 DEF Database

-----------------------------------------------------------------------------
(* Requests.                                                               *)

\* The request goes on as one that knows its intent, and no other does.
Fits(q) == \E x \in RequestRecords : requests' = [requests EXCEPT ![q] = x] /\ Rightly(x)

\* A request that writes what the database may hold keeps the invariant.
LEMMA RequestKeeps ==
    ASSUME EnrollmentInv, NEW q \in Requests, Fits(q), Database',
           UNCHANGED <<latest, settled, mined>>, known' \subseteq Intents
    PROVE  EnrollmentInv'
<1>1. Chain /\ requests \in [Requests -> RequestRecords] /\ \A p \in Requests : Rightly(requests[p])
  BY DEF EnrollmentInv
<1>2. PICK x \in RequestRecords : requests' = [requests EXCEPT ![q] = x] /\ Rightly(x)
  BY DEF Fits
<1>3. /\ requests' \in [Requests -> RequestRecords]
      /\ \A p \in Requests : requests'[p] = x \/ requests'[p] = requests[p]
  BY <1>1, <1>2
<1>4. ASSUME NEW p \in Requests PROVE Rightly(requests[p])'
  <2>1. Rightly(requests'[p])
    BY <1>1, <1>2, <1>3
  <2> QED
    BY <2>1 DEF Rightly, Lost, Ok, Taken, Passed
<1>5. Chain'
  BY <1>1 DEF Chain, Ok, Passed
<1> QED
  BY <1>3, <1>4, <1>5 DEF EnrollmentInv

\* The database as it was.
LEMMA SameDatabase ==
    ASSUME EnrollmentInv, UNCHANGED <<row, claimedBy, consumed, nextNonce, latest, settled, mined>>
    PROVE  Database'
<1>1. Database
  BY DEF EnrollmentInv
<1>2. Signed' /\ Claims'
  BY <1>1 DEF Database, Signed, Claims
<1>3. Final' /\ NoncesAreShared'
  BY <1>1 DEF Database, Final, Lost, Ok, Taken, Passed, NoncesAreShared, Prepared
<1> QED
  BY <1>1, <1>2, <1>3 DEF Database

\* A request that is over.
LEMMA EndFits == ASSUME EnrollmentInv, NEW q \in Requests, End(q) PROVE Fits(q)
<1>1. Rightly(Idle)
  BY RecordsFit, EnrollmentAssumption DEF Rightly, Intents
<1> QED
  BY <1>1, RecordsFit DEF End, Fits

\* A request that goes on with the intent it has.
LEMMA GoesFits ==
    ASSUME EnrollmentInv, NEW q \in Requests, ~At(q, "idle"),
           NEW pc \in {"check", "prepare", "broadcast", "receipt", "confirm", "fail", "revert", "expire"},
           NEW failing \in BOOLEAN, NEW seen \in {"none"} \cup Active,
           requests' = [requests EXCEPT ![q] = [requests[q] EXCEPT !.pc = pc, !.failing = failing, !.seen = seen]],
           pc = "confirm" => Ok(settled, requests[q].intent),
           pc = "fail" => Lost(requests[q].intent),
           failing => pc \in {"broadcast", "fail"} /\ Lost(requests[q].intent),
           pc = "revert" => requests[q].intent \in Actions /\ settled.result[requests[q].intent] = "reverted",
           pc \in {"receipt", "expire"} => requests[q].intent \in Actions
    PROVE  Fits(q)
<1>1. requests[q] \in RequestRecords /\ Rightly(requests[q]) /\ requests[q].pc # "idle"
  BY DEF EnrollmentInv, At
<1> DEFINE x == [requests[q] EXCEPT !.pc = pc, !.failing = failing, !.seen = seen]
<1>2. /\ x \in RequestRecords /\ x.pc = pc /\ x.failing = failing
      /\ x.intent = requests[q].intent /\ x.code = requests[q].code /\ x.blocked = requests[q].blocked
  <2>1. x.pc = pc /\ x.failing = failing
    BY <1>1 DEF RequestRecords
  <2>2. x.intent = requests[q].intent /\ x.code = requests[q].code /\ x.blocked = requests[q].blocked
    BY <1>1 DEF RequestRecords
  <2>3. x \in RequestRecords
    BY <1>1 DEF RequestRecords
  <2> QED
    BY <2>1, <2>2, <2>3
<1>3. requests' = [requests EXCEPT ![q] = x]
  OBVIOUS
<1> HIDE DEF x
<1>4. Rightly(x)
  BY <1>1, <1>2 DEF Rightly
<1> QED
  BY <1>2, <1>3, <1>4 DEF Fits

\* A request that goes on with a stored intent.
LEMMA ResumeFits ==
    ASSUME EnrollmentInv, NEW q \in Requests, At(q, "idle") \/ At(q, "create"), NEW i \in Intents,
           row[i].status \in Active, NEW pc \in {"check", "prepare", "broadcast"}, Resume(q, i, pc)
    PROVE  Fits(q)
<1>1. /\ requests \in [Requests -> RequestRecords] /\ requests[q] \in RequestRecords
      /\ Rightly(requests[q]) /\ requests[q].pc \in {"idle", "create"}
  BY DEF EnrollmentInv, At
<1>2. requests[q].failing = FALSE
  <2>1. requests[q].failing \in BOOLEAN /\ ~requests[q].failing
    BY <1>1 DEF Rightly, RequestRecords
  <2> QED
    BY <2>1
<1> DEFINE x == [requests[q] EXCEPT !.pc = pc, !.intent = i, !.seen = row[i].status]
<1>3. /\ x \in RequestRecords /\ x.pc = pc /\ x.intent = i
      /\ x.failing = requests[q].failing /\ x.code = requests[q].code /\ x.blocked = requests[q].blocked
  <2>1. ASSUME NEW s \in Active
        PROVE  [requests[q] EXCEPT !.pc = pc, !.intent = i, !.seen = s] \in RequestRecords
    BY <1>1 DEF RequestRecords
  <2>2. x \in RequestRecords
    BY <2>1
  <2> QED
    BY <1>1, <2>2 DEF RequestRecords
<1>4. requests' = [requests EXCEPT ![q] = x]
  BY <1>1 DEF Resume
<1> HIDE DEF x
<1>5. Rightly(x)
  BY <1>1, <1>2, <1>3 DEF Rightly
<1> QED
  BY <1>3, <1>4, <1>5 DEF Fits

\* A request whose blocker is done with, or that had none.
LEMMA AfterFits == ASSUME EnrollmentInv, NEW q \in Requests, After(q) PROVE Fits(q)
<1>1. /\ requests \in [Requests -> RequestRecords] /\ requests[q] \in RequestRecords /\ Rightly(requests[q])
  BY DEF EnrollmentInv
<1>2. CASE requests[q].blocked = NoIntent
  BY <1>2, EndFits DEF After, End
<1>3. CASE requests[q].blocked # NoIntent
  <2> DEFINE waiting == requests[q].blocked
             x == [requests[q] EXCEPT !.pc = "create", !.intent = waiting, !.blocked = NoIntent, !.seen = "none",
                                      !.failing = FALSE]
  <2>1. requests' = [requests EXCEPT ![q] = x]
    BY <1>1, <1>3 DEF After
  <2>2. waiting \in Intents
    BY <1>1, <1>3 DEF RequestRecords
  <2>3. /\ x \in RequestRecords /\ x.pc = "create" /\ x.intent = waiting /\ x.blocked = NoIntent
        /\ x.failing = FALSE /\ x.code = requests[q].code
    <3> HIDE DEF waiting
    <3> QED
      BY <1>1, <2>2 DEF RequestRecords
  <2>4. waiting \in Registrations => requests[q].code \in Codes
    BY <1>1 DEF Rightly
  <2> HIDE DEF x, waiting
  <2>5. Rightly(x)
    BY <2>2, <2>3, <2>4, EnrollmentAssumption DEF Rightly, Intents
  <2> QED
    BY <2>1, <2>3, <2>5 DEF Fits
<1> QED
  BY <1>2, <1>3

\* A request that turns to the intent in its way.
LEMMA UnblockFits ==
    ASSUME EnrollmentInv, NEW q \in Requests, At(q, "create"), NEW j \in Intents, row[j].status \in Active,
           Unblock(q, j)
    PROVE  Fits(q)
<1>1. /\ requests \in [Requests -> RequestRecords] /\ requests[q] \in RequestRecords /\ Rightly(requests[q])
      /\ requests[q].pc = "create" /\ ~requests[q].failing
  BY DEF EnrollmentInv, At, Rightly
<1> DEFINE x == [requests[q] EXCEPT !.pc = "check", !.intent = j, !.seen = row[j].status,
                                    !.blocked = requests[q].intent, !.tried = requests[q].tried \cup {j}]
<1>2. requests' = [requests EXCEPT ![q] = x]
  BY <1>1 DEF Unblock
<1>3. /\ x \in RequestRecords /\ x.pc = "check" /\ x.intent = j /\ x.blocked = requests[q].intent
      /\ x.failing = requests[q].failing /\ x.code = requests[q].code
  <2>1. ASSUME NEW s \in Active, NEW b \in Intents \cup {NoIntent}, NEW t \in SUBSET Intents
        PROVE  [requests[q] EXCEPT !.pc = "check", !.intent = j, !.seen = s, !.blocked = b, !.tried = t]
                 \in RequestRecords
    BY <1>1 DEF RequestRecords
  <2>2. requests[q].intent \in Intents \cup {NoIntent} /\ requests[q].tried \cup {j} \in SUBSET Intents
    BY <1>1 DEF RequestRecords
  <2>3. x \in RequestRecords
    BY <2>1, <2>2
  <2> QED
    BY <1>1, <2>3 DEF RequestRecords
<1> HIDE DEF x
<1>4. Rightly(x)
  BY <1>1, <1>3 DEF Rightly
<1> QED
  BY <1>2, <1>3, <1>4 DEF Fits

\* A request that stores an intent it has not stored before.
LEMMA NewFits ==
    ASSUME EnrollmentInv, NEW q \in Requests, NEW i \in Intents, NEW c \in Codes \cup {NoCode},
           requests' = [requests EXCEPT ![q] = [Idle EXCEPT !.pc = "create", !.intent = i, !.code = c]],
           i \in Registrations => c \in Codes
    PROVE  Fits(q)
<1> DEFINE x == [Idle EXCEPT !.pc = "create", !.intent = i, !.code = c]
<1>1. x \in RequestRecords
  BY RecordsFit DEF RequestRecords
<1>2. x.pc = "create" /\ x.intent = i /\ x.code = c /\ x.failing = FALSE /\ x.blocked = NoIntent
  BY DEF Idle
<1>3. requests' = [requests EXCEPT ![q] = x]
  OBVIOUS
<1> HIDE DEF x
<1>4. Rightly(x)
  BY <1>2, EnrollmentAssumption DEF Rightly, Intents
<1> QED
  BY <1>1, <1>3, <1>4 DEF Fits

\* A request arrives, or dies.
LEMMA ArrivalKeeps ==
    ASSUME EnrollmentInv, NEW q \in Requests,
           \/ \E i \in Registrations, c \in Codes : Register(q, i, c)
           \/ \E a \in Actions : SubmitAction(q, a)
           \/ \E i \in Intents : Reconcile(q, i)
           \/ Drop(q)
    PROVE  EnrollmentInv'
<1>1. /\ UNCHANGED <<row, claimedBy, consumed, nextNonce, latest, settled, known, mined>>
      /\ Registrations \subseteq Intents /\ Actions \subseteq Intents /\ known \subseteq Intents
  BY DEF Register, SubmitAction, Reconcile, Drop, dbVars, chainVars, Intents, EnrollmentInv, Chain
<1>2. ASSUME NEW i \in Registrations, NEW c \in Codes, Register(q, i, c) PROVE Fits(q)
  <2>1. CASE row[i].status = "ready" /\ Resume(q, i, "check")
    BY <1>1, <1>2, <2>1, ResumeFits DEF Register, Active
  <2>2. CASE row[i].status = "submitted" /\ Resume(q, i, "broadcast")
    BY <1>1, <1>2, <2>2, ResumeFits DEF Register, Active
  <2>3. CASE requests' = [requests EXCEPT ![q] = [Idle EXCEPT !.pc = "create", !.intent = i, !.code = c]]
    BY <1>1, <2>3, NewFits
  <2> QED
    BY <1>2, <2>1, <2>2, <2>3 DEF Register
<1>3. ASSUME NEW a \in Actions, SubmitAction(q, a) PROVE Fits(q)
  <2>1. CASE row[a].status \in Active /\ Resume(q, a, "check")
    BY <1>1, <1>3, <2>1, ResumeFits DEF SubmitAction
  <2>2. CASE requests' = [requests EXCEPT ![q] = [Idle EXCEPT !.pc = "create", !.intent = a]]
    <3>1. [Idle EXCEPT !.pc = "create", !.intent = a] =
          [Idle EXCEPT !.pc = "create", !.intent = a, !.code = NoCode]
      <4>1. Idle.code = NoCode
        BY DEF Idle
      <4> QED
        BY <4>1, RecordsFit DEF RequestRecords
    <3>2. a \notin Registrations
      BY EnrollmentAssumption
    <3> QED
      BY <1>1, <2>2, <3>1, <3>2, NewFits
  <2> QED
    BY <1>3, <2>1, <2>2 DEF SubmitAction
<1>4. ASSUME NEW i \in Intents, Reconcile(q, i) PROVE Fits(q)
  BY <1>4, ResumeFits DEF Reconcile
<1>5. ASSUME Drop(q) PROVE Fits(q)
  BY <1>5, EndFits DEF Drop
<1>6. Fits(q)
  BY <1>2, <1>3, <1>4, <1>5
<1> QED
  BY <1>1, <1>6, RequestKeeps, SameDatabase

\* The intent is stored, was stored before, or another one is in its way.
LEMMA CreateKeeps ==
    ASSUME EnrollmentInv, NEW q \in Requests, CreateRegistration(q) \/ CreateAction(q)
    PROVE  EnrollmentInv'
<1> DEFINE i == requests[q].intent
           c == requests[q].code
<1>1. /\ UNCHANGED <<consumed, nextNonce, latest, settled, known, mined>> /\ known \subseteq Intents
      /\ At(q, "create") /\ ~At(q, "idle") /\ i \in Intents
  BY DEF CreateRegistration, CreateAction, chainVars, Intents, EnrollmentInv, Chain, At
<1>2. /\ requests[q] \in RequestRecords /\ Rightly(requests[q]) /\ requests \in [Requests -> RequestRecords]
  BY DEF EnrollmentInv
<1>3. ~requests[q].failing /\ requests[q].failing \in BOOLEAN /\ c \in Codes \cup {NoCode}
      /\ (i \in Registrations => c \in Codes)
  BY <1>1, <1>2 DEF Rightly, RequestRecords, At
<1>4. Blockers(i) \subseteq Intents /\ \A j \in Blockers(i) : row[j].status \in Active
  <2>1. Rivals[i] \subseteq Intents
    BY <1>1 DEF Rivals, Intents
  <2> QED
    BY <2>1 DEF Blockers
<1>5. ASSUME NEW pc \in {"check", "prepare"},
             requests' = [requests EXCEPT ![q].pc = pc, ![q].seen = "ready"]
      PROVE  Fits(q)
  <2>1. [requests[q] EXCEPT !.pc = pc, !.seen = "ready"] =
        [requests[q] EXCEPT !.pc = pc, !.failing = FALSE, !.seen = "ready"]
    BY <1>2, <1>3 DEF RequestRecords
  <2>2. requests' = [requests EXCEPT ![q] = [requests[q] EXCEPT !.pc = pc, !.failing = FALSE, !.seen = "ready"]]
    BY <1>2, <1>5, <2>1
  <2> QED
    BY <1>1, <2>2, GoesFits DEF Active
<1>6. CASE CreateRegistration(q)
  <2>1. i \in Registrations
    BY <1>6 DEF CreateRegistration
  <2>2. CASE /\ UNCHANGED <<row, claimedBy>>
             /\ \/ row[i].status = "ready" /\ Resume(q, i, "prepare")
                \/ row[i].status = "submitted" /\ Resume(q, i, "broadcast")
                \/ End(q)
                \/ \E j \in Blockers(i) : Unblock(q, j)
    <3>1. Fits(q)
      BY <1>1, <1>4, <2>2, ResumeFits, EndFits, UnblockFits DEF Active
    <3> QED
      BY <1>1, <2>2, <3>1, RequestKeeps, SameDatabase
  <2>3. CASE /\ row[i].status = "none" /\ CodeFree(i, c) /\ Insert(i, c)
             /\ claimedBy' = [claimedBy EXCEPT ![c] = i]
             /\ requests' = [requests EXCEPT ![q].pc = "prepare", ![q].seen = "ready"]
    <3>1. Database'
      BY <1>1, <1>3, <2>1, <2>3, InsertKeeps DEF Insert
    <3>2. Fits(q)
      BY <1>5, <2>3
    <3> QED
      BY <1>1, <3>1, <3>2, RequestKeeps
  <2> QED
    BY <1>6, <2>2, <2>3 DEF CreateRegistration
<1>7. CASE CreateAction(q)
  <2>1. i \in Actions
    BY <1>7 DEF CreateAction
  <2>2. CASE /\ UNCHANGED <<row, claimedBy>>
             /\ \/ row[i].status \in Active /\ Resume(q, i, "check")
                \/ End(q)
                \/ \E j \in Blockers(i) : Unblock(q, j)
    <3>1. Fits(q)
      BY <1>1, <1>4, <2>2, ResumeFits, EndFits, UnblockFits
    <3> QED
      BY <1>1, <2>2, <3>1, RequestKeeps, SameDatabase
  <2>3. CASE /\ row[i].status = "none" /\ Insert(i, NoCode) /\ claimedBy' = claimedBy
             /\ requests' = [requests EXCEPT ![q].pc = "check", ![q].seen = "ready"]
    <3>1. Database'
      BY <1>1, <2>1, <2>3, InsertKeeps DEF Insert
    <3>2. Fits(q)
      BY <1>5, <2>3
    <3> QED
      BY <1>1, <3>1, <3>2, RequestKeeps
  <2> QED
    BY <1>7, <2>2, <2>3 DEF CreateAction
<1> QED
  BY <1>6, <1>7

\* What the chain says of the intent decides where the request goes on.
LEMMA CheckKeeps ==
    ASSUME EnrollmentInv, NEW q \in Requests,
           CheckRegistration(q) \/ CheckAction(q) \/ Broadcast(q) \/ LookAgain(q)
    PROVE  EnrollmentInv'
<1> DEFINE i == requests[q].intent
<1>1. /\ UNCHANGED <<row, claimedBy, consumed, nextNonce, latest, settled, mined>>
      /\ ~At(q, "idle") /\ i \in Intents /\ known' \subseteq Intents
      /\ requests \in [Requests -> RequestRecords] /\ requests[q] \in RequestRecords /\ Rightly(requests[q])
  <2>1. ~At(q, "idle")
    BY DEF CheckRegistration, CheckAction, Broadcast, LookAgain, At
  <2>2. requests \in [Requests -> RequestRecords] /\ requests[q] \in RequestRecords /\ Rightly(requests[q])
    BY DEF EnrollmentInv
  <2>3. i \in Intents /\ known \subseteq Intents
    BY <2>1, <2>2 DEF At, Rightly, EnrollmentInv, Chain
  <2> QED
    BY <2>1, <2>2, <2>3 DEF CheckRegistration, CheckAction, Broadcast, LookAgain, dbVars, chainVars
<1>2. requests[q].failing \in BOOLEAN /\ requests[q].seen \in {"none"} \cup Active
  BY <1>1 DEF RequestRecords
<1>3. ASSUME NEW pc \in {"check", "prepare", "broadcast", "receipt", "confirm", "fail", "revert", "expire"},
             Goes(q, pc),
             pc = "confirm" => Ok(settled, i), pc = "fail" => Lost(i),
             requests[q].failing => pc \in {"broadcast", "fail"},
             pc = "revert" => i \in Actions /\ settled.result[i] = "reverted",
             pc \in {"receipt", "expire"} => i \in Actions
      PROVE  Fits(q)
  <2>1. [requests[q] EXCEPT !.pc = pc] =
        [requests[q] EXCEPT !.pc = pc, !.failing = requests[q].failing, !.seen = requests[q].seen]
    BY <1>1 DEF RequestRecords
  <2>2. requests' = [requests EXCEPT ![q] =
          [requests[q] EXCEPT !.pc = pc, !.failing = requests[q].failing, !.seen = requests[q].seen]]
    BY <1>1, <1>3, <2>1 DEF Goes
  <2>3. requests[q].failing => Lost(i)
    BY <1>1 DEF Rightly
  <2> QED
    BY <1>1, <1>2, <1>3, <2>2, <2>3, GoesFits
<1>4. CASE CheckRegistration(q)
  <2> DEFINE lost == ~Ok(settled, i) /\ (Taken(settled, i) \/ Passed(settled, i))
             failing == lost /\ requests[q].seen = "submitted"
             pc == IF Ok(settled, i) THEN "confirm"
                   ELSE IF requests[q].seen = "submitted" THEN "broadcast"
                   ELSE IF lost THEN "fail" ELSE "prepare"
  <2>1. i \in Registrations /\ requests' = [requests EXCEPT ![q].pc = pc, ![q].failing = failing]
    BY <1>4 DEF CheckRegistration
  <2>2. [requests[q] EXCEPT !.pc = pc, !.failing = failing] =
        [requests[q] EXCEPT !.pc = pc, !.failing = failing, !.seen = requests[q].seen]
    <3> HIDE DEF pc, failing
    <3> QED
      BY <1>1 DEF RequestRecords
  <2>3. requests' = [requests EXCEPT ![q] =
          [requests[q] EXCEPT !.pc = pc, !.failing = failing, !.seen = requests[q].seen]]
    <3> HIDE DEF pc, failing
    <3> QED
      BY <1>1, <2>1, <2>2
  <2>4. pc \in {"confirm", "broadcast", "fail", "prepare"} /\ failing \in BOOLEAN
    OBVIOUS
  <2>5. /\ pc = "confirm" => Ok(settled, i)
        /\ pc = "fail" => Lost(i)
        /\ failing => pc \in {"broadcast", "fail"} /\ Lost(i)
    BY <2>1 DEF Lost
  <2> HIDE DEF pc, failing
  <2>6. Fits(q)
    BY <1>1, <1>2, <2>3, <2>4, <2>5, GoesFits
  <2> QED
    BY <1>1, <2>6, RequestKeeps, SameDatabase
<1>5. CASE CheckAction(q)
  <2>1. i \in Actions /\ ~requests[q].failing
    BY <1>1, <1>5 DEF CheckAction, At, Rightly
  <2>2. \/ Goes(q, "confirm") /\ settled.result[i] = "ok"
        \/ Goes(q, "revert") /\ settled.result[i] = "reverted"
        \/ Goes(q, "broadcast") \/ Goes(q, "expire") \/ Goes(q, "prepare")
    BY <1>5 DEF CheckAction, Receipt
  <2>3. Fits(q)
    BY <1>3, <2>1, <2>2 DEF Ok
  <2> QED
    BY <1>1, <2>3, RequestKeeps, SameDatabase
<1>6. CASE Broadcast(q)
  <2>1. requests[q].pc = "broadcast" /\ (requests[q].failing => Lost(i))
    BY <1>1, <1>6 DEF Broadcast, At, Rightly
  <2>2. \/ i \in Actions /\ Goes(q, "receipt")
        \/ i \notin Actions /\ requests[q].failing /\ Goes(q, "fail")
        \/ End(q)
    BY <1>6 DEF Broadcast
  <2>3. i \in Actions => ~requests[q].failing
    BY <2>1, EnrollmentAssumption DEF Lost
  <2>4. Fits(q)
    BY <1>3, <2>1, <2>2, <2>3, EndFits
  <2> QED
    BY <1>1, <2>4, RequestKeeps, SameDatabase
<1>7. CASE LookAgain(q)
  <2>1. i \in Actions /\ ~requests[q].failing
    BY <1>1, <1>7 DEF LookAgain, At, Rightly
  <2>2. settled.result[i] \in {"none", "ok", "reverted"}
    BY <1>1 DEF EnrollmentInv, Chain, Blocks
  <2>3. \/ Goes(q, "confirm") /\ settled.result[i] = "ok"
        \/ Goes(q, "revert") /\ settled.result[i] = "reverted"
        \/ End(q)
    BY <1>7, <2>2 DEF LookAgain, Receipt
  <2>4. Fits(q)
    BY <1>3, <2>1, <2>3, EndFits DEF Ok
  <2> QED
    BY <1>1, <2>4, RequestKeeps, SameDatabase
<1> QED
  BY <1>4, <1>5, <1>6, <1>7

\* The transaction is signed, or it was by another request.
LEMMA SigningKeeps == ASSUME EnrollmentInv, NEW q \in Requests, Prepare(q) PROVE EnrollmentInv'
<1> DEFINE i == requests[q].intent
<1>1. /\ UNCHANGED <<claimedBy, consumed, latest, settled, known, mined>>
      /\ requests[q].pc = "prepare" /\ i \in Intents /\ known \subseteq Intents
      /\ requests \in [Requests -> RequestRecords] /\ requests[q] \in RequestRecords /\ Rightly(requests[q])
  BY DEF Prepare, chainVars, At, EnrollmentInv, Rightly, Chain
<1>2. requests[q].failing = FALSE /\ requests[q].seen \in {"none"} \cup Active
  <2>1. ~requests[q].failing /\ requests[q].failing \in BOOLEAN /\ requests[q].seen \in {"none"} \cup Active
    BY <1>1 DEF Rightly, RequestRecords
  <2> QED
    BY <2>1
<1>3. ASSUME Goes(q, "broadcast") PROVE Fits(q)
  <2>1. [requests[q] EXCEPT !.pc = "broadcast"] =
        [requests[q] EXCEPT !.pc = "broadcast", !.failing = FALSE, !.seen = requests[q].seen]
    BY <1>1, <1>2 DEF RequestRecords
  <2>2. requests' = [requests EXCEPT ![q] =
          [requests[q] EXCEPT !.pc = "broadcast", !.failing = FALSE, !.seen = requests[q].seen]]
    BY <1>1, <1>3, <2>1 DEF Goes
  <2> QED
    BY <1>1, <1>2, <2>2, GoesFits DEF At
<1>4. ASSUME row[i].status = "ready", NEW pending \in PendingNonces, Goes(q, "broadcast"),
             row' = [row EXCEPT ![i].status = "submitted", ![i].tx = TxNonce(pending)],
             nextNonce' = TxNonce(pending) + 1
      PROVE  EnrollmentInv'
  BY <1>1, <1>3, <1>4, PrepareKeeps, RequestKeeps
<1>5. ASSUME UNCHANGED <<row, nextNonce>>, Goes(q, "broadcast") \/ After(q) \/ End(q) PROVE EnrollmentInv'
  BY <1>1, <1>3, <1>5, AfterFits, EndFits, SameDatabase, RequestKeeps
<1> QED
  BY <1>4, <1>5 DEF Prepare

\* A status that is final.
LEMMA FinishKeeps ==
    ASSUME EnrollmentInv, NEW q \in Requests, Confirm(q) \/ Fail(q) \/ Revert(q) \/ Expire(q)
    PROVE  EnrollmentInv'
<1> DEFINE i == requests[q].intent
<1>1. /\ UNCHANGED <<nextNonce, latest, settled, known, mined>> /\ known \subseteq Intents
      /\ Rightly(requests[q]) /\ requests[q].pc # "idle" /\ i \in Intents
  <2>1. UNCHANGED <<nextNonce, latest, settled, known, mined>> /\ requests[q].pc # "idle"
    BY DEF Confirm, Fail, Revert, Expire, Close, chainVars, At
  <2> QED
    BY <2>1 DEF EnrollmentInv, Rightly, Chain
<1>2. Fits(q)
  BY AfterFits, EndFits DEF Confirm, Fail, Revert, Expire, Close
<1>3. CASE Confirm(q)
  <2>1. Ok(settled, i) /\ claimedBy' = claimedBy
    BY <1>1, <1>3 DEF Confirm, At, Rightly
  <2>2. Database'
    <3>1. ASSUME row[i].status \in Active PROVE Database'
      BY <1>1, <1>3, <2>1, <3>1, ConfirmKeeps DEF Confirm
    <3>2. ASSUME row[i].status \notin Active PROVE Database'
      BY <1>1, <1>3, <2>1, <3>2, SameDatabase DEF Confirm
    <3> QED
      BY <3>1, <3>2
  <2> QED
    BY <1>1, <1>2, <2>2, RequestKeeps
<1>4. CASE Fail(q)
  <2>1. Lost(i) /\ consumed' = consumed
    BY <1>1, <1>4 DEF Fail, At, Rightly
  <2>2. Database'
    <3>1. ASSUME row[i].status \in Active PROVE Database'
      BY <1>1, <1>4, <2>1, <3>1, FailKeeps DEF Fail
    <3>2. ASSUME row[i].status \notin Active PROVE Database'
      BY <1>1, <1>4, <2>1, <3>2, SameDatabase DEF Fail
    <3> QED
      BY <3>1, <3>2
  <2> QED
    BY <1>1, <1>2, <2>2, RequestKeeps
<1>5. CASE Revert(q) \/ Expire(q)
  <2>1. UNCHANGED <<claimedBy, consumed>> /\ i \in Actions
    BY <1>1, <1>5 DEF Revert, Expire, Close, At, Rightly
  <2>2. \/ row' = row
        \/ row' = [row EXCEPT ![i].status = "reverted"] /\ settled.result[i] = "reverted"
        \/ row' = [row EXCEPT ![i].status = "expired"] /\ row[i].status = "ready"
    BY <1>1, <1>5 DEF Revert, Expire, Close, At, Rightly
  <2>3. Database'
    BY <1>1, <2>1, <2>2, CloseKeeps, SameDatabase
  <2> QED
    BY <1>1, <1>2, <2>3, RequestKeeps
<1> QED
  BY <1>3, <1>4, <1>5

-----------------------------------------------------------------------------

\* Every step keeps the invariant.
LEMMA EnrollmentNext == ASSUME EnrollmentInv, [Next]_vars PROVE EnrollmentInv'
<1>1. CASE UNCHANGED vars
  <2>1. UNCHANGED <<row, claimedBy, consumed, nextNonce, latest, settled, known, mined, requests>>
    BY <1>1 DEF vars
  <2>2. Database'
    BY <2>1, SameDatabase
  <2>3. Chain'
    BY <2>1 DEF EnrollmentInv, Chain, Ok, Passed
  <2>4. ASSUME NEW q \in Requests PROVE Rightly(requests[q])'
    BY <2>1 DEF EnrollmentInv, Rightly, Lost, Ok, Taken, Passed
  <2> QED
    BY <2>1, <2>2, <2>3, <2>4 DEF EnrollmentInv
<1>2. CASE Tick \/ Settle \/ \E i \in Intents : Execute(i)
  BY <1>2, ChainKeeps
<1>3. ASSUME NEW q \in Requests,
             \/ \E i \in Registrations, c \in Codes : Register(q, i, c)
             \/ \E a \in Actions : SubmitAction(q, a)
             \/ \E i \in Intents : Reconcile(q, i)
             \/ RequestStep(q) \/ Drop(q)
      PROVE  EnrollmentInv'
  <2>1. CASE RequestStep(q)
    BY <2>1, CreateKeeps, CheckKeeps, SigningKeeps, FinishKeeps DEF RequestStep
  <2> QED
    BY <1>3, <2>1, ArrivalKeeps
<1> QED
  BY <1>1, <1>2, <1>3 DEF Next

\* What the API's database, its requests and the chain keep true at every step.
THEOREM EnrollmentInvariant == Spec => []EnrollmentInv
<1>1. Init => EnrollmentInv
  BY EnrollmentInit
<1>2. EnrollmentInv /\ [Next]_vars => EnrollmentInv'
  BY EnrollmentNext
<1> QED
  BY <1>1, <1>2, PTL DEF Spec

\* The relayer's transactions have nonces of their own and none is left out, whichever processes
\* prepare them and die meanwhile (prepareSubmission of both services).
THEOREM NoncesHaveNoGap == Spec => []NoncesAreShared
<1>1. EnrollmentInv => NoncesAreShared
  BY DEF EnrollmentInv, Database
<1> QED
  BY <1>1, EnrollmentInvariant, PTL

\* What is lost was not executed.
LEMMA LostIsOver ==
    ASSUME EnrollmentInv, NEW i \in Intents, Lost(i)
    PROVE  ~Ok(latest, i)
<1>1. Chain /\ Registrations \subseteq Intents
  BY DEF EnrollmentInv, Intents
<1>2. ASSUME Taken(settled, i), Ok(latest, i) PROVE FALSE
  <2>1. PICK j \in Registrations : Ok(settled, j) /\ (Handle[j] = Handle[i] \/ Owner[j] = Owner[i])
    BY <1>2 DEF Taken
  <2>2. Ok(latest, j)
    BY <1>1, <2>1 DEF Chain, Ok
  <2> QED
    BY <1>1, <1>2, <2>1, <2>2 DEF Chain, Lost
<1>3. ASSUME Passed(settled, i), Ok(latest, i) PROVE FALSE
  BY <1>1, <1>3 DEF Chain, Lost
<1> QED
  BY <1>2, <1>3 DEF Lost

\* Nor was what is over.
LEMMA FinalIsTold == EnrollmentInv => StatusTellsOutcome
<1> SUFFICES ASSUME EnrollmentInv, NEW i \in Intents
             PROVE  /\ row[i].status = "confirmed" => Ok(settled, i)
                    /\ row[i].status \in {"failed", "reverted", "expired"} => ~Ok(latest, i)
  BY DEF StatusTellsOutcome
<1>1. Signed /\ Final /\ Chain
  BY DEF EnrollmentInv, Database
<1>2. row[i].status = "failed" => ~Ok(latest, i)
  BY <1>1, LostIsOver DEF Final
<1>3. row[i].status = "reverted" => ~Ok(latest, i)
  BY <1>1 DEF Final, Chain, Ok
<1>4. row[i].status = "expired" => ~Ok(latest, i)
  BY <1>1 DEF Signed, Ok
<1> QED
  BY <1>1, <1>2, <1>3, <1>4 DEF Final

\* What the API calls confirmed is on the chain, and what it calls failed, reverted or expired never will
\* be (device-action/enrollment.ts, lines 316-317).
THEOREM StatusIsTrue == Spec => []StatusTellsOutcome
  BY FinalIsTold, EnrollmentInvariant, PTL

\* A registration on the chain holds its code.
LEMMA CodeIsHeld == EnrollmentInv => CodeAdmitsOne
<1> SUFFICES ASSUME EnrollmentInv PROVE CodeAdmitsOne
  OBVIOUS
<1>1. Database /\ Signed /\ Claims /\ row \in [Intents -> RowRecords] /\ Registrations \subseteq Intents
  BY DEF EnrollmentInv, Database, Intents
<1>2. ASSUME NEW i \in Registrations, Ok(latest, i)
      PROVE  row[i].code \in Codes /\ claimedBy[row[i].code] = i
  <2>1. row[i].status \notin {"failed", "reverted", "expired"}
    BY <1>1, <1>2, FinalIsTold DEF StatusTellsOutcome
  <2>2. row[i].status \notin {"none", "ready"}
    BY <1>1, <1>2 DEF Signed, Ok
  <2>3. row[i].status \in {"submitted", "confirmed"}
    BY <1>1, <2>1, <2>2 DEF RowRecords
  <2> QED
    BY <1>1, <2>3 DEF Claims, Active
<1>3. \A i, j \in Registrations : Ok(latest, i) /\ Ok(latest, j) /\ row[i].code = row[j].code => i = j
  BY <1>2
<1>4. \A i \in Registrations : row[i].status = "confirmed" => row[i].code \in consumed
  BY <1>1 DEF Claims
<1> QED
  BY <1>3, <1>4 DEF CodeAdmitsOne

\* A code that a failed registration gave back admits no second account
\* (registration/store.ts, lines 222-246 and 513-530).
THEOREM OneAccountPerCode == Spec => []CodeAdmitsOne
  BY CodeIsHeld, EnrollmentInvariant, PTL

\* Rows, codes, nonces, blocks and requests are what their types say.
THEOREM EnrollmentTypes == Spec => []TypeOK
<1>1. EnrollmentInv => TypeOK
  BY DEF EnrollmentInv, Database, Chain, TypeOK, RowRecords, RequestRecords
<1> QED
  BY <1>1, EnrollmentInvariant, PTL
-----------------------------------------------------------------------------
(* The intent book.                                                        *)

\* What the book says of each intent.
Answers == [i \in Intents |-> Answer[row[i].status]]

\* A row of each status, in the book.
LEMMA AnswersAre ==
    /\ Answer["none"] = "none" /\ Answer["ready"] = "open" /\ Answer["submitted"] = "open"
    /\ Answer["confirmed"] = "confirmed"
    /\ Answer["failed"] = "over" /\ Answer["reverted"] = "over" /\ Answer["expired"] = "over"
  BY DEF Answer

\* A row that gets another status gets another answer, and no other row does.
LEMMA OneAnswer ==
    ASSUME EnrollmentInv, NEW i \in Intents, NEW r, row' = [row EXCEPT ![i] = r]
    PROVE  Answers' = [Answers EXCEPT ![i] = Answer[r.status]]
<1>1. row \in [Intents -> RowRecords]
  BY DEF EnrollmentInv, Database
<1> QED
  BY <1>1 DEF Answers

\* The book is as it was when no row gets another answer and nothing is executed.
LEMMA BookStays ==
    ASSUME Answers' = Answers, UNCHANGED claimedBy, latest'.result = latest.result
    PROVE  UNCHANGED Book!bookVars
  BY DEF Book!bookVars, Answers

\* A new row is an intent opened, with a code of its own if it is a registration.
LEMMA CreateOpens ==
    ASSUME EnrollmentInv, NEW q \in Requests, CreateRegistration(q) \/ CreateAction(q)
    PROVE  [Book!Next]_(Book!bookVars)
<1>0. PICK i, c : i = requests[q].intent /\ c = requests[q].code
  OBVIOUS
<1>1. /\ row \in [Intents -> RowRecords] /\ claimedBy \in [Codes -> Registrations \cup {NoIntent}]
      /\ NoIntent \notin Intents /\ Registrations \cap Actions = {} /\ Intents = Registrations \cup Actions
  BY EnrollmentAssumption DEF EnrollmentInv, Database, Intents
<1>2. /\ latest' = latest /\ i \in Intents /\ (i \in Registrations => c \in Codes)
  BY <1>0 DEF CreateRegistration, CreateAction, chainVars, Intents, EnrollmentInv, Rightly, At
<1>3. CASE UNCHANGED <<row, claimedBy>>
  BY <1>2, <1>3, BookStays DEF Answers
<1>4. ASSUME NEW d \in Codes \cup {NoCode}, Insert(i, d), row[i].status = "none", Blockers(i) = {}
      PROVE  Book!Open(i)
  <2>1. PICK r : row' = [row EXCEPT ![i] = r] /\ r.status = "ready"
    <3>1. [NoRow EXCEPT !.status = "ready", !.code = d].status = "ready"
      BY DEF NoRow
    <3> QED
      BY <1>4, <3>1 DEF Insert
  <2>2. Answers' = [Answers EXCEPT ![i] = "open"] /\ Answers[i] = "none"
    <3>1. Answers' = [Answers EXCEPT ![i] = Answer[r.status]]
      BY <1>2, <2>1, OneAnswer
    <3> QED
      BY <1>2, <1>4, <2>1, <3>1, AnswersAre DEF Answers
  <2>3. ASSUME NEW j \in Rivals[i] PROVE j \in Intents /\ Answers[j] # "open"
    <3>1. j \in Intents
      BY <1>1, <1>2 DEF Rivals
    <3>2. row[j].status \in {"none", "confirmed", "failed", "reverted", "expired"}
      BY <1>1, <1>4, <3>1 DEF Blockers, Active, RowRecords
    <3> QED
      BY <3>1, <3>2, AnswersAre DEF Answers
  <2> QED
    BY <1>2, <2>2, <2>3 DEF Book!Open, Answers
<1>5. CASE CreateRegistration(q) /\ ~UNCHANGED <<row, claimedBy>>
  <2>1. /\ i \in Registrations /\ row[i].status = "none" /\ CodeFree(i, c) /\ Insert(i, c) /\ Blockers(i) = {}
        /\ claimedBy' = [claimedBy EXCEPT ![c] = i]
    BY <1>0, <1>5 DEF CreateRegistration
  <2>2. claimedBy[c] = NoIntent
    BY <1>1, <1>2, <2>1 DEF CodeFree, EnrollmentInv, Database, Active
  <2>3. Book!OpenRegistration(i, c)
    BY <1>2, <1>4, <2>1, <2>2 DEF Book!OpenRegistration
  <2> QED
    BY <1>2, <2>1, <2>3 DEF Book!Next
<1>6. CASE CreateAction(q) /\ ~UNCHANGED <<row, claimedBy>>
  <2>1. /\ i \in Actions /\ row[i].status = "none" /\ Insert(i, NoCode) /\ Blockers(i) = {}
        /\ claimedBy' = claimedBy
    BY <1>0, <1>6 DEF CreateAction
  <2>2. Book!OpenAction(i)
    BY <1>4, <2>1 DEF Book!OpenAction
  <2> QED
    BY <2>1, <2>2 DEF Book!Next
<1> QED
  BY <1>3, <1>5, <1>6

\* A transaction that is executed succeeds only for an intent that is open.
LEMMA ExecutionCounts ==
    ASSUME EnrollmentInv, NEW i \in Intents, Execute(i)
    PROVE  Book!Next
<1>1. /\ row \in [Intents -> RowRecords] /\ Signed /\ Final /\ Chain
      /\ Registrations \cap Actions = {} /\ Intents = Registrations \cup Actions
  BY EnrollmentAssumption DEF EnrollmentInv, Database, Intents
<1>2. /\ latest \in Blocks /\ settled \in Blocks /\ mined \in Nat
      /\ latest.time \in Nat /\ settled.time \in Nat /\ settled.time <= latest.time /\ Deadline[i] \in Nat
  BY <1>1, EnrollmentAssumption DEF Chain, Blocks, Times
<1>3. /\ row[i].tx = mined /\ UNCHANGED <<row, claimedBy>>
      /\ latest' = [latest EXCEPT !.result[i] = IF Executable(i) THEN "ok" ELSE "reverted"]
  BY DEF Execute, dbVars
<1>4. row[i].tx # NoTx /\ ~(row[i].tx < mined)
  BY <1>2, <1>3 DEF NoTx
<1>5. latest.result[i] = "none" /\ settled.result[i] = "none"
  BY <1>1, <1>4 DEF Signed, Chain
<1>6. row[i].status \in {"submitted", "failed"}
  <2>1. row[i].status \notin {"none", "ready", "expired"}
    BY <1>1, <1>4 DEF Signed
  <2>2. row[i].status \notin {"confirmed", "reverted"}
    BY <1>1, <1>5 DEF Final, Ok
  <2> QED
    BY <1>1, <2>1, <2>2 DEF RowRecords
<1>7. ASSUME Executable(i) PROVE row[i].status = "submitted"
  <2>1. SUFFICES ASSUME Lost(i) PROVE FALSE
    BY <1>1, <1>6 DEF Final
  <2>2. ~Passed(settled, i)
    BY <1>2, <1>7 DEF Executable, Passed
  <2>3. ~Taken(latest, i)
    BY <1>7, <2>1 DEF Executable, Lost
  <2>4. Taken(settled, i) => Taken(latest, i)
    BY <1>1 DEF Chain, Taken, Ok
  <2> QED
    BY <2>1, <2>2, <2>3, <2>4 DEF Lost
<1>8. Answers' = Answers /\ Answers[i] = Answer[row[i].status]
  BY <1>3 DEF Answers
<1>9. latest'.result = [latest.result EXCEPT ![i] = IF Executable(i) THEN "ok" ELSE "reverted"]
  BY <1>2, <1>3 DEF Blocks
<1>10. CASE Executable(i)
  <2>1. Answers[i] = "open"
    BY <1>7, <1>8, <1>10, AnswersAre
  <2>2. i \in Registrations => \A j \in Rivals[i] : latest.result[j] # "ok"
    BY <1>1, <1>10 DEF Executable, Taken, Ok, Rivals
  <2>3. Book!Succeed(i)
    BY <1>3, <1>5, <1>8, <1>9, <1>10, <2>1, <2>2 DEF Book!Succeed, Answers
  <2> QED
    BY <1>1, <2>3 DEF Book!Next, Book!Intents
<1>11. CASE ~Executable(i)
  <2>1. Answers[i] \in {"open", "over"}
    BY <1>6, <1>8, AnswersAre
  <2>2. Book!Revert(i)
    BY <1>3, <1>5, <1>8, <1>9, <1>11, <2>1 DEF Book!Revert, Answers
  <2> QED
    BY <1>1, <2>2 DEF Book!Next, Book!Intents
<1> QED
  BY <1>10, <1>11

\* A transaction that is stored leaves the intent open.
LEMMA PrepareStays ==
    ASSUME EnrollmentInv, NEW q \in Requests, Prepare(q)
    PROVE  UNCHANGED Book!bookVars
<1> DEFINE i == requests[q].intent
<1>1. row \in [Intents -> RowRecords] /\ i \in Intents /\ UNCHANGED <<claimedBy, latest>>
  BY DEF EnrollmentInv, Database, Rightly, Prepare, At, chainVars
<1>2. CASE row' = row
  BY <1>1, <1>2, BookStays DEF Answers
<1>3. CASE row' # row
  <2>1. PICK t : row[i].status = "ready" /\ row' = [row EXCEPT ![i].status = "submitted", ![i].tx = t]
    BY <1>3 DEF Prepare
  <2>2. PICK r : row' = [row EXCEPT ![i] = r] /\ r.status = "submitted"
    <3> DEFINE s == [row[i] EXCEPT !.status = "submitted", !.tx = t]
    <3>1. s.status = "submitted"
      BY <1>1 DEF RowRecords
    <3>2. row' = [row EXCEPT ![i] = s]
      BY <1>1, <2>1
    <3> QED
      BY <3>1, <3>2
  <2>3. Answers' = [Answers EXCEPT ![i] = "open"] /\ Answers[i] = "open"
    <3>1. Answers' = [Answers EXCEPT ![i] = Answer[r.status]]
      BY <1>1, <2>2, OneAnswer
    <3>2. Answers[i] = Answer["ready"]
      BY <1>1, <2>1 DEF Answers
    <3> QED
      BY <2>2, <3>1, <3>2, AnswersAre
  <2>4. Answers' = Answers
    BY <1>1, <2>3 DEF Answers
  <2> QED
    BY <1>1, <2>4, BookStays
<1> QED
  BY <1>2, <1>3

\* What ends an intent, in the book.
LEMMA AnswerIsFinal ==
    ASSUME EnrollmentInv, NEW i \in Intents, row[i].status \in Active, UNCHANGED latest,
           NEW s \in {"confirmed", "failed", "reverted", "expired"}, row' = [row EXCEPT ![i].status = s],
           s = "confirmed" => Ok(latest, i) /\ UNCHANGED claimedBy,
           s # "confirmed" =>
             /\ ~Ok(latest, i)
             /\ claimedBy' = [d \in Codes |-> IF claimedBy[d] = i THEN NoIntent ELSE claimedBy[d]]
    PROVE  Book!Next
<1>1. row \in [Intents -> RowRecords] /\ Intents = Registrations \cup Actions
  BY DEF EnrollmentInv, Database, Intents
<1>2. PICK r : row' = [row EXCEPT ![i] = r] /\ r.status = s
  <2>1. [row[i] EXCEPT !.status = s].status = s
    BY <1>1 DEF RowRecords
  <2>2. row' = [row EXCEPT ![i] = [row[i] EXCEPT !.status = s]]
    BY <1>1
  <2> QED
    BY <2>1, <2>2
<1>3. Answers' = [Answers EXCEPT ![i] = Answer[s]] /\ Answers[i] = "open"
  BY <1>2, OneAnswer, AnswersAre DEF Answers, Active
<1>4. CASE s = "confirmed"
  <2>1. Book!Confirm(i)
    BY <1>3, <1>4, AnswersAre DEF Book!Confirm, Answers, Ok
  <2> QED
    BY <1>1, <2>1 DEF Book!Next, Book!Intents
<1>5. CASE s # "confirmed"
  <2>1. Answer[s] = "over"
    BY <1>5, AnswersAre
  <2>2. Book!Close(i)
    BY <1>3, <1>5, <2>1 DEF Book!Close, Answers, Ok
  <2> QED
    BY <1>1, <2>2 DEF Book!Next, Book!Intents
<1> QED
  BY <1>4, <1>5

\* The four ends of a request.
LEMMA FinishTells ==
    ASSUME EnrollmentInv, NEW q \in Requests, Confirm(q) \/ Fail(q) \/ Revert(q) \/ Expire(q)
    PROVE  [Book!Next]_(Book!bookVars)
<1> DEFINE i == requests[q].intent
<1>1. /\ row \in [Intents -> RowRecords] /\ claimedBy \in [Codes -> Registrations \cup {NoIntent}]
      /\ Signed /\ Chain /\ Claims /\ Rightly(requests[q]) /\ Registrations \cap Actions = {}
      /\ NoIntent \notin Intents /\ Intents = Registrations \cup Actions
  BY EnrollmentAssumption DEF EnrollmentInv, Database, Intents
<1>2. i \in Intents /\ latest' = latest
  BY <1>1 DEF Rightly, Confirm, Fail, Revert, Expire, Close, At, chainVars
<1>3. CASE UNCHANGED <<row, claimedBy>>
  BY <1>2, <1>3, BookStays DEF Answers
<1>4. CASE Confirm(q) /\ row[i].status \in Active
  <2>1. Ok(latest, i)
    BY <1>1, <1>2, <1>4 DEF Rightly, Confirm, At, Chain, Ok
  <2>2. row' = [row EXCEPT ![i].status = "confirmed"] /\ claimedBy' = claimedBy
    BY <1>4 DEF Confirm
  <2> QED
    BY <1>2, <1>4, <2>1, <2>2, AnswerIsFinal
<1>5. CASE Fail(q) /\ row[i].status \in Active
  <2>1. Lost(i)
    BY <1>1, <1>5 DEF Rightly, Fail, At
  <2>2. ~Ok(latest, i)
    BY <1>2, <2>1, LostIsOver
  <2>3. row' = [row EXCEPT ![i].status = "failed"] /\ claimedBy' = Freed(i)
    BY <1>5 DEF Fail
  <2>4. \A d \in Codes : claimedBy[d] = i => d \notin consumed
    BY <1>5 DEF Claims, EnrollmentInv, Database, Active
  <2>5. claimedBy' = [d \in Codes |-> IF claimedBy[d] = i THEN NoIntent ELSE claimedBy[d]]
    BY <2>3, <2>4 DEF Freed
  <2> QED
    BY <1>2, <1>5, <2>2, <2>3, <2>5, AnswerIsFinal
<1>6. ASSUME NEW pc, NEW from, NEW to, Close(q, pc, from, to), i \in Actions
      PROVE  claimedBy' = [d \in Codes |-> IF claimedBy[d] = i THEN NoIntent ELSE claimedBy[d]]
  <2>1. claimedBy' = claimedBy /\ \A d \in Codes : claimedBy[d] # i
    BY <1>1, <1>6 DEF Close
  <2> QED
    BY <1>1, <2>1
<1>7. CASE Revert(q) /\ row[i].status = "submitted"
  <2>1. i \in Actions /\ ~Ok(latest, i)
    BY <1>1, <1>2, <1>7 DEF Rightly, Revert, Close, At, Chain, Ok
  <2>2. row' = [row EXCEPT ![i].status = "reverted"]
    BY <1>7 DEF Revert, Close
  <2> QED
    BY <1>2, <1>6, <1>7, <2>1, <2>2, AnswerIsFinal DEF Revert, Active
<1>8. CASE Expire(q) /\ row[i].status = "ready"
  <2>1. i \in Actions /\ ~Ok(latest, i)
    BY <1>1, <1>2, <1>8 DEF Rightly, Expire, Close, At, Signed, Ok
  <2>2. row' = [row EXCEPT ![i].status = "expired"]
    BY <1>8 DEF Expire, Close
  <2> QED
    BY <1>2, <1>6, <1>8, <2>1, <2>2, AnswerIsFinal DEF Expire, Active
<1> QED
  BY <1>3, <1>4, <1>5, <1>7, <1>8 DEF Confirm, Fail, Revert, Expire, Close

\* The API's processes keep the book a client relies on, whichever of them die (register, submit,
\* markConfirmed, markFailed, markTerminal; device-action/enrollment.ts, lines 316-317).
THEOREM EnrollmentImplementsBook == Spec => ImplementsBook
<1>1. Init => Book!Init
  BY AnswersAre DEF Init, NoRow, Book!Init, Book!Intents, Intents
<1>2. EnrollmentInv /\ [Next]_vars => [Book!Next]_(Book!bookVars)
  <2> SUFFICES ASSUME EnrollmentInv, [Next]_vars PROVE [Book!Next]_(Book!bookVars)
    OBVIOUS
  <2>1. CASE \E i \in Intents : Execute(i)
    BY <2>1, ExecutionCounts
  <2>2. CASE Tick \/ Settle
    <3>1. UNCHANGED <<row, claimedBy>> /\ latest'.result = latest.result
      BY <2>2 DEF Tick, Settle, dbVars, EnrollmentInv, Chain, Blocks
    <3> QED
      BY <3>1, BookStays DEF Answers
  <2>3. ASSUME NEW q \in Requests, CreateRegistration(q) \/ CreateAction(q)
        PROVE  [Book!Next]_(Book!bookVars)
    BY <2>3, CreateOpens
  <2>4. ASSUME NEW q \in Requests, Prepare(q) PROVE [Book!Next]_(Book!bookVars)
    BY <2>4, PrepareStays
  <2>5. ASSUME NEW q \in Requests, Confirm(q) \/ Fail(q) \/ Revert(q) \/ Expire(q)
        PROVE  [Book!Next]_(Book!bookVars)
    BY <2>5, FinishTells
  <2>6. ASSUME \/ UNCHANGED vars
               \/ \E q \in Requests :
                    \/ \E i \in Registrations, c \in Codes : Register(q, i, c)
                    \/ \E a \in Actions : SubmitAction(q, a)
                    \/ \E i \in Intents : Reconcile(q, i)
                    \/ CheckRegistration(q) \/ CheckAction(q) \/ Broadcast(q) \/ LookAgain(q) \/ Drop(q)
        PROVE  [Book!Next]_(Book!bookVars)
    <3>1. UNCHANGED <<row, claimedBy, latest>>
      BY <2>6 DEF vars, Register, SubmitAction, Reconcile, CheckRegistration, CheckAction, Broadcast,
                  LookAgain, Drop, dbVars, chainVars
    <3> QED
      BY <3>1, BookStays DEF Answers
  <2> QED
    BY <2>1, <2>2, <2>3, <2>4, <2>5, <2>6 DEF Next, RequestStep
<1> QED
  BY <1>1, <1>2, EnrollmentInvariant, PTL DEF Spec, ImplementsBook, Book!Spec
=============================================================================
