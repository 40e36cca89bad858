--------------------------- MODULE ServicesProofs ---------------------------
(***************************************************************************)
(* Theorems about the services.  Files, for any number of files and        *)
(* requests, any bounds and any mixture of failing steps, kills and power  *)
(* failures, as long as a write of the engine that returns an error has    *)
(* not taken effect.  Accounts, for any addresses, passwords, requests and *)
(* bounds, and however many findByEmail lists, as long as no record was    *)
(* left out of a listing.                                                  *)
(***************************************************************************)
EXTENDS Services, Sequences, FiniteSetTheorems, TLAPS

Uploading == {"copy", "rename", "removeTmp", "insert"}

\* Nobody else works on the file of an upload.
Owned ==
    \A p, q \in Proc : p # q /\ call[p].pc \in Uploading => call[q].file # call[p].file

\* What is not in the collection yet, or not any more.
Unlisted ==
    \A p \in Proc : call[p].pc \in Uploading \cup {"removeBlob"} => call[p].file \notin recs

Written == \A p \in Proc : At(p, "insert") => blob[call[p].file] = "whole"

\* No name is new that is in the directory, or in somebody's hands.
Known ==
    /\ \A p \in Proc : ~At(p, "idle") => call[p].file \in used
    /\ \A f \in File : blob[f] # "none" => f \in used

\* The inductive invariant.
FilesInv == TypeOK /\ Owned /\ Unlisted /\ Written /\ Known /\ ListedIsWhole

----------------------------------------------------------------------------
LEMMA FilesInit == Init => FilesInv
<1> SUFFICES ASSUME Init PROVE FilesInv
    OBVIOUS
<1>1. \A p \in Proc : call[p] = Idle
  BY DEF Init
<1>2. TypeOK
  <2>1. call \in [Proc -> [pc : CallState, file : File \cup {NoFile}]]
    BY DEF Init, Idle, CallState
  <2>2. leaked \in 0 .. faults
    BY DEF Init
  <2>3. crashes \in 0 .. MaxCrashes /\ faults \in 0 .. MaxFaults
    BY FilesAssumption DEF Init
  <2>4. blob \in [File -> {"none", "whole", "cut"}]
    BY DEF Init
  <2> QED BY <1>1, <2>1, <2>2, <2>3, <2>4 DEF Init, Idle, TypeOK
<1>3. Owned /\ Unlisted /\ Written /\ Known /\ ListedIsWhole
  BY <1>1 DEF Init, Idle, At, Owned, Unlisted, Uploading, Written, Known, ListedIsWhole
<1> QED BY <1>2, <1>3 DEF FilesInv

LEMMA UploadBeginStep ==
    ASSUME FilesInv, NEW p \in Proc, NEW f \in File, UploadBegin(p, f)
    PROVE  FilesInv'
BY SMTT(30), FilesAssumption DEF UploadBegin, At, Goto, Return, Idle, Fresh, history, FilesInv, TypeOK, CallState, Owned, Unlisted, Uploading, Written, Known, ListedIsWhole

LEMMA CopyStep ==
    ASSUME FilesInv, NEW p \in Proc, Copy(p)
    PROVE  FilesInv'
BY SMTT(30), FilesAssumption DEF Copy, At, Goto, Return, Idle, history, FilesInv, TypeOK, CallState, Owned, Unlisted, Uploading, Written, Known, ListedIsWhole

LEMMA CopyFailsStep ==
    ASSUME FilesInv, NEW p \in Proc, CopyFails(p)
    PROVE  FilesInv'
BY SMTT(30), FilesAssumption DEF CopyFails, At, Goto, Return, Idle, Fault, history, FilesInv, TypeOK, CallState, Owned, Unlisted, Uploading, Written, Known, ListedIsWhole

LEMMA RenameStep ==
    ASSUME FilesInv, NEW p \in Proc, Rename(p)
    PROVE  FilesInv'
BY SMTT(30), FilesAssumption DEF Rename, At, Goto, Return, Idle, history, FilesInv, TypeOK, CallState, Owned, Unlisted, Uploading, Written, Known, ListedIsWhole

LEMMA RenameFailsStep ==
    ASSUME FilesInv, NEW p \in Proc, RenameFails(p)
    PROVE  FilesInv'
BY SMTT(30), FilesAssumption DEF RenameFails, At, Goto, Return, Idle, Fault, history, FilesInv, TypeOK, CallState, Owned, Unlisted, Uploading, Written, Known, ListedIsWhole

LEMMA RemoveTmpStep ==
    ASSUME FilesInv, NEW p \in Proc, RemoveTmp(p)
    PROVE  FilesInv'
BY SMTT(30), FilesAssumption DEF RemoveTmp, At, Goto, Return, Idle, history, FilesInv, TypeOK, CallState, Owned, Unlisted, Uploading, Written, Known, ListedIsWhole

LEMMA InsertStep ==
    ASSUME FilesInv, NEW p \in Proc, Insert(p)
    PROVE  FilesInv'
BY SMTT(30), FilesAssumption DEF Insert, At, Goto, Return, Idle, history, FilesInv, TypeOK, CallState, Owned, Unlisted, Uploading, Written, Known, ListedIsWhole

LEMMA InsertFailsStep ==
    ASSUME FilesInv, ~LateErrors, NEW p \in Proc, InsertFails(p)
    PROVE  FilesInv'
BY SMTT(30), FilesAssumption DEF InsertFails, At, Goto, Return, Idle, Fault, history, FilesInv, TypeOK, CallState, Owned, Unlisted, Uploading, Written, Known, ListedIsWhole

LEMMA RemoveBlobStep ==
    ASSUME FilesInv, NEW p \in Proc, RemoveBlob(p)
    PROVE  FilesInv'
BY SMTT(30), FilesAssumption DEF RemoveBlob, At, Goto, Return, Idle, history, FilesInv, TypeOK, CallState, Owned, Unlisted, Uploading, Written, Known, ListedIsWhole

LEMMA RemoveIsLostStep ==
    ASSUME FilesInv, NEW p \in Proc, RemoveIsLost(p)
    PROVE  FilesInv'
BY SMTT(30), FilesAssumption DEF RemoveIsLost, At, Goto, Return, Idle, Fault, history, FilesInv, TypeOK, CallState, Owned, Unlisted, Uploading, Written, Known, ListedIsWhole

LEMMA DeleteFindStep ==
    ASSUME FilesInv, NEW p \in Proc, NEW f \in File, DeleteFind(p, f)
    PROVE  FilesInv'
BY SMTT(30), FilesAssumption DEF DeleteFind, At, Goto, Return, Idle, history, FilesInv, TypeOK, CallState, Owned, Unlisted, Uploading, Written, Known, ListedIsWhole

LEMMA DeleteRecordStep ==
    ASSUME FilesInv, NEW p \in Proc, DeleteRecord(p)
    PROVE  FilesInv'
BY SMTT(30), FilesAssumption DEF DeleteRecord, At, Goto, Return, Idle, history, FilesInv, TypeOK, CallState, Owned, Unlisted, Uploading, Written, Known, ListedIsWhole

LEMMA DeleteFailsStep ==
    ASSUME FilesInv, ~LateErrors, NEW p \in Proc, DeleteFails(p)
    PROVE  FilesInv'
BY SMTT(30), FilesAssumption DEF DeleteFails, At, Goto, Return, Idle, Fault, history, FilesInv, TypeOK, CallState, Owned, Unlisted, Uploading, Written, Known, ListedIsWhole

LEMMA StreamFindStep ==
    ASSUME FilesInv, NEW p \in Proc, NEW f \in File, StreamFind(p, f)
    PROVE  FilesInv'
BY SMTT(30), FilesAssumption DEF StreamFind, At, Goto, Return, Idle, history, FilesInv, TypeOK, CallState, Owned, Unlisted, Uploading, Written, Known, ListedIsWhole

LEMMA StreamOpenStep ==
    ASSUME FilesInv, NEW p \in Proc, StreamOpen(p)
    PROVE  FilesInv'
BY SMTT(30), FilesAssumption DEF StreamOpen, At, Goto, Return, Idle, history, FilesInv, TypeOK, CallState, Owned, Unlisted, Uploading, Written, Known, ListedIsWhole

LEMMA StreamSendStep ==
    ASSUME FilesInv, NEW p \in Proc, StreamSend(p)
    PROVE  FilesInv'
BY SMTT(30), FilesAssumption DEF StreamSend, At, Goto, Return, Idle, history, FilesInv, TypeOK, CallState, Owned, Unlisted, Uploading, Written, Known, ListedIsWhole

LEMMA KillStep == FilesInv /\ Kill => FilesInv'
BY SMTT(30), FilesAssumption DEF FilesInv, Kill, Idle, At, history, TypeOK, CallState, Owned, Unlisted, Uploading, Written, Known,
   ListedIsWhole

LEMMA PowerLossStep == FilesInv /\ PowerLoss => FilesInv'
BY SMTT(30), FilesAssumption DEF FilesInv, PowerLoss, Idle, At, history, TypeOK, CallState, Owned, Unlisted, Uploading, Written, Known,
   ListedIsWhole

LEMMA FilesStutter == FilesInv /\ UNCHANGED vars => FilesInv'
BY DEF vars, history, FilesInv, TypeOK, Owned, Unlisted, Written, Known, ListedIsWhole, At

LEMMA FilesNext == ~LateErrors /\ FilesInv /\ [Next]_vars => FilesInv'
<1> SUFFICES ASSUME ~LateErrors, FilesInv, [Next]_vars PROVE FilesInv'
    OBVIOUS
<1>1. ASSUME NEW p \in Proc, NEW f \in File, UploadBegin(p, f) \/ DeleteFind(p, f) \/ StreamFind(p, f)
      PROVE  FilesInv'
  BY <1>1, UploadBeginStep, DeleteFindStep, StreamFindStep
<1>2. ASSUME NEW p \in Proc,
             \/ Copy(p) \/ CopyFails(p) \/ Rename(p) \/ RenameFails(p) \/ RemoveTmp(p)
             \/ Insert(p) \/ InsertFails(p) \/ RemoveBlob(p) \/ RemoveIsLost(p)
      PROVE  FilesInv'
  BY <1>2, CopyStep, CopyFailsStep, RenameStep, RenameFailsStep, RemoveTmpStep, InsertStep,
     InsertFailsStep, RemoveBlobStep, RemoveIsLostStep
<1>3. ASSUME NEW p \in Proc, DeleteRecord(p) \/ DeleteFails(p) \/ StreamOpen(p) \/ StreamSend(p)
      PROVE  FilesInv'
  BY <1>3, DeleteRecordStep, DeleteFailsStep, StreamOpenStep, StreamSendStep
<1>4. CASE Kill \/ PowerLoss
  BY <1>4, KillStep, PowerLossStep
<1>5. CASE UNCHANGED vars
  BY <1>5, FilesStutter
<1> QED BY <1>1, <1>2, <1>3, <1>4, <1>5 DEF Next

LEMMA FilesInvariant == ASSUME ~LateErrors PROVE Spec => []FilesInv
<1>1. FilesInv /\ [Next]_vars => FilesInv'
  BY FilesNext
<1> QED BY FilesInit, <1>1, PTL DEF Spec

\* Every variable keeps its type, and who writes a blob is alone with it:
\* O_EXCL and newBlobID keep uploads apart.
THEOREM FilesTypeCorrect == ASSUME ~LateErrors PROVE Spec => []TypeOK
<1>1. FilesInv => TypeOK
  BY DEF FilesInv
<1> QED BY FilesInvariant, <1>1, PTL

\* Every listed file can be downloaded whole unless the power failed, through
\* all interleavings of Upload, Delete and Stream, failing steps and kills.
THEOREM ListedFilesAreWhole == ASSUME ~LateErrors PROVE Spec => []ListedIsWhole
<1>1. FilesInv => ListedIsWhole
  BY DEF FilesInv
<1> QED BY FilesInvariant, <1>1, PTL
----------------------------------------------------------------------------
(* What is in the directory and not listed is in somebody's hands.         *)

InHand(f, pcs) == \E p \in Proc : call[p].file = f /\ call[p].pc \in pcs

Attended ==
    crashes = 0 /\ leaked = 0 =>
        /\ \A f \in tmps : InHand(f, {"copy", "rename", "removeTmp"})
        /\ \A f \in File : blob[f] # "none" => f \in recs \/ InHand(f, {"insert", "removeBlob"})

LEMMA AttendedBegin ==
    ASSUME FilesInv, Attended, NEW p \in Proc, NEW f \in File,
           UploadBegin(p, f) \/ DeleteFind(p, f) \/ StreamFind(p, f)
    PROVE  Attended'
<1> USE DEF FilesInv, Attended, InHand, TypeOK, CallState, At, Goto, Return, Idle, history
<1>1. CASE UploadBegin(p, f)
  BY <1>1, SMTT(30) DEF UploadBegin, Fresh, Owned, Uploading, Unlisted, Known
<1>2. CASE DeleteFind(p, f)
  BY <1>2, SMTT(30) DEF DeleteFind, Owned, Uploading, Unlisted, Known
<1>3. CASE StreamFind(p, f)
  BY <1>3, SMTT(30) DEF StreamFind, Owned, Uploading, Unlisted, Known
<1> QED
  BY <1>1, <1>2, <1>3

LEMMA AttendedStep ==
    ASSUME ~LateErrors, FilesInv, Attended, NEW p \in Proc,
           \/ Copy(p) \/ CopyFails(p) \/ Rename(p) \/ RenameFails(p) \/ RemoveTmp(p)
           \/ Insert(p) \/ InsertFails(p) \/ RemoveBlob(p) \/ RemoveIsLost(p)
           \/ DeleteRecord(p) \/ DeleteFails(p) \/ StreamOpen(p) \/ StreamSend(p)
    PROVE  Attended'
<1> USE DEF FilesInv, Attended, InHand, TypeOK, CallState, At, Goto, Return, Idle, history
<1>1. CASE Copy(p)
  BY <1>1, SMTT(30) DEF Copy, Owned, Uploading, Unlisted, Known
<1>2. CASE CopyFails(p)
  BY <1>2, SMTT(30) DEF CopyFails, Fault, Owned, Uploading, Unlisted, Known
<1>3. CASE Rename(p)
  BY <1>3, SMTT(30) DEF Rename, Owned, Uploading, Unlisted, Known
<1>4. CASE RenameFails(p)
  BY <1>4, SMTT(30) DEF RenameFails, Fault, Owned, Uploading, Unlisted, Known
<1>5. CASE RemoveTmp(p)
  BY <1>5, SMTT(30) DEF RemoveTmp, Owned, Uploading, Unlisted, Known
<1>6. CASE Insert(p)
  BY <1>6, SMTT(30) DEF Insert, Owned, Uploading, Unlisted, Known
<1>7. CASE InsertFails(p)
  BY <1>7, SMTT(30) DEF InsertFails, Fault, Owned, Uploading, Unlisted, Known
<1>8. CASE RemoveBlob(p)
  BY <1>8, SMTT(30) DEF RemoveBlob, Owned, Uploading, Unlisted, Known
<1>9. CASE RemoveIsLost(p)
  BY <1>9, SMTT(30) DEF RemoveIsLost, Fault, Owned, Uploading, Unlisted, Known
<1>10. CASE DeleteRecord(p)
  BY <1>10, SMTT(30) DEF DeleteRecord, Owned, Uploading, Unlisted, Known
<1>11. CASE DeleteFails(p)
  BY <1>11, SMTT(30) DEF DeleteFails, Fault, Owned, Uploading, Unlisted, Known
<1>12. CASE StreamOpen(p)
  BY <1>12, SMTT(30) DEF StreamOpen, Owned, Uploading, Unlisted, Known
<1>13. CASE StreamSend(p)
  BY <1>13, SMTT(30) DEF StreamSend, Owned, Uploading, Unlisted, Known
<1> QED
  BY <1>1, <1>2, <1>3, <1>4, <1>5, <1>6, <1>7, <1>8, <1>9, <1>10, <1>11, <1>12, <1>13

LEMMA AttendedNext == ~LateErrors /\ FilesInv /\ Attended /\ [Next]_vars => Attended'
<1> SUFFICES ASSUME ~LateErrors, FilesInv, Attended, [Next]_vars PROVE Attended'
    OBVIOUS
<1>1. ASSUME NEW p \in Proc, NEW f \in File, UploadBegin(p, f) \/ DeleteFind(p, f) \/ StreamFind(p, f)
      PROVE  Attended'
  BY <1>1, AttendedBegin
<1>2. ASSUME NEW p \in Proc,
             \/ Copy(p) \/ CopyFails(p) \/ Rename(p) \/ RenameFails(p) \/ RemoveTmp(p)
             \/ Insert(p) \/ InsertFails(p) \/ RemoveBlob(p) \/ RemoveIsLost(p)
             \/ DeleteRecord(p) \/ DeleteFails(p) \/ StreamOpen(p) \/ StreamSend(p)
      PROVE  Attended'
  BY <1>2, AttendedStep
<1>3. CASE Kill \/ PowerLoss
  BY <1>3 DEF Kill, PowerLoss, Attended, FilesInv, TypeOK
<1>4. CASE UNCHANGED vars
  BY <1>4 DEF vars, history, Attended, InHand
<1> QED BY <1>1, <1>2, <1>3, <1>4 DEF Next

\* Without kills and as long as os.Remove works, nothing is left behind, by
\* whatever steps of Upload and Delete failed.
THEOREM FailuresLeaveNoGarbage == ASSUME ~LateErrors PROVE Spec => []NoGarbage
<1>1. Init => Attended
  BY DEF Init, Attended
<1>2. FilesInv /\ Attended /\ [Next]_vars => Attended'
  BY AttendedNext
<1>3. Attended /\ FilesInv => NoGarbage
  BY DEF Attended, FilesInv, TypeOK, InHand, NoGarbage, At
<1> QED BY FilesInvariant, <1>1, <1>2, <1>3, PTL DEF Spec

----------------------------------------------------------------------------
(* Accounts and tokens.                                                    *)

Account == [email : Email, pw : Password, role : {"admin", "user"}]

AuthCall ==
    [pc : {"idle", "lock", "count", "insert", "update"},
     email : Email \cup {Nobody}, old : Password \cup {Nobody}, new : Password \cup {Nobody},
     user : Nat, role : {"none", "admin", "user"}]

\* What Auth!TypeOK leaves open: the calls, and what they need at each point.
Calls ==
    /\ authCall \in [Proc -> AuthCall]
    /\ \A p \in Proc :
          /\ authCall[p].pc \in {"lock", "count", "insert"} =>
                authCall[p].email \in Email /\ authCall[p].new \in Password
          /\ authCall[p].pc = "insert" => authCall[p].role \in {"admin", "user"}
          /\ authCall[p].pc = "update" =>
                authCall[p].user \in DOMAIN users /\ authCall[p].new \in Password
          /\ authCall[p].pc # "idle" => server = "up"
    /\ now \in Nat /\ secrets \in Nat /\ misses \in Nat

\* Who holds regMu and has not found the address is right about it until the
\* record is there, if findByEmail could list all, and so is the role.
Signup ==
    \A p \in Proc :
        /\ authCall[p].pc \in {"count", "insert"} /\ Len(users) <= ListLimit =>
              \A u \in DOMAIN users : users[u].email # authCall[p].email
        /\ authCall[p].pc = "insert" => (authCall[p].role = "admin" <=> Len(users) = 0)

\* The accounts are right as long as no listing has left out a record.
Unique == misses = 0 => Signup /\ Auth!OneAccountPerEmail /\ Auth!FirstIsTheAdmin

\* The secret that counts: that of a server that is up, or else the one in the
\* file.
Key == IF server = "up" THEN secret ELSE secretFile

\* Every token was signed with it or with a secret that .secret has lost.  The
\* file does not hold a lost secret; a server that is up has the secret of the
\* file, or one that was lost since; one on its way up has a new one.
Signed ==
    /\ \A t \in tokens :
          /\ t.sub \in DOMAIN users /\ t.key \in Nat /\ t.exp \in Nat
          /\ t.key \in gone \/ (t.key = Key /\ t.key # 0)
    /\ secretFile \notin gone /\ 0 \notin gone
    /\ server = "up" => /\ secret # 0 /\ (secret = secretFile \/ secret \in gone)
                        /\ secret \notin void
    /\ server \in {"loading", "writing"} =>
          secret \notin gone /\ secret # 0 /\ secret # secretFile
    /\ server = "writing" => \A t \in tokens : t.key \in gone

\* The inductive invariant.
AuthInv == Auth!TypeOK /\ Calls /\ Unique /\ Signed

----------------------------------------------------------------------------
LEMMA AuthInit ==
    ASSUME Auth!AuthAssumption, Auth!Init
    PROVE  AuthInv
<1>1. Auth!Idle \in AuthCall
  BY DEF Auth!Idle, AuthCall
<1>2. \A p \in Proc : authCall[p] = Auth!Idle /\ regMu # p
  BY DEF Auth!Init, Auth!AuthAssumption
<1>3. users = <<>> /\ Len(<<>>) = 0 /\ DOMAIN <<>> = {}
  BY DEF Auth!Init
<1>4. Auth!TypeOK
  BY <1>2, <1>3 DEF Auth!Init, Auth!TypeOK, Auth!AuthAssumption, Auth!Idle
<1>5. Calls
  BY <1>1, <1>2 DEF Auth!Init, Calls, Auth!Idle
<1>6. Unique
  BY <1>2, <1>3 DEF Unique, Signup, Auth!OneAccountPerEmail, Auth!FirstIsTheAdmin, Auth!Idle
<1>7. Signed
  BY DEF Auth!Init, Signed
<1> QED BY <1>4, <1>5, <1>6, <1>7 DEF AuthInv

\* Auth counts as this module does.
LEMMA SameCardinality == \A S : Auth!Cardinality(S) = Cardinality(S)
BY DEF Auth!Cardinality, Cardinality

\* A listing leaves out as many as it counts; one that left out nothing before
\* and leaves out nothing now is whole, as far as the limit goes.
LEMMA ListsFacts ==
    ASSUME users \in Seq(Account), misses \in Nat, NEW limit \in Nat,
           NEW found \in SUBSET DOMAIN users, Auth!Lists(limit, found)
    PROVE  /\ misses' \in Nat
           /\ misses' = 0 => /\ misses = 0
                             /\ Len(users) <= limit => found = DOMAIN users
                             /\ limit # 0 /\ Len(users) # 0 => found # {}
<1>1. DOMAIN users = 1 .. Len(users) /\ Len(users) \in Nat
  OBVIOUS
<1> DEFINE n == Len(users)
<1>2. IsFiniteSet(DOMAIN users) /\ Cardinality(DOMAIN users) = Len(users)
  <2>1. n \in Nat /\ DOMAIN users = 1 .. n
    BY <1>1
  <2> HIDE DEF n
  <2>2. IsFiniteSet(1 .. n) /\ Cardinality(1 .. n) = IF 1 > n THEN 0 ELSE n - 1 + 1
    BY <2>1, FS_Interval
  <2>3. Cardinality(1 .. n) = n
    BY <2>1, <2>2
  <2> QED BY <2>1, <2>2, <2>3 DEF n
<1>3. /\ IsFiniteSet(found) /\ Cardinality(found) \in Nat
      /\ Cardinality(found) = Len(users) => found = DOMAIN users
  BY <1>2, FS_Subset, FS_CardinalityType
<1> DEFINE first == IF Len(users) <= limit THEN Len(users) ELSE limit
<1>4. /\ first \in Nat /\ Cardinality(found) <= first
      /\ misses' = misses + (first - Cardinality(found))
  BY <1>1, SameCardinality DEF Auth!Lists
<1> HIDE DEF first
<1>5. misses' \in Nat /\ (misses' = 0 => misses = 0 /\ Cardinality(found) = first)
  BY <1>3, <1>4
<1>6. /\ Len(users) <= limit => first = Len(users)
      /\ limit # 0 /\ Len(users) # 0 => first # 0
  BY DEF first
<1>7. Cardinality({}) = 0
  BY FS_EmptySet
<1> QED BY <1>3, <1>5, <1>6, <1>7

LEMMA Context ==
    ASSUME Auth!AuthAssumption, AuthInv
    PROVE  /\ users \in Seq(Account) /\ Len(users) \in Nat /\ DOMAIN users = 1 .. Len(users)
           /\ authCall \in [Proc -> AuthCall] /\ misses \in Nat /\ now \in Nat /\ secrets \in Nat
           /\ \A p, q \in Proc :
                 authCall[p].pc \in {"count", "insert"} /\ authCall[q].pc \in {"count", "insert"} => p = q
           /\ \A p \in Proc : regMu = Nobody => authCall[p].pc \notin {"count", "insert"}
           /\ \A p \in Proc : authCall[p].pc # "idle" => server = "up"
BY DEF AuthInv, Auth!TypeOK, Calls, Account, Auth!AuthAssumption

\* A step that makes no account and gives out no token changes the record of
\* one authCall at most, and moves regMu with it.
LEMMA CallMoves ==
    ASSUME Auth!AuthAssumption, AuthInv, NEW p \in Proc, NEW c \in AuthCall,
           authCall' = [authCall EXCEPT ![p] = c],
           UNCHANGED <<users, Auth!boot, tokens, now>>,
           misses' \in Nat, misses' = 0 => misses = 0,
           c.pc \in {"lock", "count", "insert"} => c.email \in Email /\ c.new \in Password,
           c.pc # "idle" => server = "up",
           c.pc = "insert" => c.role \in {"admin", "user"},
           c.pc = "update" => c.user \in DOMAIN users /\ c.new \in Password,
           \/ c.pc \in {"count", "insert"} /\ regMu' = p /\ (regMu = p \/ regMu = Nobody)
           \/ /\ c.pc \notin {"count", "insert"}
              /\ regMu' = IF regMu = p THEN Nobody ELSE regMu,
           misses' = 0 /\ c.pc \in {"count", "insert"} /\ Len(users) <= ListLimit =>
              \A u \in DOMAIN users : users[u].email # c.email,
           misses' = 0 /\ c.pc = "insert" => (c.role = "admin" <=> Len(users) = 0)
    PROVE  AuthInv'
<1>1. \A q \in Proc : authCall'[q] = IF q = p THEN c ELSE authCall[q]
  BY Context
<1>2. authCall' \in [Proc -> AuthCall]
  BY Context
<1>3. Auth!TypeOK'
  <2>1. \A q \in Proc : (regMu' = q) <=> authCall'[q].pc \in {"count", "insert"}
    <3>1. \A q \in Proc : (regMu = q) <=> authCall[q].pc \in {"count", "insert"}
      BY DEF AuthInv, Auth!TypeOK
    <3> QED BY <1>1, <3>1 DEF Auth!AuthAssumption
  <2>2. \A q \in Proc : authCall'[q].pc \in {"idle", "lock", "count", "insert", "update"}
    BY <1>2 DEF AuthCall
  <2> QED BY <2>1, <2>2 DEF AuthInv, Auth!TypeOK, Auth!boot, Auth!file
<1>4. Calls'
  BY <1>1, <1>2 DEF AuthInv, Calls, Auth!boot, Auth!file
<1>5. Unique'
  BY <1>1 DEF AuthInv, Unique, Signup, Auth!OneAccountPerEmail, Auth!FirstIsTheAdmin
<1>6. Signed'
  BY DEF AuthInv, Signed, Key, Auth!boot, Auth!file
<1> QED BY <1>3, <1>4, <1>5, <1>6 DEF AuthInv

LEMMA IdleCall == Auth!Idle \in AuthCall /\ Auth!Idle.pc = "idle"
BY DEF Auth!Idle, AuthCall

LEMMA CallRegisterStep ==
    ASSUME Auth!AuthAssumption, AuthInv, NEW p \in Proc, NEW email \in Email, NEW pw \in Password,
           Auth!CallRegister(p, email, pw)
    PROVE  AuthInv'
<1> DEFINE c == [Auth!Idle EXCEPT !.pc = "lock", !.email = email, !.new = pw]
<1>1. c \in AuthCall /\ c.pc = "lock" /\ c.email = email /\ c.new = pw
  BY DEF Auth!Idle, AuthCall
<1>2. authCall' = [authCall EXCEPT ![p] = c] /\ regMu' = regMu /\ misses' = misses /\ Auth!At(p, "idle")
      /\ server = "up"
  BY DEF Auth!CallRegister, Auth!Begin
<1>3. regMu # p
  BY <1>2 DEF Auth!At, AuthInv, Auth!TypeOK
<1>4. UNCHANGED <<users, Auth!boot, tokens, now>>
  BY DEF Auth!CallRegister
<1> HIDE DEF c
<1> QED BY <1>1, <1>2, <1>3, <1>4, Context, CallMoves

LEMMA FindByEmailStep ==
    ASSUME Auth!AuthAssumption, AuthInv, NEW p \in Proc, Auth!FindByEmail(p)
    PROVE  AuthInv'
<1>1. PICK found \in SUBSET DOMAIN users :
          /\ Auth!Lists(ListLimit, found)
          /\ IF \E u \in found : users[u].email = authCall[p].email
             THEN Auth!Return(p) /\ UNCHANGED regMu
             ELSE authCall' = [authCall EXCEPT ![p].pc = "count"] /\ regMu' = p
  BY DEF Auth!FindByEmail
<1>2. /\ authCall[p].pc = "lock" /\ regMu = Nobody /\ authCall[p] \in AuthCall /\ server = "up"
      /\ UNCHANGED <<users, Auth!boot, tokens, now>>
  BY Context DEF Auth!FindByEmail, Auth!At, Auth!RegMuFree
<1>3. misses' \in Nat /\ (misses' = 0 => misses = 0 /\ (Len(users) <= ListLimit => found = DOMAIN users))
  BY <1>1, Context, ListsFacts DEF Auth!AuthAssumption
<1>4. CASE Auth!Return(p) /\ UNCHANGED regMu
  BY <1>2, <1>3, <1>4, IdleCall, CallMoves DEF Auth!Return, Auth!AuthAssumption
<1>5. CASE /\ ~\E u \in found : users[u].email = authCall[p].email
           /\ authCall' = [authCall EXCEPT ![p].pc = "count"] /\ regMu' = p
  <2> DEFINE c == [authCall[p] EXCEPT !.pc = "count"]
  <2>1. c \in AuthCall /\ c.pc = "count" /\ c.email = authCall[p].email /\ c.new = authCall[p].new
    BY <1>2 DEF AuthCall
  <2>2. authCall' = [authCall EXCEPT ![p] = c]
    BY <1>5
  <2>3. c.email \in Email /\ c.new \in Password
    BY <1>2, <2>1 DEF AuthInv, Calls
  <2>4. misses' = 0 /\ Len(users) <= ListLimit => \A u \in DOMAIN users : users[u].email # c.email
    BY <1>3, <1>5, <2>1
  <2> HIDE DEF c
  <2> QED BY <1>2, <1>3, <1>5, <2>1, <2>2, <2>3, <2>4, CallMoves
<1> QED BY <1>1, <1>4, <1>5

LEMMA UserCountStep ==
    ASSUME Auth!AuthAssumption, AuthInv, NEW p \in Proc, Auth!UserCount(p)
    PROVE  AuthInv'
<1>1. PICK found \in SUBSET DOMAIN users :
          /\ Auth!Lists(1, found)
          /\ authCall' = [authCall EXCEPT ![p].pc = "insert", ![p].role = Auth!RoleFor(found)]
  BY DEF Auth!UserCount
<1>2. /\ authCall[p].pc = "count" /\ authCall[p] \in AuthCall /\ regMu' = regMu /\ server = "up"
      /\ UNCHANGED <<users, Auth!boot, tokens, now>>
  BY Context DEF Auth!UserCount, Auth!At
<1>3. misses' \in Nat /\ (misses' = 0 => misses = 0 /\ (Len(users) # 0 => found # {}))
  <2>1. users \in Seq(Account) /\ misses \in Nat /\ 1 \in Nat /\ Auth!Lists(1, found)
    BY <1>1, Context
  <2>2. /\ misses' \in Nat
        /\ misses' = 0 => misses = 0 /\ (1 # 0 /\ Len(users) # 0 => found # {})
    BY <2>1, ListsFacts
  <2> QED BY <2>2
<1> DEFINE c == [authCall[p] EXCEPT !.pc = "insert", !.role = Auth!RoleFor(found)]
<1>4. /\ c \in AuthCall /\ c.pc = "insert" /\ c.email = authCall[p].email
      /\ c.new = authCall[p].new /\ c.role = Auth!RoleFor(found) /\ c.role \in {"admin", "user"}
  BY <1>2 DEF AuthCall, Auth!RoleFor
<1>5. authCall' = [authCall EXCEPT ![p] = c]
  BY <1>1, Context
<1>6. c.email \in Email /\ c.new \in Password /\ regMu = p
  BY <1>2, <1>4 DEF AuthInv, Calls, Auth!TypeOK
<1>7. misses' = 0 => (c.role = "admin" <=> Len(users) = 0)
  <2>1. Len(users) = 0 => found = {}
    BY <1>1, Context
  <2> QED BY <1>3, <1>4, <2>1 DEF Auth!RoleFor
<1>8. misses' = 0 /\ Len(users) <= ListLimit => \A u \in DOMAIN users : users[u].email # c.email
  BY <1>2, <1>3, <1>4 DEF AuthInv, Unique, Signup
<1> HIDE DEF c
<1> QED BY <1>2, <1>3, <1>4, <1>5, <1>6, <1>7, <1>8, CallMoves

LEMMA CountFailsStep ==
    ASSUME Auth!AuthAssumption, AuthInv, NEW p \in Proc, Auth!CountFails(p)
    PROVE  AuthInv'
<1>1. /\ authCall[p].pc = "count" /\ authCall' = [authCall EXCEPT ![p] = Auth!Idle] /\ regMu' = Nobody
      /\ misses' = misses /\ UNCHANGED <<users, Auth!boot, tokens, now>>
  BY DEF Auth!CountFails, Auth!At, Auth!Return
<1>2. regMu = p
  BY <1>1 DEF AuthInv, Auth!TypeOK
<1> QED BY <1>1, <1>2, Context, IdleCall, CallMoves

\* The account of a sign-up that found neither its address nor, if it is to be
\* the admin's, any other.
LEMMA NewAccount ==
    ASSUME Auth!AuthAssumption, AuthInv, NEW p \in Proc, Auth!At(p, "insert"), Len(users) < MaxUsers,
           users' = Auth!NewUser(p), authCall' = [authCall EXCEPT ![p] = Auth!Idle], regMu' = Nobody,
           misses' = misses, UNCHANGED <<Auth!boot, now>>,
           \/ tokens' = tokens
           \/ server = "up" /\ Auth!Issue(Len(users) + 1)
    PROVE  AuthInv'
<1> DEFINE n == Len(users) + 1
           a == [email |-> authCall[p].email, pw |-> authCall[p].new, role |-> authCall[p].role]
<1>0. n \in Nat /\ n \in 1 .. MaxUsers /\ MaxUsers \in Nat /\ Lifetime \in Nat
  BY Context DEF Auth!AuthAssumption
<1>1. a \in Account
  BY DEF Auth!At, AuthInv, Calls, Account
<1>2. /\ users' \in Seq(Account) /\ Len(users') = n /\ DOMAIN users' = 1 .. n
      /\ \A u \in DOMAIN users : users'[u] = users[u]
      /\ users'[n] = a
  BY <1>1, Context DEF Auth!NewUser
<1>3. /\ DOMAIN users' = DOMAIN users \cup {n} /\ n \notin DOMAIN users
      /\ (n = 1 <=> Len(users) = 0) /\ \A u \in DOMAIN users : u # n
  BY <1>0, <1>2, Context
<1> HIDE DEF a
<1>4. /\ \A q \in Proc : authCall'[q] = IF q = p THEN Auth!Idle ELSE authCall[q]
      /\ authCall' \in [Proc -> AuthCall] /\ regMu = p
  BY Context, IdleCall DEF Auth!At, AuthInv, Auth!TypeOK
<1>5. \A q \in Proc : q # p => authCall[q].pc \notin {"count", "insert"}
  BY Context DEF Auth!At
<1>6. \A t \in tokens' : \/ t \in tokens
                         \/ /\ server = "up"
                            /\ t.sub = n /\ t.exp = now + Lifetime /\ t.key = secret
                            /\ t = [sub |-> n, exp |-> now + Lifetime, key |-> secret]
  BY DEF Auth!Issue
<1>7. Auth!TypeOK'
  <2>1. \A q \in Proc : (regMu' = q) <=> authCall'[q].pc \in {"count", "insert"}
    BY <1>4, <1>5, IdleCall DEF Auth!AuthAssumption
  <2>2. \A q \in Proc : authCall'[q].pc \in {"idle", "lock", "count", "insert", "update"}
    BY <1>4 DEF AuthCall
  <2>3. tokens' \subseteq Auth!Token
    <3>1. secret \in Nat /\ now + Lifetime \in Nat
      BY <1>0, Context DEF AuthInv, Auth!TypeOK
    <3> QED BY <1>0, <1>6, <3>1 DEF AuthInv, Auth!TypeOK, Auth!Token
  <2> QED BY <1>0, <1>2, <2>1, <2>2, <2>3 DEF AuthInv, Auth!TypeOK, Auth!boot, Auth!file, Account
<1>8. Calls'
  BY <1>3, <1>4, IdleCall DEF AuthInv, Calls, Auth!boot, Auth!file
<1>9. Unique'
  <2> SUFFICES ASSUME misses = 0 PROVE Signup' /\ Auth!OneAccountPerEmail' /\ Auth!FirstIsTheAdmin'
    BY DEF Unique
  <2>1. Signup /\ Auth!OneAccountPerEmail /\ Auth!FirstIsTheAdmin
    BY DEF AuthInv, Unique
  <2>2. a.email = authCall[p].email /\ a.role = authCall[p].role
    BY DEF a
  <2>3. Signup'
    BY <1>4, <1>5, IdleCall DEF Signup
  <2>4. Auth!OneAccountPerEmail'
    <3>1. (\E u \in DOMAIN users : users[u].email = a.email) => n > ListLimit
      BY <2>1, <2>2, Context DEF Signup, Auth!At, Auth!AuthAssumption
    <3>2. ASSUME NEW u \in DOMAIN users', NEW v \in DOMAIN users',
                 users'[u].email = users'[v].email, u < v
          PROVE  v > ListLimit
      <4>1. u \in DOMAIN users
        BY <1>0, <1>2, <1>3, <3>2, Context
      <4>2. CASE v \in DOMAIN users
        BY <1>2, <2>1, <3>2, <4>1, <4>2 DEF Auth!OneAccountPerEmail
      <4>3. CASE v = n
        BY <1>2, <3>1, <3>2, <4>1, <4>3
      <4> QED BY <1>3, <3>2, <4>2, <4>3
    <3> QED BY <3>2 DEF Auth!OneAccountPerEmail
  <2>5. Auth!FirstIsTheAdmin'
    <3>1. a.role = "admin" <=> n = 1
      BY <1>3, <2>1, <2>2 DEF Signup, Auth!At
    <3> QED BY <1>2, <1>3, <2>1, <3>1 DEF Auth!FirstIsTheAdmin
  <2> QED BY <2>3, <2>4, <2>5
<1>10. Signed'
  <2>1. ASSUME server = "up"
        PROVE  secret \in Nat /\ secret # 0 /\ secret = Key
    BY <2>1, Context DEF AuthInv, Auth!TypeOK, Signed, Key
  <2>2. now + Lifetime \in Nat
    BY <1>0, Context
  <2> QED BY <1>3, <1>2, <1>6, <2>1, <2>2 DEF AuthInv, Signed, Key, Auth!boot, Auth!file
<1> QED BY <1>7, <1>8, <1>9, <1>10 DEF AuthInv

LEMMA InsertUserStep ==
    ASSUME Auth!AuthAssumption, AuthInv, NEW p \in Proc, Auth!InsertUser(p) \/ Auth!InsertFails(p)
    PROVE  AuthInv'
<1>1. /\ Auth!At(p, "insert") /\ server = "up" /\ authCall' = [authCall EXCEPT ![p] = Auth!Idle]
      /\ regMu' = Nobody /\ misses' = misses /\ UNCHANGED <<Auth!boot, now>>
  BY Context DEF Auth!InsertUser, Auth!InsertFails, Auth!At, Auth!Return
<1>2. CASE Auth!InsertUser(p)
  <2>1. Len(users) < MaxUsers /\ users' = Auth!NewUser(p) /\ Auth!Issue(Len(users) + 1)
    BY <1>2 DEF Auth!InsertUser
  <2> QED BY <1>1, <2>1, NewAccount
<1>3. CASE Auth!InsertFails(p) /\ users' = users
  <2>1. regMu = p /\ tokens' = tokens
    BY <1>1, <1>3 DEF Auth!InsertFails, AuthInv, Auth!TypeOK, Auth!At
  <2> QED BY <1>1, <1>3, <2>1, Context, IdleCall, CallMoves
<1>4. CASE Auth!InsertFails(p) /\ users' # users
  <2>1. Len(users) < MaxUsers /\ users' = Auth!NewUser(p) /\ tokens' = tokens
    BY <1>4 DEF Auth!InsertFails
  <2> QED BY <1>1, <2>1, NewAccount
<1> QED BY <1>2, <1>3, <1>4

LEMMA LoginStep ==
    ASSUME Auth!AuthAssumption, AuthInv, NEW p \in Proc, NEW email \in Email, NEW pw \in Password,
           Auth!Login(p, email, pw)
    PROVE  AuthInv'
<1>1. PICK found \in SUBSET DOMAIN users :
          /\ Auth!Lists(ListLimit, found)
          /\ tokens' = tokens \/ \E u \in found : Auth!Issue(u)
  BY DEF Auth!Login, Auth!Holders
<1>2. /\ authCall' = [authCall EXCEPT ![p] = Auth!Idle] /\ authCall[p].pc = "idle" /\ server = "up"
      /\ UNCHANGED <<users, regMu, Auth!boot, now>>
  BY DEF Auth!Login, Auth!Begin, Auth!At
<1>3. misses' \in Nat /\ (misses' = 0 => misses = 0)
  BY <1>1, Context, ListsFacts DEF Auth!AuthAssumption
<1>4. /\ \A q \in Proc : authCall'[q] = IF q = p THEN Auth!Idle ELSE authCall[q]
      /\ authCall' \in [Proc -> AuthCall] /\ regMu # p
  BY <1>2, Context, IdleCall DEF AuthInv, Auth!TypeOK
<1>5. \A t \in tokens' :
          \/ t \in tokens
          \/ /\ t.sub \in DOMAIN users /\ t.exp = now + Lifetime /\ t.key = secret
             /\ t = [sub |-> t.sub, exp |-> now + Lifetime, key |-> secret]
  BY <1>1, Context DEF Auth!Issue
<1>6. /\ secret \in Nat /\ secret # 0 /\ secret = Key
      /\ now + Lifetime \in Nat /\ DOMAIN users \subseteq 1 .. MaxUsers
  BY <1>2, Context DEF AuthInv, Auth!TypeOK, Signed, Key, Auth!AuthAssumption
<1>7. Auth!TypeOK'
  <2>1. \A q \in Proc : (regMu' = q) <=> authCall'[q].pc \in {"count", "insert"}
    BY <1>2, <1>4, IdleCall DEF AuthInv, Auth!TypeOK
  <2>2. \A q \in Proc : authCall'[q].pc \in {"idle", "lock", "count", "insert", "update"}
    BY <1>4 DEF AuthCall
  <2>3. tokens' \subseteq Auth!Token
    BY <1>5, <1>6 DEF AuthInv, Auth!TypeOK, Auth!Token
  <2> QED BY <1>2, <2>1, <2>2, <2>3 DEF AuthInv, Auth!TypeOK, Auth!boot, Auth!file
<1>8. Calls'
  BY <1>2, <1>3, <1>4, IdleCall DEF AuthInv, Calls, Auth!boot, Auth!file
<1>9. Unique'
  BY <1>2, <1>3, <1>4, IdleCall DEF AuthInv, Unique, Signup, Auth!OneAccountPerEmail,
                                          Auth!FirstIsTheAdmin
<1>10. Signed'
  BY <1>2, <1>5, <1>6 DEF AuthInv, Signed, Key, Auth!boot, Auth!file
<1> QED BY <1>7, <1>8, <1>9, <1>10 DEF AuthInv

LEMMA VerifyCurrentStep ==
    ASSUME Auth!AuthAssumption, AuthInv, NEW p \in Proc, NEW u \in DOMAIN users,
           NEW old \in Password, NEW new \in Password, Auth!VerifyCurrent(p, u, old, new)
    PROVE  AuthInv'
<1> DEFINE c == [Auth!Idle EXCEPT !.pc = "update", !.user = u, !.old = old, !.new = new]
<1>1. u \in Nat
  BY Context
<1>2. c \in AuthCall /\ c.pc = "update" /\ c.user = u /\ c.new = new
  BY <1>1 DEF Auth!Idle, AuthCall
<1>3. /\ authCall' = [authCall EXCEPT ![p] = c] /\ regMu' = regMu /\ misses' = misses
      /\ Auth!At(p, "idle") /\ server = "up" /\ UNCHANGED <<users, Auth!boot, tokens, now>>
  BY DEF Auth!VerifyCurrent, Auth!Begin
<1>4. regMu # p
  BY <1>3 DEF Auth!At, AuthInv, Auth!TypeOK
<1> HIDE DEF c
<1> QED BY <1>2, <1>3, <1>4, Context, CallMoves

\* The address and the role of an account stay.
LEMMA UpdatePasswordStep ==
    ASSUME Auth!AuthAssumption, AuthInv, NEW p \in Proc, Auth!UpdatePassword(p)
    PROVE  AuthInv'
<1> DEFINE v == authCall[p].user
<1>1. /\ v \in DOMAIN users /\ authCall[p].new \in Password /\ authCall[p].pc = "update"
      /\ users' = [users EXCEPT ![v].pw = authCall[p].new]
      /\ authCall' = [authCall EXCEPT ![p] = Auth!Idle] /\ misses' = misses
      /\ UNCHANGED <<regMu, Auth!boot, tokens, now>>
  BY DEF Auth!UpdatePassword, Auth!At, AuthInv, Calls, Auth!Return
<1> HIDE DEF v
<1>2. /\ users' \in Seq(Account) /\ Len(users') = Len(users) /\ DOMAIN users' = DOMAIN users
      /\ \A u \in DOMAIN users :
            users'[u].email = users[u].email /\ users'[u].role = users[u].role
  <2>1. users[v] \in Account
    BY <1>1, Context
  <2>2. [users[v] EXCEPT !.pw = authCall[p].new] \in Account
    BY <1>1, <2>1 DEF Account
  <2>3. users' = [users EXCEPT ![v] = [users[v] EXCEPT !.pw = authCall[p].new]]
    BY <1>1
  <2>4. \A u \in DOMAIN users :
           users'[u] = IF u = v THEN [users[v] EXCEPT !.pw = authCall[p].new] ELSE users[u]
    BY <2>3
  <2>5. users' \in Seq(Account) /\ Len(users') = Len(users) /\ DOMAIN users' = DOMAIN users
    BY <1>1, <2>2, <2>3, Context
  <2>6. \A u \in DOMAIN users : users[u] \in Account
    BY Context
  <2> QED BY <2>4, <2>5, <2>6 DEF Account
<1>3. /\ \A q \in Proc : authCall'[q] = IF q = p THEN Auth!Idle ELSE authCall[q]
      /\ authCall' \in [Proc -> AuthCall]
  BY <1>1, Context, IdleCall
<1>4. Auth!TypeOK'
  <2>1. \A q \in Proc : (regMu' = q) <=> authCall'[q].pc \in {"count", "insert"}
    BY <1>1, <1>3, IdleCall DEF AuthInv, Auth!TypeOK
  <2>2. \A q \in Proc : authCall'[q].pc \in {"idle", "lock", "count", "insert", "update"}
    BY <1>3 DEF AuthCall
  <2> QED BY <1>1, <1>2, <2>1, <2>2 DEF AuthInv, Auth!TypeOK, Auth!boot, Auth!file, Account
<1>5. Calls'
  BY <1>1, <1>2, <1>3, IdleCall DEF AuthInv, Calls, Auth!boot, Auth!file
<1>6. Unique'
  BY <1>1, <1>2, <1>3, IdleCall DEF AuthInv, Unique, Signup, Auth!OneAccountPerEmail,
                                          Auth!FirstIsTheAdmin
<1>7. Signed'
  BY <1>1, <1>2 DEF AuthInv, Signed, Key, Auth!boot, Auth!file
<1> QED BY <1>4, <1>5, <1>6, <1>7 DEF AuthInv

\* A step that leaves accounts and tokens alone, and either every request or
\* none: the types, the requests and the accounts stay right.
LEMMA BootMoves ==
    ASSUME Auth!AuthAssumption, AuthInv, UNCHANGED <<users, tokens, misses>>,
           now' \in Nat, secrets' \in Nat, secrets <= secrets',
           server' \in {"down", "loading", "writing", "up"},
           secret' \in 0 .. secrets', secretFile' \in 0 .. secrets',
           secretOld' \subseteq 0 .. secrets',
           gone' \subseteq 1 .. secrets', void' \subseteq 1 .. secrets',
           \/ UNCHANGED <<regMu, authCall>> /\ (server = "up" => server' = "up")
           \/ regMu' = Nobody /\ authCall' = [p \in Proc |-> Auth!Idle]
    PROVE  Auth!TypeOK' /\ Calls' /\ Unique'
<1>1. CASE UNCHANGED <<regMu, authCall>> /\ (server = "up" => server' = "up")
  <2>1. Auth!TypeOK'
    BY <1>1 DEF AuthInv, Auth!TypeOK
  <2>2. Calls'
    BY <1>1 DEF AuthInv, Calls
  <2>3. Unique'
    BY <1>1 DEF AuthInv, Unique, Signup, Auth!OneAccountPerEmail,
                Auth!FirstIsTheAdmin
  <2> QED BY <2>1, <2>2, <2>3
<1>2. CASE regMu' = Nobody /\ authCall' = [p \in Proc |-> Auth!Idle]
  <2>1. \A p \in Proc : authCall'[p] = Auth!Idle
    BY <1>2
  <2>2. \A p \in Proc : (regMu' = p) <=> authCall'[p].pc \in {"count", "insert"}
    BY <1>2, <2>1, IdleCall DEF Auth!AuthAssumption
  <2>3. \A p \in Proc : authCall'[p].pc \in {"idle", "lock", "count", "insert", "update"}
    BY <2>1, IdleCall
  <2>4. Auth!TypeOK'
    BY <2>2, <2>3 DEF AuthInv, Auth!TypeOK
  <2>5. Calls'
    BY <1>2, <2>1, IdleCall DEF AuthInv, Calls
  <2>6. Unique'
    BY <1>2, <2>1, IdleCall DEF AuthInv, Unique, Signup, Auth!OneAccountPerEmail,
                               Auth!FirstIsTheAdmin
  <2> QED BY <2>4, <2>5, <2>6
<1> QED BY <1>1, <1>2

\* What is known of the secret before a step.
LEMMA BootContext ==
    ASSUME Auth!AuthAssumption, AuthInv
    PROVE  /\ server \in {"down", "loading", "writing", "up"} /\ secrets \in Nat /\ now \in Nat
           /\ secret \in 0 .. secrets /\ secretFile \in 0 .. secrets
           /\ secretOld \subseteq 0 .. secrets /\ gone \subseteq 1 .. secrets
           /\ void \subseteq 1 .. secrets /\ Signed
BY Context DEF AuthInv, Auth!TypeOK

LEMMA StartStep ==
    ASSUME Auth!AuthAssumption, AuthInv, Auth!Start
    PROVE  AuthInv'
<1> USE BootContext
<1>1. CASE Auth!ReadSecret
  <2>1. /\ UNCHANGED <<users, tokens, misses, now, secrets, regMu, authCall>>
        /\ UNCHANGED <<secretFile, secretOld, gone>>
        /\ server = "down" /\ server' = "up" /\ secret' = secretFile /\ secretFile # 0
        /\ void' = gone
    BY <1>1 DEF Auth!ReadSecret, Auth!Up, Auth!file
  <2>2. Signed'
    BY <2>1 DEF Signed, Key
  <2> QED BY <2>1, <2>2, BootMoves DEF AuthInv
<1>2. CASE Auth!NewSecret
  <2>1. /\ UNCHANGED <<users, tokens, misses, now, regMu, authCall>>
        /\ UNCHANGED <<secretFile, secretOld, gone, void>>
        /\ server = "down" /\ server' = "loading"
        /\ secret' = secrets + 1 /\ secrets' = secrets + 1
    BY <1>2 DEF Auth!NewSecret, Auth!file
  <2>2. Signed'
    BY <2>1 DEF Signed, Key
  <2> QED BY <2>1, <2>2, BootMoves DEF AuthInv
<1>3. CASE Auth!CutSecret
  <2>1. /\ UNCHANGED <<users, tokens, misses, now, secrets, regMu, authCall, secret, void>>
        /\ secretFile' = 0 /\ secretOld' = secretOld \cup {secretFile}
        /\ gone' = gone \cup ({secretFile} \ {0})
        /\ server = "loading" /\ server' = "writing"
    BY <1>3 DEF Auth!CutSecret, Auth!Replace
  <2>2. Signed'
    BY <2>1 DEF Signed, Key
  <2> QED BY <2>1, <2>2, BootMoves DEF AuthInv
<1>4. CASE Auth!WriteSecret
  <2>1. /\ UNCHANGED <<users, tokens, misses, now, secrets, regMu, authCall>>
        /\ secretFile' = secret /\ secretOld' = secretOld \cup {secretFile}
        /\ gone' = gone \cup ({secretFile} \ {0}) /\ void' = gone'
        /\ server = "writing" /\ server' = "up" /\ secret' = secret
    BY <1>4 DEF Auth!WriteSecret, Auth!Replace, Auth!Up
  <2>2. Signed'
    BY <2>1 DEF Signed, Key
  <2> QED BY <2>1, <2>2, BootMoves DEF AuthInv
<1>5. CASE Auth!WriteSecretFails
  <2>1. /\ UNCHANGED <<users, tokens, misses, now, secrets, regMu, authCall>>
        /\ UNCHANGED <<secretFile, secretOld, gone, void>>
        /\ server \in {"loading", "writing"} /\ server' = "down" /\ secret' = 0
    BY <1>5 DEF Auth!WriteSecretFails, Auth!file
  <2>2. Signed'
    BY <2>1 DEF Signed, Key
  <2> QED BY <2>1, <2>2, BootMoves DEF AuthInv
<1> QED BY <1>1, <1>2, <1>3, <1>4, <1>5 DEF Auth!Start

LEMMA DownStep ==
    ASSUME Auth!AuthAssumption, AuthInv, Auth!Kill \/ Auth!PowerLoss
    PROVE  AuthInv'
<1> USE BootContext
<1>1. /\ UNCHANGED <<users, secrets, void, tokens, now, misses>>
      /\ server' = "down" /\ secret' = 0 /\ regMu' = Nobody
      /\ authCall' = [p \in Proc |-> Auth!Idle]
  BY DEF Auth!Kill, Auth!PowerLoss, Auth!Down
<1>2. \A t \in tokens : t.key \in gone \/ t.key = secretFile
  BY DEF Signed, Key
<1>3. CASE UNCHANGED <<secretFile, gone>> /\ secretOld' \subseteq secretOld
  <2>1. Signed'
    BY <1>1, <1>2, <1>3 DEF Signed, Key
  <2> QED BY <1>1, <1>3, <2>1, BootMoves DEF AuthInv
<1>4. ASSUME NEW content \in secretOld, secretFile' = content, secretOld' = {},
             gone' = (1 .. secrets) \ {content}
      PROVE  AuthInv'
  <2>1. \A t \in tokens : t.key \in 1 .. secrets
    BY <1>2 DEF Signed, Key
  <2>2. Signed'
    BY <1>1, <1>4, <2>1 DEF Signed, Key
  <2>3. gone' \subseteq 1 .. secrets' /\ secretFile' \in 0 .. secrets'
    BY <1>1, <1>4
  <2> QED BY <1>1, <1>4, <2>2, <2>3, BootMoves DEF AuthInv
<1> QED BY <1>3, <1>4 DEF Auth!Kill, Auth!PowerLoss, Auth!file

LEMMA RotateStep ==
    ASSUME Auth!AuthAssumption, AuthInv, Auth!Rotate
    PROVE  AuthInv'
<1> USE BootContext
<1>1. /\ UNCHANGED <<users, tokens, misses, now, regMu, authCall, server, secret, void>>
      /\ secretOld' = secretOld \cup {secretFile}
      /\ gone' = gone \cup ({secretFile} \ {0})
      /\ \/ secretFile' = 0 /\ secrets' = secrets
         \/ secretFile' = secrets + 1 /\ secrets' = secrets + 1
  BY DEF Auth!Rotate, Auth!Replace
<1>2. Signed'
  BY <1>1 DEF Signed, Key
<1> QED BY <1>1, <1>2, BootMoves DEF AuthInv

LEMMA TickStep ==
    ASSUME Auth!AuthAssumption, AuthInv, Auth!WriteBack \/ Auth!Tick
    PROVE  AuthInv'
<1> USE BootContext
<1>1. /\ UNCHANGED <<users, tokens, misses, secrets, regMu, authCall, server, secret>>
      /\ UNCHANGED <<secretFile, gone, void>>
      /\ secretOld' \subseteq secretOld /\ now' \in Nat
  BY DEF Auth!WriteBack, Auth!Tick, Auth!boot, Auth!file
<1>2. Signed'
  BY <1>1 DEF Signed, Key
<1> QED BY <1>1, <1>2, BootMoves DEF AuthInv

LEMMA AuthNext ==
    ASSUME Auth!AuthAssumption, AuthInv, [Auth!Next]_(Auth!vars)
    PROVE  AuthInv'
<1>1. ASSUME NEW p \in Proc, NEW email \in Email, NEW pw \in Password,
             Auth!CallRegister(p, email, pw) \/ Auth!Login(p, email, pw)
      PROVE  AuthInv'
  BY <1>1, CallRegisterStep, LoginStep
<1>2. ASSUME NEW p \in Proc, NEW u \in DOMAIN users, NEW old \in Password, NEW new \in Password,
             Auth!VerifyCurrent(p, u, old, new)
      PROVE  AuthInv'
  BY <1>2, VerifyCurrentStep
<1>3. ASSUME NEW p \in Proc, Auth!Register(p) \/ Auth!UpdatePassword(p) PROVE AuthInv'
  BY <1>3, FindByEmailStep, UserCountStep, CountFailsStep, InsertUserStep, UpdatePasswordStep
     DEF Auth!Register
<1>4. CASE Auth!Start \/ Auth!Kill \/ Auth!PowerLoss \/ Auth!Rotate \/ Auth!WriteBack \/ Auth!Tick
  BY <1>4, StartStep, DownStep, RotateStep, TickStep
<1>5. CASE UNCHANGED Auth!vars
  BY <1>5 DEF Auth!vars, Auth!boot, Auth!file, AuthInv, Auth!TypeOK, Calls, Unique, Signup,
              Auth!OneAccountPerEmail, Auth!FirstIsTheAdmin, Signed, Key
<1> QED BY <1>1, <1>2, <1>3, <1>4, <1>5 DEF Auth!Next

\* Sign-ups, secrets and tokens agree in every state.
THEOREM AuthInvariant ==
    ASSUME Auth!AuthAssumption
    PROVE  Auth!Spec => []AuthInv
<1>1. Auth!Init => AuthInv
  BY AuthInit
<1>2. AuthInv /\ [Auth!Next]_(Auth!vars) => AuthInv'
  BY AuthNext
<1> QED BY <1>1, <1>2, PTL DEF Auth!Spec

\* However sign-ups overlap, fail half-way and are tried again, regMu has one
\* owner while an account is made, and no sign-up takes an address that is
\* taken before there are ListLimit accounts, as long as no read error has left
\* a record out of a listing.
THEOREM AccountsStayUnique ==
    ASSUME Auth!AuthAssumption
    PROVE  Auth!Spec => [](misses = 0 => AccountsAreUnique)
<1>1. AuthInv => (misses = 0 => AccountsAreUnique)
  BY DEF AuthInv, Unique, AccountsAreUnique, Auth!AccountsAreUnique
<1> QED BY AuthInvariant, <1>1, PTL

\* The account made first, and no other, is the admin: a count that fails does
\* not make another one, as long as no read error has left out a record.
THEOREM OneAdmin ==
    ASSUME Auth!AuthAssumption
    PROVE  Auth!Spec => [](misses = 0 => FirstIsTheAdmin)
<1>1. AuthInv => (misses = 0 => FirstIsTheAdmin)
  BY DEF AuthInv, Unique, FirstIsTheAdmin
<1> QED BY AuthInvariant, <1>1, PTL

\* While the server is up it accepts every token that has not expired and
\* whose secret .secret has not lost, and none whose secret it had lost when
\* the server came up: however often it was killed, also between making a
\* secret and writing it, whatever starts could not read or write the file, and
\* whenever somebody removed or replaced it.
THEOREM SecretDecidesTokens ==
    ASSUME Auth!AuthAssumption
    PROVE  Auth!Spec => []TokensFollowSecret
<1>1. ASSUME AuthInv PROVE TokensFollowSecret
  <2> SUFFICES ASSUME server = "up", NEW t \in tokens
               PROVE  /\ now <= t.exp /\ t.key \notin gone => Auth!VerifyToken(t)
                      /\ now > t.exp \/ t.key \in void => ~Auth!VerifyToken(t)
    BY DEF TokensFollowSecret, Auth!TokensFollowSecret
  <2>1. /\ now \in Nat /\ t.exp \in Nat /\ t.sub \in DOMAIN users
        /\ t.key \in gone \/ t.key = secret
        /\ secret \notin void
    BY <1>1, Context DEF AuthInv, Calls, Signed, Key
  <2> QED BY <2>1 DEF Auth!VerifyToken
<1> QED BY AuthInvariant, <1>1, PTL

----------------------------------------------------------------------------
(* Requests, rights and the log.                                           *)

AccessCall ==
    [pc : {"idle", "auth", "handle", "meta", "rule", "act", "log"}, n : Nat,
     user : Access!Asker, path : Access!Paths, method : Access!Methods, coll : Coll \cup Internal,
     meta : [Access!RuleName -> Access!StoredRule], status : Nat]

Requests ==
    /\ req \in [Request -> AccessCall] /\ requests \in Nat
    /\ exists \subseteq Coll
    /\ rules \in [Coll -> [Access!RuleName -> Access!StoredRule]]
    /\ DOMAIN seen = Request

\* Who is past a middleware has been let through by it.
Admitted ==
    \A r \in Request :
        /\ req[r].pc \in {"meta", "rule"} => req[r].path \in Access!OfRecords
        /\ req[r].pc = "handle" =>
              /\ req[r].path \notin Access!OfRecords
              /\ Access!authMiddleware(req[r].path, req[r].method, req[r].user) = 0

\* What is in force is remembered of every request, and so is what was read.
RulesSeen ==
    \A r \in Request :
        /\ req[r].pc # "idle" /\ req[r].coll \in exists => rules[req[r].coll] \in seen[r]
        /\ req[r].pc = "rule" => req[r].coll \in Coll /\ req[r].meta \in seen[r]

\* The inductive invariant.
AccessInv ==
    /\ Requests /\ Admitted /\ RulesSeen
    /\ Access!ActsWithinRights /\ Access!AnswersAreLogged

\* Nothing but one of the three levels is ever compared.
LEMMA Levels == \A x : Access!Normalize(x) \in {"public", "authed", "admin"}
BY DEF Access!Normalize, Access!Rule

LEMMA VerdictIsRight ==
    ASSUME NEW level \in {"public", "authed", "admin"}, NEW user \in Access!Asker
    PROVE  /\ Access!Verdict(level, user) = 0 => Access!May(level, user)
           /\ user # Nobody => (Access!May(level, user) => Access!Verdict(level, user) = 0)
<1>1. CASE level = "public"
  BY <1>1 DEF Access!Verdict, Access!May
<1>2. CASE level = "authed"
  BY <1>2 DEF Access!Verdict, Access!May, Access!Asker
<1>3. CASE level = "admin"
  BY <1>3 DEF Access!Verdict, Access!May, Access!Asker
<1> QED BY <1>1, <1>2, <1>3

\* What the middleware lets through and the handler knows is documented.
LEMMA PolicyIsDocumented ==
    ASSUME NEW path \in Access!Paths \ Access!OfRecords, NEW method \in Access!Handled(path),
           NEW user \in Access!Asker, Access!authMiddleware(path, method, user) = 0
    PROVE  Access!May(Access!Documented(path, method), user)
<1> DEFINE given == Access!routePolicy(path, method)
           wanted == Access!Documented(path, method)
<1>1. /\ given \in {"public", "authed", "admin"}
      /\ given = wanted \/ (given = "admin" /\ wanted = "authed")
  <2>1. CASE path \in {"health", "login", "register"}
    BY <2>1 DEF Access!routePolicy, Access!Documented
  <2>2. CASE path \in {"kv", "stats", "logs"}
    BY <2>2 DEF Access!routePolicy, Access!Documented
  <2>3. CASE path \in {"me", "password", "realtime"}
    BY <2>3 DEF Access!routePolicy, Access!Documented
  <2>4. CASE path = "collections"
    BY <2>4 DEF Access!routePolicy, Access!Documented
  <2>5. CASE path = "collection"
    BY <2>5 DEF Access!routePolicy, Access!Documented, Access!Handled
  <2>6. CASE path = "files"
    BY <2>6 DEF Access!routePolicy, Access!Documented, Access!Handled
  <2>7. CASE path = "file"
    BY <2>7 DEF Access!routePolicy, Access!Documented, Access!Handled
  <2> QED BY <2>1, <2>2, <2>3, <2>4, <2>5, <2>6, <2>7 DEF Access!Paths, Access!OfRecords
<1>2. Access!Verdict(given, user) = 0
  BY DEF Access!authMiddleware
<1> HIDE DEF given
<1>3. Access!May(given, user)
  BY <1>1, <1>2, VerdictIsRight
<1>4. CASE given = "admin" /\ wanted = "authed"
  BY <1>3, <1>4 DEF Access!May
<1> QED BY <1>1, <1>3, <1>4

LEMMA AccessInit ==
    ASSUME Access!AccessAssumption, Access!Init
    PROVE  AccessInv
<1>1. \A r \in Request : req[r] = Access!Idle
  BY DEF Access!Init
<1>2. Access!NoMeta.rules \in [Access!RuleName -> Access!StoredRule]
  BY DEF Access!NoMeta, Access!StoredRule
<1>3. Access!Idle \in AccessCall
  BY <1>2 DEF Access!Idle, AccessCall, Access!Asker, Access!Paths, Access!Methods,
              Access!AccessAssumption
<1>4. Access!Idle.pc = "idle"
  BY DEF Access!Idle
<1>5. Requests
  BY <1>2, <1>3 DEF Access!Init, Requests
<1>6. Admitted /\ RulesSeen /\ Access!ActsWithinRights
  BY <1>1, <1>4 DEF Admitted, RulesSeen, Access!ActsWithinRights, Access!At
<1>7. Access!AnswersAreLogged
  BY <1>1, <1>4 DEF Access!Init, Access!AnswersAreLogged, Access!At
<1> QED BY <1>5, <1>6, <1>7 DEF AccessInv

\* What ActsWithinRights says of one request.
Entitled(c, inForce) ==
    IF c.path \in Access!OfRecords
    THEN /\ c.coll \in Coll
         /\ \E m \in inForce :
               Access!May(Access!Normalize(m[Access!RuleFor(c.path, c.method)]), c.user)
    ELSE Access!May(Access!Documented(c.path, c.method), c.user)

Entry(c) == <<c.n, c.path, c.status>>

\* The request log, and what is on its way to it, with the answers.
LEMMA LoggedEntries ==
    Access!AnswersAreLogged <=>
        \A e : (e \in answers /\ e[2] # "realtime") <=>
               \/ e \in log
               \/ e[2] # "realtime" /\ \E r \in Request : req[r].pc = "log" /\ e = Entry(req[r])
BY DEF Access!AnswersAreLogged, Access!At, Entry

\* A step of one request between its arrival and its answer.
LEMMA RequestMoves ==
    ASSUME AccessInv, NEW r \in Request, NEW c \in AccessCall,
           req' = [req EXCEPT ![r] = c], req[r].pc \notin {"idle", "log"}, c.pc # "idle",
           c.coll = req[r].coll, UNCHANGED <<rules, exists, log, seen, requests>>,
           \/ c.pc # "log" /\ answers' = answers
           \/ c.pc = "log" /\ answers' = answers \cup {Entry(c)},
           c.pc \in {"meta", "rule"} => c.path \in Access!OfRecords,
           c.pc = "handle" =>
              c.path \notin Access!OfRecords /\ Access!authMiddleware(c.path, c.method, c.user) = 0,
           c.pc = "rule" => c.coll \in Coll /\ c.meta \in seen[r],
           c.pc = "act" => Entitled(c, seen[r])
    PROVE  AccessInv'
<1>1. req \in [Request -> AccessCall]
  BY DEF AccessInv, Requests
<1>2. \A q \in Request : req'[q] = IF q = r THEN c ELSE req[q]
  BY <1>1
<1>3. Requests'
  BY <1>1 DEF AccessInv, Requests
<1>4. Admitted'
  BY <1>2 DEF AccessInv, Admitted
<1>5. RulesSeen'
  BY <1>2 DEF AccessInv, RulesSeen
<1>6. Access!ActsWithinRights'
  BY <1>2 DEF AccessInv, Access!ActsWithinRights, Access!At, Entitled
<1>7. Access!AnswersAreLogged'
  <2>1. \A e : (e \in answers /\ e[2] # "realtime") <=>
               \/ e \in log
               \/ e[2] # "realtime" /\ \E q \in Request : req[q].pc = "log" /\ e = Entry(req[q])
    BY LoggedEntries DEF AccessInv
  <2>2. \A e : (\E q \in Request : req'[q].pc = "log" /\ e = Entry(req'[q])) <=>
               \/ \E q \in Request : req[q].pc = "log" /\ e = Entry(req[q])
               \/ c.pc = "log" /\ e = Entry(c)
    BY <1>2
  <2>3. \A e : (e \in answers' /\ e[2] # "realtime") <=>
               \/ e \in log'
               \/ e[2] # "realtime" /\ \E q \in Request : req'[q].pc = "log" /\ e = Entry(req'[q])
    BY <2>1, <2>2
  <2> QED BY <2>3 DEF Access!AnswersAreLogged, Access!At, Entry
<1> QED BY <1>3, <1>4, <1>5, <1>6, <1>7 DEF AccessInv

LEMMA AnswerMoves ==
    ASSUME AccessInv, NEW r \in Request, NEW status \in Nat, Access!Answer(r, status),
           req[r].pc \notin {"idle", "log"}, UNCHANGED <<rules, exists, log, seen, requests>>
    PROVE  AccessInv'
<1> DEFINE c == [req[r] EXCEPT !.pc = "log", !.status = status]
<1>1. req[r] \in AccessCall /\ req \in [Request -> AccessCall]
  BY DEF AccessInv, Requests
<1>2. c \in AccessCall /\ c.pc = "log" /\ c.coll = req[r].coll
  BY <1>1 DEF AccessCall
<1>3. Entry(c) = <<req[r].n, req[r].path, status>>
  BY <1>1 DEF AccessCall, Entry
<1>4. req' = [req EXCEPT ![r] = c] /\ answers' = answers \cup {Entry(c)}
  BY <1>1, <1>3 DEF Access!Answer
<1> HIDE DEF c
<1> QED BY <1>2, <1>4, RequestMoves

LEMMA GotoMoves ==
    ASSUME AccessInv, NEW r \in Request, NEW pc \in {"handle", "meta", "act"}, Access!Goto(r, pc),
           req[r].pc \notin {"idle", "log"},
           UNCHANGED <<rules, exists, log, answers, seen, requests>>,
           pc = "meta" => req[r].path \in Access!OfRecords,
           pc = "handle" =>
              /\ req[r].path \notin Access!OfRecords
              /\ Access!authMiddleware(req[r].path, req[r].method, req[r].user) = 0,
           pc = "act" => Entitled(req[r], seen[r])
    PROVE  AccessInv'
<1> DEFINE c == [req[r] EXCEPT !.pc = pc]
<1>1. req[r] \in AccessCall /\ req \in [Request -> AccessCall]
  BY DEF AccessInv, Requests
<1>2. /\ c \in AccessCall /\ c.pc = pc /\ c.coll = req[r].coll /\ c.path = req[r].path
      /\ c.method = req[r].method /\ c.user = req[r].user
  BY <1>1 DEF AccessCall
<1>3. req' = [req EXCEPT ![r] = c]
  BY <1>1 DEF Access!Goto
<1>4. Entitled(req[r], seen[r]) => Entitled(c, seen[r])
  BY <1>2 DEF Entitled
<1> HIDE DEF c
<1> QED BY <1>2, <1>3, <1>4, RequestMoves

LEMMA AuthenticateStep ==
    ASSUME AccessInv, NEW r \in Request, Access!Authenticate(r)
    PROVE  AccessInv'
<1> DEFINE verdict == Access!authMiddleware(req[r].path, req[r].method, req[r].user)
<1>1. verdict \in Nat
  BY DEF Access!authMiddleware, Access!Verdict
<1>2. req[r].pc = "auth" /\ UNCHANGED <<rules, exists, log, seen, requests>>
  BY DEF Access!Authenticate, Access!At
<1>3. CASE verdict # 0
  <2>1. Access!Answer(r, verdict)
    BY <1>3 DEF Access!Authenticate
  <2> QED BY <1>1, <1>2, <2>1, AnswerMoves
<1>4. CASE verdict = 0 /\ req[r].path \in Access!OfRecords
  <2>1. Access!Goto(r, "meta") /\ answers' = answers
    BY <1>4 DEF Access!Authenticate
  <2> QED BY <1>2, <1>4, <2>1, GotoMoves
<1>5. CASE verdict = 0 /\ req[r].path \notin Access!OfRecords
  <2>1. Access!Goto(r, "handle") /\ answers' = answers
    BY <1>5 DEF Access!Authenticate
  <2> QED BY <1>2, <1>5, <2>1, GotoMoves
<1> QED BY <1>3, <1>4, <1>5

LEMMA HandleStep ==
    ASSUME AccessInv, NEW r \in Request, Access!Handle(r)
    PROVE  AccessInv'
<1>1. req[r].pc = "handle" /\ UNCHANGED <<rules, exists, log, seen, requests>>
  BY DEF Access!Handle, Access!At
<1>2. CASE req[r].method \notin Access!Handled(req[r].path)
  <2>1. Access!Answer(r, 405)
    BY <1>2 DEF Access!Handle
  <2> QED BY <1>1, <2>1, AnswerMoves
<1>3. CASE req[r].method \in Access!Handled(req[r].path)
  <2>1. Access!Goto(r, "act") /\ answers' = answers
    BY <1>3 DEF Access!Handle
  <2>2. req[r] \in AccessCall
    BY DEF AccessInv, Requests
  <2>3. /\ req[r].path \in Access!Paths \ Access!OfRecords /\ req[r].user \in Access!Asker
        /\ Access!authMiddleware(req[r].path, req[r].method, req[r].user) = 0
    BY <1>1, <2>2 DEF AccessInv, Admitted, AccessCall
  <2>4. Entitled(req[r], seen[r])
    BY <1>3, <2>3, PolicyIsDocumented DEF Entitled
  <2> QED BY <1>1, <2>1, <2>4, GotoMoves
<1> QED BY <1>2, <1>3

LEMMA LoadMetaStep ==
    ASSUME AccessInv, NEW r \in Request, Access!LoadMeta(r)
    PROVE  AccessInv'
<1> DEFINE coll == req[r].coll
<1>1. req[r].pc = "meta" /\ UNCHANGED <<rules, exists, log, seen, requests>>
  BY DEF Access!LoadMeta, Access!At
<1>2. CASE coll \in Internal
  <2>1. Access!Answer(r, 403)
    BY <1>2 DEF Access!LoadMeta
  <2> QED BY <1>1, <2>1, AnswerMoves
<1>3. CASE coll \notin Internal /\ coll \notin exists
  <2>1. Access!Answer(r, 404)
    BY <1>3 DEF Access!LoadMeta
  <2> QED BY <1>1, <2>1, AnswerMoves
<1>4. CASE coll \notin Internal /\ coll \in exists
  <2> DEFINE c == [req[r] EXCEPT !.pc = "rule", !.meta = rules[coll]]
  <2>1. req[r] \in AccessCall /\ req \in [Request -> AccessCall]
    BY DEF AccessInv, Requests
  <2>2. coll \in Coll /\ rules[coll] \in [Access!RuleName -> Access!StoredRule]
    BY <1>4 DEF AccessInv, Requests
  <2>3. /\ c \in AccessCall /\ c.pc = "rule" /\ c.coll = coll /\ c.path = req[r].path
        /\ c.meta = rules[coll]
    BY <2>1, <2>2 DEF AccessCall
  <2>4. req' = [req EXCEPT ![r] = c] /\ answers' = answers
    BY <1>4, <2>1 DEF Access!LoadMeta
  <2>5. rules[coll] \in seen[r] /\ req[r].path \in Access!OfRecords
    BY <1>1, <1>4 DEF AccessInv, RulesSeen, Admitted
  <2> HIDE DEF c
  <2> QED BY <1>1, <2>2, <2>3, <2>4, <2>5, RequestMoves
<1> QED BY <1>2, <1>3, <1>4

LEMMA EnforceStep ==
    ASSUME AccessInv, NEW r \in Request, Access!Enforce(r)
    PROVE  AccessInv'
<1> DEFINE rule == req[r].meta[Access!RuleFor(req[r].path, req[r].method)]
           verdict == Access!enforceRule(rule, req[r].user)
<1>1. req[r].pc = "rule" /\ UNCHANGED <<rules, exists, log, seen, requests>>
  BY DEF Access!Enforce, Access!At
<1>2. verdict \in Nat
  BY DEF Access!enforceRule, Access!Verdict
<1>3. CASE req[r].method \notin Access!Handled(req[r].path)
  <2>1. Access!Answer(r, 405)
    BY <1>3 DEF Access!Enforce
  <2> QED BY <1>1, <2>1, AnswerMoves
<1>4. CASE req[r].method \in Access!Handled(req[r].path) /\ verdict # 0
  <2>1. Access!Answer(r, verdict)
    BY <1>4 DEF Access!Enforce
  <2> QED BY <1>1, <1>2, <2>1, AnswerMoves
<1>5. CASE req[r].method \in Access!Handled(req[r].path) /\ verdict = 0
  <2>1. Access!Goto(r, "act") /\ answers' = answers
    BY <1>5 DEF Access!Enforce
  <2>2. req[r].coll \in Coll /\ req[r].meta \in seen[r] /\ req[r].path \in Access!OfRecords
    BY <1>1 DEF AccessInv, RulesSeen, Admitted
  <2>3. req[r].user \in Access!Asker
    BY DEF AccessInv, Requests, AccessCall
  <2>4. Access!May(Access!Normalize(rule), req[r].user)
    BY <1>5, <2>3, Levels, VerdictIsRight DEF Access!enforceRule
  <2>5. Entitled(req[r], seen[r])
    BY <2>2, <2>4 DEF Entitled
  <2> QED BY <1>1, <2>1, <2>5, GotoMoves
<1> QED BY <1>3, <1>4, <1>5

LEMMA ActStep ==
    ASSUME AccessInv, NEW r \in Request, Access!Act(r)
    PROVE  AccessInv'
<1>1. PICK status \in Access!Outcomes : Access!Answer(r, status)
  BY DEF Access!Act
<1>2. /\ req[r].pc = "act" /\ UNCHANGED <<rules, exists, log, seen, requests>>
      /\ status \in Nat
  BY DEF Access!Act, Access!At, Access!Outcomes
<1> QED BY <1>1, <1>2, AnswerMoves

LEMMA IdleRequest ==
    ASSUME Access!AccessAssumption
    PROVE  Access!Idle \in AccessCall /\ Access!Idle.pc = "idle"
<1>1. Access!NoMeta.rules \in [Access!RuleName -> Access!StoredRule]
  BY DEF Access!NoMeta, Access!StoredRule
<1> QED BY <1>1 DEF Access!Idle, AccessCall, Access!Asker, Access!Paths, Access!Methods,
                   Access!AccessAssumption

LEMMA ArriveStep ==
    ASSUME Access!AccessAssumption, AccessInv, NEW r \in Request, NEW user \in Access!Asker, NEW path \in Access!Paths,
           NEW method \in Access!Methods, NEW c \in Coll \cup Internal,
           Access!Arrive(r, user, path, method, c)
    PROVE  AccessInv'
<1> DEFINE new == [Access!Idle EXCEPT !.pc = "auth", !.n = requests + 1, !.user = user,
                                      !.path = path, !.method = method, !.coll = c]
<1>1. /\ req[r].pc = "idle" /\ UNCHANGED <<rules, exists, log, answers>>
      /\ req' = [req EXCEPT ![r] = new] /\ requests' = requests + 1
      /\ seen' = [seen EXCEPT ![r] = IF c \in exists THEN {rules[c]} ELSE {}]
  BY DEF Access!Arrive, Access!At
<1>2. /\ req \in [Request -> AccessCall] /\ requests \in Nat /\ DOMAIN seen = Request
  BY DEF AccessInv, Requests
<1>4. new \in AccessCall /\ new.pc = "auth" /\ new.coll = c
  <2>1. PICK i \in AccessCall : i = [Access!Idle EXCEPT !.pc = "auth", !.n = requests + 1]
    <3>1. requests + 1 \in Nat
      BY <1>2
    <3>2. [Access!Idle EXCEPT !.pc = "auth", !.n = requests + 1] \in AccessCall
      BY <3>1, IdleRequest DEF AccessCall
    <3> QED BY <3>2
  <2>2. PICK j \in AccessCall : j = [i EXCEPT !.user = user, !.path = path]
    BY DEF AccessCall
  <2>3. PICK k \in AccessCall : k = [j EXCEPT !.method = method, !.coll = c]
    BY DEF AccessCall
  <2>4. new = k
    BY <2>1, <2>2, <2>3
  <2>5. i.pc = "auth" /\ j.pc = i.pc /\ k.pc = j.pc /\ k.coll = c
    BY <2>1, <2>2, <2>3, IdleRequest DEF AccessCall
  <2> QED BY <2>4, <2>5
<1> HIDE DEF new
<1>5. \A q \in Request : req'[q] = IF q = r THEN new ELSE req[q]
  BY <1>1, <1>2
<1>6. \A q \in Request : seen'[q] = IF q = r THEN (IF c \in exists THEN {rules[c]} ELSE {})
                                    ELSE seen[q]
  BY <1>1, <1>2
<1>7. Requests'
  BY <1>1, <1>2, <1>4 DEF AccessInv, Requests
<1>8. Admitted'
  BY <1>4, <1>5 DEF AccessInv, Admitted
<1>9. RulesSeen'
  BY <1>1, <1>4, <1>5, <1>6 DEF AccessInv, RulesSeen
<1>10. Access!ActsWithinRights'
  BY <1>4, <1>5, <1>6 DEF AccessInv, Access!ActsWithinRights, Access!At
<1>11. Access!AnswersAreLogged'
  <2>1. \A q \in Request : /\ req'[q].pc = "log" <=> req[q].pc = "log"
                           /\ req[q].pc = "log" => req'[q] = req[q]
    BY <1>1, <1>4, <1>5
  <2> QED BY <1>1, <2>1, LoggedEntries DEF AccessInv, Access!AnswersAreLogged, Access!At, Entry
<1> QED BY <1>7, <1>8, <1>9, <1>10, <1>11 DEF AccessInv

LEMMA LogStep ==
    ASSUME Access!AccessAssumption, AccessInv, NEW r \in Request, Access!Log(r)
    PROVE  AccessInv'
<1>1. /\ req[r].pc = "log" /\ UNCHANGED <<rules, exists, answers, requests>>
      /\ req' = [req EXCEPT ![r] = Access!Idle] /\ seen' = [seen EXCEPT ![r] = {}]
      /\ log' = IF req[r].path = "realtime" THEN log ELSE log \cup {Entry(req[r])}
  BY DEF Access!Log, Access!At, Entry
<1>2. req \in [Request -> AccessCall] /\ DOMAIN seen = Request
  BY DEF AccessInv, Requests
<1>4. Access!Idle \in AccessCall /\ Access!Idle.pc = "idle"
  BY IdleRequest
<1>5. \A q \in Request : req'[q] = IF q = r THEN Access!Idle ELSE req[q]
  BY <1>1, <1>2
<1>6. \A q \in Request : q # r => seen'[q] = seen[q]
  BY <1>1, <1>2
<1>7. Requests'
  BY <1>1, <1>2, <1>4 DEF AccessInv, Requests
<1>8. Admitted' /\ RulesSeen' /\ Access!ActsWithinRights'
  BY <1>1, <1>4, <1>5, <1>6 DEF AccessInv, Admitted, RulesSeen, Access!ActsWithinRights, Access!At
<1>9. Access!AnswersAreLogged'
  <2>1. \A e : (e \in answers /\ e[2] # "realtime") <=>
               \/ e \in log
               \/ e[2] # "realtime" /\ \E q \in Request : req[q].pc = "log" /\ e = Entry(req[q])
    BY LoggedEntries DEF AccessInv
  <2>2. \A e : (\E q \in Request : req[q].pc = "log" /\ e = Entry(req[q])) <=>
               \/ \E q \in Request : req'[q].pc = "log" /\ e = Entry(req'[q])
               \/ e = Entry(req[r])
    BY <1>1, <1>4, <1>5
  <2>3. Entry(req[r])[2] = req[r].path
    BY DEF Entry
  <2>4. \A e : (e \in answers' /\ e[2] # "realtime") <=>
               \/ e \in log'
               \/ e[2] # "realtime" /\ \E q \in Request : req'[q].pc = "log" /\ e = Entry(req'[q])
    <3>1. answers' = answers
      BY <1>1
    <3>2. CASE req[r].path = "realtime"
      <4>1. log' = log
        BY <1>1, <3>2
      <4> QED BY <2>1, <2>2, <2>3, <3>1, <3>2, <4>1
    <3>3. CASE req[r].path # "realtime"
      <4>1. log' = log \cup {Entry(req[r])}
        BY <1>1, <3>3
      <4> QED BY <2>1, <2>2, <2>3, <3>1, <3>3, <4>1
    <3> QED BY <3>2, <3>3
  <2> QED BY <2>4 DEF Access!AnswersAreLogged, Access!At, Entry
<1> QED BY <1>7, <1>8, <1>9 DEF AccessInv

\* The rules of one collection change, or it comes into being: what is in
\* force from now on is remembered of every request for it.
LEMMA SchemaMoves ==
    ASSUME AccessInv, NEW c \in Coll, NEW new \in [Access!RuleName -> Access!StoredRule],
           rules' = [rules EXCEPT ![c] = new], exists' = exists \cup {c}, Access!NowSeen(c),
           UNCHANGED <<req, log, answers, requests>>
    PROVE  AccessInv'
<1>1. \A d \in Coll : rules'[d] = IF d = c THEN new ELSE rules[d]
  BY DEF AccessInv, Requests
<1>2. \A q \in Request :
         seen'[q] = IF req[q].pc # "idle" /\ req[q].coll = c THEN seen[q] \cup {new} ELSE seen[q]
  BY <1>1 DEF Access!NowSeen
<1>3. Requests'
  BY DEF AccessInv, Requests, Access!NowSeen
<1>4. Admitted'
  BY DEF AccessInv, Admitted
<1>5. \A q \in Request : seen[q] \subseteq seen'[q]
  BY <1>2
<1>6. RulesSeen'
  <2> SUFFICES ASSUME NEW q \in Request
               PROVE  /\ req[q].pc # "idle" /\ req[q].coll \in exists' =>
                            rules'[req[q].coll] \in seen'[q]
                      /\ req[q].pc = "rule" => req[q].coll \in Coll /\ req[q].meta \in seen'[q]
    BY DEF RulesSeen
  <2>1. exists \subseteq Coll
    BY DEF AccessInv, Requests
  <2>2. req[q].pc = "rule" => req[q].coll \in Coll /\ req[q].meta \in seen[q]
    BY DEF AccessInv, RulesSeen
  <2>3. req[q].pc # "idle" /\ req[q].coll \in exists => rules[req[q].coll] \in seen[q]
    BY DEF AccessInv, RulesSeen
  <2>4. ASSUME req[q].pc # "idle", req[q].coll \in exists'
        PROVE  rules'[req[q].coll] \in seen'[q]
    <3>1. CASE req[q].coll = c
      BY <1>1, <1>2, <2>4, <3>1
    <3>2. CASE req[q].coll # c
      <4>1. req[q].coll \in exists /\ rules'[req[q].coll] = rules[req[q].coll]
        BY <1>1, <2>1, <2>4, <3>2
      <4> QED BY <1>5, <2>3, <2>4, <4>1
    <3> QED BY <3>1, <3>2
  <2> QED BY <1>5, <2>2, <2>4
<1>7. Access!ActsWithinRights'
  BY <1>5 DEF AccessInv, Access!ActsWithinRights, Access!At
<1>8. Access!AnswersAreLogged'
  BY DEF AccessInv, Access!AnswersAreLogged, Access!At
<1> QED BY <1>3, <1>4, <1>6, <1>7, <1>8 DEF AccessInv

LEMMA SchemaStep ==
    ASSUME AccessInv, NEW c \in Coll, NEW rule \in Access!StoredRule,
           \/ Access!Create(c, rule)
           \/ \E name \in Access!RuleName : Access!ChangeRule(c, name, rule)
    PROVE  AccessInv'
<1>1. Access!Normalize(rule) \in Access!StoredRule
  BY Levels DEF Access!StoredRule, Access!Rule
<1>2. CASE Access!Create(c, rule)
  <2>1. [n \in Access!RuleName |-> Access!Normalize(rule)]
           \in [Access!RuleName -> Access!StoredRule]
    BY <1>1
  <2> QED BY <1>2, <2>1, SchemaMoves DEF Access!Create
<1>3. ASSUME NEW name \in Access!RuleName, Access!ChangeRule(c, name, rule)
      PROVE  AccessInv'
  <2>1. rules[c] \in [Access!RuleName -> Access!StoredRule]
    BY DEF AccessInv, Requests
  <2> DEFINE new == [rules[c] EXCEPT ![name] = Access!Normalize(rule)]
  <2>2. new \in [Access!RuleName -> Access!StoredRule]
    BY <1>1, <2>1
  <2>3. rules' = [rules EXCEPT ![c] = new] /\ exists' = exists \cup {c}
    BY <1>3 DEF Access!ChangeRule, AccessInv, Requests
  <2>4. Access!NowSeen(c) /\ UNCHANGED <<req, log, answers, requests>>
    BY <1>3 DEF Access!ChangeRule
  <2> HIDE DEF new
  <2> QED BY <2>2, <2>3, <2>4, SchemaMoves
<1> QED BY <1>2, <1>3

LEMMA DropStep ==
    ASSUME AccessInv, NEW c \in Coll, Access!Drop(c)
    PROVE  AccessInv'
<1>1. /\ exists' = exists \ {c} /\ rules' = [rules EXCEPT ![c] = Access!NoMeta.rules]
      /\ UNCHANGED <<req, log, answers, seen, requests>>
  BY DEF Access!Drop
<1>2. Access!NoMeta.rules \in [Access!RuleName -> Access!StoredRule]
  BY DEF Access!NoMeta, Access!StoredRule
<1>3. Requests'
  BY <1>1, <1>2 DEF AccessInv, Requests
<1>4. \A d \in exists' : d \in exists /\ rules'[d] = rules[d]
  BY <1>1 DEF AccessInv, Requests
<1>5. Admitted' /\ RulesSeen'
  BY <1>1, <1>4 DEF AccessInv, Admitted, RulesSeen
<1>6. Access!ActsWithinRights' /\ Access!AnswersAreLogged'
  BY <1>1 DEF AccessInv, Access!ActsWithinRights, Access!AnswersAreLogged, Access!At
<1> QED BY <1>3, <1>5, <1>6 DEF AccessInv

LEMMA AccessNext ==
    ASSUME Access!AccessAssumption, AccessInv, [Access!Next]_(Access!vars)
    PROVE  AccessInv'
<1>1. ASSUME NEW r \in Request, NEW user \in Access!Asker, NEW path \in Path,
             NEW method \in Method,
             NEW c \in (IF path \in Access!OfRecords THEN Coll \cup Internal ELSE {FilesCollection}),
             Access!Arrive(r, user, path, method, c)
      PROVE  AccessInv'
  <2>1. path \in Access!Paths /\ method \in Access!Methods /\ c \in Coll \cup Internal
    BY DEF Access!AccessAssumption
  <2> QED BY <1>1, <2>1, ArriveStep
<1>2. ASSUME NEW r \in Request,
             \/ Access!Authenticate(r) \/ Access!Handle(r) \/ Access!LoadMeta(r)
             \/ Access!Enforce(r) \/ Access!Act(r) \/ Access!Log(r)
      PROVE  AccessInv'
  BY <1>2, AuthenticateStep, HandleStep, LoadMetaStep, EnforceStep, ActStep, LogStep
<1>3. ASSUME NEW c \in Coll, NEW rule \in Access!StoredRule,
             \/ Access!Create(c, rule)
             \/ \E name \in Access!RuleName : Access!ChangeRule(c, name, rule)
      PROVE  AccessInv'
  BY <1>3, SchemaStep
<1>4. ASSUME NEW c \in Coll, Access!Drop(c) PROVE AccessInv'
  BY <1>4, DropStep
<1>5. CASE UNCHANGED Access!vars
  BY <1>5 DEF Access!vars, AccessInv, Requests, Admitted, RulesSeen, Access!ActsWithinRights,
              Access!AnswersAreLogged, Access!At
<1> QED BY <1>1, <1>2, <1>3, <1>4, <1>5 DEF Access!Next

\* However requests and changes of rules overlap, a request acts only with
\* rights its user has by the documented table, on records by a rule that was
\* in force since it arrived, and every answer is in the log as it was given.
THEOREM RequestsActWithinRights ==
    ASSUME Access!AccessAssumption
    PROVE  Access!Spec => []RequestsAreRight
<1>1. Access!Init => AccessInv
  BY AccessInit
<1>2. AccessInv /\ [Access!Next]_(Access!vars) => AccessInv'
  BY AccessNext
<1>3. AccessInv => RequestsAreRight
  BY DEF AccessInv, RequestsAreRight, Access!RequestsAreRight
<1> QED BY <1>1, <1>2, <1>3, PTL DEF Access!Spec

\* Whatever the rules of a collection are, canReceive sends an event to
\* exactly those connected users for whom REST would answer the request for
\* what the event carries.
THEOREM StreamAndRESTAgree ==
    ASSUME Access!AccessAssumption
    PROVE  StreamAgreesWithREST
<1> SUFFICES ASSUME NEW user \in {Admin, User}, NEW c
             PROVE  Access!canReceive(user, c) <=> Access!ReadsOverREST(user, c)
  BY DEF StreamAgreesWithREST, Access!StreamAgreesWithREST
<1>1. user \in Access!Asker /\ user # Nobody
  BY DEF Access!AccessAssumption, Access!Asker
<1>2. \A x : Access!ruleAllows(x, user) <=> Access!enforceRule(x, user) = 0
  <2> SUFFICES ASSUME NEW x
               PROVE  Access!ruleAllows(x, user) <=> Access!enforceRule(x, user) = 0
    OBVIOUS
  <2>1. CASE Access!Normalize(x) = "public"
    BY <2>1 DEF Access!ruleAllows, Access!enforceRule, Access!Verdict
  <2>2. CASE Access!Normalize(x) = "authed"
    BY <1>1, <2>2 DEF Access!ruleAllows, Access!enforceRule, Access!Verdict
  <2>3. CASE Access!Normalize(x) = "admin"
    BY <1>1, <2>3 DEF Access!ruleAllows, Access!enforceRule, Access!Verdict
  <2> QED BY <2>1, <2>2, <2>3, Levels
<1>3. /\ Access!authMiddleware("logs", "GET", user) = 0 <=> user = Admin
      /\ Access!authMiddleware("kv", "GET", user) = 0 <=> user = Admin
      /\ Access!authMiddleware("file", "GET", user) = 0
      /\ Access!authMiddleware("records", "GET", user) = 0
      /\ Access!authMiddleware("record", "GET", user) = 0
  BY <1>1 DEF Access!authMiddleware, Access!routePolicy, Access!Verdict
<1> QED BY <1>2, <1>3 DEF Access!canReceive, Access!ReadsOverREST, Access!OfRecords

\* The services run side by side as each does by itself, so that what is
\* proved of one holds of the process they make up.
THEOREM ServicesRunApart == ServicesSpec => Spec /\ Auth!Spec /\ Access!Spec
<1>1. ServicesInit => Init /\ Auth!Init /\ Access!Init
  BY DEF ServicesInit
<1>2. [FilesStep \/ AuthStep \/ AccessStep]_<<vars, authVars, accessVars>> =>
         [Next]_vars /\ [Auth!Next]_(Auth!vars) /\ [Access!Next]_(Access!vars)
  BY DEF FilesStep, AuthStep, AccessStep, authVars, accessVars, Auth!vars, Auth!boot,
         Auth!file, Access!vars
<1> QED BY <1>1, <1>2, PTL DEF ServicesSpec, Spec, Auth!Spec, Access!Spec
=============================================================================
