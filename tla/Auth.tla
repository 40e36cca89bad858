-------------------------------- MODULE Auth --------------------------------
(***************************************************************************)
(* internal/auth/auth.go: accounts as records of _users, sign-up under     *)
(* regMu, sign-in, changing a password, and tokens that are signed with    *)
(* the secret in the file .secret.                                         *)
(*                                                                         *)
(* A password stands for its hash.  Records of _users are never deleted by *)
(* this service, so an account is its place in the order of creation.      *)
(***************************************************************************)
EXTENDS Naturals, Sequences, FiniteSets

CONSTANTS
    Email, Password,
    Proc,           \* requests
    Nobody,
    ListLimit,      \* the records findByEmail asks for: 10000
    Lifetime,       \* TokenLifetime
    MaxTime,        \* bound: the clock
    MaxUsers,       \* bound: accounts
    MaxCalls,       \* bound: requests
    MaxRestarts,    \* bound: kills, power failures and rotations
    PowerFails,     \* whether the power may fail
    MaxFaults,      \* bound: calls of the engine or of the file system that fail
    MaxMisses       \* bound: records that a read error keeps out of a listing

AuthAssumption ==
    /\ Nobody \notin Proc /\ PowerFails \in BOOLEAN /\ ListLimit \in Nat \ {0}
    /\ Lifetime \in Nat /\ MaxTime \in Nat /\ MaxUsers \in Nat /\ MaxCalls \in Nat
    /\ MaxRestarts \in Nat /\ MaxFaults \in Nat /\ MaxMisses \in Nat

VARIABLES
    users,          \* the records of _users
    regMu,          \* who holds Service.regMu
    call,           \* requests in progress
    server,         \* "down"; "loading" and "writing" a new secret; "up"
    secret,         \* Service.secret
    secretFile,     \* .secret; 0 when it is missing or shorter than 32 bytes
    secretOld,      \* contents of .secret that a power failure may bring back
    secrets,        \* number of secrets made
    tokens,         \* tokens given out
    now,
    gone,           \* history: secrets that .secret held and lost, when it was removed,
                    \* replaced, or taken back by a power failure
    void,           \* history: gone, as it was when the server came up
    changed,        \* history: passwords replaced, with what the caller said they were
    calls, restarts, faults, misses

file == <<secretFile, secretOld, gone>>
boot == <<server, secret, secrets, file, void>>
vars == <<users, regMu, call, boot, tokens, now, changed, calls, restarts, faults, misses>>

Idle == [pc |-> "idle", email |-> Nobody, old |-> Nobody, new |-> Nobody,
         user |-> 0, role |-> "none"]

Init ==
    /\ users = <<>> /\ regMu = Nobody
    /\ call = [p \in Proc |-> Idle]
    /\ server = "down" /\ secret = 0 /\ secrets = 0
    /\ secretFile = 0 /\ secretOld = {} /\ gone = {} /\ void = {}
    /\ tokens = {} /\ now = 0 /\ changed = {}
    /\ calls = 0 /\ restarts = 0 /\ faults = 0 /\ misses = 0

----------------------------------------------------------------------------
(* Definitions named X_Y are variants of X with the mistake Y, which the   *)
(* properties are there to notice; no other definition uses them.          *)

At(p, pc) == call[p].pc = pc

Return(p) == call' = [call EXCEPT ![p] = Idle]

Begin(p, c) ==
    /\ At(p, "idle") /\ server = "up" /\ calls < MaxCalls
    /\ calls' = calls + 1
    /\ call' = [call EXCEPT ![p] = c]

\* ListRecords finds the first so many records in the order of IDs, and leaves
\* out one whose read fails.  IDs begin with a time of a clock that may stand
\* still or be set back, so they need not be in the order of creation: which
\* records come first is left open.
Lists(limit, found) ==
    LET first == IF Len(users) <= limit THEN Len(users) ELSE limit
    IN  /\ Cardinality(found) <= first
        /\ misses' = misses + (first - Cardinality(found))
        /\ misses' <= MaxMisses

\* The records that have the address: findByEmail returns the first, if any.
Holders(found, email) == {u \in found : users[u].email = email}

Fault == faults < MaxFaults /\ faults' = faults + 1

\* issueSession.
Issue(u) == tokens' = tokens \cup {[sub |-> u, exp |-> now + Lifetime, key |-> secret]}

----------------------------------------------------------------------------
(* Register.                                                               *)

CallRegister(p, email, pw) ==
    /\ Begin(p, [Idle EXCEPT !.pc = "lock", !.email = email, !.new = pw])
    /\ UNCHANGED <<users, regMu, boot, tokens, now, changed, restarts, faults, misses>>

RegMuFree_NotAsked == TRUE

RegMuFree == regMu = Nobody

\* Takes regMu; findByEmail finds the address among ListLimit accounts, or does
\* not.
FindByEmail(p) ==
    /\ At(p, "lock") /\ RegMuFree
    /\ \E found \in SUBSET DOMAIN users :
          /\ Lists(ListLimit, found)
          /\ IF \E u \in found : users[u].email = call[p].email
             THEN Return(p) /\ UNCHANGED regMu
             ELSE call' = [call EXCEPT ![p].pc = "count"] /\ regMu' = p
    /\ UNCHANGED <<users, boot, tokens, now, changed, calls, restarts, faults>>

\* The account is the first of all: the only one to become admin.
RoleFor(found) == IF found = {} THEN "admin" ELSE "user"

\* userCount, which tells none from some: it lists one account, and counts
\* only when that one is there.
UserCount(p) ==
    /\ At(p, "count")
    /\ \E found \in SUBSET DOMAIN users :
          /\ Lists(1, found)
          /\ call' = [call EXCEPT ![p].pc = "insert", ![p].role = RoleFor(found)]
    /\ UNCHANGED <<users, regMu, boot, tokens, now, changed, calls, restarts, faults>>

CountFails_IsZero(p) ==
    /\ At(p, "count") /\ Fault
    /\ call' = [call EXCEPT ![p].pc = "insert", ![p].role = "admin"]
    /\ UNCHANGED <<users, regMu, boot, tokens, now, changed, calls, restarts, misses>>

\* The count returns an error, and so does Register.
CountFails(p) ==
    /\ At(p, "count") /\ Fault
    /\ Return(p) /\ regMu' = Nobody
    /\ UNCHANGED <<users, boot, tokens, now, changed, calls, restarts, misses>>

NewUser(p) == Append(users, [email |-> call[p].email, pw |-> call[p].new, role |-> call[p].role])

\* The record is inserted and a session issued.
InsertUser(p) ==
    /\ At(p, "insert") /\ Len(users) < MaxUsers
    /\ users' = NewUser(p)
    /\ Issue(Len(users) + 1)
    /\ Return(p) /\ regMu' = Nobody
    /\ UNCHANGED <<boot, now, changed, calls, restarts, faults, misses>>

\* The insert returns an error, having taken effect or not.
InsertFails(p) ==
    /\ At(p, "insert") /\ Fault
    /\ users' \in {users} \cup (IF Len(users) < MaxUsers THEN {NewUser(p)} ELSE {})
    /\ Return(p) /\ regMu' = Nobody
    /\ UNCHANGED <<boot, tokens, now, changed, calls, restarts, misses>>

Register(p) ==
    FindByEmail(p) \/ UserCount(p) \/ CountFails(p) \/ InsertUser(p) \/ InsertFails(p)

----------------------------------------------------------------------------
(* Login and ChangePassword.                                               *)

\* findByEmail, the comparison with the hash, and a session.
Login(p, email, pw) ==
    /\ Begin(p, Idle)
    /\ \E found \in SUBSET DOMAIN users :
          /\ Lists(ListLimit, found)
          /\ \/ \E u \in Holders(found, email) : users[u].pw = pw /\ Issue(u)
             \/ \E u \in Holders(found, email) : users[u].pw # pw /\ UNCHANGED tokens
             \/ Holders(found, email) = {} /\ UNCHANGED tokens
    /\ UNCHANGED <<users, regMu, boot, now, changed, restarts, faults>>

\* ChangePassword reads the record and compares the current password.
VerifyCurrent(p, u, old, new) ==
    /\ users[u].pw = old
    /\ Begin(p, [Idle EXCEPT !.pc = "update", !.user = u, !.old = old, !.new = new])
    /\ UNCHANGED <<users, regMu, boot, tokens, now, changed, restarts, faults, misses>>

\* UpdateRecord: only the hash changes.
UpdatePassword(p) ==
    /\ At(p, "update")
    /\ users' = [users EXCEPT ![call[p].user].pw = call[p].new]
    /\ changed' = changed \cup {[was |-> users[call[p].user].pw, said |-> call[p].old]}
    /\ Return(p)
    /\ UNCHANGED <<regMu, boot, tokens, now, calls, restarts, faults, misses>>

\* VerifyToken accepts t, when the read of the record does not fail.
VerifyToken(t) ==
    server = "up" /\ t.key = secret /\ now <= t.exp /\ t.sub \in DOMAIN users

----------------------------------------------------------------------------
(* loadOrCreateSecret, restarts, time.  New goes on to make sure that the  *)
(* collection _users is there; when that fails, the server is down again,  *)
(* as after a kill.                                                        *)

Up(key) == server' = "up" /\ secret' = key

\* A secret that is there and can be read is used.
ReadSecret ==
    /\ server = "down" /\ secretFile # 0
    /\ Up(secretFile) /\ void' = gone
    /\ UNCHANGED <<users, regMu, call, secrets, file, tokens, now, changed, calls, restarts,
                   faults, misses>>

NewSecret_UpAtOnce ==
    /\ server = "down" /\ secretFile = 0
    /\ Up(secrets + 1) /\ secrets' = secrets + 1 /\ void' = gone
    /\ UNCHANGED <<users, regMu, call, file, tokens, now, changed, calls, restarts, faults,
                   misses>>

\* When it is missing, too short, or the read fails, a new one is made.
NewSecret ==
    /\ server = "down"
    /\ \/ secretFile = 0 /\ UNCHANGED faults
       \/ secretFile # 0 /\ Fault
    /\ server' = "loading" /\ secret' = secrets + 1 /\ secrets' = secrets + 1
    /\ UNCHANGED <<users, regMu, call, file, void, tokens, now, changed, calls, restarts,
                   misses>>

\* .secret gets other contents; until they are written back, a power failure
\* may undo that.
Replace(content) ==
    /\ secretFile' = content
    /\ secretOld' = secretOld \cup {secretFile}
    /\ gone' = gone \cup ({secretFile} \ {0})

\* WriteFile cuts a file that is there,
CutSecret ==
    /\ server = "loading" /\ server' = "writing"
    /\ Replace(0)
    /\ UNCHANGED <<users, regMu, call, secret, secrets, void, tokens, now, changed, calls,
                   restarts, faults, misses>>

\* and writes it; then the service is there.
WriteSecret ==
    /\ server = "writing"
    /\ Replace(secret) /\ Up(secret) /\ void' = gone'
    /\ UNCHANGED <<users, regMu, call, secrets, tokens, now, changed, calls, restarts, faults,
                   misses>>

\* WriteFile returns an error, and so does New.
WriteSecretFails ==
    /\ server \in {"loading", "writing"} /\ Fault
    /\ server' = "down" /\ secret' = 0
    /\ UNCHANGED <<users, regMu, call, secrets, file, void, tokens, now, changed, calls,
                   restarts, misses>>

Start == ReadSecret \/ NewSecret \/ CutSecret \/ WriteSecret \/ WriteSecretFails

Restart == restarts < MaxRestarts /\ restarts' = restarts + 1

Down ==
    /\ Restart
    /\ server' = "down" /\ secret' = 0
    /\ regMu' = Nobody /\ call' = [p \in Proc |-> Idle]
    /\ UNCHANGED <<users, secrets, void, tokens, now, changed, calls, faults, misses>>

Kill == server # "down" /\ Down /\ UNCHANGED file

\* Nothing fsyncs the file: it may have contents that it had before.
PowerLoss ==
    /\ PowerFails /\ Down
    /\ \E content \in {secretFile} \cup secretOld :
          /\ secretFile' = content /\ secretOld' = {}
          /\ gone' = IF content = secretFile THEN gone ELSE (1 .. secrets) \ {content}

\* docs/auth.md, docs/operating.md: somebody deletes .secret, or puts another
\* in its place, whatever the server is doing.
Rotate ==
    /\ Restart
    /\ \/ Replace(0) /\ UNCHANGED secrets
       \/ Replace(secrets + 1) /\ secrets' = secrets + 1
    /\ UNCHANGED <<users, regMu, call, server, secret, void, tokens, now, changed, calls,
                   faults, misses>>

\* The system writes the file back.
WriteBack ==
    /\ secretOld # {} /\ secretOld' = {}
    /\ UNCHANGED <<users, regMu, call, server, secret, secretFile, secrets, gone, void, tokens,
                   now, changed, calls, restarts, faults, misses>>

Tick ==
    /\ now < MaxTime /\ now' = now + 1
    /\ UNCHANGED <<users, regMu, call, boot, tokens, changed, calls, restarts, faults, misses>>

Next ==
    \/ \E p \in Proc, email \in Email, pw \in Password :
          CallRegister(p, email, pw) \/ Login(p, email, pw)
    \/ \E p \in Proc, u \in DOMAIN users, old, new \in Password : VerifyCurrent(p, u, old, new)
    \/ \E p \in Proc : Register(p) \/ UpdatePassword(p)
    \/ Start \/ Kill \/ PowerLoss \/ Rotate \/ WriteBack \/ Tick

Spec == Init /\ [][Next]_vars

----------------------------------------------------------------------------
(* Properties.                                                             *)

Token == [sub : 1 .. MaxUsers, exp : Nat, key : Nat]

\* Every variable keeps its type, and regMu is held from the search for the
\* address to the return.
TypeOK ==
    /\ users \in Seq([email : Email, pw : Password, role : {"admin", "user"}])
    /\ Len(users) <= MaxUsers
    /\ \A p \in Proc : (regMu = p) <=> call[p].pc \in {"count", "insert"}
    /\ \A p \in Proc : call[p].pc \in {"idle", "lock", "count", "insert", "update"}
    /\ server \in {"down", "loading", "writing", "up"}
    /\ secret \in 0 .. secrets /\ secretFile \in 0 .. secrets /\ secretOld \subseteq 0 .. secrets
    /\ gone \subseteq 1 .. secrets /\ void \subseteq 1 .. secrets
    /\ tokens \subseteq Token

\* However sign-ups overlap, fail and are tried again, none takes an address
\* that is taken, as long as findByEmail lists all accounts: of two with one
\* address the later one was made when there were ListLimit (Register, "nor
\* both claim the same email").
OneAccountPerEmail ==
    \A u, v \in DOMAIN users : users[u].email = users[v].email /\ u < v => v > ListLimit

\* There is one admin, and it is the account created first (Register, "A
\* failed count must not fall through to admin").
FirstIsTheAdmin == \A u \in DOMAIN users : users[u].role = "admin" <=> u = 1

\* While the server is up, a token is accepted until it expires, through
\* restarts and changed passwords, unless its secret is one that .secret no
\* longer holds: because somebody removed or replaced it, a power failure lost
\* it, or a start could not read it and wrote another.  And no token of a
\* secret that .secret had lost when the server came up is accepted
\* (loadOrCreateSecret, VerifyToken, docs/operating.md).
TokensFollowSecret ==
    server = "up" =>
        \A t \in tokens :
            /\ now <= t.exp /\ t.key \notin gone => VerifyToken(t)
            /\ now > t.exp \/ t.key \in void => ~VerifyToken(t)

\* What regMu is for: it has an owner while an account is made, and no address
\* is taken twice while findByEmail sees all.
AccountsAreUnique == TypeOK /\ OneAccountPerEmail

----------------------------------------------------------------------------
(* What a document or a comment says and the code does not do: TLC refutes *)
(* each of these statements.                                               *)

\* The comment of ChangePassword: the password is changed after verifying
\* the current one.
ChangeVerifiesCurrent == \A c \in changed : c.was = c.said

\* The comment of regMu: two sign-ups never claim the same address.  Beyond
\* ListLimit accounts, even sign-ups one after the other do.
AddressesAreUnique ==
    \A u, v \in DOMAIN users : users[u].email = users[v].email => u = v

\* docs/auth.md: with .secret rotated, every token becomes invalid
\* immediately.  The server has it in memory until it is restarted.
RotationIsImmediate ==
    server = "up" => \A t \in tokens : t.key \in gone => ~VerifyToken(t)

\* docs/auth.md: the secret is generated on the first run.  A start that
\* cannot read it generates another and writes it over the good one.
GeneratedOnFirstRun ==
    [][server = "loading" /\ server' = "writing" => secretFile = 0]_vars
=============================================================================
