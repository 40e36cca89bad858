------------------------------ MODULE Services ------------------------------
(***************************************************************************)
(* The services beside each other: files, accounts, and the checks of the  *)
(* API.  They run in one process and share no state, so a step is one of a *)
(* single part and leaves the others as they are.                          *)
(***************************************************************************)
EXTENDS Files

CONSTANTS
    Email, Password, Nobody, ListLimit, Lifetime, MaxTime, MaxUsers, MaxCalls, MaxRestarts,
    MaxMisses,
    FieldName, Admin, User, Coll, Internal, FilesCollection, Request, Path, Method,
    MaxRequests, MaxChanges

VARIABLES
    users, regMu, authCall, server, secret, secretFile, secretOld, secrets, tokens, now, gone,
    void, changed, calls, restarts, authFaults, misses,
    rules, exists, req, log, answers, seen, requests, changes

authVars ==
    <<users, regMu, authCall, server, secret, secretFile, secretOld, secrets, tokens, now, gone,
      void, changed, calls, restarts, authFaults, misses>>
accessVars == <<rules, exists, req, log, answers, seen, requests, changes>>

Auth == INSTANCE Auth WITH call <- authCall, faults <- authFaults

Access == INSTANCE Access

ASSUME ServicesAssumption == Auth!AuthAssumption /\ Access!AccessAssumption

ServicesInit == Init /\ Auth!Init /\ Access!Init

FilesStep == Next /\ UNCHANGED <<authVars, accessVars>>

AuthStep == Auth!Next /\ UNCHANGED <<vars, accessVars>>

AccessStep == Access!Next /\ UNCHANGED <<vars, authVars>>

ServicesSpec ==
    ServicesInit /\ [][FilesStep \/ AuthStep \/ AccessStep]_<<vars, authVars, accessVars>>

\* Of Auth: no account has the address of one that findByEmail sees, thanks to
\* regMu.
AccountsAreUnique == Auth!AccountsAreUnique

\* Of Auth: the account created first is the only admin.
FirstIsTheAdmin == Auth!FirstIsTheAdmin

\* Of Auth: which tokens are accepted, through restarts and lost secrets.
TokensFollowSecret == Auth!TokensFollowSecret

\* Of Access: a request acts with rights that it has, and is logged.
RequestsAreRight == Access!RequestsAreRight

\* Of Access: the event stream shows what REST would show.
StreamAgreesWithREST == Access!StreamAgreesWithREST
=============================================================================
