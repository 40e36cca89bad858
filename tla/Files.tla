------------------------------- MODULE Files -------------------------------
(***************************************************************************)
(* internal/files/files.go: uploads, downloads and deletions, each of      *)
(* which touches the directory of blobs and the _files collection in       *)
(* separate steps, with kills, power failures and failing steps between.   *)
(*                                                                         *)
(* A file is its blob: its name, hash and size are written with the record *)
(* of the collection and never change.  The collection's calls are one     *)
(* step each, as Collections has them.                                     *)
(***************************************************************************)
EXTENDS Naturals, FiniteSets

CONSTANTS
    File,           \* blobs and their records
    Proc,           \* requests
    NoFile,
    MaxCrashes,     \* bound: kills and power failures
    PowerFails,     \* whether the power may fail
    MaxFaults,      \* bound: failing steps
    LateErrors      \* whether a write of the engine may take effect and
                    \* return an error all the same

ASSUME FilesAssumption ==
    /\ NoFile \notin File /\ PowerFails \in BOOLEAN
    /\ LateErrors \in BOOLEAN
    /\ MaxCrashes \in Nat /\ MaxFaults \in Nat

VARIABLES
    tmps,       \* the .tmp files
    blob,       \* the blobs under their final names: "none", "whole" or "cut"
    recs,       \* the records of _files
    used,       \* newBlobID never gives a name twice
    call,       \* requests in progress
    damaged,    \* history: files whose blob a power failure has cut or lost
    leaked,     \* history: how often os.Remove has failed
    crashes, faults

history == <<damaged, leaked>>
vars == <<tmps, blob, recs, used, call, history, crashes, faults>>

Idle == [pc |-> "idle", file |-> NoFile]

Init ==
    /\ tmps = {} /\ recs = {} /\ used = {} /\ damaged = {}
    /\ blob = [f \in File |-> "none"]
    /\ call = [p \in Proc |-> Idle]
    /\ leaked = 0 /\ crashes = 0 /\ faults = 0

----------------------------------------------------------------------------
(* Definitions named X_Y are variants of X with the mistake Y, which the   *)
(* properties are there to notice; no other definition uses them.          *)

At(p, pc) == call[p].pc = pc

Goto(p, pc) == call' = [call EXCEPT ![p] = [pc |-> pc, file |-> call[p].file]]

Return(p) == call' = [call EXCEPT ![p] = Idle]

Fault == faults < MaxFaults /\ faults' = faults + 1

----------------------------------------------------------------------------
(* Upload.                                                                 *)

\* newBlobID.
Fresh(f) == f \notin used

\* The .tmp file is created.
UploadBegin(p, f) ==
    /\ At(p, "idle") /\ Fresh(f)
    /\ used' = used \cup {f}
    /\ tmps' = tmps \cup {f}
    /\ call' = [call EXCEPT ![p] = [pc |-> "copy", file |-> f]]
    /\ UNCHANGED <<blob, recs, history, crashes, faults>>

\* The body is copied and the file closed.
Copy(p) ==
    /\ At(p, "copy")
    /\ Goto(p, "rename")
    /\ UNCHANGED <<tmps, blob, recs, used, history, crashes, faults>>

\* The copy or the close fails, or the body is empty or too large.
CopyFails(p) ==
    /\ At(p, "copy") /\ Fault
    /\ Goto(p, "removeTmp")
    /\ UNCHANGED <<tmps, blob, recs, used, history, crashes>>

Rename(p) ==
    /\ At(p, "rename")
    /\ tmps' = tmps \ {call[p].file}
    /\ blob' = [blob EXCEPT ![call[p].file] = "whole"]
    /\ Goto(p, "insert")
    /\ UNCHANGED <<recs, used, history, crashes, faults>>

RenameFails(p) ==
    /\ At(p, "rename") /\ Fault
    /\ Goto(p, "removeTmp")
    /\ UNCHANGED <<tmps, blob, recs, used, history, crashes>>

RemoveTmp(p) ==
    /\ At(p, "removeTmp")
    /\ tmps' = tmps \ {call[p].file}
    /\ Return(p)
    /\ UNCHANGED <<blob, recs, used, history, crashes, faults>>

\* The metadata is inserted; Upload returns.
Insert(p) ==
    /\ At(p, "insert")
    /\ recs' = recs \cup {call[p].file}
    /\ Return(p)
    /\ UNCHANGED <<tmps, blob, used, history, crashes, faults>>

InsertFails_Forgets(p) ==
    /\ At(p, "insert") /\ Fault
    /\ Return(p)
    /\ UNCHANGED <<tmps, blob, recs, used, history, crashes>>

\* The insert returns an error, having taken effect or not.
InsertFails(p) ==
    /\ At(p, "insert") /\ Fault
    /\ recs' \in {recs} \cup IF LateErrors THEN {recs \cup {call[p].file}} ELSE {}
    /\ Goto(p, "removeBlob")
    /\ UNCHANGED <<tmps, blob, used, history, crashes>>

\* os.Remove of the blob, after a failed insert or at the end of Delete; its
\* error is ignored.
RemoveBlob(p) ==
    /\ At(p, "removeBlob")
    /\ blob' = [blob EXCEPT ![call[p].file] = "none"]
    /\ Return(p)
    /\ UNCHANGED <<tmps, recs, used, history, crashes, faults>>

\* Either removal fails, and nobody is told.
RemoveIsLost(p) ==
    /\ call[p].pc \in {"removeTmp", "removeBlob"}
    /\ Fault /\ leaked' = leaked + 1
    /\ Return(p)
    /\ UNCHANGED <<tmps, blob, recs, used, damaged, crashes>>

----------------------------------------------------------------------------
(* Delete and Stream.                                                      *)

\* GetRecord.
DeleteFind(p, f) ==
    /\ At(p, "idle") /\ f \in recs
    /\ call' = [call EXCEPT ![p] = [pc |-> "delete", file |-> f]]
    /\ UNCHANGED <<tmps, blob, recs, used, history, crashes, faults>>

DeleteRecord_BlobFirst(p) ==
    /\ At(p, "delete")
    /\ IF blob[call[p].file] # "none"
       THEN /\ blob' = [blob EXCEPT ![call[p].file] = "none"]
            /\ UNCHANGED <<recs, call>>
       ELSE /\ recs' = recs \ {call[p].file}
            /\ Return(p) /\ UNCHANGED blob
    /\ UNCHANGED <<tmps, used, history, crashes, faults>>

\* DeleteRecord removes the record; another Delete may have been faster.
DeleteRecord(p) ==
    /\ At(p, "delete")
    /\ recs' = recs \ {call[p].file}
    /\ IF call[p].file \in recs THEN Goto(p, "removeBlob") ELSE Return(p)
    /\ UNCHANGED <<tmps, blob, used, history, crashes, faults>>

\* It fails: Delete returns and leaves the blob.
DeleteFails(p) ==
    /\ At(p, "delete") /\ Fault
    /\ \/ UNCHANGED recs
       \/ LateErrors /\ recs' = recs \ {call[p].file}
    /\ Return(p)
    /\ UNCHANGED <<tmps, blob, used, history, crashes>>

\* Meta and GetRecord find the record.
StreamFind(p, f) ==
    /\ At(p, "idle") /\ f \in recs
    /\ call' = [call EXCEPT ![p] = [pc |-> "open", file |-> f]]
    /\ UNCHANGED <<tmps, blob, recs, used, history, crashes, faults>>

\* The blob is opened, and the bytes under its name are sent; or it is gone
\* and the request is told that there is no such file.
StreamOpen(p) ==
    /\ At(p, "open")
    /\ IF blob[call[p].file] = "none" THEN Return(p) ELSE Goto(p, "send")
    /\ UNCHANGED <<tmps, blob, recs, used, history, crashes, faults>>

\* The open file keeps its bytes, whoever removes the name.
StreamSend(p) ==
    /\ At(p, "send")
    /\ Return(p)
    /\ UNCHANGED <<tmps, blob, recs, used, history, crashes, faults>>

----------------------------------------------------------------------------
\* The process is killed.
Kill ==
    /\ crashes < MaxCrashes
    /\ crashes' = crashes + 1
    /\ call' = [p \in Proc |-> Idle]
    /\ UNCHANGED <<tmps, blob, recs, used, history, faults>>

\* The power fails: the engine has fsynced every record it returned for,
\* nobody has fsynced a blob.
PowerLoss ==
    /\ PowerFails /\ crashes < MaxCrashes
    /\ crashes' = crashes + 1
    /\ call' = [p \in Proc |-> Idle]
    /\ blob' \in [File -> {"none", "whole", "cut"}]
    /\ \A f \in File : blob[f] \in {blob'[f], "whole"}
    /\ damaged' = damaged \cup {f \in File : blob'[f] # blob[f]}
    /\ tmps' \in SUBSET tmps
    /\ UNCHANGED <<recs, used, leaked, faults>>

Next ==
    \/ \E p \in Proc, f \in File : UploadBegin(p, f) \/ DeleteFind(p, f) \/ StreamFind(p, f)
    \/ \E p \in Proc :
          \/ Copy(p) \/ CopyFails(p) \/ Rename(p) \/ RenameFails(p) \/ RemoveTmp(p)
          \/ Insert(p) \/ InsertFails(p) \/ RemoveBlob(p) \/ RemoveIsLost(p)
          \/ DeleteRecord(p) \/ DeleteFails(p) \/ StreamOpen(p) \/ StreamSend(p)
    \/ Kill \/ PowerLoss

Spec == Init /\ [][Next]_vars

----------------------------------------------------------------------------
(* Properties.                                                             *)

CallState ==
    {"idle", "copy", "rename", "removeTmp", "insert", "removeBlob", "delete", "open", "send"}

\* Every variable keeps its type, and who writes a blob is alone with it.
TypeOK ==
    /\ tmps \subseteq used /\ used \subseteq File
    /\ recs \subseteq used /\ damaged \subseteq used
    /\ blob \in [File -> {"none", "whole", "cut"}]
    /\ call \in [Proc -> [pc : CallState, file : File \cup {NoFile}]]
    /\ \A p \in Proc : (call[p].pc = "idle") <=> (call[p].file = NoFile)
    /\ \A p \in Proc : call[p].pc \in {"copy", "rename", "removeTmp"} => call[p].file \in tmps
    /\ leaked \in 0 .. faults /\ crashes \in 0 .. MaxCrashes /\ faults \in 0 .. MaxFaults

\* Every file that is listed can be downloaded whole, at any moment of
\* uploads, deletions, errors and kills, unless the power failed (the order of Upload and of Delete).
ListedIsWhole == \A f \in recs \ damaged : blob[f] = "whole"

\* What has failed cleans up after itself: with nobody at work, there is no
\* .tmp file and no blob without a record, as long as the process was not
\* killed and os.Remove works (the error returns of Upload, Delete).
NoGarbage ==
    (\A p \in Proc : At(p, "idle")) /\ crashes = 0 /\ leaked = 0 =>
        tmps = {} /\ \A f \in File : blob[f] # "none" => f \in recs

----------------------------------------------------------------------------
(* What a document or a comment says and the code does not do: TLC refutes *)
(* each of these statements.                                               *)

\* An upload has happened or has not: with nobody at work, what is listed
\* can be downloaded.  docs/files.md says that uploads are atomic.
UploadIsAtomic ==
    (\A p \in Proc : At(p, "idle")) => \A f \in recs : blob[f] = "whole"
=============================================================================
