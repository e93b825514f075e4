--------------------------- MODULE LoanDocuments ----------------------------
(***************************************************************************)
(* The documents attached to a loan: a file on the data volume and a row   *)
(* that describes it, written and removed by separate steps of requests    *)
(* that overlap and may stop anywhere.                                     *)
(*                                                                         *)
(* The upload is a coroutine: between two of its awaits no other coroutine *)
(* runs, so of two uploads only the reading of the body overlaps.  The two *)
(* deletions run in worker threads and overlap with everything.            *)
(*                                                                         *)
(* Abstracted: what is in a file, its type, size and names; a body that is *)
(* refused for these is an upload that stops.  The rest of a loan is       *)
(* module Planning's.                                                      *)
(***************************************************************************)
EXTENDS Integers, FiniteSets

CONSTANTS
    Loan,        \* ids of loans, each used once
    Document,    \* generated names, each used once
    Request,     \* slots for requests in flight
    MaxPerLoan   \* attachment_max_per_loan

ASSUME DocumentsAssumption ==
    /\ MaxPerLoan \in Nat \ {0}
    /\ IsFiniteSet(Document) /\ IsFiniteSet(Request)

VARIABLES
    loans,    \* table loan
    rows,     \* table loan_document: pairs of loan and document
    files,    \* the files, each in the directory of its loan
    named,    \* the names generated so far
    request   \* the requests in flight

vars == <<loans, rows, files, named, request>>

-----------------------------------------------------------------------------
Doc == Loan \X Document

\* A free slot: nothing yet or a request that ran through, or one that stopped
\* half way (which of the two is history, read by no action).
Idle == [step |-> "idle"]
Stopped == [step |-> "stopped"]
Free == {Idle, Stopped}

\* Where a request in flight is: an upload awaits its body or has stored its
\* file; the deletion of a document has loaded its row or deleted it; the
\* deletion of a loan has loaded the loan's rows or is done with the database.
InFlight ==
    [step : {"reading"}, loan : Loan]
    \cup [step : {"stored", "loaded", "forgotten"}, doc : Doc]
    \cup [step : {"dropping"}, loan : Loan, seen : SUBSET Doc]
    \cup [step : {"dropped"}, loan : Loan]

TypeOK ==
    /\ loans \in [Loan -> {"unused", "live", "gone"}]
    /\ rows \subseteq Doc /\ files \subseteq Doc
    /\ named \subseteq Document
    /\ request \in [Request -> InFlight \cup Free]

Init ==
    /\ loans = [n \in Loan |-> "unused"]
    /\ rows = {} /\ files = {} /\ named = {}
    /\ request = [r \in Request |-> Idle]

RowsOf(n) == {d \in rows : d[1] = n}
FilesOf(n) == {d \in files : d[1] = n}

Becomes(r, q) == request' = [request EXCEPT ![r] = q]

AddLoan(n) ==
    /\ loans[n] = "unused"
    /\ loans' = [loans EXCEPT ![n] = "live"]
    /\ UNCHANGED <<rows, files, named, request>>

-----------------------------------------------------------------------------
(* Uploading                                                               *)

\* No upload is between storing its file and committing its row.
LoopFree == \A r \in Request : request[r].step # "stored"

\* Mutant: one document too many fits.
FullOffByOne(n) == Cardinality(RowsOf(n)) > MaxPerLoan

Full(n) == Cardinality(RowsOf(n)) >= MaxPerLoan

\* The loan and the number of its documents are looked at before the body is
\* awaited, and not again.
StartUpload(r, n) ==
    /\ LoopFree
    /\ request[r] \in Free
    /\ loans[n] = "live"
    /\ ~Full(n)
    /\ Becomes(r, [step |-> "reading", loan |-> n])
    /\ UNCHANGED <<loans, rows, files, named>>

\* Each loan has a directory of its own.
Path(n, name) == <<n, name>>

\* The file comes first, in a directory that is made if it is not there.
StoreFile(r, name) ==
    /\ LoopFree
    /\ request[r].step = "reading"
    /\ name \notin named
    /\ LET d == Path(request[r].loan, name)
       IN  /\ files' = files \cup {d}
           /\ Becomes(r, [step |-> "stored", doc |-> d])
    /\ named' = named \cup {name}
    /\ UNCHANGED <<loans, rows>>

\* The foreign key refuses the row of a loan that is gone by now.
InsertRow(r) ==
    /\ request[r].step = "stored"
    /\ LET d == request[r].doc
       IN  rows' = IF loans[d[1]] = "live" THEN rows \cup {d} ELSE rows
    /\ Becomes(r, Idle)
    /\ UNCHANGED <<loans, files, named>>

-----------------------------------------------------------------------------
(* Deleting a document, and a loan                                         *)

StartDelete(r, d) ==
    /\ request[r] \in Free
    /\ d \in rows
    /\ Becomes(r, [step |-> "loaded", doc |-> d])
    /\ UNCHANGED <<loans, rows, files, named>>

\* Mutant: the file goes first.
RemoveFileFirst(r) ==
    /\ request[r].step = "loaded"
    /\ files' = files \ {request[r].doc}
    /\ Becomes(r, [step |-> "forgotten", doc |-> request[r].doc])
    /\ UNCHANGED <<loans, rows, named>>

\* A row another request deleted meanwhile is no error.
DeleteRow(r) ==
    /\ request[r].step = "loaded"
    /\ rows' = rows \ {request[r].doc}
    /\ Becomes(r, [step |-> "forgotten", doc |-> request[r].doc])
    /\ UNCHANGED <<loans, files, named>>

\* Mutant: the file is left where it is.
LeaveFile(r) ==
    /\ request[r].step = "forgotten"
    /\ Becomes(r, Idle)
    /\ UNCHANGED <<loans, rows, files, named>>

UnlinkFile(r) ==
    /\ request[r].step = "forgotten"
    /\ files' = files \ {request[r].doc}
    /\ Becomes(r, Idle)
    /\ UNCHANGED <<loans, rows, named>>

\* The button is on the page of a loan, which may be gone when it is pressed:
\* the directory is removed all the same.
StartDeleteLoan(r, n) ==
    /\ request[r] \in Free
    /\ loans[n] # "unused"
    /\ Becomes(r, IF loans[n] = "live"
                  THEN [step |-> "dropping", loan |-> n, seen |-> RowsOf(n)]
                  ELSE [step |-> "dropped", loan |-> n])
    /\ UNCHANGED <<loans, rows, files, named>>

\* Mutant: nobody enforces the foreign key.
DropSeenRows(r) ==
    /\ request[r].step = "dropping"
    /\ LET q == request[r]
       IN  /\ loans' = [loans EXCEPT ![q.loan] = "gone"]
           /\ rows' = rows \ q.seen
           /\ Becomes(r, [step |-> "dropped", loan |-> q.loan])
    /\ UNCHANGED <<files, named>>

\* One transaction deletes the rows that were loaded and the loan.  The foreign
\* key refuses as long as other rows of the loan are there, and a loan another
\* request deleted meanwhile is no error.
DropLoan(r) ==
    /\ request[r].step = "dropping"
    /\ LET q == request[r]
       IN  /\ RowsOf(q.loan) \subseteq q.seen
           /\ loans' = [loans EXCEPT ![q.loan] = "gone"]
           /\ rows' = rows \ q.seen
           /\ Becomes(r, [step |-> "dropped", loan |-> q.loan])
    /\ UNCHANGED <<files, named>>

RemoveDirectory(r) ==
    /\ request[r].step = "dropped"
    /\ files' = files \ FilesOf(request[r].loan)
    /\ Becomes(r, Idle)
    /\ UNCHANGED <<loans, rows, named>>

\* An exception, a refusal or a restart ends a request where it is.
Stop(r) ==
    /\ request[r] \notin Free
    /\ Becomes(r, Stopped)
    /\ UNCHANGED <<loans, rows, files, named>>

Next ==
    \/ \E n \in Loan : AddLoan(n)
    \/ \E r \in Request :
          \/ \E n \in Loan : StartUpload(r, n) \/ StartDeleteLoan(r, n)
          \/ \E name \in Document : StoreFile(r, name)
          \/ \E d \in Doc : StartDelete(r, d)
          \/ InsertRow(r)
          \/ DeleteRow(r) \/ UnlinkFile(r)
          \/ DropLoan(r) \/ RemoveDirectory(r)
          \/ Stop(r)

Spec == Init /\ [][Next]_vars

-----------------------------------------------------------------------------
(* What the documents promise                                              *)

\* What a download answers.
Answer(d) ==
    IF d \notin rows THEN "document not found"
    ELSE IF d \in files THEN "file"
    ELSE "file missing"

\* However requests overlap and wherever they stop, the rows and files are a
\* store of whole documents: the download of a document the page lists never
\* answers that its file is missing, and a loan takes its documents with it
\* (api/endpoints/planning/loans.py, upload_loan_document,
\* download_loan_document, delete_loan).
Store == INSTANCE DocumentStore WITH answer <- [d \in Doc |-> Answer(d)]

ImplementsStore == Store!Spec

Uploading(n) ==
    {r \in Request : \/ request[r].step = "reading" /\ request[r].loan = n
                     \/ request[r].step = "stored" /\ request[r].doc[1] = n}

\* The number of documents is capped before the body is awaited: uploads that
\* overlap can pass the cap, but by no more than the others in flight, and one
\* at a time never does (upload_loan_document, attachment_max_per_loan).
CapHolds ==
    \A n \in Loan :
        Cardinality(RowsOf(n)) + Cardinality(Uploading(n)) <= MaxPerLoan + Cardinality(Request) - 1

\* A file nobody will look for again: it has no row, and no request in flight is
\* about to add the row or remove the file.
Stray(d) ==
    /\ d \in files \ rows
    /\ \A r \in Request :
          /\ request[r].step \in {"stored", "forgotten"} => request[r].doc # d
          /\ request[r].step = "dropped" => request[r].loan # d[1]

\* A file is left behind only by a request that stopped half way, or by an
\* upload that was refused because the loan was deleted under it.
StrayExplained ==
    \A d \in Doc : Stray(d)' /\ ~Stray(d) =>
        \E r \in Request :
            \/ request[r] # Stopped /\ request'[r] = Stopped
            \/ request[r].step = "stored" /\ loans[request[r].doc[1]] = "gone"

FilesAccounted == [][StrayExplained]_vars

-----------------------------------------------------------------------------
(* Why they hold                                                           *)

\* A row has a file and a loan, and names are never used twice.
StoreSound ==
    /\ rows \subseteq files
    /\ \A d \in rows : loans[d[1]] = "live"
    /\ \A d \in files : d[2] \in named

\* What a request in flight relies on: only it knows the file it stored, the row
\* it deleted stays deleted, and a loan it dropped stays gone.
RequestsSound ==
    \A r \in Request : LET q == request[r] IN
        /\ q.step = "reading" => loans[q.loan] # "unused"
        /\ q.step = "stored" =>
              /\ loans[q.doc[1]] # "unused"
              /\ q.doc \notin rows
              /\ q.doc[2] \in named
              /\ loans[q.doc[1]] = "live" => q.doc \in files
              /\ \A s \in Request : request[s].step \in {"stored", "loaded", "forgotten"}
                                     /\ s # r => request[s].doc # q.doc
        /\ q.step \in {"loaded", "forgotten"} => q.doc[2] \in named
        /\ q.step = "forgotten" => q.doc \notin rows
        /\ q.step = "dropping" =>
              loans[q.loan] # "unused" /\ \A d \in q.seen : d[1] = q.loan
        /\ q.step = "dropped" => loans[q.loan] = "gone"

IInv == TypeOK /\ StoreSound /\ RequestsSound
=============================================================================
