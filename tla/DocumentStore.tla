--------------------------- MODULE DocumentStore ----------------------------
(***************************************************************************)
(* What the documents of a loan promise to the browser: a download either  *)
(* answers with the file or says that there is no such document.  Nothing  *)
(* here knows that a document is a row and a file.                         *)
(***************************************************************************)
CONSTANTS Loan, Document

VARIABLES
    loans,   \* where each loan is in its life
    answer   \* what the download of a document of a loan answers

vars == <<loans, answer>>

-----------------------------------------------------------------------------
Doc == Loan \X Document

TypeOK ==
    /\ loans \in [Loan -> {"unused", "live", "gone"}]
    /\ answer \in [Doc -> {"document not found", "file"}]

Init ==
    /\ loans = [n \in Loan |-> "unused"]
    /\ answer = [d \in Doc |-> "document not found"]

\* The documents of a loan, as the loan's page lists them.
Listed(n) == {d \in Doc : d[1] = n /\ answer[d] = "file"}

CreateLoan(n) ==
    /\ loans[n] = "unused"
    /\ loans' = [loans EXCEPT ![n] = "live"]
    /\ UNCHANGED answer

\* A document is there at once, on a loan that is there.
Upload(d) ==
    /\ loans[d[1]] = "live"
    /\ answer[d] = "document not found"
    /\ answer' = [answer EXCEPT ![d] = "file"]
    /\ UNCHANGED loans

Delete(d) ==
    /\ answer[d] = "file"
    /\ answer' = [answer EXCEPT ![d] = "document not found"]
    /\ UNCHANGED loans

\* A loan takes all its documents with it.
DeleteLoan(n) ==
    /\ loans[n] = "live"
    /\ loans' = [loans EXCEPT ![n] = "gone"]
    /\ answer' = [d \in Doc |-> IF d \in Listed(n) THEN "document not found" ELSE answer[d]]

Next ==
    \/ \E n \in Loan : CreateLoan(n) \/ DeleteLoan(n)
    \/ \E d \in Doc : Upload(d) \/ Delete(d)

Spec == Init /\ [][Next]_vars
=============================================================================
