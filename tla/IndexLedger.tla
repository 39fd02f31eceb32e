----------------------------- MODULE IndexLedger -----------------------------
(***************************************************************************)
(* What indexing promises, seen from the graph alone: every novel (tenant) *)
(* has a ledger of completed chapters that grows by exactly the next       *)
(* chapter, one writer works at a time over all novels, and a chapter that *)
(* is in the ledger is never worked on again.                              *)
(***************************************************************************)
EXTENDS Naturals

CONSTANTS Tenants, MaxEpisode

VARIABLES
  book,     \* book[t]: the chapters of novel t whose indexing completed
  writing   \* <<t, n>> while chapter n of t is being worked on, else <<>>

ledgerVars == <<book, writing>>

LedgerInit ==
  /\ book \in [Tenants -> {1 .. k : k \in 0 .. MaxEpisode}]
  /\ writing = <<>>

\* Work starts on the chapter right after the completed ones.
Begin(t, n) ==
  /\ writing = <<>>
  /\ book[t] = 1 .. (n - 1)
  /\ writing' = <<t, n>>
  /\ UNCHANGED book

\* The chapter being worked on enters the ledger, in one write.
Commit ==
  /\ writing # <<>>
  /\ book' = [book EXCEPT ![writing[1]] = @ \cup {writing[2]}]
  /\ writing' = <<>>

\* The work fails or the server dies: the ledger is as it was.
Abandon ==
  /\ writing # <<>>
  /\ writing' = <<>>
  /\ UNCHANGED book

LedgerNext ==
  \/ \E t \in Tenants, n \in 1 .. MaxEpisode : Begin(t, n)
  \/ Commit
  \/ Abandon

LedgerSpec == LedgerInit /\ [][LedgerNext]_ledgerVars

=============================================================================
