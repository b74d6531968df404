---------------------------- MODULE DelayedBook ----------------------------
(***************************************************************************)
(* What the path from an exchange to a subscriber promises: the subscriber *)
(* sees books the exchange really had, in the order in which it had them.  *)
(* It may see them late and it may miss some, but it sees no book that     *)
(* never was and none that is older than one it has seen.                  *)
(***************************************************************************)
EXTENDS Naturals, Sequences

VARIABLES
  truth,    \* the exchange's book
  versions  \* the subscriber's book, then one for each message on its way

DInit == versions = <<truth>>

\* The exchange's book is what it now is, and the subscriber is told or not.
Tell == versions' \in {versions, Append(versions, truth')}

\* The exchange says something that is not about its book.
Talk ==
  /\ versions' = Append(versions, versions[Len(versions)])
  /\ UNCHANGED truth

\* The subscriber goes on to the next book.
Take ==
  /\ Len(versions) > 1
  /\ versions' = Tail(versions)
  /\ UNCHANGED truth

\* All messages after the first few are lost.
CutOff ==
  /\ versions' \in {SubSeq(versions, 1, n) : n \in 1..Len(versions)}
  /\ UNCHANGED truth

\* The message that was to bring book i + 1 is lost, without trace (gone = 1)
\* or with something in its place that is not about the book (gone = 0).  Book
\* i stays, up to and including j, until a message that tells the whole book.
Missing(u, i, j, gone) ==
  [k \in 1..Len(u) - gone |->
     IF k <= i THEN u[k] ELSE IF k + gone <= j THEN u[i] ELSE u[k + gone]]
Lossy(u) ==
  {Missing(u, i, j, gone) : i \in 1..Len(u) - 1, j \in 1..Len(u), gone \in {0, 1}}
Miss ==
  /\ versions' \in Lossy(versions)
  /\ UNCHANGED truth

DNext == Tell \/ Talk \/ Take \/ CutOff \/ Miss
DSpec == DInit /\ [][DNext]_<<truth, versions>>
=============================================================================
